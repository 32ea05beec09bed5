----------------------------- MODULE ContentProofs -----------------------------
(***************************************************************************)
(* The content behaviour for any peers, addresses, limits and blocks.      *)
(*                                                                         *)
(* The rate limit: what a peer is granted while it stays connected is      *)
(* bounded by its one address's arrival time and by when the limiter last  *)
(* forgot that address, neither of which gets more than a period ahead of  *)
(* the clock.                                                              *)
(*                                                                         *)
(* The walk of missing_blocks: it collects exactly what is missing, and    *)
(* what it has yet to visit goes down.                                     *)
(***************************************************************************)
EXTENDS ContentLimits, MissingBlocks, TLAPS

-------------------------------------------------------------------------------
(* The rate limit *)

\* At the time n: neither the arrival time t of an address nor the end e of its
\* entry is more than a period away, and t is from before e.
KeySound(n, t, e) == t <= n + Period /\ e <= n + Period /\ t <= e + Period

\* What a peer that is connected since s was granted, u, when its address has
\* arrival time t in an entry that ends at e.  If the entry is older than the
\* connection all of u went into t.  Otherwise entries were forgotten since:
\* those took at most 2 * (e - s) - Period, the rest went into t.
SessionSound(n, t, e, s, u) ==
  /\ s <= n
  /\ u > 0 => s < e
  /\ e - Period <= s => u = 0 \/ u <= t - s
  /\ e - Period > s => u <= e - 2 * s + t \/ u <= 2 * (e - s) - Period

KeyInv == \A a \in Addresses : KeySound(now, tat[a], expires[a])

SessionInv ==
  \A p \in Peers :
    IF connections[p] > 0
    THEN SessionSound(now, tat[peer_addresses[p]], expires[peer_addresses[p]], since[p], used[p])
    ELSE used[p] = 0

LimitsInv == LimitsTypeOK /\ KeyInv /\ SessionInv /\ ConnectedHaveAddress

-------------------------------------------------------------------------------
\* A cost takes a natural number of time units to refill.
LEMMA IncrementNat ==
  ASSUME rate_limit \in Nat, rate_limit # 0, NEW cost \in Nat
  PROVE  Increment(cost) \in Nat
<1>1. Period * cost \in Nat
  BY LimitsAssumption
<1>2. \A n \in Nat, d \in Nat \ {0} : n \div d \in Nat
  OBVIOUS
<1> QED
  BY <1>1, <1>2 DEF Increment

\* add_at in plain numbers: an address with arrival time t and an entry that ends
\* at e is asked for the cost inc at the time n.
NewEnd(n, e) == IF n < e THEN e ELSE n + Period
Base(n, t, e) == IF n < e THEN t ELSE 0
Moved(n, t, e, inc) == (IF Base(n, t, e) < n THEN n ELSE Base(n, t, e)) + inc
Fits(n, t, e, inc) == inc <= Period /\ Moved(n, t, e, inc) - Period <= n
NewTat(n, t, e, inc) == IF Fits(n, t, e, inc) THEN Moved(n, t, e, inc) ELSE Base(n, t, e)

\* It keeps an address sound, and a session, whether the cost is granted to it or
\* to another one.
LEMMA AddArithmetic ==
  ASSUME NEW n \in Nat, NEW t \in Nat, NEW e \in Nat, NEW inc \in Nat, KeySound(n, t, e)
  PROVE  /\ NewTat(n, t, e, inc) \in Nat /\ NewEnd(n, e) \in Nat
         /\ KeySound(n, NewTat(n, t, e, inc), NewEnd(n, e))
         /\ \A s, u \in Nat : SessionSound(n, t, e, s, u) =>
              /\ SessionSound(n, NewTat(n, t, e, inc), NewEnd(n, e), s, u)
              /\ Fits(n, t, e, inc) =>
                   SessionSound(n, NewTat(n, t, e, inc), NewEnd(n, e), s, u + inc)
<1> USE LimitsAssumption DEF KeySound, SessionSound
<1> DEFINE t1 == NewTat(n, t, e, inc)
           e1 == NewEnd(n, e)
<1>1. CASE n < e
  <2>1. e1 = e
    BY <1>1 DEF NewEnd
  <2>2. CASE Fits(n, t, e, inc)
    <3>1. t1 = (IF t < n THEN n ELSE t) + inc /\ t1 - Period <= n
      BY <1>1, <2>2 DEF NewTat, Fits, Moved, Base
    <3> HIDE DEF t1, e1
    <3> QED
      BY <1>1, <2>1, <2>2, <3>1 DEF t1, e1
  <2>3. CASE ~Fits(n, t, e, inc)
    <3>1. t1 = t
      BY <1>1, <2>3 DEF NewTat, Base
    <3> QED
      BY <1>1, <2>1, <2>3, <3>1
  <2> QED
    BY <2>2, <2>3
<1>2. CASE ~(n < e)
  <2>1. e1 = n + Period
    BY <1>2 DEF NewEnd
  <2>2. CASE Fits(n, t, e, inc)
    <3>1. t1 = n + inc /\ inc <= Period
      BY <1>2, <2>2 DEF NewTat, Fits, Moved, Base
    <3> QED
      BY <1>2, <2>1, <2>2, <3>1
  <2>3. CASE ~Fits(n, t, e, inc)
    <3>1. t1 = 0
      BY <1>2, <2>3 DEF NewTat, Base
    <3> QED
      BY <1>2, <2>1, <2>3, <3>1
  <2> QED
    BY <2>2, <2>3
<1> QED
  BY <1>1, <1>2

\* add_at keeps the types and every address sound, and every session, whether the
\* peer is granted the cost or another one is.
LEMMA AddKeeps ==
  ASSUME LimitsTypeOK, KeyInv, rate_limit # 0,
         NEW a \in Addresses, NEW cost \in Nat, AddAt(a, cost)
  PROVE  /\ tat' \in [Addresses -> Nat] /\ expires' \in [Addresses -> Nat]
         /\ \A b \in Addresses : KeySound(now, tat'[b], expires'[b])
         /\ \A b \in Addresses, s, u \in Nat :
              SessionSound(now, tat[b], expires[b], s, u)
                => SessionSound(now, tat'[b], expires'[b], s, u)
         /\ WithinLimit(a, cost) =>
              \A s, u \in Nat : SessionSound(now, tat[a], expires[a], s, u)
                => SessionSound(now, tat'[a], expires'[a], s, u + Increment(cost))
<1>1. now \in Nat /\ tat \in [Addresses -> Nat] /\ expires \in [Addresses -> Nat]
  BY DEF LimitsTypeOK
<1>2. PICK n \in Nat, t \in Nat, e \in Nat, inc \in Nat :
        n = now /\ t = tat[a] /\ e = expires[a] /\ inc = Increment(cost)
  BY <1>1, IncrementNat DEF LimitsTypeOK
<1>3. WithinLimit(a, cost) <=> Fits(n, t, e, inc)
  BY <1>2 DEF WithinLimit, Fits, Later, Moved, TatOf, IsKept, Base
<1>4. tat' = [tat EXCEPT ![a] = NewTat(n, t, e, inc)]
  BY <1>2, <1>3 DEF AddAt, NewTat, Later, Moved, TatOf, IsKept, Base
<1>5. expires' = [expires EXCEPT ![a] = NewEnd(n, e)]
  BY <1>2 DEF AddAt, NewEnd, IsKept
<1>6. \A b \in Addresses : KeySound(now, tat[b], expires[b])
  BY DEF KeyInv
<1>7. KeySound(n, t, e)
  BY <1>2, <1>6
<1>8. /\ NewTat(n, t, e, inc) \in Nat /\ NewEnd(n, e) \in Nat
      /\ KeySound(n, NewTat(n, t, e, inc), NewEnd(n, e))
      /\ \A s, u \in Nat : SessionSound(n, t, e, s, u) =>
           /\ SessionSound(n, NewTat(n, t, e, inc), NewEnd(n, e), s, u)
           /\ Fits(n, t, e, inc) => SessionSound(n, NewTat(n, t, e, inc), NewEnd(n, e), s, u + inc)
  BY <1>7, AddArithmetic, ZenonT(30)
<1>9. tat' \in [Addresses -> Nat] /\ expires' \in [Addresses -> Nat]
  BY <1>1, <1>4, <1>5, <1>8
<1>10. tat'[a] = NewTat(n, t, e, inc) /\ expires'[a] = NewEnd(n, e)
  BY <1>1, <1>4, <1>5
<1>11. \A b \in Addresses \ {a} : tat'[b] = tat[b] /\ expires'[b] = expires[b]
  BY <1>1, <1>4, <1>5
<1>12. \A b \in Addresses : KeySound(now, tat'[b], expires'[b])
  BY <1>2, <1>6, <1>8, <1>10, <1>11, ZenonT(30)
<1>13. \A b \in Addresses, s, u \in Nat :
         SessionSound(now, tat[b], expires[b], s, u) => SessionSound(now, tat'[b], expires'[b], s, u)
  BY <1>2, <1>8, <1>10, <1>11, ZenonT(30)
<1>14. WithinLimit(a, cost) =>
         \A s, u \in Nat : SessionSound(now, tat[a], expires[a], s, u)
           => SessionSound(now, tat'[a], expires'[a], s, u + Increment(cost))
  BY <1>2, <1>3, <1>8, <1>10, ZenonT(30)
<1> QED
  BY <1>9, <1>12, <1>13, <1>14, ZenonT(30)

\* The limiter's state starts empty, and nobody is connected.
LEMMA LimitsInitially == LimitsInit => LimitsInv
<1> SUFFICES ASSUME LimitsInit PROVE LimitsInv
  OBVIOUS
<1>1. PICK bytes \in Limits : rate_limit = LimitFrom(bytes)
  BY DEF LimitsInit
<1>2. rate_limit \in Nat
  BY <1>1, LimitsAssumption DEF LimitFrom
<1>3. LimitsTypeOK
  BY <1>2 DEF LimitsInit, LimitsTypeOK
<1>4. KeyInv
  BY LimitsAssumption DEF LimitsInit, KeyInv, KeySound
<1>5. ASSUME NEW p \in Peers
      PROVE  ~(connections[p] > 0) /\ peer_addresses[p] = NoAddress /\ used[p] = 0
  BY DEF LimitsInit
<1>6. SessionInv
  BY <1>5, ZenonT(30) DEF SessionInv
<1>7. ConnectedHaveAddress
  BY <1>5, ZenonT(30) DEF ConnectedHaveAddress
<1> QED
  BY <1>3, <1>4, <1>6, <1>7 DEF LimitsInv

\* A peer that is not connected opens its first connection.
LEMMA FirstConnection ==
  ASSUME LimitsInv, NEW p \in Peers, NEW a \in Addresses, ConnectionEstablished(p, a),
         connections[p] = 0
  PROVE  SessionInv'
<1>T. LimitsTypeOK /\ KeyInv /\ SessionInv
  BY DEF LimitsInv
<1>1. /\ peer_addresses'[p] = a /\ since'[p] = now /\ used'[p] = used[p]
      /\ \A q \in Peers \ {p} : /\ peer_addresses'[q] = peer_addresses[q]
                               /\ since'[q] = since[q] /\ used'[q] = used[q]
                               /\ connections'[q] = connections[q]
  BY <1>T DEF LimitsTypeOK, ConnectionEstablished
<1>2. connections'[p] > 0 /\ UNCHANGED <<now, tat, expires>>
  BY <1>T DEF LimitsTypeOK, ConnectionEstablished
<1>3. used[p] = 0
  BY <1>T DEF SessionInv
<1>4. KeySound(now, tat[a], expires[a]) /\ now \in Nat /\ tat[a] \in Nat /\ expires[a] \in Nat
  BY <1>T DEF KeyInv, LimitsTypeOK
<1>5. SessionSound(now, tat[a], expires[a], now, 0)
  BY <1>4, LimitsAssumption DEF KeySound, SessionSound
<1> QED
  BY <1>1, <1>2, <1>3, <1>5, <1>T, ZenonT(30) DEF SessionInv

\* Any other connection that is opened or closed leaves the sessions alone or
\* ends one.
LEMMA OtherConnection ==
  ASSUME LimitsInv, NEW p \in Peers, connections[p] > 0,
         (\E a \in Addresses : ConnectionEstablished(p, a)) \/ ConnectionClosed(p)
  PROVE  SessionInv'
<1>T. LimitsTypeOK /\ SessionInv
  BY DEF LimitsInv
<1>1. UNCHANGED <<now, tat, expires>>
  BY DEF ConnectionEstablished, ConnectionClosed
<1>2. \A q \in Peers \ {p} : /\ peer_addresses'[q] = peer_addresses[q]
                            /\ since'[q] = since[q] /\ used'[q] = used[q]
                            /\ connections'[q] = connections[q]
  BY <1>T DEF LimitsTypeOK, ConnectionEstablished, ConnectionClosed, historyVars
<1>3. \/ ~(connections'[p] > 0) /\ used'[p] = 0
      \/ /\ connections'[p] > 0
         /\ peer_addresses'[p] = peer_addresses[p] /\ since'[p] = since[p] /\ used'[p] = used[p]
  BY <1>T DEF LimitsTypeOK, ConnectionEstablished, ConnectionClosed, historyVars
<1> QED
  BY <1>1, <1>2, <1>3, <1>T, ZenonT(30) DEF SessionInv

\* A peer opens or closes a connection.
LEMMA ConnectionStep ==
  ASSUME LimitsInv, NEW p \in Peers,
         (\E a \in Addresses : ConnectionEstablished(p, a)) \/ ConnectionClosed(p)
  PROVE  LimitsInv'
<1> USE LimitsAssumption
<1>T. LimitsTypeOK /\ KeyInv /\ SessionInv /\ ConnectedHaveAddress
  BY DEF LimitsInv
<1>1. UNCHANGED <<now, rate_limit, tat, expires, serving, mailbox>>
  BY DEF ConnectionEstablished, ConnectionClosed
<1>2. LimitsTypeOK'
  <2>1. /\ connections \in [Peers -> Nat] /\ since \in [Peers -> Nat] /\ used \in [Peers -> Nat]
        /\ peer_addresses \in [Peers -> Addresses \cup {NoAddress}] /\ now \in Nat
    BY <1>T DEF LimitsTypeOK
  <2>2. CASE ConnectionClosed(p)
    <3>1. connections' \in [Peers -> Nat]
      BY <2>1, <2>2 DEF ConnectionClosed
    <3>2. CASE UNCHANGED <<peer_addresses, since, used>>
      BY <1>1, <1>T, <3>1, <3>2, ZenonT(30) DEF LimitsTypeOK
    <3>3. CASE /\ peer_addresses' = [peer_addresses EXCEPT ![p] = NoAddress]
               /\ since' = [since EXCEPT ![p] = 0] /\ used' = [used EXCEPT ![p] = 0]
      <4>1. /\ peer_addresses' \in [Peers -> Addresses \cup {NoAddress}]
            /\ since' \in [Peers -> Nat] /\ used' \in [Peers -> Nat]
        BY <2>1, <3>3
      <4> QED
        BY <1>1, <1>T, <3>1, <4>1, ZenonT(30) DEF LimitsTypeOK
    <3> QED
      BY <2>2, <3>2, <3>3, ZenonT(30) DEF ConnectionClosed, historyVars
  <2>3. ASSUME NEW a \in Addresses, ConnectionEstablished(p, a) PROVE LimitsTypeOK'
    <3>1. connections' \in [Peers -> Nat] /\ used' = used
      BY <2>1, <2>3 DEF ConnectionEstablished
    <3>2. CASE UNCHANGED <<peer_addresses, since>>
      BY <1>1, <1>T, <3>1, <3>2, ZenonT(30) DEF LimitsTypeOK
    <3>3. CASE /\ peer_addresses' = [peer_addresses EXCEPT ![p] = a]
               /\ since' = [since EXCEPT ![p] = now]
      <4>1. /\ peer_addresses' \in [Peers -> Addresses \cup {NoAddress}]
            /\ since' \in [Peers -> Nat]
        BY <2>1, <3>3
      <4> QED
        BY <1>1, <1>T, <3>1, <4>1, ZenonT(30) DEF LimitsTypeOK
    <3> QED
      BY <2>3, <3>2, <3>3, ZenonT(30) DEF ConnectionEstablished
  <2> QED
    BY <2>2, <2>3
<1>3. KeyInv'
  BY <1>1, <1>T DEF KeyInv
<1>4. ConnectedHaveAddress'
  <2>1. CASE ConnectionClosed(p)
    BY <1>T, <2>1 DEF LimitsTypeOK, ConnectedHaveAddress, ConnectionClosed
  <2>2. ASSUME NEW a \in Addresses, ConnectionEstablished(p, a) PROVE ConnectedHaveAddress'
    BY <1>T, <2>2 DEF LimitsTypeOK, ConnectedHaveAddress, ConnectionEstablished, NoAddress
  <2> QED
    BY <2>1, <2>2
<1>5. CASE connections[p] > 0
  BY <1>2, <1>3, <1>4, <1>5, OtherConnection DEF LimitsInv
<1>6. CASE connections[p] = 0
  <2>1. PICK a \in Addresses : ConnectionEstablished(p, a)
    BY <1>6 DEF ConnectionClosed
  <2> QED
    BY <1>2, <1>3, <1>4, <1>6, <2>1, FirstConnection DEF LimitsInv
<1>7. connections[p] \in Nat
  BY <1>T DEF LimitsTypeOK
<1> QED
  BY <1>5, <1>6, <1>7

\* The queues of a behaviour keep to their elements.
LEMMA QueueType ==
  ASSUME NEW S, NEW queue \in Seq(S)
  PROVE  /\ \A e \in S : Append(queue, e) \in Seq(S)
         /\ queue # <<>> => Head(queue) \in S /\ Tail(queue) \in Seq(S)
  OBVIOUS

LEMMA GrantType ==
  ASSUME LimitsTypeOK, NEW p \in Peers, NEW cost, Increment(cost) \in Nat, Grant(p, cost)
  PROVE  used' \in [Peers -> Nat]
<1>1. PICK i \in Nat : i = Increment(cost)
  OBVIOUS
<1>2. used \in [Peers -> Nat] /\ used' = [used EXCEPT ![p] = @ + i]
  BY <1>1 DEF LimitsTypeOK, Grant
<1> QED
  BY <1>2

\* The limiter is asked for a connected peer, which is granted the cost or not.
LEMMA LimiterStep ==
  ASSUME LimitsInv, LimitsTypeOK', UNCHANGED <<now, connections, peer_addresses, since>>,
         rate_limit # 0, NEW p \in Peers, NEW cost \in Nat,
         peer_addresses[p] # NoAddress, AddAt(peer_addresses[p], cost),
         \/ UNCHANGED used
         \/ WithinLimit(peer_addresses[p], cost) /\ Grant(p, cost)
  PROVE  LimitsInv'
<1>T. LimitsTypeOK /\ KeyInv /\ SessionInv /\ ConnectedHaveAddress
  BY DEF LimitsInv
<1> DEFINE a == peer_addresses[p]
<1>1. a \in Addresses
  BY <1>T DEF LimitsTypeOK
<1>2. /\ \A b \in Addresses : KeySound(now, tat'[b], expires'[b])
      /\ \A b \in Addresses, s, u \in Nat :
           SessionSound(now, tat[b], expires[b], s, u) => SessionSound(now, tat'[b], expires'[b], s, u)
      /\ WithinLimit(a, cost) =>
           \A s, u \in Nat : SessionSound(now, tat[a], expires[a], s, u)
             => SessionSound(now, tat'[a], expires'[a], s, u + Increment(cost))
  BY <1>1, <1>T, AddKeeps
<1>3. KeyInv'
  BY <1>2 DEF KeyInv
<1>4. ConnectedHaveAddress'
  BY <1>T DEF ConnectedHaveAddress
<1>5. ASSUME NEW q \in Peers, connections[q] > 0
      PROVE  SessionSound(now, tat'[peer_addresses[q]], expires'[peer_addresses[q]], since[q], used'[q])
  <2>1. since[q] \in Nat /\ used[q] \in Nat /\ peer_addresses[q] \in Addresses
    BY <1>5, <1>T DEF LimitsTypeOK, ConnectedHaveAddress
  <2>2. SessionSound(now, tat[peer_addresses[q]], expires[peer_addresses[q]], since[q], used[q])
    BY <1>5, <1>T DEF SessionInv
  <2>3. CASE used'[q] = used[q]
    BY <1>2, <2>1, <2>2, <2>3, ZenonT(30)
  <2>4. CASE q = p /\ WithinLimit(a, cost) /\ used'[q] = used[q] + Increment(cost)
    BY <1>2, <2>1, <2>2, <2>4, ZenonT(30)
  <2> QED
    BY <2>3, <2>4, <1>T DEF Grant, LimitsTypeOK
<1>6. ASSUME NEW q \in Peers, ~(connections[q] > 0)
      PROVE  used'[q] = 0
  <2>1. used[q] = 0 /\ q # p
    BY <1>6, <1>T DEF SessionInv, ConnectedHaveAddress
  <2> QED
    BY <2>1, <1>T DEF Grant, LimitsTypeOK
<1>7. SessionInv'
  BY <1>5, <1>6, ZenonT(30) DEF SessionInv
<1> QED
  BY <1>3, <1>4, <1>7 DEF LimitsInv

\* Every step keeps the invariant.
LEMMA LimitsStep == LimitsInv /\ [LimitsNext]_limitVars => LimitsInv'
<1> SUFFICES ASSUME LimitsInv, [LimitsNext]_limitVars PROVE LimitsInv'
  OBVIOUS
<1> USE LimitsAssumption
<1>T. LimitsTypeOK /\ KeyInv /\ SessionInv /\ ConnectedHaveAddress
  BY DEF LimitsInv
<1>1. ASSUME NEW p \in Peers, (\E a \in Addresses : ConnectionEstablished(p, a)) \/ ConnectionClosed(p)
      PROVE  LimitsInv'
  BY <1>1, ConnectionStep
<1>K. ASSUME LimitsTypeOK', UNCHANGED <<now, connections, peer_addresses, tat, expires, since, used>>
      PROVE  LimitsInv'
  BY <1>K, <1>T, ZenonT(30) DEF LimitsInv, KeyInv, SessionInv, ConnectedHaveAddress
<1>2. ASSUME NEW p \in Peers, AdmitRequest(p) \/ RefuseRequest(p)
      PROVE  LimitsInv'
  <2>1. /\ rate_limit # 0 /\ connections[p] > 0 /\ CheckRateLimit(p)
        /\ UNCHANGED <<now, connections, peer_addresses, rate_limit, mailbox, since>>
        /\ \/ UNCHANGED <<used, serving>>
           \/ IsAllowed(p) /\ Grant(p, CidBytes) /\ serving' = Append(serving, p)
    BY <1>2 DEF AdmitRequest, RefuseRequest, historyVars
  <2>2. peer_addresses[p] # NoAddress
    BY <1>T, <2>1 DEF ConnectedHaveAddress
  <2>3. peer_addresses[p] \in Addresses
    BY <1>T, <2>2 DEF LimitsTypeOK
  <2>4. AddAt(peer_addresses[p], CidBytes) /\ (IsAllowed(p) => WithinLimit(peer_addresses[p], CidBytes))
    BY <2>1, <2>2 DEF CheckRateLimit, IsAllowed
  <2>5. tat' \in [Addresses -> Nat] /\ expires' \in [Addresses -> Nat]
    BY <1>T, <2>1, <2>3, <2>4, AddKeeps
  <2>6. Increment(CidBytes) \in Nat
    BY <1>T, <2>1, IncrementNat DEF LimitsTypeOK
  <2>7. used' \in [Peers -> Nat] /\ serving' \in Seq(Peers)
    <3>1. CASE UNCHANGED <<used, serving>>
      BY <1>T, <3>1 DEF LimitsTypeOK
    <3>2. CASE Grant(p, CidBytes) /\ serving' = Append(serving, p)
      <4>1. serving' \in Seq(Peers)
        BY <1>T, <3>2 DEF LimitsTypeOK
      <4>2. used' \in [Peers -> Nat]
        BY <1>T, <2>6, <3>2, GrantType
      <4> QED
        BY <4>1, <4>2
    <3> QED
      BY <2>1, <3>1, <3>2
  <2>8. LimitsTypeOK'
    BY <1>T, <2>1, <2>5, <2>7, ZenonT(30) DEF LimitsTypeOK
  <2> QED
    BY <2>1, <2>2, <2>4, <2>8, LimiterStep
<1>3. ASSUME NEW i \in 1..MaxServing, ForwardResponse(i)
      PROVE  LimitsInv'
  <2>1. serving \in Seq(Peers) /\ i \in DOMAIN serving
    BY <1>3, <1>T DEF LimitsTypeOK, ForwardResponse
  <2>2. serving[i] \in Peers
    BY <2>1
  <2>3. serving' \in Seq(Peers)
    <3>1. Len(serving) \in Nat /\ Len(serving) >= 1
      BY <2>1
    <3>2. \A j \in 1..(Len(serving) - 1) : serving[j] \in Peers /\ serving[j + 1] \in Peers
      BY <2>1, <3>1
    <3> QED
      BY <1>3, <2>1, <3>1, <3>2 DEF ForwardResponse, Without
  <2>4. mailbox' \in Seq(Peers \X Nat)
    <3>1. CASE UNCHANGED mailbox
      BY <3>1, <1>T DEF LimitsTypeOK
    <3>2. ASSUME NEW bytes \in BlockBytes, mailbox' = Append(mailbox, <<serving[i], bytes>>)
          PROVE  mailbox' \in Seq(Peers \X Nat)
      <4>1. <<serving[i], bytes>> \in Peers \X Nat
        BY <2>2, LimitsAssumption
      <4>2. mailbox \in Seq(Peers \X Nat)
        BY <1>T, ZenonT(30) DEF LimitsTypeOK
      <4> QED
        BY <3>2, <4>1, <4>2, QueueType, ZenonT(30)
    <3> QED
      BY <1>3, <3>1, <3>2, ZenonT(30) DEF ForwardResponse
  <2>5. UNCHANGED <<now, connections, peer_addresses, rate_limit, tat, expires, since, used>>
    BY <1>3, ZenonT(30) DEF ForwardResponse, historyVars
  <2>6. LimitsTypeOK'
    BY <1>T, <2>3, <2>4, <2>5, ZenonT(30) DEF LimitsTypeOK
  <2> QED
    BY <1>K, <2>5, <2>6, ZenonT(30)
<1>4. ASSUME RateLimitUsed
      PROVE  LimitsInv'
  <2>1. /\ mailbox # <<>> /\ mailbox' = Tail(mailbox)
        /\ UNCHANGED <<now, connections, peer_addresses, rate_limit, serving, since>>
    BY <1>4 DEF RateLimitUsed
  <2>2. Head(mailbox) \in Peers \X Nat /\ mailbox' \in Seq(Peers \X Nat)
    <3>1. mailbox \in Seq(Peers \X Nat)
      BY <1>T, ZenonT(30) DEF LimitsTypeOK
    <3> QED
      BY <2>1, <3>1, QueueType, ZenonT(30)
  <2>3. PICK p \in Peers, bytes \in Nat : p = Head(mailbox)[1] /\ bytes = Head(mailbox)[2]
    BY <2>2
  <2>4. CASE UNCHANGED <<tat, expires, used>>
    <3>1. LimitsTypeOK'
      BY <1>T, <2>1, <2>2, <2>4, ZenonT(30) DEF LimitsTypeOK
    <3> QED
      BY <1>K, <2>1, <2>4, <3>1
  <2>5. CASE /\ rate_limit # 0 /\ peer_addresses[p] # NoAddress /\ AddAt(peer_addresses[p], bytes)
             /\ UNCHANGED used \/ (WithinLimit(peer_addresses[p], bytes) /\ Grant(p, bytes))
    <3>1. peer_addresses[p] \in Addresses
      BY <1>T, <2>5 DEF LimitsTypeOK
    <3>2. tat' \in [Addresses -> Nat] /\ expires' \in [Addresses -> Nat]
      BY <1>T, <2>5, <3>1, AddKeeps
    <3>3. Increment(bytes) \in Nat
      BY <1>T, <2>5, IncrementNat DEF LimitsTypeOK
    <3>4. used' \in [Peers -> Nat]
      BY <1>T, <2>5, <3>3, GrantType DEF LimitsTypeOK
    <3>5. LimitsTypeOK'
      BY <1>T, <2>1, <2>2, <3>2, <3>4, ZenonT(30) DEF LimitsTypeOK
    <3> QED
      BY <2>1, <2>5, <3>5, LimiterStep
  <2> QED
    BY <1>4, <2>3, <2>4, <2>5 DEF RateLimitUsed
<1>5. ASSUME NEW bytes \in Limits, UpdateRateLimit(bytes)
      PROVE  LimitsInv'
  <2>1. rate_limit' \in Nat
    BY <1>5 DEF UpdateRateLimit, LimitFrom
  <2>2. LimitsTypeOK'
    BY <2>1, <1>5, <1>T, ZenonT(30) DEF LimitsTypeOK, UpdateRateLimit, historyVars
  <2> QED
    BY <1>5, <1>K, <2>2 DEF UpdateRateLimit, historyVars
<1>6. ASSUME Elapse
      PROVE  LimitsInv'
  <2>1. /\ now' = now + 1
        /\ UNCHANGED <<connections, peer_addresses, rate_limit, tat, expires, serving, mailbox, since, used>>
    BY <1>6 DEF Elapse, historyVars
  <2>2. LimitsTypeOK'
    BY <2>1, <1>T DEF LimitsTypeOK
  <2>3. KeyInv'
    BY <2>1, <1>T DEF LimitsTypeOK, KeyInv, KeySound
  <2>4. \A n, t, e, s, u \in Nat : SessionSound(n, t, e, s, u) => SessionSound(n + 1, t, e, s, u)
    BY DEF SessionSound
  <2>5. ASSUME NEW p \in Peers, connections[p] > 0
        PROVE  SessionSound(now', tat[peer_addresses[p]], expires[peer_addresses[p]], since[p], used[p])
    <3>1. /\ now \in Nat /\ since[p] \in Nat /\ used[p] \in Nat /\ peer_addresses[p] \in Addresses
          /\ tat[peer_addresses[p]] \in Nat /\ expires[peer_addresses[p]] \in Nat
      BY <2>5, <1>T DEF LimitsTypeOK, ConnectedHaveAddress
    <3>2. SessionSound(now, tat[peer_addresses[p]], expires[peer_addresses[p]], since[p], used[p])
      BY <2>5, <1>T DEF SessionInv
    <3> QED
      BY <2>1, <2>4, <3>1, <3>2, ZenonT(30)
  <2>6. SessionInv'
    BY <2>1, <2>5, <1>T, ZenonT(30) DEF SessionInv
  <2>7. ConnectedHaveAddress'
    BY <2>1, <1>T DEF ConnectedHaveAddress
  <2> QED
    BY <2>2, <2>3, <2>6, <2>7 DEF LimitsInv
<1>7. CASE UNCHANGED limitVars
  <2>1. LimitsTypeOK'
    BY <1>7, <1>T DEF LimitsTypeOK, limitVars, historyVars
  <2> QED
    BY <1>7, <1>K, <2>1 DEF limitVars, historyVars
<1> QED
  BY <1>1, <1>2, <1>3, <1>4, <1>5, <1>6, <1>7 DEF LimitsNext

LEMMA LimitsAlways == LimitsSpec => []LimitsInv
  BY LimitsInitially, LimitsStep, PTL DEF LimitsSpec

\* For every period, limits and block sizes, however the limit changes and whoever
\* shares the address: a peer that stays connected is granted at most what one
\* address is, whatever connections it opens and closes (content.rs:194-223).
THEOREM SessionsBounded == LimitsSpec => []SessionWithinAllowance
<1>1. ASSUME LimitsInv, NEW p \in Peers, connections[p] > 0
      PROVE  used[p] <= 2 * (now - since[p] + Period)
  <2> DEFINE a == peer_addresses[p]
  <2>1. /\ now \in Nat /\ since[p] \in Nat /\ used[p] \in Nat /\ a \in Addresses
        /\ tat[a] \in Nat /\ expires[a] \in Nat /\ Period \in Nat
    BY <1>1, LimitsAssumption DEF LimitsInv, LimitsTypeOK, ConnectedHaveAddress
  <2>2. KeySound(now, tat[a], expires[a])
    BY <1>1, <2>1 DEF LimitsInv, KeyInv
  <2>3. SessionSound(now, tat[a], expires[a], since[p], used[p])
    BY <1>1 DEF LimitsInv, SessionInv
  <2> QED
    BY <2>1, <2>2, <2>3 DEF KeySound, SessionSound
<1>2. LimitsInv => SessionWithinAllowance
  BY <1>1 DEF SessionWithinAllowance
<1> QED
  BY <1>2, LimitsAlways, PTL

\* Exactly the connected peers have an address to charge, so that no request of
\* theirs escapes the limiter (content.rs:194-223).
THEOREM ConnectedKnown == LimitsSpec => []ConnectedHaveAddress
<1>1. LimitsInv => ConnectedHaveAddress
  BY DEF LimitsInv
<1> QED
  BY <1>1, LimitsAlways, PTL

-------------------------------------------------------------------------------
(* The walk of missing_blocks *)

\* A walk in progress has dealt with the CIDs in some set: the ones in the store
\* were followed, the others collected.
DealtWith(done) ==
  /\ done \subseteq Cids
  /\ root \in done \cup Elements(stack)
  /\ \A c \in done \cap store : Elements(links[c]) \subseteq done \cup Elements(stack)
  /\ done \ store = Elements(missing)

\* What is on the stack or collected can be reached, and what was not dealt
\* with yet can only be reached through the stack.
WalkInv ==
  /\ BlocksTypeOK
  /\ Elements(stack) \subseteq Reached
  /\ Elements(missing) \subseteq Reached
  /\ \E done : DealtWith(done)
  /\ result = "ok" => stack = <<>>

\* Popping the top of a sequence takes at most that element from it.
LEMMA PoppedElements ==
  ASSUME NEW S, stack \in Seq(S), stack # <<>>
  PROVE  /\ Top \in S
         /\ Popped \in Seq(S)
         /\ Elements(stack) = Elements(Popped) \cup {Top}
<1>1. Len(stack) \in Nat \ {0} /\ DOMAIN stack = 1..Len(stack)
  OBVIOUS
<1>2. /\ Popped \in Seq(S) /\ DOMAIN Popped = 1..(Len(stack) - 1)
      /\ \A i \in 1..(Len(stack) - 1) : Popped[i] = stack[i]
  BY <1>1 DEF Popped
<1>3. 1..Len(stack) = 1..(Len(stack) - 1) \cup {Len(stack)}
  BY <1>1
<1>4. stack[Len(stack)] \in S
  BY <1>1
<1>5. Elements(Popped) = {stack[i] : i \in 1..(Len(stack) - 1)}
  BY <1>2 DEF Elements
<1>6. Elements(stack) = {stack[i] : i \in 1..Len(stack)}
  BY <1>1 DEF Elements
<1> QED
  BY <1>2, <1>3, <1>4, <1>5, <1>6 DEF Top

\* The elements of a concatenation.
LEMMA ConcatElements ==
  ASSUME NEW S, NEW s \in Seq(S), NEW t \in Seq(S)
  PROVE  Elements(s \o t) = Elements(s) \cup Elements(t)
<1>1. /\ DOMAIN (s \o t) = 1..(Len(s) + Len(t)) /\ DOMAIN s = 1..Len(s) /\ DOMAIN t = 1..Len(t)
      /\ Len(s) \in Nat /\ Len(t) \in Nat
  OBVIOUS
<1>2. \A i \in 1..Len(s) : (s \o t)[i] = s[i]
  OBVIOUS
<1>3. \A i \in 1..Len(t) : (s \o t)[Len(s) + i] = t[i]
  OBVIOUS
<1>4. ASSUME NEW i \in 1..(Len(s) + Len(t))
      PROVE  i \in 1..Len(s) \/ \E j \in 1..Len(t) : i = Len(s) + j
  <2>1. CASE i > Len(s)
    <3>1. i - Len(s) \in 1..Len(t) /\ i = Len(s) + (i - Len(s))
      BY <1>1, <2>1
    <3> QED
      BY <3>1
  <2> QED
    BY <1>1, <2>1
<1>5. Elements(s \o t) \subseteq Elements(s) \cup Elements(t)
  <2> SUFFICES ASSUME NEW i \in 1..(Len(s) + Len(t))
               PROVE  (s \o t)[i] \in Elements(s) \cup Elements(t)
    BY <1>1 DEF Elements
  <2>1. CASE i \in 1..Len(s)
    BY <1>1, <1>2, <2>1 DEF Elements
  <2>2. ASSUME NEW j \in 1..Len(t), i = Len(s) + j
        PROVE  (s \o t)[i] \in Elements(t)
    <3>1. (s \o t)[i] = t[j]
      BY <1>3, <2>2
    <3> QED
      BY <1>1, <3>1 DEF Elements
  <2> QED
    BY <1>4, <2>1, <2>2, ZenonT(30)
<1>6. Elements(s) \subseteq Elements(s \o t)
  BY <1>1, <1>2 DEF Elements
<1>7. Elements(t) \subseteq Elements(s \o t)
  <2> SUFFICES ASSUME NEW i \in 1..Len(t) PROVE t[i] \in Elements(s \o t)
    BY <1>1 DEF Elements
  <2>1. Len(s) + i \in 1..(Len(s) + Len(t)) /\ (s \o t)[Len(s) + i] = t[i]
    BY <1>1, <1>3
  <2> QED
    BY <1>1, <2>1 DEF Elements
<1> QED
  BY <1>5, <1>6, <1>7

\* ... and of a sequence with one more element.
LEMMA AppendElements ==
  ASSUME NEW S, NEW s \in Seq(S), NEW e \in S
  PROVE  Elements(Append(s, e)) = Elements(s) \cup {e}
<1>1. /\ DOMAIN Append(s, e) = 1..(Len(s) + 1) /\ DOMAIN s = 1..Len(s) /\ Len(s) \in Nat
      /\ \A i \in 1..Len(s) : Append(s, e)[i] = s[i]
      /\ Append(s, e)[Len(s) + 1] = e
  OBVIOUS
<1>2. \A i \in 1..(Len(s) + 1) : i = Len(s) + 1 \/ i \in 1..Len(s)
  BY <1>1
<1>3. Len(s) + 1 \in 1..(Len(s) + 1) /\ 1..Len(s) \subseteq 1..(Len(s) + 1)
  BY <1>1
<1> QED
  BY <1>1, <1>2, <1>3 DEF Elements

\* The root can be reached, and so can the references of a block that can be
\* reached and is there.
LEMMA ReachedClosed ==
  ASSUME BlocksTypeOK
  PROVE  /\ root \in Reached
         /\ \A c \in Reached \cap store : Elements(links[c]) \subseteq Reached
<1>1. root \in Reached
  BY DEF Reached, Closed, BlocksTypeOK
<1>2. ASSUME NEW c \in Reached \cap store, NEW d \in Elements(links[c])
      PROVE  d \in Reached
  <2>1. d \in Cids
    <3>1. links[c] \in Seq(Cids)
      BY DEF BlocksTypeOK, Reached
    <3> QED
      BY <3>1 DEF Elements
  <2>2. ASSUME NEW S \in SUBSET Cids, Closed(S) PROVE d \in S
    BY <2>2 DEF Closed, Reached
  <2> QED
    BY <2>1, <2>2 DEF Reached
<1> QED
  BY <1>1, <1>2

\* The walk starts with the root on the stack and nothing dealt with.
LEMMA WalkInitially == BlocksInit => WalkInv
<1> SUFFICES ASSUME BlocksInit PROVE WalkInv
  OBVIOUS
<1>1. BlocksTypeOK
  <2>1. ASSUME NEW c \in Cids PROVE links[c] \in Seq(Cids)
    <3>1. links[c] \in LinksOf(c)
      BY DEF BlocksInit
    <3>2. PICK n \in 0..MaxLinks : links[c] \in [1..n -> 1..(c - 1)]
      BY <3>1 DEF LinksOf
    <3>3. 1..(c - 1) \subseteq Cids
      BY BlocksAssumption DEF Cids
    <3>4. n \in Nat /\ links[c] \in [1..n -> Cids]
      BY <3>2, <3>3, BlocksAssumption
    <3> QED
      BY <3>4
  <2>2. DOMAIN links = Cids
    BY DEF BlocksInit
  <2>3. /\ root \in Cids /\ store \subseteq Cids
        /\ stack \in Seq(Cids) /\ missing \in Seq(Cids) /\ result = "none"
    BY DEF BlocksInit
  <2> QED
    BY <2>1, <2>2, <2>3 DEF BlocksTypeOK
<1>2. Elements(stack) = {root} /\ Elements(missing) = {} /\ result # "ok"
  BY DEF BlocksInit, Elements
<1>3. DealtWith({})
  BY <1>2 DEF DealtWith
<1> QED
  BY <1>1, <1>2, <1>3, ReachedClosed DEF WalkInv

\* Each step deals with the top of the stack.
LEMMA WalkStep == WalkInv /\ [BlocksNext]_blockVars => WalkInv'
<1> SUFFICES ASSUME WalkInv, [BlocksNext]_blockVars PROVE WalkInv'
  OBVIOUS
<1>0. /\ BlocksTypeOK
      /\ Elements(stack) \subseteq Reached
      /\ Elements(missing) \subseteq Reached
      /\ result = "ok" => stack = <<>>
  BY DEF WalkInv
<1>1. PICK done : DealtWith(done)
  BY DEF WalkInv
<1>2. UNCHANGED <<root, store, links>> => Reached' = Reached
  BY DEF Reached, Closed
<1>3. CASE Follow
  <2> USE <1>3 DEF Follow
  <2>1. /\ Top \in Cids /\ Popped \in Seq(Cids)
        /\ Elements(stack) = Elements(Popped) \cup {Top}
    BY <1>0, PoppedElements DEF BlocksTypeOK
  <2>2. links[Top] \in Seq(Cids)
    BY <1>0, <2>1 DEF BlocksTypeOK
  <2>3. stack' \in Seq(Cids) /\ Elements(stack') = Elements(Popped) \cup Elements(links[Top])
    BY <2>1, <2>2, ConcatElements
  <2>4. BlocksTypeOK'
    BY <1>0, <2>3 DEF BlocksTypeOK
  <2>5. Elements(stack') \subseteq Reached
    BY <1>0, <2>1, <2>3, ReachedClosed
  <2>6. PICK more : more = done \cup {Top}
    OBVIOUS
  <2>7. DealtWith(more)'
    <3>1. done \subseteq Cids /\ done \ store = Elements(missing)
      BY <1>1 DEF DealtWith
    <3>2. done \cup Elements(stack) \subseteq more \cup Elements(stack')
      BY <2>1, <2>3, <2>6
    <3>3. \A c \in more \cap store :
            Elements(links[c]) \subseteq more \cup Elements(stack')
      BY <1>1, <2>3, <2>6, <3>2 DEF DealtWith
    <3> QED
      BY <1>1, <2>1, <2>6, <3>1, <3>2, <3>3 DEF DealtWith
  <2> QED
    BY <1>0, <1>2, <2>4, <2>5, <2>7 DEF WalkInv
<1>4. CASE Collect
  <2> USE <1>4 DEF Collect
  <2>1. /\ Top \in Cids /\ Popped \in Seq(Cids)
        /\ Elements(stack) = Elements(Popped) \cup {Top}
    BY <1>0, PoppedElements DEF BlocksTypeOK
  <2>2. missing' \in Seq(Cids) /\ Elements(missing') = Elements(missing) \cup {Top}
    BY <1>0, <2>1, AppendElements DEF BlocksTypeOK
  <2>3. BlocksTypeOK'
    BY <1>0, <2>1, <2>2 DEF BlocksTypeOK
  <2>4. PICK more : more = done \cup {Top}
    OBVIOUS
  <2>5. DealtWith(more)'
    BY <1>1, <2>1, <2>2, <2>4 DEF DealtWith
  <2> QED
    BY <1>0, <1>2, <2>1, <2>2, <2>3, <2>5 DEF WalkInv
<1>5. CASE Fail \/ Return \/ UNCHANGED blockVars
  <2>1. UNCHANGED <<root, store, links, stack, missing>>
    BY <1>5 DEF Fail, Return, blockVars
  <2>2. result' \in {"none", "ok", "error"} /\ (result' = "ok" => stack = <<>>)
    BY <1>0, <1>5 DEF Fail, Return, blockVars, BlocksTypeOK
  <2>3. BlocksTypeOK'
    BY <1>0, <2>1, <2>2 DEF BlocksTypeOK
  <2>4. DealtWith(done)'
    BY <1>1, <2>1 DEF DealtWith
  <2> QED
    BY <1>0, <1>2, <2>1, <2>2, <2>3, <2>4 DEF WalkInv
<1> QED
  BY <1>3, <1>4, <1>5 DEF BlocksNext

\* A walk that returns has collected exactly the missing blocks that can be
\* reached through blocks that are there (missing_blocks.rs:22-33).
THEOREM MissingExact == BlocksSpec => []MissingAreExact
<1>1. WalkInv => MissingAreExact
  <2> SUFFICES ASSUME WalkInv, result = "ok" PROVE Elements(missing) = Reached \ store
    BY DEF MissingAreExact
  <2>1. PICK done : DealtWith(done)
    BY DEF WalkInv
  <2>2. Elements(stack) = {}
    BY DEF WalkInv, Elements
  <2>3. done \in SUBSET Cids /\ Closed(done)
    BY <2>1, <2>2 DEF DealtWith, Closed
  <2>4. Reached \subseteq done
    BY <2>3 DEF Reached
  <2> QED
    BY <2>1, <2>4 DEF WalkInv, DealtWith
<1> QED
  BY <1>1, WalkInitially, WalkStep, PTL DEF BlocksSpec

\* A step of the walk replaces the top of the stack by smaller CIDs.
Descends ==
  stack' # stack =>
    \E s \in Seq(Cids) : stack' = Popped \o s /\ \A c \in Elements(s) : c < Top

\* A block links to what was hashed before it.
LinksDescend == \A c \in Cids : \A d \in Elements(links[c]) : d < c

\* Every step takes the top off the stack and puts on CIDs that are smaller, as
\* often as a block is reached: the stack goes down in the order of multisets,
\* which is well founded.  This is WalkEnds but for the induction over that
\* order (missing_blocks.rs:22-33).
THEOREM WalkDescends == BlocksSpec => [][Descends]_blockVars
<1>1. BlocksInit => LinksDescend
  <2> SUFFICES ASSUME BlocksInit, NEW c \in Cids, NEW d \in Elements(links[c]) PROVE d < c
    BY DEF LinksDescend
  <2>1. links[c] \in LinksOf(c)
    BY DEF BlocksInit
  <2>2. PICK n \in 0..MaxLinks : links[c] \in [1..n -> 1..(c - 1)]
    BY <2>1 DEF LinksOf
  <2>3. d \in 1..(c - 1)
    BY <2>2 DEF Elements
  <2> QED
    BY <2>3, BlocksAssumption DEF Cids
<1>2. LinksDescend /\ [BlocksNext]_blockVars => LinksDescend'
  BY DEF LinksDescend, BlocksNext, Follow, Collect, Fail, Return, blockVars
<1>3. WalkInv /\ LinksDescend /\ [BlocksNext]_blockVars => [Descends]_blockVars
  <2> SUFFICES ASSUME WalkInv, LinksDescend, BlocksNext, stack' # stack
               PROVE  \E s \in Seq(Cids) : stack' = Popped \o s /\ \A c \in Elements(s) : c < Top
    BY DEF Descends
  <2>1. CASE Follow
    <3>1. Top \in Cids /\ links[Top] \in Seq(Cids)
      BY <2>1, PoppedElements DEF Follow, WalkInv, BlocksTypeOK
    <3> QED
      BY <2>1, <3>1, ZenonT(30) DEF Follow, LinksDescend
  <2>2. CASE Collect
    <3>1. Popped \in Seq(Cids)
      BY <2>2, PoppedElements DEF Collect, WalkInv, BlocksTypeOK
    <3>2. stack' = Popped \o <<>> /\ <<>> \in Seq(Cids) /\ Elements(<<>>) = {}
      BY <2>2, <3>1 DEF Collect, Elements
    <3> QED
      BY <3>2, ZenonT(30)
  <2> QED
    BY <2>1, <2>2, ZenonT(30) DEF BlocksNext, Fail, Return
<1> QED
  BY <1>1, <1>2, <1>3, WalkInitially, WalkStep, PTL DEF BlocksSpec
===============================================================================
