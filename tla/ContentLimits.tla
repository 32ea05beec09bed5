----------------------------- MODULE ContentLimits -----------------------------
(***************************************************************************)
(* The rate limit of content::Behaviour                                    *)
(* (src/ipld/resolver/src/behaviour/content.rs, ../limiter.rs): requests   *)
(* of a remote address are admitted against an allowance, and the bytes of *)
(* the blocks served are charged to it later, when the response has gone   *)
(* through a task and the mailbox of the service.                          *)
(*                                                                         *)
(* Two crates are external.  gcra: a key has a theoretical arrival time    *)
(* `tat`; a cost moves it by period * cost / limit, unless that puts it    *)
(* more than a period ahead of the clock, in which case nothing changes.   *)
(* Gossipsub's TimeCache: a key is forgotten a period after it was         *)
(* inserted, busy or not, since entry().or_insert_with leaves the expiry   *)
(* of a key that is there alone.                                           *)
(***************************************************************************)
EXTENDS Integers, Sequences

CONSTANTS
  Peers,
  Addresses,       \* remote addresses without their ephemeral parts
  Period,          \* rate_limit_period
  Limits,          \* values of rate_limit_bytes; 0 is no limit
  CidBytes,        \* the size of a CID
  BlockBytes,      \* sizes of blocks
  MaxTime,         \* bound on the clock
  MaxConnections,  \* bound on the connections with one peer
  MaxServing       \* bound on the responses and charges under way

ASSUME LimitsAssumption ==
  /\ Period \in Nat /\ CidBytes \in Nat
  /\ Limits \subseteq Nat /\ BlockBytes \subseteq Nat
  /\ MaxTime \in Nat /\ {MaxConnections, MaxServing} \subseteq Nat
  /\ "none" \notin Addresses

NoAddress == "none"

VARIABLES
  now,             \* the clock
  connections,     \* how many connections there are with each peer
  peer_addresses,  \* the address of each peer's first connection
  rate_limit,      \* 0 for None
  tat,             \* the rate limiter's state of each address
  expires,         \* when the rate limiter forgets it
  serving,         \* the requests Bitswap or a forwarding task holds, by peer
  mailbox,         \* RateLimitUsed requests: <<peer, bytes>>
  since,           \* history: since when each peer is connected; 0 if it is not
  used             \* history: the time it takes to refill what it was granted since

historyVars == <<since, used>>
limitVars == <<now, connections, peer_addresses, rate_limit, tat, expires, serving, mailbox,
               historyVars>>

LimitsTypeOK ==
  /\ now \in Nat
  /\ connections \in [Peers -> Nat]
  /\ peer_addresses \in [Peers -> Addresses \cup {NoAddress}]
  /\ rate_limit \in Nat
  /\ {tat, expires} \subseteq [Addresses -> Nat]
  /\ serving \in Seq(Peers)
  /\ mailbox \in Seq(Peers \X Nat)
  /\ {since, used} \subseteq [Peers -> Nat]

\* new and update_rate_limit: no limit without bytes or without a period.
LimitFrom(bytes) == IF bytes = 0 \/ Period = 0 THEN 0 ELSE bytes

LimitsInit ==
  /\ now = 0
  /\ connections = [p \in Peers |-> 0]
  /\ peer_addresses = [p \in Peers |-> NoAddress]
  /\ \E bytes \in Limits : rate_limit = LimitFrom(bytes)
  /\ tat = [a \in Addresses |-> 0] /\ expires = [a \in Addresses |-> 0]
  /\ serving = <<>> /\ mailbox = <<>>
  /\ since = [p \in Peers |-> 0] /\ used = [p \in Peers |-> 0]

-------------------------------------------------------------------------------
\* The time a cost takes to refill.
Increment(cost) == (Period * cost) \div rate_limit

\* What the time cache has of an address; a key that expired starts afresh.
IsKept(a) == now < expires[a]
TatOf(a) == IF IsKept(a) THEN tat[a] ELSE 0

\* The arrival time after a cost.
Later(a, cost) == (IF TatOf(a) < now THEN now ELSE TatOf(a)) + Increment(cost)

\* check_and_modify_at says Ok.
WithinLimit(a, cost) == Increment(cost) <= Period /\ Later(a, cost) - Period <= now

\* add_at; also a cost that is refused inserts the key.
AddAt(a, cost) ==
  /\ expires' = [expires EXCEPT ![a] = IF IsKept(a) THEN @ ELSE now + Period]
  /\ tat' = [tat EXCEPT ![a] = IF WithinLimit(a, cost) THEN Later(a, cost) ELSE TatOf(a)]

\* Mutant: every connection decides on the address.
EstablishedUpdates(p, a) ==
  /\ connections[p] < MaxConnections
  /\ connections' = [connections EXCEPT ![p] = @ + 1]
  /\ peer_addresses' = [peer_addresses EXCEPT ![p] = a]
  /\ since' = IF connections[p] = 0 THEN [since EXCEPT ![p] = now] ELSE since
  /\ UNCHANGED <<now, rate_limit, tat, expires, serving, mailbox, used>>

\* A peer connects; only its first connection decides on its address.
ConnectionEstablished(p, a) ==
  /\ connections[p] < MaxConnections
  /\ connections' = [connections EXCEPT ![p] = @ + 1]
  /\ IF connections[p] = 0
     THEN peer_addresses' = [peer_addresses EXCEPT ![p] = a] /\ since' = [since EXCEPT ![p] = now]
     ELSE UNCHANGED <<peer_addresses, since>>
  /\ UNCHANGED <<now, rate_limit, tat, expires, serving, mailbox, used>>

ConnectionClosed(p) ==
  /\ connections[p] > 0
  /\ connections' = [connections EXCEPT ![p] = @ - 1]
  /\ IF connections[p] = 1
     THEN /\ peer_addresses' = [peer_addresses EXCEPT ![p] = NoAddress]
          /\ since' = [since EXCEPT ![p] = 0] /\ used' = [used EXCEPT ![p] = 0]
     ELSE UNCHANGED <<peer_addresses, historyVars>>
  /\ UNCHANGED <<now, rate_limit, tat, expires, serving, mailbox>>

\* check_rate_limit: a peer without an address is not limited.
IsAllowed(p) == peer_addresses[p] = NoAddress \/ WithinLimit(peer_addresses[p], CidBytes)

CheckRateLimit(p) ==
  IF peer_addresses[p] = NoAddress THEN UNCHANGED <<tat, expires>>
  ELSE AddAt(peer_addresses[p], CidBytes)

\* What a peer was granted.
Grant(p, bytes) == used' = [used EXCEPT ![p] = @ + Increment(bytes)]

\* on_connection_handler_event, when there is a limit; without one a request is
\* not tracked at all.
AdmitRequest(p) ==
  /\ rate_limit # 0 /\ connections[p] > 0
  /\ Len(serving) + Len(mailbox) < MaxServing
  /\ IsAllowed(p)
  /\ CheckRateLimit(p)
  /\ Grant(p, CidBytes)
  /\ serving' = Append(serving, p)
  /\ UNCHANGED <<now, connections, peer_addresses, rate_limit, mailbox, since>>

RefuseRequest(p) ==
  /\ rate_limit # 0 /\ connections[p] > 0
  /\ ~ IsAllowed(p)
  /\ CheckRateLimit(p)
  /\ UNCHANGED <<now, connections, peer_addresses, rate_limit, serving, mailbox, historyVars>>

Without(s, i) == [j \in 1..(Len(s) - 1) |-> IF j < i THEN s[j] ELSE s[j + 1]]

\* The task of BitswapForward has the response.  A block is reported.
ForwardResponse(i) ==
  /\ i \in DOMAIN serving
  /\ serving' = Without(serving, i)
  /\ \/ \E bytes \in BlockBytes : mailbox' = Append(mailbox, <<serving[i], bytes>>)
     \/ UNCHANGED mailbox
  /\ UNCHANGED <<now, connections, peer_addresses, rate_limit, tat, expires, historyVars>>

\* rate_limit_used ignores whether the limiter accepted the charge.
RateLimitUsed ==
  /\ mailbox # <<>>
  /\ LET p == Head(mailbox)[1]
         bytes == Head(mailbox)[2]
         a == peer_addresses[p]
     IN  \/ /\ rate_limit = 0 \/ a = NoAddress
            /\ UNCHANGED <<tat, expires, used>>
         \/ /\ rate_limit # 0 /\ a # NoAddress
            /\ AddAt(a, bytes)
            /\ IF WithinLimit(a, bytes) THEN Grant(p, bytes) ELSE UNCHANGED used
  /\ mailbox' = Tail(mailbox)
  /\ UNCHANGED <<now, connections, peer_addresses, rate_limit, serving, since>>

UpdateRateLimit(bytes) ==
  /\ rate_limit' = LimitFrom(bytes)
  /\ UNCHANGED <<now, connections, peer_addresses, tat, expires, serving, mailbox, historyVars>>

Elapse ==
  /\ now < MaxTime
  /\ now' = now + 1
  /\ UNCHANGED <<connections, peer_addresses, rate_limit, tat, expires, serving, mailbox,
                 historyVars>>

LimitsNext ==
  \/ \E p \in Peers : \/ \E a \in Addresses : ConnectionEstablished(p, a)
                      \/ ConnectionClosed(p)
                      \/ AdmitRequest(p) \/ RefuseRequest(p)
  \/ \E i \in 1..MaxServing : ForwardResponse(i)
  \/ RateLimitUsed
  \/ \E bytes \in Limits : UpdateRateLimit(bytes)
  \/ Elapse

LimitsSpec == LimitsInit /\ [][LimitsNext]_limitVars

(***************************************************************************)
(* Properties                                                              *)
(***************************************************************************)

\* "As long as the same peer connects, not updating the address provides
\* continuity of resource consumption" (content.rs:219-220): however many
\* connections a peer opens and closes, from whatever addresses, what it is
\* granted while it stays connected is what one address is granted, an allowance
\* and the refill.  Twice that, since the limiter forgets also a busy address a
\* period after it first heard of it (limiter.rs:42).
SessionWithinAllowance ==
  \A p \in Peers :
    connections[p] > 0 => used[p] <= 2 * (now - since[p] + Period)

\* The limiter knows an address of exactly the connected peers, so that no
\* request escapes the check (content.rs:194-223).
ConnectedHaveAddress ==
  \A p \in Peers : connections[p] > 0 <=> peer_addresses[p] # NoAddress
===============================================================================
