-------------------------- MODULE ResolveQueriesProofs -------------------------
(***************************************************************************)
(* The trail of a request, the peers it was tried with followed by those   *)
(* that are left, never changes once the request has started; it has every *)
(* known provider once, connected ones first. Queries are registered while *)
(* they live, and fallbacks run out.                                       *)
(***************************************************************************)
EXTENDS ResolveQueries, SequenceTheorems, FiniteSetTheorems, TLAPS

Trail(r) == asked[r] \o fallback[r]

\* A sequence with every element of S once, those of C first.
Arrangement(s, S, C) ==
  /\ \A i \in DOMAIN s : s[i] \in S
  /\ \A p \in S : \E i \in DOMAIN s : s[i] = p
  /\ \A i, j \in DOMAIN s : i # j => s[i] # s[j]
  /\ \A i, j \in DOMAIN s : i < j /\ s[j] \in C => s[i] \in C

Trails == \A r \in Requests : Arrangement(Trail(r), known[r], near[r])

ErrorsAreLast ==
  \A r \in Requests : \A i \in DOMAIN answers[r] : answers[r][i] = "error" => fallback[r] = <<>>

\* Registered queries are the ones Bitswap has or has just completed.
Live(q) == q \in running \/ \E i \in DOMAIN completed : completed[i][1] = q

OneQueryEach ==
  \A q, other \in QueryIds : queries[q] = queries[other] => q = other \/ queries[q] = None

RegisteredLive == \A q \in QueryIds : queries[q] # None <=> Live(q)

CompletedOnce ==
  /\ \A i, j \in DOMAIN completed : completed[i][1] = completed[j][1] => i = j
  /\ \A i \in DOMAIN completed : completed[i][1] \notin running

QueriesOpen ==
  \A q \in QueryIds : queries[q] # None => answers[queries[q]] = <<>> /\ known[queries[q]] # {}

MailboxFresh ==
  /\ \A i, j \in DOMAIN mailbox : mailbox[i] = mailbox[j] => i = j
  /\ \A i \in DOMAIN mailbox : known[mailbox[i]] = {} /\ answers[mailbox[i]] = <<>>

OneAnswer ==
  \A r \in Requests :
    /\ Len(answers[r]) <= 1
    /\ Started(r) /\ r \notin closed => answers[r] # <<>> \/ \E q \in QueryIds : queries[q] = r

Bookkeeping ==
  OneQueryEach /\ RegisteredLive /\ CompletedOnce /\ QueriesOpen /\ MailboxFresh /\ OneAnswer

QueriesInv == QueriesTypeOK /\ Bookkeeping /\ Trails /\ ErrorsAreLast

-------------------------------------------------------------------------------
\* The two parts of split_peers_for_query make up the whole.
LEMMA SplitWhole ==
  ASSUME NEW s \in Seq(Peers)
  PROVE  /\ Now(s) \in Seq(Peers) /\ Later(s) \in Seq(Peers)
         /\ Now(s) \o Later(s) = s
<1>1. BatchSize(s) \in 0..Len(s) /\ Len(s) \in Nat
  BY QueriesAssumption DEF BatchSize
<1>2. /\ SubSeq(s, 1, BatchSize(s)) \in Seq(Peers)
      /\ SubSeq(s, BatchSize(s) + 1, Len(s)) \in Seq(Peers)
  BY <1>1, SubSeqProperties
<1>3. SubSeq(s, 1, BatchSize(s)) \o SubSeq(s, BatchSize(s) + 1, Len(s)) = SubSeq(s, 1, Len(s))
  <2>1. /\ 1 \in 1..(Len(s) + 1)
        /\ BatchSize(s) \in (1 - 1)..Len(s)
        /\ Len(s) \in BatchSize(s)..Len(s)
    BY <1>1
  <2> QED
    BY <2>1, ConcatAdjacentSubSeq, Zenon
<1>4. SubSeq(s, 1, Len(s)) = s
  BY SubSeqFull
<1> QED
  BY <1>2, <1>3, <1>4, ZenonT(30) DEF Now, Later

\* Asking the next batch leaves the trail as it is.
LEMMA AskKeepsTrail ==
  ASSUME NEW a \in Seq(Peers), NEW s \in Seq(Peers)
  PROVE  /\ a \o Now(s) \in Seq(Peers)
         /\ (a \o Now(s)) \o Later(s) = a \o s
<1>1. Now(s) \in Seq(Peers) /\ Later(s) \in Seq(Peers) /\ Now(s) \o Later(s) = s
  BY SplitWhole, ZenonT(30)
<1>2. \A n, l \in Seq(Peers) : (a \o n) \o l = a \o (n \o l)
  <2> SUFFICES ASSUME NEW n \in Seq(Peers), NEW l \in Seq(Peers)
               PROVE  (a \o n) \o l = a \o (n \o l)
    OBVIOUS
  <2> QED
    BY ConcatAssociative, SMTT(60)
<1>3. \A n \in Seq(Peers) : a \o n \in Seq(Peers)
  BY ConcatProperties
<1>4. Now(s) \in Seq(Peers) /\ Later(s) \in Seq(Peers)
  BY <1>1
<1>5. (a \o Now(s)) \o Later(s) = a \o (Now(s) \o Later(s))
  BY <1>2, <1>4, Zenon
<1>6. a \o (Now(s) \o Later(s)) = a \o s
  BY <1>1
<1>7. a \o Now(s) \in Seq(Peers)
  BY <1>3, <1>4, Zenon
<1> QED
  BY <1>5, <1>6, <1>7, Zenon

\* A request that has not started has an empty trail.
LEMMA EmptyTrail ==
  ASSUME NEW a \in Seq(Peers), NEW f \in Seq(Peers), NEW C, Arrangement(a \o f, {}, C)
  PROVE  a = <<>> /\ f = <<>>
<1>1. a \o f \in Seq(Peers) /\ Len(a \o f) = Len(a) + Len(f)
  BY ConcatProperties
<1>2. DOMAIN (a \o f) = {}
  BY DEF Arrangement
<1>3. DOMAIN (a \o f) = 1..(Len(a) + Len(f)) /\ Len(a) \in Nat /\ Len(f) \in Nat
  BY <1>1
<1>4. 1 \notin 1..(Len(a) + Len(f))
  BY <1>2, <1>3, Zenon
<1>5. Len(a) = 0 /\ Len(f) = 0
  BY <1>3, <1>4
<1> QED
  BY <1>5

\* Nothing is under way at the start.
LEMMA QueriesInitially == QueriesInit => QueriesInv
<1> SUFFICES ASSUME QueriesInit PROVE QueriesInv
  OBVIOUS
<1>1. QueriesTypeOK
  BY DEF QueriesInit, QueriesTypeOK
<1>2. Bookkeeping
  BY DEF QueriesInit, Bookkeeping, OneQueryEach, RegisteredLive, CompletedOnce, QueriesOpen,
         MailboxFresh, OneAnswer, Started, Live
<1>3. Trails
  <2> SUFFICES ASSUME NEW r \in Requests PROVE Arrangement(Trail(r), known[r], near[r])
    BY DEF Trails
  <2>1. Trail(r) = <<>>
    <3>1. asked[r] = <<>> /\ fallback[r] = <<>>
      BY DEF QueriesInit
    <3> QED
      BY <3>1, ConcatEmptySeq DEF Trail
  <2>2. known[r] = {}
    BY DEF QueriesInit
  <2> QED
    BY <2>1, <2>2 DEF Arrangement
<1>4. ErrorsAreLast
  BY DEF QueriesInit, ErrorsAreLast
<1> QED
  BY <1>1, <1>2, <1>3, <1>4 DEF QueriesInv

\* Trails and errors depend on nothing else.
LEMMA TrailsKept ==
  ASSUME Trails, UNCHANGED <<fallback, asked, known, near>>
  PROVE  Trails'
<1>1. \A r \in Requests : Trail(r)' = Trail(r)
  BY DEF Trail
<1> QED
  BY <1>1 DEF Trails

LEMMA TrailsUnchanged ==
  ASSUME Trails, ErrorsAreLast, UNCHANGED <<fallback, answers, asked, known, near>>
  PROVE  Trails' /\ ErrorsAreLast'
<1>1. Trails'
  BY TrailsKept
<1>2. ErrorsAreLast'
  BY DEF ErrorsAreLast
<1> QED
  BY <1>1, <1>2

\* A sequence with one element is not empty.
LEMMA LenOfEmpty == \A s : Len(s) = 1 => s # <<>>
<1>1. Len(<<>>) = 0
  BY EmptySeq
<1>2. \A s : s = <<>> => Len(s) = 0
  BY <1>1, Zenon
<1>3. 0 # 1
  OBVIOUS
<1> QED
  BY <1>2, <1>3, Zenon

\* Taking the first element off a sequence shifts the others.
LEMMA TailShifts ==
  ASSUME NEW S, NEW s \in Seq(S), s # <<>>
  PROVE  /\ Head(s) \in S /\ Tail(s) \in Seq(S)
         /\ Head(s) = s[1] /\ 1 \in DOMAIN s
         /\ \A i \in DOMAIN Tail(s) : i + 1 \in DOMAIN s /\ i + 1 # 1 /\ Tail(s)[i] = s[i + 1]
         /\ \A i \in DOMAIN Tail(s) : i \in Int
         /\ \A i \in DOMAIN s : i # 1 => i - 1 \in DOMAIN Tail(s) /\ Tail(s)[i - 1] = s[i]
OBVIOUS

-------------------------------------------------------------------------------
\* Requests come and callers leave.
LEMMA ClientSteps ==
  ASSUME QueriesInv, NEW r \in Requests, Resolve(r) \/ Abandon(r)
  PROVE  QueriesInv'
<1>I. QueriesTypeOK /\ Bookkeeping /\ Trails /\ ErrorsAreLast
  BY DEF QueriesInv
<1>B. OneQueryEach /\ RegisteredLive /\ CompletedOnce /\ QueriesOpen /\ MailboxFresh /\ OneAnswer
  BY <1>I DEF Bookkeeping
<1>0. UNCHANGED <<running, completed, queries, fallback, answers, asked, known, near>>
  BY DEF Resolve, Abandon
<1>1. Trails' /\ ErrorsAreLast'
  BY <1>0, <1>I, TrailsUnchanged
<1>2. OneQueryEach' /\ RegisteredLive' /\ CompletedOnce' /\ QueriesOpen'
  BY <1>0, <1>B DEF OneQueryEach, RegisteredLive, Live, CompletedOnce, QueriesOpen
<1>3. CASE Resolve(r)
  <2>0. mailbox \in Seq(Requests) /\ mailbox' = Append(mailbox, r) /\ UNCHANGED closed
    BY <1>3, <1>I DEF Resolve, QueriesTypeOK
  <2>1. QueriesTypeOK'
    BY <2>0, <1>0, <1>I DEF QueriesTypeOK
  <2>2. known[r] = {} /\ answers[r] = <<>> /\ \A i \in DOMAIN mailbox : mailbox[i] # r
    BY <1>3 DEF Resolve, Started
  <2>3. /\ DOMAIN mailbox' = 1..(Len(mailbox) + 1) /\ DOMAIN mailbox = 1..Len(mailbox)
        /\ Len(mailbox) \in Nat
        /\ \A i \in 1..Len(mailbox) : mailbox'[i] = mailbox[i]
        /\ mailbox'[Len(mailbox) + 1] = r
    BY <2>0
  <2>4. MailboxFresh'
    <3>1. ASSUME NEW i \in DOMAIN mailbox', NEW j \in DOMAIN mailbox', mailbox'[i] = mailbox'[j]
          PROVE  i = j
      BY <3>1, <2>2, <2>3, <1>B DEF MailboxFresh
    <3>2. ASSUME NEW i \in DOMAIN mailbox'
          PROVE  known'[mailbox'[i]] = {} /\ answers'[mailbox'[i]] = <<>>
      BY <2>2, <2>3, <1>0, <1>B DEF MailboxFresh
    <3> QED
      BY <3>1, <3>2 DEF MailboxFresh
  <2>5. OneAnswer'
    BY <2>0, <1>0, <1>B DEF OneAnswer, Started
  <2> QED
    BY <2>1, <2>4, <2>5, <1>1, <1>2 DEF QueriesInv, Bookkeeping
<1>4. CASE Abandon(r)
  <2>0. closed' = closed \cup {r} /\ UNCHANGED mailbox
    BY <1>4 DEF Abandon
  <2>1. QueriesTypeOK'
    BY <2>0, <1>0, <1>I DEF QueriesTypeOK
  <2>2. MailboxFresh' /\ OneAnswer'
    BY <2>0, <1>0, <1>B DEF MailboxFresh, OneAnswer, Started
  <2> QED
    BY <2>1, <2>2, <1>1, <1>2 DEF QueriesInv, Bookkeeping
<1> QED
  BY <1>3, <1>4

\* Bitswap completes a query: it stays live.
LEMMA CompleteStep ==
  ASSUME QueriesInv, NEW q \in QueryIds, NEW result \in {"ok", "error"}, Complete(q, result)
  PROVE  QueriesInv'
<1>I. QueriesTypeOK /\ Bookkeeping /\ Trails /\ ErrorsAreLast
  BY DEF QueriesInv
<1>B. OneQueryEach /\ RegisteredLive /\ CompletedOnce /\ QueriesOpen /\ MailboxFresh /\ OneAnswer
  BY <1>I DEF Bookkeeping
<1>0. /\ q \in running /\ running' = running \ {q}
      /\ completed' = Append(completed, <<q, result>>)
      /\ UNCHANGED <<mailbox, queries, fallback, closed, answers, asked, known, near>>
  BY DEF Complete
<1>1. Trails' /\ ErrorsAreLast'
  BY <1>0, <1>I, TrailsUnchanged
<1>2. OneQueryEach' /\ QueriesOpen' /\ MailboxFresh' /\ OneAnswer'
  BY <1>0, <1>B DEF OneQueryEach, QueriesOpen, MailboxFresh, OneAnswer, Started
<1>3. completed \in Seq(QueryIds \X {"ok", "error"}) /\ <<q, result>> \in QueryIds \X {"ok", "error"}
  BY <1>I DEF QueriesTypeOK
<1>4. QueriesTypeOK'
  BY <1>0, <1>3, <1>I DEF QueriesTypeOK
<1>5. /\ DOMAIN completed' = 1..(Len(completed) + 1) /\ DOMAIN completed = 1..Len(completed)
      /\ Len(completed) \in Nat
      /\ \A i \in 1..Len(completed) : completed'[i] = completed[i]
      /\ completed'[Len(completed) + 1] = <<q, result>>
  BY <1>0, <1>3
<1>6. CompletedOnce'
  <2>1. \A i \in DOMAIN completed : completed[i][1] # q
    BY <1>0, <1>B DEF CompletedOnce
  <2>2. ASSUME NEW i \in DOMAIN completed', NEW j \in DOMAIN completed',
               completed'[i][1] = completed'[j][1]
        PROVE  i = j
    BY <2>1, <2>2, <1>5, <1>B DEF CompletedOnce
  <2>3. ASSUME NEW i \in DOMAIN completed'
        PROVE  completed'[i][1] \notin running'
    BY <1>0, <1>5, <1>B DEF CompletedOnce
  <2> QED
    BY <2>2, <2>3 DEF CompletedOnce
<1>7. RegisteredLive'
  <2> SUFFICES ASSUME NEW x \in QueryIds PROVE Live(x)' <=> Live(x)
    BY <1>0, <1>B DEF RegisteredLive
  <2>1. CASE x = q
    <3>1. Live(x)
      BY <2>1, <1>0 DEF Live
    <3>2. Len(completed) + 1 \in DOMAIN completed' /\ completed'[Len(completed) + 1][1] = x
      BY <2>1, <1>5
    <3> QED
      BY <3>1, <3>2 DEF Live
  <2>2. CASE x # q
    BY <2>2, <1>0, <1>5 DEF Live
  <2> QED
    BY <2>1, <2>2
<1> QED
  BY <1>1, <1>2, <1>4, <1>6, <1>7 DEF QueriesInv, Bookkeeping

\* A request is answered because nobody is known.
LEMMA StartWithoutPeersStep ==
  ASSUME QueriesInv, StartWithoutPeers
  PROVE  QueriesInv'
<1>I. QueriesTypeOK /\ Bookkeeping /\ Trails /\ ErrorsAreLast
  BY DEF QueriesInv
<1>B. OneQueryEach /\ RegisteredLive /\ CompletedOnce /\ QueriesOpen /\ MailboxFresh /\ OneAnswer
  BY <1>I DEF Bookkeeping
<1> DEFINE r == Head(mailbox)
<1>0. /\ mailbox # <<>> /\ mailbox' = Tail(mailbox)
      /\ SendResolveResult(r, "NoKnownPeers")
      /\ UNCHANGED <<running, completed, queries, fallback, closed, asked, known, near>>
  BY DEF StartWithoutPeers
<1>1. mailbox \in Seq(Requests)
  BY <1>I DEF QueriesTypeOK
<1>2. /\ r \in Requests /\ mailbox' \in Seq(Requests)
      /\ r = mailbox[1] /\ 1 \in DOMAIN mailbox
      /\ \A i \in DOMAIN mailbox' :
           i + 1 \in DOMAIN mailbox /\ i + 1 # 1 /\ mailbox'[i] = mailbox[i + 1] /\ i \in Int
  BY <1>0, <1>1, TailShifts
<1>3. known[r] = {} /\ answers[r] = <<>>
  BY <1>2, <1>B DEF MailboxFresh
<1>4. \A i \in DOMAIN mailbox' : mailbox'[i] # r
  BY <1>2, <1>B DEF MailboxFresh
<1> HIDE DEF r
<1>5. /\ answers \in [Requests -> Seq(Outcomes)] /\ "NoKnownPeers" \in Outcomes
      /\ answers' = IF r \in closed THEN answers
                    ELSE [answers EXCEPT ![r] = Append(answers[r], "NoKnownPeers")]
  BY <1>0, <1>I DEF QueriesTypeOK, SendResolveResult, Outcomes
<1>6. /\ answers' \in [Requests -> Seq(Outcomes)]
      /\ \A x \in Requests : x # r => answers'[x] = answers[x]
      /\ r \in closed => answers'[r] = <<>>
      /\ r \notin closed => answers'[r] = <<"NoKnownPeers">>
  BY <1>2, <1>3, <1>5
<1>7. QueriesTypeOK'
  BY <1>0, <1>2, <1>6, <1>I, ZenonT(30) DEF QueriesTypeOK
<1>8. Trails'
  BY <1>0, <1>I, TrailsKept
<1>9. ErrorsAreLast'
  <2> SUFFICES ASSUME NEW x \in Requests, NEW i \in DOMAIN answers'[x], answers'[x][i] = "error"
               PROVE  fallback'[x] = <<>>
    BY DEF ErrorsAreLast
  <2>1. CASE x # r
    BY <2>1, <1>0, <1>6, <1>I DEF ErrorsAreLast
  <2>2. CASE x = r
    BY <2>2, <1>6
  <2> QED
    BY <2>1, <2>2
<1>10. OneQueryEach' /\ RegisteredLive' /\ CompletedOnce'
  BY <1>0, <1>B DEF OneQueryEach, RegisteredLive, Live, CompletedOnce
<1>11. QueriesOpen'
  <2> SUFFICES ASSUME NEW q \in QueryIds, queries[q] # None
               PROVE  answers'[queries[q]] = <<>> /\ known[queries[q]] # {}
    BY <1>0 DEF QueriesOpen
  <2>1. queries[q] \in Requests /\ queries[q] # r
    BY <1>3, <1>B, <1>I DEF QueriesOpen, QueriesTypeOK
  <2> QED
    BY <2>1, <1>6, <1>B DEF QueriesOpen
<1>12. MailboxFresh'
  <2>1. ASSUME NEW i \in DOMAIN mailbox', NEW j \in DOMAIN mailbox', mailbox'[i] = mailbox'[j]
        PROVE  i = j
    BY <2>1, <1>2, <1>B DEF MailboxFresh
  <2>2. ASSUME NEW i \in DOMAIN mailbox'
        PROVE  known'[mailbox'[i]] = {} /\ answers'[mailbox'[i]] = <<>>
    <3>1. mailbox'[i] \in Requests /\ mailbox'[i] # r
      BY <1>2, <1>4
    <3>2. known[mailbox'[i]] = {} /\ answers[mailbox'[i]] = <<>>
      BY <1>2, <1>B DEF MailboxFresh
    <3> QED
      BY <3>1, <3>2, <1>0, <1>6
  <2> QED
    BY <2>1, <2>2 DEF MailboxFresh
<1>13. OneAnswer'
  <2> SUFFICES ASSUME NEW x \in Requests
               PROVE  /\ Len(answers'[x]) <= 1
                      /\ Started(x)' /\ x \notin closed
                           => answers'[x] # <<>> \/ \E q \in QueryIds : queries[q] = x
    BY <1>0 DEF OneAnswer
  <2>1. CASE x # r
    BY <2>1, <1>0, <1>6, <1>B DEF OneAnswer, Started
  <2>2. CASE x = r /\ r \in closed
    BY <2>2, <1>6
  <2>3. CASE x = r /\ r \notin closed
    <3>1. Len(answers'[x]) = 1
      BY <2>3, <1>6, ZenonT(30)
    <3>2. answers'[x] # <<>>
      BY <3>1, LenOfEmpty
    <3> QED
      BY <3>1, <3>2
  <2> QED
    BY <2>1, <2>2, <2>3
<1> QED
  BY <1>7, <1>8, <1>9, <1>10, <1>11, <1>12, <1>13 DEF QueriesInv, Bookkeeping

\* A request gets its first query.
LEMMA StartQueryStep ==
  ASSUME QueriesInv, NEW q \in FreshIds, NEW peers \in SUBSET Peers, NEW connected \in SUBSET Peers,
         StartQuery(q, peers, connected)
  PROVE  QueriesInv'
<1>I. QueriesTypeOK /\ Bookkeeping /\ Trails /\ ErrorsAreLast
  BY DEF QueriesInv
<1>B. OneQueryEach /\ RegisteredLive /\ CompletedOnce /\ QueriesOpen /\ MailboxFresh /\ OneAnswer
  BY <1>I DEF Bookkeeping
<1> DEFINE r == Head(mailbox)
<1>0. /\ mailbox # <<>> /\ mailbox' = Tail(mailbox) /\ peers # {}
      /\ queries' = [queries EXCEPT ![q] = r]
      /\ known' = [known EXCEPT ![r] = peers]
      /\ near' = [near EXCEPT ![r] = connected]
      /\ UNCHANGED <<completed, closed, answers>>
  BY DEF StartQuery
<1>1. PICK o \in Orders(peers, connected) : Ask(q, r, o)
  BY DEF StartQuery
<1>2. /\ running' = running \cup {q}
      /\ fallback' = [fallback EXCEPT ![r] = Later(o)]
      /\ asked' = [asked EXCEPT ![r] = asked[r] \o Now(o)]
  BY <1>1 DEF Ask
<1>3. q \in QueryIds /\ q \notin running /\ queries[q] = None
        /\ \A i \in DOMAIN completed : completed[i][1] # q
  BY DEF FreshIds
<1>4. /\ r \in Requests /\ mailbox' \in Seq(Requests)
      /\ r = mailbox[1] /\ 1 \in DOMAIN mailbox
      /\ \A i \in DOMAIN mailbox' :
           i + 1 \in DOMAIN mailbox /\ i + 1 # 1 /\ mailbox'[i] = mailbox[i + 1] /\ i \in Int
  BY <1>0, <1>I, TailShifts DEF QueriesTypeOK
<1>5. known[r] = {} /\ answers[r] = <<>>
  BY <1>4, <1>B DEF MailboxFresh
<1>6. \A i \in DOMAIN mailbox' : mailbox'[i] # r
  BY <1>4, <1>B DEF MailboxFresh
<1> HIDE DEF r
<1>7. o \in Seq(Peers) /\ Arrangement(o, peers, connected)
  <2>1. Cardinality(peers) \in Nat
    BY QueriesAssumption, FS_Subset, FS_CardinalityType
  <2>2. o \in [1..Cardinality(peers) -> peers]
    BY <1>1 DEF Orders
  <2>3. o \in Seq(Peers)
    BY <2>1, <2>2
  <2>4. Arrangement(o, peers, connected)
    BY <1>1, <2>2 DEF Orders, Arrangement
  <2> QED
    BY <2>3, <2>4
<1>8. /\ asked \in [Requests -> Seq(Peers)] /\ fallback \in [Requests -> Seq(Peers)]
      /\ known \in [Requests -> SUBSET Peers] /\ near \in [Requests -> SUBSET Peers]
      /\ queries \in [QueryIds -> Requests \cup {None}]
  BY <1>I DEF QueriesTypeOK
<1>9. asked[r] = <<>> /\ fallback[r] = <<>>
  <2>1. asked[r] \in Seq(Peers) /\ fallback[r] \in Seq(Peers)
    BY <1>4, <1>8
  <2>2. Arrangement(asked[r] \o fallback[r], {}, near[r])
    BY <1>4, <1>5, <1>I, ZenonT(30) DEF Trails, Trail
  <2> QED
    BY <2>1, <2>2, EmptyTrail
<1>10. /\ asked[r] \o Now(o) \in Seq(Peers) /\ Later(o) \in Seq(Peers)
       /\ (asked[r] \o Now(o)) \o Later(o) = o
  <2>1. asked[r] \in Seq(Peers)
    BY <1>4, <1>8
  <2>2. asked[r] \o Now(o) \in Seq(Peers) /\ (asked[r] \o Now(o)) \o Later(o) = asked[r] \o o
    BY <2>1, <1>7, AskKeepsTrail
  <2>3. <<>> \o o = o
    BY <1>7, ConcatEmptySeq
  <2> QED
    BY <2>2, <2>3, <1>7, <1>9, SplitWhole
<1>11. QueriesTypeOK'
  <2>1. asked' \in [Requests -> Seq(Peers)] /\ fallback' \in [Requests -> Seq(Peers)]
    BY <1>2, <1>4, <1>8, <1>10
  <2>2. known' \in [Requests -> SUBSET Peers] /\ near' \in [Requests -> SUBSET Peers]
    BY <1>0, <1>4, <1>8
  <2>3. queries' \in [QueryIds -> Requests \cup {None}]
    BY <1>0, <1>4, <1>8, ZenonT(30)
  <2> QED
    BY <2>1, <2>2, <2>3, <1>0, <1>2, <1>3, <1>4, <1>I DEF QueriesTypeOK
<1>12. Trails'
  <2> SUFFICES ASSUME NEW x \in Requests PROVE Arrangement(Trail(x), known[x], near[x])'
    BY DEF Trails
  <2>1. CASE x = r
    <3>1. asked'[x] = asked[r] \o Now(o) /\ fallback'[x] = Later(o)
      BY <2>1, <1>2, <1>4, <1>8
    <3>2. Trail(x)' = o
      BY <3>1, <1>10 DEF Trail
    <3>3. known'[x] = peers /\ near'[x] = connected
      BY <2>1, <1>0, <1>4, <1>8
    <3> QED
      BY <3>2, <3>3, <1>7
  <2>2. CASE x # r
    <3>1. asked'[x] = asked[x] /\ fallback'[x] = fallback[x] /\ known'[x] = known[x] /\ near'[x] = near[x]
      BY <2>2, <1>0, <1>2, <1>8
    <3>2. Trail(x)' = Trail(x)
      BY <3>1 DEF Trail
    <3> QED
      BY <3>1, <3>2, <1>I DEF Trails
  <2> QED
    BY <2>1, <2>2
<1>13. ErrorsAreLast'
  <2> SUFFICES ASSUME NEW x \in Requests, NEW i \in DOMAIN answers[x], answers[x][i] = "error"
               PROVE  fallback'[x] = <<>>
    BY <1>0 DEF ErrorsAreLast
  <2>1. x # r
    BY <1>5
  <2> QED
    BY <2>1, <1>2, <1>8, <1>I DEF ErrorsAreLast
<1>14. \A y \in QueryIds : queries'[y] = IF y = q THEN r ELSE queries[y]
  BY <1>0, <1>8
<1>15. r # None /\ \A y \in QueryIds : queries[y] # r
  <2>1. r # None
    BY <1>4, QueriesAssumption DEF None
  <2> QED
    BY <2>1, <1>5, <1>B DEF QueriesOpen
<1>16. OneQueryEach'
  BY <1>14, <1>15, <1>B DEF OneQueryEach
<1>17. RegisteredLive'
  <2> SUFFICES ASSUME NEW y \in QueryIds PROVE queries'[y] # None <=> Live(y)'
    BY DEF RegisteredLive
  <2>1. CASE y = q
    BY <2>1, <1>2, <1>14, <1>15 DEF Live
  <2>2. CASE y # q
    BY <2>2, <1>0, <1>2, <1>14, <1>B DEF Live, RegisteredLive
  <2> QED
    BY <2>1, <2>2
<1>18. CompletedOnce'
  BY <1>0, <1>2, <1>3, <1>B DEF CompletedOnce
<1>19. \A x \in Requests : known'[x] = IF x = r THEN peers ELSE known[x]
  BY <1>0, <1>8
<1>20. QueriesOpen'
  <2> SUFFICES ASSUME NEW y \in QueryIds, queries'[y] # None
               PROVE  answers[queries'[y]] = <<>> /\ known'[queries'[y]] # {}
    BY <1>0 DEF QueriesOpen
  <2>1. CASE y = q
    BY <2>1, <1>0, <1>4, <1>5, <1>14, <1>19
  <2>2. CASE y # q
    BY <2>2, <1>8, <1>14, <1>15, <1>19, <1>B DEF QueriesOpen
  <2> QED
    BY <2>1, <2>2
<1>21. MailboxFresh'
  <2>1. ASSUME NEW i \in DOMAIN mailbox', NEW j \in DOMAIN mailbox', mailbox'[i] = mailbox'[j]
        PROVE  i = j
    BY <2>1, <1>4, <1>B DEF MailboxFresh
  <2>2. ASSUME NEW i \in DOMAIN mailbox'
        PROVE  known'[mailbox'[i]] = {} /\ answers'[mailbox'[i]] = <<>>
    <3>1. mailbox'[i] \in Requests /\ mailbox'[i] # r
      BY <1>4, <1>6
    <3>2. known[mailbox'[i]] = {} /\ answers[mailbox'[i]] = <<>>
      BY <1>4, <1>B DEF MailboxFresh
    <3> QED
      BY <3>1, <3>2, <1>0, <1>19
  <2> QED
    BY <2>1, <2>2 DEF MailboxFresh
<1>22. OneAnswer'
  <2> SUFFICES ASSUME NEW x \in Requests
               PROVE  /\ Len(answers[x]) <= 1
                      /\ Started(x)' /\ x \notin closed
                           => answers[x] # <<>> \/ \E y \in QueryIds : queries'[y] = x
    BY <1>0 DEF OneAnswer
  <2>0. Len(answers[x]) <= 1
    BY <1>B DEF OneAnswer
  <2>1. CASE x = r
    BY <2>0, <2>1, <1>3, <1>14
  <2>2. ASSUME x # r, Started(x)', x \notin closed, answers[x] = <<>>
        PROVE  \E y \in QueryIds : queries'[y] = x
    <3>1. Started(x)
      BY <2>2, <1>0, <1>19 DEF Started
    <3>2. PICK y \in QueryIds : queries[y] = x
      BY <3>1, <2>2, <1>B DEF OneAnswer
    <3>3. y # q
      BY <3>2, <1>3, QueriesAssumption DEF None
    <3> QED
      BY <3>2, <3>3, <1>14
  <2> QED
    BY <2>0, <2>1, <2>2
<1> QED
  BY <1>11, <1>12, <1>13, <1>16, <1>17, <1>18, <1>20, <1>21, <1>22 DEF QueriesInv, Bookkeeping

\* The event handled first is of a registered query of an open request, and no
\* other event is of that query.
LEMMA FirstEvent ==
  ASSUME QueriesTypeOK, Bookkeeping, completed # <<>>
  PROVE  /\ Head(completed)[1] \in QueryIds /\ Head(completed)[2] \in {"ok", "error"}
         /\ queries[Head(completed)[1]] \in Requests
         /\ queries[Head(completed)[1]] # None
         /\ answers[queries[Head(completed)[1]]] = <<>>
         /\ Head(completed)[1] \notin running
         /\ Tail(completed) \in Seq(QueryIds \X {"ok", "error"})
         /\ \A i \in DOMAIN Tail(completed) :
              /\ Tail(completed)[i][1] # Head(completed)[1]
              /\ Tail(completed)[i][1] \notin running
         /\ \A i, j \in DOMAIN Tail(completed) :
              Tail(completed)[i][1] = Tail(completed)[j][1] => i = j
         /\ \A y \in QueryIds : y # Head(completed)[1] =>
              ((\E i \in DOMAIN Tail(completed) : Tail(completed)[i][1] = y)
                 <=> (\E i \in DOMAIN completed : completed[i][1] = y))
<1> DEFINE q == Head(completed)[1]
<1>1. completed \in Seq(QueryIds \X {"ok", "error"})
  BY DEF QueriesTypeOK
<1>2. /\ Head(completed) \in QueryIds \X {"ok", "error"}
      /\ Tail(completed) \in Seq(QueryIds \X {"ok", "error"})
      /\ Head(completed) = completed[1] /\ 1 \in DOMAIN completed
      /\ \A i \in DOMAIN Tail(completed) :
           i + 1 \in DOMAIN completed /\ i + 1 # 1 /\ Tail(completed)[i] = completed[i + 1] /\ i \in Int
      /\ \A i \in DOMAIN completed :
           i # 1 => i - 1 \in DOMAIN Tail(completed) /\ Tail(completed)[i - 1] = completed[i]
  BY <1>1, TailShifts
<1>3. q \in QueryIds /\ Head(completed)[2] \in {"ok", "error"}
  BY <1>2
<1>4. queries[q] # None
  BY <1>2, <1>3 DEF Bookkeeping, RegisteredLive, Live
<1>5. queries[q] \in Requests
  BY <1>3, <1>4 DEF QueriesTypeOK
<1>6. answers[queries[q]] = <<>>
  BY <1>3, <1>4 DEF Bookkeeping, QueriesOpen
<1>7. q \notin running
  BY <1>2 DEF Bookkeeping, CompletedOnce
<1>8. \A i \in DOMAIN Tail(completed) :
        Tail(completed)[i][1] # q /\ Tail(completed)[i][1] \notin running
  BY <1>2 DEF Bookkeeping, CompletedOnce
<1>9. ASSUME NEW i \in DOMAIN Tail(completed), NEW j \in DOMAIN Tail(completed),
             Tail(completed)[i][1] = Tail(completed)[j][1]
      PROVE  i = j
  <2>1. i + 1 = j + 1
    BY <1>2, <1>9 DEF Bookkeeping, CompletedOnce
  <2>2. i \in Int /\ j \in Int
    BY <1>2
  <2> QED
    BY <2>1, <2>2
<1>10. ASSUME NEW y \in QueryIds, y # q
       PROVE  (\E i \in DOMAIN Tail(completed) : Tail(completed)[i][1] = y)
                <=> (\E i \in DOMAIN completed : completed[i][1] = y)
  <2>1. ASSUME NEW i \in DOMAIN Tail(completed), Tail(completed)[i][1] = y
        PROVE  \E k \in DOMAIN completed : completed[k][1] = y
    BY <2>1, <1>2
  <2>2. ASSUME NEW i \in DOMAIN completed, completed[i][1] = y
        PROVE  \E k \in DOMAIN Tail(completed) : Tail(completed)[k][1] = y
    <3>1. i # 1
      BY <2>2, <1>2, <1>10
    <3> QED
      BY <3>1, <2>2, <1>2, ZenonT(30)
  <2> QED
    BY <2>1, <2>2
<1> QED
  BY <1>2, <1>3, <1>4, <1>5, <1>6, <1>7, <1>8, <1>9, <1>10

\* A query ends and its request is answered.
LEMMA AnswerQueryStep ==
  ASSUME QueriesInv, AnswerQuery
  PROVE  QueriesInv'
<1>I. QueriesTypeOK /\ Bookkeeping /\ Trails /\ ErrorsAreLast
  BY DEF QueriesInv
<1>B. OneQueryEach /\ RegisteredLive /\ CompletedOnce /\ QueriesOpen /\ MailboxFresh /\ OneAnswer
  BY <1>I DEF Bookkeeping
<1> DEFINE q == Head(completed)[1]
           result == Head(completed)[2]
           r == queries[q]
<1>0. /\ completed # <<>> /\ completed' = Tail(completed)
      /\ result = "ok" \/ fallback[r] = <<>>
      /\ queries' = [queries EXCEPT ![q] = None]
      /\ SendResolveResult(r, result)
      /\ UNCHANGED <<mailbox, running, fallback, closed, asked, known, near>>
  BY DEF AnswerQuery
<1>1. /\ q \in QueryIds /\ result \in {"ok", "error"} /\ r \in Requests /\ r # None
      /\ answers[r] = <<>> /\ q \notin running
      /\ completed' \in Seq(QueryIds \X {"ok", "error"})
      /\ \A i \in DOMAIN completed' : completed'[i][1] # q /\ completed'[i][1] \notin running
      /\ \A i, j \in DOMAIN completed' : completed'[i][1] = completed'[j][1] => i = j
      /\ \A y \in QueryIds : y # q =>
           ((\E i \in DOMAIN completed' : completed'[i][1] = y)
              <=> (\E i \in DOMAIN completed : completed[i][1] = y))
  BY <1>0, <1>I, FirstEvent, Zenon
<1>2. /\ queries \in [QueryIds -> Requests \cup {None}] /\ answers \in [Requests -> Seq(Outcomes)]
  BY <1>I DEF QueriesTypeOK
<1>3. \A y \in QueryIds : y # q => queries[y] # r
  BY <1>1, <1>B DEF OneQueryEach
<1>4. answers' = IF r \in closed THEN answers
                 ELSE [answers EXCEPT ![r] = Append(answers[r], result)]
  BY <1>0 DEF SendResolveResult
<1>R. r = queries[q]
  OBVIOUS
<1> HIDE DEF q, result, r
<1>5. /\ answers' \in [Requests -> Seq(Outcomes)]
      /\ \A x \in Requests : x # r => answers'[x] = answers[x]
      /\ r \in closed => answers'[r] = <<>>
      /\ r \notin closed => answers'[r] = <<result>>
  <2>1. result \in Outcomes
    BY <1>1 DEF Outcomes
  <2> QED
    BY <2>1, <1>1, <1>2, <1>4
<1>6. /\ queries' \in [QueryIds -> Requests \cup {None}]
      /\ \A y \in QueryIds : queries'[y] = IF y = q THEN None ELSE queries[y]
  BY <1>0, <1>1, <1>2
<1>7. QueriesTypeOK'
  BY <1>0, <1>1, <1>5, <1>6, <1>I DEF QueriesTypeOK
<1>8. Trails'
  BY <1>0, <1>I, TrailsKept
<1>9. ErrorsAreLast'
  <2> SUFFICES ASSUME NEW x \in Requests, NEW i \in DOMAIN answers'[x], answers'[x][i] = "error"
               PROVE  fallback[x] = <<>>
    BY <1>0 DEF ErrorsAreLast
  <2>1. CASE x # r
    BY <2>1, <1>5, <1>I DEF ErrorsAreLast
  <2>2. CASE x = r /\ r \in closed
    BY <2>2, <1>5
  <2>3. CASE x = r /\ r \notin closed
    <3>1. answers'[x] = <<result>>
      BY <2>3, <1>5
    <3>2. result = "error"
      BY <3>1
    <3> QED
      BY <3>2, <2>3, <1>0
  <2> QED
    BY <2>1, <2>2, <2>3
<1>10. OneQueryEach' /\ QueriesOpen'
  <2>1. OneQueryEach'
    BY <1>6, <1>B DEF OneQueryEach
  <2>2. ASSUME NEW y \in QueryIds, queries'[y] # None
        PROVE  answers'[queries'[y]] = <<>> /\ known[queries'[y]] # {}
    <3>1. y # q /\ queries'[y] = queries[y] /\ queries[y] \in Requests /\ queries[y] # r
      BY <2>2, <1>2, <1>3, <1>6
    <3> QED
      BY <3>1, <2>2, <1>5, <1>B DEF QueriesOpen
  <2> QED
    BY <2>1, <2>2, <1>0 DEF QueriesOpen
<1>11. RegisteredLive'
  <2> SUFFICES ASSUME NEW y \in QueryIds PROVE queries'[y] # None <=> Live(y)'
    BY DEF RegisteredLive
  <2>1. CASE y = q
    BY <2>1, <1>0, <1>1, <1>6 DEF Live
  <2>2. CASE y # q
    BY <2>2, <1>0, <1>1, <1>6, <1>B DEF Live, RegisteredLive
  <2> QED
    BY <2>1, <2>2
<1>12. CompletedOnce'
  BY <1>0, <1>1 DEF CompletedOnce
<1>13. MailboxFresh'
  <2>1. ASSUME NEW i \in DOMAIN mailbox
        PROVE  known[mailbox[i]] = {} /\ answers'[mailbox[i]] = <<>>
    <3>1. known[mailbox[i]] = {} /\ answers[mailbox[i]] = <<>> /\ mailbox[i] \in Requests
      BY <1>B, <1>I DEF MailboxFresh, QueriesTypeOK
    <3>2. mailbox[i] # r
      BY <3>1, <1>1, <1>R, <1>B DEF QueriesOpen
    <3> QED
      BY <3>1, <3>2, <1>5
  <2> QED
    BY <2>1, <1>0, <1>B DEF MailboxFresh
<1>14. OneAnswer'
  <2> SUFFICES ASSUME NEW x \in Requests
               PROVE  /\ Len(answers'[x]) <= 1
                      /\ Started(x)' /\ x \notin closed
                           => answers'[x] # <<>> \/ \E y \in QueryIds : queries'[y] = x
    BY <1>0 DEF OneAnswer
  <2>1. CASE x # r
    <3>1. answers'[x] = answers[x] /\ Len(answers[x]) <= 1 /\ (Started(x)' <=> Started(x))
      BY <2>1, <1>0, <1>5, <1>B DEF OneAnswer, Started
    <3>2. ASSUME Started(x), x \notin closed, answers[x] = <<>>
          PROVE  \E y \in QueryIds : queries'[y] = x
      <4>1. PICK y \in QueryIds : queries[y] = x
        BY <3>2, <1>B DEF OneAnswer
      <4>2. y # q
        BY <4>1, <2>1, <1>R
      <4> QED
        BY <4>1, <4>2, <1>6
    <3> QED
      BY <3>1, <3>2
  <2>2. CASE x = r /\ r \in closed
    BY <2>2, <1>5
  <2>3. CASE x = r /\ r \notin closed
    <3>1. Len(answers'[x]) = 1
      BY <2>3, <1>5, ZenonT(30)
    <3>2. answers'[x] # <<>>
      BY <3>1, LenOfEmpty
    <3> QED
      BY <3>1, <3>2
  <2> QED
    BY <2>1, <2>2, <2>3
<1> QED
  BY <1>7, <1>8, <1>9, <1>10, <1>11, <1>12, <1>13, <1>14 DEF QueriesInv, Bookkeeping

\* A query fails and the next batch of its request is asked.
LEMMA FallBackStep ==
  ASSUME QueriesInv, NEW next \in QueryIds, FallBack(next)
  PROVE  QueriesInv'
<1>I. QueriesTypeOK /\ Bookkeeping /\ Trails /\ ErrorsAreLast
  BY DEF QueriesInv
<1>B. OneQueryEach /\ RegisteredLive /\ CompletedOnce /\ QueriesOpen /\ MailboxFresh /\ OneAnswer
  BY <1>I DEF Bookkeeping
<1> DEFINE q == Head(completed)[1]
           r == queries[q]
<1>0. /\ completed # <<>> /\ completed' = Tail(completed)
      /\ next \in FreshIds \cup {q}
      /\ Ask(next, r, fallback[r])
      /\ queries' = [[queries EXCEPT ![q] = None] EXCEPT ![next] = r]
      /\ UNCHANGED <<mailbox, closed, answers, known, near>>
  BY DEF FallBack
<1>1. /\ q \in QueryIds /\ r \in Requests /\ r # None
      /\ answers[r] = <<>> /\ q \notin running
      /\ completed' \in Seq(QueryIds \X {"ok", "error"})
      /\ \A i \in DOMAIN completed' : completed'[i][1] # q /\ completed'[i][1] \notin running
      /\ \A i, j \in DOMAIN completed' : completed'[i][1] = completed'[j][1] => i = j
      /\ \A y \in QueryIds : y # q =>
           ((\E i \in DOMAIN completed' : completed'[i][1] = y)
              <=> (\E i \in DOMAIN completed : completed[i][1] = y))
  BY <1>0, <1>I, FirstEvent, Zenon
<1>2. /\ running' = running \cup {next}
      /\ fallback' = [fallback EXCEPT ![r] = Later(fallback[r])]
      /\ asked' = [asked EXCEPT ![r] = asked[r] \o Now(fallback[r])]
  BY <1>0 DEF Ask
<1>3. /\ asked \in [Requests -> Seq(Peers)] /\ fallback \in [Requests -> Seq(Peers)]
      /\ queries \in [QueryIds -> Requests \cup {None}]
  BY <1>I DEF QueriesTypeOK
<1>R. r = queries[q]
  OBVIOUS
<1>4. next \notin running /\ \A i \in DOMAIN completed' : completed'[i][1] # next
  <2>1. CASE next = q
    BY <2>1, <1>1
  <2>2. CASE next # q
    <3>1. next \notin running /\ \A i \in DOMAIN completed : completed[i][1] # next
      BY <2>2, <1>0 DEF FreshIds
    <3> QED
      BY <3>1, <2>2, <1>1
  <2> QED
    BY <2>1, <2>2
<1>5. next # q => queries[next] = None
  BY <1>0 DEF FreshIds
<1>6. \A y \in QueryIds : y # q => queries[y] # r
  BY <1>1, <1>B DEF OneQueryEach
<1> HIDE DEF q, r
<1>7. /\ queries' \in [QueryIds -> Requests \cup {None}]
      /\ \A y \in QueryIds :
           queries'[y] = IF y = next THEN r ELSE IF y = q THEN None ELSE queries[y]
  BY <1>0, <1>1, <1>3
<1>8. /\ asked[r] \o Now(fallback[r]) \in Seq(Peers) /\ Later(fallback[r]) \in Seq(Peers)
      /\ (asked[r] \o Now(fallback[r])) \o Later(fallback[r]) = asked[r] \o fallback[r]
  <2>1. asked[r] \in Seq(Peers) /\ fallback[r] \in Seq(Peers)
    BY <1>1, <1>3
  <2> QED
    BY <2>1, AskKeepsTrail, SplitWhole, ZenonT(30)
<1>9. QueriesTypeOK'
  <2>1. asked' \in [Requests -> Seq(Peers)] /\ fallback' \in [Requests -> Seq(Peers)]
    BY <1>1, <1>2, <1>3, <1>8
  <2> QED
    BY <2>1, <1>0, <1>1, <1>2, <1>7, <1>I, ZenonT(30) DEF QueriesTypeOK
<1>10. Trails'
  <2> SUFFICES ASSUME NEW x \in Requests PROVE Arrangement(Trail(x), known[x], near[x])'
    BY DEF Trails
  <2>1. Trail(x)' = Trail(x)
    <3>1. CASE x = r
      <4>1. asked'[x] = asked[r] \o Now(fallback[r]) /\ fallback'[x] = Later(fallback[r])
        BY <3>1, <1>1, <1>2, <1>3
      <4> QED
        BY <4>1, <3>1, <1>8 DEF Trail
    <3>2. CASE x # r
      <4>1. asked'[x] = asked[x] /\ fallback'[x] = fallback[x]
        BY <3>2, <1>2, <1>3
      <4> QED
        BY <4>1 DEF Trail
    <3> QED
      BY <3>1, <3>2
  <2>2. known'[x] = known[x] /\ near'[x] = near[x]
    BY <1>0
  <2> QED
    BY <2>1, <2>2, <1>I DEF Trails
<1>11. ErrorsAreLast'
  <2> SUFFICES ASSUME NEW x \in Requests, NEW i \in DOMAIN answers[x], answers[x][i] = "error"
               PROVE  fallback'[x] = <<>>
    BY <1>0 DEF ErrorsAreLast
  <2>1. x # r
    BY <1>1
  <2> QED
    BY <2>1, <1>2, <1>3, <1>I DEF ErrorsAreLast
<1>12. OneQueryEach'
  BY <1>6, <1>7, <1>B DEF OneQueryEach
<1>13. RegisteredLive'
  <2> SUFFICES ASSUME NEW y \in QueryIds PROVE queries'[y] # None <=> Live(y)'
    BY DEF RegisteredLive
  <2>1. CASE y = next
    BY <2>1, <1>1, <1>2, <1>7 DEF Live
  <2>2. CASE y # next /\ y = q
    BY <2>2, <1>1, <1>2, <1>7 DEF Live
  <2>3. CASE y # next /\ y # q
    <3>1. queries'[y] = queries[y] /\ (y \in running' <=> y \in running)
      BY <2>3, <1>2, <1>7
    <3> QED
      BY <3>1, <2>3, <1>1, <1>B DEF Live, RegisteredLive
  <2> QED
    BY <2>1, <2>2, <2>3
<1>14. CompletedOnce'
  BY <1>1, <1>2, <1>4 DEF CompletedOnce
<1>15. QueriesOpen'
  <2> SUFFICES ASSUME NEW y \in QueryIds, queries'[y] # None
               PROVE  answers[queries'[y]] = <<>> /\ known[queries'[y]] # {}
    BY <1>0, ZenonT(30) DEF QueriesOpen
  <2>1. PICK z \in QueryIds : queries'[y] = queries[z]
    BY <1>1, <1>7, <1>R
  <2> QED
    BY <2>1, <1>B DEF QueriesOpen
<1>16. MailboxFresh'
  BY <1>0, <1>B DEF MailboxFresh
<1>17. OneAnswer'
  <2> SUFFICES ASSUME NEW x \in Requests
               PROVE  /\ Len(answers[x]) <= 1
                      /\ Started(x) /\ x \notin closed
                           => answers[x] # <<>> \/ \E y \in QueryIds : queries'[y] = x
    BY <1>0, ZenonT(30) DEF OneAnswer, Started
  <2>0. Len(answers[x]) <= 1
    BY <1>B DEF OneAnswer
  <2>1. CASE x = r
    BY <2>0, <2>1, <1>7
  <2>2. ASSUME x # r, Started(x), x \notin closed, answers[x] = <<>>
        PROVE  \E y \in QueryIds : queries'[y] = x
    <3>1. PICK y \in QueryIds : queries[y] = x
      BY <2>2, <1>B DEF OneAnswer
    <3>2. y # q /\ y # next
      <4>1. y # q
        BY <3>1, <2>2, <1>R
      <4>2. y # next
        BY <4>1, <3>1, <1>5, QueriesAssumption DEF None
      <4> QED
        BY <4>1, <4>2
    <3> QED
      BY <3>1, <3>2, <1>7
  <2> QED
    BY <2>0, <2>1, <2>2
<1> QED
  BY <1>9, <1>10, <1>11, <1>12, <1>13, <1>14, <1>15, <1>16, <1>17 DEF QueriesInv, Bookkeeping

\* Every step keeps the invariant.
LEMMA QueriesStep == QueriesInv /\ [QueriesNext]_queryVars => QueriesInv'
<1> SUFFICES ASSUME QueriesInv, [QueriesNext]_queryVars PROVE QueriesInv'
  OBVIOUS
<1>1. CASE \E r \in Requests : Resolve(r) \/ Abandon(r)
  BY <1>1, ClientSteps
<1>2. CASE HandleRequest
  BY <1>2, StartWithoutPeersStep, StartQueryStep DEF HandleRequest
<1>3. CASE HandleContentEvent
  BY <1>3, AnswerQueryStep, FallBackStep DEF HandleContentEvent
<1>4. CASE CompleteSome
  BY <1>4, CompleteStep DEF CompleteSome
<1>5. CASE UNCHANGED queryVars
  <2>0. UNCHANGED <<mailbox, running, completed, queries, fallback, closed, answers, asked, known, near>>
    BY <1>5 DEF queryVars
  <2>1. QueriesTypeOK /\ Bookkeeping /\ Trails /\ ErrorsAreLast
    BY DEF QueriesInv
  <2>2. Trails' /\ ErrorsAreLast'
    BY <2>0, <2>1, TrailsUnchanged
  <2>3. QueriesTypeOK'
    BY <2>0, <2>1 DEF QueriesTypeOK
  <2>4. Bookkeeping'
    BY <2>0, <2>1 DEF Bookkeeping, OneQueryEach, RegisteredLive, CompletedOnce, QueriesOpen,
                      MailboxFresh, OneAnswer, Started, Live
  <2> QED
    BY <2>2, <2>3, <2>4 DEF QueriesInv
<1> QED
  BY <1>1, <1>2, <1>3, <1>4, <1>5 DEF QueriesNext

\* What was asked is the beginning of the trail.
LEMMA AskedOfTrail ==
  ASSUME NEW a \in Seq(Peers), NEW f \in Seq(Peers)
  PROVE  /\ \A i \in DOMAIN a : i \in DOMAIN (a \o f) /\ (a \o f)[i] = a[i]
         /\ f = <<>> => a \o f = a
<1>1. \A i \in DOMAIN a : i \in DOMAIN (a \o f) /\ (a \o f)[i] = a[i]
  BY ConcatProperties
<1>2. f = <<>> => a \o f = a
  BY ConcatEmptySeq
<1> QED
  BY <1>1, <1>2

\* The invariant gives the three properties.
LEMMA QueriesImplied == QueriesInv => OneQueryOrOneAnswer /\ AskedAllBeforeError /\ ConnectedFirst
<1> SUFFICES ASSUME QueriesInv
             PROVE  OneQueryOrOneAnswer /\ AskedAllBeforeError /\ ConnectedFirst
  OBVIOUS
<1>I. QueriesTypeOK /\ Bookkeeping /\ Trails /\ ErrorsAreLast
  BY DEF QueriesInv
<1>1. OneQueryOrOneAnswer
  <2>1. ASSUME NEW i \in DOMAIN completed PROVE queries[completed[i][1]] # None
    <3>1. completed[i][1] \in QueryIds
      BY <1>I DEF QueriesTypeOK
    <3> QED
      BY <3>1, <1>I DEF Bookkeeping, RegisteredLive, Live
  <2> QED
    BY <2>1, <1>I DEF Bookkeeping, OneQueryEach, QueriesOpen, OneAnswer, OneQueryOrOneAnswer
<1>2. ASSUME NEW r \in Requests
      PROVE  /\ \A i \in DOMAIN asked[r] : i \in DOMAIN Trail(r) /\ Trail(r)[i] = asked[r][i]
             /\ fallback[r] = <<>> => Trail(r) = asked[r]
             /\ Arrangement(Trail(r), known[r], near[r])
  <2>1. asked[r] \in Seq(Peers) /\ fallback[r] \in Seq(Peers)
    BY <1>I DEF QueriesTypeOK
  <2> QED
    BY <2>1, <1>I, AskedOfTrail, ZenonT(30) DEF Trail, Trails
<1>3. AskedAllBeforeError
  <2> SUFFICES ASSUME NEW r \in Requests
               PROVE  /\ \A i, j \in DOMAIN asked[r] : i # j => asked[r][i] # asked[r][j]
                      /\ \A i \in DOMAIN answers[r] :
                           answers[r][i] = "error" => {asked[r][k] : k \in DOMAIN asked[r]} = known[r]
    BY DEF AskedAllBeforeError
  <2>1. \A i, j \in DOMAIN asked[r] : i # j => asked[r][i] # asked[r][j]
    BY <1>2 DEF Arrangement
  <2>2. ASSUME NEW i \in DOMAIN answers[r], answers[r][i] = "error"
        PROVE  {asked[r][k] : k \in DOMAIN asked[r]} = known[r]
    <3>1. Arrangement(asked[r], known[r], near[r])
      BY <2>2, <1>2, <1>I DEF ErrorsAreLast
    <3> QED
      BY <3>1 DEF Arrangement
  <2> QED
    BY <2>1, <2>2
<1>4. ConnectedFirst
  <2> SUFFICES ASSUME NEW r \in Requests, NEW i \in DOMAIN asked[r], NEW j \in DOMAIN asked[r],
                      i < j, asked[r][j] \in near[r]
               PROVE  asked[r][i] \in near[r]
    BY DEF ConnectedFirst
  <2> QED
    BY <1>2 DEF Arrangement
<1> QED
  BY <1>1, <1>3, <1>4

LEMMA QueriesAlways == QueriesSpec => []QueriesInv
<1>1. QueriesInit => QueriesInv
  BY QueriesInitially
<1>2. QueriesInv /\ [QueriesNext]_queryVars => QueriesInv'
  BY QueriesStep
<1> QED
  BY <1>1, <1>2, PTL DEF QueriesSpec

\* For any number of peers, requests and queries and any batch size, a request
\* that start_query took has one registered query or its one answer
\* (service.rs:473-551).
THEOREM QueriesAnsweredOnce == QueriesSpec => []OneQueryOrOneAnswer
<1>1. QueriesInv => OneQueryOrOneAnswer
  BY QueriesImplied
<1> QED
  BY <1>1, QueriesAlways, PTL

\* An error is answered only after every provider was asked, none twice
\* (service.rs:503-524).
THEOREM ErrorsAfterAll == QueriesSpec => []AskedAllBeforeError
<1>1. QueriesInv => AskedAllBeforeError
  BY QueriesImplied
<1> QED
  BY <1>1, QueriesAlways, PTL

\* Providers that were connected when the query started are asked first
\* (start_query, service.rs:463-472).
THEOREM ConnectedAskedFirst == QueriesSpec => []ConnectedFirst
<1>1. QueriesInv => ConnectedFirst
  BY QueriesImplied
<1> QED
  BY <1>1, QueriesAlways, PTL

-------------------------------------------------------------------------------
\* No step gives a request that has started more peers to fall back on, and
\* handling the end of its query answers it, finds nobody listening or leaves
\* fewer of them.
Advances ==
  /\ \A r \in Requests : known[r] # {} => Len(fallback'[r]) <= Len(fallback[r])
  /\ HandleContentEvent =>
       LET r == queries[Head(completed)[1]]
       IN  answers'[r] # <<>> \/ r \in closed \/ Len(fallback'[r]) < Len(fallback[r])

\* What is left after a batch is shorter.
LEMMA LaterShorter ==
  ASSUME NEW s \in Seq(Peers)
  PROVE  /\ Len(Later(s)) <= Len(s)
         /\ MaxPeersPerQuery # 0 /\ s # <<>> => Len(Later(s)) < Len(s)
<1>1. BatchSize(s) \in 0..Len(s) /\ Len(s) \in Nat
  BY QueriesAssumption DEF BatchSize
<1>2. Len(Later(s)) = Len(s) - BatchSize(s)
  BY <1>1 DEF Later
<1>3. MaxPeersPerQuery # 0 /\ s # <<>> => BatchSize(s) # 0
  BY QueriesAssumption DEF BatchSize
<1> QED
  BY <1>1, <1>2, <1>3

\* Each step advances the requests it is about and leaves the others alone.
LEMMA StepAdvances ==
  ASSUME MaxPeersPerQuery # 0, QueriesInv, [QueriesNext]_queryVars
  PROVE  Advances \/ UNCHANGED queryVars
<1>I. QueriesTypeOK /\ Bookkeeping
  BY DEF QueriesInv
<1>L. \A r \in Requests : fallback[r] \in Seq(Peers) /\ Len(fallback[r]) \in Nat
  BY <1>I DEF QueriesTypeOK
<1> DEFINE r == queries[Head(completed)[1]]
           NoneAdded == \A x \in Requests : known[x] # {} => Len(fallback'[x]) <= Len(fallback[x])
           Progress == answers'[r] # <<>> \/ r \in closed \/ Len(fallback'[r]) < Len(fallback[r])
<1>1. ASSUME UNCHANGED fallback PROVE NoneAdded
  BY <1>1, <1>L
<1>2. HandleContentEvent => r \in Requests /\ answers[r] = <<>>
  BY <1>I, FirstEvent DEF HandleContentEvent, AnswerQuery, FallBack
<1> HIDE DEF r
<1>3. AnswerQuery => NoneAdded /\ Progress
  <2> SUFFICES ASSUME AnswerQuery PROVE NoneAdded /\ Progress
    OBVIOUS
  <2>1. NoneAdded
    BY <1>1 DEF AnswerQuery
  <2>2. r \in Requests
    BY <1>2 DEF HandleContentEvent
  <2>3. answers' = IF r \in closed THEN answers
                   ELSE [answers EXCEPT ![r] = Append(@, Head(completed)[2])]
    BY DEF AnswerQuery, SendResolveResult, r
  <2>4. CASE r \notin closed
    <3>1. answers'[r] = Append(answers[r], Head(completed)[2]) /\ answers[r] \in Seq(Outcomes)
      BY <1>I, <2>2, <2>3, <2>4 DEF QueriesTypeOK
    <3> QED
      BY <2>1, <3>1
  <2> QED
    BY <2>1, <2>4
<1>4. ASSUME NEW next \in QueryIds PROVE FallBack(next) => NoneAdded /\ Progress
  <2> SUFFICES ASSUME FallBack(next) PROVE NoneAdded /\ Progress
    OBVIOUS
  <2>1. r \in Requests
    BY <1>2 DEF HandleContentEvent
  <2>2. fallback' = [fallback EXCEPT ![r] = Later(fallback[r])] /\ fallback[r] # <<>>
    BY DEF FallBack, Ask, r
  <2>3. fallback \in [Requests -> Seq(Peers)]
    BY <1>I DEF QueriesTypeOK
  <2>4. Len(fallback'[r]) < Len(fallback[r])
    BY <2>1, <2>2, <2>3, LaterShorter
  <2>5. ASSUME NEW x \in Requests PROVE Len(fallback'[x]) <= Len(fallback[x])
    <3>1. CASE x = r
      <4>1. fallback'[x] = Later(fallback[x]) /\ fallback[x] \in Seq(Peers)
        BY <2>2, <2>3, <3>1
      <4> QED
        BY <4>1, LaterShorter
    <3>2. CASE x # r
      BY <1>L, <2>2, <2>3, <3>2
    <3> QED
      BY <3>1, <3>2
  <2> QED
    BY <2>4, <2>5
<1>5. ASSUME NEW q \in FreshIds, NEW peers \in SUBSET Peers, NEW connected \in SUBSET Peers,
             StartQuery(q, peers, connected)
      PROVE  NoneAdded
  <2>1. mailbox # <<>> /\ mailbox \in Seq(Requests)
    BY <1>5, <1>I DEF StartQuery, QueriesTypeOK
  <2>2. Head(mailbox) = mailbox[1] /\ 1 \in DOMAIN mailbox /\ Head(mailbox) \in Requests
    BY <2>1
  <2>3. known[Head(mailbox)] = {}
    BY <1>I, <2>2 DEF Bookkeeping, MailboxFresh
  <2>4. PICK o : fallback' = [fallback EXCEPT ![Head(mailbox)] = Later(o)]
    BY <1>5, ZenonT(30) DEF StartQuery, Ask
  <2>5. fallback \in [Requests -> Seq(Peers)]
    BY <1>I DEF QueriesTypeOK
  <2>6. ASSUME NEW x \in Requests, known[x] # {} PROVE Len(fallback'[x]) <= Len(fallback[x])
    <3>1. x # Head(mailbox)
      BY <2>3, <2>6
    <3>2. fallback'[x] = fallback[x]
      BY <2>4, <2>5, <3>1
    <3> QED
      BY <1>L, <3>2
  <2> QED
    BY <2>6
<1>6. ASSUME NEW x \in Requests, Resolve(x) \/ Abandon(x) PROVE NoneAdded
  BY <1>1, <1>6 DEF Resolve, Abandon
<1>7. ASSUME StartWithoutPeers \/ CompleteSome PROVE NoneAdded
  BY <1>1, <1>7 DEF StartWithoutPeers, CompleteSome, Complete
<1>8. QueriesNext => NoneAdded
  BY <1>3, <1>4, <1>5, <1>6, <1>7, ZenonT(30) DEF QueriesNext, HandleRequest, HandleContentEvent
<1>9. HandleContentEvent => Progress
  BY <1>3, <1>4 DEF HandleContentEvent
<1> QED
  BY <1>8, <1>9 DEF Advances, r

\* A registered query is one that Bitswap works on or has just completed: none
\* is forgotten in queries, none ends unnoticed (service.rs:376-403, 453-524).
THEOREM RegisteredWhileLive == QueriesSpec => []RegisteredLive
<1>1. QueriesInv => RegisteredLive
  BY DEF QueriesInv, Bookkeeping
<1> QED
  BY <1>1, QueriesAlways, PTL

\* With room for a peer in a batch, the fallbacks of a request run out: every
\* event of its queries answers it or leaves fewer peers to try, and nothing
\* adds any (resolve_query and split_peers_for_query, service.rs:493-532).
THEOREM FallbacksRunOut ==
  ASSUME MaxPeersPerQuery # 0
  PROVE  QueriesSpec => [][Advances]_queryVars
<1>1. QueriesInv /\ [QueriesNext]_queryVars => [Advances]_queryVars
  BY StepAdvances
<1> QED
  BY <1>1, QueriesAlways, PTL DEF QueriesSpec
===============================================================================
