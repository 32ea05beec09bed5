----------------------------- MODULE ResolverProofs ----------------------------
(***************************************************************************)
(* The provider cache is correct for any peers and subnets and any order   *)
(* of calls; publications keep their time, topics match and the events     *)
(* tell a consumer what the cache holds, for any intervals and queues; and *)
(* with discovery and the service around them, connections, buffered       *)
(* peers, lookups and routable peers are kept in step, and all of the      *)
(* former holds within the service.                                        *)
(***************************************************************************)
EXTENDS Resolver, FiniteSetTheorems, TLAPS

-------------------------------------------------------------------------------
(* The provider cache *)

\* The inductive invariant.
CacheInv == CacheTypeOK /\ ProvidersAreRoutable /\ CacheShowsNewest

\* What CacheShowsNewest says of a single pair.
LEMMA PairForm ==
  ASSUME NEW p \in Peers, NEW s \in Subnets, CacheShowsNewest
  PROVE  <<p, s>> \in providers <=> (s \in newest[p].subnets /\ <<p, s>> \notin lost)
<1>1. s \in SubnetsOf(p) <=> s \in {t \in newest[p].subnets : <<p, t>> \notin lost}
  BY DEF CacheShowsNewest
<1> QED
  BY <1>1 DEF SubnetsOf

\* The initial cache satisfies the invariant.
LEMMA CacheInitInv == CacheInit => CacheInv
<1> SUFFICES ASSUME CacheInit PROVE CacheInv
  OBVIOUS
<1>1. NoRecord \in Snapshots
  BY DEF NoRecord, Snapshots
<1>2. CacheTypeOK
  BY <1>1 DEF CacheInit, CacheTypeOK
<1>3. ProvidersAreRoutable
  BY DEF CacheInit, ProvidersAreRoutable
<1>4. CacheShowsNewest
  BY DEF CacheInit, CacheShowsNewest, NoRecord, SubnetsOf
<1> QED
  BY <1>2, <1>3, <1>4 DEF CacheInv

\* Making peers unroutable, at once or by age, preserves the invariant.
LEMMA ForgetInv ==
  ASSUME NEW gone, CacheInv, Forget(gone)
  PROVE  CacheInv'
<1> USE DEF CacheInv
<1>1. NoRecord \in Snapshots /\ NoRecord.subnets = {} /\ NoRecord.timestamp = 0
  BY DEF NoRecord, Snapshots
<1>2. CacheTypeOK'
  <2>1. providers' \subseteq Peers \X tracked' /\ lost' \subseteq Peers \X Subnets
    BY DEF Forget, CacheTypeOK
  <2>2. timestamp' \in [Peers -> Nat] /\ newest' \in [Peers -> Snapshots]
    BY <1>1 DEF Forget, CacheTypeOK
  <2> QED
    BY <2>1, <2>2 DEF Forget, CacheTypeOK
<1>3. ProvidersAreRoutable'
  BY DEF Forget, ProvidersAreRoutable
<1>4. CacheShowsNewest'
  <2> SUFFICES ASSUME NEW p \in Peers
               PROVE  /\ timestamp'[p] = newest'[p].timestamp
                      /\ SubnetsOf(p)' = {s \in newest'[p].subnets : <<p, s>> \notin lost'}
    BY DEF CacheShowsNewest
  <2>1. timestamp'[p] = newest'[p].timestamp
    BY <1>1 DEF Forget, CacheShowsNewest
  <2>2. CASE p \in gone
    <3>1. newest'[p] = NoRecord /\ SubnetsOf(p)' = {}
      BY <2>2 DEF Forget, SubnetsOf
    <3> QED
      BY <3>1, <2>1, <1>1
  <2>3. CASE p \notin gone
    <3>1. newest'[p] = newest[p]
      BY <2>3 DEF Forget
    <3>2. \A s : <<p, s>> \in providers' <=> <<p, s>> \in providers
      BY <2>3 DEF Forget
    <3>3. \A s : <<p, s>> \in lost' <=> <<p, s>> \in lost
      BY <2>3 DEF Forget
    <3>4. SubnetsOf(p)' = SubnetsOf(p)
      BY <3>2 DEF SubnetsOf
    <3>5. SubnetsOf(p) = {s \in newest[p].subnets : <<p, s>> \notin lost}
      BY DEF CacheShowsNewest
    <3> QED
      BY <3>1, <3>3, <3>4, <3>5, <2>1
  <2> QED
    BY <2>2, <2>3
<1> QED
  BY <1>2, <1>3, <1>4

\* A record that is newer preserves the invariant, whatever gets pruned.
LEMMA AddNewerInv ==
  ASSUME NEW r \in Records, CacheInv, AddNewer(r)
  PROVE  CacheInv'
<1> USE DEF CacheInv
<1>1. PICK gone \in Prunings(tracked \cup r.subnets, WithRecord(r)) :
        /\ tracked' = (tracked \cup r.subnets) \ gone
        /\ providers' = {e \in WithRecord(r) : e[2] \notin gone}
        /\ lost' = (lost \cup {e \in WithRecord(r) : e[2] \in gone}) \ providers'
        /\ delta' = [peer |-> r.peer, updated |-> TRUE, is_new |-> r.peer \notin known,
                     added |-> Added(r, gone), removed |-> SubnetsOf(r.peer) \ r.subnets,
                     before |-> SubnetsOf(r.peer), pruned |-> gone]
  BY ZenonT(30) DEF AddNewer
<1>2. r.peer \in Peers /\ r.subnets \subseteq Subnets /\ r.timestamp \in Nat
  BY TimestampsAssumption, ZenonT(30) DEF Records
<1>3. gone \subseteq Subnets
  BY <1>1, <1>2 DEF Prunings, CacheTypeOK
<1>4. WithRecord(r) \subseteq Peers \X (tracked \cup r.subnets)
  BY <1>2 DEF WithRecord, CacheTypeOK
<1>5. newest[r.peer].timestamp = timestamp[r.peer] /\ timestamp[r.peer] < r.timestamp
  BY <1>2 DEF AddNewer, IsNewer, CacheShowsNewest
<1>6. newest' = [newest EXCEPT ![r.peer] = [subnets |-> r.subnets, timestamp |-> r.timestamp]]
  BY <1>2, <1>5 DEF AddNewer, CacheTypeOK
<1>7. CacheTypeOK'
  <2>1. providers' \subseteq Peers \X tracked' /\ lost' \subseteq Peers \X Subnets
    BY <1>1, <1>2, <1>4 DEF CacheTypeOK
  <2>2. timestamp' \in [Peers -> Nat] /\ known' \subseteq Peers
    BY <1>2 DEF AddNewer, CacheTypeOK
  <2>3. newest' \in [Peers -> Snapshots]
    BY <1>2, <1>6 DEF CacheTypeOK, Snapshots
  <2>4. delta' \in Deltas
    BY <1>1, <1>2, <1>3 DEF Deltas, Added, SubnetsOf
  <2> QED
    BY <1>1, <1>2, <2>1, <2>2, <2>3, <2>4 DEF AddNewer, CacheTypeOK
<1>8. ProvidersAreRoutable'
  BY <1>1 DEF AddNewer, ProvidersAreRoutable, WithRecord
<1>9. CacheShowsNewest'
  <2> SUFFICES ASSUME NEW p \in Peers
               PROVE  /\ timestamp'[p] = newest'[p].timestamp
                      /\ SubnetsOf(p)' = {s \in newest'[p].subnets : <<p, s>> \notin lost'}
    BY DEF CacheShowsNewest
  <2>1. timestamp'[p] = newest'[p].timestamp
    BY <1>2, <1>6 DEF AddNewer, CacheShowsNewest, CacheTypeOK
  <2>2. newest'[p].subnets \subseteq Subnets
    BY <1>7 DEF CacheTypeOK, Snapshots
  <2>3. ASSUME NEW s \in Subnets
        PROVE  <<p, s>> \in providers' <=> (s \in newest'[p].subnets /\ <<p, s>> \notin lost')
    <3>1. CASE p = r.peer
      <4>1. newest'[p].subnets = r.subnets
        BY <1>2, <1>6, <3>1 DEF CacheTypeOK
      <4>2. <<p, s>> \in WithRecord(r) <=> s \in r.subnets
        BY <3>1 DEF WithRecord
      <4> QED
        BY <1>1, <4>1, <4>2, <3>1
    <3>2. CASE p # r.peer
      <4>1. newest'[p] = newest[p]
        BY <1>2, <1>6, <3>2 DEF CacheTypeOK
      <4>2. <<p, s>> \in WithRecord(r) <=> <<p, s>> \in providers
        BY <3>2 DEF WithRecord
      <4>3. <<p, s>> \in providers <=> (s \in newest[p].subnets /\ <<p, s>> \notin lost)
        BY PairForm
      <4> QED
        BY <1>1, <4>1, <4>2, <4>3, <3>2
    <3> QED
      BY <3>1, <3>2
  <2>4. SubnetsOf(p)' = {s \in newest'[p].subnets : <<p, s>> \notin lost'}
    BY <2>2, <2>3 DEF SubnetsOf
  <2> QED
    BY <2>1, <2>4
<1> QED
  BY <1>7, <1>8, <1>9

\* Every step preserves the invariant.
LEMMA CacheNextInv == CacheInv /\ [CacheNext]_cacheVars => CacheInv'
<1> SUFFICES ASSUME CacheInv, [CacheNext]_cacheVars PROVE CacheInv'
  OBVIOUS
<1> USE DEF CacheInv
<1>1. ASSUME NEW s \in Subnets, PinSubnet(s) \/ UnpinSubnet(s) PROVE CacheInv'
  BY <1>1 DEF PinSubnet, UnpinSubnet, CacheTypeOK, ProvidersAreRoutable, CacheShowsNewest,
              SubnetsOf
<1>2. ASSUME NEW p \in Peers, SetRoutable(p) PROVE CacheInv'
  BY <1>2 DEF SetRoutable, CacheTypeOK, ProvidersAreRoutable, CacheShowsNewest, SubnetsOf
<1>3. ASSUME NEW p \in Peers, SetUnroutable(p) PROVE CacheInv'
  BY <1>3, ForgetInv DEF SetUnroutable
<1>4. ASSUME NEW t \in Timestamps, PruneProviders(t) PROVE CacheInv'
  BY <1>4, ForgetInv DEF PruneProviders
<1>5. ASSUME NEW r \in Records, AddNewer(r) PROVE CacheInv'
  BY <1>5, AddNewerInv
<1>6. ASSUME NEW r \in Records, AddStale(r) PROVE CacheInv'
  <2>1. r.peer \in Peers /\ r.peer \in routable
    BY <1>6 DEF Records, AddStale
  <2>2. SubnetsOf(r.peer) \subseteq Subnets
    BY DEF SubnetsOf
  <2>3. delta' \in Deltas
    BY <1>6, <2>1, <2>2, ZenonT(30) DEF AddStale, Deltas
  <2> QED
    BY <1>6, <2>1, <2>3
       DEF AddStale, CacheTypeOK, ProvidersAreRoutable, CacheShowsNewest, SubnetsOf
<1>7. ASSUME NEW r \in Records, AddSkipped(r) PROVE CacheInv'
  BY <1>7 DEF AddSkipped, CacheTypeOK, ProvidersAreRoutable, CacheShowsNewest, SubnetsOf
<1>8. CASE UNCHANGED cacheVars
  BY <1>8 DEF cacheVars, CacheTypeOK, ProvidersAreRoutable, CacheShowsNewest, SubnetsOf
<1> QED
  BY <1>1, <1>2, <1>3, <1>4, <1>5, <1>6, <1>7, <1>8 DEF CacheNext, AddProvider

\* Over any sequence of calls, providers are routable and of known age
\* (provider_cache.rs:71-80, 103-112).
THEOREM ProvidersRoutable == CacheSpec => []ProvidersAreRoutable
<1>1. CacheInv => ProvidersAreRoutable
  BY DEF CacheInv
<1> QED
  BY <1>1, CacheInitInv, CacheNextInv, PTL DEF CacheSpec

\* Over any sequence of calls, the cache shows the newest record of each peer
\* up to pruning (provider_cache.rs:103-144).
THEOREM CacheCorrect == CacheSpec => []CacheShowsNewest
<1>1. CacheInv => CacheShowsNewest
  BY DEF CacheInv
<1> QED
  BY <1>1, CacheInitInv, CacheNextInv, PTL DEF CacheSpec

\* What pruning leaves of ts is within max_subnets, or pinned.
LEMMA PruningBounds ==
  ASSUME NEW ts \in SUBSET Subnets, NEW ps, NEW gone \in Prunings(ts, ps)
  PROVE  /\ Cardinality(ts \ gone) <= MaxSubnets \/ ts \ gone \subseteq pinned
         /\ gone \cap pinned = {}
<1> DEFINE excess == IF Cardinality(ts) > MaxSubnets THEN Cardinality(ts) - MaxSubnets ELSE 0
           unpinned == ts \ pinned
<1>1. /\ gone \subseteq unpinned
      /\ IF Cardinality(unpinned) <= excess THEN gone = unpinned ELSE Cardinality(gone) = excess
  BY DEF Prunings
<1>2. CASE gone = unpinned
  BY <1>2
<1>3. CASE Cardinality(gone) = excess
  <2>1. IsFiniteSet(ts)
    BY SubnetsAssumption, FS_Subset
  <2>2. IsFiniteSet(gone) /\ gone \subseteq ts
    BY <1>1, <2>1, FS_Subset
  <2>3. Cardinality(ts \ gone) = Cardinality(ts) - Cardinality(ts \cap gone)
    BY <2>1, <2>2, FS_Difference
  <2>4. ts \cap gone = gone
    BY <2>2
  <2>5. Cardinality(ts) \in Nat
    BY <2>1, FS_CardinalityType
  <2>6. Cardinality(ts \ gone) = Cardinality(ts) - excess
    BY <1>3, <2>3, <2>4
  <2>7. Cardinality(ts \ gone) <= MaxSubnets
    BY <2>5, <2>6, MaxSubnetsAssumption
  <2> QED
    BY <1>1, <2>7
<1> QED
  BY <1>1, <1>2, <1>3

\* Each step leaves a delta that is right about it.
LEMMA NextDelta ==
  ASSUME CacheInv, BoundedUnlessPinned, DeltaUpToPruning, [CacheNext]_cacheVars
  PROVE  (BoundedUnlessPinned /\ DeltaUpToPruning)'
<1>1. CASE delta' = NoCall
  BY <1>1 DEF BoundedUnlessPinned, DeltaUpToPruning
<1>2. ASSUME NEW r \in Records, AddNewer(r) PROVE (BoundedUnlessPinned /\ DeltaUpToPruning)'
  <2>1. PICK gone \in Prunings(tracked \cup r.subnets, WithRecord(r)) :
          /\ tracked' = (tracked \cup r.subnets) \ gone
          /\ providers' = {e \in WithRecord(r) : e[2] \notin gone}
          /\ delta' = [peer |-> r.peer, updated |-> TRUE, is_new |-> r.peer \notin known,
                       added |-> Added(r, gone), removed |-> SubnetsOf(r.peer) \ r.subnets,
                       before |-> SubnetsOf(r.peer), pruned |-> gone]
    BY <1>2, ZenonT(30) DEF AddNewer
  <2>2. r.peer \in Peers /\ r.subnets \subseteq Subnets
    BY DEF Records
  <2>3. tracked \cup r.subnets \in SUBSET Subnets
    BY <2>2 DEF CacheInv, CacheTypeOK
  <2>4. /\ Cardinality(tracked') <= MaxSubnets \/ tracked' \subseteq pinned
        /\ gone \cap pinned = {}
    BY <2>1, <2>3, PruningBounds
  <2>5. BoundedUnlessPinned'
    BY <2>1, <2>4, <1>2 DEF BoundedUnlessPinned, AddNewer
  <2>6. SubnetsOf(r.peer)' = r.subnets \ gone
    <3>1. \A s \in Subnets : <<r.peer, s>> \in WithRecord(r) <=> s \in r.subnets
      BY DEF WithRecord
    <3>2. \A s \in Subnets : <<r.peer, s>> \in providers' <=> (s \in r.subnets /\ s \notin gone)
      BY <2>1, <3>1
    <3> QED
      BY <2>2, <3>2 DEF SubnetsOf
  <2>7. /\ delta'.peer = r.peer /\ delta'.added = Added(r, gone) /\ delta'.pruned = gone
        /\ delta'.removed = SubnetsOf(r.peer) \ r.subnets /\ delta'.before = SubnetsOf(r.peer)
    BY <2>1
  <2>8. DeltaUpToPruning'
    BY <2>6, <2>7 DEF DeltaUpToPruning, Added
  <2> QED
    BY <2>5, <2>8
<1>3. ASSUME NEW r \in Records, AddStale(r) PROVE (BoundedUnlessPinned /\ DeltaUpToPruning)'
  <2>1. SubnetsOf(r.peer)' = SubnetsOf(r.peer)
    BY <1>3 DEF AddStale, SubnetsOf
  <2>2. /\ delta'.peer = r.peer /\ delta'.added = {} /\ delta'.updated = FALSE
        /\ delta'.removed = {} /\ delta'.before = SubnetsOf(r.peer)
    BY <1>3 DEF AddStale
  <2> QED
    BY <2>1, <2>2 DEF BoundedUnlessPinned, DeltaUpToPruning
<1>4. CASE UNCHANGED cacheVars
  BY <1>4 DEF cacheVars, BoundedUnlessPinned, DeltaUpToPruning, SubnetsOf
<1> QED
  BY <1>1, <1>2, <1>3, <1>4
     DEF CacheNext, AddProvider, PinSubnet, UnpinSubnet, SetRoutable, SetUnroutable,
         PruneProviders, Forget, AddSkipped

\* The initial cache has no delta to be wrong about.
LEMMA InitDelta == CacheInit => BoundedUnlessPinned /\ DeltaUpToPruning
  BY DEF CacheInit, BoundedUnlessPinned, DeltaUpToPruning

\* An update keeps the cache within its bound and spares what is pinned
\* (provider_cache.rs:146-175).
THEOREM UpdatesBounded == CacheSpec => []BoundedUnlessPinned
<1>1. CacheInv /\ (BoundedUnlessPinned /\ DeltaUpToPruning) /\ [CacheNext]_cacheVars
        => (BoundedUnlessPinned /\ DeltaUpToPruning)'
  BY NextDelta
<1> QED
  BY <1>1, InitDelta, CacheInitInv, CacheNextInv, PTL DEF CacheSpec

\* An update reports every change it makes except by pruning
\* (provider_cache.rs:119-144).
THEOREM DeltasComplete == CacheSpec => []DeltaUpToPruning
<1>1. CacheInv /\ (BoundedUnlessPinned /\ DeltaUpToPruning) /\ [CacheNext]_cacheVars
        => (BoundedUnlessPinned /\ DeltaUpToPruning)'
  BY NextDelta
<1> QED
  BY <1>1, InitDelta, CacheInitInv, CacheNextInv, PTL DEF CacheSpec

-------------------------------------------------------------------------------
(* Membership *)

Ticks == <<now, timer, last_publish, next_publish, due, failed>>

\* A publication is never expected after the tick that makes it, and unless
\* the latest one failed it is expected exactly then.
TimeInv ==
  /\ now \in Nat /\ timer \in Nat /\ last_publish \in Nat /\ next_publish \in Nat /\ due \in Nat
  /\ failed \in BOOLEAN
  /\ now <= timer
  /\ next_publish <= timer
  /\ ~failed =>
       /\ next_publish = timer
       /\ due # 0 => now <= due /\ timer <= due

\* The invariant is kept by a publication, whether the interval ticked or not.
LEMMA PublishInv ==
  ASSUME TimeInv, NEW tick \in {timer, timer + Period}, PublishMembership(tick), now' = now
  PROVE  TimeInv'
<1> USE MembershipAssumption DEF TimeInv
<1>1. CASE PublishSucceeds
  <2>1. failed' \in BOOLEAN
    BY <1>1, Zenon DEF PublishSucceeds
  <2>2. now' \in Nat /\ now' <= timer' /\ next_publish' = timer' /\ due' = 0
        /\ {timer', last_publish', next_publish', due'} \subseteq Nat
    BY <1>1 DEF PublishSucceeds
  <2> QED
    BY <2>1, <2>2
<1>2. CASE PublishFails(tick)
  BY <1>2 DEF PublishFails, MayFail
<1> QED
  BY <1>1, <1>2 DEF PublishMembership

\* It is kept when a new peer brings the publication forward.
LEMMA NewPeerInv ==
  ASSUME TimeInv, PublishForNewPeer, now' = now
  PROVE  TimeInv' /\ timer' <= timer
<1> USE MembershipAssumption DEF TimeInv
<1> DEFINE quiet == subnet_ids = {} \/ RecentlyPublished
<1>1. CASE quiet
  <2>1. timer' = timer /\ next_publish' = next_publish /\ due' = due
    BY <1>1 DEF PublishForNewPeer
  <2> QED
    BY <2>1 DEF PublishForNewPeer
<1>2. CASE ~ quiet /\ PublishingSoon
  <2>1. timer' = timer /\ next_publish' = next_publish
    BY <1>2 DEF PublishForNewPeer
  <2>2. due' = IF due # 0 THEN due ELSE now + MinBetween
    BY <1>2 DEF PublishForNewPeer
  <2>3. next_publish <= now + MinBetween
    BY <1>2 DEF PublishingSoon
  <2> QED
    BY <2>1, <2>2, <2>3 DEF PublishForNewPeer
<1>3. CASE ~ quiet /\ ~ PublishingSoon
  <2>1. timer' = now + MinBetween /\ next_publish' = now + MinBetween
    BY <1>3 DEF PublishForNewPeer
  <2>2. due' = IF due # 0 THEN due ELSE now + MinBetween
    BY <1>3 DEF PublishForNewPeer
  <2>3. now + MinBetween < next_publish
    BY <1>3 DEF PublishingSoon
  <2> QED
    BY <2>1, <2>2, <2>3 DEF PublishForNewPeer
<1> QED
  BY <1>1, <1>2, <1>3

\* Every step keeps the invariant and never puts a publication off.
LEMMA NextTime ==
  ASSUME TimeInv, [MembershipNext]_membershipVars
  PROVE  TimeInv' /\ (timer' > timer => due' = 0)
<1> DEFINE Goal == TimeInv' /\ (timer' > timer => due' = 0)
<1>0. TimeInv => timer \in Nat /\ now \in Nat
  BY DEF TimeInv
<1>1. ASSUME UNCHANGED Ticks PROVE Goal
  BY <1>1, <1>0 DEF TimeInv, Ticks
<1>2. ASSUME PublishMembership(timer), now' = now PROVE Goal
  <2>1. TimeInv'
    BY <1>2, PublishInv
  <2>2. due' = 0
    BY <1>2, <1>0 DEF PublishMembership, PublishSucceeds, PublishFails
  <2> QED
    BY <2>1, <2>2
<1>3. ASSUME PublishForNewPeer, now' = now PROVE Goal
  <2>1. TimeInv' /\ timer' <= timer
    BY <1>3, NewPeerInv
  <2>2. timer' \in Nat
    BY <2>1 DEF TimeInv
  <2> QED
    BY <2>1, <2>2, <1>0
<1>4. ASSUME NEW new \in SUBSET Subnets, SetProvidedSubnets(new) PROVE Goal
  <2>1. CASE PublishMembership(timer)
    BY <2>1, <1>2, <1>4 DEF SetProvidedSubnets
  <2>2. CASE SetProvidedFails(new)
    BY <2>2, <1>1, <1>4 DEF SetProvidedSubnets, SetProvidedFails, Ticks, publishVars
  <2> QED
    BY <2>1, <2>2, <1>4 DEF SetProvidedSubnets
<1>5. ASSUME NEW s \in Subnets, AddProvidedSubnet(s) \/ RemoveProvidedSubnet(s) PROVE Goal
  BY <1>5, <1>2 DEF AddProvidedSubnet, RemoveProvidedSubnet, VotingSubscribe, VotingUnsubscribe
<1>6. ASSUME NEW s \in Subnets, Pin(s) \/ Unpin(s) \/ ReceiveVote(s) \/ ReceivePreemptive(s)
      PROVE Goal
  BY <1>6, <1>1 DEF Pin, Unpin, ReceiveVote, ReceivePreemptive, Ticks, publishVars, PreemptiveSubscribe, PreemptiveUnsubscribe
<1>7. ASSUME NEW p \in Peers, MarkRoutable(p) PROVE Goal
  BY <1>7, <1>3 DEF MarkRoutable
<1>8. ASSUME NEW p \in Peers, MarkUnroutable(p) PROVE Goal
  BY <1>8, <1>1 DEF MarkUnroutable, Ticks, publishVars
<1>9. ASSUME NEW r \in Records, ReceiveRecord(r) PROVE Goal
  <2>1. now' = now /\ (UNCHANGED publishVars \/ PublishForNewPeer)
    BY <1>9 DEF ReceiveRecord
  <2> QED
    BY <2>1, <1>1, <1>3 DEF Ticks, publishVars
<1>10. CASE Subscriber
  BY <1>10, <1>3 DEF Subscriber
<1>11. CASE Tick
  <2>1. now' = now /\ PublishMembership(timer + Period) /\ timer <= now
    BY <1>11 DEF Tick
  <2>2. TimeInv'
    BY <2>1, PublishInv
  <2>3. due' = 0
    BY <2>1 DEF PublishMembership, PublishSucceeds, PublishFails
  <2> QED
    BY <2>2, <2>3
<1>12. CASE Emit
  BY <1>12, <1>1 DEF Emit, Ticks, publishVars
<1>13. CASE Elapse
  <2>1. now' = now + 1 /\ now < timer /\ UNCHANGED publishVars
    BY <1>13 DEF Elapse
  <2>2. TimeInv'
    BY <2>1 DEF TimeInv, publishVars
  <2> QED
    BY <2>1, <2>2, <1>0 DEF publishVars
<1>14. CASE UNCHANGED membershipVars
  BY <1>14, <1>1 DEF membershipVars, Ticks, publishVars
<1> QED
  BY <1>4, <1>5, <1>6, <1>7, <1>8, <1>9, <1>10, <1>11, <1>12, <1>13, <1>14 DEF MembershipNext, MembershipCall, Receive

\* The initial state satisfies the invariant.
LEMMA InitTime == MembershipInit => TimeInv
<1> SUFFICES ASSUME MembershipInit PROVE TimeInv
  OBVIOUS
<1>1. failed \in BOOLEAN
  BY Zenon DEF MembershipInit
<1>2. /\ now = 1 /\ timer = 1 + Period /\ next_publish = timer /\ last_publish = 0 /\ due = 0
      /\ Period \in Nat
  BY MembershipAssumption DEF MembershipInit
<1> QED
  BY <1>1, <1>2 DEF TimeInv

\* While the latest publication has succeeded, one follows the appearance of
\* a new peer within min_time_between_publish, unless there was one as
\* recently (membership.rs:464-490).
THEOREM NewPeersHear == MembershipSpec => []NewPeersHearSoon
<1>1. TimeInv => NewPeersHearSoon
  BY DEF TimeInv, NewPeersHearSoon
<1>2. TimeInv /\ [MembershipNext]_membershipVars => TimeInv'
  BY NextTime
<1> QED
  BY <1>1, <1>2, InitTime, PTL DEF MembershipSpec

\* Whatever fails, a new peer never puts the next publication off
\* (membership.rs:479-480).
THEOREM PublicationNeverPostponed == MembershipSpec => NeverPostponed
<1>1. TimeInv /\ [MembershipNext]_membershipVars => TimeInv'
  BY NextTime
<1>2. TimeInv /\ [MembershipNext]_membershipVars
        => [timer' > timer => due' = 0]_membershipVars
  BY NextTime
<1> QED
  BY <1>1, <1>2, InitTime, PTL DEF MembershipSpec, NeverPostponed

\* Every step keeps the topics in line with the provided and pinned subnets.
LEMMA NextTopics ==
  ASSUME TopicsMatch, [MembershipNext]_membershipVars
  PROVE  TopicsMatch'
<1>1. ASSUME UNCHANGED <<topicVars, pinned>> PROVE TopicsMatch'
  BY <1>1 DEF TopicsMatch, topicVars
<1>2. ASSUME NEW new \in SUBSET Subnets, SetProvidedSubnets(new) PROVE TopicsMatch'
  <2>1. CASE SetProvidedFails(new)
    BY <2>1, <1>2
       DEF SetProvidedSubnets, SetProvidedFails, TopicsMatch, MayFail, cacheVars
  <2>2. CASE voting' = (voting \ (subnet_ids \ new)) \cup (new \ subnet_ids) /\ subnet_ids' = new
    BY <2>2, <1>2 DEF SetProvidedSubnets, TopicsMatch, cacheVars
  <2> QED
    BY <1>2, <2>1, <2>2 DEF SetProvidedSubnets
<1>3. ASSUME NEW s \in Subnets, AddProvidedSubnet(s) \/ RemoveProvidedSubnet(s)
      PROVE  TopicsMatch'
  BY <1>3 DEF AddProvidedSubnet, RemoveProvidedSubnet, TopicsMatch, cacheVars, VotingSubscribe, VotingUnsubscribe
<1>4. ASSUME NEW s \in Subnets, Pin(s) \/ Unpin(s) PROVE TopicsMatch'
  BY <1>4 DEF Pin, Unpin, PinSubnet, UnpinSubnet, TopicsMatch, PreemptiveSubscribe, PreemptiveUnsubscribe
<1>5. ASSUME NEW s \in Subnets, ReceiveVote(s) \/ ReceivePreemptive(s) PROVE TopicsMatch'
  BY <1>5, <1>1 DEF ReceiveVote, ReceivePreemptive, cacheVars
<1>6. ASSUME NEW p \in Peers, MarkRoutable(p) \/ MarkUnroutable(p) PROVE TopicsMatch'
  BY <1>6, <1>1 DEF MarkRoutable, MarkUnroutable, SetRoutable, SetUnroutable, Forget
<1>7. ASSUME NEW r \in Records, ReceiveRecord(r) PROVE TopicsMatch'
  BY <1>7, <1>1, ZenonT(30) DEF ReceiveRecord, AddProvider, AddNewer, AddStale, AddSkipped
<1>8. CASE Subscriber \/ Emit \/ Elapse
  BY <1>8, <1>1 DEF Subscriber, Emit, Elapse, cacheVars
<1>9. CASE Tick
  BY <1>9, <1>1, ZenonT(30) DEF Tick, PruneMembership, Forget
<1>10. CASE UNCHANGED membershipVars
  BY <1>10, <1>1 DEF membershipVars, cacheVars
<1> QED
  BY <1>2, <1>3, <1>4, <1>5, <1>6, <1>7, <1>8, <1>9, <1>10 DEF MembershipNext, MembershipCall, Receive

\* Even when subscriptions fail halfway, the agent listens to the votes of
\* every subnet it says it provides, and to the pre-emptive data of exactly
\* the pinned ones (membership.rs:247-302).
THEOREM TopicsAlwaysMatch == MembershipSpec => []TopicsMatch
<1>1. MembershipInit => TopicsMatch
  BY DEF MembershipInit, CacheInit, TopicsMatch
<1>2. TopicsMatch /\ [MembershipNext]_membershipVars => TopicsMatch'
  BY NextTopics
<1> QED
  BY <1>1, <1>2, PTL DEF MembershipSpec

\* Every step of membership is a call of the cache, prunes it, or leaves it alone.
LEMMA MembershipCacheInv ==
  ASSUME CacheInv, [MembershipNext]_membershipVars
  PROVE  CacheInv'
<1>1. ASSUME [CacheNext]_cacheVars PROVE CacheInv'
  BY <1>1, CacheNextInv
<1>2. CASE UNCHANGED cacheVars
  BY <1>2, <1>1
<1>3. ASSUME NEW s \in Subnets, Pin(s) \/ Unpin(s) PROVE CacheInv'
  BY <1>3, <1>1, ZenonT(30) DEF Pin, Unpin, CacheNext
<1>4. ASSUME NEW p \in Peers, MarkRoutable(p) \/ MarkUnroutable(p) PROVE CacheInv'
  BY <1>4, <1>1, ZenonT(30) DEF MarkRoutable, MarkUnroutable, CacheNext
<1>5. ASSUME NEW r \in Records, ReceiveRecord(r) PROVE CacheInv'
  BY <1>5, <1>1, ZenonT(30) DEF ReceiveRecord, CacheNext
<1>6. CASE Tick
  BY <1>6, ForgetInv, ZenonT(30) DEF Tick, PruneMembership
<1>7. CASE Subscriber \/ Emit \/ Elapse
  BY <1>7, <1>2, ZenonT(30) DEF Subscriber, Emit, Elapse
<1>8. ASSUME NEW s \in Subnets, AddProvidedSubnet(s) \/ RemoveProvidedSubnet(s) PROVE CacheInv'
  BY <1>8, <1>2, ZenonT(30) DEF AddProvidedSubnet, RemoveProvidedSubnet
<1>9. ASSUME NEW s \in Subnets, ReceiveVote(s) \/ ReceivePreemptive(s) PROVE CacheInv'
  BY <1>9, <1>2, ZenonT(30) DEF ReceiveVote, ReceivePreemptive
<1>10. ASSUME NEW new \in SUBSET Subnets, SetProvidedSubnets(new) PROVE CacheInv'
  BY <1>10, <1>2, ZenonT(30) DEF SetProvidedSubnets
<1>11. CASE UNCHANGED membershipVars
  BY <1>11, <1>2 DEF membershipVars
<1> QED
  BY <1>3, <1>4, <1>5, <1>6, <1>7, <1>8, <1>9, <1>10, <1>11, ZenonT(30)
     DEF MembershipNext, MembershipCall, Receive

\* The same for a step of membership: what it does to the cache is one call of
\* the cache, or nothing.
LEMMA MembershipDelta ==
  ASSUME CacheInv, BoundedUnlessPinned, DeltaUpToPruning, [MembershipNext]_membershipVars
  PROVE  (BoundedUnlessPinned /\ DeltaUpToPruning)'
<1> DEFINE Right == (BoundedUnlessPinned /\ DeltaUpToPruning)'
<1>1. ASSUME [CacheNext]_cacheVars PROVE Right
  BY <1>1, NextDelta
<1>2. CASE UNCHANGED cacheVars
  BY <1>2, <1>1
<1>3. ASSUME NEW s \in Subnets, Pin(s) \/ Unpin(s) PROVE Right
  BY <1>3, <1>1, ZenonT(30) DEF Pin, Unpin, CacheNext
<1>4. ASSUME NEW p \in Peers, MarkRoutable(p) \/ MarkUnroutable(p) PROVE Right
  BY <1>4, <1>1, ZenonT(30) DEF MarkRoutable, MarkUnroutable, CacheNext
<1>5. ASSUME NEW r \in Records, ReceiveRecord(r) PROVE Right
  BY <1>5, <1>1, ZenonT(30) DEF ReceiveRecord, CacheNext
<1>6. CASE Tick
  <2>1. delta' = NoCall
    BY <1>6, ZenonT(30) DEF Tick, PruneMembership, Forget
  <2> QED
    BY <2>1 DEF BoundedUnlessPinned, DeltaUpToPruning
<1>7. CASE Subscriber \/ Emit \/ Elapse
  BY <1>7, <1>2, ZenonT(30) DEF Subscriber, Emit, Elapse
<1>8. ASSUME NEW s \in Subnets, AddProvidedSubnet(s) \/ RemoveProvidedSubnet(s) PROVE Right
  BY <1>8, <1>2, ZenonT(30) DEF AddProvidedSubnet, RemoveProvidedSubnet
<1>9. ASSUME NEW s \in Subnets, ReceiveVote(s) \/ ReceivePreemptive(s) PROVE Right
  BY <1>9, <1>2, ZenonT(30) DEF ReceiveVote, ReceivePreemptive
<1>10. ASSUME NEW new \in SUBSET Subnets, SetProvidedSubnets(new) PROVE Right
  BY <1>10, <1>2, ZenonT(30) DEF SetProvidedSubnets
<1>11. CASE UNCHANGED membershipVars
  BY <1>11, <1>2 DEF membershipVars
<1> QED
  BY <1>3, <1>4, <1>5, <1>6, <1>7, <1>8, <1>9, <1>10, <1>11, ZenonT(30)
     DEF MembershipNext, MembershipCall, Receive

\* However membership calls the cache and prunes it by age, providers are
\* routable, an update keeps the bound, and a delta says what a call changed
\* (membership.rs:360-373, 424-446, 493-500).
THEOREM CacheInMembership ==
  MembershipSpec => [](ProvidersAreRoutable /\ BoundedUnlessPinned /\ DeltaUpToPruning)
<1>1. MembershipInit => CacheInv /\ BoundedUnlessPinned /\ DeltaUpToPruning
  BY CacheInitInv DEF MembershipInit, CacheInit, BoundedUnlessPinned, DeltaUpToPruning
<1>2. CacheInv /\ [MembershipNext]_membershipVars => CacheInv'
  BY MembershipCacheInv
<1>3. CacheInv /\ (BoundedUnlessPinned /\ DeltaUpToPruning) /\ [MembershipNext]_membershipVars
        => (BoundedUnlessPinned /\ DeltaUpToPruning)'
  BY MembershipDelta
<1>4. CacheInv => ProvidersAreRoutable
  BY DEF CacheInv
<1> QED
  BY <1>1, <1>2, <1>3, <1>4, PTL DEF MembershipSpec

-------------------------------------------------------------------------------
(* The events of membership *)

\* A consumer that is told of a queue of events holds a fact about the cache to
\* be true when the latest event that gives or takes it gives it, or when none
\* takes it and it was held before.
Told(queue, gives, takes, fact, held) ==
  \/ \E i \in 1..Len(queue) :
       queue[i] \in gives /\ \A j \in (i + 1)..Len(queue) : queue[j] \notin takes
  \/ fact \in held /\ \A i \in 1..Len(queue) : queue[i] \notin takes

\* The events that make a peer known or forgotten, and that add or remove what
\* it provides.
Tells(p) == {ev \in MembershipEvents : ev.kind = "Updated" /\ ev.peer = p}
Forgets(p) == {ev \in MembershipEvents : ev.kind = "Removed" /\ ev.peer = p}
Gives(p, s) == {ev \in Tells(p) : s \in ev.added}
Takes(p, s) == Forgets(p) \cup {ev \in Tells(p) : s \in ev.removed /\ s \notin ev.added}

\* The events that wait tell a consumer how its view differs from the cache.
ViewInv ==
  /\ outbox \in Seq(MembershipEvents)
  /\ IsFiniteSet(known)
  /\ view.known \subseteq Peers /\ view.pairs \subseteq Peers \X Subnets
  /\ \A p \in Peers : p \in known <=> Told(outbox, Tells(p), Forgets(p), p, view.known)
  /\ \A p \in Peers, s \in Subnets :
       <<p, s>> \in providers => Told(outbox, Gives(p, s), Takes(p, s), <<p, s>>, view.pairs)
  /\ \A p \in Peers, s \in Subnets :
       Told(outbox, Gives(p, s), Takes(p, s), <<p, s>>, view.pairs) => <<p, s>> \in providers \cup lost

\* One more event: it gives the fact, or leaves it as it was.
LEMMA ToldAppend ==
  ASSUME NEW E, NEW queue \in Seq(E), NEW ev \in E, NEW gives, NEW takes, NEW fact, NEW held
  PROVE  Told(Append(queue, ev), gives, takes, fact, held)
           <=> ev \in gives \/ (Told(queue, gives, takes, fact, held) /\ ev \notin takes)
<1> DEFINE q == Append(queue, ev)
           n == Len(queue)
<1>1. /\ n \in Nat /\ Len(q) = n + 1 /\ q[n + 1] = ev
      /\ \A i \in 1..n : q[i] = queue[i]
  OBVIOUS
<1> HIDE DEF q, n
<1>2. ASSUME ev \in gives PROVE Told(q, gives, takes, fact, held)
  <2>1. n + 1 \in 1..Len(q) /\ q[n + 1] \in gives /\ \A j \in (n + 1 + 1)..Len(q) : q[j] \notin takes
    BY <1>1, <1>2
  <2> QED
    BY <2>1 DEF Told
<1>3. ASSUME Told(queue, gives, takes, fact, held), ev \notin takes
      PROVE  Told(q, gives, takes, fact, held)
  <2>1. ASSUME NEW i \in 1..n, queue[i] \in gives, \A j \in (i + 1)..n : queue[j] \notin takes
        PROVE  Told(q, gives, takes, fact, held)
    <3>1. i \in 1..Len(q) /\ q[i] \in gives
      BY <1>1, <2>1
    <3>2. ASSUME NEW j \in (i + 1)..Len(q) PROVE q[j] \notin takes
      <4>1. j = n + 1 \/ (j \in (i + 1)..n /\ j \in 1..n)
        BY <1>1
      <4> QED
        BY <1>1, <1>3, <2>1, <4>1
    <3> QED
      BY <3>1, <3>2 DEF Told
  <2>2. ASSUME fact \in held, \A i \in 1..n : queue[i] \notin takes
        PROVE  Told(q, gives, takes, fact, held)
    <3>1. ASSUME NEW i \in 1..Len(q) PROVE q[i] \notin takes
      <4>1. i = n + 1 \/ i \in 1..n
        BY <1>1
      <4> QED
        BY <1>1, <1>3, <2>2, <4>1
    <3> QED
      BY <2>2, <3>1 DEF Told
  <2> QED
    BY <1>3, <2>1, <2>2 DEF Told, n
<1>4. ASSUME Told(q, gives, takes, fact, held), ev \notin gives
      PROVE  Told(queue, gives, takes, fact, held) /\ ev \notin takes
  <2>1. ASSUME NEW i \in 1..Len(q), q[i] \in gives, \A j \in (i + 1)..Len(q) : q[j] \notin takes
        PROVE  Told(queue, gives, takes, fact, held) /\ ev \notin takes
    <3>1. i \in 1..n
      BY <1>1, <1>4, <2>1
    <3>2. n + 1 \in (i + 1)..Len(q) /\ \A j \in (i + 1)..n : j \in (i + 1)..Len(q) /\ j \in 1..n
      BY <1>1, <3>1
    <3>3. ev \notin takes /\ queue[i] \in gives /\ \A j \in (i + 1)..n : queue[j] \notin takes
      BY <1>1, <2>1, <3>1, <3>2
    <3> QED
      BY <3>1, <3>3 DEF Told, n
  <2>2. ASSUME fact \in held, \A i \in 1..Len(q) : q[i] \notin takes
        PROVE  Told(queue, gives, takes, fact, held) /\ ev \notin takes
    <3>1. n + 1 \in 1..Len(q) /\ \A i \in 1..n : i \in 1..Len(q)
      BY <1>1
    <3>2. ev \notin takes /\ \A i \in 1..n : queue[i] \notin takes
      BY <1>1, <2>2, <3>1
    <3> QED
      BY <2>2, <3>2 DEF Told, n
  <2> QED
    BY <1>4, <2>1, <2>2 DEF Told
<1> QED
  BY <1>2, <1>3, <1>4 DEF q

\* The first event is applied to what was held.
LEMMA ToldTail ==
  ASSUME NEW E, NEW queue \in Seq(E), queue # <<>>, NEW gives, NEW takes, NEW fact, NEW held,
         NEW next, fact \in next <=> Head(queue) \in gives \/ (fact \in held /\ Head(queue) \notin takes)
  PROVE  Told(Tail(queue), gives, takes, fact, next) <=> Told(queue, gives, takes, fact, held)
<1> DEFINE q == Tail(queue)
           n == Len(queue)
<1>1. /\ n \in Nat \ {0} /\ Len(q) = n - 1 /\ Head(queue) = queue[1]
      /\ \A i \in 1..(n - 1) : q[i] = queue[i + 1]
  OBVIOUS
<1> HIDE DEF q, n
<1>2. ASSUME NEW k \in 0..(n - 1)
      PROVE  (\A j \in (k + 1)..Len(q) : q[j] \notin takes)
               <=> (\A j \in (k + 2)..n : queue[j] \notin takes)
  <2>1. ASSUME \A j \in (k + 1)..Len(q) : q[j] \notin takes, NEW j \in (k + 2)..n
        PROVE  queue[j] \notin takes
    <3>1. j - 1 \in (k + 1)..Len(q) /\ j - 1 \in 1..(n - 1) /\ (j - 1) + 1 = j
      BY <1>1
    <3> QED
      BY <1>1, <2>1, <3>1, ZenonT(30)
  <2>2. ASSUME \A j \in (k + 2)..n : queue[j] \notin takes, NEW j \in (k + 1)..Len(q)
        PROVE  q[j] \notin takes
    <3>1. j + 1 \in (k + 2)..n /\ j \in 1..(n - 1)
      BY <1>1
    <3> QED
      BY <1>1, <2>2, <3>1
  <2> QED
    BY <2>1, <2>2
<1>3. (\A j \in 1..Len(q) : q[j] \notin takes) <=> (\A j \in 2..n : queue[j] \notin takes)
  <2>1. 0 \in 0..(n - 1) /\ 0 + 1 = 1 /\ 0 + 2 = 2
    BY <1>1
  <2> QED
    BY <1>2, <2>1
<1>4. ASSUME Told(q, gives, takes, fact, next) PROVE Told(queue, gives, takes, fact, held)
  <2>1. ASSUME NEW i \in 1..Len(q), q[i] \in gives, \A j \in (i + 1)..Len(q) : q[j] \notin takes
        PROVE  Told(queue, gives, takes, fact, held)
    <3>1. i \in 0..(n - 1) /\ i \in 1..(n - 1) /\ i + 1 \in 1..n /\ (i + 1) + 1 = i + 2
      BY <1>1
    <3>2. \A j \in ((i + 1) + 1)..n : queue[j] \notin takes
      BY <1>2, <2>1, <3>1
    <3> QED
      BY <1>1, <2>1, <3>1, <3>2 DEF Told, n
  <2>2. ASSUME fact \in next, \A j \in 1..Len(q) : q[j] \notin takes
        PROVE  Told(queue, gives, takes, fact, held)
    <3>1. \A j \in 2..n : queue[j] \notin takes
      BY <1>3, <2>2
    <3>2. CASE queue[1] \in gives
      <4>1. 1 \in 1..n /\ \A j \in (1 + 1)..n : queue[j] \notin takes
        BY <1>1, <3>1
      <4> QED
        BY <3>2, <4>1 DEF Told, n
    <3>3. CASE fact \in held /\ queue[1] \notin takes
      <4>1. \A j \in 1..n : j = 1 \/ j \in 2..n
        BY <1>1
      <4>2. \A j \in 1..n : queue[j] \notin takes
        BY <3>1, <3>3, <4>1
      <4> QED
        BY <3>3, <4>2 DEF Told, n
    <3> QED
      BY <1>1, <2>2, <3>2, <3>3
  <2> QED
    BY <1>4, <2>1, <2>2 DEF Told
<1>5. ASSUME Told(queue, gives, takes, fact, held) PROVE Told(q, gives, takes, fact, next)
  <2>1. ASSUME NEW i \in 1..n, queue[i] \in gives, \A j \in (i + 1)..n : queue[j] \notin takes
        PROVE  Told(q, gives, takes, fact, next)
    <3>1. CASE i = 1
      <4>1. \A j \in 2..n : queue[j] \notin takes
        BY <2>1, <3>1
      <4> QED
        BY <1>1, <1>3, <2>1, <3>1, <4>1 DEF Told
    <3>2. CASE i # 1
      <4>1. /\ i - 1 \in 0..(n - 1) /\ i - 1 \in 1..Len(q) /\ i - 1 \in 1..(n - 1)
            /\ (i - 1) + 1 = i /\ (i - 1) + 2 = i + 1
        BY <1>1, <3>2
      <4>2. \A j \in ((i - 1) + 1)..Len(q) : q[j] \notin takes
        BY <1>2, <2>1, <4>1
      <4>3. q[i - 1] \in gives
        BY <1>1, <2>1, <4>1
      <4> QED
        BY <4>1, <4>2, <4>3 DEF Told
    <3> QED
      BY <3>1, <3>2
  <2>2. ASSUME fact \in held, \A i \in 1..n : queue[i] \notin takes
        PROVE  Told(q, gives, takes, fact, next)
    <3>1. 1 \in 1..n /\ \A j \in 2..n : j \in 1..n
      BY <1>1
    <3> QED
      BY <1>1, <1>3, <2>2, <3>1 DEF Told
  <2> QED
    BY <1>5, <2>1, <2>2 DEF Told, n
<1> QED
  BY <1>4, <1>5 DEF q

\* No event changes nothing.
LEMMA ToldNothing ==
  ASSUME NEW gives, NEW takes, NEW fact, NEW held
  PROVE  Told(<<>>, gives, takes, fact, held) <=> fact \in held
  BY DEF Told

\* Which facts the events give and take: an update makes its peer known, ...
LEMMA UpdatedEvent ==
  ASSUME NEW q \in Peers, NEW add \in SUBSET Subnets, NEW rem \in SUBSET Subnets, NEW p
  PROVE  (Updated(q, add, rem) \in Tells(p) <=> p = q) /\ Updated(q, add, rem) \notin Forgets(p)
<1>1. /\ Updated(q, add, rem) \in [kind : {"Updated"}, peer : Peers,
                                    added : SUBSET Subnets, removed : SUBSET Subnets]
      /\ Updated(q, add, rem).kind = "Updated" /\ Updated(q, add, rem).peer = q
  BY DEF Updated
<1> QED
  BY <1>1 DEF MembershipEvents, Tells, Forgets

\* ... and gives what it adds and takes what it removes; ...
LEMMA UpdatedPairs ==
  ASSUME NEW q \in Peers, NEW add \in SUBSET Subnets, NEW rem \in SUBSET Subnets, NEW p, NEW s
  PROVE  /\ Updated(q, add, rem) \in Gives(p, s) <=> p = q /\ s \in add
         /\ Updated(q, add, rem) \in Takes(p, s) <=> p = q /\ s \in rem /\ s \notin add
<1>1. Updated(q, add, rem).added = add /\ Updated(q, add, rem).removed = rem
  BY DEF Updated
<1>2. (Updated(q, add, rem) \in Tells(p) <=> p = q) /\ Updated(q, add, rem) \notin Forgets(p)
  BY UpdatedEvent
<1> QED
  BY <1>1, <1>2 DEF Gives, Takes

\* ... a removal takes its peer and all that it provides; ...
LEMMA RemovedEvent ==
  ASSUME NEW q \in Peers, NEW p
  PROVE  /\ Removed(q) \in MembershipEvents
         /\ Removed(q) \notin Tells(p)
         /\ Removed(q) \in Forgets(p) <=> p = q
         /\ \A s : Removed(q) \notin Gives(p, s)
         /\ \A s : Removed(q) \in Takes(p, s) <=> p = q
<1> DEFINE ev == Removed(q)
<1>1. ev \in [kind : {"Removed", "Skipped"}, peer : Peers] /\ ev.kind = "Removed" /\ ev.peer = q
  BY DEF Removed
<1>2. ev \in MembershipEvents
  BY <1>1 DEF MembershipEvents
<1> HIDE DEF ev
<1>3. ev \notin Tells(p)
  BY <1>1 DEF Tells
<1>4. ev \in Forgets(p) <=> p = q
  BY <1>1, <1>2 DEF Forgets
<1>5. \A s : ev \notin Gives(p, s)
  BY <1>3 DEF Gives
<1>6. \A s : ev \in Takes(p, s) <=> p = q
  BY <1>3, <1>4 DEF Takes
<1> QED
  BY <1>2, <1>3, <1>4, <1>5, <1>6 DEF ev

\* ... and no other event is about the cache.
LEMMA OtherEvent ==
  ASSUME NEW ev \in MembershipEvents, ev.kind \notin {"Updated", "Removed"}, NEW p, NEW s
  PROVE  /\ ev \notin Tells(p) /\ ev \notin Forgets(p)
         /\ ev \notin Gives(p, s) /\ ev \notin Takes(p, s)
  BY DEF Tells, Forgets, Gives, Takes

\* Steps that change neither the cache nor the queue.
LEMMA ViewSame ==
  ASSUME ViewInv, UNCHANGED <<known, providers, lost, outbox, view>>
  PROVE  ViewInv'
  BY DEF ViewInv

\* Events that are not about the cache.
LEMMA ViewOther ==
  ASSUME ViewInv, UNCHANGED <<known, providers, lost, view>>,
         NEW ev \in MembershipEvents, ev.kind \notin {"Updated", "Removed"},
         outbox' = Append(outbox, ev)
  PROVE  ViewInv'
<1>1. outbox \in Seq(MembershipEvents) /\ outbox' \in Seq(MembershipEvents)
  BY DEF ViewInv
<1>2. ASSUME NEW p \in Peers
      PROVE  Told(outbox, Tells(p), Forgets(p), p, view.known)'
               <=> Told(outbox, Tells(p), Forgets(p), p, view.known)
  BY <1>1, ToldAppend, OtherEvent
<1>3. ASSUME NEW p \in Peers, NEW s \in Subnets
      PROVE  Told(outbox, Gives(p, s), Takes(p, s), <<p, s>>, view.pairs)'
               <=> Told(outbox, Gives(p, s), Takes(p, s), <<p, s>>, view.pairs)
  BY <1>1, ToldAppend, OtherEvent
<1> QED
  BY <1>1, <1>2, <1>3 DEF ViewInv

\* A peer that is made unroutable.
LEMMA ViewRemoved ==
  ASSUME ViewInv, NEW q \in Peers, SetUnroutable(q), outbox' = Append(outbox, Removed(q)),
         UNCHANGED view
  PROVE  ViewInv'
<1>1. /\ known' = known \ {q} /\ providers' = {e \in providers : e[1] # q}
      /\ lost' = {e \in lost : e[1] # q}
  BY DEF SetUnroutable, Forget
<1>2. outbox \in Seq(MembershipEvents) /\ Removed(q) \in MembershipEvents
  BY RemovedEvent DEF ViewInv
<1>3. outbox' \in Seq(MembershipEvents) /\ IsFiniteSet(known')
  <2>1. IsFiniteSet(known) /\ known' \subseteq known
    BY <1>1 DEF ViewInv
  <2> QED
    BY <1>2, <2>1, FS_Subset
<1>4. ASSUME NEW p \in Peers
      PROVE  p \in known' <=> Told(outbox, Tells(p), Forgets(p), p, view.known)'
  <2>1. /\ Removed(q) \notin Tells(p)
        /\ Removed(q) \in Forgets(p) <=> p = q
    BY RemovedEvent
  <2>2. Told(outbox, Tells(p), Forgets(p), p, view.known)'
          <=> Told(outbox, Tells(p), Forgets(p), p, view.known) /\ p # q
    BY <1>2, <2>1, ToldAppend
  <2> QED
    BY <1>1, <2>2 DEF ViewInv
<1>5. ASSUME NEW p \in Peers, NEW s \in Subnets
      PROVE  /\ Told(outbox, Gives(p, s), Takes(p, s), <<p, s>>, view.pairs)'
                  <=> Told(outbox, Gives(p, s), Takes(p, s), <<p, s>>, view.pairs) /\ p # q
             /\ <<p, s>> \in providers' <=> <<p, s>> \in providers /\ p # q
             /\ <<p, s>> \in lost' <=> <<p, s>> \in lost /\ p # q
  <2>1. Removed(q) \notin Gives(p, s) /\ (Removed(q) \in Takes(p, s) <=> p = q)
    BY RemovedEvent
  <2>2. /\ <<p, s>> \in providers' <=> <<p, s>> \in providers /\ p # q
        /\ <<p, s>> \in lost' <=> <<p, s>> \in lost /\ p # q
    BY <1>1
  <2> QED
    BY <1>2, <2>1, <2>2, ToldAppend
<1> QED
  BY <1>3, <1>4, <1>5 DEF ViewInv

\* prune_membership finds the queue empty and leaves one event per peer.
LEMMA ViewPruned ==
  ASSUME CacheInv, ViewInv, outbox = <<>>, PruneMembership, UNCHANGED view
  PROVE  ViewInv'
<1>1. PICK gone : /\ gone = Outdated(Before(now, MaxAge))
                  /\ Forget(gone) /\ outbox' \in RemovedEvents(gone)
  BY DEF PruneMembership
<1>2. /\ known' = known \ gone /\ providers' = {e \in providers : e[1] \notin gone}
      /\ lost' = {e \in lost : e[1] \notin gone}
  BY <1>1 DEF Forget
<1>3. gone \subseteq known /\ known \subseteq Peers
  BY <1>1 DEF Outdated, CacheInv, CacheTypeOK
<1>4. IsFiniteSet(gone) /\ IsFiniteSet(known') /\ Cardinality(gone) \in Nat
  <2>1. IsFiniteSet(known) /\ known' \subseteq known
    BY <1>2 DEF ViewInv
  <2> QED
    BY <1>3, <2>1, FS_Subset, FS_CardinalityType
<1>5. /\ outbox' \in [1..Cardinality(gone) -> {Removed(p) : p \in gone}]
      /\ \A p \in gone : \E i \in DOMAIN outbox' : outbox'[i] = Removed(p)
  BY <1>1 DEF RemovedEvents
<1>6. {Removed(p) : p \in gone} \subseteq MembershipEvents
  BY <1>3, RemovedEvent
<1>7. outbox' \in Seq(MembershipEvents) /\ Len(outbox') = Cardinality(gone)
  BY <1>4, <1>5, <1>6
<1>8. ASSUME NEW i \in 1..Len(outbox') PROVE \E p \in gone : outbox'[i] = Removed(p)
  BY <1>5, <1>7
<1>9. ASSUME NEW p \in gone PROVE \E i \in 1..Len(outbox') : outbox'[i] = Removed(p)
  BY <1>5, <1>7
<1>10. ASSUME NEW p \in Peers
       PROVE  Told(outbox, Tells(p), Forgets(p), p, view.known)' <=> p \in view.known /\ p \notin gone
  <2>1. \A q \in gone : Removed(q) \notin Tells(p) /\ (Removed(q) \in Forgets(p) <=> p = q)
    BY <1>3, RemovedEvent
  <2>2. \A i \in 1..Len(outbox') : outbox'[i] \notin Tells(p)
    BY <1>8, <2>1
  <2>3. (\A i \in 1..Len(outbox') : outbox'[i] \notin Forgets(p)) <=> p \notin gone
    BY <1>8, <1>9, <2>1
  <2> QED
    BY <2>2, <2>3 DEF Told
<1>11. ASSUME NEW p \in Peers, NEW s \in Subnets
       PROVE  Told(outbox, Gives(p, s), Takes(p, s), <<p, s>>, view.pairs)'
                <=> <<p, s>> \in view.pairs /\ p \notin gone
  <2>1. \A q \in gone : Removed(q) \notin Gives(p, s) /\ (Removed(q) \in Takes(p, s) <=> p = q)
    BY <1>3, RemovedEvent
  <2>2. \A i \in 1..Len(outbox') : outbox'[i] \notin Gives(p, s)
    BY <1>8, <2>1
  <2>3. (\A i \in 1..Len(outbox') : outbox'[i] \notin Takes(p, s)) <=> p \notin gone
    BY <1>8, <1>9, <2>1
  <2> QED
    BY <2>2, <2>3 DEF Told
<1>12. \A p \in Peers, s \in Subnets :
         /\ <<p, s>> \in providers' <=> <<p, s>> \in providers /\ p \notin gone
         /\ <<p, s>> \in lost' <=> <<p, s>> \in lost /\ p \notin gone
  BY <1>2
<1>13. /\ \A p \in Peers : p \in known <=> p \in view.known
       /\ \A p \in Peers, s \in Subnets : <<p, s>> \in providers => <<p, s>> \in view.pairs
       /\ \A p \in Peers, s \in Subnets :
            <<p, s>> \in view.pairs => <<p, s>> \in providers \cup lost
  BY ToldNothing DEF ViewInv
<1> QED
  BY <1>2, <1>4, <1>7, <1>10, <1>11, <1>12, <1>13 DEF ViewInv

\* What an update at the end of the queue tells about its peer, ...
LEMMA UpdatedTold ==
  ASSUME NEW queue \in Seq(MembershipEvents), NEW q \in Peers, NEW p, NEW held,
         NEW add \in SUBSET Subnets, NEW rem \in SUBSET Subnets
  PROVE  Told(Append(queue, Updated(q, add, rem)), Tells(p), Forgets(p), p, held)
           <=> p = q \/ Told(queue, Tells(p), Forgets(p), p, held)
<1>1. Updated(q, add, rem) \in MembershipEvents
  BY ZenonT(30) DEF Updated, MembershipEvents
<1>2. (Updated(q, add, rem) \in Tells(p) <=> p = q) /\ Updated(q, add, rem) \notin Forgets(p)
  BY UpdatedEvent
<1>3. PICK ev \in MembershipEvents : ev = Updated(q, add, rem)
  BY <1>1, ZenonT(30)
<1>4. PICK gives, takes : gives = Tells(p) /\ takes = Forgets(p)
  BY ZenonT(30)
<1>5. Told(Append(queue, ev), gives, takes, p, held)
        <=> ev \in gives \/ (Told(queue, gives, takes, p, held) /\ ev \notin takes)
  BY ToldAppend
<1> QED
  BY <1>2, <1>3, <1>4, <1>5, ZenonT(30)

\* ... and about what the peer provides.
LEMMA UpdatedPairsTold ==
  ASSUME NEW queue \in Seq(MembershipEvents), NEW q \in Peers, NEW p, NEW s, NEW fact, NEW held,
         NEW add \in SUBSET Subnets, NEW rem \in SUBSET Subnets
  PROVE  Told(Append(queue, Updated(q, add, rem)), Gives(p, s), Takes(p, s), fact, held)
           <=> \/ p = q /\ s \in add
               \/ /\ Told(queue, Gives(p, s), Takes(p, s), fact, held)
                  /\ ~ (p = q /\ s \in rem /\ s \notin add)
<1>1. Updated(q, add, rem) \in MembershipEvents
  BY ZenonT(30) DEF Updated, MembershipEvents
<1>2. /\ Updated(q, add, rem) \in Gives(p, s) <=> p = q /\ s \in add
      /\ Updated(q, add, rem) \in Takes(p, s) <=> p = q /\ s \in rem /\ s \notin add
  BY UpdatedPairs
<1>3. PICK ev \in MembershipEvents : ev = Updated(q, add, rem)
  BY <1>1, ZenonT(30)
<1>4. PICK gives, takes : gives = Gives(p, s) /\ takes = Takes(p, s)
  BY ZenonT(30)
<1>5. Told(Append(queue, ev), gives, takes, fact, held)
        <=> ev \in gives \/ (Told(queue, gives, takes, fact, held) /\ ev \notin takes)
  BY ToldAppend
<1> QED
  BY <1>2, <1>3, <1>4, <1>5, ZenonT(30)

\* A record that updates what a peer provides.
LEMMA ViewUpdated ==
  ASSUME CacheInv, ViewInv, NEW r \in Records, AddNewer(r), UNCHANGED view,
         outbox' = Append(outbox, Updated(r.peer, delta'.added, delta'.removed))
  PROVE  ViewInv'
<1>1. PICK gone \in Prunings(tracked \cup r.subnets, WithRecord(r)) :
        /\ providers' = {e \in WithRecord(r) : e[2] \notin gone}
        /\ lost' = (lost \cup {e \in WithRecord(r) : e[2] \in gone}) \ providers'
        /\ delta' = [peer |-> r.peer, updated |-> TRUE, is_new |-> r.peer \notin known,
                     added |-> Added(r, gone), removed |-> SubnetsOf(r.peer) \ r.subnets,
                     before |-> SubnetsOf(r.peer), pruned |-> gone]
  BY ZenonT(30) DEF AddNewer
<1>2. r.peer \in Peers /\ r.subnets \subseteq Subnets /\ known' = known \cup {r.peer}
  BY DEF Records, AddNewer
<1>3. PICK added, removed :
        added = Added(r, gone) /\ removed = SubnetsOf(r.peer) \ r.subnets
  BY ZenonT(30)
<1>4. added \in SUBSET Subnets /\ removed \in SUBSET Subnets
  BY <1>2, <1>3, ZenonT(30) DEF Added, SubnetsOf
<1>5. Updated(r.peer, added, removed) \in MembershipEvents
  BY <1>2, <1>4, ZenonT(30) DEF Updated, MembershipEvents
<1>6. outbox' = Append(outbox, Updated(r.peer, added, removed)) /\ view' = view
  BY <1>1, <1>3, ZenonT(30)
<1>7. outbox \in Seq(MembershipEvents)
  BY DEF ViewInv
<1>8. outbox' \in Seq(MembershipEvents) /\ IsFiniteSet(known')
  BY <1>2, <1>5, <1>6, <1>7, FS_AddElement DEF ViewInv
<1>9. ASSUME NEW p \in Peers
       PROVE  p \in known' <=> Told(outbox, Tells(p), Forgets(p), p, view.known)'
  <2>1. Told(outbox, Tells(p), Forgets(p), p, view.known)'
          <=> p = r.peer \/ Told(outbox, Tells(p), Forgets(p), p, view.known)
    <3>1. PICK q, held : q \in Peers /\ q = r.peer /\ held = view.known
      BY <1>2, ZenonT(30)
    <3>2. Told(Append(outbox, Updated(q, added, removed)), Tells(p), Forgets(p), p, held)
            <=> p = q \/ Told(outbox, Tells(p), Forgets(p), p, held)
      BY <1>4, <1>7, <3>1, UpdatedTold
    <3> QED
      BY <1>6, <3>1, <3>2, ZenonT(30)
  <2> QED
    BY <1>2, <2>1 DEF ViewInv
<1>10. ASSUME NEW p \in Peers, NEW s \in Subnets
       PROVE  Told(outbox, Gives(p, s), Takes(p, s), <<p, s>>, view.pairs)'
                <=> \/ p = r.peer /\ s \in added
                    \/ /\ Told(outbox, Gives(p, s), Takes(p, s), <<p, s>>, view.pairs)
                       /\ ~ (p = r.peer /\ s \in removed /\ s \notin added)
  <2>1. PICK q, fact, held :
          q \in Peers /\ q = r.peer /\ fact = <<p, s>> /\ held = view.pairs
    BY <1>2, ZenonT(30)
  <2>2. Told(Append(outbox, Updated(q, added, removed)), Gives(p, s), Takes(p, s), fact, held)
          <=> \/ p = q /\ s \in added
              \/ /\ Told(outbox, Gives(p, s), Takes(p, s), fact, held)
                 /\ ~ (p = q /\ s \in removed /\ s \notin added)
    BY <1>4, <1>7, <2>1, UpdatedPairsTold, ZenonT(30)
  <2> QED
    BY <1>6, <2>1, <2>2, ZenonT(30)
<1>11. ASSUME NEW p \in Peers, NEW s \in Subnets
       PROVE  <<p, s>> \in providers'
                <=> s \notin gone /\ IF p = r.peer THEN s \in r.subnets ELSE <<p, s>> \in providers
  BY <1>1, <1>2, ZenonT(30) DEF WithRecord
<1>12. \A s \in Subnets : s \in SubnetsOf(r.peer) <=> <<r.peer, s>> \in providers
  BY ZenonT(30) DEF SubnetsOf
<1>13. \A s \in Subnets :
         /\ s \in added <=> s \in r.subnets /\ s \notin SubnetsOf(r.peer) /\ s \notin gone
         /\ s \in removed <=> s \in SubnetsOf(r.peer) /\ s \notin r.subnets
  BY <1>3, ZenonT(30) DEF Added
<1>14. ASSUME NEW p \in Peers, NEW s \in Subnets
       PROVE  /\ <<p, s>> \in lost => <<p, s>> \in providers' \cup lost'
              /\ <<p, s>> \in WithRecord(r) => <<p, s>> \in providers' \cup lost'
              /\ <<p, s>> \in WithRecord(r)
                   <=> IF p = r.peer THEN s \in r.subnets ELSE <<p, s>> \in providers
  <2>1. <<p, s>> \in lost => <<p, s>> \in providers' \cup lost'
    BY <1>1
  <2>2. <<p, s>> \in WithRecord(r) => <<p, s>> \in providers' \cup lost'
    BY <1>1
  <2> QED
    BY <2>1, <2>2, ZenonT(30) DEF WithRecord
<1>15. ASSUME NEW p \in Peers, NEW s \in Subnets, <<p, s>> \in providers'
       PROVE  Told(outbox, Gives(p, s), Takes(p, s), <<p, s>>, view.pairs)'
  <2>1. <<p, s>> \in providers => Told(outbox, Gives(p, s), Takes(p, s), <<p, s>>, view.pairs)
    BY DEF ViewInv
  <2> QED
    BY <1>10, <1>11, <1>12, <1>13, <1>15, <2>1, ZenonT(30)
<1>16. ASSUME NEW p \in Peers, NEW s \in Subnets,
              Told(outbox, Gives(p, s), Takes(p, s), <<p, s>>, view.pairs)'
       PROVE  <<p, s>> \in providers' \cup lost'
  <2>1. Told(outbox, Gives(p, s), Takes(p, s), <<p, s>>, view.pairs)
          => <<p, s>> \in providers \/ <<p, s>> \in lost
    BY DEF ViewInv
  <2> QED
    BY <1>10, <1>12, <1>13, <1>14, <1>16, <2>1, ZenonT(30)
<1> QED
  BY <1>8, <1>9, <1>15, <1>16 DEF ViewInv

\* A record that is not newer, of a peer nothing was known of.
LEMMA ViewStale ==
  ASSUME ViewInv, NEW q \in Peers, known' = known \cup {q}, UNCHANGED <<providers, lost, view>>,
         outbox' = Append(outbox, Updated(q, {}, {}))
  PROVE  ViewInv'
<1>1. PICK ev : ev = Updated(q, {}, {})
  OBVIOUS
<1>2. ev \in MembershipEvents
  BY <1>1 DEF Updated, MembershipEvents
<1>3. \A p : (ev \in Tells(p) <=> p = q) /\ ev \notin Forgets(p)
  BY <1>1, UpdatedEvent
<1>4. \A p, s : ev \notin Gives(p, s) /\ ev \notin Takes(p, s)
  BY <1>1, UpdatedPairs
<1>5. outbox \in Seq(MembershipEvents) /\ outbox' = Append(outbox, ev)
  BY <1>1 DEF ViewInv
<1>6. outbox' \in Seq(MembershipEvents) /\ IsFiniteSet(known')
  BY <1>2, <1>5, FS_AddElement DEF ViewInv
<1>7. ASSUME NEW p \in Peers
      PROVE  p \in known' <=> Told(outbox, Tells(p), Forgets(p), p, view.known)'
  <2>1. Told(outbox, Tells(p), Forgets(p), p, view.known)'
          <=> p = q \/ Told(outbox, Tells(p), Forgets(p), p, view.known)
    BY <1>2, <1>3, <1>5, ToldAppend
  <2> QED
    BY <2>1 DEF ViewInv
<1>8. ASSUME NEW p \in Peers, NEW s \in Subnets
      PROVE  Told(outbox, Gives(p, s), Takes(p, s), <<p, s>>, view.pairs)'
               <=> Told(outbox, Gives(p, s), Takes(p, s), <<p, s>>, view.pairs)
  BY <1>2, <1>4, <1>5, ToldAppend
<1> QED
  BY <1>6, <1>7, <1>8 DEF ViewInv

\* A record that changes nothing but by pruning is not reported.
LEMMA ViewUnreported ==
  ASSUME CacheInv, ViewInv, NEW r \in Records, AddNewer(r), r.peer \in known,
         delta'.added = {}, delta'.removed = {}, UNCHANGED <<outbox, view>>
  PROVE  ViewInv'
<1>1. PICK gone \in Prunings(tracked \cup r.subnets, WithRecord(r)) :
        /\ providers' = {e \in WithRecord(r) : e[2] \notin gone}
        /\ lost' = (lost \cup {e \in WithRecord(r) : e[2] \in gone}) \ providers'
        /\ delta' = [peer |-> r.peer, updated |-> TRUE, is_new |-> r.peer \notin known,
                     added |-> Added(r, gone), removed |-> SubnetsOf(r.peer) \ r.subnets,
                     before |-> SubnetsOf(r.peer), pruned |-> gone]
  BY ZenonT(30) DEF AddNewer
<1>2. r.peer \in Peers /\ r.subnets \subseteq Subnets /\ known' = known
  BY ZenonT(30) DEF Records, AddNewer
<1>3. Added(r, gone) = {} /\ SubnetsOf(r.peer) \ r.subnets = {}
  BY <1>1, ZenonT(30)
<1>4. ASSUME NEW p \in Peers, NEW s \in Subnets
      PROVE  <<p, s>> \in providers'
               <=> s \notin gone /\ IF p = r.peer THEN s \in r.subnets ELSE <<p, s>> \in providers
  BY <1>1, <1>2, ZenonT(30) DEF WithRecord
<1>5. \A s \in Subnets : s \in SubnetsOf(r.peer) <=> <<r.peer, s>> \in providers
  BY ZenonT(30) DEF SubnetsOf
<1>6. \A s \in r.subnets \ gone : s \in SubnetsOf(r.peer)
  BY <1>3, ZenonT(30) DEF Added
<1>7. \A p \in Peers, s \in Subnets : <<p, s>> \in providers' => <<p, s>> \in providers
  BY <1>4, <1>5, <1>6, ZenonT(30)
<1>8. ASSUME NEW p \in Peers, NEW s \in Subnets, <<p, s>> \in providers \cup lost
      PROVE  <<p, s>> \in providers' \cup lost'
  <2>1. <<p, s>> \in providers => <<p, s>> \in WithRecord(r)
    BY <1>3, <1>5, ZenonT(30) DEF WithRecord
  <2>2. <<p, s>> \in WithRecord(r) \cup lost
    BY <1>8, <2>1
  <2> QED
    BY <1>1, <2>2
<1> QED
  BY <1>2, <1>7, <1>8 DEF ViewInv

\* What ReceiveRecord does to the cache is what it reports.
LEMMA ViewRecord ==
  ASSUME CacheInv, ViewInv, NEW r \in Records, ReceiveRecord(r)
  PROVE  ViewInv'
<1>1. r.peer \in Peers /\ view' = view
  BY ZenonT(30) DEF Records, ReceiveRecord
<1>2. CASE r.peer \notin routable
  <2>1. AddSkipped(r) /\ outbox' = Append(outbox, Skipped(r.peer))
    BY <1>2, ZenonT(30) DEF ReceiveRecord, AddProvider, AddNewer, AddStale
  <2>2. Skipped(r.peer) \in MembershipEvents /\ Skipped(r.peer).kind \notin {"Updated", "Removed"}
    BY <1>1 DEF Skipped, MembershipEvents
  <2> QED
    BY <1>1, <2>1, <2>2, ViewOther DEF AddSkipped
<1>3. CASE AddNewer(r)
  <2>1. r.peer \in routable /\ (delta'.is_new <=> r.peer \notin known)
    <3>1. PICK gone :
            delta' = [peer |-> r.peer, updated |-> TRUE, is_new |-> r.peer \notin known,
                      added |-> Added(r, gone), removed |-> SubnetsOf(r.peer) \ r.subnets,
                      before |-> SubnetsOf(r.peer), pruned |-> gone]
      BY <1>3, ZenonT(30) DEF AddNewer
    <3>2. delta'.is_new <=> r.peer \notin known
      BY <3>1, ZenonT(30)
    <3> QED
      BY <1>3, <3>2, ZenonT(30) DEF AddNewer
  <2>2. CASE outbox' = Append(outbox, Updated(r.peer, delta'.added, delta'.removed))
    BY <1>1, <1>3, <2>2, ViewUpdated
  <2>3. CASE r.peer \in known /\ delta'.added = {} /\ delta'.removed = {} /\ outbox' = outbox
    BY <1>1, <1>3, <2>3, ViewUnreported, ZenonT(30)
  <2> QED
    BY <2>1, <2>2, <2>3, ZenonT(30) DEF ReceiveRecord
<1>4. CASE AddStale(r)
  <2>1. /\ r.peer \in routable /\ (delta'.is_new <=> r.peer \notin known)
        /\ delta'.added = {} /\ delta'.removed = {}
        /\ known' = known \cup {r.peer} /\ providers' = providers /\ lost' = lost
    BY <1>4, ZenonT(30) DEF AddStale
  <2>2. CASE r.peer \in known
    <3>1. outbox' = outbox /\ known' = known
      BY <2>1, <2>2, ZenonT(30) DEF ReceiveRecord
    <3> QED
      BY <1>1, <2>1, <3>1, ViewSame, ZenonT(30)
  <2>3. CASE r.peer \notin known
    <3>1. outbox' = Append(outbox, Updated(r.peer, {}, {}))
      BY <2>1, <2>3, ZenonT(30) DEF ReceiveRecord
    <3> QED
      BY <1>1, <2>1, <3>1, ViewStale
  <2> QED
    BY <2>2, <2>3
<1> QED
  BY <1>2, <1>3, <1>4 DEF ReceiveRecord, AddProvider, AddSkipped

\* What an event does to the view.
LEMMA AppliedEvent ==
  ASSUME NEW ev \in MembershipEvents, view.known \subseteq Peers, view.pairs \subseteq Peers \X Subnets,
         view' = Applied(ev)
  PROVE  /\ view'.known \subseteq Peers /\ view'.pairs \subseteq Peers \X Subnets
         /\ \A p \in Peers :
              p \in view'.known <=> ev \in Tells(p) \/ (p \in view.known /\ ev \notin Forgets(p))
         /\ \A p \in Peers, s \in Subnets :
              <<p, s>> \in view'.pairs
                <=> ev \in Gives(p, s) \/ (<<p, s>> \in view.pairs /\ ev \notin Takes(p, s))
<1>1. CASE ev.kind = "Updated"
  <2>1. ev.peer \in Peers /\ ev.added \subseteq Subnets /\ ev.removed \subseteq Subnets
    BY <1>1 DEF MembershipEvents
  <2>2. view'.known = view.known \cup {ev.peer}
    BY <1>1 DEF Applied
  <2>3. view'.pairs = {e \in view.pairs : e[1] # ev.peer \/ e[2] \notin ev.removed}
                        \cup ({ev.peer} \X ev.added)
    BY <1>1 DEF Applied
  <2>4. \A p : (ev \in Tells(p) <=> p = ev.peer) /\ ev \notin Forgets(p)
    BY <1>1 DEF Tells, Forgets
  <2>5. \A p, s : /\ ev \in Gives(p, s) <=> p = ev.peer /\ s \in ev.added
                  /\ ev \in Takes(p, s) <=> p = ev.peer /\ s \in ev.removed /\ s \notin ev.added
    BY <2>4, ZenonT(30) DEF Gives, Takes
  <2>6. ASSUME NEW p \in Peers, NEW s \in Subnets
        PROVE  <<p, s>> \in view'.pairs
                 <=> \/ p = ev.peer /\ s \in ev.added
                     \/ <<p, s>> \in view.pairs /\ (p # ev.peer \/ s \notin ev.removed)
    BY <2>3
  <2>7. view'.known \subseteq Peers /\ view'.pairs \subseteq Peers \X Subnets
    BY <2>1, <2>2, <2>3
  <2>8. ASSUME NEW p \in Peers, NEW s \in Subnets
        PROVE  <<p, s>> \in view'.pairs
                 <=> ev \in Gives(p, s) \/ (<<p, s>> \in view.pairs /\ ev \notin Takes(p, s))
    BY <2>5, <2>6
  <2>9. ASSUME NEW p \in Peers
        PROVE  p \in view'.known <=> ev \in Tells(p) \/ (p \in view.known /\ ev \notin Forgets(p))
    BY <2>2, <2>4
  <2> QED
    BY <2>7, <2>8, <2>9, ZenonT(30)
<1>2. CASE ev.kind = "Removed"
  <2>1. view'.known = view.known \ {ev.peer} /\ view'.pairs = {e \in view.pairs : e[1] # ev.peer}
    BY <1>2 DEF Applied
  <2>2. \A p : ev \notin Tells(p) /\ (ev \in Forgets(p) <=> p = ev.peer)
    BY <1>2 DEF Tells, Forgets
  <2>3. \A p, s : ev \notin Gives(p, s) /\ (ev \in Takes(p, s) <=> p = ev.peer)
    BY <2>2, ZenonT(30) DEF Gives, Takes
  <2>4. \A p \in Peers, s \in Subnets :
          <<p, s>> \in view'.pairs <=> <<p, s>> \in view.pairs /\ p # ev.peer
    BY <2>1
  <2> QED
    BY <2>1, <2>2, <2>3, <2>4
<1>3. CASE ev.kind \notin {"Updated", "Removed"}
  <2>1. view' = view
    BY <1>3 DEF Applied
  <2> QED
    BY <1>3, <2>1, OtherEvent
<1> QED
  BY <1>1, <1>2, <1>3, ZenonT(30)

\* The first event moves from the queue into the view.
LEMMA ViewEmitted ==
  ASSUME ViewInv, Emit
  PROVE  ViewInv'
<1>1. /\ outbox \in Seq(MembershipEvents) /\ outbox # <<>> /\ outbox' = Tail(outbox)
      /\ UNCHANGED <<known, providers, lost>>
  BY DEF ViewInv, Emit, cacheVars
<1>2. Head(outbox) \in MembershipEvents /\ outbox' \in Seq(MembershipEvents)
  BY <1>1
<1>3. PICK ev \in MembershipEvents : ev = Head(outbox)
  BY <1>2
<1>4. view' = Applied(ev)
  BY <1>3 DEF Emit
<1>5. /\ view'.known \subseteq Peers /\ view'.pairs \subseteq Peers \X Subnets
      /\ \A p \in Peers :
           p \in view'.known <=> ev \in Tells(p) \/ (p \in view.known /\ ev \notin Forgets(p))
      /\ \A p \in Peers, s \in Subnets :
           <<p, s>> \in view'.pairs
             <=> ev \in Gives(p, s) \/ (<<p, s>> \in view.pairs /\ ev \notin Takes(p, s))
  BY <1>4, AppliedEvent DEF ViewInv
<1>6. ASSUME NEW p \in Peers
      PROVE  Told(outbox, Tells(p), Forgets(p), p, view.known)'
               <=> Told(outbox, Tells(p), Forgets(p), p, view.known)
  BY <1>1, <1>3, <1>5, ToldTail, ZenonT(30)
<1>7. ASSUME NEW p \in Peers, NEW s \in Subnets
      PROVE  Told(outbox, Gives(p, s), Takes(p, s), <<p, s>>, view.pairs)'
               <=> Told(outbox, Gives(p, s), Takes(p, s), <<p, s>>, view.pairs)
  BY <1>1, <1>3, <1>5, ToldTail, ZenonT(30)
<1> QED
  BY <1>1, <1>2, <1>5, <1>6, <1>7, ZenonT(30) DEF ViewInv

\* Every step of membership keeps the invariant.
LEMMA NextView ==
  ASSUME CacheInv, ViewInv, [MembershipNext]_membershipVars
  PROVE  ViewInv'
<1>1. ASSUME UNCHANGED <<known, providers, lost, outbox, view>> PROVE ViewInv'
  BY <1>1, ViewSame
<1>2. ASSUME NEW new \in SUBSET Subnets, SetProvidedSubnets(new) PROVE ViewInv'
  BY <1>1, <1>2 DEF SetProvidedSubnets, cacheVars
<1>3. ASSUME NEW s \in Subnets, AddProvidedSubnet(s) \/ RemoveProvidedSubnet(s) PROVE ViewInv'
  BY <1>1, <1>3 DEF AddProvidedSubnet, RemoveProvidedSubnet, cacheVars
<1>4. ASSUME NEW s \in Subnets, Pin(s) \/ Unpin(s) PROVE ViewInv'
  BY <1>1, <1>4 DEF Pin, Unpin, PinSubnet, UnpinSubnet
<1>5. ASSUME NEW s \in Subnets, ReceiveVote(s) \/ ReceivePreemptive(s) PROVE ViewInv'
  <2>1. ReceivedVote(s) \in MembershipEvents /\ ReceivedVote(s).kind = "ReceivedVote"
    BY DEF MembershipEvents, ReceivedVote
  <2>2. /\ ReceivedPreemptive(s) \in MembershipEvents
        /\ ReceivedPreemptive(s).kind = "ReceivedPreemptive"
    BY DEF MembershipEvents, ReceivedPreemptive
  <2>3. UNCHANGED <<known, providers, lost, view>>
    BY <1>5 DEF ReceiveVote, ReceivePreemptive, cacheVars
  <2>4. PICK ev \in MembershipEvents :
          ev.kind \in {"ReceivedVote", "ReceivedPreemptive"} /\ outbox' = Append(outbox, ev)
    BY <1>5, <2>1, <2>2, ZenonT(30) DEF ReceiveVote, ReceivePreemptive
  <2>5. ev.kind \notin {"Updated", "Removed"}
    BY <2>4
  <2> QED
    BY <2>3, <2>4, <2>5, ViewOther
<1>6. ASSUME NEW p \in Peers, MarkRoutable(p) PROVE ViewInv'
  BY <1>1, <1>6 DEF MarkRoutable, SetRoutable
<1>7. ASSUME NEW p \in Peers, MarkUnroutable(p) PROVE ViewInv'
  BY <1>7, ViewRemoved DEF MarkUnroutable
<1>8. ASSUME NEW r \in Records, ReceiveRecord(r) PROVE ViewInv'
  BY <1>8, ViewRecord
<1>9. CASE Subscriber \/ Elapse
  BY <1>1, <1>9 DEF Subscriber, Elapse, cacheVars
<1>10. CASE Tick
  BY <1>10, ViewPruned DEF Tick
<1>11. CASE Emit
  BY <1>11, ViewEmitted
<1>12. CASE UNCHANGED membershipVars
  BY <1>1, <1>12 DEF membershipVars, cacheVars
<1> QED
  BY <1>2, <1>3, <1>4, <1>5, <1>6, <1>7, <1>8, <1>9, <1>10, <1>11, <1>12
     DEF MembershipNext, MembershipCall, Receive

\* However records, removals and prunings interleave with the emission of
\* events, whoever has been told of them all knows the providers and what they
\* provide, and nothing else but what was pruned with its subnet
\* (membership.rs:370-373, 424-446, 493-500).
THEOREM EventsTellTheCache == MembershipSpec => []EventsReproduceCache
<1>1. MembershipInit => CacheInv
  BY CacheInitInv DEF MembershipInit
<1>2. CacheInv /\ [MembershipNext]_membershipVars => CacheInv'
  BY MembershipCacheInv
<1>3. MembershipInit => ViewInv
  <2> SUFFICES ASSUME MembershipInit PROVE ViewInv
    OBVIOUS
  <2>1. /\ outbox = <<>> /\ known = {} /\ providers = {}
        /\ view.known = {} /\ view.pairs = {}
    BY DEF MembershipInit, CacheInit
  <2> QED
    BY <2>1, ToldNothing, FS_EmptySet DEF ViewInv
<1>4. CacheInv /\ ViewInv /\ [MembershipNext]_membershipVars => ViewInv'
  BY NextView
<1>5. CacheInv /\ ViewInv => EventsReproduceCache
  <2> SUFFICES ASSUME CacheInv, ViewInv, outbox = <<>>
               PROVE  /\ view.known = known
                      /\ providers \subseteq view.pairs
                      /\ view.pairs \subseteq providers \cup lost
    BY DEF EventsReproduceCache
  <2>1. known \subseteq Peers /\ providers \subseteq Peers \X Subnets
    BY DEF CacheInv, CacheTypeOK
  <2>2. \A p \in Peers : p \in known <=> p \in view.known
    BY ToldNothing DEF ViewInv
  <2>3. \A p \in Peers, s \in Subnets : <<p, s>> \in providers => <<p, s>> \in view.pairs
    BY ToldNothing DEF ViewInv
  <2>4. \A p \in Peers, s \in Subnets :
          <<p, s>> \in view.pairs => <<p, s>> \in providers \cup lost
    BY ToldNothing DEF ViewInv
  <2>5. view.known \subseteq Peers /\ view.pairs \subseteq Peers \X Subnets
    BY DEF ViewInv
  <2>6. view.known = known
    BY <2>1, <2>2, <2>5, ZenonT(30)
  <2>7. providers \subseteq view.pairs
    BY <2>1, <2>3
  <2>8. view.pairs \subseteq providers \cup lost
    BY <2>4, <2>5
  <2> QED
    BY <2>6, <2>7, <2>8, ZenonT(30)
<1> QED
  BY <1>1, <1>2, <1>3, <1>4, <1>5, PTL DEF MembershipSpec

-------------------------------------------------------------------------------
(* Discovery and the service *)

\* The events of discovery are about peers, only static ones are reported as
\* removed, and the addition of a peer of the table that is not routable, unless
\* it was pruned for its age, is still to be handled.
Pending(p) == \E i \in 1..Len(discovery_outbox) : discovery_outbox[i] = D!PeerAdded(p)
RoutingInv ==
  /\ discovery_outbox \in Seq(D!DiscoveryEvents)
  /\ \A i \in 1..Len(discovery_outbox) :
       discovery_outbox[i].kind = "Removed" => discovery_outbox[i].peer \in Static
  /\ \A p \in table \ (Static \cup aged) : p \in routable \/ Pending(p)

\* num_connections counts the peers with a connection.
ConnectionInv == connections \in [Peers -> Nat] /\ D!ConnectionsCounted

\* While the bootstrap runs, the buffer holds everybody who was accepted.
BufferInv ==
  /\ bootstrapping \in BOOLEAN
  /\ {buffer, accepted} \subseteq SUBSET Peers
  /\ D!BufferedPeersSurvive
  /\ bootstrapping => accepted = buffer

\* Who was looked up is in the filter.
LookupInv ==
  /\ looked_up \in [Peers -> Nat]
  /\ LookedUpOnce
  /\ \A p \in Peers : p \notin filter => looked_up[p] = 0

\* Cardinality means the same in Discovery.
LEMMA SameCardinality == \A S : D!Cardinality(S) = Cardinality(S)
  BY Zenon DEF D!Cardinality, Cardinality

\* The service leaves discovery's own bookkeeping alone: only a step of the
\* network touches it.
bookkeeping == <<bootstrapping, buffer, offered, connections, num_connections, accepted>>
LEMMA OnlyTheNetwork ==
  ASSUME [ResolverNext]_resolverVars
  PROVE  PollDiscovery \/ UNCHANGED bookkeeping
<1>1. CASE HandleDiscoveryEvent
  BY <1>1 DEF HandleDiscoveryEvent, D!EmitDiscovery, bookkeeping
<1>2. CASE HandleMembershipEvent \/ HandleRequest \/ PollMembership \/ UNCHANGED resolverVars
  <2>1. UNCHANGED discovery
    BY <1>2, ZenonT(30) DEF HandleMembershipEvent, HandleRequest, PollMembership, resolverVars
  <2> QED
    BY <2>1 DEF discovery, bookkeeping
<1> QED
  BY <1>1, <1>2 DEF ResolverNext

\* Connections come and go one at a time; the first and the last of a peer count.
LEMMA ConnectionStep == ConnectionInv /\ [ResolverNext]_resolverVars => ConnectionInv'
<1> SUFFICES ASSUME ConnectionInv, [ResolverNext]_resolverVars PROVE ConnectionInv'
  OBVIOUS
<1> DEFINE Connected == {p \in Peers : connections[p] > 0}
<1>0. /\ connections \in [Peers -> Nat] /\ num_connections = Cardinality(Connected)
      /\ IsFiniteSet(Connected)
  <2>1. IsFiniteSet(Connected)
    BY DiscoveryAssumption, FS_Subset
  <2> QED
    BY <2>1, SameCardinality, ZenonT(30) DEF ConnectionInv, D!ConnectionsCounted
<1>1. CASE UNCHANGED <<connections, num_connections>>
  BY <1>1 DEF ConnectionInv, D!ConnectionsCounted
<1>2. ASSUME NEW p \in Peers, D!ConnectionEstablished(p) PROVE ConnectionInv'
  <2>1. /\ connections' = [connections EXCEPT ![p] = @ + 1]
        /\ num_connections' = IF connections[p] = 0 THEN num_connections + 1 ELSE num_connections
    BY <1>2 DEF D!ConnectionEstablished
  <2>2. connections' \in [Peers -> Nat] /\ Connected' = Connected \cup {p}
    BY <1>0, <2>1
  <2>3. p \in Connected <=> connections[p] # 0
    BY <1>0
  <2>4. Cardinality(Connected \cup {p}) =
          IF p \in Connected THEN Cardinality(Connected) ELSE Cardinality(Connected) + 1
    BY <1>0, FS_AddElement, ZenonT(30)
  <2> HIDE DEF Connected
  <2>5. num_connections' = Cardinality(Connected')
    BY <1>0, <2>1, <2>2, <2>3, <2>4
  <2> QED
    BY <2>2, <2>5, SameCardinality, ZenonT(30) DEF ConnectionInv, D!ConnectionsCounted, Connected
<1>3. ASSUME NEW p \in Peers, D!ConnectionClosed(p) PROVE ConnectionInv'
  <2>1. /\ connections[p] > 0
        /\ connections' = [connections EXCEPT ![p] = @ - 1]
        /\ num_connections' = IF connections[p] = 1 THEN num_connections - 1 ELSE num_connections
    BY <1>3 DEF D!ConnectionClosed
  <2>2. connections' \in [Peers -> Nat]
    BY <1>0, <2>1
  <2>3. Connected' = IF connections[p] = 1 THEN Connected \ {p} ELSE Connected
    BY <1>0, <2>1
  <2>4. p \in Connected
    BY <2>1
  <2>5. Cardinality(Connected \ {p}) = Cardinality(Connected) - 1
    BY <1>0, <2>4, FS_RemoveElement
  <2> HIDE DEF Connected
  <2>6. num_connections' = Cardinality(Connected')
    BY <1>0, <2>1, <2>3, <2>5
  <2> QED
    BY <2>2, <2>6, SameCardinality, ZenonT(30) DEF ConnectionInv, D!ConnectionsCounted, Connected
<1>4. CASE PollDiscovery
  BY <1>1, <1>2, <1>3, <1>4, ZenonT(30)
     DEF PollDiscovery, D!NetworkStep, D!KademliaInserts, D!KademliaReports, D!KademliaReplaces,
         D!Identified, D!BootstrapFinishes
<1> QED
  BY <1>1, <1>4, OnlyTheNetwork DEF bookkeeping

\* However the connections of a peer overlap, num_connections counts it once
\* (discovery.rs:237-254).
THEOREM ConnectionsAreCounted == ResolverSpec => []ConnectionsCounted
<1>1. ResolverInit => ConnectionInv
  <2> SUFFICES ASSUME ResolverInit PROVE ConnectionInv
    OBVIOUS
  <2>1. connections = [p \in Peers |-> 0] /\ num_connections = 0
    BY DEF ResolverInit, D!DiscoveryInit
  <2>2. {p \in Peers : connections[p] > 0} = {}
    BY <2>1
  <2> QED
    <3>1. connections \in [Peers -> Nat]
      BY <2>1
    <3>2. Cardinality({}) = 0
      BY FS_EmptySet
    <3> QED
      BY <2>1, <2>2, <3>1, <3>2, SameCardinality DEF ConnectionInv, D!ConnectionsCounted
<1>2. ConnectionInv => ConnectionsCounted
  BY DEF ConnectionInv, ConnectionsCounted
<1> QED
  BY <1>1, <1>2, ConnectionStep, PTL DEF ResolverSpec

\* The buffer takes a peer only while it has room, and is handed over as a whole.
LEMMA BufferStep == BufferInv /\ [ResolverNext]_resolverVars => BufferInv'
<1> SUFFICES ASSUME BufferInv, [ResolverNext]_resolverVars PROVE BufferInv'
  OBVIOUS
<1> USE DEF BufferInv, D!BufferedPeersSurvive
<1>1. CASE UNCHANGED <<bootstrapping, buffer, offered, accepted>>
  BY <1>1, ZenonT(30)
<1>2. ASSUME NEW p \in Peers, D!Identified(p) PROVE BufferInv'
  <2>1. CASE bootstrapping
    <3>1. /\ accepted = buffer /\ D!Cardinality(buffer) < TargetConnections /\ p \notin buffer
          /\ buffer' = buffer \cup {p} /\ accepted' = accepted \cup {p}
          /\ bootstrapping' = bootstrapping /\ offered' = offered
      BY <1>2, <2>1, ZenonT(30) DEF D!Identified
    <3>2. Cardinality(buffer) < TargetConnections
      BY <3>1, SameCardinality
    <3>3. IsFiniteSet(buffer)
      BY DiscoveryAssumption, FS_Subset
    <3>4. Cardinality(buffer \cup {p}) = Cardinality(buffer) + 1 /\ Cardinality(buffer) \in Nat
      BY <3>1, <3>3, FS_AddElement, FS_CardinalityType
    <3>5. Cardinality(accepted') <= TargetConnections
      BY <3>1, <3>2, <3>4, DiscoveryAssumption
    <3>6. D!Cardinality(accepted') <= TargetConnections
      BY <3>5, SameCardinality
    <3> QED
      BY <3>1, <3>6, <2>1
  <2>2. CASE ~ bootstrapping
    <3>1. /\ bootstrapping' = bootstrapping /\ buffer' = buffer /\ accepted' = accepted
          /\ offered \subseteq offered'
      BY <1>2, <2>2 DEF D!Identified
    <3> QED
      BY <3>1, <2>2, ZenonT(30)
  <2> QED
    BY <2>1, <2>2
<1>3. CASE D!BootstrapFinishes
  <2>1. /\ bootstrapping' = FALSE /\ buffer' = {} /\ accepted' = accepted
        /\ offered' = offered \cup buffer
    BY <1>3, ZenonT(30) DEF D!BootstrapFinishes
  <2> QED
    BY <2>1, ZenonT(30)
<1>4. CASE PollDiscovery
  BY <1>1, <1>2, <1>3, <1>4, ZenonT(30)
     DEF PollDiscovery, D!NetworkStep, D!KademliaInserts, D!KademliaReports, D!KademliaReplaces,
         D!ConnectionEstablished, D!ConnectionClosed
<1> QED
  BY <1>1, <1>4, OnlyTheNetwork, ZenonT(30) DEF bookkeeping

\* Whenever peers identify themselves, the end of the bootstrap loses none that
\* the buffer had accepted (discovery.rs:190-206, 312-324).
THEOREM BufferedSurvive == ResolverSpec => []BufferedPeersSurvive
<1>1. ResolverInit => BufferInv
  <2> SUFFICES ASSUME ResolverInit PROVE BufferInv
    OBVIOUS
  <2>1. buffer = {} /\ offered = {} /\ accepted = {}
    BY DEF ResolverInit, D!DiscoveryInit
  <2>2. bootstrapping \in BOOLEAN
    BY ZenonT(30) DEF ResolverInit, D!DiscoveryInit
  <2>3. Cardinality({}) <= TargetConnections
    BY FS_EmptySet, DiscoveryAssumption
  <2>4. D!Cardinality(accepted) <= TargetConnections
    BY <2>1, <2>3, SameCardinality
  <2> QED
    BY <2>1, <2>2, <2>4, ZenonT(30) DEF BufferInv, D!BufferedPeersSurvive
<1>2. BufferInv => BufferedPeersSurvive
  BY DEF BufferInv, BufferedPeersSurvive
<1> QED
  BY <1>1, <1>2, BufferStep, PTL DEF ResolverSpec

\* A lookup is for a peer that is not in the filter, and puts it there.
LEMMA LookupStep == LookupInv /\ [ResolverNext]_resolverVars => LookupInv'
<1> SUFFICES ASSUME LookupInv, [ResolverNext]_resolverVars PROVE LookupInv'
  OBVIOUS
<1>1. CASE UNCHANGED looked_up /\ filter \subseteq filter'
  BY <1>1 DEF LookupInv, LookedUpOnce
<1>2. CASE HandleMembershipEvent
  <2>1. CASE ~ (UNCHANGED looked_up /\ filter \subseteq filter')
    <3> DEFINE p == Head(outbox).peer
    <3>1. IsNewToFilter(p) /\ BackgroundLookup(p) /\ filter' = filter \cup {p}
      BY <1>2, <2>1, ZenonT(30) DEF HandleMembershipEvent
    <3>2. p \notin filter /\ looked_up' = [looked_up EXCEPT ![p] = @ + 1]
      BY <2>1, <3>1 DEF IsNewToFilter, BackgroundLookup
    <3> HIDE DEF p
    <3>3. looked_up \in [Peers -> Nat] /\ \A q \in Peers : q \notin filter => looked_up[q] = 0
      BY DEF LookupInv
    <3>4. \A q \in Peers : looked_up'[q] = IF q = p THEN looked_up[q] + 1 ELSE looked_up[q]
      BY <3>2, <3>3
    <3>5. looked_up' \in [Peers -> Nat]
      <4>1. looked_up' = [q \in Peers |-> IF q = p THEN looked_up[q] + 1 ELSE looked_up[q]]
        BY <3>2, <3>3, ZenonT(30)
      <4> QED
        BY <3>3, <4>1
    <3>6. \A q \in Peers : looked_up'[q] <= 1
      BY <3>2, <3>3, <3>4 DEF LookupInv, LookedUpOnce
    <3>7. \A q \in Peers : q \notin filter' => looked_up'[q] = 0
      BY <3>1, <3>3, <3>4
    <3> QED
      BY <3>5, <3>6, <3>7 DEF LookupInv, LookedUpOnce
  <2> QED
    BY <1>1, <2>1
<1>3. CASE HandleDiscoveryEvent \/ HandleRequest \/ PollMembership \/ PollDiscovery
           \/ UNCHANGED resolverVars
  <2>1. UNCHANGED <<filter, looked_up>>
    BY <1>3, ZenonT(30)
       DEF HandleDiscoveryEvent, HandleRequest, PollMembership, PollDiscovery, resolverVars
  <2> QED
    BY <2>1, <1>1
<1> QED
  BY <1>2, <1>3 DEF ResolverNext

\* Gossip of a peer without an address triggers at most one lookup
\* (service.rs:345-357).
THEOREM LookupsHappenOnce == ResolverSpec => []LookedUpOnce
<1>1. ResolverInit => LookupInv
  BY DEF ResolverInit, LookupInv, LookedUpOnce
<1>2. LookupInv => LookedUpOnce
  BY DEF LookupInv
<1> QED
  BY <1>1, <1>2, LookupStep, PTL DEF ResolverSpec

\* What KademliaInserts, KademliaReplaces and KademliaReports append keeps the
\* order of the events: whatever was pending stays so.
LEMMA Appended ==
  ASSUME RoutingInv, NEW p \in Peers, NEW es \in {<<>>} \cup {<<D!PeerRemoved(q)>> : q \in Static},
         discovery_outbox' = Append(discovery_outbox \o es, D!PeerAdded(p)),
         table' \subseteq table \cup {p}, UNCHANGED <<routable, aged>>
  PROVE  RoutingInv'
<1> DEFINE o == discovery_outbox
<1>0. o \in Seq(D!DiscoveryEvents) /\ Static \subseteq Peers
  BY DiscoveryAssumption DEF RoutingInv
<1>1. D!PeerAdded(p) \in D!DiscoveryEvents /\ D!PeerAdded(p).kind # "Removed"
  BY DEF D!PeerAdded, D!DiscoveryEvents
<1>2. /\ es \in Seq(D!DiscoveryEvents)
      /\ \A i \in 1..Len(es) : es[i].kind = "Removed" /\ es[i].peer \in Static
  <2>1. CASE es = <<>>
    BY <2>1
  <2>2. ASSUME NEW q \in Static, es = <<D!PeerRemoved(q)>>
        PROVE  /\ es \in Seq(D!DiscoveryEvents)
               /\ \A i \in 1..Len(es) : es[i].kind = "Removed" /\ es[i].peer \in Static
    <3>1. D!PeerRemoved(q) \in D!DiscoveryEvents
      BY <1>0 DEF D!PeerRemoved, D!DiscoveryEvents
    <3>2. D!PeerRemoved(q).kind = "Removed" /\ D!PeerRemoved(q).peer = q
      BY DEF D!PeerRemoved
    <3> QED
      BY <2>2, <3>1, <3>2
  <2> QED
    BY <2>1, <2>2, ZenonT(30)
<1> DEFINE n == Len(o) + Len(es)
<1> HIDE DEF o
<1>3. o' = Append(o \o es, D!PeerAdded(p))
  BY DEF o
<1>4. /\ o' \in Seq(D!DiscoveryEvents) /\ Len(o') = n + 1 /\ o'[n + 1] = D!PeerAdded(p)
      /\ \A i \in 1..Len(o) : o'[i] = o[i]
      /\ \A i \in (Len(o) + 1)..n : o'[i] = es[i - Len(o)]
  BY <1>0, <1>1, <1>2, <1>3
<1>5. \A i \in 1..Len(o') : o'[i].kind = "Removed" => o'[i].peer \in Static
  <2> SUFFICES ASSUME NEW i \in 1..Len(o'), o'[i].kind = "Removed" PROVE o'[i].peer \in Static
    OBVIOUS
  <2>0. Len(o) \in Nat /\ Len(es) \in Nat /\ i \in Nat
    BY <1>0, <1>2, <1>4
  <2>1. CASE i <= Len(o)
    BY <2>0, <2>1, <1>4 DEF RoutingInv, o
  <2>2. CASE i > Len(o) /\ i <= n
    <3>1. i \in (Len(o) + 1)..n /\ i - Len(o) \in 1..Len(es)
      BY <2>0, <2>2
    <3>2. o'[i] = es[i - Len(o)]
      BY <3>1, <1>4, ZenonT(30)
    <3> QED
      BY <3>1, <3>2, <1>2, ZenonT(30)
  <2>3. CASE i = n + 1
    BY <2>3, <1>1, <1>4, ZenonT(30)
  <2> QED
    BY <2>0, <2>1, <2>2, <2>3, <1>4
<1>6. ASSUME NEW q \in table' \ (Static \cup aged')
      PROVE  q \in routable' \/ \E i \in 1..Len(o') : o'[i] = D!PeerAdded(q)
  <2>0. Len(o) \in Nat /\ Len(es) \in Nat
    BY <1>0, <1>2
  <2>1. CASE q = p
    <3>1. n + 1 \in 1..Len(o') /\ o'[n + 1] = D!PeerAdded(q)
      BY <2>0, <2>1, <1>4
    <3> QED
      BY <3>1, ZenonT(30)
  <2>2. CASE q # p
    <3>1. q \in routable \/ \E i \in 1..Len(o) : o[i] = D!PeerAdded(q)
      BY <2>2, <1>6, ZenonT(30) DEF RoutingInv, Pending, o
    <3>2. ASSUME NEW i \in 1..Len(o), o[i] = D!PeerAdded(q)
          PROVE  i \in 1..Len(o') /\ o'[i] = D!PeerAdded(q)
      BY <2>0, <3>2, <1>4
    <3> QED
      BY <3>1, <3>2, ZenonT(30)
  <2> QED
    BY <2>1, <2>2
<1> QED
  BY <1>4, <1>5, <1>6, ZenonT(30) DEF RoutingInv, Pending, o

\* Of the steps of membership, only those of the service and the pruning by
\* age change who is routable.
LEMMA RoutableKept ==
  ASSUME MembershipCall \/ Receive \/ Emit \/ Elapse
  PROVE  UNCHANGED routable
<1>1. CASE UNCHANGED cacheVars
  BY <1>1 DEF cacheVars
<1>2. ASSUME NEW s \in Subnets, Pin(s) \/ Unpin(s) PROVE UNCHANGED routable
  BY <1>2, ZenonT(30) DEF Pin, Unpin, PinSubnet, UnpinSubnet
<1>3. ASSUME NEW r \in Records, ReceiveRecord(r) PROVE UNCHANGED routable
  BY <1>3, ZenonT(30) DEF ReceiveRecord, AddProvider, AddNewer, AddStale, AddSkipped
<1> QED
  BY <1>1, <1>2, <1>3, ZenonT(30)
     DEF MembershipCall, Receive, Emit, Elapse, SetProvidedSubnets, AddProvidedSubnet,
         RemoveProvidedSubnet, ReceiveVote, ReceivePreemptive, Subscriber

\* Handling the oldest event of discovery.
LEMMA EventHandled == RoutingInv /\ HandleDiscoveryEvent => RoutingInv'
<1> SUFFICES ASSUME RoutingInv, HandleDiscoveryEvent PROVE RoutingInv'
  OBVIOUS
<1> DEFINE o == discovery_outbox
           ev == Head(o)
<1>0. /\ o \in Seq(D!DiscoveryEvents) /\ o # <<>> /\ o' = Tail(o) /\ table' = table
      /\ \A i \in 1..Len(o) : o[i].kind = "Removed" => o[i].peer \in Static
  BY DEF RoutingInv, HandleDiscoveryEvent, D!EmitDiscovery
<1>1. \/ ev.kind = "Added" /\ routable' = routable \cup {ev.peer} /\ aged' = aged \ {ev.peer}
      \/ ev.kind = "Removed" /\ routable' = routable \ {ev.peer} /\ aged' = aged
  BY ZenonT(30)
     DEF HandleDiscoveryEvent, MarkRoutable, MarkUnroutable, SetRoutable, SetUnroutable, Forget
<1>2. /\ Len(o) \in Nat \ {0} /\ ev = o[1]
      /\ o' \in Seq(D!DiscoveryEvents) /\ Len(o') = Len(o) - 1
      /\ \A i \in 1..Len(o') : o'[i] = o[i + 1]
  BY <1>0
<1>3. ev.kind = "Removed" => ev.peer \in Static
  BY <1>0, <1>2
<1>4. \A p \in table \ (Static \cup aged) : p \in routable \/ \E i \in 1..Len(o) : o[i] = D!PeerAdded(p)
  BY ZenonT(30) DEF RoutingInv, Pending
<1>5. \A p : D!PeerAdded(p).kind = "Added" /\ D!PeerAdded(p).peer = p
  BY DEF D!PeerAdded
<1> HIDE DEF o, ev
<1>6. \A i \in 1..Len(o') : o'[i].kind = "Removed" => o'[i].peer \in Static
  BY <1>0, <1>2
<1>7. ASSUME NEW p \in table' \ (Static \cup aged')
      PROVE  p \in routable' \/ \E i \in 1..Len(o') : o'[i] = D!PeerAdded(p)
  <2>1. CASE p = ev.peer
    BY <1>1, <1>3, <1>7, <2>1
  <2>2. CASE p # ev.peer
    <3>1. p \in table \ (Static \cup aged) /\ (p \in routable => p \in routable')
      BY <1>0, <1>1, <1>7, <2>2
    <3>2. ASSUME NEW i \in 1..Len(o), o[i] = D!PeerAdded(p)
          PROVE  \E j \in 1..Len(o') : o'[j] = D!PeerAdded(p)
      <4>1. i # 1
        BY <1>2, <1>5, <2>2, <3>2
      <4>2. i - 1 \in 1..Len(o') /\ o'[i - 1] = D!PeerAdded(p)
        BY <1>2, <3>2, <4>1
      <4> QED
        BY <4>2, ZenonT(30)
    <3> QED
      BY <1>4, <3>1, <3>2, ZenonT(30)
  <2> QED
    BY <2>1, <2>2
<1> QED
  BY <1>2, <1>6, <1>7, ZenonT(30) DEF RoutingInv, Pending, o

\* Every step keeps the routing table and the routable peers in line.
LEMMA RoutingStep == RoutingInv /\ [ResolverNext]_resolverVars => RoutingInv'
<1> SUFFICES ASSUME RoutingInv, [ResolverNext]_resolverVars PROVE RoutingInv'
  OBVIOUS
<1>1. ASSUME UNCHANGED <<discovery_outbox, table, routable, aged>> PROVE RoutingInv'
  BY <1>1, ZenonT(30) DEF RoutingInv, Pending
<1>2. CASE HandleDiscoveryEvent
  BY <1>2, EventHandled
<1>3. CASE HandleMembershipEvent \/ HandleRequest
  BY <1>3, <1>1, RoutableKept, ZenonT(30) DEF HandleMembershipEvent, HandleRequest, discovery
<1>4. CASE PollMembership
  <2>1. UNCHANGED <<discovery_outbox, table>>
    BY <1>4, ZenonT(30) DEF PollMembership, discovery
  <2>2. CASE (Receive \/ Elapse) /\ UNCHANGED aged
    BY <2>1, <2>2, <1>1, RoutableKept, ZenonT(30)
  <2>3. CASE Tick /\ aged' = aged \cup Outdated(Before(now, MaxAge))
    <3>1. routable' = routable \ Outdated(Before(now, MaxAge))
      BY <2>3, ZenonT(30) DEF Tick, PruneMembership, Forget
    <3>2. /\ discovery_outbox' \in Seq(D!DiscoveryEvents)
          /\ \A i \in 1..Len(discovery_outbox') :
               discovery_outbox'[i].kind = "Removed" => discovery_outbox'[i].peer \in Static
      BY <2>1, ZenonT(30) DEF RoutingInv
    <3>3. ASSUME NEW p \in table' \ (Static \cup aged') PROVE p \in routable' \/ Pending(p)'
      BY <2>1, <2>3, <3>1, <3>3, ZenonT(30) DEF RoutingInv, Pending
    <3> QED
      BY <3>2, <3>3, ZenonT(30) DEF RoutingInv
  <2> QED
    BY <1>4, <2>2, <2>3, ZenonT(30) DEF PollMembership
<1>5. CASE PollDiscovery
  <2>0. UNCHANGED <<routable, aged>> /\ discovery_outbox \in Seq(D!DiscoveryEvents)
    BY <1>5, ZenonT(30) DEF PollDiscovery, membershipVars, cacheVars, RoutingInv
  <2>1. discovery_outbox \o <<>> = discovery_outbox
    BY <2>0
  <2>2. ASSUME NEW p \in Peers, D!KademliaInserts(p) \/ D!KademliaReports(p) PROVE RoutingInv'
    <3>1. /\ discovery_outbox' = Append(discovery_outbox \o <<>>, D!PeerAdded(p))
          /\ table' \subseteq table \cup {p}
      BY <2>1, <2>2 DEF D!KademliaInserts, D!KademliaReports
    <3> QED
      BY <2>0, <3>1, Appended, ZenonT(30)
  <2>3. ASSUME NEW p \in Peers, NEW old \in Peers, D!KademliaReplaces(p, old) PROVE RoutingInv'
    <3>1. /\ discovery_outbox' = Append(discovery_outbox \o D!RemovedFor(old), D!PeerAdded(p))
          /\ table' \subseteq table \cup {p}
      BY <2>3 DEF D!KademliaReplaces
    <3>2. D!RemovedFor(old) \in {<<>>} \cup {<<D!PeerRemoved(q)>> : q \in Static}
      BY DEF D!RemovedFor
    <3> QED
      BY <2>0, <3>1, <3>2, Appended, ZenonT(30)
  <2>4. CASE UNCHANGED <<discovery_outbox, table>>
    BY <2>0, <2>4, <1>1
  <2> QED
    BY <1>5, <2>2, <2>3, <2>4, ZenonT(30)
       DEF PollDiscovery, D!NetworkStep, D!Identified, D!ConnectionEstablished,
           D!ConnectionClosed, D!BootstrapFinishes
<1>6. CASE UNCHANGED resolverVars
  BY <1>6, <1>1 DEF resolverVars, membershipVars, cacheVars, discovery
<1> QED
  BY <1>2, <1>3, <1>4, <1>5, <1>6, ZenonT(30) DEF ResolverNext

\* Initially the static peers are in the table, and reported.
LEMMA RoutingInit == ResolverInit => RoutingInv
<1> SUFFICES ASSUME ResolverInit PROVE RoutingInv
  OBVIOUS
<1>1. /\ table \subseteq Static
      /\ discovery_outbox \in [1..D!Cardinality(Static) -> {D!PeerAdded(p) : p \in Static}]
  BY DEF ResolverInit, D!DiscoveryInit
<1>2. D!Cardinality(Static) \in Nat
  <2>1. IsFiniteSet(Static)
    BY DiscoveryAssumption, FS_Subset
  <2>2. Cardinality(Static) \in Nat
    BY <2>1, FS_CardinalityType
  <2> QED
    BY <2>2, SameCardinality
<1>3. \A p \in Static : D!PeerAdded(p) \in D!DiscoveryEvents /\ D!PeerAdded(p).kind = "Added"
  BY DiscoveryAssumption, ZenonT(30) DEF D!PeerAdded, D!DiscoveryEvents
<1>4. discovery_outbox \in Seq({D!PeerAdded(p) : p \in Static})
  BY <1>1, <1>2
<1>5. \A i \in 1..Len(discovery_outbox) : discovery_outbox[i] \in {D!PeerAdded(p) : p \in Static}
  BY <1>4
<1>6. discovery_outbox \in Seq(D!DiscoveryEvents)
  BY <1>3, <1>4, <1>5
<1>7. \A i \in 1..Len(discovery_outbox) : discovery_outbox[i].kind # "Removed"
  BY <1>3, <1>5
<1> QED
  BY <1>1, <1>6, <1>7 DEF RoutingInv

\* Once the events are handled, whom Kademlia knows is routable, except for
\* static peers and those pruned for their age (service.rs:332-343).
THEOREM RoutableInStep == ResolverSpec => []KnownAreRoutable
<1>1. RoutingInv => KnownAreRoutable
  BY DEF RoutingInv, KnownAreRoutable, Settled, Pending
<1> QED
  BY <1>1, RoutingInit, RoutingStep, PTL DEF ResolverSpec

\* Within the service, membership behaves as its own specification says: what
\* holds of MembershipSpec for any caller holds of the service that calls it
\* (service.rs:245-441).
THEOREM ServiceRefinesMembership == ResolverSpec => MembershipSpec
<1>1. ResolverInit => MembershipInit
  BY DEF ResolverInit
<1>2. RoutingInv /\ [ResolverNext]_resolverVars => [MembershipNext]_membershipVars
  <2> SUFFICES ASSUME RoutingInv, [ResolverNext]_resolverVars
               PROVE  MembershipNext \/ UNCHANGED membershipVars
    BY ZenonT(30)
  <2>1. CASE HandleDiscoveryEvent
    <3>1. discovery_outbox \in Seq(D!DiscoveryEvents) /\ discovery_outbox # <<>>
      BY <2>1 DEF RoutingInv, HandleDiscoveryEvent, D!EmitDiscovery
    <3>2. Head(discovery_outbox) \in D!DiscoveryEvents
      BY <3>1
    <3>3. Head(discovery_outbox).peer \in Peers
      BY <3>2 DEF D!DiscoveryEvents
    <3> QED
      BY <2>1, <3>3, ZenonT(30) DEF HandleDiscoveryEvent, MembershipNext
  <2>2. CASE HandleMembershipEvent \/ HandleRequest \/ PollMembership
    BY <2>2, ZenonT(30) DEF HandleMembershipEvent, HandleRequest, PollMembership, MembershipNext
  <2>3. CASE PollDiscovery \/ UNCHANGED resolverVars
    BY <2>3, ZenonT(30) DEF PollDiscovery, resolverVars
  <2> QED
    BY <2>1, <2>2, <2>3, ZenonT(30) DEF ResolverNext
<1> QED
  BY <1>1, <1>2, RoutingInit, RoutingStep, PTL DEF ResolverSpec, MembershipSpec

\* Under the service the cache keeps its promise, prunings by age included:
\* it shows each peer's newest record (membership.rs:424-445, 492-500).
THEOREM CacheCorrectInService == ResolverSpec => []CacheShowsNewest
<1>1. MembershipInit => CacheInv
  BY CacheInitInv DEF MembershipInit
<1>2. CacheInv /\ [MembershipNext]_membershipVars => CacheInv'
  BY MembershipCacheInv
<1>3. CacheInv => CacheShowsNewest
  BY DEF CacheInv
<1> QED
  BY <1>1, <1>2, <1>3, ServiceRefinesMembership, PTL DEF MembershipSpec

\* Under the service, all that the cache and membership promise by themselves
\* holds: routable providers, the bound, deltas, publication times, topics, and
\* events that tell the cache (service.rs:245-441).
THEOREM ServiceKeepsPromises ==
  ResolverSpec => /\ [](ProvidersAreRoutable /\ BoundedUnlessPinned /\ DeltaUpToPruning)
                  /\ [](NewPeersHearSoon /\ TopicsMatch /\ EventsReproduceCache)
                  /\ NeverPostponed
BY ServiceRefinesMembership, CacheInMembership, NewPeersHear, TopicsAlwaysMatch,
   EventsTellTheCache, PublicationNeverPostponed, PTL

\* Within the service, discovery too behaves as its own module says: the service
\* takes its events and changes nothing else of it (service.rs:320-374).
THEOREM ServiceRefinesDiscovery ==
  ResolverSpec => D!DiscoveryInit /\ [][D!NetworkStep \/ D!EmitDiscovery]_discovery
<1>1. ResolverInit => D!DiscoveryInit
  BY ZenonT(30) DEF ResolverInit
<1>2. [ResolverNext]_resolverVars => [D!NetworkStep \/ D!EmitDiscovery]_discovery
  <2> SUFFICES ASSUME [ResolverNext]_resolverVars
               PROVE  D!NetworkStep \/ D!EmitDiscovery \/ UNCHANGED discovery
    BY ZenonT(30)
  <2> QED
    BY ZenonT(30) DEF ResolverNext, HandleDiscoveryEvent, HandleMembershipEvent, HandleRequest,
       PollMembership, PollDiscovery, resolverVars
<1> QED
  BY <1>1, <1>2, PTL DEF ResolverSpec
===============================================================================
