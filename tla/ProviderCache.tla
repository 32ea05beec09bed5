----------------------------- MODULE ProviderCache ----------------------------
(***************************************************************************)
(* SubnetProviderCache (src/ipld/resolver/src/provider_cache.rs): which    *)
(* peers can serve content of which subnets, learned from the provider     *)
(* records they gossip.  Records arrive in any order, repeatedly, and from *)
(* peers that become routable and unroutable in between.                   *)
(***************************************************************************)
EXTENDS Integers, FiniteSets

CONSTANTS
  Peers,
  Subnets,
  Timestamps,  \* the timestamps, in seconds, of records and cutoffs
  MaxSubnets   \* max_subnets

ASSUME SubnetsAssumption == IsFiniteSet(Subnets)
ASSUME TimestampsAssumption == Timestamps \subseteq Nat
ASSUME MaxSubnetsAssumption == MaxSubnets \in Nat

\* ProviderRecord: a snapshot of the subnets a peer provides, not a delta.
Records == [peer : Peers, subnets : SUBSET Subnets, timestamp : Timestamps]

NoRecord == [subnets |-> {}, timestamp |-> 0]
Snapshots == [subnets : SUBSET Subnets, timestamp : Nat]

\* What add_provider returned, and what the peer provided before the call.
NoCall == [peer |-> "none"]
Deltas == [peer : Peers, updated : BOOLEAN, is_new : BOOLEAN,
           added : SUBSET Subnets, removed : SUBSET Subnets,
           before : SUBSET Subnets, pruned : SUBSET Subnets]

VARIABLES
  pinned,      \* pinned_subnets
  routable,    \* routable_peers
  tracked,     \* the keys of subnet_providers
  providers,   \* the pairs <<peer, subnet>> of subnet_providers
  known,       \* the keys of peer_timestamps
  timestamp,   \* their values; 0 for a peer that is not known
  delta,       \* the result of the latest call, if it was an add_provider
  newest,      \* history: each routable peer's newest record
  lost         \* history: the pairs that were pruned with their subnet and are not back

cacheVars == <<pinned, routable, tracked, providers, known, timestamp, delta, newest, lost>>

CacheTypeOK ==
  /\ pinned \subseteq Subnets
  /\ routable \subseteq Peers
  /\ tracked \subseteq Subnets
  /\ providers \subseteq Peers \X tracked
  /\ known \subseteq Peers
  /\ timestamp \in [Peers -> Nat]
  /\ delta \in {NoCall} \cup Deltas
  /\ newest \in [Peers -> Snapshots]
  /\ lost \subseteq Peers \X Subnets

CacheInit ==
  /\ pinned = {}
  /\ routable = {}
  /\ tracked = {}
  /\ providers = {}
  /\ known = {}
  /\ timestamp = [p \in Peers |-> 0]
  /\ delta = NoCall
  /\ newest = [p \in Peers |-> NoRecord]
  /\ lost = {}

-------------------------------------------------------------------------------
\* providers_of_subnet, and its inverse.
ProvidersOf(s) == {p \in Peers : <<p, s>> \in providers}
SubnetsOf(p) == {s \in Subnets : <<p, s>> \in providers}

PinSubnet(s) ==
  /\ pinned' = pinned \cup {s}
  /\ delta' = NoCall
  /\ UNCHANGED <<routable, tracked, providers, known, timestamp, newest, lost>>

UnpinSubnet(s) ==
  /\ pinned' = pinned \ {s}
  /\ delta' = NoCall
  /\ UNCHANGED <<routable, tracked, providers, known, timestamp, newest, lost>>

SetRoutable(p) ==
  /\ routable' = routable \cup {p}
  /\ delta' = NoCall
  /\ UNCHANGED <<pinned, tracked, providers, known, timestamp, newest, lost>>

\* Mutant: the peer's age is forgotten, its provisions are not.
ForgetAge(gone) ==
  /\ routable' = routable \ gone
  /\ known' = known \ gone
  /\ timestamp' = [p \in Peers |-> IF p \in gone THEN 0 ELSE timestamp[p]]
  /\ newest' = [p \in Peers |-> IF p \in gone THEN NoRecord ELSE newest[p]]
  /\ lost' = {e \in lost : e[1] \notin gone}
  /\ delta' = NoCall
  /\ UNCHANGED <<pinned, tracked, providers>>

\* set_unroutable for each of a set of peers.
Forget(gone) ==
  /\ routable' = routable \ gone
  /\ known' = known \ gone
  /\ timestamp' = [p \in Peers |-> IF p \in gone THEN 0 ELSE timestamp[p]]
  /\ providers' = {e \in providers : e[1] \notin gone}
  /\ newest' = [p \in Peers |-> IF p \in gone THEN NoRecord ELSE newest[p]]
  /\ lost' = {e \in lost : e[1] \notin gone}
  /\ delta' = NoCall
  /\ UNCHANGED <<pinned, tracked>>

\* Subnets stay tracked when they lose their last provider.
SetUnroutable(p) == Forget({p})

\* The peers prune_providers removes and returns.
Outdated(cutoff) == {p \in known : timestamp[p] < cutoff}

PruneProviders(cutoff) == Forget(Outdated(cutoff))

\* The pairs after a newer record: dropped from the subnets it no longer
\* lists, added to those it does.
WithRecord(r) == {e \in providers : e[1] # r.peer} \cup ({r.peer} \X r.subnets)

\* Mutant: pinned subnets are pruned like the others.
PruningsOfAny(ts, ps) ==
  LET size(s) == Cardinality({e \in ps : e[2] = s})
      excess == IF Cardinality(ts) > MaxSubnets THEN Cardinality(ts) - MaxSubnets ELSE 0
  IN  {gone \in SUBSET ts : /\ Cardinality(gone) = excess
                            /\ \A s \in gone, t \in ts \ gone : size(s) <= size(t)}

\* The sets of subnets prune_subnets may remove from the subnets ts with the
\* providers ps: the unpinned ones with the fewest providers, as many as are
\* too many.  Ties are decided by the order of a HashMap.
Prunings(ts, ps) ==
  LET size(s) == Cardinality({e \in ps : e[2] = s})
      excess == IF Cardinality(ts) > MaxSubnets THEN Cardinality(ts) - MaxSubnets ELSE 0
      unpinned == ts \ pinned
  IN  {gone \in SUBSET unpinned :
         /\ IF Cardinality(unpinned) <= excess THEN gone = unpinned
            ELSE Cardinality(gone) = excess
         /\ \A s \in gone, t \in unpinned \ gone : size(s) <= size(t)}

\* Mutant: a record as old as the one that is known replaces it.
IsAsNew(r) == timestamp[r.peer] <= r.timestamp

\* The check that orders records.
IsNewer(r) == timestamp[r.peer] < r.timestamp

\* Mutant: pruned subnets stay among the added ones.
AddedBeforePruning(r, gone) == r.subnets \ SubnetsOf(r.peer)

\* delta.added, without the subnets that did not survive the pruning.
Added(r, gone) == (r.subnets \ SubnetsOf(r.peer)) \ gone

\* add_provider with a record newer than what is known of the peer.
AddNewer(r) ==
  /\ r.peer \in routable
  /\ IsNewer(r)
  /\ known' = known \cup {r.peer}
  /\ timestamp' = [timestamp EXCEPT ![r.peer] = r.timestamp]
  /\ newest' = [newest EXCEPT ![r.peer] =
                  IF @.timestamp < r.timestamp
                  THEN [subnets |-> r.subnets, timestamp |-> r.timestamp] ELSE @]
  /\ \E gone \in Prunings(tracked \cup r.subnets, WithRecord(r)) :
       /\ tracked' = (tracked \cup r.subnets) \ gone
       /\ providers' = {e \in WithRecord(r) : e[2] \notin gone}
       /\ lost' = (lost \cup {e \in WithRecord(r) : e[2] \in gone}) \ providers'
       /\ delta' = [peer |-> r.peer, updated |-> TRUE, is_new |-> r.peer \notin known,
                    added |-> Added(r, gone),
                    removed |-> SubnetsOf(r.peer) \ r.subnets,
                    before |-> SubnetsOf(r.peer), pruned |-> gone]
  /\ UNCHANGED <<pinned, routable>>

\* A record that is not newer leaves at most a default timestamp behind.
AddStale(r) ==
  /\ r.peer \in routable
  /\ ~ IsNewer(r)
  /\ known' = known \cup {r.peer}
  /\ delta' = [peer |-> r.peer, updated |-> FALSE, is_new |-> r.peer \notin known,
               added |-> {}, removed |-> {}, before |-> SubnetsOf(r.peer), pruned |-> {}]
  /\ UNCHANGED <<pinned, routable, tracked, providers, timestamp, newest, lost>>

\* A record of a peer that is not routable is skipped.
AddSkipped(r) ==
  /\ r.peer \notin routable
  /\ delta' = NoCall
  /\ UNCHANGED <<pinned, routable, tracked, providers, known, timestamp, newest, lost>>

AddProvider(r) == AddNewer(r) \/ AddStale(r) \/ AddSkipped(r)

CacheNext ==
  \/ \E s \in Subnets : PinSubnet(s) \/ UnpinSubnet(s)
  \/ \E p \in Peers : SetRoutable(p) \/ SetUnroutable(p)
  \/ \E t \in Timestamps : PruneProviders(t)
  \/ \E r \in Records : AddProvider(r)

CacheSpec == CacheInit /\ [][CacheNext]_cacheVars

(***************************************************************************)
(* Properties                                                              *)
(***************************************************************************)

\* "Only such peers can be added to the cache" (provider_cache.rs:35): over
\* any sequence of calls a provider is routable and its age is known, so
\* that prune_providers can reach it.
ProvidersAreRoutable ==
  /\ known \subseteq routable
  /\ \A e \in providers : e[1] \in known

\* However records are reordered and repeated, the cache shows each routable
\* peer with the subnets of its newest record, except for those subnets that
\* were pruned since that record was added (provider_cache.rs:114-140).
CacheShowsNewest ==
  \A p \in Peers :
    /\ timestamp[p] = newest[p].timestamp
    /\ SubnetsOf(p) = {s \in newest[p].subnets : <<p, s>> \notin lost}

\* After an update the cache is within max_subnets unless pinned subnets
\* alone exceed it (provider_cache.rs:146-175), and no pinned subnet lost
\* its providers.
BoundedUnlessPinned ==
  (delta # NoCall /\ delta.updated) =>
    /\ Cardinality(tracked) <= MaxSubnets \/ tracked \subseteq pinned
    /\ delta.pruned \cap pinned = {}

\* A consumer of the deltas sees every change except those that pruning made.
DeltaUpToPruning ==
  delta # NoCall =>
    /\ delta.added = SubnetsOf(delta.peer) \ delta.before
    /\ delta.removed \subseteq delta.before \ SubnetsOf(delta.peer)
    /\ (delta.before \ SubnetsOf(delta.peer)) \ delta.removed \subseteq delta.pruned
===============================================================================
