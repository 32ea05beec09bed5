-------------------------------- MODULE Resolver -------------------------------
(***************************************************************************)
(* The part of Service (src/ipld/resolver/src/service.rs) that connects    *)
(* discovery and membership: events of one behaviour become calls of the   *)
(* other, and gossip from peers without an address triggers a lookup.      *)
(*                                                                         *)
(* One task runs all of it.  Between the moment a behaviour queues an event*)
(* and the moment the service handles it, anything else may happen.        *)
(***************************************************************************)
EXTENDS Membership

CONSTANTS Static, TargetConnections, TableSize, MaxConnections, MaxDiscoveryOutbox

VARIABLES
  kademlia, table, bootstrapping, buffer, offered, connections, num_connections,
  discovery_outbox, accepted,
  filter,    \* background_lookup_filter
  looked_up, \* history: how often a background lookup was started for each peer
  aged       \* history: the peers that were pruned for their age since they were added

discovery == <<kademlia, table, bootstrapping, buffer, offered, connections, num_connections,
               discovery_outbox, accepted>>
resolverVars == <<membershipVars, discovery, filter, looked_up, aged>>

ASSUME DiscoveryAssumption ==
  /\ Static \subseteq Peers /\ IsFiniteSet(Peers)
  /\ {TargetConnections, TableSize, MaxConnections, MaxDiscoveryOutbox} \subseteq Nat
  /\ Cardinality(Static) <= TableSize

D == INSTANCE Discovery

ResolverTypeOK ==
  /\ MembershipTypeOK
  /\ D!DiscoveryTypeOK
  /\ filter \subseteq Peers
  /\ looked_up \in [Peers -> Nat]
  /\ aged \subseteq Peers

ResolverInit ==
  /\ MembershipInit
  /\ D!DiscoveryInit
  /\ filter = {}
  /\ looked_up = [p \in Peers |-> 0]
  /\ aged = {}

-------------------------------------------------------------------------------
\* Mutant: the two events are swapped.
SwappedDiscoveryEvent ==
  /\ D!EmitDiscovery
  /\ LET ev == Head(discovery_outbox)
     IN  \/ ev.kind = "Removed" /\ MarkRoutable(ev.peer) /\ aged' = aged \ {ev.peer}
         \/ ev.kind = "Added" /\ MarkUnroutable(ev.peer) /\ UNCHANGED aged
  /\ UNCHANGED <<filter, looked_up>>

\* handle_discovery_event.
HandleDiscoveryEvent ==
  /\ D!EmitDiscovery
  /\ LET ev == Head(discovery_outbox)
     IN  \/ ev.kind = "Added" /\ MarkRoutable(ev.peer) /\ aged' = aged \ {ev.peer}
         \/ ev.kind = "Removed" /\ MarkUnroutable(ev.peer) /\ UNCHANGED aged
  /\ UNCHANGED <<filter, looked_up>>

\* background_lookup does nothing for a peer whose address is known.
BackgroundLookup(p) ==
  looked_up' = IF kademlia /\ ~ D!HasAddress(p)
               THEN [looked_up EXCEPT ![p] = @ + 1] ELSE looked_up

\* Mutant: the filter is not consulted.
AlwaysNew(p) == TRUE

\* A Bloom filter may take a peer for one it has seen, never the other way.
MayBeInFilter(p) == filter # {}
IsNewToFilter(p) == p \notin filter

\* handle_membership_event.
HandleMembershipEvent ==
  /\ Emit
  /\ LET ev == Head(outbox)
     IN  \/ /\ ev.kind = "Skipped"
            /\ IsNewToFilter(ev.peer)
            /\ BackgroundLookup(ev.peer)
            /\ filter' = filter \cup {ev.peer}
         \/ /\ ev.kind = "Skipped"
            /\ MayBeInFilter(ev.peer)
            /\ filter' = filter \cup {ev.peer}
            /\ UNCHANGED looked_up
         \/ /\ ev.kind # "Skipped"
            /\ UNCHANGED <<filter, looked_up>>
  /\ UNCHANGED <<discovery, aged>>

\* handle_request, for the requests that reach membership.
HandleRequest ==
  /\ MembershipCall
  /\ UNCHANGED <<discovery, filter, looked_up, aged>>

\* What the swarm does in the behaviours while it is polled.
PollMembership ==
  /\ \/ (Receive \/ Elapse) /\ UNCHANGED aged
     \/ Tick /\ aged' = aged \cup Outdated(Before(now, MaxAge))
  /\ UNCHANGED <<discovery, filter, looked_up>>

PollDiscovery ==
  /\ D!NetworkStep
  /\ UNCHANGED <<membershipVars, filter, looked_up, aged>>

ResolverNext ==
  \/ HandleDiscoveryEvent \/ HandleMembershipEvent \/ HandleRequest
  \/ PollMembership \/ PollDiscovery

ResolverSpec == ResolverInit /\ [][ResolverNext]_resolverVars

(***************************************************************************)
(* Properties                                                              *)
(***************************************************************************)

\* No event waits to be handled.
Settled == discovery_outbox = <<>> /\ outbox = <<>>

\* routable_peers, the "set of peers with known addresses"
\* (provider_cache.rs:35), has every peer of the routing table once the events
\* have been handled, with two exceptions: the eviction of a static peer is
\* reported although its address stays known (discovery.rs:346-350), and a
\* provider pruned for its age stays unroutable until Kademlia reports it again
\* (prune_providers, provider_cache.rs:180-198).
KnownAreRoutable == Settled => table \ (Static \cup aged) \subseteq routable

\* num_connections counts peers, not connections (discovery.rs:237-254).
ConnectionsCounted == D!ConnectionsCounted

\* The end of the bootstrap loses no peer that was buffered
\* (discovery.rs:190-206, 312-324).
BufferedPeersSurvive == D!BufferedPeersSurvive

\* No peer is looked up in the background twice ("To avoid looking up the
\* same peer over and over", service.rs:123-124, 345-357).
LookedUpOnce == \A p \in Peers : looked_up[p] <= 1
===============================================================================
