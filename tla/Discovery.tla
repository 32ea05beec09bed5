------------------------------- MODULE Discovery -------------------------------
(***************************************************************************)
(* discovery::Behaviour (src/ipld/resolver/src/behaviour/discovery.rs):    *)
(* which peers have a known address, told to the service as Added and      *)
(* Removed events.                                                         *)
(*                                                                         *)
(* Kademlia is external.  It learns of peers from the addresses it is      *)
(* given, from connections and from its queries, all of which can happen   *)
(* at any time, so random and background lookups need no action of their   *)
(* own.  Its buckets are one table of TableSize entries.                   *)
(***************************************************************************)
EXTENDS Integers, Sequences, FiniteSets

CONSTANTS
  Peers,
  Static,              \* static_addresses
  TargetConnections,   \* target_connections
  TableSize,           \* entries the routing table has room for
  MaxConnections,      \* bound on the connections with one peer
  MaxDiscoveryOutbox   \* bound on the events that wait to be emitted

VARIABLES
  kademlia,          \* enable_kademlia
  table,             \* the peers in Kademlia's routing table
  bootstrapping,     \* whether there is a bootstrap_buffer
  buffer,            \* the peers in it
  offered,           \* the peers whose identified addresses Kademlia was given
  connections,       \* how many connections there are with each peer
  num_connections,
  discovery_outbox,
  accepted           \* history: the peers that were put into the buffer

discoveryVars ==
  <<kademlia, table, bootstrapping, buffer, offered, connections, num_connections,
    discovery_outbox, accepted>>

PeerAdded(p) == [kind |-> "Added", peer |-> p]
PeerRemoved(p) == [kind |-> "Removed", peer |-> p]

DiscoveryEvents == [kind : {"Added", "Removed"}, peer : Peers]

DiscoveryTypeOK ==
  /\ {kademlia, bootstrapping} \subseteq BOOLEAN
  /\ {table, buffer, offered, accepted} \subseteq SUBSET Peers
  /\ connections \in [Peers -> Nat]
  /\ num_connections \in Nat
  /\ discovery_outbox \in Seq(DiscoveryEvents)

\* new.  Static peers are reported as routable with Kademlia, which is given
\* their addresses, and without it.
DiscoveryInit ==
  /\ kademlia \in BOOLEAN
  /\ table = IF kademlia THEN Static ELSE {}
  /\ bootstrapping = (kademlia /\ Static # {})
  /\ buffer = {} /\ offered = {} /\ accepted = {}
  /\ connections = [p \in Peers |-> 0]
  /\ num_connections = 0
  /\ discovery_outbox \in {es \in [1..Cardinality(Static) -> {PeerAdded(p) : p \in Static}] :
                             \A p \in Static : \E i \in DOMAIN es : es[i] = PeerAdded(p)}

-------------------------------------------------------------------------------
\* addresses_of_peer is not empty.
HasAddress(p) == p \in Static \/ p \in table

\* The eviction of a peer is reported only if it is_static.
RemovedFor(old) == IF old \in Static THEN <<PeerRemoved(old)>> ELSE <<>>

\* Kademlia has room for a peer: RoutingUpdated without an old peer.
KademliaInserts(p) ==
  /\ kademlia /\ p \notin table
  /\ Cardinality(table) < TableSize
  /\ Len(discovery_outbox) < MaxDiscoveryOutbox
  /\ table' = table \cup {p}
  /\ discovery_outbox' = Append(discovery_outbox, PeerAdded(p))
  /\ UNCHANGED <<kademlia, bootstrapping, buffer, offered, connections, num_connections, accepted>>

\* A pending peer replaces one that is not connected: RoutingUpdated with an
\* old peer.
KademliaReplaces(p, old) ==
  /\ kademlia /\ p \notin table /\ old \in table
  /\ connections[old] = 0
  /\ Cardinality(table) >= TableSize
  /\ Len(discovery_outbox) < MaxDiscoveryOutbox
  /\ table' = (table \ {old}) \cup {p}
  /\ discovery_outbox' = Append(discovery_outbox \o RemovedFor(old), PeerAdded(p))
  /\ UNCHANGED <<kademlia, bootstrapping, buffer, offered, connections, num_connections, accepted>>

\* A known peer has a new address (RoutingUpdated), or an unknown one waits
\* for room in the table (PendingRoutablePeer).
KademliaReports(p) ==
  /\ kademlia
  /\ p \in table \/ Cardinality(table) >= TableSize
  /\ Len(discovery_outbox) < MaxDiscoveryOutbox
  /\ discovery_outbox' = Append(discovery_outbox, PeerAdded(p))
  /\ UNCHANGED <<kademlia, table, bootstrapping, buffer, offered, connections, num_connections,
                 accepted>>

\* add_identified, for a peer that speaks the protocol.
Identified(p) ==
  /\ \/ /\ bootstrapping
        /\ Cardinality(buffer) < TargetConnections /\ p \notin buffer
        /\ buffer' = buffer \cup {p}
        /\ accepted' = accepted \cup {p}
        /\ UNCHANGED offered
     \/ /\ ~ bootstrapping
        /\ offered' = IF kademlia THEN offered \cup {p} ELSE offered
        /\ UNCHANGED <<buffer, accepted>>
  /\ UNCHANGED <<kademlia, table, bootstrapping, connections, num_connections, discovery_outbox>>

\* Mutant: the buffer is dropped.
BootstrapForgets ==
  /\ bootstrapping
  /\ bootstrapping' = FALSE
  /\ buffer' = {}
  /\ UNCHANGED <<kademlia, table, offered, connections, num_connections, discovery_outbox, accepted>>

\* The bootstrap query made its last step: the buffer is taken and its peers
\* are added.
BootstrapFinishes ==
  /\ bootstrapping
  /\ bootstrapping' = FALSE
  /\ offered' = offered \cup buffer
  /\ buffer' = {}
  /\ UNCHANGED <<kademlia, table, connections, num_connections, discovery_outbox, accepted>>

ConnectionEstablished(p) ==
  /\ connections[p] < MaxConnections
  /\ connections' = [connections EXCEPT ![p] = @ + 1]
  /\ num_connections' = IF connections[p] = 0 THEN num_connections + 1 ELSE num_connections
  /\ UNCHANGED <<kademlia, table, bootstrapping, buffer, offered, discovery_outbox, accepted>>

\* Mutant: every closed connection counts.
ClosedCounted(p) ==
  /\ connections[p] > 0
  /\ connections' = [connections EXCEPT ![p] = @ - 1]
  /\ num_connections' = num_connections - 1
  /\ UNCHANGED <<kademlia, table, bootstrapping, buffer, offered, discovery_outbox, accepted>>

ConnectionClosed(p) ==
  /\ connections[p] > 0
  /\ connections' = [connections EXCEPT ![p] = @ - 1]
  /\ num_connections' = IF connections[p] = 1 THEN num_connections - 1 ELSE num_connections
  /\ UNCHANGED <<kademlia, table, bootstrapping, buffer, offered, discovery_outbox, accepted>>

\* poll emits its own events first.
EmitDiscovery ==
  /\ discovery_outbox # <<>>
  /\ discovery_outbox' = Tail(discovery_outbox)
  /\ UNCHANGED <<kademlia, table, bootstrapping, buffer, offered, connections, num_connections,
                 accepted>>

\* What happens to the behaviour without the service.
NetworkStep ==
  \/ \E p \in Peers :
       \/ KademliaInserts(p) \/ KademliaReports(p)
       \/ \E old \in Peers : KademliaReplaces(p, old)
       \/ Identified(p)
       \/ ConnectionEstablished(p) \/ ConnectionClosed(p)
  \/ BootstrapFinishes

(***************************************************************************)
(* Properties                                                              *)
(***************************************************************************)

\* num_connections counts peers, however many connections come and go with
\* each (discovery.rs:237-254); as a usize it would wrap below zero.
ConnectionsCounted == num_connections = Cardinality({p \in Peers : connections[p] > 0})

\* No peer accepted into the bootstrap buffer is lost when the bootstrap ends,
\* the buffer stays within target_connections, and Kademlia is given nothing
\* before that (discovery.rs:190-206, 312-324).
BufferedPeersSurvive ==
  /\ accepted \subseteq buffer \cup offered
  /\ Cardinality(accepted) <= TargetConnections
  /\ bootstrapping => offered = {}
===============================================================================
