------------------------------- MODULE Membership ------------------------------
(***************************************************************************)
(* membership::Behaviour (src/ipld/resolver/src/behaviour/membership.rs):  *)
(* an agent gossips the subnets it provides, periodically and early when   *)
(* it meets a new peer, and keeps the records of others in the cache.      *)
(*                                                                         *)
(* Gossipsub is external: a publication may fail (nobody to send to, or a  *)
(* duplicate), so may a change of subscription, and records of others      *)
(* arrive late, repeatedly, in any order or not at all.                    *)
(*                                                                         *)
(* Time is counted in seconds, the granularity of Timestamp.               *)
(***************************************************************************)
EXTENDS ProviderCache, Sequences

CONSTANTS
  Period,       \* publish_interval
  MinBetween,   \* min_time_between_publish
  MaxAge,       \* max_provider_age
  FaultKinds,   \* the gossipsub calls that may fail: "publish", "subscribe"
  MaxTime,      \* bound on the clock
  MaxOutbox     \* bound on the events that wait to be emitted

ASSUME MembershipAssumption ==
  /\ Period \in Nat \ {0} /\ MinBetween \in Nat /\ MaxAge \in Nat
  /\ MaxTime \in Nat /\ MaxOutbox \in Nat
  /\ FaultKinds \subseteq {"publish", "subscribe"}

\* Events that the behaviour emits.
Updated(p, added, removed) ==
  [kind |-> "Updated", peer |-> p, added |-> added, removed |-> removed]
Removed(p) == [kind |-> "Removed", peer |-> p]
Skipped(p) == [kind |-> "Skipped", peer |-> p]
ReceivedVote(s) == [kind |-> "ReceivedVote", subnet |-> s]
ReceivedPreemptive(s) == [kind |-> "ReceivedPreemptive", subnet |-> s]

MembershipEvents ==
  [kind : {"Updated"}, peer : Peers, added : SUBSET Subnets, removed : SUBSET Subnets]
    \cup [kind : {"Removed", "Skipped"}, peer : Peers]
    \cup [kind : {"ReceivedVote", "ReceivedPreemptive"}, subnet : Subnets]

VARIABLES
  now,           \* the clock
  timer,         \* when publish_interval ticks next
  last_publish,  \* last_publish_timestamp
  next_publish,  \* next_publish_timestamp
  subnet_ids,    \* the subnets this agent provides
  voting,        \* voting_topics, by subnet
  preemptive,    \* preemptive_topics, by subnet
  outbox,        \* events to return when polled
  due,           \* history: when a new peer has to have heard of us; 0 if none waits
  failed,        \* history: whether the latest publication failed
  view           \* history: what a consumer of the events takes the cache to be

publishVars == <<timer, last_publish, next_publish, due, failed>>
topicVars == <<subnet_ids, voting, preemptive>>
membershipVars == <<cacheVars, now, publishVars, topicVars, outbox, view>>

MembershipTypeOK ==
  /\ CacheTypeOK
  /\ {now, timer, last_publish, next_publish, due} \subseteq Nat
  /\ failed \in BOOLEAN
  /\ {subnet_ids, voting, preemptive} \subseteq SUBSET Subnets
  /\ outbox \in Seq(MembershipEvents)
  /\ view \in [known : SUBSET Peers, pairs : SUBSET (Peers \X Subnets)]

\* new.  The clock starts past the default timestamp.
MembershipInit ==
  /\ CacheInit
  /\ now = 1
  /\ timer = now + Period
  /\ last_publish = 0
  /\ next_publish = now + Period
  /\ due = 0 /\ failed = FALSE
  /\ subnet_ids = {} /\ voting = {} /\ preemptive = {}
  /\ outbox = <<>>
  /\ view = [known |-> {}, pairs |-> {}]

-------------------------------------------------------------------------------
\* Timestamp - Duration saturates.
Before(t, d) == IF t > d THEN t - d ELSE 0

MayFail(kind) == kind \in FaultKinds

\* publish_membership; tick is the timer as the caller left it.
PublishSucceeds ==
  /\ last_publish' = now
  /\ next_publish' = now + Period
  /\ timer' = now + Period
  /\ due' = 0 /\ failed' = FALSE

PublishFails(tick) ==
  /\ MayFail("publish")
  /\ timer' = tick
  /\ due' = 0 /\ failed' = TRUE
  /\ UNCHANGED <<last_publish, next_publish>>

PublishMembership(tick) == PublishSucceeds \/ PublishFails(tick)

RecentlyPublished == last_publish > Before(now, MinBetween)

\* Mutant: the check for an imminent publication is missing.
NeverSoon == FALSE

PublishingSoon == next_publish <= now + MinBetween

\* Mutant: the timestamp is brought forward, the interval is not replaced.
AnnounceOnly ==
  /\ IF subnet_ids = {} \/ RecentlyPublished \/ PublishingSoon
     THEN UNCHANGED next_publish
     ELSE next_publish' = now + MinBetween
  /\ due' = IF subnet_ids = {} \/ RecentlyPublished \/ due # 0 THEN due ELSE now + MinBetween
  /\ UNCHANGED <<timer, last_publish, failed>>

\* publish_for_new_peer: bring the next publication forward.
PublishForNewPeer ==
  /\ IF subnet_ids = {} \/ RecentlyPublished \/ PublishingSoon
     THEN UNCHANGED <<timer, next_publish>>
     ELSE timer' = now + MinBetween /\ next_publish' = now + MinBetween
  /\ due' = IF subnet_ids = {} \/ RecentlyPublished \/ due # 0 THEN due ELSE now + MinBetween
  /\ UNCHANGED <<last_publish, failed>>

\* The topics of a subnet.
VotingSubscribe(s) == voting' = voting \cup {s}
VotingUnsubscribe(s) == voting' = voting \ {s}
PreemptiveSubscribe(s) == preemptive' = preemptive \cup {s}
PreemptiveUnsubscribe(s) == preemptive' = preemptive \ {s}

\* Mutant: the new list is stored before the subscriptions are made.
SetProvidedFailsLate(new) ==
  /\ MayFail("subscribe")
  /\ \E part \in SUBSET (new \ subnet_ids) :
       part # new \ subnet_ids /\ voting' = (voting \ (subnet_ids \ new)) \cup part
  /\ subnet_ids' = new
  /\ UNCHANGED publishVars

\* An error of a subscription leaves the function early, with the list of
\* provided subnets emptied and part of the topics changed.
SetProvidedFails(new) ==
  /\ MayFail("subscribe")
  /\ \/ \E part \in SUBSET (subnet_ids \ new) :
          part # subnet_ids \ new /\ voting' = voting \ part
     \/ \E part \in SUBSET (new \ subnet_ids) :
          part # new \ subnet_ids /\ voting' = (voting \ (subnet_ids \ new)) \cup part
  /\ subnet_ids' = {}
  /\ UNCHANGED publishVars

SetProvidedSubnets(new) ==
  /\ \/ /\ voting' = (voting \ (subnet_ids \ new)) \cup (new \ subnet_ids)
        /\ subnet_ids' = new
        /\ PublishMembership(timer)
     \/ SetProvidedFails(new)
  /\ UNCHANGED <<cacheVars, now, preemptive, outbox, view>>

AddProvidedSubnet(s) ==
  /\ s \notin subnet_ids
  /\ VotingSubscribe(s)
  /\ subnet_ids' = subnet_ids \cup {s}
  /\ PublishMembership(timer)
  /\ UNCHANGED <<cacheVars, now, preemptive, outbox, view>>

RemoveProvidedSubnet(s) ==
  /\ s \in subnet_ids
  /\ VotingUnsubscribe(s)
  /\ subnet_ids' = subnet_ids \ {s}
  /\ PublishMembership(timer)
  /\ UNCHANGED <<cacheVars, now, preemptive, outbox, view>>

\* pin_subnet and unpin_subnet.  When the subscription fails nothing changes.
Pin(s) ==
  /\ PreemptiveSubscribe(s)
  /\ PinSubnet(s)
  /\ UNCHANGED <<now, publishVars, subnet_ids, voting, outbox, view>>

Unpin(s) ==
  /\ PreemptiveUnsubscribe(s)
  /\ UnpinSubnet(s)
  /\ UNCHANGED <<now, publishVars, subnet_ids, voting, outbox, view>>

\* set_routable and set_unroutable, called for the events of discovery.
MarkRoutable(p) ==
  /\ SetRoutable(p)
  /\ PublishForNewPeer
  /\ UNCHANGED <<now, topicVars, outbox, view>>

MarkUnroutable(p) ==
  /\ Len(outbox) < MaxOutbox
  /\ SetUnroutable(p)
  /\ outbox' = Append(outbox, Removed(p))
  /\ UNCHANGED <<now, publishVars, topicVars, view>>

\* handle_provider_record.
ReceiveRecord(r) ==
  /\ Len(outbox) < MaxOutbox
  /\ AddProvider(r)
  /\ \/ /\ r.peer \notin routable
        /\ outbox' = Append(outbox, Skipped(r.peer))
        /\ UNCHANGED publishVars
     \/ /\ r.peer \in routable
        /\ ~ delta'.is_new
        /\ outbox' = IF delta'.added = {} /\ delta'.removed = {} THEN outbox
                     ELSE Append(outbox, Updated(r.peer, delta'.added, delta'.removed))
        /\ UNCHANGED publishVars
     \/ /\ r.peer \in routable
        /\ delta'.is_new
        /\ outbox' = Append(outbox, Updated(r.peer, delta'.added, delta'.removed))
        /\ PublishForNewPeer
  /\ UNCHANGED <<now, topicVars, view>>

\* handle_message on the other topics; what is not subscribed to is dropped.
ReceiveVote(s) ==
  /\ Len(outbox) < MaxOutbox
  /\ s \in voting
  /\ outbox' = Append(outbox, ReceivedVote(s))
  /\ UNCHANGED <<cacheVars, now, publishVars, topicVars, view>>

ReceivePreemptive(s) ==
  /\ Len(outbox) < MaxOutbox
  /\ s \in preemptive
  /\ outbox' = Append(outbox, ReceivedPreemptive(s))
  /\ UNCHANGED <<cacheVars, now, publishVars, topicVars, view>>

\* handle_subscriber: a peer subscribed to the membership topic.
Subscriber ==
  /\ PublishForNewPeer
  /\ UNCHANGED <<cacheVars, now, topicVars, outbox, view>>

\* Mutant: peers are pruned silently.
NoRemovedEvents(gone) == {<<>>}

\* The events prune_membership appends, in some order.
RemovedEvents(gone) ==
  {es \in [1..Cardinality(gone) -> {Removed(p) : p \in gone}] :
     \A p \in gone : \E i \in DOMAIN es : es[i] = Removed(p)}

\* prune_membership: whose record is too old is removed and reported.
PruneMembership ==
  LET gone == Outdated(Before(now, MaxAge))
  IN  Forget(gone) /\ outbox' \in RemovedEvents(gone)

\* poll, when the outbox is empty and the interval ticks: publish, then prune.
Tick ==
  /\ outbox = <<>>
  /\ timer <= now
  /\ PublishMembership(timer + Period)
  /\ PruneMembership
  /\ UNCHANGED <<now, topicVars, view>>

Applied(ev) ==
  CASE ev.kind = "Updated" ->
         [known |-> view.known \cup {ev.peer},
          pairs |-> {e \in view.pairs : e[1] # ev.peer \/ e[2] \notin ev.removed}
                      \cup ({ev.peer} \X ev.added)]
    [] ev.kind = "Removed" ->
         [known |-> view.known \ {ev.peer}, pairs |-> {e \in view.pairs : e[1] # ev.peer}]
    [] OTHER -> view

\* poll emits its own events first, one at a time.
Emit ==
  /\ outbox # <<>>
  /\ outbox' = Tail(outbox)
  /\ view' = Applied(Head(outbox))
  /\ UNCHANGED <<cacheVars, now, publishVars, topicVars>>

\* The interval wakes the swarm: a tick is served within its second.
Elapse ==
  /\ now < MaxTime /\ now < timer
  /\ now' = now + 1
  /\ UNCHANGED <<cacheVars, publishVars, topicVars, outbox, view>>

\* The calls of the service, and what gossipsub delivers.
MembershipCall ==
  \/ \E new \in SUBSET Subnets : SetProvidedSubnets(new)
  \/ \E s \in Subnets : AddProvidedSubnet(s) \/ RemoveProvidedSubnet(s) \/ Pin(s) \/ Unpin(s)

Receive ==
  \/ \E s \in Subnets : ReceiveVote(s) \/ ReceivePreemptive(s)
  \/ \E r \in Records : r.timestamp <= now /\ ReceiveRecord(r)
  \/ Subscriber

MembershipNext ==
  \/ MembershipCall \/ Receive
  \/ \E p \in Peers : MarkRoutable(p) \/ MarkUnroutable(p)
  \/ Tick \/ Emit \/ Elapse

MembershipSpec == MembershipInit /\ [][MembershipNext]_membershipVars

(***************************************************************************)
(* Properties                                                              *)
(***************************************************************************)

\* "Publish our provider record when we encounter a new peer, unless we have
\* recently done so" (membership.rs:464): with something to announce, a
\* publication is attempted within min_time_between_publish.  After one that
\* failed next_publish_timestamp stays in the past, which counts as soon, and
\* the new peer waits for the interval (membership.rs:305-324, 479).
NewPeersHearSoon == due # 0 /\ ~failed => now <= due

\* A new peer may bring the next publication forward, never put it off
\* ("don't let new joiners delay it forever", membership.rs:480): only an
\* attempt to publish, which ends every wait, moves the interval back.
NeverPostponed == [][timer' > timer => due' = 0]_membershipVars

\* What is provided is subscribed to, even after a subscription failed
\* halfway (membership.rs:247-283), and pinned subnets are exactly the ones
\* whose pre-emptive data is received (membership.rs:285-302).
TopicsMatch ==
  /\ subnet_ids \subseteq voting
  /\ "subscribe" \notin FaultKinds => voting = subnet_ids
  /\ preemptive = pinned

\* Once the outbox is drained, the events have told a consumer which peers are
\* providers and everything they provide, however the cache changed while they
\* waited; what it takes for provided and is not was pruned with its subnet,
\* which no event reports (membership.rs:424-445, 492-500, 534-537).
EventsReproduceCache ==
  outbox = <<>> =>
    /\ view.known = known
    /\ providers \subseteq view.pairs
    /\ view.pairs \subseteq providers \cup lost
===============================================================================
