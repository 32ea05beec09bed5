----------------------------- MODULE ResolveQueries ----------------------------
(***************************************************************************)
(* Client::resolve and the query bookkeeping of Service                    *)
(* (src/ipld/resolver/src/service.rs, client.rs): a request to resolve     *)
(* content of a subnet becomes a chain of Bitswap queries over batches of  *)
(* the subnet's providers, until one succeeds or the providers run out.    *)
(*                                                                         *)
(* Bitswap is external: it completes every query it was given, with either *)
(* result, in any order.  A query ID is one that no running query has.     *)
(* What providers_of_subnet and is_connected return when a request is      *)
(* handled is arbitrary (ProviderCache and Discovery model them).          *)
(***************************************************************************)
EXTENDS Integers, Sequences, FiniteSets

CONSTANTS
  Peers,
  Requests,          \* the calls of Client::resolve
  QueryIds,
  MaxPeersPerQuery   \* max_peers_per_query

ASSUME QueriesAssumption ==
  /\ IsFiniteSet(Peers)
  /\ MaxPeersPerQuery \in Nat
  /\ "none" \notin Requests

Outcomes == {"ok", "error", "NoKnownPeers"}
None == "none"

VARIABLES
  mailbox,    \* the requests in request_rx, in order
  running,    \* the queries Bitswap works on
  completed,  \* content events that wait for the service: <<query, result>>
  queries,    \* the request each registered query belongs to
  fallback,   \* fallback_peer_ids of each request
  closed,     \* the requests whose listener has gone
  answers,    \* the results sent for each request, in order
  asked,      \* history: the peers each request was tried with, in order
  known,      \* history: the providers each request started with
  near        \* history: those of them that were connected

queryVars == <<mailbox, running, completed, queries, fallback, closed, answers, asked, known, near>>

Started(r) == known[r] # {} \/ answers[r] # <<>>

QueriesTypeOK ==
  /\ mailbox \in Seq(Requests)
  /\ running \subseteq QueryIds
  /\ completed \in Seq(QueryIds \X {"ok", "error"})
  /\ queries \in [QueryIds -> Requests \cup {None}]
  /\ {fallback, asked} \subseteq [Requests -> Seq(Peers)]
  /\ closed \subseteq Requests
  /\ answers \in [Requests -> Seq(Outcomes)]
  /\ {known, near} \subseteq [Requests -> SUBSET Peers]

QueriesInit ==
  /\ mailbox = <<>> /\ completed = <<>>
  /\ running = {} /\ closed = {}
  /\ queries = [q \in QueryIds |-> None]
  /\ fallback = [r \in Requests |-> <<>>]
  /\ answers = [r \in Requests |-> <<>>]
  /\ asked = [r \in Requests |-> <<>>]
  /\ known = [r \in Requests |-> {}]
  /\ near = [r \in Requests |-> {}]

-------------------------------------------------------------------------------
\* Mutant: the two halves of the partition are swapped.
OrdersRestFirst(peers, connected) ==
  {o \in [1..Cardinality(peers) -> peers] :
     /\ \A p \in peers : \E i \in DOMAIN o : o[i] = p
     /\ \A i, j \in DOMAIN o : i < j /\ o[i] \in connected => o[j] \in connected}

\* The orders in which peers may be asked: shuffled, connected ones first.
Orders(peers, connected) ==
  {o \in [1..Cardinality(peers) -> peers] :
     /\ \A p \in peers : \E i \in DOMAIN o : o[i] = p
     /\ \A i, j \in DOMAIN o : i # j => o[i] # o[j]
     /\ \A i, j \in DOMAIN o : i < j /\ o[j] \in connected => o[i] \in connected}

\* Mutant: the first peer of the rest is skipped.
LaterSkipping(peers) == SubSeq(peers, MaxPeersPerQuery + 2, Len(peers))

\* split_peers_for_query.
BatchSize(peers) == IF MaxPeersPerQuery < Len(peers) THEN MaxPeersPerQuery ELSE Len(peers)
Now(peers) == SubSeq(peers, 1, BatchSize(peers))
Later(peers) == SubSeq(peers, BatchSize(peers) + 1, Len(peers))

\* IDs that no query has.
FreshIds == {q \in QueryIds : q \notin running /\ queries[q] = None
                                /\ \A i \in DOMAIN completed : completed[i][1] # q}

\* content.resolve(peers), and the query is registered.
Ask(q, r, peers) ==
  /\ running' = running \cup {q}
  /\ fallback' = [fallback EXCEPT ![r] = Later(peers)]
  /\ asked' = [asked EXCEPT ![r] = @ \o Now(peers)]

\* send_resolve_result: a closed listener drops the result.
SendResolveResult(r, result) ==
  answers' = IF r \in closed THEN answers ELSE [answers EXCEPT ![r] = Append(@, result)]

\* Client::resolve sends a request, once.
Resolve(r) ==
  /\ ~ Started(r) /\ r \notin closed
  /\ \A i \in DOMAIN mailbox : mailbox[i] # r
  /\ mailbox' = Append(mailbox, r)
  /\ UNCHANGED <<running, completed, queries, fallback, closed, answers, asked, known, near>>

\* The caller stops waiting (its future is dropped).
Abandon(r) ==
  /\ r \notin closed
  /\ Started(r) \/ \E i \in DOMAIN mailbox : mailbox[i] = r
  /\ closed' = closed \cup {r}
  /\ UNCHANGED <<mailbox, running, completed, queries, fallback, answers, asked, known, near>>

\* start_query, when nobody is known to serve the subnet ...
StartWithoutPeers ==
  /\ mailbox # <<>>
  /\ mailbox' = Tail(mailbox)
  /\ SendResolveResult(Head(mailbox), "NoKnownPeers")
  /\ UNCHANGED <<running, completed, queries, fallback, closed, asked, known, near>>

\* ... and when there are peers.
StartQuery(q, peers, connected) ==
  /\ mailbox # <<>> /\ peers # {} /\ connected \subseteq peers
  /\ q \in FreshIds
  /\ LET r == Head(mailbox)
     IN  /\ \E o \in Orders(peers, connected) : Ask(q, r, o)
         /\ queries' = [queries EXCEPT ![q] = r]
         /\ known' = [known EXCEPT ![r] = peers]
         /\ near' = [near EXCEPT ![r] = connected]
  /\ mailbox' = Tail(mailbox)
  /\ UNCHANGED <<completed, closed, answers>>

\* Bitswap ends a query; the behaviour passes the event on.
Complete(q, result) ==
  /\ q \in running
  /\ running' = running \ {q}
  /\ completed' = Append(completed, <<q, result>>)
  /\ UNCHANGED <<mailbox, queries, fallback, closed, answers, asked, known, near>>

\* resolve_query answers: the content is here, or nobody is left to ask.
AnswerQuery ==
  /\ completed # <<>>
  /\ LET q == Head(completed)[1]
         result == Head(completed)[2]
         r == queries[q]
     IN  /\ r # None
         /\ result = "ok" \/ fallback[r] = <<>>
         /\ queries' = [queries EXCEPT ![q] = None]
         /\ SendResolveResult(r, result)
  /\ completed' = Tail(completed)
  /\ UNCHANGED <<mailbox, running, fallback, closed, asked, known, near>>

\* Mutant: an error is answered while a fallback query is started, too.
FallBackLoudly(next) ==
  /\ completed # <<>>
  /\ LET q == Head(completed)[1]
         r == queries[q]
     IN  /\ r # None
         /\ Head(completed)[2] = "error" /\ fallback[r] # <<>>
         /\ next \in FreshIds \cup {q}
         /\ Ask(next, r, fallback[r])
         /\ queries' = [queries EXCEPT ![q] = None, ![next] = r]
         /\ SendResolveResult(r, "error")
  /\ completed' = Tail(completed)
  /\ UNCHANGED <<mailbox, closed, known, near>>

\* Mutant: the fallback query is not registered.
FallBackUnregistered(next) ==
  /\ completed # <<>>
  /\ LET q == Head(completed)[1]
         r == queries[q]
     IN  /\ r # None
         /\ Head(completed)[2] = "error" /\ fallback[r] # <<>>
         /\ next \in FreshIds \cup {q}
         /\ Ask(next, r, fallback[r])
         /\ queries' = [queries EXCEPT ![q] = None]
  /\ completed' = Tail(completed)
  /\ UNCHANGED <<mailbox, closed, answers, known, near>>

\* resolve_query tries the next batch.
FallBack(next) ==
  /\ completed # <<>>
  /\ LET q == Head(completed)[1]
         r == queries[q]
     IN  /\ r # None
         /\ Head(completed)[2] = "error" /\ fallback[r] # <<>>
         /\ next \in FreshIds \cup {q}
         /\ Ask(next, r, fallback[r])
         /\ queries' = [[queries EXCEPT ![q] = None] EXCEPT ![next] = r]
  /\ completed' = Tail(completed)
  /\ UNCHANGED <<mailbox, closed, answers, known, near>>

HandleRequest ==
  \/ StartWithoutPeers
  \/ \E q \in FreshIds, peers, connected \in SUBSET Peers : StartQuery(q, peers, connected)

HandleContentEvent == AnswerQuery \/ \E next \in QueryIds : FallBack(next)

CompleteSome == \E q \in QueryIds, result \in {"ok", "error"} : Complete(q, result)

QueriesNext ==
  \/ \E r \in Requests : Resolve(r) \/ Abandon(r)
  \/ HandleRequest \/ HandleContentEvent \/ CompleteSome

QueriesSpec == QueriesInit /\ [][QueriesNext]_queryVars

\* The service's task takes every request and event, and Bitswap ends queries.
FairQueriesSpec ==
  /\ QueriesSpec
  /\ WF_queryVars(HandleRequest) /\ WF_queryVars(HandleContentEvent)
  /\ \A q \in QueryIds : WF_queryVars(\E result \in {"ok", "error"} : Complete(q, result))

(***************************************************************************)
(* Properties                                                              *)
(***************************************************************************)

\* A request that was handled is either worked on by exactly one registered
\* query or done; it is answered once, never while it is worked on, and no
\* completed query is unknown (the "query ID not found" branch of
\* handle_content_event is dead).
OneQueryOrOneAnswer ==
  /\ \A q, other \in QueryIds : queries[q] = queries[other] => q = other \/ queries[q] = None
  /\ \A q \in QueryIds : queries[q] # None => answers[queries[q]] = <<>>
  /\ \A r \in Requests :
       /\ Len(answers[r]) <= 1
       /\ Started(r) /\ r \notin closed => answers[r] # <<>> \/ \E q \in QueryIds : queries[q] = r
  /\ \A i \in DOMAIN completed : queries[completed[i][1]] # None

\* An error is only reported after every provider known at the start was
\* asked, and no provider is asked twice (resolve_query, service.rs:493-524).
AskedAllBeforeError ==
  \A r \in Requests :
    /\ \A i, j \in DOMAIN asked[r] : i # j => asked[r][i] # asked[r][j]
    /\ \A i \in DOMAIN answers[r] :
         answers[r][i] = "error" => {asked[r][k] : k \in DOMAIN asked[r]} = known[r]

\* Peers that were connected when the request started are asked before the
\* others ("Prioritize peers we already have an established connection with",
\* service.rs:467).
ConnectedFirst ==
  \A r \in Requests : \A i, j \in DOMAIN asked[r] :
    i < j /\ asked[r][j] \in near[r] => asked[r][i] \in near[r]

\* Client::resolve "await[s] its completion, then return[s] the result"
\* (client.rs:59-60), whatever the number of fallbacks.
EveryRequestAnswered ==
  \A r \in Requests : (\E i \in DOMAIN mailbox : mailbox[i] = r) ~> (answers[r] # <<>> \/ r \in closed)
===============================================================================
