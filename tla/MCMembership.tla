----------------------------- MODULE MCMembership -----------------------------
(***************************************************************************)
(* One agent's membership behaviour with its clock and its provider cache, *)
(* with two peers and two subnets but room in the cache for one.  The two  *)
(* sides of it are explored from the same initial state, one at a time:    *)
(* what the agent provides and announces, while the peers' records name no *)
(* subnet; and what it learns of two peers, while up to two events wait.   *)
(***************************************************************************)
EXTENDS Membership, TLC

CONSTANTS p, q, s1, s2

VARIABLE side

MCTimestamps == {1, 2}
MCSymmetry == Permutations(Subnets) \cup Permutations(Peers)

MCInit == MembershipInit /\ side \in {"provides", "consumes"}

Provides ==
  /\ side = "provides"
  /\ MembershipNext
  /\ tracked' = {} /\ pinned' # Subnets /\ Len(outbox') <= 1

Consumes ==
  /\ side = "consumes"
  /\ \/ \E s \in Subnets : Pin(s) \/ Unpin(s)
     \/ \E r \in Records : r.timestamp <= now /\ ReceiveRecord(r)
     \/ \E x \in Peers : MarkRoutable(x) \/ MarkUnroutable(x)
     \/ Tick \/ Emit \/ Elapse

MCNext == (Provides \/ Consumes) /\ UNCHANGED side

MCSpec == MCInit /\ [][MCNext]_<<membershipVars, side>>
===============================================================================
