---------------------------- MODULE TopDownManager ----------------------------
(***************************************************************************)
(* manage_topdown_checkpoints and submit_topdown_checkpoint                *)
(* (src/src/manager/topdown.rs) for one (child, parent) pair, run by       *)
(* several agents that share no state but the two chains.                  *)
(*                                                                         *)
(* The chains are external.  The agent reads state at a tip set, which is  *)
(* a snapshot: what is read later at the same tip set is what held when    *)
(* the head was read.  Neither chain is reorganised; the code submits from *)
(* the current head and assumes as much.                                   *)
(***************************************************************************)
EXTENDS Naturals, Sequences

CONSTANTS
  Agents,
  Accounts,
  AccountsOf,    \* the accounts of each agent's config, in their order
  Validators,    \* the accounts in the subnet actor's validator set
  Quorums,       \* the sets of voters that execute a checkpoint
  Period,        \* top_down_check_period
  GenesisEpoch,  \* last_voting_executed before the first checkpoint
  FaultKinds,    \* which faults the environment may produce
  MaxHeight,     \* bound: height of the parent chain
  MaxMsgs,       \* bound: top-down messages per parent block
  MaxFaults      \* bound: faults in a behaviour

ASSUME AccountsAssumption == /\ AccountsOf \in [Agents -> Seq(Accounts)]
                             /\ Validators \subseteq Accounts
                             /\ Quorums \subseteq SUBSET Accounts
ASSUME PeriodAssumption  == Period \in Nat \ {0}
ASSUME GenesisAssumption == GenesisEpoch \in Nat
ASSUME BoundsAssumption  == MaxHeight \in Nat /\ MaxMsgs \in Nat /\ MaxFaults \in Nat

VARIABLES
  height, committed,   \* the parent chain, see CheckpointDelivery
  gw,                  \* the child's gateway actor
  pool,                \* each account's pending messages in the child
  manager,             \* the agents' top-down managers
  faults,              \* faults so far
  executed             \* history: the checkpoints executed in the child

chainVars == <<height, committed>>
vars == <<height, committed, gw, pool, manager, faults, executed>>

Checkpoints == [epoch : Nat, lo : Nat, hi : Nat]
Votes == [account : Accounts, checkpoint : Checkpoints]
\* The child's gateway: the fields an agent reads, and the votes on the next epoch.
Gateways == [initialized : BOOLEAN, last_voting_executed : Nat,
             applied_topdown_nonce : Nat, votes : SUBSET Votes]
\* What a manager takes from one reading of the child's gateway state.
Snapshots == [epoch : Nat, nonce : Nat]

Busy == {"init", "parent", "child", "account", "push", "commit",
         "catchup_parent", "catchup_child"}
Waiting == {"wait", "error_wait"}

Managers == [pc : Busy \cup Waiting \cup {"stopped", "failed"},
             tip : Nat, outer : Snapshots, cur : Snapshots, pos : Nat \ {0}]

TypeOK ==
  /\ height \in Nat
  /\ committed \in [0..height -> Nat]
  /\ gw \in Gateways
  /\ pool \in [Accounts -> Seq(Checkpoints)]
  /\ manager \in [Agents -> Managers]
  /\ faults \in 0..MaxFaults
  /\ executed \in Seq(Checkpoints)

NewManager ==
  [pc |-> "init", tip |-> 0, outer |-> [epoch |-> 0, nonce |-> 0],
   cur |-> [epoch |-> 0, nonce |-> 0], pos |-> 1]

Init ==
  /\ height = 0
  /\ committed = [h \in {0} |-> 0]
  /\ gw = [initialized |-> FALSE, last_voting_executed |-> GenesisEpoch,
           applied_topdown_nonce |-> 0, votes |-> {}]
  /\ pool = [acc \in Accounts |-> <<>>]
  /\ manager = [a \in Agents |-> NewManager]
  /\ faults = 0
  /\ executed = <<>>

-------------------------------------------------------------------------------
(* The chains: external *)

ParentBlock(n) ==
  /\ height < MaxHeight
  /\ height' = height + 1
  /\ committed' = [h \in 0..height' |-> IF h = height' THEN committed[height] + n
                                        ELSE committed[h]]
  /\ UNCHANGED <<gw, pool, manager, faults, executed>>

InitializeChild ==
  /\ ~gw.initialized
  /\ gw' = [gw EXCEPT !.initialized = TRUE]
  /\ UNCHANGED <<height, committed, pool, manager, faults, executed>>

\* The gateway takes one vote per validator on the next epoch.
Acceptable(acc, c) ==
  /\ acc \in Validators
  /\ c.epoch = gw.last_voting_executed + Period
  /\ \A v \in gw.votes : v.account # acc

VotersOf(c, votes) == {v.account : v \in {w \in votes : w.checkpoint = c}}

\* A block of the child includes the oldest pending message of an account.
\* The gateway applies whatever the quorum agreed on and counts it.
IncludeVote(acc) ==
  /\ pool[acc] # <<>>
  /\ pool' = [pool EXCEPT ![acc] = Tail(@)]
  /\ LET c == Head(pool[acc])
         votes == gw.votes \cup {[account |-> acc, checkpoint |-> c]}
     IN  \/ /\ ~Acceptable(acc, c)
            /\ UNCHANGED <<gw, executed>>
         \/ /\ Acceptable(acc, c)
            /\ VotersOf(c, votes) \notin Quorums
            /\ gw' = [gw EXCEPT !.votes = votes]
            /\ UNCHANGED executed
         \/ /\ Acceptable(acc, c)
            /\ VotersOf(c, votes) \in Quorums
            /\ gw' = [gw EXCEPT !.last_voting_executed = c.epoch,
                                !.applied_topdown_nonce = @ + (c.hi - c.lo),
                                !.votes = {}]
            /\ executed' = Append(executed, c)
  /\ UNCHANGED <<height, committed, manager, faults>>

-------------------------------------------------------------------------------
(* What the Lotus client answers: the head of the parent, and how many messages *)
(* for the child the parent had committed at a tip set.                         *)

ChainHead == height
TopDownMsgs(tip) == committed[tip]

-------------------------------------------------------------------------------
(* A manager *)

\* Mutant: the applied nonce is incremented to get the first one to send.
ReadGatewayNonceAfter ==
  [epoch |-> gw.last_voting_executed + Period, nonce |-> gw.applied_topdown_nonce + 1]

\* The due epoch and the first nonce to send, from the child's gateway state.
ReadGateway ==
  [epoch |-> gw.last_voting_executed + Period, nonce |-> gw.applied_topdown_nonce]

\* The account the loop is at.
Account(a) == AccountsOf[a][manager[a].pos]

Goto(a, pc) == manager' = [manager EXCEPT ![a].pc = pc]

\* Reads the checkpoint period once.
StartManager(a) ==
  /\ manager[a].pc = "init"
  /\ Goto(a, "parent")
  /\ UNCHANGED <<height, committed, gw, pool, faults, executed>>

ReadParentHead(a) ==
  /\ manager[a].pc = "parent"
  /\ manager' = [manager EXCEPT ![a].pc = "child", ![a].tip = ChainHead]
  /\ UNCHANGED <<height, committed, gw, pool, faults, executed>>

\* Mutant: a checkpoint is due only after its epoch.
ReadChildStateLate(a) ==
  /\ manager[a].pc = "child"
  /\ IF gw.initialized /\ manager[a].tip > ReadGateway.epoch
       THEN manager' = [manager EXCEPT ![a].pc = "account", ![a].outer = ReadGateway,
                                       ![a].pos = 1]
       ELSE Goto(a, "wait")
  /\ UNCHANGED <<height, committed, gw, pool, faults, executed>>

\* Child head and gateway state; if a checkpoint is due, the validator set
\* at the parent tip set, and the loop over the accounts starts.
ReadChildState(a) ==
  /\ manager[a].pc = "child"
  /\ IF gw.initialized /\ manager[a].tip >= ReadGateway.epoch
       THEN manager' = [manager EXCEPT ![a].pc = "account", ![a].outer = ReadGateway,
                                       ![a].pos = 1]
       ELSE Goto(a, "wait")
  /\ UNCHANGED <<height, committed, gw, pool, faults, executed>>

\* for account in child.accounts: every validator starts from the epoch and
\* the tip sets read before the loop, however long the others took.
NextAccount(a) ==
  /\ manager[a].pc = "account"
  /\ IF manager[a].pos > Len(AccountsOf[a]) THEN Goto(a, "wait")
     ELSE IF Account(a) \in Validators
       THEN manager' = [manager EXCEPT ![a].pc = "push", ![a].cur = manager[a].outer]
       ELSE manager' = [manager EXCEPT ![a].pos = @ + 1]
  /\ UNCHANGED <<height, committed, gw, pool, faults, executed>>

\* Mutants: the messages at the head of the parent, and at the tip set
\* before the submission epoch.
CheckpointAtHead(snap) ==
  [epoch |-> snap.epoch, lo |-> snap.nonce, hi |-> TopDownMsgs(height)]
CheckpointBefore(snap) ==
  [epoch |-> snap.epoch, lo |-> snap.nonce, hi |-> TopDownMsgs(snap.epoch - 1)]

\* submit_topdown_checkpoint's content: the messages from the applied nonce
\* that the parent had committed at the submission epoch.
CheckpointFor(snap) ==
  [epoch |-> snap.epoch, lo |-> snap.nonce, hi |-> TopDownMsgs(snap.epoch)]

\* mpool_push_message.  Lotus estimates the gas by executing the message on
\* its head, so a vote the gateway would refuse there is an error here.
PushCheckpoint(a) ==
  /\ manager[a].pc = "push"
  /\ LET acc == Account(a)
         c == CheckpointFor(manager[a].cur)
     IN  IF Acceptable(acc, c)
           THEN pool' = [pool EXCEPT ![acc] = Append(@, c)] /\ Goto(a, "commit")
           ELSE Goto(a, "error_wait") /\ UNCHANGED pool
  /\ UNCHANGED <<height, committed, gw, faults, executed>>

\* state_wait_msg returns once the message is included.  The receipt's exit
\* code is not looked at.
Committed(a) ==
  /\ manager[a].pc = "commit"
  /\ pool[Account(a)] = <<>>
  /\ Goto(a, "catchup_parent")
  /\ UNCHANGED <<height, committed, gw, pool, faults, executed>>

\* The inner loop: fresh heads, and the same account submits again as long
\* as a checkpoint is due.
CatchUpParentHead(a) ==
  /\ manager[a].pc = "catchup_parent"
  /\ manager' = [manager EXCEPT ![a].pc = "catchup_child", ![a].tip = ChainHead]
  /\ UNCHANGED <<height, committed, gw, pool, faults, executed>>

CatchUpChildState(a) ==
  /\ manager[a].pc = "catchup_child"
  /\ manager' = IF manager[a].tip >= ReadGateway.epoch
                  THEN [manager EXCEPT ![a].pc = "push", ![a].cur = ReadGateway]
                  ELSE [manager EXCEPT ![a].pc = "account", ![a].pos = @ + 1]
  /\ UNCHANGED <<height, committed, gw, pool, faults, executed>>

\* wait_next_iteration, sleep branch.  After an error both the `continue`
\* of the outer and the `break` of the inner loop go on to the next account.
SleepElapsed(a) ==
  /\ \/ manager[a].pc = "wait" /\ Goto(a, "parent")
     \/ /\ manager[a].pc = "error_wait"
        /\ manager' = [manager EXCEPT ![a].pc = "account", ![a].pos = @ + 1]
  /\ UNCHANGED <<height, committed, gw, pool, faults, executed>>

\* wait_next_iteration, stop branch: the manager returns Ok.  A stop that is
\* notified at any other time passes unnoticed.
StopNotified(a) ==
  /\ manager[a].pc \in Waiting
  /\ Goto(a, "stopped")
  /\ UNCHANGED <<height, committed, gw, pool, faults, executed>>

\* The next config reload spawns the manager anew.
Respawn(a) ==
  /\ manager[a].pc \in {"stopped", "failed"}
  /\ manager' = [manager EXCEPT ![a] = NewManager]
  /\ UNCHANGED <<height, committed, gw, pool, faults, executed>>

-------------------------------------------------------------------------------
(* Faults *)

Fault(kind) == kind \in FaultKinds /\ faults < MaxFaults /\ faults' = faults + 1

\* An RPC of submit_topdown_checkpoint fails before anything is pushed, or
\* state_wait_msg runs into the 30 s timeout of the JSON-RPC client.
SubmitFails(a) ==
  /\ manager[a].pc \in {"push", "commit"}
  /\ Fault("submit")
  /\ Goto(a, "error_wait")
  /\ UNCHANGED <<height, committed, gw, pool, executed>>

\* The push succeeds, its answer is lost.
PushAnswerLost(a) ==
  /\ manager[a].pc = "push"
  /\ Fault("lost")
  /\ LET acc == Account(a)
         c == CheckpointFor(manager[a].cur)
     IN  Acceptable(acc, c) /\ pool' = [pool EXCEPT ![acc] = Append(@, c)]
  /\ Goto(a, "error_wait")
  /\ UNCHANGED <<height, committed, gw, executed>>

\* A failing read outside submit_topdown_checkpoint ends the manager (`?`).
ReadFails(a) ==
  /\ manager[a].pc \in {"init", "parent", "child", "catchup_parent", "catchup_child"}
  /\ Fault("read")
  /\ Goto(a, "failed")
  /\ UNCHANGED <<height, committed, gw, pool, executed>>

\* The daemon crashes and restarts: nothing of a manager is persisted.
Restart(a) ==
  /\ manager[a].pc # "init"
  /\ Fault("restart")
  /\ manager' = [manager EXCEPT ![a] = NewManager]
  /\ UNCHANGED <<height, committed, gw, pool, executed>>

-------------------------------------------------------------------------------
ManagerStep(a) ==
  \/ StartManager(a) \/ ReadParentHead(a) \/ ReadChildState(a) \/ NextAccount(a)
  \/ PushCheckpoint(a) \/ Committed(a) \/ CatchUpParentHead(a) \/ CatchUpChildState(a)
  \/ SleepElapsed(a)

FaultStep(a) == SubmitFails(a) \/ PushAnswerLost(a) \/ ReadFails(a) \/ Restart(a)

Next ==
  \/ \E n \in 0..MaxMsgs : ParentBlock(n)
  \/ InitializeChild
  \/ \E acc \in Accounts : IncludeVote(acc)
  \/ \E a \in Agents : ManagerStep(a) \/ FaultStep(a)
  \/ \E a \in Agents : "stop" \in FaultKinds /\ (StopNotified(a) \/ Respawn(a))

Spec == Init /\ [][Next]_vars

\* tokio runs every manager, its RPCs and sleeps end, and the child's blocks
\* include pending messages.
FairSpec ==
  /\ Spec
  /\ \A a \in Agents : WF_vars(ManagerStep(a))
  /\ \A acc \in Accounts : WF_vars(IncludeVote(acc))

(***************************************************************************)
(* Properties                                                              *)
(***************************************************************************)

Pending(acc) == {pool[acc][i] : i \in 1..Len(pool[acc])}
Submitted == (UNION {Pending(acc) : acc \in Accounts}) \cup {v.checkpoint : v \in gw.votes}

\* "This ensures that all validators will provide deterministically the
\* top-down messages" (topdown.rs:239): two checkpoints for one epoch, by
\* whichever agents and at whatever time, carry the same messages; so does
\* a late one and the checkpoint that was executed for its epoch.
SameEpochSameMessages ==
  \A c, d \in Submitted \cup {executed[i] : i \in 1..Len(executed)} :
    c.epoch = d.epoch => c = d

\* Every message of the parent is executed in the child once, in order: each
\* checkpoint continues where the one before it ended.
InOrderExactlyOnce ==
  /\ \A i \in 1..Len(executed) :
       /\ executed[i].lo = (IF i = 1 THEN 0 ELSE executed[i-1].hi)
       /\ executed[i].lo <= executed[i].hi
  /\ gw.applied_topdown_nonce = (IF executed = <<>> THEN 0 ELSE executed[Len(executed)].hi)

\* The executed checkpoints are those CheckpointDelivery allows: one period
\* after the other, never ahead of the parent, with all messages committed.
Delivery == INSTANCE CheckpointDelivery
ImplementsDelivery == Delivery!DeliverySpec

\* Every checkpoint that is due in an initialized child is executed, whatever
\* submissions fail on the way, unless a manager has ended: nothing starts it
\* again before the next reload of the config (checkpoint.rs:73-86).
DueIsExecuted ==
  \A h \in 1..MaxHeight :
    (gw.initialized /\ height = h /\ gw.last_voting_executed + Period <= h)
      ~> \/ gw.last_voting_executed + Period > h
         \/ \E a \in Agents : manager[a].pc \in {"stopped", "failed"}
===============================================================================
