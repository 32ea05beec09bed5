---------------------------- MODULE BottomUpManager ---------------------------
(***************************************************************************)
(* manage_bottomup_checkpoints and submit_checkpoint                       *)
(* (src/src/manager/bottomup.rs) for one (child, parent) pair, run by      *)
(* several agents that share no state but the two chains.                  *)
(*                                                                         *)
(* The chains are external and never reorganised.  Unlike its top-down     *)
(* counterpart, submit_checkpoint reads the checkpoint template and the    *)
(* previous checkpoint at whatever the heads are when it asks, so every    *)
(* read is a step of its own.                                              *)
(***************************************************************************)
EXTENDS Naturals, Sequences

CONSTANTS
  Agents,
  Accounts,
  AccountsOf,    \* the accounts of each agent's config, in their order
  Validators,    \* the accounts in the subnet actor's validator set
  Quorums,       \* the sets of voters that execute a checkpoint
  ProofCounts,   \* whether the subnet actor tells votes apart by their proof
  Period,        \* bottom_up_check_period
  FaultKinds,    \* which faults the environment may produce
  MaxHeight,     \* bound: height of the child chain
  MaxMsgs,       \* bound: bottom-up messages per child block
  MaxFaults      \* bound: faults in a behaviour

ASSUME AccountsAssumption == /\ AccountsOf \in [Agents -> Seq(Accounts)]
                             /\ Validators \subseteq Accounts
                             /\ Quorums \subseteq SUBSET Accounts
ASSUME PeriodAssumption == Period \in Nat \ {0}
ASSUME BoundsAssumption == MaxHeight \in Nat /\ MaxMsgs \in Nat /\ MaxFaults \in Nat
ASSUME ProofCountsAssumption == ProofCounts \in BOOLEAN

VARIABLES
  height, released,    \* the child: released[h] bottom-up messages up to height h
  initialized,         \* the child's gateway is initialized
  sa,                  \* the subnet actor and gateway of the parent
  pool,                \* each account's pending messages in the parent
  manager,             \* the agents' bottom-up managers
  faults,              \* faults so far
  executed             \* history: the checkpoints executed in the parent

vars == <<height, released, initialized, sa, pool, manager, faults, executed>>

\* Epoch 0 is the genesis: no checkpoint has it, and as prev_check it is the
\* default TCid of a first checkpoint.  proof is the height of a tip set.
Checkpoints == [epoch : Nat, lo : Nat, hi : Nat, prev : Nat, proof : Nat]
Votes == [account : Accounts, checkpoint : Checkpoints]

\* The subnet actor: the voting state an agent reads, the checkpoint executed
\* last, and the votes on the next epoch.
SubnetActors == [last_voting_executed : Nat, prev : Nat, votes : SUBSET Votes]

Submitting == {"template", "prev", "push", "commit"}
Reading == {"init", "child", "parent", "catchup_child", "catchup_parent"}
Waiting == {"wait", "error_wait"}

\* tip: curr_epoch; outer and proof: submission_epoch and child_tip_set as
\* read before the loop over the accounts; cur: the checkpoint in the making.
Managers == [pc : Submitting \cup Reading \cup Waiting \cup {"account", "stopped", "failed"},
             tip : Nat, up : BOOLEAN, outer : Nat, proof : Nat, cur : Checkpoints,
             pos : Nat \ {0}]

TypeOK ==
  /\ height \in Nat
  /\ released \in [0..height -> Nat]
  /\ initialized \in BOOLEAN
  /\ sa \in SubnetActors
  /\ pool \in [Accounts -> Seq(Checkpoints)]
  /\ manager \in [Agents -> Managers]
  /\ faults \in 0..MaxFaults
  /\ executed \in Seq(Checkpoints)

NoCheckpoint == [epoch |-> 0, lo |-> 0, hi |-> 0, prev |-> 0, proof |-> 0]

NewManager == [pc |-> "init", tip |-> 0, up |-> FALSE, outer |-> 0, proof |-> 0,
               cur |-> NoCheckpoint, pos |-> 1]

Init ==
  /\ height = 0
  /\ released = [h \in {0} |-> 0]
  /\ initialized = FALSE
  /\ sa = [last_voting_executed |-> 0, prev |-> 0, votes |-> {}]
  /\ pool = [acc \in Accounts |-> <<>>]
  /\ manager = [a \in Agents |-> NewManager]
  /\ faults = 0
  /\ executed = <<>>

-------------------------------------------------------------------------------
(* The chains: external *)

ChildBlock(n) ==
  /\ height < MaxHeight
  /\ height' = height + 1
  /\ released' = [h \in 0..height' |-> IF h = height' THEN released[height] + n
                                       ELSE released[h]]
  /\ UNCHANGED <<initialized, sa, pool, manager, faults, executed>>

InitializeChild ==
  /\ ~initialized
  /\ initialized' = TRUE
  /\ UNCHANGED <<height, released, sa, pool, manager, faults, executed>>

\* The child's gateway collects the messages of a period in the template of
\* the epoch that ends it: what is there before that epoch may be too little.
TemplateEnd(epoch) == released[IF height < epoch THEN height ELSE epoch]

\* The subnet actor takes one vote per validator on the next epoch.
Acceptable(acc, c) ==
  /\ acc \in Validators
  /\ c.epoch = sa.last_voting_executed + Period
  /\ \A v \in sa.votes : v.account # acc

SameVote(c, d) ==
  /\ [c EXCEPT !.proof = 0] = [d EXCEPT !.proof = 0]
  /\ ProofCounts => c.proof = d.proof

VotersOf(c, votes) == {v.account : v \in {w \in votes : SameVote(w.checkpoint, c)}}

\* A block of the parent includes the oldest pending message of an account.
\* With a quorum the actor commits the checkpoint to the parent's gateway.
IncludeVote(acc) ==
  /\ pool[acc] # <<>>
  /\ pool' = [pool EXCEPT ![acc] = Tail(@)]
  /\ LET c == Head(pool[acc])
         votes == sa.votes \cup {[account |-> acc, checkpoint |-> c]}
     IN  \/ /\ ~Acceptable(acc, c)
            /\ UNCHANGED <<sa, executed>>
         \/ /\ Acceptable(acc, c)
            /\ VotersOf(c, votes) \notin Quorums
            /\ sa' = [sa EXCEPT !.votes = votes]
            /\ UNCHANGED executed
         \/ /\ Acceptable(acc, c)
            /\ VotersOf(c, votes) \in Quorums
            /\ sa' = [last_voting_executed |-> c.epoch, prev |-> c.epoch, votes |-> {}]
            /\ executed' = Append(executed, c)
  /\ UNCHANGED <<height, released, initialized, manager, faults>>

-------------------------------------------------------------------------------
(* What the Lotus client answers: the head of the child, the template of an    *)
(* epoch in the child, and the last checkpoint of the child in the parent.      *)

ChainHead == height
CheckpointTemplate(epoch) == [lo |-> TemplateEnd(epoch - Period), hi |-> TemplateEnd(epoch)]
PrevCheckpointForChild == sa.prev

-------------------------------------------------------------------------------
(* A manager *)

worldVars == <<height, released, initialized, sa, executed>>

SubmissionEpoch == sa.last_voting_executed + Period

\* The account the loop is at.
Account(a) == AccountsOf[a][manager[a].pos]

Goto(a, pc) == manager' = [manager EXCEPT ![a].pc = pc]

\* The locals of an iteration and of a submission go when it ends.
EndIteration(a, pc) == manager' = [manager EXCEPT ![a] = [NewManager EXCEPT !.pc = pc]]
EndSubmission(a, pc) == manager' = [manager EXCEPT ![a].pc = pc, ![a].cur = NoCheckpoint]

\* Reads the checkpoint period once.
StartManager(a) ==
  /\ manager[a].pc = "init"
  /\ Goto(a, "child")
  /\ UNCHANGED <<worldVars, pool, faults>>

ReadChildHead(a) ==
  /\ manager[a].pc = "child"
  /\ manager' = [manager EXCEPT ![a].pc = "parent", ![a].tip = ChainHead, ![a].up = initialized]
  /\ UNCHANGED <<worldVars, pool, faults>>

\* Mutants: a checkpoint is due only after its epoch; the epoch is not compared
\* with the head of the child.
ReadParentStateLate(a) ==
  /\ manager[a].pc = "parent"
  /\ IF manager[a].up /\ manager[a].tip > SubmissionEpoch
       THEN manager' = [manager EXCEPT ![a].pc = "account", ![a].outer = SubmissionEpoch,
                                       ![a].proof = manager[a].tip, ![a].pos = 1]
       ELSE EndIteration(a, "wait")
  /\ UNCHANGED <<worldVars, pool, faults>>
ReadParentStateNotDue(a) ==
  /\ manager[a].pc = "parent"
  /\ IF manager[a].up
       THEN manager' = [manager EXCEPT ![a].pc = "account", ![a].outer = SubmissionEpoch,
                                       ![a].proof = manager[a].tip, ![a].pos = 1]
       ELSE EndIteration(a, "wait")
  /\ UNCHANGED <<worldVars, pool, faults>>

\* Parent head and subnet actor state; if a checkpoint is due the loop over
\* the accounts starts, with the tip set of the child head just read.
ReadParentState(a) ==
  /\ manager[a].pc = "parent"
  /\ IF manager[a].up /\ manager[a].tip >= SubmissionEpoch
       THEN manager' = [manager EXCEPT ![a].pc = "account", ![a].outer = SubmissionEpoch,
                                       ![a].proof = manager[a].tip, ![a].pos = 1]
       ELSE EndIteration(a, "wait")
  /\ UNCHANGED <<worldVars, pool, faults>>

\* BottomUpCheckpoint::new for an epoch; the proof is set before the push.
NewCheckpoint(epoch) == [NoCheckpoint EXCEPT !.epoch = epoch]

NextAccount(a) ==
  /\ manager[a].pc = "account"
  /\ IF manager[a].pos > Len(AccountsOf[a]) THEN EndIteration(a, "wait")
     ELSE IF Account(a) \in Validators
       THEN manager' = [manager EXCEPT ![a].pc = "template",
                                       ![a].cur = NewCheckpoint(manager[a].outer)]
       ELSE manager' = [manager EXCEPT ![a].pos = @ + 1]
  /\ UNCHANGED <<worldVars, pool, faults>>

GetTemplate(a) ==
  /\ manager[a].pc = "template"
  /\ LET template == CheckpointTemplate(manager[a].cur.epoch)
     IN  manager' = [manager EXCEPT ![a].pc = "prev", ![a].cur.lo = template.lo,
                                    ![a].cur.hi = template.hi]
  /\ UNCHANGED <<worldVars, pool, faults>>

\* Mutant: prev_check keeps its default.
NoPrevCheckpoint(a) ==
  /\ manager[a].pc = "prev"
  /\ Goto(a, "push")
  /\ UNCHANGED <<worldVars, pool, faults>>

GetPrevCheckpoint(a) ==
  /\ manager[a].pc = "prev"
  /\ manager' = [manager EXCEPT ![a].pc = "push", ![a].cur.prev = PrevCheckpointForChild]
  /\ UNCHANGED <<worldVars, pool, faults>>

WithProof(a) == [manager[a].cur EXCEPT !.proof = manager[a].proof]

\* mpool_push_message.  Lotus estimates the gas by executing the message on
\* its head, so a vote the subnet actor would refuse there is an error here.
PushCheckpoint(a) ==
  /\ manager[a].pc = "push"
  /\ IF Acceptable(Account(a), WithProof(a))
       THEN /\ pool' = [pool EXCEPT ![Account(a)] = Append(@, WithProof(a))]
            /\ EndSubmission(a, "commit")
       ELSE EndSubmission(a, "error_wait") /\ UNCHANGED pool
  /\ UNCHANGED <<worldVars, faults>>

\* state_wait_msg returns once the message is included.  The receipt's exit
\* code is not looked at.
Committed(a) ==
  /\ manager[a].pc = "commit"
  /\ pool[Account(a)] = <<>>
  /\ Goto(a, "catchup_child")
  /\ UNCHANGED <<worldVars, pool, faults>>

\* The inner loop reads both heads again, but child_tip_set, which becomes
\* the proof, stays the one of the outer loop.
CatchUpChildHead(a) ==
  /\ manager[a].pc = "catchup_child"
  /\ manager' = [manager EXCEPT ![a].pc = "catchup_parent", ![a].tip = ChainHead]
  /\ UNCHANGED <<worldVars, pool, faults>>

\* Mutant: catches up with epochs the child has not reached.
CatchUpNotDue(a) ==
  /\ manager[a].pc = "catchup_parent"
  /\ manager' = [manager EXCEPT ![a].pc = "template", ![a].cur = NewCheckpoint(SubmissionEpoch)]
  /\ UNCHANGED <<worldVars, pool, faults>>

CatchUpParentState(a) ==
  /\ manager[a].pc = "catchup_parent"
  /\ manager' = IF manager[a].tip >= SubmissionEpoch
                  THEN [manager EXCEPT ![a].pc = "template",
                                       ![a].cur = NewCheckpoint(SubmissionEpoch)]
                  ELSE [manager EXCEPT ![a].pc = "account", ![a].pos = @ + 1]
  /\ UNCHANGED <<worldVars, pool, faults>>

\* wait_next_iteration, sleep branch.  After an error both the `continue`
\* of the outer and the `break` of the inner loop go on to the next account.
SleepElapsed(a) ==
  /\ \/ manager[a].pc = "wait" /\ Goto(a, "child")
     \/ /\ manager[a].pc = "error_wait"
        /\ manager' = [manager EXCEPT ![a].pc = "account", ![a].pos = @ + 1]
  /\ UNCHANGED <<worldVars, pool, faults>>

\* wait_next_iteration, stop branch: the manager returns Ok.
StopNotified(a) ==
  /\ manager[a].pc \in Waiting
  /\ EndIteration(a, "stopped")
  /\ UNCHANGED <<worldVars, pool, faults>>

\* The next config reload spawns the manager anew.
Respawn(a) ==
  /\ manager[a].pc \in {"stopped", "failed"}
  /\ manager' = [manager EXCEPT ![a] = NewManager]
  /\ UNCHANGED <<worldVars, pool, faults>>

-------------------------------------------------------------------------------
(* Faults *)

Fault(kind) == kind \in FaultKinds /\ faults < MaxFaults /\ faults' = faults + 1

\* An RPC of submit_checkpoint fails before anything is pushed, or
\* state_wait_msg runs into the 30 s timeout of the JSON-RPC client.
SubmitFails(a) ==
  /\ manager[a].pc \in Submitting
  /\ Fault("submit")
  /\ EndSubmission(a, "error_wait")
  /\ UNCHANGED <<worldVars, pool>>

\* The push succeeds, its answer is lost.
PushAnswerLost(a) ==
  /\ manager[a].pc = "push"
  /\ Fault("lost")
  /\ Acceptable(Account(a), WithProof(a))
  /\ pool' = [pool EXCEPT ![Account(a)] = Append(@, WithProof(a))]
  /\ EndSubmission(a, "error_wait")
  /\ UNCHANGED worldVars

\* A failing read outside submit_checkpoint ends the manager (`?`).
ReadFails(a) ==
  /\ manager[a].pc \in Reading
  /\ Fault("read")
  /\ EndIteration(a, "failed")
  /\ UNCHANGED <<worldVars, pool>>

\* The daemon crashes and restarts: nothing of a manager is persisted.
Restart(a) ==
  /\ manager[a].pc # "init"
  /\ Fault("restart")
  /\ manager' = [manager EXCEPT ![a] = NewManager]
  /\ UNCHANGED <<worldVars, pool>>

-------------------------------------------------------------------------------
ManagerStep(a) ==
  \/ StartManager(a) \/ ReadChildHead(a) \/ ReadParentState(a) \/ NextAccount(a)
  \/ GetTemplate(a) \/ GetPrevCheckpoint(a) \/ PushCheckpoint(a) \/ Committed(a)
  \/ CatchUpChildHead(a) \/ CatchUpParentState(a) \/ SleepElapsed(a)

FaultStep(a) == SubmitFails(a) \/ PushAnswerLost(a) \/ ReadFails(a) \/ Restart(a)

Next ==
  \/ \E n \in 0..MaxMsgs : ChildBlock(n)
  \/ InitializeChild
  \/ \E acc \in Accounts : IncludeVote(acc)
  \/ \E a \in Agents : ManagerStep(a) \/ FaultStep(a)
  \/ \E a \in Agents : "stop" \in FaultKinds /\ (StopNotified(a) \/ Respawn(a))

Spec == Init /\ [][Next]_vars

\* tokio runs every manager, its RPCs and sleeps end, and the parent's
\* blocks include pending messages.
FairSpec ==
  /\ Spec
  /\ \A a \in Agents : WF_vars(ManagerStep(a))
  /\ \A acc \in Accounts : WF_vars(IncludeVote(acc))

(***************************************************************************)
(* Properties                                                              *)
(***************************************************************************)

Pending(acc) == {pool[acc][i] : i \in 1..Len(pool[acc])}
Submitted == (UNION {Pending(acc) : acc \in Accounts}) \cup {v.checkpoint : v \in sa.votes}
Executed == {executed[i] : i \in 1..Len(executed)}

\* However the reads of epoch, template and previous checkpoint interleave
\* with the votes of other agents, submissions for one epoch differ in
\* nothing but the proof: a quorum is never split over the content.
SameEpochSameContent ==
  \A c, d \in Submitted \cup Executed :
    c.epoch = d.epoch => [c EXCEPT !.proof = 0] = [d EXCEPT !.proof = 0]

\* The executed checkpoints form a chain: each names the one before it as
\* prev_check, which submit_checkpoint reads after it has read the epoch;
\* and so does every vote that is being counted.
ChainedToPrevious ==
  /\ \A i \in 1..Len(executed) :
       executed[i].prev = (IF i = 1 THEN 0 ELSE executed[i-1].epoch)
  /\ \A v \in sa.votes :
       v.checkpoint.prev = (IF executed = <<>> THEN 0 ELSE executed[Len(executed)].epoch)

\* The executed checkpoints are those CheckpointDelivery allows: one period
\* after the other, never ahead of the child, no message lost or repeated.
Delivered == [i \in 1..Len(executed) |->
                [epoch |-> executed[i].epoch, lo |-> executed[i].lo, hi |-> executed[i].hi]]
Delivery == INSTANCE CheckpointDelivery
              WITH GenesisEpoch <- 0, committed <- released, executed <- Delivered
ImplementsDelivery == Delivery!DeliverySpec

\* Every checkpoint that is due in an initialized child is executed, whatever
\* submissions fail on the way, unless a manager has ended: nothing starts it
\* again before the next reload of the config (checkpoint.rs:73-86).
DueIsExecuted ==
  \A h \in 1..MaxHeight :
    (initialized /\ height = h /\ SubmissionEpoch <= h)
      ~> \/ SubmissionEpoch > h
         \/ \E a \in Agents : manager[a].pc \in {"stopped", "failed"}
===============================================================================
