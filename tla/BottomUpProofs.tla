---------------------------- MODULE BottomUpProofs ----------------------------
(***************************************************************************)
(* Bottom-up checkpointing for any number of agents, accounts, validators  *)
(* and faults, any quorum system and period, and whether or not the subnet *)
(* actor counts the proof: all submissions for an epoch have the same      *)
(* content, the executed checkpoints are chained, and BottomUpManager      *)
(* implements CheckpointDelivery. If the proof does not count, no quorum   *)
(* of votes is left waiting.                                               *)
(***************************************************************************)
EXTENDS BottomUpManager, TLAPS

Due == sa.last_voting_executed + Period

\* An epoch the child has reached and the voting has not skipped.
OpenEpoch(e) == Period <= e /\ e <= height /\ e <= Due

\* The messages of the period that ends with the checkpoint's epoch.
Content(c) == c.lo = released[c.epoch - Period] /\ c.hi = released[c.epoch]

\* What a submission looks like, for as long as it exists.
Good(c) == OpenEpoch(c.epoch) /\ Content(c) /\ c.prev = c.epoch - Period

ChainInv ==
  /\ released[0] = 0
  /\ sa.prev = sa.last_voting_executed
  /\ sa.last_voting_executed = (IF executed = <<>> THEN 0 ELSE executed[Len(executed)].epoch)
  /\ \A i \in 1..Len(executed) :
       /\ Good(executed[i])
       /\ executed[i].epoch = (IF i = 1 THEN 0 ELSE executed[i-1].epoch) + Period

SubmitInv ==
  /\ \A acc \in Accounts : \A i \in 1..Len(pool[acc]) : Good(pool[acc][i])
  /\ \A v \in sa.votes : Good(v.checkpoint) /\ v.checkpoint.epoch = Due

InLoop == Submitting \cup {"account", "error_wait", "catchup_child", "catchup_parent"}

\* What a manager remembers while the chains go on.
Sane(a, m) ==
  /\ m.tip <= height
  /\ m.pc \in InLoop => OpenEpoch(m.outer)
  /\ m.pc \in {"template", "prev", "push"} => OpenEpoch(m.cur.epoch)
  /\ m.pc \in {"prev", "push"} => Content(m.cur)
  /\ m.pc = "push" /\ m.cur.epoch = Due => m.cur.prev = sa.prev
  /\ m.pc \in InLoop \ {"account"} => m.pos \in 1..Len(AccountsOf[a])

ManagerInv == \A a \in Agents : Sane(a, manager[a])

IInv == TypeOK /\ ChainInv /\ SubmitInv /\ ManagerInv

-------------------------------------------------------------------------------
(* Lemmas *)

\* The child may grow and the voting may move on by one period.
Onward ==
  /\ height <= height'
  /\ \A h \in 0..height : released'[h] = released[h]
  /\ \/ UNCHANGED <<sa.last_voting_executed, sa.prev>>
     \/ Due' = Due + Period

LEMMA OpenKept ==
  ASSUME TypeOK, TypeOK', Onward, NEW e \in Nat, OpenEpoch(e)
  PROVE  OpenEpoch(e)' /\ e \in 0..height /\ e - Period \in 0..height
<1>1. height \in Nat /\ height' \in Nat /\ Due \in Nat /\ Period \in Nat
  BY SMTT(30), PeriodAssumption DEF TypeOK, Due, SubnetActors
<1>2. Due' = Due \/ Due' = Due + Period
  BY DEF Onward, Due
<1> QED
  BY <1>1, <1>2 DEF OpenEpoch, Onward

LEMMA ContentKept ==
  ASSUME TypeOK, TypeOK', Onward, NEW c \in Checkpoints, OpenEpoch(c.epoch), Content(c)
  PROVE  Content(c)'
<1>1. c.epoch \in Nat
  BY DEF Checkpoints
<1>2. c.epoch \in 0..height /\ c.epoch - Period \in 0..height
  BY <1>1, OpenKept
<1> QED
  BY <1>2 DEF Content, Onward

LEMMA GoodKept ==
  ASSUME TypeOK, TypeOK', Onward, NEW c \in Checkpoints, Good(c)
  PROVE  Good(c)'
<1>1. c.epoch \in Nat
  BY DEF Checkpoints
<1> QED
  BY <1>1, OpenKept, ContentKept DEF Good

\* A manager that does nothing stays sane: when the voting moves on, the
\* checkpoint it is making is no longer the one that is due.
LEMMA SaneKept ==
  ASSUME TypeOK, TypeOK', Onward, NEW a \in Agents, NEW m \in Managers, Sane(a, m)
  PROVE  Sane(a, m)'
<1>1. m.tip \in Nat /\ m.outer \in Nat /\ m.cur \in Checkpoints /\ m.cur.epoch \in Nat
  BY DEF Managers, Checkpoints
<1>2. m.tip <= height'
  BY SMTT(30), <1>1 DEF Sane, Onward, TypeOK, SubnetActors
<1>3. m.pc \in InLoop => OpenEpoch(m.outer)'
  BY <1>1, OpenKept DEF Sane
<1>4. m.pc \in {"template", "prev", "push"} => OpenEpoch(m.cur.epoch)'
  BY <1>1, OpenKept DEF Sane
<1>5. m.pc \in {"prev", "push"} => Content(m.cur)'
  BY <1>1, ContentKept DEF Sane
<1>6. ASSUME m.pc = "push", m.cur.epoch = Due' PROVE m.cur.prev = sa'.prev
  <2>1. OpenEpoch(m.cur.epoch)
    BY <1>6 DEF Sane
  <2>0. Due \in Nat
    BY PeriodAssumption DEF TypeOK, Due, SubnetActors
  <2>2. Due' # Due + Period
    BY <1>1, <1>6, <2>0, <2>1, PeriodAssumption DEF OpenEpoch
  <2> QED
    BY <1>6, <2>2 DEF Onward, Sane, Due
<1> QED
  BY <1>2, <1>3, <1>4, <1>5, <1>6 DEF Sane

\* The checkpoint that is due continues the chain.
LEMMA DueIsGood ==
  ASSUME TypeOK, ChainInv, NEW c \in Checkpoints,
         OpenEpoch(c.epoch), Content(c), c.epoch = Due, c.prev = sa.prev
  PROVE  Good(c)
<1>1. c.epoch - Period = sa.last_voting_executed
  BY PeriodAssumption DEF TypeOK, Due, SubnetActors
<1> QED
  BY <1>1 DEF Good, ChainInv

-------------------------------------------------------------------------------
(* The inductive invariant *)

LEMMA InvInit == Init => IInv
<1> SUFFICES ASSUME Init PROVE IInv
  OBVIOUS
<1>1. NoCheckpoint \in Checkpoints
  BY DEF NoCheckpoint, Checkpoints
<1>2. NewManager \in Managers
  BY <1>1 DEF NewManager, Managers, Reading
<1>3. TypeOK
  <2>1. initialized \in BOOLEAN
    BY Zenon DEF Init
  <2> QED
    BY <1>2, <2>1, BoundsAssumption DEF Init, TypeOK, SubnetActors
<1>4. ChainInv /\ SubmitInv
  BY DEF Init, ChainInv, SubmitInv
<1>5. NewManager.pc = "init" /\ NewManager.tip = 0
  BY DEF NewManager
<1>6. ManagerInv
  <2> SUFFICES ASSUME NEW a \in Agents PROVE Sane(a, manager[a])
    BY ZenonT(30) DEF ManagerInv
  <2>1. manager[a].pc = "init" /\ manager[a].tip <= height
    BY <1>5 DEF Init
  <2> QED
    BY <2>1 DEF Sane, InLoop, Submitting
<1> QED
  BY <1>3, <1>4, <1>6 DEF IInv

\* A step of a manager that pushes nothing touches only that manager.
LEMMA ManagerOnly ==
  ASSUME IInv, NEW a \in Agents, NEW m \in Managers, Sane(a, m),
         manager' = [manager EXCEPT ![a] = m],
         UNCHANGED worldVars, UNCHANGED pool, faults' \in 0..MaxFaults
  PROVE  IInv'
<1>0. UNCHANGED <<height, released, initialized, sa, executed>>
  BY DEF worldVars
<1>1. TypeOK'
  BY <1>0 DEF IInv, TypeOK, SubnetActors
<1>2. ASSUME NEW c PROVE Good(c)' = Good(c)
  BY <1>0 DEF Good, OpenEpoch, Content, Due
<1>3. ChainInv'
  BY <1>0, <1>2 DEF IInv, ChainInv
<1>4. SubmitInv'
  BY <1>0, <1>2 DEF IInv, SubmitInv, Due
<1>5. ManagerInv'
  <2> SUFFICES ASSUME NEW b \in Agents PROVE Sane(b, manager[b])'
    BY DEF ManagerInv
  <2>1. Sane(b, manager'[b])
    <3>1. CASE b = a
      BY <3>1 DEF IInv, TypeOK, SubnetActors
    <3>2. CASE b # a
      BY <3>2 DEF IInv, TypeOK, ManagerInv, SubnetActors
    <3> QED
      BY <3>1, <3>2
  <2> QED
    BY <1>0, <2>1 DEF Sane, OpenEpoch, Content, Due
<1> QED
  BY <1>1, <1>3, <1>4, <1>5 DEF IInv

\* A step that only moves the manager on, neither into the loop over the
\* accounts nor along a submission, and may drop what it has read.
LEMMA GotoStep ==
  ASSUME IInv, NEW a \in Agents,
         NEW p \in {"child", "wait", "error_wait", "commit", "catchup_child", "stopped", "failed"},
         Goto(a, p) \/ EndSubmission(a, p) \/ (EndIteration(a, p) /\ p \notin InLoop),
         UNCHANGED worldVars, UNCHANGED pool, faults' \in 0..MaxFaults,
         p \in InLoop => manager[a].pc \in InLoop \ {"account"}
  PROVE  IInv'
<1> DEFINE m == manager[a]
           Moved(n) == /\ n \in Managers /\ n.pc = p /\ n.tip <= height
                       /\ p \in InLoop => n.outer = m.outer /\ n.pos = m.pos
                       /\ manager' = [manager EXCEPT ![a] = n]
<1>1. m \in Managers /\ manager \in [Agents -> Managers] /\ Sane(a, m) /\ height \in Nat
  BY DEF IInv, TypeOK, ManagerInv, SubnetActors
<1>2. NoCheckpoint \in Checkpoints
  BY DEF NoCheckpoint, Checkpoints
<1>3. p \in Submitting \cup Reading \cup Waiting \cup {"account", "stopped", "failed"}
  BY DEF Submitting, Reading, Waiting
<1>4. m.tip <= height
  BY <1>1 DEF Sane
<1>5. \E n : Moved(n)
  <2>1. CASE Goto(a, p)
    <3> DEFINE w == [m EXCEPT !.pc = p]
    <3>1. w \in Managers /\ w.pc = p /\ w.tip = m.tip /\ w.outer = m.outer /\ w.pos = m.pos
      BY <1>1, <1>3 DEF Managers
    <3>2. manager' = [manager EXCEPT ![a] = w]
      BY <1>1, <2>1, ZenonT(30) DEF Goto
    <3> HIDE DEF w
    <3>3. Moved(w)
      BY <1>4, <3>1, <3>2, ZenonT(30)
    <3> QED
      BY <3>3, ZenonT(30)
  <2>2. CASE EndSubmission(a, p)
    <3> DEFINE w == [m EXCEPT !.pc = p, !.cur = NoCheckpoint]
    <3>1. w \in Managers /\ w.pc = p /\ w.tip = m.tip /\ w.outer = m.outer /\ w.pos = m.pos
      BY <1>1, <1>2, <1>3, ZenonT(30) DEF Managers
    <3>2. manager' = [manager EXCEPT ![a] = w]
      BY <1>1, <2>2, ZenonT(30) DEF EndSubmission
    <3> HIDE DEF w
    <3>3. Moved(w)
      BY <1>4, <3>1, <3>2, ZenonT(30)
    <3> QED
      BY <3>3, ZenonT(30)
  <2>3. CASE EndIteration(a, p) /\ p \notin InLoop
    <3> DEFINE n == [NewManager EXCEPT !.pc = p]
    <3>0. NewManager \in Managers /\ NewManager.tip = 0
      BY <1>2 DEF Managers, NewManager, Reading
    <3>1. n \in Managers /\ n.pc = p /\ n.tip = 0
      BY <1>3, <3>0 DEF Managers
    <3>2. manager' = [manager EXCEPT ![a] = n]
      BY <2>3 DEF EndIteration
    <3> HIDE DEF n
    <3>3. Moved(n)
      BY <1>1, <2>3, <3>1, <3>2
    <3> QED
      BY <3>3, ZenonT(30)
  <2> QED
    BY <2>1, <2>2, <2>3
<1>6. PICK n : Moved(n)
  BY <1>5, ZenonT(30)
<1> HIDE DEF m
<1>7. Sane(a, n)
  BY <1>1, <1>6 DEF Sane, m
<1> QED
  BY <1>6, <1>7, ManagerOnly, ZenonT(30)

\* The epoch a manager computes when a checkpoint is due is open.
LEMMA ReadIsOpen ==
  ASSUME IInv, NEW a \in Agents, manager[a].tip >= SubmissionEpoch
  PROVE  SubmissionEpoch \in Nat /\ OpenEpoch(SubmissionEpoch)
<1>1. sa.last_voting_executed \in Nat /\ Period \in Nat /\ height \in Nat
  BY PeriodAssumption DEF IInv, TypeOK, SubnetActors
<1>2. manager[a].tip \in Nat /\ manager[a].tip <= height
  BY DEF IInv, TypeOK, Managers, ManagerInv, Sane, SubnetActors
<1> QED
  BY <1>1, <1>2 DEF OpenEpoch, SubmissionEpoch, Due

\* The reads at the heads, and the loop over the accounts.
LEMMA ReadStep ==
  ASSUME IInv, NEW a \in Agents,
         \/ ReadChildHead(a) \/ ReadParentState(a) \/ NextAccount(a)
         \/ CatchUpChildHead(a) \/ CatchUpParentState(a)
         \/ SleepElapsed(a) \/ Respawn(a) \/ Restart(a)
  PROVE  IInv'
<1> DEFINE m == manager[a]
<1>1. m \in Managers /\ manager \in [Agents -> Managers] /\ Sane(a, m)
  BY DEF IInv, TypeOK, ManagerInv, SubnetActors
<1>2. /\ height \in Nat /\ height <= height /\ initialized \in BOOLEAN
      /\ faults \in 0..MaxFaults /\ (faults < MaxFaults => faults + 1 \in 0..MaxFaults)
  BY BoundsAssumption DEF IInv, TypeOK, SubnetActors
<1>3. m.pos + 1 \in Nat \ {0} /\ 1 \in Nat \ {0} /\ m.pos \in Nat \ {0}
  BY <1>1 DEF Managers
<1>4. NoCheckpoint \in Checkpoints
      /\ \A e \in Nat : NewCheckpoint(e) \in Checkpoints /\ NewCheckpoint(e).epoch = e
  BY DEF NoCheckpoint, NewCheckpoint, Checkpoints
<1>5. m.tip \in Nat /\ m.outer \in Nat /\ m.cur \in Checkpoints
  BY <1>1 DEF Managers
<1>6. CASE ReadChildHead(a)
  <2> DEFINE n == [m EXCEPT !.pc = "parent", !.tip = height, !.up = initialized]
  <2>1. n \in Managers /\ n.pc = "parent" /\ n.tip = height
    BY <1>1, <1>2, Zenon DEF Managers, Reading
  <2>2. manager' = [manager EXCEPT ![a] = n] /\ UNCHANGED <<worldVars, pool, faults>>
    BY <1>1, <1>6, ZenonT(30) DEF ReadChildHead, ChainHead
  <2> HIDE DEF n, m
  <2>3. Sane(a, n)
    BY <1>2, <2>1 DEF Sane, InLoop, Submitting
  <2> QED
    BY <1>2, <2>1, <2>2, <2>3, ManagerOnly, ZenonT(30)
<1>7. CASE ReadParentState(a)
  <2>0. UNCHANGED <<worldVars, pool, faults>>
    BY <1>7 DEF ReadParentState
  <2>1. CASE m.up /\ m.tip >= SubmissionEpoch
    <3> DEFINE n == [m EXCEPT !.pc = "account", !.outer = SubmissionEpoch,
                              !.proof = m.tip, !.pos = 1]
    <3>1. SubmissionEpoch \in Nat /\ OpenEpoch(SubmissionEpoch)
      BY <2>1, ReadIsOpen
    <3>2. n \in Managers /\ n.pc = "account" /\ n.tip = m.tip /\ n.outer = SubmissionEpoch
      BY <1>1, <1>3, <1>5, <3>1, ZenonT(30) DEF Managers
    <3>3. manager' = [manager EXCEPT ![a] = n]
      BY <1>1, <1>7, <2>1, ZenonT(30) DEF ReadParentState
    <3> HIDE DEF n
    <3>4. Sane(a, n)
      BY <1>1, <3>1, <3>2 DEF Sane
    <3> QED
      BY <1>2, <2>0, <3>2, <3>3, <3>4, ManagerOnly, ZenonT(30)
  <2>2. CASE ~(m.up /\ m.tip >= SubmissionEpoch)
    <3>1. EndIteration(a, "wait")
      BY <1>7, <2>2 DEF ReadParentState
    <3> QED
      BY <1>2, <2>0, <3>1, GotoStep DEF InLoop, Submitting
  <2> QED
    BY <2>1, <2>2
<1>8. CASE NextAccount(a)
  <2>0. UNCHANGED <<worldVars, pool, faults>> /\ m.pc = "account" /\ OpenEpoch(m.outer)
    BY <1>1, <1>8 DEF NextAccount, Sane, InLoop
  <2>1. CASE m.pos > Len(AccountsOf[a])
    BY <1>2, <1>8, <2>0, <2>1, GotoStep DEF NextAccount, InLoop, Submitting
  <2>2. CASE ~(m.pos > Len(AccountsOf[a])) /\ Account(a) \in Validators
    <3> DEFINE n == [m EXCEPT !.pc = "template", !.cur = NewCheckpoint(m.outer)]
    <3>1. n \in Managers /\ n.pc = "template" /\ n.tip = m.tip /\ n.outer = m.outer
          /\ n.cur.epoch = m.outer /\ n.pos = m.pos
      BY <1>1, <1>4, <1>5, ZenonT(30) DEF Managers, Submitting
    <3>2. manager' = [manager EXCEPT ![a] = n]
      BY <1>1, <1>8, <2>2, ZenonT(30) DEF NextAccount
    <3>3. m.pos \in 1..Len(AccountsOf[a])
      BY <1>3, <2>2, AccountsAssumption
    <3> HIDE DEF n
    <3>4. Sane(a, n)
      BY <1>1, <2>0, <3>1, <3>3 DEF Sane
    <3> QED
      BY <1>2, <2>0, <3>1, <3>2, <3>4, ManagerOnly, ZenonT(30)
  <2>3. CASE ~(m.pos > Len(AccountsOf[a])) /\ Account(a) \notin Validators
    <3> DEFINE n == [m EXCEPT !.pos = m.pos + 1]
    <3>1. n \in Managers /\ n.pc = "account" /\ n.tip = m.tip /\ n.outer = m.outer
      BY <1>1, <1>3, <2>0 DEF Managers
    <3>2. manager' = [manager EXCEPT ![a] = n]
      BY <1>1, <1>8, <2>3 DEF NextAccount
    <3> HIDE DEF n
    <3>4. Sane(a, n)
      BY <1>1, <2>0, <3>1 DEF Sane
    <3> QED
      BY <1>2, <2>0, <3>1, <3>2, <3>4, ManagerOnly, ZenonT(30)
  <2> QED
    BY <2>1, <2>2, <2>3
<1>9. CASE CatchUpChildHead(a)
  <2> DEFINE n == [m EXCEPT !.pc = "catchup_parent", !.tip = height]
  <2>1. /\ n \in Managers /\ n.pc = "catchup_parent" /\ n.tip = height
        /\ n.outer = m.outer /\ n.pos = m.pos
    BY <1>1, <1>2, ZenonT(30) DEF Managers, Reading
  <2>2. manager' = [manager EXCEPT ![a] = n] /\ UNCHANGED <<worldVars, pool, faults>>
        /\ m.pc = "catchup_child"
    BY <1>1, <1>9, ZenonT(30) DEF CatchUpChildHead, ChainHead
  <2> HIDE DEF n, m
  <2>3. Sane(a, n)
    BY <1>1, <1>2, <2>1, <2>2 DEF Sane, InLoop, Submitting
  <2> QED
    BY <1>2, <2>1, <2>2, <2>3, ManagerOnly, ZenonT(30)
<1>10. CASE CatchUpParentState(a)
  <2>0. UNCHANGED <<worldVars, pool, faults>> /\ m.pc = "catchup_parent" /\ OpenEpoch(m.outer)
        /\ m.pos \in 1..Len(AccountsOf[a])
    BY <1>1, <1>10 DEF CatchUpParentState, Sane, InLoop
  <2>1. CASE m.tip >= SubmissionEpoch
    <3> DEFINE n == [m EXCEPT !.pc = "template", !.cur = NewCheckpoint(SubmissionEpoch)]
    <3>1. SubmissionEpoch \in Nat /\ OpenEpoch(SubmissionEpoch)
      BY <2>1, ReadIsOpen
    <3>2. n \in Managers /\ n.pc = "template" /\ n.tip = m.tip /\ n.outer = m.outer
          /\ n.cur.epoch = SubmissionEpoch /\ n.pos = m.pos
      BY <1>1, <1>4, <3>1, ZenonT(30) DEF Managers, Submitting
    <3>3. manager' = [manager EXCEPT ![a] = n]
      BY <1>1, <1>10, <2>1, ZenonT(30) DEF CatchUpParentState
    <3> HIDE DEF n
    <3>4. Sane(a, n)
      BY <1>1, <2>0, <3>1, <3>2, ZenonT(30) DEF Sane
    <3> QED
      BY <1>2, <2>0, <3>2, <3>3, <3>4, ManagerOnly, ZenonT(30)
  <2>2. CASE ~(m.tip >= SubmissionEpoch)
    <3> DEFINE n == [m EXCEPT !.pc = "account", !.pos = m.pos + 1]
    <3>1. n \in Managers /\ n.pc = "account" /\ n.tip = m.tip /\ n.outer = m.outer
      BY <1>1, <1>3, ZenonT(30) DEF Managers
    <3>2. manager' = [manager EXCEPT ![a] = n]
      BY <1>1, <1>10, <2>2, ZenonT(30) DEF CatchUpParentState
    <3> HIDE DEF n
    <3>4. Sane(a, n)
      BY <1>1, <2>0, <3>1, ZenonT(30) DEF Sane
    <3> QED
      BY <1>2, <2>0, <3>1, <3>2, <3>4, ManagerOnly, ZenonT(30)
  <2> QED
    BY <2>1, <2>2
<1>11. CASE SleepElapsed(a)
  <2>0. UNCHANGED <<worldVars, pool, faults>>
    BY <1>11 DEF SleepElapsed
  <2>1. CASE m.pc = "wait" /\ Goto(a, "child")
    BY <1>2, <2>0, <2>1, GotoStep DEF InLoop, Submitting
  <2>2. CASE m.pc = "error_wait"
             /\ manager' = [manager EXCEPT ![a].pc = "account", ![a].pos = @ + 1]
    <3> DEFINE n == [m EXCEPT !.pc = "account", !.pos = m.pos + 1]
    <3>1. n \in Managers /\ n.pc = "account" /\ n.tip = m.tip /\ n.outer = m.outer
      BY <1>1, <1>3, ZenonT(30) DEF Managers
    <3>2. manager' = [manager EXCEPT ![a] = n]
      BY <1>1, <2>2, ZenonT(30)
    <3> HIDE DEF n
    <3>4. Sane(a, n)
      BY <1>1, <2>2, <3>1 DEF Sane, InLoop
    <3> QED
      BY <1>2, <2>0, <3>1, <3>2, <3>4, ManagerOnly, ZenonT(30)
  <2> QED
    BY <1>11, <2>1, <2>2 DEF SleepElapsed
<1>12. CASE Respawn(a) \/ Restart(a)
  <2>1. manager' = [manager EXCEPT ![a] = NewManager] /\ UNCHANGED worldVars
        /\ UNCHANGED pool /\ faults' \in 0..MaxFaults
    BY <1>2, <1>12 DEF Respawn, Restart, Fault
  <2>2. NewManager \in Managers /\ NewManager.pc = "init" /\ NewManager.tip = 0
    BY <1>4 DEF NewManager, Managers, Reading
  <2>3. Sane(a, NewManager)
    BY <1>2, <2>2 DEF Sane, InLoop, Submitting
  <2> QED
    BY <2>1, <2>2, <2>3, ManagerOnly, ZenonT(30)
<1> QED
  BY <1>6, <1>7, <1>8, <1>9, <1>10, <1>11, <1>12

\* The two reads of submit_checkpoint.
LEMMA SubmissionReads ==
  ASSUME IInv, NEW a \in Agents, GetTemplate(a) \/ GetPrevCheckpoint(a)
  PROVE  IInv'
<1> DEFINE m == manager[a]
<1>1. m \in Managers /\ manager \in [Agents -> Managers] /\ Sane(a, m)
      /\ m.cur \in Checkpoints /\ m.cur.epoch \in Nat /\ m.cur.lo \in Nat /\ m.cur.hi \in Nat
  <2>1. m \in Managers /\ manager \in [Agents -> Managers] /\ Sane(a, m)
    BY DEF IInv, TypeOK, ManagerInv, SubnetActors
  <2>2. m.cur \in Checkpoints
    BY <2>1 DEF Managers
  <2> QED
    BY <2>1, <2>2 DEF Checkpoints
<1>2. /\ UNCHANGED <<worldVars, pool, faults>> /\ faults \in 0..MaxFaults
      /\ m.pc \in {"template", "prev"}
  BY DEF GetTemplate, GetPrevCheckpoint, IInv, TypeOK, SubnetActors, CheckpointTemplate, PrevCheckpointForChild
<1>3. /\ OpenEpoch(m.cur.epoch) /\ OpenEpoch(m.outer) /\ m.tip <= height
      /\ m.pos \in 1..Len(AccountsOf[a])
  BY <1>1, <1>2 DEF Sane, InLoop, Submitting
<1>4. CASE GetTemplate(a)
  <2> DEFINE e == m.cur.epoch
             lo == TemplateEnd(e - Period)
             hi == TemplateEnd(e)
             c == [m.cur EXCEPT !.lo = lo, !.hi = hi]
             n == [m EXCEPT !.pc = "prev", !.cur = c]
  <2>1. height \in Nat /\ released \in [0..height -> Nat] /\ Period \in Nat \ {0}
    BY PeriodAssumption DEF IInv, TypeOK, SubnetActors
  <2>2. e \in 0..height /\ e - Period \in 0..height
    <3>1. e \in Nat /\ Period <= e /\ e <= height
      BY <1>1, <1>3 DEF OpenEpoch
    <3> HIDE DEF e
    <3> QED
      BY <3>1, <2>1
  <2>3. lo = released[e - Period] /\ hi = released[e] /\ lo \in Nat /\ hi \in Nat
    BY SMTT(30), <2>1, <2>2 DEF TemplateEnd
  <2> HIDE DEF lo, hi
  <2>4. c \in Checkpoints /\ c.epoch = e /\ c.lo = lo /\ c.hi = hi
    BY <1>1, <2>3, ZenonT(30) DEF Checkpoints
  <2>5. manager' = [manager EXCEPT ![a] = n]
    BY <1>1, <1>4, ZenonT(30) DEF GetTemplate, Managers, lo, hi, CheckpointTemplate
  <2> HIDE DEF c
  <2>6. n \in Managers /\ n.pc = "prev" /\ n.tip = m.tip /\ n.outer = m.outer
        /\ n.cur = c /\ n.pos = m.pos
    BY <1>1, <2>4, ZenonT(30) DEF Managers, Submitting
  <2> HIDE DEF n
  <2>7. Sane(a, n)
    BY <1>3, <2>3, <2>4, <2>6 DEF Sane, Content
  <2> QED
    BY <1>2, <2>5, <2>6, <2>7, ManagerOnly, ZenonT(30)
<1>5. CASE GetPrevCheckpoint(a)
  <2> DEFINE c == [m.cur EXCEPT !.prev = sa.prev]
             n == [m EXCEPT !.pc = "push", !.cur = c]
  <2>1. sa.prev \in Nat
    BY DEF IInv, TypeOK, SubnetActors
  <2>2. c \in Checkpoints /\ c.epoch = m.cur.epoch /\ c.lo = m.cur.lo /\ c.hi = m.cur.hi
        /\ c.prev = sa.prev
    BY <1>1, <2>1 DEF Checkpoints
  <2>3. manager' = [manager EXCEPT ![a] = n] /\ m.pc = "prev"
    BY <1>1, <1>5, ZenonT(30) DEF GetPrevCheckpoint, Managers, PrevCheckpointForChild
  <2>4. Content(m.cur)
    BY <1>1, <2>3 DEF Sane
  <2> HIDE DEF c
  <2>5. n \in Managers /\ n.pc = "push" /\ n.tip = m.tip /\ n.outer = m.outer
        /\ n.cur = c /\ n.pos = m.pos
    BY <1>1, <2>2, ZenonT(30) DEF Managers, Submitting
  <2> HIDE DEF n
  <2>6. Sane(a, n)
    BY <1>3, <2>2, <2>4, <2>5 DEF Sane, Content
  <2> QED
    BY <1>2, <2>3, <2>5, <2>6, ManagerOnly, ZenonT(30)
<1> QED
  BY <1>4, <1>5

\* A push adds a good checkpoint: what the actor accepts has the due epoch,
\* so nothing was executed since the previous checkpoint was read.
LEMMA PushStep ==
  ASSUME IInv, NEW a \in Agents, PushCheckpoint(a) \/ PushAnswerLost(a)
  PROVE  IInv'
<1> DEFINE acc == Account(a)
           c == WithProof(a)
           m == manager[a]
<1>1. m \in Managers /\ Sane(a, m) /\ m.pc = "push" /\ m.cur \in Checkpoints
      /\ m.proof \in Nat /\ pool \in [Accounts -> Seq(Checkpoints)]
  <2>1. m \in Managers /\ Sane(a, m) /\ m.pc = "push" /\ pool \in [Accounts -> Seq(Checkpoints)]
    BY DEF IInv, TypeOK, ManagerInv, PushCheckpoint, PushAnswerLost, SubnetActors
  <2> QED
    BY <2>1 DEF Managers
<1>2. acc \in Accounts
  BY <1>1, AccountsAssumption DEF Account, Sane, InLoop, Submitting
<1>3. c \in Checkpoints /\ c.epoch = m.cur.epoch /\ c.lo = m.cur.lo /\ c.hi = m.cur.hi
      /\ c.prev = m.cur.prev
  BY <1>1, ZenonT(30) DEF WithProof, Checkpoints
<1>4. ASSUME Acceptable(acc, c) PROVE Good(c)
  <2>1. c.epoch = Due
    BY <1>4 DEF Acceptable, Due
  <2>2. OpenEpoch(c.epoch) /\ Content(c) /\ c.prev = sa.prev
    BY <1>1, <1>3, <2>1 DEF Sane, Content
  <2> QED
    BY <1>3, <2>1, <2>2, DueIsGood DEF IInv
<1>5. UNCHANGED worldVars /\ faults' \in 0..MaxFaults
  BY BoundsAssumption DEF PushCheckpoint, PushAnswerLost, Fault, IInv, TypeOK, SubnetActors
<1> HIDE DEF acc, c
<1>6. CASE EndSubmission(a, "error_wait") /\ UNCHANGED pool
  BY <1>1, <1>5, <1>6, GotoStep DEF InLoop, Submitting
<1>7. ASSUME NEW p \in {"commit", "error_wait"}, EndSubmission(a, p), Acceptable(acc, c),
             pool' = [pool EXCEPT ![acc] = Append(@, c)]
      PROVE  IInv'
  <2> DEFINE n == [m EXCEPT !.pc = p, !.cur = NoCheckpoint]
  <2>0. UNCHANGED <<height, released, initialized, sa, executed>>
    BY <1>5 DEF worldVars
  <2>1. n \in Managers /\ n.pc = p /\ n.tip = m.tip /\ n.outer = m.outer /\ n.pos = m.pos
    BY <1>1, <1>7, ZenonT(30) DEF Managers, Submitting, Waiting, NoCheckpoint, Checkpoints
  <2>2. manager' = [manager EXCEPT ![a] = n]
    BY <1>7, ZenonT(30) DEF EndSubmission, IInv, TypeOK, SubnetActors
  <2> HIDE DEF n
  <2>3. Sane(a, n)
    BY <1>1, <1>7, <2>1, ZenonT(30) DEF Sane, InLoop, Submitting
  <2>4. pool' \in [Accounts -> Seq(Checkpoints)]
    BY <1>1, <1>2, <1>3, <1>7
  <2>5. TypeOK'
    BY <1>5, <2>0, <2>1, <2>2, <2>4 DEF IInv, TypeOK, SubnetActors
  <2>6. ASSUME NEW d PROVE Good(d)' = Good(d)
    BY <2>0 DEF Good, OpenEpoch, Content, Due
  <2>7. ChainInv'
    BY <2>0, <2>6 DEF IInv, ChainInv
  <2>8. ASSUME NEW b \in Accounts, NEW i \in 1..Len(pool'[b]) PROVE Good(pool'[b][i])
    <3>1. CASE b = acc
      <4>1. pool'[b] = Append(pool[b], c) /\ pool[b] \in Seq(Checkpoints)
        BY <1>1, <1>2, <1>7, <3>1
      <4>2. \/ i \in 1..Len(pool[b]) /\ pool'[b][i] = pool[b][i]
            \/ pool'[b][i] = c
        BY <2>8, <4>1
      <4> QED
        BY <1>4, <1>7, <4>2 DEF IInv, SubmitInv
    <3>2. CASE b # acc
      BY <1>1, <1>2, <1>7, <2>8, <3>2 DEF IInv, SubmitInv
    <3> QED
      BY <3>1, <3>2
  <2>9. SubmitInv'
    BY <2>0, <2>6, <2>8 DEF IInv, SubmitInv, Due
  <2>10. ManagerInv'
    <3> SUFFICES ASSUME NEW b \in Agents PROVE Sane(b, manager[b])'
      BY DEF ManagerInv
    <3>1. Sane(b, manager'[b])
      <4>1. CASE b = a
        BY <2>2, <2>3, <4>1 DEF IInv, TypeOK, SubnetActors
      <4>2. CASE b # a
        BY <2>2, <4>2 DEF IInv, TypeOK, ManagerInv, SubnetActors
      <4> QED
        BY <4>1, <4>2
    <3> QED
      BY <2>0, <3>1 DEF Sane, OpenEpoch, Content, Due
  <2> QED
    BY <2>5, <2>7, <2>9, <2>10 DEF IInv
<1> QED
  BY <1>6, <1>7 DEF PushCheckpoint, PushAnswerLost, acc, c

\* What a step of the chains has to show.
LEMMA WorldStep ==
  ASSUME IInv, TypeOK', Onward, UNCHANGED manager,
         ChainInv',
         \A acc \in Accounts : \A i \in 1..Len(pool'[acc]) : Good(pool'[acc][i]),
         \A v \in sa'.votes : Good(v.checkpoint) /\ v.checkpoint.epoch = Due'
  PROVE  IInv'
<1>1. \A c \in Checkpoints : Good(c) => Good(c)'
  BY GoodKept DEF IInv
<1>2. SubmitInv'
  <2>1. \A acc \in Accounts : \A i \in 1..Len(pool'[acc]) : pool'[acc][i] \in Checkpoints
    BY DEF TypeOK, SubnetActors
  <2>2. \A v \in sa'.votes : v.checkpoint \in Checkpoints
    BY DEF TypeOK, Votes, SubnetActors
  <2> QED
    BY <1>1, <2>1, <2>2 DEF SubmitInv
<1>3. ManagerInv'
  <2> SUFFICES ASSUME NEW a \in Agents PROVE Sane(a, manager[a])'
    BY DEF ManagerInv
  <2> DEFINE m == manager[a]
  <2>1. m \in Managers /\ Sane(a, m) /\ m' = m
    BY DEF IInv, TypeOK, ManagerInv, SubnetActors
  <2>2. \A n \in Managers : Sane(a, n) => Sane(a, n)'
    BY SaneKept DEF IInv
  <2> QED
    BY <2>1, <2>2
<1> QED
  BY <1>2, <1>3 DEF IInv

LEMMA ChainStep ==
  ASSUME IInv, (\E n \in 0..MaxMsgs : ChildBlock(n)) \/ InitializeChild
  PROVE  IInv'
<1>1. UNCHANGED <<sa, pool, manager, faults, executed>>
  BY DEF ChildBlock, InitializeChild
<1>2. height \in Nat /\ released \in [0..height -> Nat] /\ initialized \in BOOLEAN
  BY DEF IInv, TypeOK, SubnetActors
<1>3. TypeOK' /\ height <= height' /\ \A h \in 0..height : released'[h] = released[h]
  <2>1. ASSUME NEW n \in 0..MaxMsgs, ChildBlock(n)
        PROVE  /\ height' \in Nat /\ height <= height' /\ UNCHANGED initialized
               /\ released' \in [0..height' -> Nat]
               /\ \A h \in 0..height : released'[h] = released[h]
    <3>1. n \in Nat
      BY BoundsAssumption
    <3> QED
      BY <1>2, <2>1, <3>1 DEF ChildBlock
  <2>2. CASE InitializeChild
    <3>1. initialized' \in BOOLEAN /\ UNCHANGED <<height, released>>
      BY <2>2, Zenon DEF InitializeChild
    <3> QED
      BY <1>1, <1>2, <3>1 DEF IInv, TypeOK, SubnetActors
  <2> QED
    BY <1>1, <2>1, <2>2 DEF IInv, TypeOK, SubnetActors
<1>4. Onward /\ Due' = Due
  BY <1>1, <1>3 DEF Onward, Due
<1>5. \A c \in Checkpoints : Good(c) => Good(c)'
  BY <1>3, <1>4, GoodKept DEF IInv
<1>6. ChainInv'
  <2>1. released'[0] = 0
    BY <1>2, <1>3 DEF IInv, ChainInv
  <2>2. \A i \in 1..Len(executed) : executed[i] \in Checkpoints
    BY DEF IInv, TypeOK, SubnetActors
  <2> QED
    BY <1>1, <1>5, <2>1, <2>2 DEF IInv, ChainInv
<1> QED
  BY <1>1, <1>3, <1>4, <1>6, WorldStep DEF IInv, SubmitInv

\* A vote is refused, counted, or the last of a quorum.
LEMMA VoteStep ==
  ASSUME IInv, NEW acc \in Accounts, IncludeVote(acc)
  PROVE  /\ IInv'
         /\ UNCHANGED <<height, released>>
         /\ \/ UNCHANGED executed
            \/ \E c \in Checkpoints : /\ Good(c) /\ c.epoch = Due
                                       /\ executed' = Append(executed, c)
<1> DEFINE c == Head(pool[acc])
           vote == [account |-> acc, checkpoint |-> c]
           votes == sa.votes \cup {vote}
<1>1. /\ pool \in [Accounts -> Seq(Checkpoints)] /\ pool[acc] # <<>>
      /\ pool' = [pool EXCEPT ![acc] = Tail(@)]
      /\ UNCHANGED <<height, released, initialized, manager, faults>>
  BY DEF IInv, TypeOK, IncludeVote, SubnetActors
<1>2. c \in Checkpoints /\ Good(c)
  <2>1. pool[acc] \in Seq(Checkpoints) /\ 1 \in 1..Len(pool[acc]) /\ c = pool[acc][1]
    BY <1>1
  <2> QED
    BY <2>1 DEF IInv, SubmitInv
<1>3. pool' \in [Accounts -> Seq(Checkpoints)]
  BY <1>1
<1>4. \A b \in Accounts : \A i \in 1..Len(pool'[b]) : Good(pool'[b][i])
  <2> TAKE b \in Accounts
  <2> TAKE i \in 1..Len(pool'[b])
  <2>1. CASE b = acc
    <3>1. pool'[b] = Tail(pool[b]) /\ pool[b] \in Seq(Checkpoints) /\ pool[b] # <<>>
      BY <1>1, <2>1
    <3>2. i + 1 \in 1..Len(pool[b]) /\ pool'[b][i] = pool[b][i + 1]
      BY <3>1
    <3> QED
      BY <3>2 DEF IInv, SubmitInv
  <2>2. CASE b # acc
    <3>1. pool'[b] = pool[b]
      BY <1>1, <2>2
    <3> QED
      BY <3>1 DEF IInv, SubmitInv
  <2> QED
    BY <2>1, <2>2
<1>5. height <= height /\ height \in Nat
  BY DEF IInv, TypeOK, SubnetActors
<1>6. CASE UNCHANGED <<sa, executed>>
  <2>1. TypeOK'
    BY <1>1, <1>3, <1>6 DEF IInv, TypeOK, SubnetActors
  <2>2. ChainInv'
    BY <1>1, <1>6 DEF IInv, ChainInv, Good, OpenEpoch, Content, Due
  <2>3. Onward /\ Due' = Due
    BY <1>1, <1>5, <1>6 DEF Onward, Due
  <2> QED
    BY <1>1, <1>4, <1>6, <2>1, <2>2, <2>3, WorldStep, ZenonT(30) DEF IInv, SubmitInv
<1>7. CASE Acceptable(acc, c) /\ sa' = [sa EXCEPT !.votes = votes] /\ UNCHANGED executed
  <2>1. votes \in SUBSET Votes
    BY <1>2 DEF Votes, IInv, TypeOK, SubnetActors
  <2>2. UNCHANGED <<sa.last_voting_executed, sa.prev>> /\ sa'.votes = votes
    BY <1>7 DEF IInv, TypeOK, SubnetActors
  <2>3. TypeOK'
    BY <1>1, <1>3, <1>7, <2>1, ZenonT(30) DEF IInv, TypeOK, SubnetActors
  <2>4. ChainInv'
    BY <1>1, <1>7, <2>2 DEF IInv, ChainInv, Good, OpenEpoch, Content, Due
  <2>5. Onward /\ Due' = Due
    BY <1>1, <1>5, <2>2 DEF Onward, Due
  <2>6. \A v \in sa'.votes : Good(v.checkpoint) /\ v.checkpoint.epoch = Due'
    BY <1>2, <1>7, <2>2, <2>5 DEF IInv, SubmitInv, Acceptable, Due
  <2> QED
    BY <1>1, <1>4, <1>7, <2>3, <2>4, <2>5, <2>6, WorldStep
<1>8. CASE /\ Acceptable(acc, c)
           /\ sa' = [last_voting_executed |-> c.epoch, prev |-> c.epoch, votes |-> {}]
           /\ executed' = Append(executed, c)
  <2>1. c.epoch = Due /\ Due \in Nat /\ Period \in Nat
    BY <1>8, PeriodAssumption DEF Acceptable, Due, IInv, TypeOK, SubnetActors
  <2>2. executed \in Seq(Checkpoints) /\ executed' \in Seq(Checkpoints)
    BY <1>2, <1>8 DEF IInv, TypeOK, SubnetActors
  <2>3. sa'.last_voting_executed = Due /\ sa'.prev = Due /\ sa'.votes = {}
    BY <1>8, <2>1
  <2>4. sa' \in [last_voting_executed : Nat, prev : Nat, votes : SUBSET Votes]
    BY <1>8, <2>1
  <2>5. TypeOK'
    BY <1>1, <1>3, <2>2, <2>4 DEF IInv, TypeOK, SubnetActors
  <2>6. Onward
    BY <1>1, <1>5, <2>3 DEF Onward, Due
  <2>7. ChainInv'
    <3> DEFINE k == Len(executed)
    <3>1. /\ k \in Nat /\ Len(executed') = k + 1 /\ executed'[k + 1] = c
          /\ \A i \in 1..k : executed'[i] = executed[i] /\ executed[i] \in Checkpoints
          /\ executed' # <<>>
      BY <1>8, <2>2
    <3>2. \A d \in Checkpoints : Good(d) => Good(d)'
      BY <2>5, <2>6, GoodKept DEF IInv
    <3>3. Due = (IF k = 0 THEN 0 ELSE executed[k].epoch) + Period
      BY <2>2, <3>1 DEF IInv, ChainInv, Due
    <3>4. \A i \in 1..Len(executed') : Good(executed'[i]) /\ executed'[i] \in Checkpoints
      <4> TAKE i \in 1..Len(executed')
      <4>1. CASE i = k + 1
        BY <1>2, <3>1, <4>1
      <4>2. CASE i \in 1..k
        BY <3>1, <4>2 DEF IInv, ChainInv
      <4> QED
        BY <3>1, <4>1, <4>2
    <3>5. \A i \in 1..Len(executed') :
             executed'[i].epoch = (IF i = 1 THEN 0 ELSE executed'[i-1].epoch) + Period
      <4> TAKE i \in 1..Len(executed')
      <4>1. CASE i = k + 1
        <5>1. k # 0 => k \in 1..k /\ executed'[i-1] = executed[k]
          BY <3>1, <4>1
        <5>2. i = 1 <=> k = 0
          BY <3>1, <4>1
        <5> QED
          BY <2>1, <3>1, <3>3, <4>1, <5>1, <5>2
      <4>2. CASE i \in 1..k
        <5>1. executed'[i] = executed[i] /\ (i # 1 => executed'[i-1] = executed[i-1])
          BY <3>1, <4>2
        <5> QED
          BY <4>2, <5>1 DEF IInv, ChainInv
      <4> QED
        BY <3>1, <4>1, <4>2
    <3>6. released'[0] = 0
      BY <1>1 DEF IInv, ChainInv
    <3> QED
      BY <2>1, <2>3, <3>1, <3>2, <3>4, <3>5, <3>6 DEF ChainInv
  <2>8. IInv'
    BY <1>1, <1>4, <2>3, <2>5, <2>6, <2>7, WorldStep, ZenonT(30)
  <2> QED
    BY <1>1, <1>2, <1>8, <2>1, <2>8
<1> QED
  BY <1>6, <1>7, <1>8 DEF IncludeVote

LEMMA InvStep == IInv /\ [Next]_vars => IInv'
<1> SUFFICES ASSUME IInv, [Next]_vars PROVE IInv'
  OBVIOUS
<1>1. CASE (\E n \in 0..MaxMsgs : ChildBlock(n)) \/ InitializeChild
  BY <1>1, ChainStep
<1>2. CASE \E acc \in Accounts : IncludeVote(acc)
  BY <1>2, VoteStep
<1>3. ASSUME NEW a \in Agents,
             StartManager(a) \/ Committed(a) \/ StopNotified(a) \/ SubmitFails(a) \/ ReadFails(a)
      PROVE  IInv'
  <2>1. UNCHANGED worldVars /\ UNCHANGED pool /\ faults' \in 0..MaxFaults
    BY <1>3, BoundsAssumption
       DEF StartManager, Committed, StopNotified, SubmitFails, ReadFails, Fault, IInv, TypeOK, SubnetActors
  <2>2. \/ Goto(a, "child") \/ EndIteration(a, "stopped") \/ EndIteration(a, "failed")
        \/ /\ manager[a].pc \in Submitting
           /\ Goto(a, "catchup_child") \/ EndSubmission(a, "error_wait")
    BY <1>3, ZenonT(30) DEF StartManager, Committed, StopNotified, SubmitFails, ReadFails, Submitting
  <2> QED
    BY <2>1, <2>2, GotoStep DEF InLoop, Submitting
<1>4. ASSUME NEW a \in Agents, ManagerStep(a) \/ FaultStep(a) \/ StopNotified(a) \/ Respawn(a)
      PROVE  IInv'
  BY <1>3, <1>4, ReadStep, SubmissionReads, PushStep DEF ManagerStep, FaultStep
<1>5. CASE UNCHANGED vars
  <2>1. UNCHANGED <<height, released, initialized, sa, pool, manager, faults, executed>>
    BY <1>5 DEF vars
  <2>2. TypeOK'
    BY <2>1 DEF IInv, TypeOK, SubnetActors
  <2>3. ChainInv'
    BY <2>1 DEF IInv, ChainInv, Good, OpenEpoch, Content, Due
  <2>4. SubmitInv'
    BY <2>1 DEF IInv, SubmitInv, Good, OpenEpoch, Content, Due
  <2>5. ManagerInv'
    BY <2>1 DEF IInv, ManagerInv, Sane, OpenEpoch, Content, Due
  <2> QED
    BY <2>2, <2>3, <2>4, <2>5 DEF IInv
<1> QED
  BY <1>1, <1>2, <1>4, <1>5 DEF Next

LEMMA Invariant == Spec => []IInv
BY InvInit, InvStep, PTL DEF Spec

-------------------------------------------------------------------------------
(* Theorems *)

\* Every variable of the two chains and the managers keeps its type.
THEOREM TypeCorrect == Spec => []TypeOK
<1>1. IInv => TypeOK
  BY DEF IInv
<1> QED
  BY <1>1, Invariant, PTL

\* Submissions for one epoch agree on messages and previous checkpoint,
\* although submit_checkpoint reads them at different heads
\* (bottomup.rs:232-278).
THEOREM Agreement == Spec => []SameEpochSameContent
<1>1. IInv => SameEpochSameContent
  <2> SUFFICES ASSUME IInv,
                      NEW c \in Submitted \cup Executed, NEW d \in Submitted \cup Executed,
                      c.epoch = d.epoch
               PROVE  [c EXCEPT !.proof = 0] = [d EXCEPT !.proof = 0]
    BY ZenonT(30) DEF SameEpochSameContent
  <2>1. \A e \in Submitted : Good(e) /\ e \in Checkpoints
    <3>1. \A acc \in Accounts : \A e \in Pending(acc) : Good(e) /\ e \in Checkpoints
      <4> TAKE acc \in Accounts
      <4> TAKE e \in Pending(acc)
      <4>1. PICK i \in 1..Len(pool[acc]) : e = pool[acc][i]
        BY DEF Pending
      <4>2. pool[acc] \in Seq(Checkpoints)
        BY DEF IInv, TypeOK, SubnetActors
      <4>3. pool[acc][i] \in Checkpoints
        BY <4>2
      <4> QED
        BY <4>1, <4>3 DEF IInv, SubmitInv
    <3>2. \A v \in sa.votes : Good(v.checkpoint) /\ v.checkpoint \in Checkpoints
      BY DEF IInv, SubmitInv, TypeOK, Votes, SubnetActors
    <3> QED
      BY <3>1, <3>2 DEF Submitted
  <2>2. \A e \in Executed : Good(e) /\ e \in Checkpoints
    BY DEF Executed, IInv, ChainInv, TypeOK, SubnetActors
  <2>3. Good(c) /\ c \in Checkpoints /\ Good(d) /\ d \in Checkpoints
    BY <2>1, <2>2
  <2>4. c.lo = d.lo /\ c.hi = d.hi /\ c.prev = d.prev
    BY <2>3 DEF Good, Content
  <2> QED
    BY <2>3, <2>4 DEF Checkpoints
<1> QED
  BY <1>1, Invariant, PTL

\* The executed checkpoints are a chain of prev_check links
\* (bottomup.rs:263-278).
THEOREM Chained == Spec => []ChainedToPrevious
<1>1. IInv => ChainedToPrevious
  <2> SUFFICES ASSUME IInv PROVE ChainedToPrevious
    OBVIOUS
  <2>1. Period \in Nat /\ sa.last_voting_executed \in Nat
    BY PeriodAssumption DEF IInv, TypeOK, SubnetActors
  <2>2. ASSUME NEW i \in 1..Len(executed)
        PROVE  executed[i].prev = (IF i = 1 THEN 0 ELSE executed[i-1].epoch)
    <3> DEFINE p == IF i = 1 THEN 0 ELSE executed[i-1].epoch
    <3>1. executed[i].prev = executed[i].epoch - Period /\ executed[i].epoch = p + Period
      BY DEF IInv, ChainInv, Good
    <3>2. p \in Nat
      <4>1. CASE i = 1
        BY <4>1
      <4>2. CASE i # 1
        <5>1. executed[i-1] \in Checkpoints
          BY <4>2 DEF IInv, TypeOK, SubnetActors
        <5> QED
          BY <4>2, <5>1 DEF Checkpoints
      <4> QED
        BY <4>1, <4>2
    <3> HIDE DEF p
    <3>3. executed[i].prev = p
      BY <2>1, <3>1, <3>2
    <3> QED
      BY <3>3 DEF p
  <2>3. ASSUME NEW v \in sa.votes
        PROVE  v.checkpoint.prev = (IF executed = <<>> THEN 0 ELSE executed[Len(executed)].epoch)
    <3>1. v.checkpoint.prev = sa.last_voting_executed
      BY <2>1 DEF IInv, SubmitInv, Good, Due
    <3> QED
      BY <3>1 DEF IInv, ChainInv
  <2> QED
    BY <2>2, <2>3 DEF ChainedToPrevious
<1> QED
  BY <1>1, Invariant, PTL

\* Agents, votes and pools together do what CheckpointDelivery describes.
THEOREM Refinement == Spec => ImplementsDelivery
<1>1. Init => Delivery!DeliveryInit
  BY DEF Init, Delivery!DeliveryInit, Delivered
<1>2. IInv /\ [Next]_vars => [Delivery!DeliveryNext]_(Delivery!deliveryVars)
  <2> SUFFICES ASSUME IInv, [Next]_vars
               PROVE  \/ Delivery!Execute \/ Delivery!Block
                      \/ UNCHANGED <<height, released, Delivered>>
    BY DEF Delivery!DeliveryNext, Delivery!deliveryVars
  <2>0. UNCHANGED executed => UNCHANGED Delivered
    BY DEF Delivered
  <2>1. ASSUME NEW n \in 0..MaxMsgs, ChildBlock(n) PROVE Delivery!Block
    <3>1. n \in Nat /\ height \in Nat /\ released \in [0..height -> Nat]
      BY BoundsAssumption DEF IInv, TypeOK, SubnetActors
    <3> QED
      BY <2>0, <2>1, <3>1 DEF ChildBlock, Delivery!Block
  <2>2. CASE InitializeChild
    BY <2>0, <2>2 DEF InitializeChild
  <2>3. ASSUME NEW acc \in Accounts, IncludeVote(acc)
        PROVE  Delivery!Execute \/ UNCHANGED <<height, released, Delivered>>
    <3>1. UNCHANGED <<height, released>>
      BY <2>3, VoteStep
    <3>2. ASSUME NEW c \in Checkpoints, Good(c), c.epoch = Due, executed' = Append(executed, c)
          PROVE  Delivery!Execute
      <4> DEFINE D == [epoch : Nat, lo : Nat, hi : Nat]
                 d == [epoch |-> c.epoch, lo |-> c.lo, hi |-> c.hi]
                 k == Len(executed)
      <4>1. executed \in Seq(Checkpoints) /\ k \in Nat
        BY DEF IInv, TypeOK, SubnetActors
      <4>2. /\ Len(executed') = k + 1 /\ executed'[k + 1] = c
            /\ \A i \in 1..k : executed'[i] = executed[i]
        BY <3>2, <4>1
      <4>3. Delivered \in Seq(D) /\ Len(Delivered) = k
        <5>1. \A i \in 1..k : executed[i] \in Checkpoints
          BY <4>1
        <5>2. \A i \in 1..k : [epoch |-> executed[i].epoch, lo |-> executed[i].lo,
                                 hi |-> executed[i].hi] \in D
          BY <5>1 DEF Checkpoints
        <5> QED
          BY <4>1, <5>2 DEF Delivered
      <4>4. d \in D
        BY DEF Checkpoints
      <4>5. Delivered' = Append(Delivered, d)
        <5>1. Delivered' = [i \in 1..(k + 1) |-> [epoch |-> executed'[i].epoch,
                                 lo |-> executed'[i].lo, hi |-> executed'[i].hi]]
          BY <4>2 DEF Delivered
        <5>2. Append(Delivered, d) = [i \in 1..(k + 1) |-> IF i = k + 1 THEN d ELSE Delivered[i]]
          BY <4>1, <4>3, <4>4
        <5>3. \A i \in 1..(k + 1) :
                 [epoch |-> executed'[i].epoch, lo |-> executed'[i].lo, hi |-> executed'[i].hi]
                   = IF i = k + 1 THEN d ELSE Delivered[i]
          BY <4>1, <4>2 DEF Delivered
        <5> QED
          BY <5>1, <5>2, <5>3
      <4>6. (k = 0 <=> executed = <<>>) /\ (k = 0 <=> Delivered = <<>>)
        BY <4>1, <4>3
      <4>7. k # 0 => Delivered[k].epoch = executed[k].epoch /\ Delivered[k].hi = executed[k].hi
        BY <4>1 DEF Delivered
      <4>8. Delivery!NextEpoch(Delivered) = Due
        BY <4>3, <4>6, <4>7 DEF Delivery!NextEpoch, Due, IInv, ChainInv
      <4>9. Delivery!NextNonce(Delivered) = released[sa.last_voting_executed]
        <5>1. k # 0 => executed[k].hi = released[executed[k].epoch]
          BY <4>1 DEF IInv, ChainInv, Good, Content
        <5> QED
          BY <4>3, <4>6, <4>7, <5>1 DEF Delivery!NextNonce, IInv, ChainInv
      <4>10. c.epoch - Period = sa.last_voting_executed
        BY <3>2, PeriodAssumption DEF Due, IInv, TypeOK, SubnetActors
      <4>11. c.lo = released[sa.last_voting_executed] /\ c.hi = released[Due] /\ Due <= height
        BY <3>2, <4>10 DEF Good, Content, OpenEpoch
      <4>12. Delivery!NextCheckpoint(Delivered) = d
        BY <3>2, <4>8, <4>9, <4>11 DEF Delivery!NextCheckpoint
      <4> HIDE DEF d
      <4> QED
        BY <3>1, <4>5, <4>8, <4>11, <4>12 DEF Delivery!Execute
    <3> QED
      BY <2>0, <2>3, <3>1, <3>2, VoteStep
  <2>4. ASSUME NEW a \in Agents, ManagerStep(a) \/ FaultStep(a) \/ StopNotified(a) \/ Respawn(a)
        PROVE  UNCHANGED worldVars
    BY <2>4, ZenonT(30) DEF ManagerStep, FaultStep, StartManager, ReadChildHead, ReadParentState,
         NextAccount, GetTemplate, GetPrevCheckpoint, PushCheckpoint, Committed,
         CatchUpChildHead, CatchUpParentState, SleepElapsed, StopNotified, Respawn,
         SubmitFails, PushAnswerLost, ReadFails, Restart, CheckpointTemplate, ChainHead, PrevCheckpointForChild
  <2>5. UNCHANGED worldVars => UNCHANGED <<height, released, Delivered>>
    BY <2>0 DEF worldVars
  <2>6. CASE UNCHANGED vars
    BY <2>0, <2>6 DEF vars
  <2> QED
    BY <2>1, <2>2, <2>3, <2>4, <2>5, <2>6 DEF Next
<1> QED
  BY <1>1, <1>2, Invariant, PTL DEF Spec, ImplementsDelivery, Delivery!DeliverySpec

-------------------------------------------------------------------------------
\* The accounts whose vote on the due epoch the subnet actor has counted.
Voters == {v.account : v \in sa.votes}
CountInv == Voters \notin Quorums

\* If the proof is not compared, a vote on the due epoch joins those that are
\* there: they agree on everything else, so that its voters are all who voted.
LEMMA VotesAgree ==
  ASSUME ~ProofCounts, IInv, SameEpochSameContent,
         NEW acc \in Accounts, pool[acc] # <<>>, Head(pool[acc]).epoch = Due
  PROVE  LET c == Head(pool[acc])
             votes == sa.votes \cup {[account |-> acc, checkpoint |-> c]}
         IN  VotersOf(c, votes) = {v.account : v \in votes}
<1> DEFINE c == Head(pool[acc])
           votes == sa.votes \cup {[account |-> acc, checkpoint |-> c]}
<1>1. c \in Submitted
  <2>1. pool[acc] \in Seq(Checkpoints)
    BY DEF IInv, TypeOK
  <2>2. 1 \in 1..Len(pool[acc]) /\ c = pool[acc][1]
    BY <2>1
  <2>3. c \in Pending(acc)
    BY <2>2 DEF Pending
  <2> QED
    BY <2>3 DEF Submitted
<1>2. ASSUME NEW v \in sa.votes PROVE SameVote(v.checkpoint, c)
  <2>1. v.checkpoint \in Submitted
    BY DEF Submitted
  <2>2. v.checkpoint.epoch = c.epoch
    BY DEF IInv, SubmitInv
  <2>3. [v.checkpoint EXCEPT !.proof = 0] = [c EXCEPT !.proof = 0]
    BY <1>1, <2>1, <2>2, ZenonT(30) DEF SameEpochSameContent
  <2> QED
    BY <2>3, ZenonT(30) DEF SameVote
<1>3. SameVote(c, c)
  BY ZenonT(30) DEF SameVote
<1>4. \A v \in votes : SameVote(v.checkpoint, c)
  BY <1>2, <1>3
<1> HIDE DEF c, votes
<1>5. VotersOf(c, votes) = {v.account : v \in votes}
  BY <1>4 DEF VotersOf
<1> QED
  BY <1>5, ZenonT(30) DEF c, votes

\* Every step leaves the votes that wait short of a quorum.
LEMMA CountStep ==
  ASSUME ~ProofCounts, {} \notin Quorums, IInv, SameEpochSameContent, CountInv, [Next]_vars
  PROVE  CountInv'
<1>1. ASSUME UNCHANGED sa PROVE CountInv'
  BY <1>1 DEF CountInv, Voters
<1>2. ASSUME NEW acc \in Accounts, IncludeVote(acc) PROVE CountInv'
  <2> DEFINE c == Head(pool[acc])
             votes == sa.votes \cup {[account |-> acc, checkpoint |-> c]}
  <2>1. pool[acc] # <<>>
    BY <1>2 DEF IncludeVote
  <2>2. CASE UNCHANGED sa
    BY <2>2, <1>1
  <2>3. CASE /\ Acceptable(acc, c)
             /\ VotersOf(c, votes) \notin Quorums
             /\ sa' = [sa EXCEPT !.votes = votes]
    <3>1. c.epoch = Due
      BY <2>3 DEF Acceptable, Due
    <3>2. VotersOf(c, votes) = {v.account : v \in votes}
      BY <2>1, <3>1, VotesAgree, ZenonT(30)
    <3>3. sa'.votes = votes
      BY <2>3 DEF IInv, TypeOK, SubnetActors
    <3> HIDE DEF c, votes
    <3> QED
      BY <2>3, <3>2, <3>3 DEF CountInv, Voters
  <2>4. CASE sa' = [last_voting_executed |-> c.epoch, prev |-> c.epoch, votes |-> {}]
    <3>1. sa'.votes = {}
      BY <2>4
    <3> QED
      BY <3>1 DEF CountInv, Voters
  <2> QED
    BY <1>2, <2>2, <2>3, <2>4 DEF IncludeVote
<1>3. CASE (\E n \in 0..MaxMsgs : ChildBlock(n)) \/ InitializeChild
  BY <1>1, <1>3, ZenonT(30) DEF ChildBlock, InitializeChild
<1>4. ASSUME NEW a \in Agents, ManagerStep(a) PROVE CountInv'
  BY <1>1, <1>4, ZenonT(30)
     DEF ManagerStep, StartManager, ReadChildHead, ReadParentState, NextAccount, GetTemplate,
         GetPrevCheckpoint, PushCheckpoint, Committed, CatchUpChildHead, CatchUpParentState,
         SleepElapsed, worldVars
<1>5. ASSUME NEW a \in Agents, FaultStep(a) \/ StopNotified(a) \/ Respawn(a) PROVE CountInv'
  BY <1>1, <1>5, ZenonT(30)
     DEF FaultStep, SubmitFails, PushAnswerLost, ReadFails, Restart, StopNotified, Respawn,
         worldVars
<1>6. CASE UNCHANGED vars
  BY <1>1, <1>6 DEF vars
<1> QED
  BY <1>2, <1>3, <1>4, <1>5, <1>6 DEF Next

\* If the subnet actor does not compare proofs, a quorum of votes on the due
\* epoch executes the checkpoint, whatever was read when and failed on the way:
\* the votes that wait are never a quorum (bottomup.rs:232-278).
THEOREM QuorumsExecute ==
  ASSUME ~ProofCounts, {} \notin Quorums
  PROVE  Spec => [](Voters \notin Quorums)
<1>1. Init => CountInv
  <2>1. Init => sa.votes = {}
    BY DEF Init
  <2>2. sa.votes = {} => Voters = {}
    BY DEF Voters
  <2> QED
    BY <2>1, <2>2 DEF CountInv
<1>2. IInv /\ SameEpochSameContent /\ CountInv /\ [Next]_vars => CountInv'
  BY CountStep
<1>3. CountInv => Voters \notin Quorums
  BY DEF CountInv
<1> QED
  BY <1>1, <1>2, <1>3, Invariant, Agreement, PTL DEF Spec
===============================================================================
