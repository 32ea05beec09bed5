----------------------------- MODULE TopDownProofs ----------------------------
(***************************************************************************)
(* Top-down checkpointing for any number of agents, accounts, validators   *)
(* and faults, any quorum system, period and genesis epoch: all agents     *)
(* submit the same checkpoint for an epoch, every message is executed once *)
(* and in order, TopDownManager implements CheckpointDelivery, and no      *)
(* quorum of votes is left waiting.                                        *)
(***************************************************************************)
EXTENDS TopDownManager, TLAPS

Due == gw.last_voting_executed + Period

\* The one checkpoint that may be executed next.
NextUp == [epoch |-> Due, lo |-> gw.applied_topdown_nonce, hi |-> committed[Due]]

\* A checkpoint is genuine if it is the next one, or was executed: an agent
\* may be late, but it is never wrong.
Genuine(c) ==
  \/ Due <= height /\ c = NextUp
  \/ \E i \in 1..Len(executed) : executed[i] = c

\* The same of what a manager remembers of the child's gateway state.
GenuineSnap(s) ==
  /\ s.epoch <= height
  /\ \/ s.epoch = Due /\ s.nonce = gw.applied_topdown_nonce
     \/ \E i \in 1..Len(executed) : executed[i].epoch = s.epoch /\ executed[i].lo = s.nonce

\* The chains: what was executed, and how the gateway's state sums it up.
ChainInv ==
  /\ \A i, j \in 0..height : i <= j => committed[i] <= committed[j]
  /\ \A i \in 1..Len(executed) :
       /\ executed[i].epoch <= height
       /\ executed[i].epoch <= gw.last_voting_executed
       /\ executed[i].hi = committed[executed[i].epoch]
       /\ executed[i].lo = (IF i = 1 THEN 0 ELSE executed[i-1].hi)
       /\ executed[i].lo <= executed[i].hi
  /\ \A i, j \in 1..Len(executed) : i < j => executed[i].epoch < executed[j].epoch
  /\ gw.last_voting_executed =
       (IF executed = <<>> THEN GenesisEpoch ELSE executed[Len(executed)].epoch)
  /\ gw.applied_topdown_nonce =
       (IF executed = <<>> THEN 0 ELSE executed[Len(executed)].hi)

SubmitInv ==
  /\ \A acc \in Accounts : \A i \in 1..Len(pool[acc]) : Genuine(pool[acc][i])
  /\ \A v \in gw.votes : Genuine(v.checkpoint)

InLoop == {"account", "push", "commit", "catchup_parent", "catchup_child", "error_wait"}

ManagerInv ==
  \A a \in Agents :
    /\ manager[a].tip <= height
    /\ manager[a].pc \in InLoop => GenuineSnap(manager[a].outer)
    /\ manager[a].pc = "push" => GenuineSnap(manager[a].cur)
    /\ manager[a].pc \in InLoop \ {"account"} => manager[a].pos \in 1..Len(AccountsOf[a])

IInv == TypeOK /\ ChainInv /\ SubmitInv /\ ManagerInv

-------------------------------------------------------------------------------
(* Lemmas *)

\* A manager turns what it remembers into a genuine checkpoint, at any time
\* after it read it.
LEMMA GenuineCheckpoint ==
  ASSUME TypeOK, ChainInv, NEW s \in Snapshots, GenuineSnap(s)
  PROVE  /\ CheckpointFor(s) \in Checkpoints
         /\ Genuine(CheckpointFor(s))
<1>1. committed[s.epoch] \in Nat
  BY DEF TypeOK, Snapshots, GenuineSnap, Gateways
<1>2. CheckpointFor(s) \in Checkpoints
  BY <1>1 DEF CheckpointFor, Checkpoints, Snapshots, TopDownMsgs
<1>3. CASE s.epoch = Due /\ s.nonce = gw.applied_topdown_nonce
  BY <1>2, <1>3 DEF GenuineSnap, Genuine, CheckpointFor, NextUp, TopDownMsgs
<1>4. ASSUME NEW i \in 1..Len(executed), executed[i].epoch = s.epoch, executed[i].lo = s.nonce
      PROVE  Genuine(CheckpointFor(s))
  <2>1. executed[i] \in Checkpoints
    BY DEF TypeOK, Gateways
  <2>2. executed[i].hi = committed[s.epoch]
    BY <1>4 DEF ChainInv
  <2>3. executed[i] = CheckpointFor(s)
    BY <1>4, <2>1, <2>2 DEF CheckpointFor, Checkpoints, TopDownMsgs
  <2> QED
    BY <2>3 DEF Genuine
<1> QED
  BY <1>2, <1>3, <1>4 DEF GenuineSnap

\* The step either leaves the history alone while the parent may grow, or
\* executes the next checkpoint.
HistoryKept ==
  /\ height <= height'
  /\ \A h \in 0..height : committed'[h] = committed[h]
  /\ \/ UNCHANGED <<executed, gw.last_voting_executed, gw.applied_topdown_nonce>>
     \/ Due <= height /\ executed' = Append(executed, NextUp)

\* What is genuine stays genuine.
LEMMA GenuineKept ==
  ASSUME TypeOK, TypeOK', ChainInv, HistoryKept, NEW c, Genuine(c)
  PROVE  Genuine(c)'
<1>1. CASE UNCHANGED <<executed, gw.last_voting_executed, gw.applied_topdown_nonce>>
  <2>1. Due' = Due /\ (Due <= height => NextUp' = NextUp)
    BY SMTT(30), <1>1, PeriodAssumption DEF Due, NextUp, HistoryKept, TypeOK, Gateways
  <2>2. Due <= height => Due <= height'
    BY SMTT(30), PeriodAssumption DEF HistoryKept, TypeOK, Due, Gateways
  <2> QED
    BY <1>1, <2>1, <2>2 DEF Genuine
<1>2. CASE Due <= height /\ executed' = Append(executed, NextUp)
  <2>1. Len(executed') = Len(executed) + 1 /\ executed'[Len(executed) + 1] = NextUp
        /\ \A i \in 1..Len(executed) : executed'[i] = executed[i]
    BY <1>2 DEF TypeOK, Gateways
  <2>2. Len(executed) \in Nat
    BY DEF TypeOK, Gateways
  <2> QED
    BY <2>1, <2>2 DEF Genuine
<1> QED
  BY <1>1, <1>2 DEF HistoryKept

LEMMA GenuineSnapKept ==
  ASSUME TypeOK, TypeOK', ChainInv, HistoryKept, NEW s \in Snapshots, GenuineSnap(s)
  PROVE  GenuineSnap(s)'
<1>0. s.epoch <= height'
  BY DEF TypeOK, HistoryKept, Snapshots, GenuineSnap, Gateways
<1>1. CASE UNCHANGED <<executed, gw.last_voting_executed, gw.applied_topdown_nonce>>
  BY <1>0, <1>1 DEF GenuineSnap, Due
<1>2. CASE Due <= height /\ executed' = Append(executed, NextUp)
  <2>1. Len(executed') = Len(executed) + 1 /\ executed'[Len(executed) + 1] = NextUp
        /\ \A i \in 1..Len(executed) : executed'[i] = executed[i]
    BY <1>2 DEF TypeOK, Gateways
  <2>2. Len(executed) \in Nat
    BY DEF TypeOK, Gateways
  <2>3. NextUp.epoch = Due /\ NextUp.lo = gw.applied_topdown_nonce
    BY DEF NextUp
  <2> QED
    BY <1>0, <2>1, <2>2, <2>3 DEF GenuineSnap
<1> QED
  BY <1>1, <1>2 DEF HistoryKept

\* An acceptable genuine checkpoint is the next one.
LEMMA AcceptableIsNext ==
  ASSUME TypeOK, ChainInv, NEW acc \in Accounts, NEW c, Genuine(c), Acceptable(acc, c)
  PROVE  Due <= height /\ c = NextUp
<1>1. ASSUME NEW i \in 1..Len(executed), executed[i] = c PROVE FALSE
  <2>1. executed[i].epoch <= gw.last_voting_executed
    BY DEF ChainInv
  <2>2. executed[i] \in Checkpoints
    BY DEF TypeOK, Gateways
  <2>3. c.epoch \in Nat /\ c.epoch <= gw.last_voting_executed
    BY <1>1, <2>1, <2>2 DEF Checkpoints
  <2> QED
    BY <2>3, PeriodAssumption DEF Acceptable, TypeOK, Gateways
<1> QED
  BY <1>1 DEF Genuine

\* The next checkpoint does not end before it begins.
LEMMA NextUpFacts ==
  ASSUME TypeOK, ChainInv, Due <= height
  PROVE  /\ NextUp \in Checkpoints
         /\ gw.applied_topdown_nonce <= committed[Due]
<1>1. Due \in 0..height /\ committed[Due] \in Nat /\ gw.applied_topdown_nonce \in Nat
  BY PeriodAssumption DEF TypeOK, Due, Gateways
<1>2. NextUp \in Checkpoints
  BY <1>1 DEF NextUp, Checkpoints
<1>3. CASE executed = <<>>
  BY <1>1, <1>2, <1>3 DEF ChainInv
<1>4. CASE executed # <<>>
  <2>1. Len(executed) \in 1..Len(executed)
    BY <1>4 DEF TypeOK, Gateways
  <2>2. executed[Len(executed)].epoch = gw.last_voting_executed
        /\ gw.applied_topdown_nonce = committed[gw.last_voting_executed]
        /\ gw.last_voting_executed \in 0..height
    BY <1>4, <2>1 DEF ChainInv, TypeOK, Gateways
  <2> QED
    BY <1>1, <1>2, <2>2, PeriodAssumption DEF ChainInv, Due, TypeOK, Gateways
<1> QED
  BY <1>2, <1>3, <1>4

-------------------------------------------------------------------------------
(* The inductive invariant *)

LEMMA InvInit == Init => IInv
<1> SUFFICES ASSUME Init PROVE IInv
  OBVIOUS
<1>1. NewManager \in Managers
  BY DEF NewManager, Managers, Snapshots, Busy
<1>2. TypeOK
  BY <1>1, GenesisAssumption, BoundsAssumption, AccountsAssumption
     DEF Init, TypeOK, Checkpoints, Gateways
<1>3. ChainInv /\ SubmitInv
  BY DEF Init, ChainInv, SubmitInv
<1>4. ManagerInv
  <2>1. NewManager.tip = 0 /\ NewManager.pc \notin InLoop
    BY DEF NewManager, InLoop
  <2>2. height = 0 /\ \A a \in Agents : manager[a] = NewManager
    BY DEF Init
  <2>3. "push" \in InLoop
    BY DEF InLoop
  <2> SUFFICES ASSUME NEW a \in Agents
               PROVE  manager[a].tip <= height /\ manager[a].pc \notin InLoop
    BY <2>3, ZenonT(30) DEF ManagerInv
  <2> QED
    BY <2>1, <2>2
<1> QED
  BY <1>2, <1>3, <1>4 DEF IInv

\* A step of a manager that pushes nothing touches only that manager.
LEMMA ManagerOnly ==
  ASSUME IInv, NEW a \in Agents, NEW m \in Managers,
         manager' = [manager EXCEPT ![a] = m],
         UNCHANGED <<height, committed, gw, pool, executed>>, faults' \in 0..MaxFaults,
         m.tip <= height,
         m.pc \in InLoop => GenuineSnap(m.outer),
         m.pc = "push" => GenuineSnap(m.cur),
         m.pc \in InLoop \ {"account"} => m.pos \in 1..Len(AccountsOf[a])
  PROVE  IInv'
<1>1. TypeOK'
  BY DEF IInv, TypeOK, Gateways
<1>2. ChainInv'
  BY DEF IInv, ChainInv
<1>3. ASSUME NEW c PROVE Genuine(c)' = Genuine(c)
  BY DEF Genuine, Due, NextUp
<1>4. ASSUME NEW s PROVE GenuineSnap(s)' = GenuineSnap(s)
  BY DEF GenuineSnap, Due
<1>5. SubmitInv'
  BY <1>3 DEF IInv, SubmitInv
<1>6. ManagerInv'
  <2> SUFFICES ASSUME NEW b \in Agents
               PROVE  /\ manager'[b].tip <= height
                      /\ manager'[b].pc \in InLoop => GenuineSnap(manager'[b].outer)
                      /\ manager'[b].pc = "push" => GenuineSnap(manager'[b].cur)
                      /\ manager'[b].pc \in InLoop \ {"account"}
                           => manager'[b].pos \in 1..Len(AccountsOf[b])
    BY <1>4 DEF ManagerInv
  <2>1. CASE b = a
    BY <2>1 DEF IInv, TypeOK, Gateways
  <2>2. CASE b # a
    BY <2>2 DEF IInv, TypeOK, ManagerInv, Gateways
  <2> QED
    BY <2>1, <2>2
<1> QED
  BY <1>1, <1>2, <1>5, <1>6 DEF IInv

\* A step that only moves the manager on, neither into the loop over the
\* accounts nor to a push.
LEMMA GotoStep ==
  ASSUME IInv, NEW a \in Agents, NEW p \in Busy \cup Waiting \cup {"stopped", "failed"},
         Goto(a, p), UNCHANGED <<height, committed, gw, pool, executed>>,
         faults' \in 0..MaxFaults,
         p # "push", p # "account",
         p \in InLoop => manager[a].pc \in InLoop \ {"account"}
  PROVE  IInv'
<1> DEFINE m == manager[a]
           n == [m EXCEPT !.pc = p]
<1>1. m \in Managers /\ manager \in [Agents -> Managers]
  BY DEF IInv, TypeOK, Gateways
<1>2. n \in Managers /\ n.pc = p /\ n.tip = m.tip /\ n.outer = m.outer /\ n.pos = m.pos
  BY <1>1 DEF Managers
<1>3. manager' = [manager EXCEPT ![a] = n]
  BY <1>1 DEF Goto
<1>4. /\ m.tip <= height
      /\ m.pc \in InLoop => GenuineSnap(m.outer)
      /\ m.pc \in InLoop \ {"account"} => m.pos \in 1..Len(AccountsOf[a])
  BY DEF IInv, ManagerInv
<1> HIDE DEF n, m
<1> QED
  BY <1>2, <1>3, <1>4, ManagerOnly, ZenonT(30) DEF m

\* The gateway state a manager reads when a checkpoint is due is genuine.
LEMMA ReadIsGenuine ==
  ASSUME IInv, NEW a \in Agents, manager[a].tip >= ReadGateway.epoch
  PROVE  ReadGateway \in Snapshots /\ GenuineSnap(ReadGateway)
<1>1. ReadGateway.epoch = Due /\ ReadGateway.nonce = gw.applied_topdown_nonce
  BY DEF ReadGateway, Due
<1>2. Due \in Nat /\ gw.applied_topdown_nonce \in Nat
  BY PeriodAssumption DEF IInv, TypeOK, Due, Gateways
<1>3. ReadGateway \in Snapshots
  BY <1>1, <1>2 DEF ReadGateway, Snapshots, Due
<1>4. manager[a].tip \in Nat /\ manager[a].tip <= height /\ height \in Nat
  BY DEF IInv, TypeOK, Managers, ManagerInv, Gateways
<1> QED
  BY <1>1, <1>2, <1>3, <1>4 DEF GenuineSnap

\* The steps of an agent that push nothing.
LEMMA QuietStep ==
  ASSUME IInv, NEW a \in Agents,
         \/ StartManager(a) \/ ReadParentHead(a) \/ ReadChildState(a) \/ NextAccount(a)
         \/ Committed(a) \/ CatchUpParentHead(a) \/ CatchUpChildState(a) \/ SleepElapsed(a)
         \/ StopNotified(a) \/ Respawn(a) \/ SubmitFails(a) \/ ReadFails(a) \/ Restart(a)
  PROVE  IInv'
<1> DEFINE m == manager[a]
<1>1. /\ m \in Managers
      /\ m.tip <= height
      /\ m.pc \in InLoop => GenuineSnap(m.outer)
      /\ m.pc \in InLoop \ {"account"} => m.pos \in 1..Len(AccountsOf[a])
      /\ height \in Nat
      /\ manager \in [Agents -> Managers]
      /\ faults \in 0..MaxFaults
      /\ MaxFaults \in Nat
      /\ m.pos \in Nat \ {0}
  BY BoundsAssumption DEF IInv, TypeOK, ManagerInv, Managers, Gateways
<1>a. m.pos + 1 \in Nat \ {0} /\ 1 \in Nat \ {0} /\ height <= height
  BY <1>1
<1>2. Len(AccountsOf[a]) \in Nat
  BY AccountsAssumption
<1>3. CASE StartManager(a)
  BY <1>1, <1>3, GotoStep DEF StartManager, InLoop, Busy
<1>4. CASE ReadParentHead(a)
  <2> DEFINE n == [m EXCEPT !.pc = "child", !.tip = height]
  <2>1. n \in Managers /\ n.pc = "child" /\ n.tip = height
    BY <1>1, ZenonT(30) DEF Managers, Busy
  <2>2. manager' = [manager EXCEPT ![a] = n]
    BY <1>1, <1>4, ZenonT(30) DEF ReadParentHead, ChainHead
  <2> HIDE DEF n
  <2> QED
    BY <1>1, <1>a, <1>4, <2>1, <2>2, ManagerOnly, ZenonT(30) DEF ReadParentHead, InLoop, ChainHead
<1>5. CASE ReadChildState(a)
  <2>1. CASE gw.initialized /\ m.tip >= ReadGateway.epoch
    <3> DEFINE n == [m EXCEPT !.pc = "account", !.outer = ReadGateway, !.pos = 1]
    <3>1. ReadGateway \in Snapshots /\ GenuineSnap(ReadGateway)
      BY <2>1, ReadIsGenuine
    <3>2. n \in Managers /\ n.pc = "account" /\ n.tip = m.tip /\ n.outer = ReadGateway
      BY <1>1, <1>a, <3>1, ZenonT(30) DEF Managers, Busy
    <3>3. manager' = [manager EXCEPT ![a] = n]
      BY <1>1, <1>5, <2>1, ZenonT(30) DEF ReadChildState
    <3> HIDE DEF n
    <3> QED
      BY <1>1, <1>5, <3>1, <3>2, <3>3, ManagerOnly, ZenonT(30) DEF ReadChildState
  <2>2. CASE ~(gw.initialized /\ m.tip >= ReadGateway.epoch)
    BY <1>1, <1>5, <2>2, GotoStep DEF ReadChildState, InLoop, Waiting
  <2> QED
    BY <2>1, <2>2
<1>6. CASE NextAccount(a)
  <2>1. CASE m.pos > Len(AccountsOf[a])
    BY <1>1, <1>6, <2>1, GotoStep DEF NextAccount, InLoop, Waiting
  <2>2. CASE ~(m.pos > Len(AccountsOf[a])) /\ Account(a) \in Validators
    <3> DEFINE n == [m EXCEPT !.pc = "push", !.cur = m.outer]
    <3>1. n \in Managers /\ n.pc = "push" /\ n.tip = m.tip /\ n.outer = m.outer
          /\ n.cur = m.outer /\ n.pos = m.pos
      BY <1>1, ZenonT(30) DEF Managers, Busy
    <3>2. manager' = [manager EXCEPT ![a] = n]
      BY <1>1, <1>2, <1>6, <2>2, ZenonT(30) DEF NextAccount
    <3>3. m.pos \in 1..Len(AccountsOf[a])
      BY <1>1, <1>2, <2>2
    <3>4. GenuineSnap(m.outer)
      BY <1>1, <1>6 DEF NextAccount, InLoop
    <3> HIDE DEF n
    <3> QED
      BY <1>1, <1>6, <3>1, <3>2, <3>3, <3>4, ManagerOnly, ZenonT(30) DEF NextAccount
  <2>3. CASE ~(m.pos > Len(AccountsOf[a])) /\ Account(a) \notin Validators
    <3> DEFINE n == [m EXCEPT !.pos = @ + 1]
    <3>1. n \in Managers /\ n.pc = m.pc /\ n.tip = m.tip /\ n.outer = m.outer
      BY <1>1, <1>a DEF Managers
    <3>2. manager' = [manager EXCEPT ![a] = n]
      BY <1>1, <1>2, <1>6, <2>3 DEF NextAccount
    <3> HIDE DEF n
    <3> QED
      BY <1>1, <1>6, <3>1, <3>2, ManagerOnly, ZenonT(30) DEF NextAccount
  <2> QED
    BY <1>1, <1>2, <2>1, <2>2, <2>3
<1>7. CASE Committed(a)
  BY <1>1, <1>7, GotoStep DEF Committed, InLoop, Busy
<1>8. CASE CatchUpParentHead(a)
  <2> DEFINE n == [m EXCEPT !.pc = "catchup_child", !.tip = height]
  <2>1. n \in Managers /\ n.pc = "catchup_child" /\ n.tip = height /\ n.outer = m.outer
        /\ n.pos = m.pos
    BY <1>1, ZenonT(30) DEF Managers, Busy
  <2>2. manager' = [manager EXCEPT ![a] = n]
    BY <1>1, <1>8, ZenonT(30) DEF CatchUpParentHead, ChainHead
  <2> HIDE DEF n
  <2> QED
    BY <1>1, <1>a, <1>8, <2>1, <2>2, ManagerOnly, ZenonT(30) DEF CatchUpParentHead, InLoop, ChainHead
<1>9. CASE CatchUpChildState(a)
  <2>1. CASE m.tip >= ReadGateway.epoch
    <3> DEFINE n == [m EXCEPT !.pc = "push", !.cur = ReadGateway]
    <3>1. ReadGateway \in Snapshots /\ GenuineSnap(ReadGateway)
      BY <2>1, ReadIsGenuine
    <3>2. n \in Managers /\ n.pc = "push" /\ n.tip = m.tip /\ n.outer = m.outer
          /\ n.cur = ReadGateway /\ n.pos = m.pos
      BY <1>1, <3>1, ZenonT(30) DEF Managers, Busy
    <3>3. manager' = [manager EXCEPT ![a] = n]
      BY <1>1, <1>9, <2>1, ZenonT(30) DEF CatchUpChildState
    <3> HIDE DEF n
    <3> QED
      BY <1>1, <1>9, <3>1, <3>2, <3>3, ManagerOnly, ZenonT(30) DEF CatchUpChildState, InLoop
  <2>2. CASE ~(m.tip >= ReadGateway.epoch)
    <3> DEFINE n == [m EXCEPT !.pc = "account", !.pos = @ + 1]
    <3>1. n \in Managers /\ n.pc = "account" /\ n.tip = m.tip /\ n.outer = m.outer
      BY <1>1, <1>a, ZenonT(30) DEF Managers, Busy
    <3>2. manager' = [manager EXCEPT ![a] = n]
      BY <1>1, <1>9, <2>2, ZenonT(30) DEF CatchUpChildState
    <3> HIDE DEF n
    <3> QED
      BY <1>1, <1>9, <3>1, <3>2, ManagerOnly, ZenonT(30) DEF CatchUpChildState, InLoop
  <2> QED
    BY <2>1, <2>2
<1>10. CASE SleepElapsed(a)
  <2>1. CASE m.pc = "wait" /\ Goto(a, "parent")
    BY <1>1, <1>10, <2>1, GotoStep DEF SleepElapsed, InLoop, Busy
  <2>2. CASE m.pc = "error_wait" /\ ~(m.pc = "wait")
    <3> DEFINE n == [m EXCEPT !.pc = "account", !.pos = @ + 1]
    <3>1. n \in Managers /\ n.pc = "account" /\ n.tip = m.tip /\ n.outer = m.outer
      BY <1>1, <1>a, ZenonT(30) DEF Managers, Busy
    <3>2. manager' = [manager EXCEPT ![a] = n]
      BY <1>1, <1>10, <2>2, ZenonT(30) DEF SleepElapsed
    <3> HIDE DEF n
    <3> QED
      BY <1>1, <1>10, <2>2, <3>1, <3>2, ManagerOnly, ZenonT(30) DEF SleepElapsed, InLoop
  <2> QED
    BY <1>10, <2>1, <2>2 DEF SleepElapsed
<1>11. CASE StopNotified(a)
  BY <1>1, <1>11, GotoStep DEF StopNotified, InLoop
<1>12. CASE SubmitFails(a)
  BY <1>1, <1>12, GotoStep DEF SubmitFails, Fault, InLoop, Waiting
<1>13. CASE ReadFails(a)
  BY <1>1, <1>13, GotoStep DEF ReadFails, Fault, InLoop
<1>14. CASE Respawn(a) \/ Restart(a)
  <2>1. NewManager \in Managers /\ NewManager.pc \notin InLoop /\ NewManager.tip = 0
        /\ "push" \in InLoop
    BY DEF NewManager, Managers, Snapshots, Busy, InLoop
  <2> QED
    BY <1>1, <1>14, <2>1, ManagerOnly DEF Respawn, Restart, Fault
<1> QED
  BY <1>3, <1>4, <1>5, <1>6, <1>7, <1>8, <1>9, <1>10, <1>11, <1>12, <1>13, <1>14
\* A push adds the genuine checkpoint of what the manager remembers.
LEMMA PushStep ==
  ASSUME IInv, NEW a \in Agents, PushCheckpoint(a) \/ PushAnswerLost(a)
  PROVE  IInv'
<1> DEFINE acc == Account(a)
           c == CheckpointFor(manager[a].cur)
<1>1. manager[a].pc = "push" /\ manager[a].pos \in 1..Len(AccountsOf[a])
  BY DEF PushCheckpoint, PushAnswerLost, IInv, ManagerInv, InLoop
<1>2. acc \in Accounts
  BY <1>1, AccountsAssumption DEF Account
<1>3. manager[a].cur \in Snapshots /\ GenuineSnap(manager[a].cur)
  BY <1>1 DEF IInv, TypeOK, Managers, ManagerInv, Gateways
<1>4. c \in Checkpoints /\ Genuine(c)
  BY <1>3, GenuineCheckpoint DEF IInv
<1> HIDE DEF acc, c
<1>5. CASE UNCHANGED pool
  <2>1. Goto(a, "error_wait") /\ UNCHANGED <<height, committed, gw, pool, executed>>
        /\ faults' \in 0..MaxFaults
    <3>1. pool' # [pool EXCEPT ![acc] = Append(@, c)]
      <4>1. pool[acc] \in Seq(Checkpoints) /\ pool \in [Accounts -> Seq(Checkpoints)]
        BY <1>2 DEF IInv, TypeOK, Gateways
      <4>2. Len(Append(pool[acc], c)) # Len(pool[acc])
        BY <1>4, <4>1
      <4> QED
        BY <1>2, <1>5, <4>1, <4>2
    <3>2. PushCheckpoint(a)
      BY <3>1 DEF PushAnswerLost, acc, c
    <3> QED
      BY <3>1, <3>2, <1>5 DEF PushCheckpoint, acc, c, IInv, TypeOK, Gateways
  <2> QED
    BY <1>1, <2>1, GotoStep DEF InLoop, Waiting
<1>6. CASE pool' = [pool EXCEPT ![acc] = Append(@, c)]
  <2> DEFINE p == IF Goto(a, "commit") THEN "commit" ELSE "error_wait"
  <2>1. Goto(a, p) /\ p \in {"commit", "error_wait"}
        /\ UNCHANGED <<height, committed, gw, executed>> /\ faults' \in 0..MaxFaults
    BY BoundsAssumption DEF PushCheckpoint, PushAnswerLost, Fault, IInv, TypeOK, Gateways
  <2> HIDE DEF p
  <2> DEFINE n == [manager[a] EXCEPT !.pc = p]
  <2>2. manager' = [manager EXCEPT ![a] = n] /\ n \in Managers /\ n.pc = p
        /\ n.tip = manager[a].tip /\ n.outer = manager[a].outer /\ n.pos = manager[a].pos
    BY <2>1, ZenonT(30) DEF Goto, IInv, TypeOK, Managers, Busy, Waiting, Gateways
  <2> HIDE DEF n
  <2>3. pool \in [Accounts -> Seq(Checkpoints)]
    BY DEF IInv, TypeOK, Gateways
  <2>4. pool' \in [Accounts -> Seq(Checkpoints)]
    BY <1>2, <1>4, <1>6, <2>3
  <2>5. TypeOK'
    BY <2>1, <2>2, <2>4 DEF IInv, TypeOK, Gateways
  <2>6. ChainInv'
    BY <2>1 DEF IInv, ChainInv
  <2>7. ASSUME NEW d PROVE Genuine(d)' = Genuine(d)
    BY <2>1 DEF Genuine, Due, NextUp
  <2>8. ASSUME NEW s PROVE GenuineSnap(s)' = GenuineSnap(s)
    BY <2>1 DEF GenuineSnap, Due
  <2>9. SubmitInv'
    <3>1. ASSUME NEW b \in Accounts, NEW i \in 1..Len(pool'[b]) PROVE Genuine(pool'[b][i])
      <4>1. CASE b = acc
        <5>1. pool'[b] = Append(pool[b], c) /\ pool[b] \in Seq(Checkpoints)
          BY <1>2, <1>6, <2>3, <4>1
        <5>2. \/ i \in 1..Len(pool[b]) /\ pool'[b][i] = pool[b][i]
              \/ pool'[b][i] = c
          BY <3>1, <5>1
        <5> QED
          BY <1>4, <5>2 DEF IInv, SubmitInv
      <4>2. CASE b # acc
        BY <1>2, <1>6, <2>3, <3>1, <4>2 DEF IInv, SubmitInv
      <4> QED
        BY <4>1, <4>2
    <3> QED
      BY <3>1, <2>1, <2>7 DEF IInv, SubmitInv
  <2>10. ManagerInv'
    <3> SUFFICES ASSUME NEW b \in Agents
                 PROVE  /\ manager'[b].tip <= height
                        /\ manager'[b].pc \in InLoop => GenuineSnap(manager'[b].outer)
                        /\ manager'[b].pc = "push" => GenuineSnap(manager'[b].cur)
                        /\ manager'[b].pc \in InLoop \ {"account"}
                             => manager'[b].pos \in 1..Len(AccountsOf[b])
      BY <2>1, <2>8 DEF ManagerInv
    <3>1. CASE b = a
      <4>1. manager'[b] = n
        BY <2>2, <3>1 DEF IInv, TypeOK, Gateways
      <4> QED
        BY <1>1, <2>1, <2>2, <3>1, <4>1 DEF IInv, ManagerInv, InLoop
    <3>2. CASE b # a
      <4>1. manager'[b] = manager[b]
        BY <2>2, <3>2 DEF IInv, TypeOK, Gateways
      <4> QED
        BY <4>1 DEF IInv, ManagerInv
    <3> QED
      BY <3>1, <3>2
  <2> QED
    BY <2>5, <2>6, <2>9, <2>10 DEF IInv
<1> QED
  BY <1>5, <1>6 DEF PushCheckpoint, PushAnswerLost, acc, c

\* A step that keeps or extends the history keeps what managers remember.
LEMMA HistoryManagers ==
  ASSUME IInv, TypeOK', HistoryKept, UNCHANGED manager
  PROVE  ManagerInv'
<1> SUFFICES ASSUME NEW a \in Agents
             PROVE  /\ manager[a].tip <= height'
                    /\ manager[a].pc \in InLoop => GenuineSnap(manager[a].outer)'
                    /\ manager[a].pc = "push" => GenuineSnap(manager[a].cur)'
                    /\ manager[a].pc \in InLoop \ {"account"}
                         => manager[a].pos \in 1..Len(AccountsOf[a])
  BY DEF ManagerInv
<1>1. manager[a] \in Managers /\ manager[a].tip \in Nat
      /\ manager[a].outer \in Snapshots /\ manager[a].cur \in Snapshots
  BY DEF IInv, TypeOK, Managers, Gateways
<1>2. manager[a].tip <= height'
  BY <1>1 DEF IInv, TypeOK, HistoryKept, ManagerInv, Gateways
<1>3. \A s \in Snapshots : GenuineSnap(s) => GenuineSnap(s)'
  BY GenuineSnapKept DEF IInv
<1>4. manager[a].pc \in InLoop => GenuineSnap(manager[a].outer)'
  BY <1>1, <1>3 DEF IInv, ManagerInv
<1>5. manager[a].pc = "push" => GenuineSnap(manager[a].cur)'
  BY <1>1, <1>3 DEF IInv, ManagerInv
<1> QED
  BY <1>2, <1>4, <1>5 DEF IInv, ManagerInv

\* The parent grows, the child comes up.
LEMMA ChainStep ==
  ASSUME IInv, (\E n \in 0..MaxMsgs : ParentBlock(n)) \/ InitializeChild
  PROVE  IInv'
<1>1. ASSUME NEW n \in 0..MaxMsgs, ParentBlock(n) PROVE IInv'
  <2>1. n \in Nat /\ height \in Nat /\ committed \in [0..height -> Nat]
    BY BoundsAssumption DEF IInv, TypeOK, Gateways
  <2>2. height' = height + 1 /\ height' \in Nat
    BY <1>1, <2>1 DEF ParentBlock
  <2>3. /\ \A h \in 0..height : committed'[h] = committed[h]
        /\ committed'[height'] = committed[height] + n
        /\ committed' \in [0..height' -> Nat]
    BY <1>1, <2>1, <2>2 DEF ParentBlock
  <2>4. UNCHANGED <<gw, pool, manager, faults, executed>>
    BY <1>1 DEF ParentBlock
  <2>5. TypeOK'
    BY <2>2, <2>3, <2>4 DEF IInv, TypeOK, Gateways
  <2>6. HistoryKept
    BY <2>1, <2>2, <2>3, <2>4 DEF HistoryKept
  <2>7. ChainInv'
    <3>1. \A i, j \in 0..height' : i <= j => committed'[i] <= committed'[j]
      <4> TAKE i, j \in 0..height'
      <4> HAVE i <= j
      <4>1. CASE j \in 0..height
        <5>1. i \in 0..height
          BY <2>1, <4>1
        <5> QED
          BY <2>3, <4>1, <5>1 DEF IInv, ChainInv
      <4>2. CASE j = height' /\ i # j
        <5>1. i \in 0..height /\ height \in 0..height /\ i <= height
          BY <2>1, <2>2, <4>2
        <5>2. committed[i] <= committed[height]
          BY <5>1 DEF IInv, ChainInv
        <5> QED
          BY <2>1, <2>3, <4>2, <5>1, <5>2
      <4>3. CASE i = j
        BY <2>3, <4>3
      <4> QED
        BY <2>1, <2>2, <4>1, <4>2, <4>3
    <3>2. \A i \in 1..Len(executed) :
             executed[i].epoch <= height' /\ executed[i].hi = committed'[executed[i].epoch]
      <4> TAKE i \in 1..Len(executed)
      <4>0. executed[i] \in Checkpoints
        BY DEF IInv, TypeOK, Gateways
      <4>1. executed[i].epoch \in Nat
        BY <4>0 DEF Checkpoints
      <4>2. executed[i].epoch <= height /\ executed[i].hi = committed[executed[i].epoch]
        BY DEF IInv, ChainInv
      <4>3. executed[i].epoch \in 0..height
        BY <2>1, <4>1, <4>2
      <4> QED
        BY <2>1, <2>2, <2>3, <4>1, <4>2, <4>3
    <3> QED
      BY <2>4, <3>1, <3>2 DEF IInv, ChainInv
  <2>8. \A c : Genuine(c) => Genuine(c)'
    BY <2>5, <2>6, GenuineKept DEF IInv
  <2>9. SubmitInv'
    BY <2>4, <2>8 DEF IInv, SubmitInv
  <2> QED
    BY <2>4, <2>5, <2>6, <2>7, <2>9, HistoryManagers DEF IInv
<1>2. CASE InitializeChild
  <2>1. UNCHANGED <<height, committed, pool, manager, faults, executed>>
        /\ gw' = [gw EXCEPT !.initialized = TRUE]
    BY <1>2 DEF InitializeChild
  <2>2. TypeOK'
    BY <2>1, Zenon DEF IInv, TypeOK, Gateways
  <2>3. UNCHANGED <<gw.last_voting_executed, gw.applied_topdown_nonce, gw.votes>>
    BY <2>1 DEF IInv, TypeOK, Gateways
  <2>4. HistoryKept
    BY <2>1, <2>3 DEF HistoryKept, IInv, TypeOK, Gateways
  <2>5. ChainInv'
    BY <2>1, <2>3 DEF IInv, ChainInv
  <2>6. \A c : Genuine(c) => Genuine(c)'
    BY <2>2, <2>4, GenuineKept DEF IInv
  <2>7. SubmitInv'
    BY <2>1, <2>3, <2>6 DEF IInv, SubmitInv
  <2> QED
    BY <2>1, <2>2, <2>4, <2>5, <2>7, HistoryManagers DEF IInv
<1> QED
  BY <1>1, <1>2

\* A vote is refused, counted, or the last of a quorum.
LEMMA VoteStep ==
  ASSUME IInv, NEW acc \in Accounts, IncludeVote(acc)
  PROVE  /\ IInv'
         /\ UNCHANGED <<height, committed>>
         /\ UNCHANGED executed \/ (Due <= height /\ executed' = Append(executed, NextUp))
<1> DEFINE c == Head(pool[acc])
           vote == [account |-> acc, checkpoint |-> c]
           votes == gw.votes \cup {vote}
<1>1. /\ pool \in [Accounts -> Seq(Checkpoints)] /\ pool[acc] # <<>>
      /\ pool' = [pool EXCEPT ![acc] = Tail(@)]
      /\ UNCHANGED <<height, committed, manager, faults>>
  BY DEF IInv, TypeOK, IncludeVote, Gateways
<1>2. c \in Checkpoints /\ Genuine(c)
  <2>1. pool[acc] \in Seq(Checkpoints) /\ 1 \in 1..Len(pool[acc]) /\ c = pool[acc][1]
    BY <1>1
  <2> QED
    BY <2>1 DEF IInv, SubmitInv
<1>3. pool' \in [Accounts -> Seq(Checkpoints)]
  BY <1>1
<1>4. \A b \in Accounts : \A i \in 1..Len(pool'[b]) : Genuine(pool'[b][i])
  <2> TAKE b \in Accounts
  <2> TAKE i \in 1..Len(pool'[b])
  <2>1. CASE b = acc
    <3>1. pool'[b] = Tail(pool[b]) /\ pool[b] \in Seq(Checkpoints) /\ pool[b] # <<>>
      BY <1>1, <2>1
    <3>2. i + 1 \in 1..Len(pool[b]) /\ pool'[b][i] = pool[b][i + 1]
      BY <3>1
    <3> QED
      BY <3>2 DEF IInv, SubmitInv
  <2>2. CASE b # acc
    <3>1. pool'[b] = pool[b]
      BY <1>1, <2>2
    <3> QED
      BY <3>1 DEF IInv, SubmitInv
  <2> QED
    BY <2>1, <2>2
<1>5. vote \in Votes /\ votes \in SUBSET Votes
  BY <1>2 DEF Votes, IInv, TypeOK, Gateways
<1>6. ASSUME TypeOK', HistoryKept, ChainInv',
             \A v \in gw'.votes : v \in votes
      PROVE  IInv'
  <2>1. \A d : Genuine(d) => Genuine(d)'
    BY <1>6, GenuineKept DEF IInv
  <2>2. \A v \in votes : Genuine(v.checkpoint)
    BY <1>2 DEF IInv, SubmitInv
  <2>3. SubmitInv'
    BY <1>4, <1>6, <2>1, <2>2 DEF SubmitInv
  <2>4. ManagerInv'
    BY <1>1, <1>6, HistoryManagers
  <2> QED
    BY <1>6, <2>3, <2>4 DEF IInv
<1>7. CASE UNCHANGED <<gw, executed>>
  <2>1. TypeOK'
    BY <1>1, <1>3, <1>7 DEF IInv, TypeOK, Gateways
  <2>2. ChainInv'
    BY <1>1, <1>7 DEF IInv, ChainInv
  <2>3. HistoryKept
    BY <1>1, <1>7 DEF HistoryKept, IInv, TypeOK, Gateways
  <2> QED
    BY <1>1, <1>6, <1>7, <2>1, <2>2, <2>3
<1>8. CASE gw' = [gw EXCEPT !.votes = votes] /\ UNCHANGED executed
  <2>1. UNCHANGED <<gw.last_voting_executed, gw.applied_topdown_nonce>> /\ gw'.votes = votes
    BY <1>8 DEF IInv, TypeOK, Gateways
  <2>2. TypeOK'
    BY <1>1, <1>3, <1>5, <1>8, Zenon DEF IInv, TypeOK, Gateways
  <2>3. ChainInv' /\ HistoryKept
    BY <1>1, <1>8, <2>1 DEF IInv, TypeOK, ChainInv, HistoryKept, Gateways
  <2> QED
    BY <1>1, <1>6, <1>8, <2>1, <2>2, <2>3
<1>9. CASE /\ Acceptable(acc, c)
           /\ gw' = [gw EXCEPT !.last_voting_executed = c.epoch,
                               !.applied_topdown_nonce = @ + (c.hi - c.lo),
                               !.votes = {}]
           /\ executed' = Append(executed, c)
  <2>1. Due <= height /\ c = NextUp
    BY <1>2, <1>9, AcceptableIsNext DEF IInv
  <2>2. NextUp \in Checkpoints /\ gw.applied_topdown_nonce <= committed[Due]
    BY <2>1, NextUpFacts DEF IInv
  <2>3. c.epoch = Due /\ c.lo = gw.applied_topdown_nonce /\ c.hi = committed[Due]
        /\ Due \in Nat /\ committed[Due] \in Nat /\ gw.applied_topdown_nonce \in Nat
    <3>1. c.epoch = Due /\ c.lo = gw.applied_topdown_nonce /\ c.hi = committed[Due]
      BY <2>1 DEF NextUp
    <3>2. c.epoch \in Nat /\ c.lo \in Nat /\ c.hi \in Nat
      BY <2>1, <2>2 DEF Checkpoints
    <3> QED
      BY <3>1, <3>2
  <2>4. gw.applied_topdown_nonce + (c.hi - c.lo) = committed[Due]
    BY <2>3
  <2>5. gw' = [gw EXCEPT !.last_voting_executed = Due,
                         !.applied_topdown_nonce = committed[Due], !.votes = {}]
    BY <1>9, <2>3, <2>4, ZenonT(30)
  <2>6. /\ gw'.last_voting_executed = Due /\ gw'.applied_topdown_nonce = committed[Due]
        /\ gw'.votes = {}
    BY <2>5 DEF IInv, TypeOK, Gateways
  <2>7. executed \in Seq(Checkpoints) /\ executed' \in Seq(Checkpoints)
    BY <1>2, <1>9 DEF IInv, TypeOK, Gateways
  <2>8. gw' \in [initialized : BOOLEAN, last_voting_executed : Nat,
                 applied_topdown_nonce : Nat, votes : SUBSET Votes]
    <3>1. {} \in SUBSET Votes
      OBVIOUS
    <3> QED
      BY <2>3, <2>5, <3>1, Zenon DEF IInv, TypeOK, Gateways
  <2>9. TypeOK'
    BY <1>1, <1>3, <2>7, <2>8 DEF IInv, TypeOK, Gateways
  <2>10. HistoryKept
    BY <1>1, <1>9, <2>1 DEF HistoryKept, IInv, TypeOK, Gateways
  <2>11. ChainInv'
    <3> DEFINE k == Len(executed)
    <3>1. /\ k \in Nat /\ Len(executed') = k + 1 /\ executed'[k + 1] = c
          /\ \A i \in 1..k : executed'[i] = executed[i]
          /\ executed' # <<>>
      BY <1>9, <2>7
    <3>2. gw.last_voting_executed \in Nat /\ gw.last_voting_executed < Due
      BY PeriodAssumption DEF Due, IInv, TypeOK, Gateways
    <3>3. \A i \in 1..k : executed[i].epoch \in Nat /\ executed[i].epoch <= gw.last_voting_executed
      <4> TAKE i \in 1..k
      <4>1. executed[i] \in Checkpoints
        BY <2>7
      <4> QED
        BY <4>1 DEF IInv, ChainInv, Checkpoints
    <3>4. gw.applied_topdown_nonce = IF k = 0 THEN 0 ELSE executed[k].hi
      BY <2>7, <3>1 DEF IInv, ChainInv
    <3>5. \A i \in 1..Len(executed') : /\ executed'[i].epoch <= height
                                       /\ executed'[i].epoch <= Due
                                       /\ executed'[i].hi = committed[executed'[i].epoch]
      <4> TAKE i \in 1..Len(executed')
      <4>1. CASE i = k + 1
        BY <2>1, <2>3, <3>1, <4>1
      <4>2. CASE i \in 1..k
        BY SMTT(30), <3>1, <3>2, <3>3, <2>3, <4>2 DEF IInv, ChainInv
      <4> QED
        BY <3>1, <4>1, <4>2
    <3>6. \A i \in 1..Len(executed') :
             /\ executed'[i].lo = (IF i = 1 THEN 0 ELSE executed'[i-1].hi)
             /\ executed'[i].lo <= executed'[i].hi
      <4> TAKE i \in 1..Len(executed')
      <4>1. CASE i = k + 1
        <5>1. k # 0 => k \in 1..k /\ executed'[i-1] = executed[k]
          BY <3>1, <4>1
        <5>2. executed'[i].lo = gw.applied_topdown_nonce /\ executed'[i].hi = committed[Due]
          BY <2>3, <3>1, <4>1
        <5>3. i = 1 <=> k = 0
          BY <3>1, <4>1
        <5> QED
          BY <2>2, <3>4, <5>1, <5>2, <5>3
      <4>2. CASE i \in 1..k
        <5>1. executed'[i] = executed[i] /\ (i # 1 => executed'[i-1] = executed[i-1])
          BY <3>1, <4>2
        <5> QED
          BY <4>2, <5>1 DEF IInv, ChainInv
      <4> QED
        BY <3>1, <4>1, <4>2
    <3>7. \A i, j \in 1..Len(executed') : i < j => executed'[i].epoch < executed'[j].epoch
      <4> TAKE i, j \in 1..Len(executed')
      <4> HAVE i < j
      <4>1. i \in 1..k
        BY <3>1
      <4>2. CASE j = k + 1
        BY <2>3, <3>1, <3>2, <3>3, <4>1, <4>2
      <4>3. CASE j \in 1..k
        BY <3>1, <4>1, <4>3 DEF IInv, ChainInv
      <4> QED
        BY SMTT(30), <3>1, <4>2, <4>3
    <3> QED
      BY <1>1, <2>3, <2>6, <3>1, <3>5, <3>6, <3>7 DEF IInv, ChainInv
  <2> QED
    BY <1>1, <1>6, <1>9, <2>1, <2>6, <2>9, <2>10, <2>11
<1> QED
  BY <1>7, <1>8, <1>9 DEF IncludeVote

LEMMA InvStep == IInv /\ [Next]_vars => IInv'
<1> SUFFICES ASSUME IInv, [Next]_vars PROVE IInv'
  OBVIOUS
<1>1. CASE (\E n \in 0..MaxMsgs : ParentBlock(n)) \/ InitializeChild
  BY <1>1, ChainStep
<1>2. CASE \E acc \in Accounts : IncludeVote(acc)
  BY <1>2, VoteStep
<1>3. ASSUME NEW a \in Agents, ManagerStep(a) \/ FaultStep(a) \/ StopNotified(a) \/ Respawn(a)
      PROVE  IInv'
  BY <1>3, QuietStep, PushStep DEF ManagerStep, FaultStep
<1>4. CASE UNCHANGED vars
  <2>1. UNCHANGED <<height, committed, gw, pool, manager, faults, executed>>
    BY <1>4 DEF vars
  <2>2. TypeOK'
    BY <2>1 DEF IInv, TypeOK, Gateways
  <2>3. ChainInv'
    BY <2>1 DEF IInv, ChainInv
  <2>4. SubmitInv'
    BY <2>1 DEF IInv, SubmitInv, Genuine, Due, NextUp
  <2>5. ManagerInv'
    BY <2>1 DEF IInv, ManagerInv, GenuineSnap, Due
  <2> QED
    BY <2>2, <2>3, <2>4, <2>5 DEF IInv
<1> QED
  BY <1>1, <1>2, <1>3, <1>4 DEF Next

LEMMA Invariant == Spec => []IInv
BY InvInit, InvStep, PTL DEF Spec

-------------------------------------------------------------------------------
(* Theorems *)

\* Every variable of the two chains and the managers keeps its type.
THEOREM TypeCorrect == Spec => []TypeOK
<1>1. IInv => TypeOK
  BY DEF IInv
<1> QED
  BY <1>1, Invariant, PTL

\* Two submissions for one epoch, pending, voted on or executed, are equal
\* (topdown.rs:238-240): no quorum is ever split.
THEOREM Deterministic == Spec => []SameEpochSameMessages
<1>1. IInv => SameEpochSameMessages
  <2> SUFFICES ASSUME IInv,
                      NEW c \in Submitted \cup {executed[i] : i \in 1..Len(executed)},
                      NEW d \in Submitted \cup {executed[i] : i \in 1..Len(executed)},
                      c.epoch = d.epoch
               PROVE  c = d
    BY DEF SameEpochSameMessages
  <2>1. \A e \in Submitted : Genuine(e)
    <3>1. \A acc \in Accounts : \A e \in Pending(acc) : Genuine(e)
      BY DEF Pending, IInv, SubmitInv
    <3>2. \A e \in {v.checkpoint : v \in gw.votes} : Genuine(e)
      BY DEF IInv, SubmitInv
    <3> QED
      BY <3>1, <3>2 DEF Submitted
  <2>2. \A e \in {executed[i] : i \in 1..Len(executed)} : Genuine(e)
    BY DEF Genuine
  <2>3. Genuine(c) /\ Genuine(d)
    BY <2>1, <2>2
  <2>4. NextUp.epoch = gw.last_voting_executed + Period
    BY DEF NextUp, Due
  <2>5. \A i \in 1..Len(executed) :
           executed[i].epoch \in Nat /\ executed[i].epoch < gw.last_voting_executed + Period
    <3> TAKE i \in 1..Len(executed)
    <3>1. executed[i] \in Checkpoints
      BY DEF IInv, TypeOK, Gateways
    <3>2. executed[i].epoch <= gw.last_voting_executed /\ gw.last_voting_executed \in Nat
      BY DEF IInv, ChainInv, TypeOK, Gateways
    <3> QED
      BY <3>1, <3>2, PeriodAssumption DEF Checkpoints
  <2>6. \A i, j \in 1..Len(executed) : executed[i].epoch = executed[j].epoch => i = j
    <3> TAKE i, j \in 1..Len(executed)
    <3>1. i < j \/ j < i \/ i = j
      BY DEF IInv, TypeOK, Gateways
    <3> QED
      BY <2>5, <3>1 DEF IInv, ChainInv
  <2> QED
    BY <2>3, <2>4, <2>5, <2>6 DEF Genuine
<1> QED
  BY <1>1, Invariant, PTL

\* The child executes every top-down message of the parent once and in
\* order (topdown.rs:236, 255-257).
THEOREM ExactlyOnce == Spec => []InOrderExactlyOnce
<1>1. IInv => InOrderExactlyOnce
  BY DEF IInv, ChainInv, InOrderExactlyOnce
<1> QED
  BY <1>1, Invariant, PTL

\* Agents, votes and pools together do what CheckpointDelivery describes.
THEOREM Refinement == Spec => ImplementsDelivery
<1>1. Init => Delivery!DeliveryInit
  BY DEF Init, Delivery!DeliveryInit
<1>2. IInv /\ [Next]_vars => [Delivery!DeliveryNext]_(Delivery!deliveryVars)
  <2> SUFFICES ASSUME IInv, [Next]_vars
               PROVE  Delivery!Execute \/ Delivery!Block \/ UNCHANGED <<height, committed, executed>>
    BY DEF Delivery!DeliveryNext, Delivery!deliveryVars
  <2>1. ASSUME NEW n \in 0..MaxMsgs, ParentBlock(n) PROVE Delivery!Block
    <3>1. n \in Nat /\ height \in Nat /\ committed \in [0..height -> Nat]
      BY BoundsAssumption DEF IInv, TypeOK, Gateways
    <3> QED
      BY <2>1, <3>1 DEF ParentBlock, Delivery!Block
  <2>2. CASE InitializeChild
    BY <2>2 DEF InitializeChild
  <2>3. ASSUME NEW acc \in Accounts, IncludeVote(acc)
        PROVE  Delivery!Execute \/ UNCHANGED <<height, committed, executed>>
    <3>1. /\ UNCHANGED <<height, committed>>
          /\ UNCHANGED executed \/ (Due <= height /\ executed' = Append(executed, NextUp))
      BY <2>3, VoteStep
    <3>2. Delivery!NextEpoch(executed) = Due
      BY DEF Delivery!NextEpoch, Due, IInv, ChainInv
    <3>3. Delivery!NextNonce(executed) = gw.applied_topdown_nonce
      BY DEF Delivery!NextNonce, IInv, ChainInv
    <3>4. Delivery!NextCheckpoint(executed) = NextUp
      BY <3>2, <3>3 DEF Delivery!NextCheckpoint, NextUp
    <3> QED
      BY <3>1, <3>2, <3>4 DEF Delivery!Execute
  <2>4. ASSUME NEW a \in Agents, ManagerStep(a) \/ FaultStep(a) \/ StopNotified(a) \/ Respawn(a)
        PROVE  UNCHANGED <<height, committed, executed>>
    BY <2>4 DEF ManagerStep, FaultStep, StartManager, ReadParentHead, ReadChildState,
         NextAccount, PushCheckpoint, Committed, CatchUpParentHead, CatchUpChildState,
         SleepElapsed, StopNotified, Respawn, SubmitFails, PushAnswerLost, ReadFails, Restart, ChainHead
  <2>5. CASE UNCHANGED vars
    BY <2>5 DEF vars
  <2> QED
    BY <2>1, <2>2, <2>3, <2>4, <2>5 DEF Next
<1> QED
  BY <1>1, <1>2, Invariant, PTL DEF Spec, ImplementsDelivery, Delivery!DeliverySpec

-------------------------------------------------------------------------------
\* The accounts whose vote on the due epoch the gateway has counted.
Voters == {v.account : v \in gw.votes}

\* What is left of them after an execution: votes on the due epoch, by accounts
\* that are not yet a quorum.
CountInv ==
  /\ \A v \in gw.votes : v.checkpoint.epoch = Due
  /\ Voters \notin Quorums

\* A vote on the due epoch joins those that are there: all of them are for the
\* same checkpoint, so that its voters are all who voted.
LEMMA VotesAgree ==
  ASSUME IInv, SameEpochSameMessages, CountInv,
         NEW acc \in Accounts, pool[acc] # <<>>, Head(pool[acc]).epoch = Due
  PROVE  LET c == Head(pool[acc])
             votes == gw.votes \cup {[account |-> acc, checkpoint |-> c]}
         IN  /\ \A v \in votes : v.checkpoint = c
             /\ VotersOf(c, votes) = {v.account : v \in votes}
<1> DEFINE c == Head(pool[acc])
           votes == gw.votes \cup {[account |-> acc, checkpoint |-> c]}
<1>1. c \in Submitted
  <2>1. pool[acc] \in Seq(Checkpoints)
    BY DEF IInv, TypeOK
  <2>2. 1 \in 1..Len(pool[acc]) /\ c = pool[acc][1]
    BY <2>1
  <2>3. c \in Pending(acc)
    BY <2>2 DEF Pending
  <2> QED
    BY <2>3 DEF Submitted
<1>2. ASSUME NEW v \in gw.votes PROVE v.checkpoint = c
  <2>1. v.checkpoint \in Submitted
    BY DEF Submitted
  <2>2. v.checkpoint.epoch = c.epoch
    BY DEF CountInv
  <2> QED
    BY <1>1, <2>1, <2>2 DEF SameEpochSameMessages
<1>3. \A v \in votes : v.checkpoint = c
  BY <1>2
<1> HIDE DEF c, votes
<1>4. VotersOf(c, votes) = {v.account : v \in votes}
  BY <1>3 DEF VotersOf
<1> QED
  BY <1>3, <1>4, ZenonT(30) DEF c, votes

\* Every step leaves the votes that wait short of a quorum.
LEMMA CountStep ==
  ASSUME {} \notin Quorums, IInv, SameEpochSameMessages, CountInv, [Next]_vars
  PROVE  CountInv'
<1>1. ASSUME UNCHANGED <<gw.votes, gw.last_voting_executed>> PROVE CountInv'
  BY <1>1 DEF CountInv, Voters, Due
<1>2. ASSUME NEW acc \in Accounts, IncludeVote(acc) PROVE CountInv'
  <2> DEFINE c == Head(pool[acc])
             votes == gw.votes \cup {[account |-> acc, checkpoint |-> c]}
  <2>1. pool[acc] # <<>>
    BY <1>2 DEF IncludeVote
  <2>2. CASE UNCHANGED gw
    BY <2>2, <1>1
  <2>3. CASE /\ Acceptable(acc, c)
             /\ VotersOf(c, votes) \notin Quorums
             /\ gw' = [gw EXCEPT !.votes = votes]
    <3>1. c.epoch = Due
      BY <2>3 DEF Acceptable, Due
    <3>2. VotersOf(c, votes) = {v.account : v \in votes} /\ \A v \in votes : v.checkpoint = c
      BY <2>1, <3>1, VotesAgree, ZenonT(30)
    <3>3. gw'.votes = votes /\ gw'.last_voting_executed = gw.last_voting_executed
      BY <2>3 DEF IInv, TypeOK, Gateways
    <3> HIDE DEF c, votes
    <3> QED
      BY <2>3, <3>1, <3>2, <3>3 DEF CountInv, Voters, Due
  <2>4. CASE /\ Acceptable(acc, c)
             /\ gw' = [gw EXCEPT !.last_voting_executed = c.epoch,
                                 !.applied_topdown_nonce = @ + (c.hi - c.lo),
                                 !.votes = {}]
    <3>1. gw'.votes = {}
      BY <2>4 DEF IInv, TypeOK, Gateways
    <3> QED
      BY <3>1 DEF CountInv, Voters
  <2> QED
    BY <1>2, <2>2, <2>3, <2>4 DEF IncludeVote
<1>3. CASE \E n \in 0..MaxMsgs : ParentBlock(n)
  BY <1>1, <1>3 DEF ParentBlock
<1>4. CASE InitializeChild
  BY <1>1, <1>4 DEF InitializeChild, IInv, TypeOK, Gateways
<1>5. ASSUME NEW a \in Agents, ManagerStep(a) PROVE CountInv'
  BY <1>1, <1>5, ZenonT(30)
     DEF ManagerStep, StartManager, ReadParentHead, ReadChildState, NextAccount, PushCheckpoint,
         Committed, CatchUpParentHead, CatchUpChildState, SleepElapsed
<1>6. ASSUME NEW a \in Agents, FaultStep(a) \/ StopNotified(a) \/ Respawn(a) PROVE CountInv'
  BY <1>1, <1>6, ZenonT(30)
     DEF FaultStep, SubmitFails, PushAnswerLost, ReadFails, Restart, StopNotified, Respawn
<1>7. CASE UNCHANGED vars
  BY <1>1, <1>7 DEF vars
<1> QED
  BY <1>2, <1>3, <1>4, <1>5, <1>6, <1>7 DEF Next

\* As soon as a quorum of the validators has voted on the due epoch, in whatever
\* order and after whatever faults, the checkpoint is executed: the votes that
\* wait are never a quorum, because no quorum is split over different contents.
\* (topdown.rs:238-240)
THEOREM QuorumsExecute ==
  ASSUME {} \notin Quorums
  PROVE  Spec => [](Voters \notin Quorums)
<1>1. Init => CountInv
  <2>1. Init => gw.votes = {}
    BY DEF Init
  <2>2. gw.votes = {} => Voters = {}
    BY DEF Voters
  <2> QED
    BY <2>1, <2>2 DEF CountInv
<1>2. IInv /\ SameEpochSameMessages /\ CountInv /\ [Next]_vars => CountInv'
  BY CountStep
<1>3. CountInv => Voters \notin Quorums
  BY DEF CountInv
<1> QED
  BY <1>1, <1>2, <1>3, Invariant, Deterministic, PTL DEF Spec
===============================================================================
