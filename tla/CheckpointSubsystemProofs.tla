----------------------- MODULE CheckpointSubsystemProofs ----------------------
(***************************************************************************)
(* CheckpointSubsystem for every config tree, channel capacity and number  *)
(* of overlapping reload requests: its types, that no child is ever        *)
(* managed twice, that run() leaves nothing behind when it returns Ok,     *)
(* that a settled subsystem manages the latest config, that a panic is not *)
(* forgotten and that a stopped round whose managers have ended is never   *)
(* stuck.                                                                  *)
(***************************************************************************)
EXTENDS CheckpointSubsystem, TLAPS

\* What makes NoDoubleManagement inductive: a live task belongs to this
\* round, and while the driver runs it still holds that task's handle, so a
\* driver that is done has seen all of them end.
RoundInv ==
  /\ \A t \in TaskIds : Live(t) => t.gen = gen
  /\ driver = "driving" => \A t \in TaskIds : Live(t) => t \in futures
  /\ driver = "done" => \A t \in TaskIds : ~Live(t)
  /\ pc \in {"start", "load", "returned_ok"} => driver = "done"

-------------------------------------------------------------------------------
\* Types hold initially and every step preserves them.
LEMMA TypeInit == Init => TypeOK
<1> SUFFICES ASSUME Init PROVE TypeOK
  OBVIOUS
<1>1. ConfigTypeOK
  BY CapacityAssumption DEF Init, ConfigInit, ConfigTypeOK, RequestStates
<1> QED
  BY <1>1, ZenonT(30) DEF Init, TypeOK, ConfigTypeOK, Phases

LEMMA TypeStep == TypeOK /\ [Next]_vars => TypeOK'
<1> SUFFICES ASSUME TypeOK, [Next]_vars PROVE TypeOK'
  OBVIOUS
<1> USE CapacityAssumption DEF TypeOK, ConfigTypeOK
<1>1. ASSUME NEW r \in Requests, NEW p \in Paths \cup {NoPath}, HandleReload(r, p),
             UNCHANGED subsystemVars
      PROVE  TypeOK'
  BY <1>1, SentinelAssumption DEF HandleReload, subsystemVars, RequestStates
<1>2. ASSUME NEW r \in Requests, ReloadReadPath(r), UNCHANGED subsystemVars
      PROVE  TypeOK'
  BY <1>2 DEF ReloadReadPath, subsystemVars, RequestStates
<1>3. ASSUME NEW r \in Requests, ReloadReadFile(r), UNCHANGED subsystemVars
      PROVE  TypeOK'
  <2>1. request[r].path \in Paths
    BY <1>3 DEF ReloadReadFile, RequestStates, Idle
  <2> QED
    BY <1>3, <2>1 DEF ReloadReadFile, subsystemVars, RequestStates, Idle
<1>4. ASSUME NEW r \in Requests, ReloadWrite(r), UNCHANGED subsystemVars
      PROVE  TypeOK'
  <2>1. request[r].new_config \in Configs
    BY <1>4 DEF ReloadWrite, RequestStates, Idle
  <2> QED
    BY <1>4, <2>1 DEF ReloadWrite, subsystemVars, RequestStates, Idle
<1>5. ASSUME NEW p \in Paths, NEW c \in Configs \cup {Unreadable}, EditFile(p, c),
             UNCHANGED subsystemVars
      PROVE  TypeOK'
  BY <1>5 DEF EditFile, subsystemVars
<1>16. ASSUME NEW r \in Requests, ReloadDropped(r), UNCHANGED subsystemVars
       PROVE  TypeOK'
  BY <1>16 DEF ReloadDropped, subsystemVars, RequestStates
<1>6. CASE Subscribe
  BY <1>6 DEF Subscribe
<1>7. CASE LoadAndSpawn
  <2>1. futures' \subseteq TaskIds
    BY <1>7 DEF LoadAndSpawn
  <2>2. tasks' \in [TaskIds -> Phases]
    BY <1>7 DEF LoadAndSpawn, Phases, LivePhases, Live
  <2>3. ConfigTypeOK'
    BY <1>7 DEF LoadAndSpawn, configVars
  <2>4. gen' \in {0, 1} /\ managed' \in Configs /\ driver' = "driving" /\ pc' = "select"
        /\ UNCHANGED <<isShutdown, shutdownRequested>>
    BY <1>7 DEF LoadAndSpawn
  <2> QED
    BY <2>1, <2>2, <2>3, <2>4
<1>8. CASE SelectShutdown
  BY <1>8 DEF SelectShutdown, configVars
<1>9. CASE SelectConfigChanged
  <2>1. unread' \in 0..(Capacity + 1)
    BY <1>9 DEF SelectConfigChanged
  <2>2. isShutdown' \in BOOLEAN
    BY <1>9, Zenon DEF SelectConfigChanged
  <2> QED
    BY <1>9, <2>1, <2>2 DEF SelectConfigChanged
<1>10. CASE NotifyWaiters
  BY <1>10 DEF NotifyWaiters, configVars, Phases, LivePhases
<1>11. CASE AwaitDriver
  BY <1>11 DEF AwaitDriver, configVars
<1>12. CASE Driver
  BY <1>12 DEF Driver, DriverDone, DriverNext, configVars
<1>13. ASSUME NEW t \in TaskIds, Manager(t) PROVE TypeOK'
  BY <1>13 DEF Manager, EnterWait, SleepElapsed, StopHeard, ManagerFails, ManagerPanics,
               Step, configVars, Phases, LivePhases, EndedPhases
<1>14. CASE RequestShutdown
  BY <1>14 DEF RequestShutdown, configVars
<1>15. CASE UNCHANGED vars
  BY <1>15 DEF vars, configVars, subsystemVars
<1> QED
  BY <1>1, <1>2, <1>3, <1>4, <1>5, <1>6, <1>7, <1>8, <1>9, <1>10, <1>11, <1>12, <1>13,
     <1>14, <1>15, <1>16 DEF Next, ConfigNext, MainTask

\* The types of CheckpointSubsystem and of the config it watches.
THEOREM TypeCorrect == Spec => []TypeOK
BY TypeInit, TypeStep, PTL DEF Spec

-------------------------------------------------------------------------------
\* The rounds: tasks, driver and main task stay in step.
LEMMA RoundInit == Init => RoundInv
BY DEF Init, RoundInv, Live, LivePhases

LEMMA RoundStep == TypeOK /\ RoundInv /\ [Next]_vars => RoundInv'
<1> SUFFICES ASSUME TypeOK, RoundInv, [Next]_vars PROVE RoundInv'
  OBVIOUS
<1> USE DEF TypeOK, RoundInv, Live, LivePhases
<1>1. CASE ConfigNext /\ UNCHANGED subsystemVars
  BY <1>1 DEF subsystemVars
<1>2. CASE Subscribe
  BY <1>2 DEF Subscribe
<1>3. CASE LoadAndSpawn
  <2>1. \A t \in TaskIds : ~Live(t)
    BY <1>3 DEF LoadAndSpawn
  <2>2. \A t \in TaskIds : Live(t)' => t \in futures' /\ t.gen = gen'
    BY <1>3, <2>1 DEF LoadAndSpawn
  <2> QED
    BY <1>3, <2>2 DEF LoadAndSpawn
<1>4. CASE SelectShutdown
  BY <1>4 DEF SelectShutdown
<1>5. CASE SelectConfigChanged
  BY <1>5 DEF SelectConfigChanged
<1>6. CASE NotifyWaiters
  <2>1. \A t \in TaskIds : Live(t)' => Live(t)
    BY <1>6 DEF NotifyWaiters
  <2> QED
    BY <1>6, <2>1 DEF NotifyWaiters
<1>7. CASE AwaitDriver
  BY <1>7 DEF AwaitDriver
<1>8. CASE Driver
  BY <1>8 DEF Driver, DriverDone, DriverNext, Ended, EndedPhases
<1>9. ASSUME NEW t \in TaskIds, Manager(t) PROVE RoundInv'
  <2>1. Live(t) /\ \A u \in TaskIds : Live(u)' => Live(u)
    BY <1>9 DEF Manager, EnterWait, SleepElapsed, StopHeard, ManagerFails, ManagerPanics, Step
  <2>2. UNCHANGED <<gen, futures, driver, pc>>
    BY <1>9 DEF Manager, EnterWait, SleepElapsed, StopHeard, ManagerFails, ManagerPanics, Step
  <2> QED
    BY <2>1, <2>2
<1>10. CASE RequestShutdown
  BY <1>10 DEF RequestShutdown
<1>11. CASE UNCHANGED vars
  BY <1>11 DEF vars, subsystemVars
<1> QED
  BY <1>1, <1>2, <1>3, <1>4, <1>5, <1>6, <1>7, <1>8, <1>9, <1>10, <1>11 DEF Next, MainTask

LEMMA RoundInvariant == Spec => [](TypeOK /\ RoundInv)
<1>1. Init => TypeOK /\ RoundInv
  BY TypeInit, RoundInit
<1>2. TypeOK /\ RoundInv /\ [Next]_vars => (TypeOK /\ RoundInv)'
  BY TypeStep, RoundStep
<1> QED
  BY <1>1, <1>2, PTL DEF Spec

\* However reloads, failures and panics interleave, a child has at most one
\* running manager per direction.
THEOREM NeverManagedTwice == Spec => []NoDoubleManagement
<1>1. TypeOK /\ RoundInv => NoDoubleManagement
  BY DEF TypeOK, RoundInv, NoDoubleManagement, TaskIds
<1> QED
  BY <1>1, RoundInvariant, PTL

\* run() returns Ok only when every manager it spawned has ended.
THEOREM ReturnsClean == Spec => []CleanReturn
<1>1. TypeOK /\ RoundInv => CleanReturn
  BY DEF TypeOK, RoundInv, CleanReturn
<1> QED
  BY <1>1, RoundInvariant, PTL

\* With no broadcast left to receive, the subnets under management are those
\* of the config get_config returns.
THEOREM SettledIsLatest == Spec => []SettledOnLatestConfig
<1>1. Init => SettledOnLatestConfig
  BY DEF Init, SettledOnLatestConfig
<1>2. TypeOK /\ SettledOnLatestConfig /\ [Next]_vars => SettledOnLatestConfig'
  <2> SUFFICES ASSUME TypeOK, SettledOnLatestConfig, [Next]_vars
               PROVE  SettledOnLatestConfig'
    OBVIOUS
  <2> USE DEF SettledOnLatestConfig
  <2>1. CASE ConfigNext /\ UNCHANGED subsystemVars
    <3>1. UNCHANGED <<config, unread>> \/ unread' > 0
      BY <2>1, CapacityAssumption
         DEF ConfigNext, HandleReload, ReloadReadPath, ReloadReadFile, ReloadWrite,
             ReloadDropped, EditFile, TypeOK, ConfigTypeOK
    <3> QED
      BY <2>1, <3>1 DEF subsystemVars
  <2>2. CASE MainTask
    BY <2>2 DEF MainTask, Subscribe, LoadAndSpawn, SelectShutdown, SelectConfigChanged,
                NotifyWaiters, AwaitDriver, configVars
  <2>3. CASE Driver \/ (\E t \in TaskIds : Manager(t)) \/ RequestShutdown \/ UNCHANGED vars
    BY <2>3 DEF Driver, DriverDone, DriverNext, Manager, EnterWait, SleepElapsed, StopHeard,
                ManagerFails, ManagerPanics, Step, RequestShutdown, configVars, vars,
                subsystemVars
  <2> QED
    BY <2>1, <2>2, <2>3 DEF Next
<1> QED
  BY <1>1, <1>2, TypeCorrect, PTL DEF Spec

-------------------------------------------------------------------------------
\* A panicked driver is replaced only by the next round, which AwaitDriver does
\* not start: the panic of a manager stays, and run() neither loads a config
\* nor returns Ok after it (checkpoint.rs:75, 111).  This is what PanicSurfaces
\* says, but for the time it takes.
THEOREM PanicStays ==
  Spec => [](driver = "panicked"
               => [](driver = "panicked" /\ pc \in {"select", "stop", "join", "returned_err"}))
<1> DEFINE P == driver = "panicked"
           Q == pc \in {"select", "stop", "join", "returned_err"}
<1>1. TypeOK /\ RoundInv => (P => Q)
  BY DEF TypeOK, RoundInv
<1>2. TypeOK /\ RoundInv /\ P /\ [Next]_vars => P'
  <2> SUFFICES ASSUME TypeOK, RoundInv, P, [Next]_vars PROVE P'
    OBVIOUS
  <2>1. CASE MainTask
    BY <2>1 DEF MainTask, Subscribe, LoadAndSpawn, SelectShutdown, SelectConfigChanged,
                NotifyWaiters, AwaitDriver, RoundInv
  <2>2. CASE Driver
    BY <2>2 DEF Driver, DriverDone, DriverNext
  <2>3. CASE (ConfigNext /\ UNCHANGED subsystemVars) \/ RequestShutdown \/ UNCHANGED vars
    BY <2>3 DEF RequestShutdown, vars, subsystemVars
  <2>4. ASSUME NEW t \in TaskIds, Manager(t) PROVE P'
    BY <2>4 DEF Manager, EnterWait, SleepElapsed, StopHeard, ManagerFails, ManagerPanics, Step
  <2> QED
    BY <2>1, <2>2, <2>3, <2>4 DEF Next
<1> HIDE DEF P, Q
<1>3. Spec => [](P => [](P /\ Q))
  BY <1>1, <1>2, RoundInvariant, PTL DEF Spec
<1> QED
  BY <1>3 DEF P, Q

\* The driver holds handles of spawned tasks.
HandlesInv == \A t \in futures : tasks[t] # "none"

\* Every step keeps it.
LEMMA HandlesStep == TypeOK /\ HandlesInv /\ [Next]_vars => HandlesInv'
<1> SUFFICES ASSUME TypeOK, HandlesInv, [Next]_vars PROVE HandlesInv'
  OBVIOUS
<1> USE DEF TypeOK, HandlesInv
<1>1. CASE UNCHANGED <<futures, tasks>>
  BY <1>1
<1>2. CASE LoadAndSpawn
  BY <1>2 DEF LoadAndSpawn
<1>3. CASE NotifyWaiters
  BY <1>3 DEF NotifyWaiters
<1>4. CASE Driver
  BY <1>4 DEF Driver, DriverDone, DriverNext
<1>5. ASSUME NEW t \in TaskIds, Manager(t) PROVE HandlesInv'
  BY <1>5 DEF Manager, EnterWait, SleepElapsed, StopHeard, ManagerFails, ManagerPanics, Step
<1>6. CASE Subscribe \/ SelectShutdown \/ SelectConfigChanged \/ AwaitDriver \/ RequestShutdown
  BY <1>1, <1>6 DEF Subscribe, SelectShutdown, SelectConfigChanged, AwaitDriver, RequestShutdown
<1>7. CASE (ConfigNext /\ UNCHANGED subsystemVars) \/ UNCHANGED vars
  BY <1>1, <1>7 DEF vars, subsystemVars
<1> QED
  BY <1>2, <1>3, <1>4, <1>5, <1>6, <1>7 DEF Next, MainTask

Drained == pc = "join" /\ \A t \in TaskIds : ~Live(t)

\* The guard of a step that ends a drained round, or brings its end nearer.
CanAdvance ==
  \/ driver # "driving"
  \/ futures = {}
  \/ \E t \in futures : Ended(t)

\* A drained round stays drained until it is over; the driver takes up no handle
\* again, and each of its steps takes one away or is its last.
Advances ==
  Drained => \/ pc' # "join"
             \/ /\ Drained'
                /\ futures' \subseteq futures
                /\ driver # "driving" => driver' = driver
                /\ Driver => futures' # futures \/ driver' # "driving"

\* When all managers of a stopped round have ended, nothing the driver waits for
\* can keep it: it has an ended task to take, or is finished itself, and each of
\* its steps takes it on.  This is DrainedRoundEnds but for the driver's being
\* scheduled (checkpoint.rs:73-86, 111).
THEOREM DrainedNeverStuck ==
  Spec => /\ [](Drained => CanAdvance)
          /\ [][Advances]_vars
<1>1. Init => HandlesInv
  BY DEF Init, HandlesInv
<1>2. TypeOK /\ HandlesInv => (Drained => CanAdvance)
  BY DEF TypeOK, HandlesInv, Drained, CanAdvance, Live, Ended, Phases
<1>3. TypeOK /\ [Next]_vars => [Advances]_vars
  <2> SUFFICES ASSUME TypeOK, Next, Drained, pc' = "join"
               PROVE  /\ Drained'
                      /\ futures' \subseteq futures
                      /\ driver # "driving" => driver' = driver
                      /\ Driver => futures' # futures \/ driver' # "driving"
    BY DEF Advances
  <2>1. CASE Driver
    BY <2>1 DEF Driver, DriverDone, DriverNext, Drained, Live
  <2>2. CASE ~Driver
    <3>1. CASE MainTask
      BY <3>1 DEF MainTask, Subscribe, LoadAndSpawn, SelectShutdown, SelectConfigChanged,
                  NotifyWaiters, AwaitDriver, Drained
    <3>2. ASSUME NEW t \in TaskIds, Manager(t) PROVE FALSE
      BY <3>2 DEF Manager, EnterWait, SleepElapsed, StopHeard, ManagerFails, ManagerPanics, Step,
                  Drained, Live, LivePhases
    <3>3. CASE (ConfigNext /\ UNCHANGED subsystemVars) \/ RequestShutdown
      BY <2>2, <3>3 DEF RequestShutdown, subsystemVars, Drained, Live
    <3> QED
      BY <2>2, <3>1, <3>2, <3>3 DEF Next
  <2> QED
    BY <2>1, <2>2
<1> QED
  BY <1>1, <1>2, <1>3, TypeCorrect, HandlesStep, PTL DEF Spec
===============================================================================
