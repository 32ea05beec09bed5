-------------------------- MODULE CheckpointSubsystem -------------------------
(***************************************************************************)
(* CheckpointSubsystem::run (src/src/manager/checkpoint.rs) together with  *)
(* the configuration it watches.                                           *)
(*                                                                         *)
(* Each round loads the config, spawns one bottom-up and one top-down      *)
(* manager per managed child with a fresh tokio Notify, hands the join     *)
(* handles to a driver task, and selects between a shutdown request and a  *)
(* config broadcast.  It then fires notify_waiters(), which reaches only   *)
(* the managers that are inside wait_next_iteration at that instant, and   *)
(* awaits the driver.                                                      *)
(*                                                                         *)
(* A manager is seen from outside: "busy" between two waits, "waiting"     *)
(* inside wait_next_iteration, "notified" when the Notify woke it there.   *)
(* TopDownManager and BottomUpManager detail what happens while it is busy.*)
(***************************************************************************)
EXTENDS ReloadableConfig

CONSTANTS
  Subnets,     \* the subnet ids a config may list
  NoParent,    \* SubnetID::parent() of the root
  Parent       \* [Subnets -> Subnets \cup {NoParent}]

\* What the checkpoint subsystem uses of a config: the subnets listed, and
\* which of them have at least one account.
ASSUME ConfigsAssumption ==
  Configs \subseteq [subnets : SUBSET Subnets, accounts : SUBSET Subnets]
ASSUME ParentAssumption ==
  Parent \in [Subnets -> Subnets \cup {NoParent}] /\ NoParent \notin Subnets

VARIABLES
  pc,                \* where run() is
  isShutdown,        \* the local is_shutdown
  shutdownRequested, \* the SubsystemHandle's shutdown token
  managed,           \* the config this round was started with
  gen,               \* tags the tasks of this round; alternates, see TaskIds
  tasks,             \* the spawned manager tasks
  futures,           \* the join handles still in the FuturesUnordered
  driver             \* manage_subnets_task

subsystemVars == <<pc, isShutdown, shutdownRequested, managed, gen, tasks,
                   futures, driver>>
vars == <<configVars, subsystemVars>>

Directions == {"bottomup", "topdown"}

\* A task belongs to the Notify of the round that spawned it.  Two tags are
\* enough to tell a task of this round from one left over from the last.
TaskIds == [gen : {0, 1}, child : Subnets, dir : Directions]

LivePhases  == {"busy", "waiting", "notified"}
EndedPhases == {"ok", "err", "panicked"}
Phases == {"none"} \cup LivePhases \cup EndedPhases

Live(t)  == tasks[t] \in LivePhases
Ended(t) == tasks[t] \in EndedPhases

TypeOK ==
  /\ ConfigTypeOK
  /\ pc \in {"start", "load", "select", "stop", "join", "returned_ok",
             "returned_err"}
  /\ isShutdown \in BOOLEAN
  /\ shutdownRequested \in BOOLEAN
  /\ managed \in Configs
  /\ gen \in {0, 1}
  /\ tasks \in [TaskIds -> Phases]
  /\ futures \subseteq TaskIds
  /\ driver \in {"driving", "done", "panicked"}

Init ==
  /\ ConfigInit
  /\ pc = "start"
  /\ isShutdown = FALSE
  /\ shutdownRequested = FALSE
  /\ managed = config
  /\ gen = 0
  /\ tasks = [t \in TaskIds |-> "none"]
  /\ futures = {}
  /\ driver = "done"

-------------------------------------------------------------------------------
(* The main task *)

\* subnets_to_manage: the children that have an account and whose parent is
\* in the config too.
SubnetsToManage(c) ==
  {s \in c.subnets : s \in c.accounts /\ Parent[s] \in c.subnets}

\* new_subscriber(): the receiver sees what is broadcast from now on.
Subscribe ==
  /\ pc = "start"
  /\ unread' = 0
  /\ pc' = "load"
  /\ UNCHANGED <<files, path, config, request, isShutdown,
                 shutdownRequested, managed, gen, tasks, futures, driver>>

\* Mutant: the config is loaded once, before the loop.
SpawnFromFirstConfig ==
  /\ pc = "load"
  /\ gen' = 1 - gen
  /\ futures' = {t \in TaskIds : t.gen = gen' /\ t.child \in SubnetsToManage(managed)}
  /\ tasks' = [t \in TaskIds |->
                 IF t \in futures' THEN "busy"
                 ELSE IF Live(t) THEN tasks[t] ELSE "none"]
  /\ driver' = "driving"
  /\ pc' = "select"
  /\ UNCHANGED <<configVars, isShutdown, shutdownRequested, managed>>

\* get_config, then a manager of each direction for every managed child, and
\* the driver task.  There is no await in between.  What ended before this
\* round is forgotten; what is still alive is not.
LoadAndSpawn ==
  /\ pc = "load"
  /\ managed' = config
  /\ gen' = 1 - gen
  /\ futures' = {t \in TaskIds : t.gen = gen' /\ t.child \in SubnetsToManage(config)}
  /\ tasks' = [t \in TaskIds |->
                 IF t \in futures' THEN "busy"
                 ELSE IF Live(t) THEN tasks[t] ELSE "none"]
  /\ driver' = "driving"
  /\ pc' = "select"
  /\ UNCHANGED <<configVars, isShutdown, shutdownRequested>>

SelectShutdown ==
  /\ pc = "select"
  /\ shutdownRequested
  /\ isShutdown' = TRUE
  /\ pc' = "stop"
  /\ UNCHANGED <<configVars, shutdownRequested, managed, gen, tasks, futures, driver>>

\* config_chan.recv(): every Err is taken for a closed channel, also the
\* Lagged(n) of a receiver that fell more than Capacity messages behind.
SelectConfigChanged ==
  /\ pc = "select"
  /\ unread > 0
  /\ IF unread <= Capacity
       THEN unread' = unread - 1 /\ isShutdown' = FALSE
       ELSE unread' = Capacity   /\ isShutdown' = TRUE
  /\ pc' = "stop"
  /\ UNCHANGED <<files, path, config, request, shutdownRequested,
                 managed, gen, tasks, futures, driver>>

\* notify_waiters() stores no permit: only tasks registered now are woken.
NotifyWaiters ==
  /\ pc = "stop"
  /\ tasks' = [t \in TaskIds |->
                 IF t.gen = gen /\ tasks[t] = "waiting" THEN "notified" ELSE tasks[t]]
  /\ pc' = "join"
  /\ UNCHANGED <<configVars, isShutdown, shutdownRequested, managed, gen, futures, driver>>

\* Mutants of the join: the driver is not awaited; it is not awaited on the
\* way out; the result of its await is dropped; a message it sends when it
\* is done is awaited instead.
JoinWith(ready, next) ==
  /\ pc = "join"
  /\ ready
  /\ pc' = next
  /\ UNCHANGED <<configVars, isShutdown, shutdownRequested, managed, gen, tasks,
                 futures, driver>>
ReturnOrLoad == IF isShutdown THEN "returned_ok" ELSE "load"
NoJoin == JoinWith(TRUE, ReturnOrLoad)
NoJoinOnShutdown == JoinWith(isShutdown \/ driver # "driving", ReturnOrLoad)
JoinErrorDropped == JoinWith(driver # "driving", ReturnOrLoad)
JoinByMessage == JoinWith(driver = "done", ReturnOrLoad)

\* manage_subnets_task.await?, then return or start the next round.
AwaitDriver ==
  /\ pc = "join"
  /\ driver # "driving"
  /\ pc' = IF driver = "panicked" THEN "returned_err"
           ELSE IF isShutdown THEN "returned_ok" ELSE "load"
  /\ UNCHANGED <<configVars, isShutdown, shutdownRequested, managed, gen, tasks,
                 futures, driver>>

-------------------------------------------------------------------------------
(* manage_subnets_task *)

\* A finished manager's Err is only logged; a panicked one makes the driver
\* panic, which drops the other join handles and leaves their tasks running.
DriverNext(t) ==
  /\ driver = "driving"
  /\ t \in futures
  /\ Ended(t)
  /\ IF tasks[t] = "panicked"
       THEN driver' = "panicked" /\ futures' = {}
       ELSE futures' = futures \ {t} /\ UNCHANGED driver
  /\ UNCHANGED <<configVars, pc, isShutdown, shutdownRequested, managed, gen, tasks>>

DriverDone ==
  /\ driver = "driving"
  /\ futures = {}
  /\ driver' = "done"
  /\ UNCHANGED <<configVars, pc, isShutdown, shutdownRequested, managed, gen, tasks, futures>>

-------------------------------------------------------------------------------
(* A manager task *)

Step(t, from, to) ==
  /\ tasks[t] \in from
  /\ tasks' = [tasks EXCEPT ![t] = to]
  /\ UNCHANGED <<configVars, pc, isShutdown, shutdownRequested, managed, gen, futures, driver>>

\* Enters wait_next_iteration.
EnterWait(t) == Step(t, {"busy"}, "waiting")

\* The sleep branch of wait_next_iteration.  It may also be taken by a
\* notified task whose sleep had elapsed when it was polled.
SleepElapsed(t) == Step(t, {"waiting", "notified"}, "busy")

\* The notified branch: the manager returns Ok.
StopHeard(t) == Step(t, {"notified"}, "ok")

\* A `?` in the manager, and an assert_eq!, unwrap or expect.
ManagerFails(t)  == Step(t, {"busy"}, "err")
ManagerPanics(t) == Step(t, {"busy"}, "panicked")

-------------------------------------------------------------------------------
\* A signal, or another subsystem's failure: Toplevel asks everyone to stop.
RequestShutdown ==
  /\ ~shutdownRequested
  /\ shutdownRequested' = TRUE
  /\ UNCHANGED <<configVars, pc, isShutdown, managed, gen, tasks, futures, driver>>

MainTask == \/ Subscribe \/ LoadAndSpawn \/ SelectShutdown \/ SelectConfigChanged
            \/ NotifyWaiters \/ AwaitDriver
Driver   == DriverDone \/ \E t \in TaskIds : DriverNext(t)
Manager(t) == EnterWait(t) \/ SleepElapsed(t) \/ StopHeard(t)
                \/ ManagerFails(t) \/ ManagerPanics(t)

Next ==
  \/ ConfigNext /\ UNCHANGED subsystemVars
  \/ MainTask
  \/ Driver
  \/ \E t \in TaskIds : Manager(t)
  \/ RequestShutdown

Spec == Init /\ [][Next]_vars

\* The tokio runtime polls every woken task, each RPC of a manager ends
\* within its 30 s timeout and each sleep after 10 s.
FairSpec ==
  /\ Spec
  /\ WF_vars(MainTask)
  /\ WF_vars(Driver)
  /\ \A t \in TaskIds : WF_vars(Manager(t))

(***************************************************************************)
(* Properties                                                              *)
(***************************************************************************)

\* At no time do two managers of the same direction run for one child, over
\* all reloads, manager failures and panics: the next round starts only
\* when every task of the last one has ended (checkpoint.rs:111).
NoDoubleManagement ==
  \A t, u \in TaskIds : (Live(t) /\ Live(u) /\ t.child = u.child /\ t.dir = u.dir) => t = u

\* "at all, times, the subnets under management are those in the latest
\* version of the config" (checkpoint.rs:27), while run() is in its select
\* and has no broadcast to receive.
SettledOnLatestConfig ==
  (pc = "select" /\ unread = 0) => managed = config

\* A clean return of run() leaves no manager behind (checkpoint.rs:108-114).
CleanReturn ==
  pc = "returned_ok" => \A t \in TaskIds : ~Live(t)

\* A manager's panic makes run() return an error as soon as a reload or a
\* shutdown request arrives (checkpoint.rs:75, 111).
PanicSurfaces ==
  (driver = "panicked" /\ pc # "returned_err" /\ (shutdownRequested \/ unread > 0))
    ~> (pc = "returned_err")

\* Once the last manager of a stopped round has ended, the round is over.
DrainedRoundEnds ==
  (pc = "join" /\ \A t \in TaskIds : ~Live(t)) ~> (pc # "join")

\* "Cleanly stop the `manage_subnet` futures" (checkpoint.rs:108): a round
\* that was asked to stop does stop.
StoppedRoundEnds ==
  (pc = "join") ~> (pc # "join")

\* A config reload "should pick up the latest config and restart all
\* checkpointing processes" (troubleshooting.md:43): however many arrive while
\* a round is being stopped, run() returns without an error only when a
\* shutdown was requested (checkpoint.rs:96-104, 113).
ReloadRestarts ==
  pc = "returned_ok" => shutdownRequested
===============================================================================
