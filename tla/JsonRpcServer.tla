----------------------------- MODULE JsonRpcServer -----------------------------
(***************************************************************************)
(* The life of the JSON-RPC server (server/jsonrpc.rs) in the daemon       *)
(* (cli/commands/daemon.rs), and the way of a request through it and back  *)
(* to a client (jsonrpc/mod.rs).                                           *)
(*                                                                         *)
(* JsonRPCServer::run binds and spawns a server task, waits for a shutdown *)
(* request, notifies the task and joins it.  The task hears of the notify  *)
(* only if it has been polled before.  warp and Toplevel are external: the *)
(* task stops accepting when it is told to and ends when its requests are  *)
(* answered; Toplevel requests a shutdown when a signal arrives or a       *)
(* subsystem fails, and gives the subsystems SUBSYSTEM_WAIT_TIME_SECS.     *)
(* What the handlers do is the subject of SubnetCommands and               *)
(* ReloadableConfig.                                                       *)
(***************************************************************************)
EXTENDS Naturals

CONSTANTS Requests   \* the requests that are made

\* What can be wrong with a request before it gets to a handler: it is rejected
\* if it is no POST, has another path or is no JSON-RPC request, and refused for
\* its version, its method or its parameters.
Kinds == {"rejected", "refused", "good"}

VARIABLES
  run,         \* JsonRPCServer::run
  task,        \* the spawned server task
  notified,    \* the task has a notification to act on
  requested,   \* a shutdown is requested
  other,       \* the checkpoint subsystem
  toplevel,    \* the process
  req,         \* where a request is
  kind,        \* what the client sends
  outcome,     \* what the handler returned: "ok", "error", or "none" if it did not run or finish
  response,    \* what was sent back
  told         \* what the client's caller was told; "lost": an error that is no answer

lifeVars == <<run, task, notified, requested, other, toplevel>>
requestVars == <<req, kind, outcome, response, told>>
serverVars == <<lifeVars, requestVars>>

Responses == {"none", "text", "error", "result"}

ServerTypeOK ==
  /\ run \in {"starting", "listening", "joining", "returned", "panicked"}
  /\ task \in {"none", "spawned", "serving", "draining", "ended"}
  /\ notified \in BOOLEAN /\ requested \in BOOLEAN
  /\ other \in {"running", "returned", "failed"}
  /\ toplevel \in {"running", "clean", "timed_out"}
  /\ req \in [Requests -> {"idle", "sent", "handling", "answered", "dropped"}]
  /\ kind \in [Requests -> Kinds \cup {"none"}]
  /\ outcome \in [Requests -> {"none", "ok", "error"}]
  /\ response \in [Requests -> Responses]
  /\ told \in [Requests -> {"none", "ok", "error", "lost"}]

ServerInit ==
  /\ run = "starting" /\ task = "none" /\ notified = FALSE /\ requested = FALSE
  /\ other = "running" /\ toplevel = "running"
  /\ req = [r \in Requests |-> "idle"] /\ kind = [r \in Requests |-> "none"]
  /\ outcome = [r \in Requests |-> "none"] /\ response = [r \in Requests |-> "none"]
  /\ told = [r \in Requests |-> "none"]

-------------------------------------------------------------------------------
\* The address is bound and the server task spawned; binding may panic.
Bind ==
  /\ run = "starting" /\ toplevel = "running"
  /\ \/ run' = "listening" /\ task' = "spawned" /\ UNCHANGED requested
     \/ run' = "panicked" /\ requested' = TRUE /\ UNCHANGED task
  /\ UNCHANGED <<notified, other, toplevel, requestVars>>

\* The first poll of the task registers notify_recv.notified().
FirstPoll ==
  /\ task = "spawned" /\ toplevel = "running"
  /\ task' = "serving"
  /\ UNCHANGED <<run, notified, requested, other, toplevel, requestVars>>

\* A signal; or the other subsystem fails, which requests a shutdown as well.
RequestShutdown ==
  /\ ~requested /\ toplevel = "running"
  /\ requested' = TRUE
  /\ \/ UNCHANGED other
     \/ other = "running" /\ other' = "failed"
  /\ UNCHANGED <<run, task, notified, toplevel, requestVars>>

\* The checkpoint subsystem returns, when asked or by itself.
OtherReturns ==
  /\ other = "running" /\ toplevel = "running"
  /\ other' = "returned"
  /\ UNCHANGED <<run, task, notified, requested, toplevel, requestVars>>

\* Mutant: the run does not wait for the server task.
NotifyAndReturn ==
  /\ run = "listening" /\ requested /\ toplevel = "running"
  /\ run' = "returned"
  /\ notified' = (task = "serving")
  /\ UNCHANGED <<task, requested, other, toplevel, requestVars>>

\* notify_waiters reaches a task that has registered.
NotifyWaiters ==
  /\ run = "listening" /\ requested /\ toplevel = "running"
  /\ run' = "joining"
  /\ notified' = (task = "serving")
  /\ UNCHANGED <<task, requested, other, toplevel, requestVars>>

\* The task stops accepting ...
StartDraining ==
  /\ task = "serving" /\ notified /\ toplevel = "running"
  /\ task' = "draining"
  /\ UNCHANGED <<run, notified, requested, other, toplevel, requestVars>>

\* ... and ends when the requests under way are answered.
TaskEnds ==
  /\ task = "draining" /\ toplevel = "running"
  /\ \A r \in Requests : req[r] # "handling"
  /\ task' = "ended"
  /\ UNCHANGED <<run, notified, requested, other, toplevel, requestVars>>

\* server_handle.await
Join ==
  /\ run = "joining" /\ task = "ended" /\ toplevel = "running"
  /\ run' = "returned"
  /\ UNCHANGED <<task, notified, requested, other, toplevel, requestVars>>

Ended == run \in {"returned", "panicked"} /\ other # "running"

Exit ==
  /\ toplevel = "running" /\ Ended
  /\ toplevel' = "clean"
  /\ UNCHANGED <<run, task, notified, requested, other, requestVars>>

\* A woken task is polled long before SUBSYSTEM_WAIT_TIME_SECS are over.
Settled ==
  /\ run # "starting" /\ task # "spawned" /\ ~(task = "serving" /\ notified)
  /\ run # "listening" /\ ~(run = "joining" /\ task = "ended") /\ ~Ended
  /\ ~(task = "draining" /\ \A r \in Requests : req[r] # "handling")

\* Mutant: there is no time limit.
NoTimeLimit == FALSE /\ UNCHANGED serverVars

\* handle_shutdown_requests(SUBSYSTEM_WAIT_TIME_SECS)
TimeLimit ==
  /\ toplevel = "running" /\ requested /\ Settled
  /\ toplevel' = "timed_out"
  /\ UNCHANGED <<run, task, notified, requested, other, requestVars>>

-------------------------------------------------------------------------------
\* A request is sent once the address is bound.
Send(r, what) ==
  /\ req[r] = "idle" /\ run \in {"listening", "joining"} /\ toplevel = "running"
  /\ req' = [req EXCEPT ![r] = "sent"]
  /\ kind' = [kind EXCEPT ![r] = what]
  /\ UNCHANGED <<lifeVars, outcome, response, told>>

\* What was sent may be read after the client has given up.
Accept(r) ==
  /\ req[r] = "sent" /\ task = "serving" /\ toplevel = "running"
  /\ req' = [req EXCEPT ![r] = "handling"]
  /\ UNCHANGED <<lifeVars, kind, outcome, response, told>>

\* handle_rejection, to_json_rpc_request: no handler is called.
Reject(r) ==
  /\ req[r] = "handling" /\ toplevel = "running"
  /\ kind[r] = "rejected"
  /\ req' = [req EXCEPT ![r] = "answered"]
  /\ response' = [response EXCEPT ![r] = "text"]
  /\ UNCHANGED <<lifeVars, kind, outcome, told>>

\* handle_request: the version, then Handlers::handle and HandlerWrapper::handle.
HandleRequest(r) ==
  /\ req[r] = "handling" /\ toplevel = "running"
  /\ kind[r] \in {"refused", "good"}
  /\ \E result \in {"ok", "error"} :
       /\ result = "ok" => kind[r] = "good"
       /\ outcome' = [outcome EXCEPT ![r] = IF kind[r] = "good" THEN result ELSE "none"]
       /\ response' = [response EXCEPT ![r] = IF result = "ok" THEN "result" ELSE "error"]
  /\ req' = [req EXCEPT ![r] = "answered"]
  /\ UNCHANGED <<lifeVars, kind, told>>

\* Mutant: the error of a response is not looked at, and no result counts as ().
ResultOfLenient(body) == IF body = "text" THEN "error" ELSE "ok"

\* serde_json::from_str and Result::from: an error, a result, or no result,
\* which is the unit value.
ResultOf(body) == IF body \in {"text", "error"} THEN "error" ELSE "ok"

ClientReceives(r) ==
  /\ req[r] = "answered" /\ told[r] = "none"
  /\ told' = [told EXCEPT ![r] = ResultOf(response[r])]
  /\ UNCHANGED <<lifeVars, req, kind, outcome, response>>

\* send() or text() fails, before, while or after the request is handled: the
\* connection, the listener or the process is gone, or DEFAULT_REQ_TIMEOUT is over.
ClientLoses(r) ==
  /\ req[r] # "idle" /\ told[r] = "none"
  /\ told' = [told EXCEPT ![r] = "lost"]
  /\ UNCHANGED <<lifeVars, req, kind, outcome, response>>

\* The handler of a connection that is closed may be dropped at its await.
DropHandler(r) ==
  /\ req[r] = "handling" /\ told[r] = "lost" /\ toplevel = "running"
  /\ req' = [req EXCEPT ![r] = "dropped"]
  /\ UNCHANGED <<lifeVars, kind, outcome, response, told>>

Daemon ==
  \/ Bind \/ FirstPoll \/ NotifyWaiters \/ StartDraining \/ TaskEnds \/ Join \/ Exit \/ TimeLimit

ServerNext ==
  \/ Daemon \/ RequestShutdown \/ OtherReturns
  \/ \E r \in Requests :
       \/ \E what \in Kinds : Send(r, what)
       \/ Accept(r) \/ Reject(r) \/ HandleRequest(r)
       \/ ClientReceives(r) \/ ClientLoses(r) \/ DropHandler(r)

\* Woken tasks are polled, and the time limit passes.
ServerSpec == ServerInit /\ [][ServerNext]_serverVars /\ WF_serverVars(Daemon)

(***************************************************************************)
(* Properties                                                              *)
(***************************************************************************)

\* When run has returned, no request is left half done: what was accepted is
\* answered or its client has hung up (jsonrpc.rs:82-86).
ReturnsDrained ==
  run = "returned" => \A r \in Requests : req[r] # "handling"

\* What a caller is told is what its handler did: a success only if the handler
\* ran and succeeded, the error of an answer only if it did not succeed, and a
\* handler runs for good requests only (handle_request, jsonrpc.rs:125-176;
\* Result::from, jsonrpc/mod.rs:135).  An error that is no answer says nothing:
\* the response of a request that was done may be lost (jsonrpc/mod.rs:77-79).
ToldWhatHappened ==
  \A r \in Requests :
    /\ told[r] = "ok" => outcome[r] = "ok"
    /\ told[r] = "error" => outcome[r] # "ok"
    /\ outcome[r] # "none" => kind[r] = "good"

\* Once a shutdown is requested the process ends, also if a subsystem does not
\* (handle_shutdown_requests, daemon.rs:44).
ProcessEnds == requested ~> toplevel # "running"
===============================================================================
