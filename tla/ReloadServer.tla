------------------------------ MODULE ReloadServer -----------------------------
(***************************************************************************)
(* The daemon's reload request from end to end: a client's JSON-RPC        *)
(* request, the server that routes it (JsonRpcServer), and the handler     *)
(* that sets the path, reads the file and replaces the config              *)
(* (ReloadableConfig).  Every good request is a reload.  Requests are      *)
(* handled concurrently, on several threads, and a handler is dropped at   *)
(* its await when its connection closes.                                   *)
(***************************************************************************)
EXTENDS JsonRpcServer

CONSTANTS
  Paths, NoPath, Unreadable, Capacity, Configs,
  MaxEdits    \* bound: how often the operator edits a file

ASSUME ReloadAssumption ==
  /\ Capacity \in Nat \ {0}
  /\ Unreadable \notin Configs /\ NoPath \notin Paths
  /\ MaxEdits \in Nat

VARIABLES
  files, path, config, unread, request,
  held,    \* history: what the files have held since the current, or else the
           \* last, batch of overlapping reloads began
  named,   \* history: the paths that were set in that time
  wrote,   \* history: whether one of these reloads has replaced the config
  edits    \* the edits so far

reloadVars == <<files, path, config, unread, request>>
historyVars == <<held, named, wrote, edits>>
reloadServerVars == <<serverVars, reloadVars, historyVars>>

C == INSTANCE ReloadableConfig

ReloadServerTypeOK ==
  /\ ServerTypeOK
  /\ C!ConfigTypeOK
  /\ held \subseteq Paths \X (Configs \cup {Unreadable})
  /\ named \subseteq Paths
  /\ wrote \in BOOLEAN
  /\ edits \in 0..MaxEdits

ReloadServerInit ==
  /\ ServerInit
  /\ C!ConfigInit
  /\ held = {} /\ named = {} /\ wrote = FALSE /\ edits = 0

-------------------------------------------------------------------------------
Reloading == \E r \in Requests : request[r] # C!Idle

\* Handlers::handle finds ReloadConfigHandler.
CallHandler(r, p) ==
  /\ req[r] = "handling" /\ kind[r] = "good" /\ toplevel = "running"
  /\ C!HandleReload(r, p)
  /\ named' = {path'} \cup (IF Reloading THEN named ELSE {})
  /\ held' = IF Reloading THEN held ELSE {<<q, files[q]>> : q \in Paths}
  /\ wrote' = (Reloading /\ wrote)
  /\ UNCHANGED <<serverVars, edits>>

\* The handler goes on ...
ReadPath(r) ==
  /\ toplevel = "running"
  /\ C!ReloadReadPath(r)
  /\ UNCHANGED <<serverVars, historyVars>>

ReadFile(r) ==
  /\ toplevel = "running"
  /\ C!ReloadReadFile(r)
  /\ request'[r] # C!Idle
  /\ UNCHANGED <<serverVars, historyVars>>

\* ... and returns to handle_request: the file cannot be read, or the config
\* is replaced.
ReturnError(r) ==
  /\ C!ReloadReadFile(r)
  /\ request'[r] = C!Idle
  /\ HandleRequest(r) /\ outcome'[r] = "error"
  /\ UNCHANGED historyVars

ReturnOk(r) ==
  /\ C!ReloadWrite(r)
  /\ HandleRequest(r) /\ outcome'[r] = "ok"
  /\ wrote' = TRUE
  /\ UNCHANGED <<held, named, edits>>

\* The connection is closed, before the handler was called or at its await.
DropReload(r) ==
  /\ DropHandler(r)
  /\ \/ C!ReloadDropped(r)
     \/ request[r] = C!Idle /\ UNCHANGED reloadVars
  /\ UNCHANGED historyVars

Edit(p, content) ==
  /\ toplevel = "running" /\ edits < MaxEdits
  /\ C!EditFile(p, content)
  /\ edits' = edits + 1
  /\ held' = IF Reloading THEN held \cup {<<p, content>>} ELSE held
  /\ UNCHANGED <<serverVars, named, wrote>>

\* The command line's reload; other clients send what is not a good request.
ReloadConfig(r) == Send(r, "good")

\* What the clients and the server do without the handler.
ServerStep ==
  /\ \/ Daemon \/ RequestShutdown \/ OtherReturns
     \/ \E r \in Requests :
          \/ ReloadConfig(r) \/ \E what \in Kinds \ {"good"} : Send(r, what)
          \/ Accept(r) \/ Reject(r)
          \/ HandleRequest(r) /\ kind[r] # "good"
          \/ ClientReceives(r) \/ ClientLoses(r)
  /\ UNCHANGED <<reloadVars, historyVars>>

Handler(r) == ReadPath(r) \/ ReadFile(r) \/ ReturnError(r) \/ ReturnOk(r) \/ DropReload(r)

ReloadServerNext ==
  \/ ServerStep
  \/ \E r \in Requests : Handler(r) \/ \E p \in Paths \cup {NoPath} : CallHandler(r, p)
  \/ \E p \in Paths, content \in Configs \cup {Unreadable} : Edit(p, content)

\* Woken tasks are polled, and the time limit passes.
ReloadServerFairness ==
  WF_reloadServerVars(Daemon /\ UNCHANGED <<reloadVars, historyVars>>)

ReloadServerSpec ==
  /\ ReloadServerInit /\ [][ReloadServerNext]_reloadServerVars
  /\ ReloadServerFairness

(***************************************************************************)
(* Properties                                                              *)
(***************************************************************************)

\* However reloads overlap, hang up, fail and change the path, the config in
\* memory is one that a file held since the first of them began, and under a
\* path that was set in that time.  This is what is left of "exposes the latest
\* config" (reload.rs:11) when reloads overlap: the last to write may have been
\* the first to read (reload.rs:52-64).
FreshConfig == wrote => \E p \in named : <<p, config>> \in held
===============================================================================
