--------------------------- MODULE ReloadableConfig ---------------------------
(***************************************************************************)
(* The agent's reloadable configuration (src/src/config/reload.rs) and the *)
(* JSON-RPC handler that drives it (src/src/server/handlers/config.rs).    *)
(*                                                                         *)
(* The RPC server runs requests concurrently, so several reload requests   *)
(* may be in flight.  A request sets the path, reads the path back, awaits *)
(* the file and only then takes the write lock of the config.  The write   *)
(* and the broadcast happen under that one lock and are a single step.     *)
(***************************************************************************)
EXTENDS Naturals

CONSTANTS
  Paths,       \* the config paths a request may name
  NoPath,      \* a reload request that names no path
  Unreadable,  \* a file Config::from_file_async cannot read or parse
  Requests,    \* identifies the reload requests that may overlap
  Capacity,    \* the size of the broadcast channel
  Configs      \* the configs the files may hold

ASSUME CapacityAssumption == Capacity \in Nat \ {0}
ASSUME SentinelAssumption == Unreadable \notin Configs /\ NoPath \notin Paths

VARIABLES
  files,     \* what each path holds on disk
  path,      \* ReloadableConfig.path
  config,    \* ReloadableConfig.config
  unread,    \* broadcasts the subscriber has not received; saturates at
             \* Capacity + 1, from where on recv() reports Lagged
  request    \* the reload requests in flight and their local variables

configVars == <<files, path, config, unread, request>>

Idle == [pc |-> "idle"]

RequestStates ==
  {Idle} \cup [pc : {"called"}]
         \cup [pc : {"reading"}, path : Paths]
         \cup [pc : {"write"}, new_config : Configs]

ConfigTypeOK ==
  /\ files \in [Paths -> Configs \cup {Unreadable}]
  /\ path \in Paths
  /\ config \in Configs
  /\ unread \in 0..(Capacity + 1)
  /\ request \in [Requests -> RequestStates]

\* ReloadableConfig::new reads the file before the daemon starts anything.
ConfigInit ==
  /\ files \in [Paths -> Configs \cup {Unreadable}]
  /\ path \in Paths
  /\ config = files[path] /\ config \in Configs
  /\ unread = 0
  /\ request = [r \in Requests |-> Idle]

\* Mutant: the path is read before the new one is set.
HandleReloadPathFirst(r, p) ==
  /\ request[r] = Idle
  /\ path' = IF p = NoPath THEN path ELSE p
  /\ request' = [request EXCEPT ![r] = [pc |-> "reading", path |-> path]]
  /\ UNCHANGED <<files, config, unread>>

\* ReloadConfigHandler::handle up to the call of reload(): set_path if the
\* request names a path.
HandleReload(r, p) ==
  /\ request[r] = Idle
  /\ path' = IF p = NoPath THEN path ELSE p
  /\ request' = [request EXCEPT ![r] = [pc |-> "called"]]
  /\ UNCHANGED <<files, config, unread>>

\* reload() copies the path out of its lock ...
ReloadReadPath(r) ==
  /\ request[r].pc = "called"
  /\ request' = [request EXCEPT ![r] = [pc |-> "reading", path |-> path]]
  /\ UNCHANGED <<files, path, config, unread>>

\* ... and awaits the file.  An unreadable file ends the request with an
\* error and leaves the config as it was.
ReloadReadFile(r) ==
  /\ request[r].pc = "reading"
  /\ LET content == files[request[r].path]
     IN  request' = [request EXCEPT ![r] =
                       IF content = Unreadable THEN Idle
                       ELSE [pc |-> "write", new_config |-> content]]
  /\ UNCHANGED <<files, path, config, unread>>

\* The write lock is held from the assignment to the end of the function, so
\* the new config and its broadcast appear together.
ReloadWrite(r) ==
  /\ request[r].pc = "write"
  /\ config' = request[r].new_config
  /\ unread' = IF unread = Capacity + 1 THEN unread ELSE unread + 1
  /\ request' = [request EXCEPT ![r] = Idle]
  /\ UNCHANGED <<files, path>>

\* The server drops a handler, which can only be at its await, when the client
\* has hung up.
ReloadDropped(r) ==
  /\ request[r].pc \in {"reading", "write"}
  /\ request' = [request EXCEPT ![r] = Idle]
  /\ UNCHANGED <<files, path, config, unread>>

\* The operator edits a config file.
EditFile(p, c) ==
  /\ files[p] # c
  /\ files' = [files EXCEPT ![p] = c]
  /\ UNCHANGED <<path, config, unread, request>>

ConfigNext ==
  \/ \E r \in Requests : \/ \E p \in Paths \cup {NoPath} : HandleReload(r, p)
                         \/ ReloadReadPath(r)
                         \/ ReloadReadFile(r)
                         \/ ReloadWrite(r)
                         \/ ReloadDropped(r)
  \/ \E p \in Paths, c \in Configs \cup {Unreadable} : EditFile(p, c)
===============================================================================
