-------------------------- MODULE ReloadServerProofs --------------------------
(***************************************************************************)
(* ReloadServer for every number of requests, paths, configs and edits:    *)
(* its types, that the server returns drained, that a client is told what  *)
(* happened, that overlapping reloads leave a config that is theirs, and   *)
(* that the composition takes only steps of its two components.            *)
(***************************************************************************)
EXTENDS ReloadServer, TLAPS

\* A server task that has ended left no request half done, and run() returns
\* only after it.
DrainInv ==
  /\ task = "ended" => \A r \in Requests : req[r] # "handling"
  /\ run = "returned" => task = "ended"

\* What the response says of the handler, and that a caller who was given an
\* answer has a request that is not handled any more.
ToldInv ==
  \A r \in Requests :
    /\ outcome[r] # "none" => kind[r] = "good" /\ req[r] = "answered"
    /\ response[r] = "result" => outcome[r] = "ok"
    /\ response[r] \in {"text", "error"} => outcome[r] # "ok"
    /\ req[r] = "answered" => response[r] # "none"
    /\ told[r] = "ok" => outcome[r] = "ok"
    /\ told[r] = "error" => outcome[r] # "ok"
    /\ told[r] \in {"ok", "error"} => req[r] = "answered"

\* While reloads are under way, the path and every path that one of them copied
\* are named, what the files hold is held, and what one of them is about to
\* write was held under a named path.
BatchInv ==
  /\ Reloading => path \in named /\ \A q \in Paths : <<q, files[q]>> \in held
  /\ \A r \in Requests :
       /\ request[r].pc = "reading" => request[r].path \in named
       /\ request[r].pc = "write" =>
            \E p \in named : <<p, request[r].new_config>> \in held
  /\ FreshConfig

-------------------------------------------------------------------------------
\* A step of ReloadServer is a step of JsonRpcServer or leaves its state alone.
LEMMA IsServerStep == [ReloadServerNext]_reloadServerVars => [ServerNext]_serverVars
<1> SUFFICES ASSUME [ReloadServerNext]_reloadServerVars PROVE [ServerNext]_serverVars
  OBVIOUS
<1>1. CASE ServerStep
  <2>1. Kinds \ {"good"} \subseteq Kinds /\ "good" \in Kinds
    BY DEF Kinds
  <2> QED
    BY <1>1, <2>1, ZenonT(30) DEF ServerStep, ServerNext, ReloadConfig
<1>2. ASSUME NEW r \in Requests, Handler(r) PROVE [ServerNext]_serverVars
  BY <1>2, ZenonT(30) DEF Handler, ReadPath, ReadFile, ReturnError, ReturnOk, DropReload, ServerNext
<1>3. ASSUME NEW r \in Requests, NEW p \in Paths \cup {NoPath}, CallHandler(r, p)
      PROVE  [ServerNext]_serverVars
  BY <1>3, ZenonT(30) DEF CallHandler
<1>4. ASSUME NEW p \in Paths, NEW content \in Configs \cup {Unreadable}, Edit(p, content)
      PROVE  [ServerNext]_serverVars
  BY <1>4, ZenonT(30) DEF Edit
<1>5. CASE UNCHANGED reloadServerVars
  BY <1>5, ZenonT(30) DEF reloadServerVars
<1> QED
  BY <1>1, <1>2, <1>3, <1>4, <1>5, ZenonT(30) DEF ReloadServerNext

-------------------------------------------------------------------------------
\* JsonRpcServer's own steps.
LEMMA ServerTypeStep == ServerTypeOK /\ [ServerNext]_serverVars => ServerTypeOK'
<1> SUFFICES ASSUME ServerTypeOK, [ServerNext]_serverVars PROVE ServerTypeOK'
  OBVIOUS
<1> USE DEF ServerTypeOK, lifeVars, requestVars, Kinds, Responses
<1>1. CASE Daemon
  <2>1. CASE Bind
    BY <2>1, ZenonT(30) DEF Bind
  <2>2. CASE FirstPoll \/ StartDraining \/ TaskEnds
    BY <2>2, ZenonT(30) DEF FirstPoll, StartDraining, TaskEnds
  <2>3. CASE NotifyWaiters
    BY <2>3, ZenonT(30) DEF NotifyWaiters
  <2>4. CASE Join
    BY <2>4, ZenonT(30) DEF Join
  <2>5. CASE Exit \/ TimeLimit
    BY <2>5, ZenonT(30) DEF Exit, TimeLimit
  <2> QED
    BY <1>1, <2>1, <2>2, <2>3, <2>4, <2>5 DEF Daemon
<1>2. CASE RequestShutdown \/ OtherReturns
  BY <1>2, ZenonT(30) DEF RequestShutdown, OtherReturns
<1>3. ASSUME NEW r \in Requests, NEW what \in Kinds, Send(r, what) PROVE ServerTypeOK'
  BY <1>3 DEF Send
<1>4. ASSUME NEW r \in Requests, Accept(r) \/ Reject(r) \/ DropHandler(r) PROVE ServerTypeOK'
  BY <1>4 DEF Accept, Reject, DropHandler
<1>5. ASSUME NEW r \in Requests, HandleRequest(r) PROVE ServerTypeOK'
  BY <1>5 DEF HandleRequest
<1>6. ASSUME NEW r \in Requests, ClientReceives(r) \/ ClientLoses(r)
      PROVE  ServerTypeOK'
  BY <1>6 DEF ClientReceives, ClientLoses, ResultOf
<1>7. CASE UNCHANGED serverVars
  BY <1>7 DEF serverVars
<1> QED
  BY <1>1, <1>2, <1>3, <1>4, <1>5, <1>6, <1>7 DEF ServerNext

LEMMA DrainStep == ServerTypeOK /\ DrainInv /\ [ServerNext]_serverVars => DrainInv'
<1> SUFFICES ASSUME ServerTypeOK, DrainInv, [ServerNext]_serverVars PROVE DrainInv'
  OBVIOUS
<1> USE DEF ServerTypeOK, DrainInv, lifeVars, requestVars
<1>1. CASE Daemon
  BY <1>1 DEF Daemon, Bind, FirstPoll, NotifyWaiters, StartDraining, TaskEnds, Join, Exit,
              TimeLimit
<1>2. CASE RequestShutdown \/ OtherReturns
  BY <1>2 DEF RequestShutdown, OtherReturns
<1>3. ASSUME NEW r \in Requests, NEW what \in Kinds, Send(r, what) PROVE DrainInv'
  BY <1>3 DEF Send
<1>4. ASSUME NEW r \in Requests,
             Accept(r) \/ Reject(r) \/ DropHandler(r) \/ HandleRequest(r)
      PROVE  DrainInv'
  BY <1>4 DEF Accept, Reject, DropHandler, HandleRequest
<1>5. ASSUME NEW r \in Requests, ClientReceives(r) \/ ClientLoses(r)
      PROVE  DrainInv'
  BY <1>5 DEF ClientReceives, ClientLoses
<1>6. CASE UNCHANGED serverVars
  BY <1>6 DEF serverVars
<1> QED
  BY <1>1, <1>2, <1>3, <1>4, <1>5, <1>6 DEF ServerNext

LEMMA ToldStep == ServerTypeOK /\ ToldInv /\ [ServerNext]_serverVars => ToldInv'
<1> SUFFICES ASSUME ServerTypeOK, ToldInv, [ServerNext]_serverVars PROVE ToldInv'
  OBVIOUS
<1> USE DEF ServerTypeOK, ToldInv, lifeVars, requestVars, Responses
<1>1. CASE Daemon
  <2>1. UNCHANGED requestVars
    BY <1>1 DEF Daemon, Bind, FirstPoll, NotifyWaiters, StartDraining, TaskEnds, Join, Exit,
                TimeLimit
  <2> QED
    BY <2>1
<1>2. CASE RequestShutdown \/ OtherReturns
  BY <1>2 DEF RequestShutdown, OtherReturns
<1>3. ASSUME NEW r \in Requests, NEW what \in Kinds, Send(r, what) PROVE ToldInv'
  BY <1>3 DEF Send
<1>4. ASSUME NEW r \in Requests, Accept(r) PROVE ToldInv'
  BY <1>4 DEF Accept
<1>5. ASSUME NEW r \in Requests, Reject(r) \/ DropHandler(r) PROVE ToldInv'
  BY <1>5 DEF Reject, DropHandler
<1>6. ASSUME NEW r \in Requests, HandleRequest(r) PROVE ToldInv'
  BY <1>6 DEF HandleRequest
<1>7. ASSUME NEW r \in Requests, ClientReceives(r) PROVE ToldInv'
  BY <1>7 DEF ClientReceives, ResultOf
<1>8. ASSUME NEW r \in Requests, ClientLoses(r) PROVE ToldInv'
  BY <1>8 DEF ClientLoses
<1>9. CASE UNCHANGED serverVars
  BY <1>9 DEF serverVars
<1> QED
  BY <1>1, <1>2, <1>3, <1>4, <1>5, <1>6, <1>7, <1>8, <1>9 DEF ServerNext

\* The server's part of the inductive invariant.
LEMMA ServerInvariant == ReloadServerSpec => [](ServerTypeOK /\ DrainInv /\ ToldInv)
<1>1. ReloadServerInit => ServerTypeOK /\ DrainInv /\ ToldInv
  BY ZenonT(30) DEF ReloadServerInit, ServerInit, ServerTypeOK, DrainInv, ToldInv, Responses
<1>2. (ServerTypeOK /\ DrainInv /\ ToldInv) /\ [ReloadServerNext]_reloadServerVars
        => (ServerTypeOK /\ DrainInv /\ ToldInv)'
  BY IsServerStep, ServerTypeStep, DrainStep, ToldStep
<1> QED
  BY <1>1, <1>2, PTL DEF ReloadServerSpec

\* When JsonRPCServer::run has returned, every accepted request was answered or
\* given up by its client.
THEOREM ServerReturnsDrained == ReloadServerSpec => []ReturnsDrained
<1>1. DrainInv => ReturnsDrained
  BY ZenonT(30) DEF DrainInv, ReturnsDrained
<1> QED
  BY <1>1, ServerInvariant, PTL

\* An answer tells a client's caller what its handler did, whatever else is lost
\* on the way and whenever the daemon ends (jsonrpc/mod.rs:77-96).
THEOREM CallersToldWhatHappened == ReloadServerSpec => []ToldWhatHappened
<1>1. ToldInv => ToldWhatHappened
  BY ZenonT(30) DEF ToldInv, ToldWhatHappened
<1> QED
  BY <1>1, ServerInvariant, PTL

-------------------------------------------------------------------------------
\* The types of the reloads and their history.
ReloadTypeOK ==
  /\ C!ConfigTypeOK
  /\ held \subseteq Paths \X (Configs \cup {Unreadable})
  /\ named \subseteq Paths

LEMMA ReloadTypeStep ==
  ReloadTypeOK /\ [ReloadServerNext]_reloadServerVars => ReloadTypeOK'
<1> SUFFICES ASSUME ReloadTypeOK, [ReloadServerNext]_reloadServerVars PROVE ReloadTypeOK'
  OBVIOUS
<1> USE ReloadAssumption DEF ReloadTypeOK, C!ConfigTypeOK, C!RequestStates, C!Idle
<1>1. CASE UNCHANGED <<reloadVars, held, named>>
  BY <1>1 DEF reloadVars
<1>2. ASSUME NEW r \in Requests, NEW p \in Paths \cup {NoPath}, CallHandler(r, p)
      PROVE  ReloadTypeOK'
  <2>1. path' \in Paths
    BY <1>2, ReloadAssumption DEF CallHandler, C!HandleReload
  <2>2. held' \subseteq Paths \X (Configs \cup {Unreadable})
    BY <1>2 DEF CallHandler
  <2>3. named' \subseteq Paths
    BY <1>2, <2>1 DEF CallHandler
  <2> QED
    BY <1>2, <2>1, <2>2, <2>3 DEF CallHandler, C!HandleReload
<1>3. ASSUME NEW r \in Requests, C!ReloadReadPath(r), UNCHANGED <<held, named>>
      PROVE  ReloadTypeOK'
  BY <1>3 DEF C!ReloadReadPath
<1>4. ASSUME NEW r \in Requests, C!ReloadReadFile(r), UNCHANGED <<held, named>>
      PROVE  ReloadTypeOK'
  <2>1. request[r].path \in Paths
    BY <1>4 DEF C!ReloadReadFile
  <2> QED
    BY <1>4, <2>1 DEF C!ReloadReadFile
<1>5. ASSUME NEW r \in Requests, C!ReloadWrite(r), UNCHANGED <<held, named>>
      PROVE  ReloadTypeOK'
  <2>1. request[r].new_config \in Configs
    BY <1>5 DEF C!ReloadWrite
  <2> QED
    BY <1>5, <2>1 DEF C!ReloadWrite
<1>6. ASSUME NEW r \in Requests, C!ReloadDropped(r), UNCHANGED <<held, named>>
      PROVE  ReloadTypeOK'
  BY <1>6 DEF C!ReloadDropped
<1>7. ASSUME NEW p \in Paths, NEW content \in Configs \cup {Unreadable}, Edit(p, content)
      PROVE  ReloadTypeOK'
  BY <1>7 DEF Edit, C!EditFile
<1> QED
  BY <1>1, <1>2, <1>3, <1>4, <1>5, <1>6, <1>7, ZenonT(30)
     DEF ReloadServerNext, reloadServerVars, historyVars, ServerStep, Handler, ReadPath, ReadFile,
         ReturnError, ReturnOk, DropReload

LEMMA BatchStep ==
  ReloadTypeOK /\ BatchInv /\ [ReloadServerNext]_reloadServerVars => BatchInv'
<1> SUFFICES ASSUME ReloadTypeOK, BatchInv, [ReloadServerNext]_reloadServerVars PROVE BatchInv'
  OBVIOUS
<1> USE DEF ReloadTypeOK, C!ConfigTypeOK, C!RequestStates, C!Idle
<1>1. CASE UNCHANGED <<reloadVars, held, named, wrote>>
  BY <1>1, ZenonT(30) DEF reloadVars, BatchInv, FreshConfig, Reloading
<1>2. ASSUME NEW r \in Requests, NEW p \in Paths \cup {NoPath}, CallHandler(r, p)
      PROVE  BatchInv'
  <2>1. path' \in named' /\ \A q \in Paths : <<q, files'[q]>> \in held'
    BY <1>2 DEF CallHandler, C!HandleReload, BatchInv, Reloading
  <2>2. \A s \in Requests : request'[s].pc \in {"reading", "write"} =>
          /\ s # r /\ request'[s] = request[s]
          /\ Reloading /\ held' = held /\ named \subseteq named'
    BY <1>2 DEF CallHandler, C!HandleReload, Reloading
  <2>3. FreshConfig'
    BY <1>2, ZenonT(30) DEF CallHandler, C!HandleReload, BatchInv, FreshConfig
  <2> QED
    BY <2>1, <2>2, <2>3, ZenonT(30) DEF BatchInv
<1>3. ASSUME NEW r \in Requests, C!ReloadReadPath(r), UNCHANGED <<held, named, wrote>>
      PROVE  BatchInv'
  <2>1. Reloading /\ path \in named
    BY <1>3 DEF C!ReloadReadPath, Reloading, BatchInv
  <2>2. \A s \in Requests :
          \/ s # r /\ request'[s] = request[s]
          \/ s = r /\ request'[s].pc = "reading" /\ request'[s].path = path
    BY <1>3 DEF C!ReloadReadPath
  <2>3. FreshConfig'
    BY <1>3 DEF C!ReloadReadPath, BatchInv, FreshConfig
  <2>4. UNCHANGED <<files, path, held, named>>
    BY <1>3 DEF C!ReloadReadPath
  <2> QED
    BY <2>1, <2>2, <2>3, <2>4 DEF BatchInv
<1>4. ASSUME NEW r \in Requests, C!ReloadReadFile(r), UNCHANGED <<held, named, wrote>>
      PROVE  BatchInv'
  <2>1. /\ Reloading /\ request[r].path \in named /\ request[r].path \in Paths
        /\ <<request[r].path, files[request[r].path]>> \in held
    BY <1>4 DEF C!ReloadReadFile, BatchInv, Reloading
  <2>2. \A s \in Requests :
          \/ s # r /\ request'[s] = request[s]
          \/ s = r /\ request'[s].pc = "idle"
          \/ s = r /\ request'[s].pc = "write" /\ request'[s].new_config = files[request[r].path]
    BY <1>4 DEF C!ReloadReadFile
  <2>3. FreshConfig'
    BY <1>4 DEF C!ReloadReadFile, BatchInv, FreshConfig
  <2>4. UNCHANGED <<files, path, held, named>>
    BY <1>4 DEF C!ReloadReadFile
  <2> QED
    BY <2>1, <2>2, <2>3, <2>4, ZenonT(30) DEF BatchInv
<1>5. ASSUME NEW r \in Requests, C!ReloadWrite(r), UNCHANGED <<held, named>>, wrote' = TRUE
      PROVE  BatchInv'
  <2>1. Reloading /\ \E p \in named : <<p, request[r].new_config>> \in held
    <3>1. request[r].pc = "write"
      BY <1>5, ZenonT(30) DEF C!ReloadWrite
    <3>2. Reloading
      <4>1. C!Idle.pc = "idle"
        BY DEF C!Idle
      <4>2. request[r] # C!Idle
        BY <3>1, <4>1
      <4> QED
        BY <4>2, ZenonT(30) DEF Reloading
    <3>3. \E p \in named : <<p, request[r].new_config>> \in held
      BY <3>1, ZenonT(30) DEF BatchInv
    <3> QED
      BY <3>2, <3>3, ZenonT(30)
  <2>2. FreshConfig'
    BY <1>5, <2>1 DEF C!ReloadWrite, FreshConfig
  <2>3. \A s \in Requests :
          (s # r /\ request'[s] = request[s]) \/ (s = r /\ request'[s].pc = "idle")
    BY <1>5 DEF C!ReloadWrite
  <2>4. UNCHANGED <<files, path, held, named>>
    BY <1>5 DEF C!ReloadWrite
  <2> QED
    BY <2>1, <2>2, <2>3, <2>4 DEF BatchInv
<1>6. ASSUME NEW r \in Requests, C!ReloadDropped(r), UNCHANGED <<held, named, wrote>>
      PROVE  BatchInv'
  <2>1. Reloading
    BY <1>6 DEF C!ReloadDropped, Reloading
  <2>2. FreshConfig'
    BY <1>6, ZenonT(30) DEF C!ReloadDropped, BatchInv, FreshConfig
  <2>3. \A s \in Requests :
          (s # r /\ request'[s] = request[s]) \/ (s = r /\ request'[s].pc = "idle")
    BY <1>6 DEF C!ReloadDropped
  <2>4. UNCHANGED <<files, path, held, named>>
    BY <1>6 DEF C!ReloadDropped
  <2> QED
    BY <2>1, <2>2, <2>3, <2>4 DEF BatchInv
<1>7. ASSUME NEW p \in Paths, NEW content \in Configs \cup {Unreadable}, Edit(p, content)
      PROVE  BatchInv'
  <2>1. UNCHANGED <<path, config, request, named, wrote>> /\ held \subseteq held'
    BY <1>7 DEF Edit, C!EditFile
  <2>2. Reloading => \A q \in Paths : <<q, files'[q]>> \in held'
    BY <1>7 DEF Edit, C!EditFile, BatchInv
  <2>3. Reloading' = Reloading
    BY <2>1 DEF Reloading
  <2> QED
    BY <2>1, <2>2, <2>3 DEF BatchInv, FreshConfig
<1> QED
  BY <1>1, <1>2, <1>3, <1>4, <1>5, <1>6, <1>7, ZenonT(30)
     DEF ReloadServerNext, reloadServerVars, historyVars, ServerStep, Handler, ReadPath, ReadFile,
         ReturnError, ReturnOk, DropReload

\* Whatever overlaps, hangs up, fails and is edited, the config in memory is one
\* that a path in force held since the overlapping reloads began.
THEOREM ConfigIsFresh == ReloadServerSpec => []FreshConfig
<1>1. ReloadServerInit => ReloadTypeOK /\ BatchInv
  BY ReloadAssumption
     DEF ReloadServerInit, C!ConfigInit, ReloadTypeOK, C!ConfigTypeOK, C!RequestStates, C!Idle,
         BatchInv, FreshConfig, Reloading
<1>2. (ReloadTypeOK /\ BatchInv) /\ [ReloadServerNext]_reloadServerVars
        => (ReloadTypeOK /\ BatchInv)'
  BY ReloadTypeStep, BatchStep
<1>3. BatchInv => FreshConfig
  BY DEF BatchInv
<1> QED
  BY <1>1, <1>2, <1>3, PTL DEF ReloadServerSpec

-------------------------------------------------------------------------------
\* A step of ReloadServer is a step of ReloadableConfig or leaves its state alone.
LEMMA IsConfigStep == [ReloadServerNext]_reloadServerVars => [C!ConfigNext]_(C!configVars)
<1> SUFFICES ASSUME [ReloadServerNext]_reloadServerVars
             PROVE  C!ConfigNext \/ UNCHANGED C!configVars
  BY ZenonT(30)
<1>1. ASSUME UNCHANGED reloadVars PROVE UNCHANGED C!configVars
  BY <1>1, ZenonT(30) DEF C!configVars, reloadVars
<1>2. CASE ServerStep
  BY <1>1, <1>2, ZenonT(30) DEF ServerStep
<1>3. ASSUME NEW r \in Requests, Handler(r) PROVE C!ConfigNext \/ UNCHANGED C!configVars
  BY <1>1, <1>3, ZenonT(30)
     DEF Handler, ReadPath, ReadFile, ReturnError, ReturnOk, DropReload, C!ConfigNext
<1>4. ASSUME NEW r \in Requests, NEW p \in Paths \cup {NoPath}, CallHandler(r, p)
      PROVE  C!ConfigNext
  BY <1>4, ZenonT(30) DEF CallHandler, C!ConfigNext
<1>5. ASSUME NEW p \in Paths, NEW content \in Configs \cup {Unreadable}, Edit(p, content)
      PROVE  C!ConfigNext
  BY <1>5, ZenonT(30) DEF Edit, C!ConfigNext
<1>6. CASE UNCHANGED reloadServerVars
  BY <1>1, <1>6, ZenonT(30) DEF reloadServerVars
<1> QED
  BY <1>2, <1>3, <1>4, <1>5, <1>6, ZenonT(30) DEF ReloadServerNext

\* The daemon that serves reloads behaves, seen from the server, as JsonRpcServer
\* says, and, seen from the config, as ReloadableConfig says: what is shown of
\* either alone, by any handler or any caller, holds of the two together.
THEOREM ReloadServerComposes ==
  ReloadServerSpec => /\ ServerInit /\ [][ServerNext]_serverVars
                      /\ C!ConfigInit /\ [][C!ConfigNext]_(C!configVars)
<1>1. ReloadServerInit => ServerInit /\ C!ConfigInit
  BY ZenonT(30) DEF ReloadServerInit
<1> QED
  BY <1>1, IsServerStep, IsConfigStep, PTL DEF ReloadServerSpec
===============================================================================
