-------------------------- MODULE SubnetCommandsProofs -------------------------
(***************************************************************************)
(* RightNetwork, OneSnapshot and IncludedOnce for any tree of subnets, any *)
(* configs and any number of commands.  Commands share nothing but the     *)
(* config, so the invariant is one of a single call: CallOK of its values. *)
(***************************************************************************)
EXTENDS SubnetCommands, SequenceTheorems, TLAPS

\* The connection e of a call is an entry of a config that was current
\* meanwhile, and has what the handler demands.
Connected(k, s, f, e, du) ==
  /\ e \in Entries
  /\ \E cfg \in du : \E t \in DOMAIN cfg : cfg[t] = e
  /\ Handlers[k].token => e.token
  /\ Handlers[k].sender => f # None \/ e.accounts # <<>>
  /\ Handlers[k].conn = "parent" => s # Root

InNetwork(k, s, net) ==
  /\ Manager[k].network = "parent" => s # Root /\ ParentOf[s] = net
  /\ Manager[k].network = "subnet" => s = net

\* What RightNetwork and OneSnapshot say of one message.
GoodMessage(k, s, f, m, du) ==
  /\ InNetwork(k, s, m.net)
  /\ m.to.kind = Manager[k].to
  /\ m.to.kind = "actor" => m.to.at = s
  /\ \E cfg \in du : \E t \in DOMAIN cfg :
       /\ cfg[t].token
       /\ m.net = NetworkAt[cfg[t].url]
       /\ m.to.kind = "gateway" => m.to.at = cfg[t].gateway
       /\ f = None => cfg[t].accounts # <<>> /\ m.from = cfg[t].accounts[1]
       /\ f # None => m.from = f

StageOK(k, s, st, e) ==
  /\ st \in Pushing => Manager[k].does = "push"
  /\ st \in Questions => Manager[k].does = "ask"
  /\ st \in Pushing \ {"match"} => InNetwork(k, s, NetworkAt[e.url])

CountOK(k, st, p, rc, rp) ==
  /\ st \notin {"wait", "done"} => p = <<>>
  /\ st = "wait" => Len(p) = 1
  /\ Len(p) <= 1 /\ Len(rc) <= Len(p)
  /\ st = "idle" => rp = None
  /\ rp = "ok" => st = "done" /\ (Manager[k].does = "push" => rc # <<>>)

CallOK(k, s, f, st, e, p, rc, rp, du) ==
  /\ CountOK(k, st, p, rc, rp)
  /\ StageOK(k, s, st, e)
  /\ st \in Waiting => Connected(k, s, f, e, du)
  /\ \A i \in DOMAIN p : GoodMessage(k, s, f, p[i], du)

CallInv(c) ==
  CallOK(cmd[c], arg[c], from[c], stage[c], entry[c], pushed[c], receipts[c], reply[c], during[c])

CurrentConfig == \A c \in Calls : UnderWay(c) => config \in during[c]

CommandsInv == CommandsTypeOK /\ CurrentConfig /\ \A c \in Calls : CallInv(c)

-------------------------------------------------------------------------------
\* What the two tables have in common.
LEMMA Tables ==
  ASSUME NEW k \in Commands
  PROVE  /\ Manager[k].does \in {"push", "ask"} /\ Manager[k].network \in {"any", "parent", "subnet"}
         /\ Manager[k].network # "any" => Manager[k].does = "push"
         /\ Manager[k].does = "ask" => Manager[k].to \in Questions
         /\ Manager[k].does = "push" => /\ Handlers[k].token /\ Handlers[k].sender
                                        /\ Manager[k].to \in {"init", "actor", "gateway", "account"}
         /\ Manager[k].network = "parent" => Handlers[k].conn = "parent"
         /\ Manager[k].to = "actor" => Manager[k].network = "parent"
         /\ k = "fund" => Manager[k].network = "parent"
         /\ k \in {"create", "release", "propagate", "whitelist"} => Manager[k].network = "subnet"
<1>1. Commands = {"create", "join", "leave", "kill", "net_addr", "fund", "release", "propagate",
                  "whitelist", "send_value", "wallet_new", "wallet_list", "list_subnets",
                  "list_checkpoints", "last_topdown", "validators"}
  BY DEF Commands, Handlers
<1> USE DEF Manager, Handlers, Questions
<1>2. CASE k \in {"create", "release", "propagate", "whitelist"}
  BY <1>2 DEF create_subnet, CreateSubnetHandler, release, ReleaseHandler, propagate, PropagateHandler,
              whitelist_propagator, WhitelistPropagatorHandler
<1>3. CASE k \in {"join", "leave", "kill", "net_addr", "fund"}
  BY <1>3 DEF join_subnet, JoinSubnetHandler, leave_subnet, LeaveSubnetHandler, kill_subnet,
              KillSubnetHandler, set_validator_net_addr, SetValidatorNetAddrHandler, fund, FundHandler
<1>4. CASE k \in {"send_value", "wallet_new", "wallet_list", "list_subnets"}
  BY <1>4 DEF send_value, SendValueHandler, wallet_new, WalletNewHandler, wallet_list,
              WalletListHandler, list_child_subnets, ListSubnetsHandler
<1>5. CASE k \in {"list_checkpoints", "last_topdown", "validators"}
  BY <1>5 DEF list_checkpoints, ListBottomUpCheckpointsHandler, last_topdown_executed,
              LastTopDownExecHandler, query_validator_set, QueryValidatorSetHandler
<1> QED
  BY <1>1, <1>2, <1>3, <1>4, <1>5, ZenonT(30)

\* A call whose values stay the same stays as it is.
LEMMA OneCall ==
  ASSUME \A c \in Calls : CallInv(c), NEW c \in Calls,
         \A d \in Calls : d # c =>
           /\ cmd'[d] = cmd[d] /\ arg'[d] = arg[d] /\ from'[d] = from[d] /\ stage'[d] = stage[d]
           /\ entry'[d] = entry[d] /\ pushed'[d] = pushed[d] /\ receipts'[d] = receipts[d]
           /\ reply'[d] = reply[d] /\ during'[d] = during[d],
         CallInv(c)'
  PROVE  \A d \in Calls : CallInv(d)'
<1> SUFFICES ASSUME NEW d \in Calls PROVE CallInv(d)'
  OBVIOUS
<1>1. CASE d = c
  BY <1>1
<1>2. CASE d # c
  <2>1. CallInv(d)
    OBVIOUS
  <2> QED
    BY <1>2, <2>1 DEF CallInv
<1> QED
  BY <1>1, <1>2

\* A call is not hurt by more configs.
LEMMA MoreConfigs ==
  ASSUME NEW k, NEW s, NEW f, NEW st, NEW e, NEW p, NEW rc, NEW rp, NEW du, NEW du2, du \subseteq du2,
         CallOK(k, s, f, st, e, p, rc, rp, du)
  PROVE  CallOK(k, s, f, st, e, p, rc, rp, du2)
<1>1. Connected(k, s, f, e, du) => Connected(k, s, f, e, du2)
  BY DEF Connected
<1>2. \A m : GoodMessage(k, s, f, m, du) => GoodMessage(k, s, f, m, du2)
  BY DEF GoodMessage
<1> QED
  BY <1>1, <1>2 DEF CallOK

\* Nothing has been asked for at the start.
LEMMA CommandsInitially == CommandsInit => CommandsInv
<1> SUFFICES ASSUME CommandsInit PROVE CommandsInv
  OBVIOUS
<1>1. "create" \in Commands
  BY DEF Commands, Handlers
<1>2. CommandsTypeOK /\ CurrentConfig
  BY <1>1, CommandsAssumption DEF CommandsInit, CommandsTypeOK, CurrentConfig, UnderWay, Stages, Waiting, Pushing, Questions
<1>3. ASSUME NEW c \in Calls PROVE CallInv(c)
  <2>1. /\ stage[c] = "idle" /\ pushed[c] = <<>> /\ receipts[c] = <<>> /\ reply[c] = None
    BY DEF CommandsInit
  <2>2. CountOK(cmd[c], stage[c], pushed[c], receipts[c], reply[c])
    BY <2>1 DEF CountOK, None
  <2>3. StageOK(cmd[c], arg[c], stage[c], entry[c])
    BY <2>1 DEF StageOK, Pushing, Questions
  <2> QED
    BY <2>1, <2>2, <2>3 DEF CallInv, CallOK, Waiting, Pushing, Questions
<1> QED
  BY <1>2, <1>3 DEF CommandsInv

\* Another config keeps what the calls know.
LEMMA ReloadStep ==
  ASSUME CommandsInv, NEW cfg \in Configs, Reload(cfg)
  PROVE  CommandsInv'
<1>1. CommandsTypeOK /\ CurrentConfig /\ \A c \in Calls : CallInv(c)
  BY DEF CommandsInv
<1>2. /\ config' = cfg
      /\ during' = [c \in Calls |-> IF UnderWay(c) THEN during[c] \cup {cfg} ELSE during[c]]
      /\ UNCHANGED <<cmd, arg, from, stage, entry, pushed, receipts, served, reply>>
  BY DEF Reload
<1>3. CommandsTypeOK' /\ CurrentConfig'
  BY <1>1, <1>2 DEF CommandsTypeOK, CurrentConfig, UnderWay
<1>4. ASSUME NEW c \in Calls PROVE CallInv(c)'
  <2>1. during[c] \subseteq during'[c]
    BY <1>2
  <2>2. CallOK(cmd[c], arg[c], from[c], stage[c], entry[c], pushed[c], receipts[c], reply[c], during'[c])
    BY <1>1, <2>1, MoreConfigs DEF CallInv
  <2> QED
    BY <2>2, <1>2 DEF CallInv
<1> QED
  BY <1>3, <1>4 DEF CommandsInv

\* A request is sent.
LEMMA RequestStep ==
  ASSUME CommandsInv, NEW c \in Calls, NEW k \in Commands, NEW senders \in SUBSET Senders,
         Request(c, k, senders)
  PROVE  CommandsInv'
<1>1. CommandsTypeOK /\ CurrentConfig /\ \A d \in Calls : CallInv(d)
  BY DEF CommandsInv
<1>2. PICK s \in Subnets, a \in senders :
        arg' = [arg EXCEPT ![c] = s] /\ from' = [from EXCEPT ![c] = a]
  BY ZenonT(30) DEF Request
<1>3. /\ stage[c] = "idle"
      /\ cmd' = [cmd EXCEPT ![c] = k] /\ stage' = [stage EXCEPT ![c] = "sent"]
      /\ during' = [during EXCEPT ![c] = {config}]
      /\ UNCHANGED <<config, entry, pushed, receipts, served, reply>>
  BY DEF Request
<1>4. CommandsTypeOK' /\ CurrentConfig'
  <2>1. a \in Accounts \cup {None} /\ "sent" \in Stages
    BY DEF Senders, Stages, Waiting, Pushing, Questions
  <2>2. CommandsTypeOK'
    BY <1>1, <1>2, <1>3, <2>1 DEF CommandsTypeOK
  <2>3. CurrentConfig'
    BY <1>1, <1>3 DEF CommandsTypeOK, CurrentConfig, UnderWay
  <2> QED
    BY <2>2, <2>3
<1>5. /\ cmd'[c] = k /\ stage'[c] = "sent" /\ pushed'[c] = pushed[c] /\ receipts'[c] = receipts[c]
      /\ reply'[c] = reply[c]
  BY <1>1, <1>3 DEF CommandsTypeOK
<1>6. CountOK(cmd[c], "idle", pushed[c], receipts[c], reply[c])
  BY <1>1, <1>3 DEF CallInv, CallOK
<1>7. pushed[c] = <<>> /\ reply[c] = None /\ Len(receipts[c]) <= Len(pushed[c]) /\ Len(pushed[c]) <= 1
  BY <1>6 DEF CountOK
<1>8. CallInv(c)'
  <2>1. CountOK(k, "sent", pushed[c], receipts[c], reply[c])
    BY <1>7 DEF CountOK, None
  <2>2. StageOK(k, arg'[c], "sent", entry'[c])
    BY DEF StageOK, Pushing, Questions
  <2> QED
    BY <1>5, <1>7, <2>1, <2>2 DEF CallInv, CallOK, Waiting, Pushing, Questions
<1>9. \A d \in Calls : CallInv(d)'
  <2>1. \A d \in Calls : d # c =>
           /\ cmd'[d] = cmd[d] /\ arg'[d] = arg[d] /\ from'[d] = from[d] /\ stage'[d] = stage[d]
           /\ entry'[d] = entry[d] /\ pushed'[d] = pushed[d] /\ receipts'[d] = receipts[d]
           /\ reply'[d] = reply[d] /\ during'[d] = during[d]
    BY <1>1, <1>2, <1>3 DEF CommandsTypeOK
  <2> QED
    BY <2>1, <1>1, <1>8, OneCall
<1> QED
  BY <1>4, <1>9 DEF CommandsInv

\* A step that changes only the stage and the reply of a call.
LEMMA StageStep ==
  ASSUME CommandsInv, NEW c \in Calls, NEW st \in Stages, NEW rp \in {None, "ok", "error", "timeout"},
         UNCHANGED <<config, cmd, arg, from, entry, pushed, receipts, during>>,
         served' \in [Calls -> SUBSET Subnets],
         stage' = [stage EXCEPT ![c] = st], reply' = [reply EXCEPT ![c] = rp],
         st # "done" => UnderWay(c),
         CallOK(cmd[c], arg[c], from[c], st, entry[c], pushed[c], receipts[c], rp, during[c])
  PROVE  CommandsInv'
<1>1. CommandsTypeOK /\ CurrentConfig /\ \A d \in Calls : CallInv(d)
  BY DEF CommandsInv
<1>2. stage'[c] = st /\ reply'[c] = rp /\ \A d \in Calls : d # c => stage'[d] = stage[d] /\ reply'[d] = reply[d]
  BY <1>1 DEF CommandsTypeOK
<1>3. CommandsTypeOK' /\ CurrentConfig'
  <2>1. CommandsTypeOK'
    BY <1>1 DEF CommandsTypeOK
  <2>2. \A d \in Calls : UnderWay(d)' => UnderWay(d)
    BY <1>2 DEF UnderWay
  <2>3. CurrentConfig'
    BY <1>1, <2>2 DEF CurrentConfig
  <2> QED
    BY <2>1, <2>3
<1>4. CallInv(c)'
  BY <1>2 DEF CallInv
<1>5. \A d \in Calls : CallInv(d)'
  BY <1>1, <1>2, <1>4, OneCall
<1> QED
  BY <1>3, <1>5 DEF CommandsInv

\* An error can be answered at any time.
LEMMA ErrorStep ==
  ASSUME CommandsInv, NEW c \in Calls, stage[c] # "idle", Respond(c, "error"),
         served' \in [Calls -> SUBSET Subnets],
         UNCHANGED <<config, cmd, arg, from, entry, pushed, receipts, during>>
  PROVE  CommandsInv'
<1> DEFINE rp == IF reply[c] = None THEN "error" ELSE reply[c]
<1>1. CommandsTypeOK /\ CurrentConfig /\ CallInv(c)
  BY DEF CommandsInv
<1>2. stage' = [stage EXCEPT ![c] = "done"] /\ reply' = [reply EXCEPT ![c] = rp]
  BY DEF Respond
<1>3. rp \in {None, "ok", "error", "timeout"}
  BY <1>1 DEF CommandsTypeOK
<1>4. CountOK(cmd[c], stage[c], pushed[c], receipts[c], reply[c])
  BY <1>1 DEF CallInv, CallOK
<1>5. CountOK(cmd[c], "done", pushed[c], receipts[c], rp)
  BY <1>4 DEF CountOK
<1>6. StageOK(cmd[c], arg[c], "done", entry[c])
  BY DEF StageOK, Pushing, Questions
<1>7. "done" \in Stages /\ "done" \notin Waiting
  BY DEF Stages, Waiting, Pushing, Questions, Waiting, Pushing, Questions
<1>8. CallOK(cmd[c], arg[c], from[c], "done", entry[c], pushed[c], receipts[c], rp, during[c])
  BY <1>1, <1>5, <1>6, <1>7 DEF CallInv, CallOK
<1> HIDE DEF rp
<1> QED
  BY <1>2, <1>3, <1>7, <1>8, StageStep, ZenonT(30)

\* The command line gives up.
LEMMA TimeOutStep ==
  ASSUME CommandsInv, NEW c \in Calls, TimeOut(c)
  PROVE  CommandsInv'
<1>1. CommandsTypeOK /\ CurrentConfig /\ CallInv(c)
  BY DEF CommandsInv
<1>2. /\ UnderWay(c) /\ stage[c] # "done"
      /\ reply' = [reply EXCEPT ![c] = "timeout"]
      /\ UNCHANGED <<config, cmd, arg, from, stage, entry, pushed, receipts, served, during>>
  BY DEF TimeOut, UnderWay
<1>3. stage[c] \in Stages /\ stage' = [stage EXCEPT ![c] = stage[c]] /\ served' \in [Calls -> SUBSET Subnets]
  BY <1>1, <1>2 DEF CommandsTypeOK
<1>4. CountOK(cmd[c], stage[c], pushed[c], receipts[c], reply[c])
  BY <1>1 DEF CallInv, CallOK
<1>5. CountOK(cmd[c], stage[c], pushed[c], receipts[c], "timeout")
  BY <1>2, <1>4 DEF CountOK, UnderWay
<1>6. CallOK(cmd[c], arg[c], from[c], stage[c], entry[c], pushed[c], receipts[c], "timeout", during[c])
  BY <1>1, <1>5 DEF CallInv, CallOK
<1> QED
  BY <1>2, <1>3, <1>6, StageStep, ZenonT(30)

\* A connection is taken from the config.
LEMMA HandleStep ==
  ASSUME CommandsInv, NEW c \in Calls, Handle(c)
  PROVE  CommandsInv'
<1> DEFINE e == config[Conn(c)]
           k == cmd[c]
           st == IF Manager[k].network # "any" THEN "match"
                 ELSE IF Manager[k].does = "push" THEN "push" ELSE Manager[k].to
<1>1. CommandsTypeOK /\ CurrentConfig /\ \A d \in Calls : CallInv(d)
  BY DEF CommandsInv
<1>2. /\ stage[c] = "sent" /\ HasParent(c) /\ Conn(c) \in DOMAIN config
      /\ check_subnet(c, e) /\ parse_from(c, e)
      /\ entry' = [entry EXCEPT ![c] = e]
      /\ stage' = [stage EXCEPT ![c] = st]
      /\ UNCHANGED <<config, cmd, arg, from, pushed, receipts, served, reply, during>>
  BY DEF Handle, Goto
<1>3. k \in Commands /\ config \in Configs /\ config \in during[c]
  BY <1>1, <1>2, ZenonT(30) DEF CommandsTypeOK, CurrentConfig, UnderWay
<1>4. e \in Entries
  BY <1>2, <1>3, CommandsAssumption
<1>5. /\ Manager[k].does \in {"push", "ask"} /\ (Manager[k].network # "any" => Manager[k].does = "push")
      /\ Manager[k].does = "ask" => Manager[k].to \in Questions
  BY <1>3, Tables
<1>6. Connected(k, arg[c], from[c], e, during[c])
  <2>1. \E cfg \in during[c] : \E t \in DOMAIN cfg : cfg[t] = e
    BY <1>2, <1>3
  <2> QED
    BY <2>1, <1>2, <1>4 DEF Connected, HasParent, check_subnet, parse_from
<1>7. /\ st \in {"push", "match"} \cup Questions
      /\ st = "push" => Manager[k].does = "push" /\ Manager[k].network = "any"
      /\ st \in Questions => Manager[k].does = "ask"
      /\ st = "match" => Manager[k].does = "push"
  BY <1>5 DEF Questions
<1> HIDE DEF e, st
<1>8. /\ cmd'[c] = k /\ stage'[c] = st /\ entry'[c] = e
      /\ \A d \in Calls : d # c => stage'[d] = stage[d] /\ entry'[d] = entry[d]
  BY <1>1, <1>2 DEF CommandsTypeOK
<1>9. CommandsTypeOK' /\ CurrentConfig'
  <2>1. CommandsTypeOK'
    BY <1>1, <1>2, <1>4, <1>7 DEF CommandsTypeOK, Stages, Waiting, Pushing, Questions
  <2>2. \A d \in Calls : UnderWay(d)' => UnderWay(d)
    BY <1>2, <1>8 DEF UnderWay
  <2>3. CurrentConfig'
    BY <1>1, <1>2, <2>2, ZenonT(30) DEF CurrentConfig
  <2> QED
    BY <2>1, <2>3
<1>10. CallInv(c)'
  <2>1. CountOK(k, "sent", pushed[c], receipts[c], reply[c])
    BY <1>1, <1>2, ZenonT(30) DEF CallInv, CallOK
  <2>2. CountOK(k, st, pushed[c], receipts[c], reply[c]) /\ pushed[c] = <<>>
    BY <2>1, <1>7 DEF CountOK, Questions
  <2>3. StageOK(k, arg[c], st, e)
    BY <1>7 DEF StageOK, InNetwork, Pushing, Questions
  <2>4. \A i \in DOMAIN pushed[c] : GoodMessage(k, arg[c], from[c], pushed[c][i], during[c])
    BY <1>1 DEF CallInv, CallOK
  <2>5. CallOK(k, arg[c], from[c], st, e, pushed[c], receipts[c], reply[c], during[c])
    BY <2>2, <2>3, <2>4, <1>6 DEF CallOK
  <2> QED
    BY <2>5, <1>2, <1>8, ZenonT(30) DEF CallInv
<1>11. \A d \in Calls : CallInv(d)'
  BY <1>1, <1>2, <1>8, <1>10, OneCall
<1> QED
  BY <1>9, <1>11 DEF CommandsInv

\* The handler goes on to another question, or to the push.
LEMMA ForwardStep ==
  ASSUME CommandsInv, NEW c \in Calls, NEW st \in Waiting \ {"wait"},
         stage[c] \in Waiting \ {"wait"}, Goto(c, st),
         StageOK(cmd[c], arg[c], st, entry[c]),
         served' \in [Calls -> SUBSET Subnets],
         UNCHANGED <<config, cmd, arg, from, entry, pushed, receipts, during>>
  PROVE  CommandsInv'
<1>1. CommandsTypeOK /\ CallInv(c)
  BY DEF CommandsInv
<1>2. stage' = [stage EXCEPT ![c] = st] /\ reply' = [reply EXCEPT ![c] = reply[c]]
  BY <1>1 DEF Goto, CommandsTypeOK
<1>3. /\ st \in Stages /\ st \notin {"idle", "done", "wait"} /\ UnderWay(c)
      /\ stage[c] \in Waiting /\ stage[c] \notin {"idle", "done", "wait"}
      /\ reply[c] \in {None, "ok", "error", "timeout"}
  BY <1>1 DEF CommandsTypeOK, Stages, UnderWay, Waiting, Pushing, Questions
<1>4. /\ CountOK(cmd[c], stage[c], pushed[c], receipts[c], reply[c])
      /\ Connected(cmd[c], arg[c], from[c], entry[c], during[c])
      /\ \A i \in DOMAIN pushed[c] : GoodMessage(cmd[c], arg[c], from[c], pushed[c][i], during[c])
  BY <1>1, <1>3, ZenonT(30) DEF CallInv, CallOK
<1>5. CountOK(cmd[c], st, pushed[c], receipts[c], reply[c])
  BY <1>3, <1>4, ZenonT(30) DEF CountOK
<1>6. CallOK(cmd[c], arg[c], from[c], st, entry[c], pushed[c], receipts[c], reply[c], during[c])
  BY <1>4, <1>5, ZenonT(30) DEF CallOK
<1> QED
  BY <1>2, <1>3, <1>6, StageStep, ZenonT(30)

\* The node that answers is one of a subnet.
LEMMA AnswerTyped ==
  ASSUME CommandsInv, NEW c \in Calls, stage[c] \in Waiting, Answered(c)
  PROVE  /\ served' \in [Calls -> SUBSET Subnets]
         /\ StageOK(cmd[c], arg[c], stage[c], entry[c])
         /\ Connected(cmd[c], arg[c], from[c], entry[c], during[c])
<1>1. CommandsTypeOK /\ CallInv(c)
  BY DEF CommandsInv
<1>2. StageOK(cmd[c], arg[c], stage[c], entry[c]) /\ Connected(cmd[c], arg[c], from[c], entry[c], during[c])
  BY <1>1, ZenonT(30) DEF CallInv, CallOK
<1>3. Node(c) \in Subnets
  BY <1>2, CommandsAssumption DEF Connected, Entries, Node
<1> QED
  BY <1>1, <1>2, <1>3 DEF Answered, CommandsTypeOK

\* The node's network is compared with the one expected.
LEMMA MatchStep ==
  ASSUME CommandsInv, NEW c \in Calls, is_network_match(c)
  PROVE  CommandsInv'
<1> DEFINE st == IF cmd[c] = "create" THEN "version" ELSE "push"
<1>1. /\ CommandsTypeOK /\ stage[c] = "match" /\ stage[c] \in Waiting \ {"wait"} /\ Answered(c)
      /\ UNCHANGED <<config, cmd, arg, from, entry, pushed, receipts, during>>
  BY DEF CommandsInv, is_network_match, Waiting, Pushing
<1>2. /\ served' \in [Calls -> SUBSET Subnets]
      /\ StageOK(cmd[c], arg[c], "match", entry[c])
      /\ Connected(cmd[c], arg[c], from[c], entry[c], during[c])
  BY <1>1, AnswerTyped, ZenonT(30)
<1>3. CASE Expected(c) = Node(c)
  <2>1. Goto(c, st) /\ st \in {"version", "push"} /\ cmd[c] \in Commands
    BY <1>1, <1>3 DEF is_network_match, state_network_name, CommandsTypeOK
  <2>2. InNetwork(cmd[c], arg[c], NetworkAt[entry[c].url])
    BY <1>2, <1>3, <2>1, Tables, ZenonT(30) DEF Expected, Node, InNetwork, Connected
  <2> HIDE DEF st
  <2>3. StageOK(cmd[c], arg[c], st, entry[c]) /\ st \in Waiting \ {"wait"}
    BY <1>2, <2>1, <2>2 DEF StageOK, Waiting, Pushing, Questions
  <2> QED
    BY <1>1, <1>2, <2>1, <2>3, ForwardStep, ZenonT(30)
<1>4. CASE Expected(c) # Node(c)
  <2>1. Respond(c, "error") /\ stage[c] # "idle"
    BY <1>1, <1>4 DEF is_network_match, state_network_name
  <2> QED
    BY <1>1, <1>2, <2>1, ErrorStep
<1> QED
  BY <1>3, <1>4

\* The version of the node's network is known.
LEMMA VersionStep ==
  ASSUME CommandsInv, NEW c \in Calls, state_network_version(c)
  PROVE  CommandsInv'
<1>1. /\ stage[c] = "version" /\ stage[c] \in Waiting \ {"wait"} /\ Answered(c) /\ Goto(c, "codes")
      /\ UNCHANGED <<config, cmd, arg, from, entry, pushed, receipts, during>>
  BY DEF state_network_version, Ask, Waiting, Pushing
<1>2. served' \in [Calls -> SUBSET Subnets] /\ StageOK(cmd[c], arg[c], "version", entry[c])
  BY <1>1, AnswerTyped, ZenonT(30)
<1>3. StageOK(cmd[c], arg[c], "codes", entry[c]) /\ "codes" \in Waiting \ {"wait"}
  BY <1>2 DEF StageOK, Waiting, Pushing, Questions
<1> QED
  BY <1>1, <1>2, <1>3, ForwardStep, ZenonT(30)

\* The code of the subnet actor is looked up.
LEMMA CodesStep ==
  ASSUME CommandsInv, NEW c \in Calls, get_subnet_actor_code_cid(c)
  PROVE  CommandsInv'
<1>1. /\ stage[c] = "codes" /\ stage[c] \in Waiting \ {"wait"} /\ Answered(c)
      /\ Goto(c, "push") \/ Respond(c, "error")
      /\ UNCHANGED <<config, cmd, arg, from, entry, pushed, receipts, during>>
  BY DEF get_subnet_actor_code_cid, Waiting, Pushing
<1>2. served' \in [Calls -> SUBSET Subnets] /\ StageOK(cmd[c], arg[c], "codes", entry[c])
  BY <1>1, AnswerTyped, ZenonT(30)
<1>3. CASE Goto(c, "push")
  <2>1. StageOK(cmd[c], arg[c], "push", entry[c]) /\ "push" \in Waiting \ {"wait"}
    BY <1>2 DEF StageOK, Waiting, Pushing, Questions
  <2> QED
    BY <1>1, <1>2, <1>3, <2>1, ForwardStep, ZenonT(30)
<1>4. CASE Respond(c, "error")
  <2>1. stage[c] # "idle"
    BY <1>1
  <2> QED
    BY <1>1, <1>2, <1>4, <2>1, ErrorStep
<1> QED
  BY <1>1, <1>3, <1>4

\* The message that is pushed is a good one.
LEMMA MessageGood ==
  ASSUME CommandsInv, NEW c \in Calls, stage[c] = "push"
  PROVE  Message(c) \in Messages /\ GoodMessage(cmd[c], arg[c], from[c], Message(c), during[c])
<1> DEFINE k == cmd[c]
           e == entry[c]
<1>1. CommandsTypeOK /\ CallInv(c)
  BY DEF CommandsInv
<1>2. stage[c] \in Waiting
  BY DEF Waiting, Pushing, Questions
<1>3. Connected(k, arg[c], from[c], e, during[c]) /\ StageOK(k, arg[c], "push", e)
  BY <1>1, <1>2 DEF CallInv, CallOK
<1>4. k \in Commands /\ Manager[k].does = "push" /\ InNetwork(k, arg[c], Node(c))
  BY <1>1, <1>3 DEF CommandsTypeOK, StageOK, Node, Pushing
<1>5. Handlers[k].token /\ Handlers[k].sender /\ Manager[k].to \in {"init", "actor", "gateway", "account"}
  BY <1>4, Tables
<1>6. e \in Entries /\ e.token /\ (from[c] # None \/ e.accounts # <<>>)
  BY <1>3, <1>5 DEF Connected
<1>7. e.url \in Urls /\ e.accounts \in Seq(Accounts) /\ e.gateway \in Gateways
  BY <1>6 DEF Entries
<1>8. from[c] = None => Sender(c) = e.accounts[1] /\ e.accounts[1] \in Accounts
  <2>1. e.accounts # <<>> => e.accounts[1] \in Accounts
    BY <1>7
  <2> QED
    BY <1>6, <2>1 DEF Sender
<1>9. from[c] # None => Sender(c) = from[c] /\ from[c] \in Accounts
  BY <1>1 DEF Sender, CommandsTypeOK
<1>10. Receiver(c) \in Receivers /\ Receiver(c).kind = Manager[k].to
        /\ (Receiver(c).kind = "actor" => Receiver(c).at = arg[c])
        /\ (Receiver(c).kind = "gateway" => Receiver(c).at = e.gateway)
  BY <1>1, <1>5, <1>7, ZenonT(30) DEF Receiver, Receivers, CommandsTypeOK
<1>11. Node(c) \in Subnets
  BY <1>7, CommandsAssumption DEF Node
<1>12. Message(c).net = Node(c) /\ Message(c).to = Receiver(c) /\ Message(c).from = Sender(c)
  BY DEF Message
<1>13. Message(c) \in Messages
  BY <1>8, <1>9, <1>10, <1>11 DEF Message, Messages
<1>14. PICK cfg \in during[c] : \E t \in DOMAIN cfg : cfg[t] = e
  BY <1>3 DEF Connected
<1>15. PICK t \in DOMAIN cfg : cfg[t] = e
  BY <1>14
<1>16. /\ cfg[t].token
       /\ Message(c).net = NetworkAt[cfg[t].url]
       /\ Message(c).to.kind = "gateway" => Message(c).to.at = cfg[t].gateway
       /\ from[c] = None => cfg[t].accounts # <<>> /\ Message(c).from = cfg[t].accounts[1]
       /\ from[c] # None => Message(c).from = from[c]
  BY <1>6, <1>8, <1>9, <1>10, <1>12, <1>15 DEF Node
<1>17. GoodMessage(cmd[c], arg[c], from[c], Message(c), during[c])
  BY <1>4, <1>10, <1>12, <1>16, ZenonT(30) DEF GoodMessage
<1> QED
  BY <1>13, <1>17, ZenonT(30)

\* A message is pushed, and its answer may be lost.
LEMMA PushStep ==
  ASSUME CommandsInv, NEW c \in Calls, mpool_push_message(c)
  PROVE  CommandsInv'
<1> DEFINE m == Message(c)
<1>1. CommandsTypeOK /\ CurrentConfig /\ (\A d \in Calls : CallInv(d)) /\ stage[c] = "push"
  BY DEF CommandsInv, mpool_push_message
<1>2. m \in Messages /\ GoodMessage(cmd[c], arg[c], from[c], m, during[c])
  BY <1>1, MessageGood
<1>3. stage[c] \in Waiting /\ UnderWay(c)
  BY <1>1 DEF Waiting, Pushing, Questions, UnderWay
<1>4. /\ CountOK(cmd[c], "push", pushed[c], receipts[c], reply[c])
      /\ StageOK(cmd[c], arg[c], "push", entry[c])
      /\ Connected(cmd[c], arg[c], from[c], entry[c], during[c])
  BY <1>1, <1>3, ZenonT(30) DEF CallInv, CallOK
<1>5. pushed[c] = <<>>
  BY <1>4 DEF CountOK
<1> HIDE DEF m
<1>6. Append(pushed[c], m) = <<m>> /\ <<m>> \in Seq(Messages) /\ Len(<<m>>) = 1 /\ DOMAIN <<m>> = {1} /\ <<m>>[1] = m
  BY <1>2, <1>5
<1>7. /\ UNCHANGED <<config, cmd, arg, from, entry, receipts, served, during>>
      /\ pushed' = [pushed EXCEPT ![c] = <<m>>]
  BY <1>6 DEF mpool_push_message, m
<1>8. \E st \in {"wait", "done"}, rp \in {None, "ok", "error", "timeout"} :
        /\ stage' = [stage EXCEPT ![c] = st] /\ reply' = [reply EXCEPT ![c] = rp]
        /\ rp = reply[c] \/ rp = "error"
  <2>1. CASE Goto(c, "wait")
    BY <1>1, <2>1 DEF Goto, CommandsTypeOK
  <2>2. CASE Respond(c, "error")
    BY <1>1, <2>2, ZenonT(30) DEF Respond, CommandsTypeOK
  <2> QED
    BY <2>1, <2>2 DEF mpool_push_message
<1>9. PICK st \in {"wait", "done"}, rp \in {None, "ok", "error", "timeout"} :
        /\ stage' = [stage EXCEPT ![c] = st] /\ reply' = [reply EXCEPT ![c] = rp]
        /\ rp = reply[c] \/ rp = "error"
  BY <1>8, ZenonT(30)
<1>10. /\ stage'[c] = st /\ reply'[c] = rp /\ pushed'[c] = <<m>>
       /\ \A d \in Calls : d # c => stage'[d] = stage[d] /\ reply'[d] = reply[d] /\ pushed'[d] = pushed[d]
  BY <1>1, <1>7, <1>9 DEF CommandsTypeOK
<1>11. CommandsTypeOK' /\ CurrentConfig'
  <2>1. CommandsTypeOK'
    BY <1>1, <1>6, <1>7, <1>9 DEF CommandsTypeOK, Stages, Waiting, Pushing, Questions
  <2>2. \A d \in Calls : UnderWay(d)' => UnderWay(d)
    BY <1>3, <1>10 DEF UnderWay
  <2>3. CurrentConfig'
    BY <1>1, <1>7, <2>2 DEF CurrentConfig
  <2> QED
    BY <2>1, <2>3
<1>12. CountOK(cmd[c], st, <<m>>, receipts[c], rp)
  <2>1. Len(receipts[c]) <= 1
    <3>1. Len(pushed[c]) <= 1 /\ Len(receipts[c]) <= Len(pushed[c])
      BY <1>4 DEF CountOK
    <3>2. pushed[c] \in Seq(Messages) /\ receipts[c] \in Seq({"ok", "failed"})
      BY <1>1 DEF CommandsTypeOK
    <3>3. Len(pushed[c]) \in Nat /\ Len(receipts[c]) \in Nat
      BY <3>2
    <3> QED
      BY <3>1, <3>3
  <2>2. rp # "ok"
    BY <1>4, <1>9 DEF CountOK
  <2> QED
    BY <1>6, <1>9, <2>1, <2>2 DEF CountOK
<1>13. StageOK(cmd[c], arg[c], st, entry[c])
  BY <1>4, <1>9 DEF StageOK, Pushing, Questions
<1>14. \A i \in DOMAIN <<m>> : GoodMessage(cmd[c], arg[c], from[c], <<m>>[i], during[c])
  BY <1>2, <1>6
<1>15. CallOK(cmd[c], arg[c], from[c], st, entry[c], <<m>>, receipts[c], rp, during[c])
  BY <1>4, <1>12, <1>13, <1>14, ZenonT(30) DEF CallOK
<1>16. CallInv(c)'
  BY <1>7, <1>10, <1>15, ZenonT(30) DEF CallInv
<1>17. \A d \in Calls : CallInv(d)'
  BY <1>1, <1>7, <1>10, <1>16, OneCall, ZenonT(30)
<1> QED
  BY <1>11, <1>17 DEF CommandsInv

\* A message is included.
LEMMA IncludeStep ==
  ASSUME CommandsInv, NEW c \in Calls, NEW receipt \in {"ok", "failed"}, Include(c, receipt)
  PROVE  CommandsInv'
<1> DEFINE rc == Append(receipts[c], receipt)
<1>1. CommandsTypeOK /\ CurrentConfig /\ \A d \in Calls : CallInv(d)
  BY DEF CommandsInv
<1>2. /\ Len(receipts[c]) < Len(pushed[c])
      /\ receipts' = [receipts EXCEPT ![c] = rc]
      /\ UNCHANGED <<config, cmd, arg, from, stage, entry, pushed, served, reply, during>>
  BY DEF Include
<1>3. receipts[c] \in Seq({"ok", "failed"}) /\ pushed[c] \in Seq(Messages)
  BY <1>1 DEF CommandsTypeOK
<1>4. rc \in Seq({"ok", "failed"}) /\ Len(rc) = Len(receipts[c]) + 1 /\ rc # <<>>
  BY <1>3
<1>5. Len(rc) <= Len(pushed[c])
  BY <1>2, <1>3, <1>4
<1> HIDE DEF rc
<1>6. receipts'[c] = rc /\ \A d \in Calls : d # c => receipts'[d] = receipts[d]
  BY <1>1, <1>2 DEF CommandsTypeOK
<1>7. CommandsTypeOK' /\ CurrentConfig'
  BY <1>1, <1>2, <1>4 DEF CommandsTypeOK, CurrentConfig, UnderWay
<1>8. CountOK(cmd[c], stage[c], pushed[c], receipts[c], reply[c])
  BY <1>1 DEF CallInv, CallOK
<1>9. CountOK(cmd[c], stage[c], pushed[c], rc, reply[c])
  BY <1>4, <1>5, <1>8 DEF CountOK
<1>10. CallOK(cmd[c], arg[c], from[c], stage[c], entry[c], pushed[c], rc, reply[c], during[c])
  BY <1>1, <1>9, ZenonT(30) DEF CallInv, CallOK
<1>11. CallInv(c)'
  BY <1>2, <1>6, <1>10 DEF CallInv
<1>12. \A d \in Calls : CallInv(d)'
  BY <1>1, <1>2, <1>6, <1>11, OneCall
<1> QED
  BY <1>7, <1>12 DEF CommandsInv

\* Success is reported.
LEMMA DoneStep ==
  ASSUME CommandsInv, NEW c \in Calls, stage[c] # "idle", Respond(c, "ok"),
         Manager[cmd[c]].does = "push" => receipts[c] # <<>>,
         served' \in [Calls -> SUBSET Subnets],
         UNCHANGED <<config, cmd, arg, from, entry, pushed, receipts, during>>
  PROVE  CommandsInv'
<1> DEFINE rp == IF reply[c] = None THEN "ok" ELSE reply[c]
<1>1. CommandsTypeOK /\ CallInv(c)
  BY DEF CommandsInv
<1>2. stage' = [stage EXCEPT ![c] = "done"] /\ reply' = [reply EXCEPT ![c] = rp]
  BY DEF Respond
<1>3. rp \in {None, "ok", "error", "timeout"}
  BY <1>1 DEF CommandsTypeOK
<1>4. CountOK(cmd[c], stage[c], pushed[c], receipts[c], reply[c])
  BY <1>1, ZenonT(30) DEF CallInv, CallOK
<1> HIDE DEF rp
<1>5. CountOK(cmd[c], "done", pushed[c], receipts[c], rp)
  BY <1>4, ZenonT(30) DEF CountOK
<1>6. StageOK(cmd[c], arg[c], "done", entry[c])
  BY DEF StageOK, Pushing, Questions
<1>7. "done" \in Stages /\ "done" \notin Waiting
  BY DEF Stages, Waiting, Pushing, Questions, Waiting, Pushing, Questions
<1>8. CallOK(cmd[c], arg[c], from[c], "done", entry[c], pushed[c], receipts[c], rp, during[c])
  BY <1>1, <1>5, <1>6, <1>7, ZenonT(30) DEF CallInv, CallOK
<1> QED
  BY <1>2, <1>3, <1>7, <1>8, StageStep, ZenonT(30)

LEMMA WaitStep ==
  ASSUME CommandsInv, NEW c \in Calls, state_wait_msg(c)
  PROVE  CommandsInv'
<1>1. CommandsTypeOK /\ CallInv(c) /\ stage[c] = "wait" /\ Len(receipts[c]) = Len(pushed[c])
  BY DEF CommandsInv, state_wait_msg
<1>2. CountOK(cmd[c], "wait", pushed[c], receipts[c], reply[c])
  BY <1>1, ZenonT(30) DEF CallInv, CallOK
<1>3. Len(receipts[c]) = 1
  BY <1>1, <1>2 DEF CountOK
<1>4. receipts[c] # <<>>
  <2>1. Len(<<>>) # 1
    OBVIOUS
  <2> QED
    BY <1>3, <2>1, ZenonT(30)
<1>5. stage[c] # "idle" /\ served' \in [Calls -> SUBSET Subnets]
  BY <1>1 DEF state_wait_msg, CommandsTypeOK
<1> QED
  BY <1>4, <1>5, DoneStep, ZenonT(30) DEF state_wait_msg

\* A question of a command that pushes nothing is answered.
LEMMA AskStep ==
  ASSUME CommandsInv, NEW c \in Calls, NEW q \in Questions, NEW next \in Questions \cup {"done"},
         Ask(c, q, next)
  PROVE  CommandsInv'
<1>1. /\ stage[c] = q /\ stage[c] \in Waiting \ {"wait"} /\ stage[c] # "idle" /\ Answered(c)
      /\ UNCHANGED <<config, cmd, arg, from, entry, pushed, receipts, during>>
  BY DEF Ask, Waiting, Questions
<1>2. served' \in [Calls -> SUBSET Subnets] /\ StageOK(cmd[c], arg[c], q, entry[c])
  BY <1>1, AnswerTyped, ZenonT(30)
<1>3. Manager[cmd[c]].does = "ask"
  BY <1>2, ZenonT(30) DEF StageOK
<1>4. CASE next = "done"
  <2>1. Respond(c, "ok")
    BY <1>4 DEF Ask
  <2>2. Manager[cmd[c]].does # "push"
    BY <1>3
  <2> QED
    BY <1>1, <1>2, <2>1, <2>2, DoneStep, ZenonT(30)
<1>5. CASE next # "done"
  <2>1. Goto(c, next)
    BY <1>5 DEF Ask
  <2>2. next \in Questions /\ next \notin Pushing /\ next \in Waiting \ {"wait"}
    BY <1>5 DEF Pushing, Questions, Waiting
  <2>3. StageOK(cmd[c], arg[c], next, entry[c])
    BY <1>3, <2>2, ZenonT(30) DEF StageOK
  <2> QED
    BY <1>1, <1>2, <2>1, <2>2, <2>3, ForwardStep, ZenonT(30)
<1> QED
  BY <1>4, <1>5

\* The questions that are asked.
LEMMA Asked ==
  ASSUME NEW c, AskNode(c)
  PROVE  \E q \in Questions, next \in Questions \cup {"done"} : Ask(c, q, next)
  BY DEF AskNode, WalletNew, WalletList, WalletBalances, ipc_list_child_subnets, ipc_list_checkpoints,
         chain_head, ipc_read_gateway_state, ipc_read_subnet_actor_state,
         ipc_get_genesis_epoch_for_subnet, Questions

LEMMA CliStep ==
  ASSUME CommandsInv, NEW c \in Calls, Cli(c)
  PROVE  CommandsInv'
<1>1. Senders \subseteq Senders /\ {None} \subseteq Senders
  BY DEF Senders
<1>2. /\ {"create", "join", "leave", "kill", "net_addr", "fund", "release", "propagate", "whitelist",
          "send_value", "wallet_new", "wallet_list", "list_subnets", "list_checkpoints",
          "last_topdown", "validators"} \subseteq Commands
  BY DEF Commands, Handlers
<1>3. \E k \in Commands : Request(c, k, Senders) \/ Request(c, k, {None})
  BY <1>2 DEF Cli, CliCreateSubnet, CliJoinSubnet, CliLeaveSubnet, CliKillSubnet,
     CliSetValidatorNetAddr, CliFund, CliRelease, CliPropagate, CliWhitelistPropagator, CliSendValue,
     CliWalletNew, CliWalletList, CliListSubnets, CliListBottomUpCheckpoints, CliLastTopDownExec,
     ValidatorsRequest
<1> QED
  BY <1>1, <1>3, RequestStep

LEMMA CommandsStep ==
  ASSUME CommandsInv, [CommandsNext]_commandVars
  PROVE  CommandsInv'
<1>1. CASE UNCHANGED commandVars
  <2>1. CommandsTypeOK' /\ CurrentConfig'
    BY <1>1 DEF CommandsInv, CommandsTypeOK, CurrentConfig, UnderWay, commandVars
  <2>2. \A c \in Calls : CallInv(c)'
    BY <1>1, ZenonT(30) DEF CommandsInv, CallInv, commandVars
  <2> QED
    BY <2>1, <2>2 DEF CommandsInv
<1>2. ASSUME NEW cfg \in Configs, Reload(cfg) PROVE CommandsInv'
  BY <1>2, ReloadStep
<1>3. ASSUME NEW c \in Calls, Refuse(c) PROVE CommandsInv'
  <2>1. stage[c] # "idle" /\ served' \in [Calls -> SUBSET Subnets]
    BY <1>3 DEF CommandsInv, CommandsTypeOK, Refuse
  <2> QED
    BY <1>3, <2>1, ErrorStep DEF Refuse
<1>4. ASSUME NEW c \in Calls, RpcFails(c) PROVE CommandsInv'
  <2>1. stage[c] # "idle" /\ served' \in [Calls -> SUBSET Subnets]
    BY <1>4 DEF CommandsInv, CommandsTypeOK, RpcFails, Waiting, Pushing, Questions
  <2> QED
    BY <1>4, <2>1, ErrorStep DEF RpcFails
<1>5. ASSUME NEW c \in Calls, Drop(c) PROVE CommandsInv'
  <2>1. stage[c] # "idle" /\ served' \in [Calls -> SUBSET Subnets]
    BY <1>5 DEF CommandsInv, CommandsTypeOK, Drop, UnderWay
  <2> QED
    BY <1>5, <2>1, ErrorStep DEF Drop
<1> QED
  BY <1>1, <1>2, <1>3, <1>4, <1>5, CliStep, HandleStep, MatchStep, VersionStep, CodesStep,
     PushStep, IncludeStep, WaitStep, Asked, AskStep, TimeOutStep DEF CommandsNext

-------------------------------------------------------------------------------
(***************************************************************************)
(* The answers of a command come from the node of its connection, which    *)
(* does not change once it is taken.                                       *)
(***************************************************************************)
GoodAnswers(sv, du) ==
  sv # {} => \E cfg \in du : \E t \in DOMAIN cfg : sv = {NetworkAt[cfg[t].url]}

AnswersOK(sv, st, e, du) ==
  /\ GoodAnswers(sv, du)
  /\ st \in Waiting => sv \subseteq {NetworkAt[e.url]}
  /\ st \in {"idle", "sent"} => sv = {}

AnswersInv == \A c \in Calls : AnswersOK(served[c], stage[c], entry[c], during[c])

\* The node of the connection answers, and the handler goes on or ends.
LEMMA AnswerStep ==
  ASSUME CommandsInv, AnswersInv, NEW c \in Calls, stage[c] \in Waiting, Answered(c),
         NEW st \in Waiting \cup {"done"}, stage' = [stage EXCEPT ![c] = st],
         UNCHANGED <<entry, during>>
  PROVE  AnswersInv'
<1> DEFINE n == NetworkAt[entry[c].url]
<1>1. CommandsTypeOK /\ AnswersOK(served[c], stage[c], entry[c], during[c])
      /\ Connected(cmd[c], arg[c], from[c], entry[c], during[c])
  BY AnswerTyped, ZenonT(30) DEF AnswersInv, CommandsInv
<1>2. /\ served'[c] = served[c] \cup {n} /\ stage'[c] = st
      /\ \A d \in Calls : d # c => served'[d] = served[d] /\ stage'[d] = stage[d]
  BY <1>1, ZenonT(30) DEF CommandsTypeOK, Answered, Node
<1>3. served[c] \subseteq {n}
  BY <1>1 DEF AnswersOK
<1>4. served'[c] = {n}
  BY <1>2, <1>3
<1>5. GoodAnswers(served'[c], during[c])
  BY <1>1, <1>4 DEF GoodAnswers, Connected
<1>6. st \notin {"idle", "sent"}
  BY DEF Waiting, Pushing, Questions
<1>7. AnswersOK(served'[c], st, entry[c], during[c])
  BY <1>4, <1>5, <1>6 DEF AnswersOK
<1>8. ASSUME NEW d \in Calls PROVE AnswersOK(served'[d], stage'[d], entry'[d], during'[d])
  BY <1>2, <1>7, ZenonT(30) DEF AnswersInv
<1> QED
  BY <1>8 DEF AnswersInv

\* No answer comes, and the handler goes on with the node it has, or ends.
LEMMA NoAnswerStep ==
  ASSUME CommandsTypeOK, AnswersInv, NEW c \in Calls, NEW st \in Stages,
         stage' = [stage EXCEPT ![c] = st],
         st \in Waiting => stage[c] \in Waiting, st \in {"idle", "sent"} => stage[c] \in {"idle", "sent"},
         UNCHANGED <<entry, served, during>>
  PROVE  AnswersInv'
<1>1. stage'[c] = st /\ \A d \in Calls : d # c => stage'[d] = stage[d]
  BY DEF CommandsTypeOK
<1>2. ASSUME NEW d \in Calls PROVE AnswersOK(served'[d], stage'[d], entry'[d], during'[d])
  <2>1. AnswersOK(served[d], stage[d], entry[d], during[d])
    BY DEF AnswersInv
  <2>2. /\ stage'[d] \in Waiting => stage[d] \in Waiting
        /\ stage'[d] \in {"idle", "sent"} => stage[d] \in {"idle", "sent"}
    BY <1>1
  <2> QED
    BY <2>1, <2>2, ZenonT(30) DEF AnswersOK
<1> QED
  BY <1>2 DEF AnswersInv

LEMMA AnswersStep ==
  ASSUME CommandsInv, AnswersInv, [CommandsNext]_commandVars
  PROVE  AnswersInv'
<1>1. CommandsTypeOK
  BY DEF CommandsInv
<1>2. CASE UNCHANGED commandVars
  BY <1>2, ZenonT(30) DEF AnswersInv, commandVars
<1>3. ASSUME NEW cfg \in Configs, Reload(cfg) PROVE AnswersInv'
  <2>1. ASSUME NEW c \in Calls PROVE AnswersOK(served'[c], stage'[c], entry'[c], during'[c])
    <3>1. /\ AnswersOK(served[c], stage[c], entry[c], during[c]) /\ during[c] \subseteq during'[c]
          /\ served'[c] = served[c] /\ stage'[c] = stage[c] /\ entry'[c] = entry[c]
      BY <1>3 DEF AnswersInv, Reload
    <3>2. GoodAnswers(served[c], during[c]) => GoodAnswers(served[c], during'[c])
      BY <3>1 DEF GoodAnswers
    <3> QED
      BY <3>1, <3>2, ZenonT(30) DEF AnswersOK
  <2> QED
    BY <2>1 DEF AnswersInv
<1>4. ASSUME NEW c \in Calls, Cli(c) PROVE AnswersInv'
  <2>1. /\ stage[c] = "idle" /\ stage' = [stage EXCEPT ![c] = "sent"]
        /\ during' = [during EXCEPT ![c] = {config}] /\ UNCHANGED <<entry, served>>
    BY <1>4, ZenonT(30) DEF Cli, Request, CliCreateSubnet, CliJoinSubnet, CliLeaveSubnet, CliKillSubnet,
       CliSetValidatorNetAddr, CliFund, CliRelease, CliPropagate, CliWhitelistPropagator, CliSendValue,
       CliWalletNew, CliWalletList, CliListSubnets, CliListBottomUpCheckpoints, CliLastTopDownExec,
       ValidatorsRequest
  <2>2. served[c] = {}
    BY <2>1 DEF AnswersInv, AnswersOK
  <2>3. ASSUME NEW d \in Calls PROVE AnswersOK(served'[d], stage'[d], entry'[d], during'[d])
    <3>1. CASE d = c
      BY <1>1, <2>1, <2>2, <3>1, ZenonT(30) DEF AnswersOK, GoodAnswers, CommandsTypeOK, Waiting, Pushing, Questions
    <3>2. CASE d # c
      <4>1. stage'[d] = stage[d] /\ during'[d] = during[d]
        BY <1>1, <2>1, <3>2 DEF CommandsTypeOK
      <4> QED
        BY <2>1, <4>1, ZenonT(30) DEF AnswersInv
    <3> QED
      BY <3>1, <3>2, ZenonT(30)
  <2> QED
    BY <2>3 DEF AnswersInv
<1>5. ASSUME NEW c \in Calls, Handle(c) PROVE AnswersInv'
  <2>1. PICK e, st : /\ stage[c] = "sent" /\ entry' = [entry EXCEPT ![c] = e]
                     /\ stage' = [stage EXCEPT ![c] = st] /\ UNCHANGED <<served, during>>
    BY <1>5, ZenonT(30) DEF Handle, Goto
  <2>2. served[c] = {}
    BY <2>1 DEF AnswersInv, AnswersOK
  <2>3. ASSUME NEW d \in Calls PROVE AnswersOK(served'[d], stage'[d], entry'[d], during'[d])
    <3>1. CASE d = c
      BY <2>1, <2>2, <3>1 DEF AnswersOK, GoodAnswers
    <3>2. CASE d # c
      <4>1. stage'[d] = stage[d] /\ entry'[d] = entry[d]
        BY <1>1, <2>1, <3>2 DEF CommandsTypeOK
      <4> QED
        BY <2>1, <4>1, ZenonT(30) DEF AnswersInv
    <3> QED
      BY <3>1, <3>2
  <2> QED
    BY <2>3 DEF AnswersInv
<1>6. ASSUME NEW c \in Calls, is_network_match(c) \/ state_network_version(c) \/ get_subnet_actor_code_cid(c)
      PROVE  AnswersInv'
  <2>1. /\ stage[c] \in Waiting /\ Answered(c) /\ UNCHANGED <<entry, during>>
        /\ \E st \in Waiting \cup {"done"} : stage' = [stage EXCEPT ![c] = st]
    BY <1>6 DEF is_network_match, state_network_version, get_subnet_actor_code_cid, Ask, Goto, Respond,
       Waiting, Pushing
  <2> QED
    BY <2>1, AnswerStep, ZenonT(30)
<1>7. ASSUME NEW c \in Calls, AskNode(c) PROVE AnswersInv'
  <2>1. PICK q \in Questions, next \in Questions \cup {"done"} : Ask(c, q, next)
    BY <1>7, Asked
  <2>2. /\ stage[c] \in Waiting /\ Answered(c) /\ UNCHANGED <<entry, during>>
        /\ next \in Waiting \cup {"done"} /\ stage' = [stage EXCEPT ![c] = next]
    BY <2>1 DEF Ask, Goto, Respond, Waiting
  <2> QED
    BY <2>2, AnswerStep, ZenonT(30)
<1>8. ASSUME NEW c \in Calls, mpool_push_message(c) \/ state_wait_msg(c) \/ Refuse(c) \/ RpcFails(c) \/ Drop(c)
      PROVE  AnswersInv'
  <2>1. /\ UNCHANGED <<entry, served, during>>
        /\ \/ stage' = [stage EXCEPT ![c] = "done"]
           \/ stage' = [stage EXCEPT ![c] = "wait"] /\ stage[c] = "push"
    BY <1>8 DEF mpool_push_message, state_wait_msg, Refuse, RpcFails, Drop, Goto, Respond
  <2>2. {"wait", "push"} \subseteq Waiting /\ "done" \notin Waiting /\ {"wait", "done"} \subseteq Stages
    BY DEF Stages, Waiting, Pushing, Questions
  <2> QED
    BY <1>1, <2>1, <2>2, NoAnswerStep
<1>9. ASSUME NEW c \in Calls, (\E receipt \in {"ok", "failed"} : Include(c, receipt)) \/ TimeOut(c)
      PROVE  AnswersInv'
  <2>1. UNCHANGED <<entry, served, during, stage>>
    BY <1>9 DEF Include, TimeOut
  <2> QED
    BY <2>1, ZenonT(30) DEF AnswersInv
<1> QED
  BY <1>2, <1>3, <1>4, <1>5, <1>6, <1>7, <1>8, <1>9 DEF CommandsNext

LEMMA CommandsAlways == CommandsSpec => [](CommandsInv /\ AnswersInv)
<1>1. CommandsInit => AnswersInv
  BY DEF CommandsInit, AnswersInv, AnswersOK, GoodAnswers, Waiting, Pushing, Questions
<1> QED
  BY <1>1, CommandsInitially, CommandsStep, AnswersStep, PTL DEF CommandsSpec

-------------------------------------------------------------------------------
\* Whatever the subnets, the configs and their replacements, and however many
\* commands run at once, a message goes to the network it is for
\* (is_network_match, lotus.rs:363-371).
THEOREM MessagesInRightNetwork == CommandsSpec => []RightNetwork
<1>1. CommandsInv => RightNetwork
  <2> SUFFICES ASSUME CommandsInv, NEW c \in Calls, NEW i \in DOMAIN pushed[c]
               PROVE  /\ pushed[c][i].to.kind = "actor" => ParentOf[pushed[c][i].to.at] = pushed[c][i].net
                      /\ cmd[c] = "fund" => ParentOf[arg[c]] = pushed[c][i].net
                      /\ cmd[c] \in {"create", "release", "propagate", "whitelist"} => arg[c] = pushed[c][i].net
    BY DEF RightNetwork
  <2>1. cmd[c] \in Commands /\ CallInv(c)
    BY DEF CommandsInv, CommandsTypeOK
  <2>2. GoodMessage(cmd[c], arg[c], from[c], pushed[c][i], during[c])
    BY <2>1, ZenonT(30) DEF CallInv, CallOK
  <2> DEFINE m == pushed[c][i]
             k == cmd[c]
  <2>3. /\ InNetwork(k, arg[c], m.net)
        /\ m.to.kind = Manager[k].to
        /\ m.to.kind = "actor" => m.to.at = arg[c]
    BY <2>2, ZenonT(30) DEF GoodMessage
  <2>4. /\ Manager[k].to = "actor" => Manager[k].network = "parent"
        /\ k = "fund" => Manager[k].network = "parent"
        /\ k \in {"create", "release", "propagate", "whitelist"} => Manager[k].network = "subnet"
    BY <2>1, Tables
  <2> QED
    BY <2>3, <2>4 DEF InNetwork
<1> QED
  BY <1>1, CommandsAlways, PTL

\* A message, and the answers that a command is put together from, come from
\* one config that was current while the command was under way
\* (SubnetManagerPool::get, subnet.rs:41-55).
THEOREM CommandsUseOneConfig == CommandsSpec => []OneSnapshot
<1>1. CommandsInv /\ AnswersInv => OneSnapshot
  <2>1. ASSUME CommandsInv, NEW c \in Calls, NEW i \in DOMAIN pushed[c]
        PROVE  GoodMessage(cmd[c], arg[c], from[c], pushed[c][i], during[c])
    BY <2>1, ZenonT(30) DEF CommandsInv, CallInv, CallOK
  <2>2. ASSUME AnswersInv, NEW c \in Calls PROVE GoodAnswers(served[c], during[c])
    BY <2>2 DEF AnswersInv, AnswersOK
  <2> QED
    BY <2>1, <2>2, ZenonT(30) DEF OneSnapshot, GoodMessage, GoodAnswers
<1> QED
  BY <1>1, CommandsAlways, PTL

\* A command pushes at most one message, which is included before success is
\* reported (mpool_push_and_wait, lotus.rs:353-360).
THEOREM MessagesIncludedOnce == CommandsSpec => []IncludedOnce
<1>1. CommandsInv => IncludedOnce
  <2> SUFFICES ASSUME CommandsInv, NEW c \in Calls
               PROVE  CountOK(cmd[c], stage[c], pushed[c], receipts[c], reply[c])
    BY DEF IncludedOnce, CountOK
  <2> QED
    BY ZenonT(30) DEF CommandsInv, CallInv, CallOK
<1> QED
  BY <1>1, CommandsAlways, PTL
===============================================================================
