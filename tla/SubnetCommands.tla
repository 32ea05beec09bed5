----------------------------- MODULE SubnetCommands ----------------------------
(***************************************************************************)
(* The commands of the agent (src/src/cli/commands, server/handlers,       *)
(* manager/lotus.rs, lotus/client.rs): the command line sends a JSON-RPC   *)
(* request, a handler picks a subnet's connection from the config, and the *)
(* subnet manager behind it calls the Lotus node at that connection's URL. *)
(*                                                                         *)
(* Every command is a row of two tables, what its handler demands and what *)
(* its manager does; the actions are the steps between awaits and read the *)
(* tables.  The nodes and the actors are external: a node knows its        *)
(* network's name, includes a pushed message or not, and reports its       *)
(* receipt.  ReloadableConfig models how a config is replaced; here it is  *)
(* replaced at any time.                                                   *)
(***************************************************************************)
EXTENDS Integers, Sequences

CONSTANTS
  Subnets, Root,
  ParentOf,      \* SubnetID::parent of every subnet but the root
  Urls,
  NetworkAt,     \* the network that the node at a URL runs
  Accounts,
  Gateways,
  IdAddresses,   \* the gateway addresses that are ID addresses
  Configs,       \* the configs that a file may hold
  Calls          \* the commands that are run

None == "none"

\* config::Subnet.
Entries == [url : Urls, token : BOOLEAN, accounts : Seq(Accounts), gateway : Gateways]
NoEntry == [url |-> None, token |-> FALSE, accounts |-> <<>>, gateway |-> None]

ASSUME CommandsAssumption ==
  /\ Root \in Subnets
  /\ ParentOf \in [Subnets \ {Root} -> Subnets]
  /\ NetworkAt \in [Urls -> Subnets]
  /\ None \notin Accounts
  /\ Configs # {}
  /\ \A cfg \in Configs :
       DOMAIN cfg \subseteq Subnets /\ \A s \in DOMAIN cfg : cfg[s] \in Entries

-------------------------------------------------------------------------------
(***************************************************************************)
(* The handlers.  conn: whose connection is used, the subnet's of the      *)
(* request or its parent's; token: check_subnet; sender: parse_from; id:   *)
(* the gateway must have an ID address.                                    *)
(***************************************************************************)
CreateSubnetHandler == [conn |-> "subnet", token |-> TRUE, sender |-> TRUE, id |-> TRUE]
JoinSubnetHandler == [conn |-> "parent", token |-> TRUE, sender |-> TRUE, id |-> FALSE]
LeaveSubnetHandler == [conn |-> "parent", token |-> TRUE, sender |-> TRUE, id |-> FALSE]
KillSubnetHandler == [conn |-> "parent", token |-> TRUE, sender |-> TRUE, id |-> FALSE]
SetValidatorNetAddrHandler == [conn |-> "parent", token |-> TRUE, sender |-> TRUE, id |-> FALSE]
FundHandler == [conn |-> "parent", token |-> TRUE, sender |-> TRUE, id |-> FALSE]
ReleaseHandler == [conn |-> "subnet", token |-> TRUE, sender |-> TRUE, id |-> FALSE]
PropagateHandler == [conn |-> "subnet", token |-> TRUE, sender |-> TRUE, id |-> FALSE]
WhitelistPropagatorHandler == [conn |-> "subnet", token |-> TRUE, sender |-> TRUE, id |-> FALSE]
SendValueHandler == [conn |-> "subnet", token |-> TRUE, sender |-> TRUE, id |-> FALSE]
WalletNewHandler == [conn |-> "subnet", token |-> FALSE, sender |-> FALSE, id |-> FALSE]
WalletListHandler == [conn |-> "subnet", token |-> FALSE, sender |-> FALSE, id |-> FALSE]
ListSubnetsHandler == [conn |-> "subnet", token |-> TRUE, sender |-> FALSE, id |-> FALSE]
ListBottomUpCheckpointsHandler == [conn |-> "parent", token |-> TRUE, sender |-> FALSE, id |-> FALSE]
LastTopDownExecHandler == [conn |-> "subnet", token |-> TRUE, sender |-> FALSE, id |-> FALSE]
QueryValidatorSetHandler == [conn |-> "parent", token |-> FALSE, sender |-> FALSE, id |-> FALSE]

Handlers ==
  [create |-> CreateSubnetHandler, join |-> JoinSubnetHandler, leave |-> LeaveSubnetHandler,
   kill |-> KillSubnetHandler, net_addr |-> SetValidatorNetAddrHandler, fund |-> FundHandler,
   release |-> ReleaseHandler, propagate |-> PropagateHandler,
   whitelist |-> WhitelistPropagatorHandler, send_value |-> SendValueHandler,
   wallet_new |-> WalletNewHandler, wallet_list |-> WalletListHandler,
   list_subnets |-> ListSubnetsHandler, list_checkpoints |-> ListBottomUpCheckpointsHandler,
   last_topdown |-> LastTopDownExecHandler, validators |-> QueryValidatorSetHandler]

Commands == DOMAIN Handlers

(***************************************************************************)
(* The subnet manager.  network: which network the node must be of         *)
(* (is_network_match), "any" without the check; does: whether a message is *)
(* pushed or the node is only asked; to: the message's receiver, or the    *)
(* first question.                                                         *)
(***************************************************************************)
create_subnet == [network |-> "subnet", does |-> "push", to |-> "init"]
join_subnet == [network |-> "parent", does |-> "push", to |-> "actor"]
leave_subnet == [network |-> "parent", does |-> "push", to |-> "actor"]

\* Mutant: the network is not checked.
kill_subnet_unchecked == [network |-> "any", does |-> "push", to |-> "actor"]

kill_subnet == [network |-> "parent", does |-> "push", to |-> "actor"]
set_validator_net_addr == [network |-> "parent", does |-> "push", to |-> "actor"]
fund == [network |-> "parent", does |-> "push", to |-> "gateway"]
release == [network |-> "subnet", does |-> "push", to |-> "gateway"]
propagate == [network |-> "subnet", does |-> "push", to |-> "gateway"]
whitelist_propagator == [network |-> "subnet", does |-> "push", to |-> "gateway"]
send_value == [network |-> "any", does |-> "push", to |-> "account"]
wallet_new == [network |-> "any", does |-> "ask", to |-> "wallet_new"]
wallet_list == [network |-> "any", does |-> "ask", to |-> "wallet_list"]
list_child_subnets == [network |-> "any", does |-> "ask", to |-> "child_subnets"]
list_checkpoints == [network |-> "any", does |-> "ask", to |-> "checkpoints"]
last_topdown_executed == [network |-> "any", does |-> "ask", to |-> "chain_head"]
query_validator_set == [network |-> "any", does |-> "ask", to |-> "chain_head"]

Manager ==
  [create |-> create_subnet, join |-> join_subnet, leave |-> leave_subnet,
   kill |-> kill_subnet, net_addr |-> set_validator_net_addr, fund |-> fund,
   release |-> release, propagate |-> propagate,
   whitelist |-> whitelist_propagator, send_value |-> send_value,
   wallet_new |-> wallet_new, wallet_list |-> wallet_list,
   list_subnets |-> list_child_subnets, list_checkpoints |-> list_checkpoints,
   last_topdown |-> last_topdown_executed, validators |-> query_validator_set]

-------------------------------------------------------------------------------
VARIABLES
  config,     \* the current config
  cmd, arg,   \* each call's command and the subnet it names
  from,       \* the account it names, or None
  stage,      \* what its handler waits for
  entry,      \* the Connection's config::Subnet
  pushed,     \* the messages pushed for it, in order
  receipts,   \* the receipts of those that are included, in order
  served,     \* the networks whose nodes answered its questions
  reply,      \* what the command line was told
  during      \* history: the configs that were current while it was under way

commandVars == <<config, cmd, arg, from, stage, entry, pushed, receipts, served, reply, during>>

\* What a handler waits for: a question's answer, or a message to be included.
Questions ==
  {"wallet_new", "wallet_list", "balances", "child_subnets", "checkpoints", "chain_head",
   "gateway_state", "actor_state", "genesis_epoch"}
Pushing == {"match", "version", "codes", "push", "wait"}
Waiting == Pushing \cup Questions
Stages == Waiting \cup {"idle", "sent", "done"}
Receivers ==
  [kind : {"init", "actor", "gateway", "account"}, at : Subnets \cup Gateways \cup {None}]
Messages == [net : Subnets, to : Receivers, from : Accounts]

CommandsTypeOK ==
  /\ config \in Configs
  /\ cmd \in [Calls -> Commands] /\ arg \in [Calls -> Subnets]
  /\ from \in [Calls -> Accounts \cup {None}]
  /\ stage \in [Calls -> Stages]
  /\ entry \in [Calls -> Entries \cup {NoEntry}]
  /\ pushed \in [Calls -> Seq(Messages)]
  /\ receipts \in [Calls -> Seq({"ok", "failed"})]
  /\ served \in [Calls -> SUBSET Subnets]
  /\ reply \in [Calls -> {None, "ok", "error", "timeout"}]
  /\ during \in [Calls -> SUBSET Configs]

CommandsInit ==
  /\ config \in Configs
  /\ cmd = [c \in Calls |-> "create"] /\ arg = [c \in Calls |-> Root]
  /\ from = [c \in Calls |-> None]
  /\ stage = [c \in Calls |-> "idle"]
  /\ entry = [c \in Calls |-> NoEntry]
  /\ pushed = [c \in Calls |-> <<>>]
  /\ receipts = [c \in Calls |-> <<>>]
  /\ served = [c \in Calls |-> {}]
  /\ reply = [c \in Calls |-> None]
  /\ during = [c \in Calls |-> {}]

-------------------------------------------------------------------------------
UnderWay(c) == stage[c] \notin {"idle", "done"}

\* The daemon is given another config (ReloadableConfig).
Reload(cfg) ==
  /\ config' = cfg
  /\ during' = [c \in Calls |-> IF UnderWay(c) THEN during[c] \cup {cfg} ELSE during[c]]
  /\ UNCHANGED <<cmd, arg, from, stage, entry, pushed, receipts, served, reply>>

\* JsonRpcClientImpl::request of the command line: the request is on its way.
Request(c, command, senders) ==
  /\ stage[c] = "idle"
  /\ \E s \in Subnets, a \in senders : arg' = [arg EXCEPT ![c] = s] /\ from' = [from EXCEPT ![c] = a]
  /\ cmd' = [cmd EXCEPT ![c] = command]
  /\ stage' = [stage EXCEPT ![c] = "sent"]
  /\ during' = [during EXCEPT ![c] = {config}]
  /\ UNCHANGED <<config, entry, pushed, receipts, served, reply>>

Senders == Accounts \cup {None}   \* --from is optional

CliCreateSubnet(c) == Request(c, "create", Senders)
CliJoinSubnet(c) == Request(c, "join", Senders)
CliLeaveSubnet(c) == Request(c, "leave", Senders)
CliKillSubnet(c) == Request(c, "kill", Senders)
CliSetValidatorNetAddr(c) == Request(c, "net_addr", Senders)
CliFund(c) == Request(c, "fund", Senders)
CliRelease(c) == Request(c, "release", Senders)
CliPropagate(c) == Request(c, "propagate", Senders)
CliWhitelistPropagator(c) == Request(c, "whitelist", Senders)
CliSendValue(c) == Request(c, "send_value", Senders)
CliWalletNew(c) == Request(c, "wallet_new", {None})
CliWalletList(c) == Request(c, "wallet_list", {None})
CliListSubnets(c) == Request(c, "list_subnets", {None})
CliListBottomUpCheckpoints(c) == Request(c, "list_checkpoints", {None})
CliLastTopDownExec(c) == Request(c, "last_topdown", {None})
ValidatorsRequest(c) == Request(c, "validators", {None})   \* not a command of the CLI

\* The response reaches the command line unless it has given up.
Respond(c, answer) ==
  /\ stage' = [stage EXCEPT ![c] = "done"]
  /\ reply' = [reply EXCEPT ![c] = IF @ = None THEN answer ELSE @]

Goto(c, next) == stage' = [stage EXCEPT ![c] = next] /\ UNCHANGED reply

\* SubnetManagerPool::get: the config now has the subnet, or its parent.
HasParent(c) == Handlers[cmd[c]].conn = "parent" => arg[c] # Root
Conn(c) == IF Handlers[cmd[c]].conn = "parent" THEN ParentOf[arg[c]] ELSE arg[c]

check_subnet(c, e) == Handlers[cmd[c]].token => e.token

\* parse_from has an account to return.
parse_from(c, e) == Handlers[cmd[c]].sender => from[c] # None \/ e.accounts # <<>>

\* Handlers::handle, up to the manager's first call: a connection is taken ...
Handle(c) ==
  /\ stage[c] = "sent" /\ HasParent(c)
  /\ Conn(c) \in DOMAIN config
  /\ LET e == config[Conn(c)]
         m == Manager[cmd[c]]
     IN  /\ check_subnet(c, e) /\ parse_from(c, e)
         /\ Handlers[cmd[c]].id => e.gateway \in IdAddresses
         /\ entry' = [entry EXCEPT ![c] = e]
         /\ Goto(c, IF m.network # "any" THEN "match" ELSE IF m.does = "push" THEN "push" ELSE m.to)
  /\ UNCHANGED <<config, cmd, arg, from, pushed, receipts, served, during>>

\* ... or the request is refused, also when an argument cannot be parsed.
Refuse(c) ==
  /\ stage[c] = "sent"
  /\ Respond(c, "error")
  /\ UNCHANGED <<config, cmd, arg, from, entry, pushed, receipts, served, during>>

-------------------------------------------------------------------------------
\* The LotusJsonRPCClient of a call asks the node at its connection's URL.
Node(c) == NetworkAt[entry[c].url]
Answered(c) == served' = [served EXCEPT ![c] = @ \cup {Node(c)}]

state_network_name(c) == Node(c)

\* The network the manager compares with the node's.
Expected(c) == IF Manager[cmd[c]].network = "parent" THEN ParentOf[arg[c]] ELSE arg[c]

\* Mutant: the comparison is with the network named by the request.
is_network_match_named(c) ==
  /\ stage[c] = "match"
  /\ IF arg[c] = state_network_name(c)
     THEN Goto(c, IF cmd[c] = "create" THEN "version" ELSE "push")
     ELSE Respond(c, "error")
  /\ Answered(c)
  /\ UNCHANGED <<config, cmd, arg, from, entry, pushed, receipts, during>>

\* state_network_name is answered.
is_network_match(c) ==
  /\ stage[c] = "match"
  /\ IF Expected(c) = state_network_name(c)
     THEN Goto(c, IF cmd[c] = "create" THEN "version" ELSE "push")
     ELSE Respond(c, "error")
  /\ Answered(c)
  /\ UNCHANGED <<config, cmd, arg, from, entry, pushed, receipts, during>>

\* A question is answered, and the handler goes on, or has what it needs.
Ask(c, question, next) ==
  /\ stage[c] = question
  /\ Answered(c)
  /\ IF next = "done" THEN Respond(c, "ok") ELSE Goto(c, next)
  /\ UNCHANGED <<config, cmd, arg, from, entry, pushed, receipts, during>>

state_network_version(c) == Ask(c, "version", "codes")

\* Whether the code CIDs of the node's actors include the subnet actor's.
state_actor_code_cids == BOOLEAN

\* get_subnet_actor_code_cid, once the version is known.
get_subnet_actor_code_cid(c) ==
  /\ stage[c] = "codes"
  /\ Answered(c)
  /\ \E found \in state_actor_code_cids : IF found THEN Goto(c, "push") ELSE Respond(c, "error")
  /\ UNCHANGED <<config, cmd, arg, from, entry, pushed, receipts, during>>

\* MpoolPushMessage of a call.
Receiver(c) ==
  LET to == Manager[cmd[c]].to
  IN  [kind |-> to,
       at |-> IF to = "actor" THEN arg[c] ELSE IF to = "gateway" THEN entry[c].gateway ELSE None]

Sender(c) == IF from[c] # None THEN from[c] ELSE entry[c].accounts[1]
Message(c) == [net |-> Node(c), to |-> Receiver(c), from |-> Sender(c)]

\* Mutant: the receiver is looked up in the config again.
mpool_push_again(c) ==
  /\ stage[c] = "push" /\ Conn(c) \in DOMAIN config
  /\ LET to == IF Manager[cmd[c]].to = "gateway"
               THEN [Receiver(c) EXCEPT !.at = config[Conn(c)].gateway] ELSE Receiver(c)
     IN  pushed' = [pushed EXCEPT ![c] = Append(@, [Message(c) EXCEPT !.to = to])]
  /\ Goto(c, "wait")
  /\ UNCHANGED <<config, cmd, arg, from, entry, receipts, served, during>>

\* mpool_push_message: the node takes the message; its answer may be lost.
mpool_push_message(c) ==
  /\ stage[c] = "push"
  /\ pushed' = [pushed EXCEPT ![c] = Append(@, Message(c))]
  /\ Goto(c, "wait") \/ Respond(c, "error")
  /\ UNCHANGED <<config, cmd, arg, from, entry, receipts, served, during>>

\* The network includes a pushed message; the actor accepts it or not.
Include(c, receipt) ==
  /\ Len(receipts[c]) < Len(pushed[c])
  /\ receipts' = [receipts EXCEPT ![c] = Append(@, receipt)]
  /\ UNCHANGED <<config, cmd, arg, from, stage, entry, pushed, served, reply, during>>

\* Mutant: nobody waits for the message.
state_wait_msg_skipped(c) ==
  /\ stage[c] = "wait"
  /\ Respond(c, "ok")
  /\ UNCHANGED <<config, cmd, arg, from, entry, pushed, receipts, served, during>>

\* state_wait_msg returns when the message is included, whatever the exit code.
\* A failed message has no return value, which create_subnet takes for the
\* default address.
state_wait_msg(c) ==
  /\ stage[c] = "wait"
  /\ Len(receipts[c]) = Len(pushed[c])
  /\ Respond(c, "ok")
  /\ UNCHANGED <<config, cmd, arg, from, entry, pushed, receipts, served, during>>

(***************************************************************************)
(* The questions of the commands that push nothing.  The balances of a     *)
(* node's wallets are asked for at once (join_all), and there may be none  *)
(* to ask for.  chain_head is the start of two commands.                   *)
(***************************************************************************)
WalletNew(c) == Ask(c, "wallet_new", "done")
WalletList(c) == \E next \in {"balances", "done"} : Ask(c, "wallet_list", next)
WalletBalances(c) == Ask(c, "balances", "done")
ipc_list_child_subnets(c) == Ask(c, "child_subnets", "done")
ipc_list_checkpoints(c) == Ask(c, "checkpoints", "done")
chain_head(c) == Ask(c, "chain_head", IF cmd[c] = "validators" THEN "actor_state" ELSE "gateway_state")
ipc_read_gateway_state(c) == Ask(c, "gateway_state", "done")
ipc_read_subnet_actor_state(c) == Ask(c, "actor_state", "genesis_epoch")
ipc_get_genesis_epoch_for_subnet(c) == Ask(c, "genesis_epoch", "done")

AskNode(c) ==
  \/ WalletNew(c) \/ WalletList(c) \/ WalletBalances(c)
  \/ ipc_list_child_subnets(c) \/ ipc_list_checkpoints(c)
  \/ chain_head(c) \/ ipc_read_gateway_state(c)
  \/ ipc_read_subnet_actor_state(c) \/ ipc_get_genesis_epoch_for_subnet(c)

\* A call to the node fails or takes longer than DEFAULT_REQ_TIMEOUT.
RpcFails(c) ==
  /\ stage[c] \in Waiting
  /\ Respond(c, "error")
  /\ UNCHANGED <<config, cmd, arg, from, entry, pushed, receipts, served, during>>

\* The command line's own DEFAULT_REQ_TIMEOUT.
TimeOut(c) ==
  /\ UnderWay(c) /\ reply[c] = None
  /\ reply' = [reply EXCEPT ![c] = "timeout"]
  /\ UNCHANGED <<config, cmd, arg, from, stage, entry, pushed, receipts, served, during>>

\* The HTTP server drops the handler of a connection that is gone.
Drop(c) ==
  /\ UnderWay(c) /\ reply[c] = "timeout"
  /\ Respond(c, "error")
  /\ UNCHANGED <<config, cmd, arg, from, entry, pushed, receipts, served, during>>

Cli(c) ==
  \/ CliCreateSubnet(c) \/ CliJoinSubnet(c) \/ CliLeaveSubnet(c) \/ CliKillSubnet(c)
  \/ CliSetValidatorNetAddr(c) \/ CliFund(c) \/ CliRelease(c) \/ CliPropagate(c)
  \/ CliWhitelistPropagator(c) \/ CliSendValue(c) \/ CliWalletNew(c) \/ CliWalletList(c)
  \/ CliListSubnets(c) \/ CliListBottomUpCheckpoints(c) \/ CliLastTopDownExec(c)
  \/ ValidatorsRequest(c)

CommandsNext ==
  \/ \E cfg \in Configs : Reload(cfg)
  \/ \E c \in Calls :
       \/ Cli(c) \/ Handle(c) \/ Refuse(c)
       \/ is_network_match(c) \/ state_network_version(c) \/ get_subnet_actor_code_cid(c)
       \/ mpool_push_message(c)
       \/ \E receipt \in {"ok", "failed"} : Include(c, receipt)
       \/ state_wait_msg(c) \/ AskNode(c) \/ RpcFails(c) \/ TimeOut(c) \/ Drop(c)

CommandsSpec == CommandsInit /\ [][CommandsNext]_commandVars

(***************************************************************************)
(* Properties                                                              *)
(***************************************************************************)

\* Whatever the config says, and however often it is replaced meanwhile, a
\* message for a subnet's actor is pushed only in the network that hosts the
\* actor, funds for a subnet are sent from the network above it, and a release,
\* a propagation, a whitelisting or a new subnet actor goes to the network that
\* was named (is_network_match, lotus.rs:363-371).
RightNetwork ==
  \A c \in Calls : \A i \in DOMAIN pushed[c] :
    /\ pushed[c][i].to.kind = "actor" => ParentOf[pushed[c][i].to.at] = pushed[c][i].net
    /\ cmd[c] = "fund" => ParentOf[arg[c]] = pushed[c][i].net
    /\ cmd[c] \in {"create", "release", "propagate", "whitelist"} => arg[c] = pushed[c][i].net

\* The node, the gateway and the default account of a message come from one
\* config that was current while the command was under way, although the config
\* may be replaced at every await, and so do all the answers that a command is
\* put together from: a tip set is not read on another chain than the one it
\* heads (SubnetManagerPool::get, subnet.rs:41-55).
OneSnapshot ==
  \A c \in Calls :
    /\ \A i \in DOMAIN pushed[c] :
         \E cfg \in during[c] : \E s \in DOMAIN cfg :
           LET m == pushed[c][i]
           IN  /\ cfg[s].token
               /\ m.net = NetworkAt[cfg[s].url]
               /\ m.to.kind = "gateway" => m.to.at = cfg[s].gateway
               /\ from[c] = None => cfg[s].accounts # <<>> /\ m.from = cfg[s].accounts[1]
               /\ from[c] # None => m.from = from[c]
    /\ served[c] # {} =>
         \E cfg \in during[c] : \E s \in DOMAIN cfg : served[c] = {NetworkAt[cfg[s].url]}

\* A command pushes at most one message, whatever is lost or given up on, and
\* one that reports success has had its message included
\* (mpool_push_and_wait, lotus.rs:353-360).
IncludedOnce ==
  \A c \in Calls :
    /\ Len(pushed[c]) <= 1
    /\ reply[c] = "ok" /\ Manager[cmd[c]].does = "push" => receipts[c] # <<>>
===============================================================================
