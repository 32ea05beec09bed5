# A TLA+ verification of the IPC agent

The IPC agent (`src/src/`) is a daemon that runs beside the nodes of a tree of
subnets. It relays cross-net messages by submitting checkpoints in both
directions between a child subnet and its parent, and it serves a JSON-RPC
interface for managing subnets. The repository also holds the IPLD resolver
(`src/ipld/resolver/`), a libp2p service in which agents gossip which subnets
they can serve content for and fetch content from each other.

## The system and its parts

**Configuration** (`config/reload.rs`, `server/handlers/config.rs`). One
`ReloadableConfig` holds the current config behind a lock. A reload request
reads a file and replaces it, then broadcasts on a channel of eight slots. The
JSON-RPC server runs requests concurrently.

**Checkpoint subsystem** (`manager/checkpoint.rs`). A loop of rounds. A round
spawns one bottom-up and one top-down manager for every child subnet with an
account, all sharing a `Notify`, waits for a config broadcast or a shutdown,
fires the `Notify` and joins the managers.

**Managers** (`manager/topdown.rs`, `manager/bottomup.rs`). Each polls the heads
of both chains every ten seconds. When the next checkpoint is due it builds the
checkpoint and sends a vote for every configured account that is a validator,
waits for the vote to be included, and catches up with further epochs. The
actors that count the votes are not in the repository.

**Subnet commands** (`cli/commands/`, `server/handlers/`, `manager/lotus.rs`,
`lotus/`). A command sends a JSON-RPC request; its handler takes a connection
from the current config and the subnet manager behind it talks to a Lotus node:
it compares the node's network, pushes one message and waits for it, or only
asks. Between any two of these calls the config may be replaced.

**JSON-RPC server and client** (`server/jsonrpc.rs`, `jsonrpc/mod.rs`,
`cli/commands/daemon.rs`). The daemon runs the server beside the checkpoint
subsystem and shuts both down within a time limit; client calls last at most
30 s.

**IPLD resolver** (`ipld/resolver/`). One task, the `Service`, drives libp2p
behaviours and connects them by events: *discovery* keeps the peers with known
addresses (Kademlia), *membership* gossips provider records and keeps those of
others in a `SubnetProviderCache`, *content* exchanges blocks (Bitswap) under a
rate limit. `Client::resolve` asks for content; the service turns a request
into a chain of queries over batches of providers.

What makes these parts hard: managers of several agents interleave with each
other and with two growing chains; every read is an await after which the value
may be stale; a notification reaches only who is waiting; a vote or a command's
message may be included although its answer was lost; gossip is reordered,
repeated and lost; the tables of two behaviours are kept in step only by
events; bytes are charged long after they were admitted. The hazards are listed,
each at its line, in `PROJECT.json`.

## Modules

| module | models | state and actions |
|---|---|---|
| `ReloadableConfig` | `config/reload.rs`, the reload handler, `subnets_to_manage` | files on disk, path, config, unread broadcasts, the local state of each request; a request is four steps, cut where the code awaits or releases a lock |
| `CheckpointSubsystem` | `CheckpointSubsystem::run`, its driver task, `wait_next_iteration` | extends `ReloadableConfig`; a manager is busy, waiting, notified or ended; one action per step of `run` between awaits |
| `CheckpointDelivery` | (abstract) what checkpointing promises | a source chain that commits messages, and the checkpoints executed in the other chain |
| `TopDownManager` | `manager/topdown.rs` | parent chain, the child's gateway, message pool, one manager per agent with the local variables of the code; one action per RPC whose answer is used later |
| `BottomUpManager` | `manager/bottomup.rs` | child chain, subnet actor, message pool, managers; template, previous checkpoint and push are read at different times and are different actions |
| `SubnetCommands` | all handlers, `manager/lotus.rs`, the commands of the CLI | two tables say what each handler demands and each manager operation does; one action per call of the Lotus client: request, connection, network comparison, versions and code CIDs, push, inclusion, wait, each question of a listing, time-outs |
| `JsonRpcServer` | `server/jsonrpc.rs`, `daemon.rs`, reading of responses in `jsonrpc/mod.rs` | the run, its server task, the process, and where each request is |
| `ReloadServer` | a reload from the command line to the config | composes `JsonRpcServer` with `ReloadableConfig`: routing a request starts its handler, a hang-up drops the handler at its await, its result becomes the response |
| `ProviderCache` | `provider_cache.rs` | the four maps of the cache; one action per method, pruning included |
| `Membership` | `behaviour/membership.rs` | extends `ProviderCache`; subscriptions, pinned subnets, publication times, queued events; time in seconds |
| `Discovery` | `behaviour/discovery.rs` | routing table, connections, the buffer of the bootstrap, queued events |
| `Resolver` | the event handlers of `service.rs` | composes `Discovery` and `Membership`; an event is queued by one and applied to the other later |
| `ResolveQueries` | `client.rs`, query bookkeeping of `service.rs` | requests, running queries with fallback peers, queued results, answers |
| `ContentLimits` | `behaviour/content.rs`, `limiter.rs` | connections and addresses, the limiter's key per address, responses under way |
| `MissingBlocks` | `missing_blocks.rs` | the stack of the walk, for every graph and store of a given size |
| `*Proofs` | | the theorems and their proofs |
| `MC*` | | instances for TLC |

A definition introduced by "Mutant:" is a deliberately wrong variant of the
definition after it. It is not part of any specification; it shows that the
property it is paired with in `PROJECT.json` would notice the mistake.

How they fit together: `CheckpointSubsystem` sees a manager from outside (busy,
waiting, ended), `TopDownManager` and `BottomUpManager` look inside one and both
implement `CheckpointDelivery`. `Resolver` composes discovery and membership
because their interaction is where they can drift apart; `ReloadServer` composes
the server with the reload handler because the server decides whether a reload
that has begun is finished. The remaining modules
meet at values that are arbitrary in one of them: `ResolveQueries` takes any
providers, `SubnetCommands` any config.

The parent and child chains, the gateway actor and the subnet actor are
external. They are modelled from what the agent relies on: an actor takes one
vote per validator for the epoch after the last executed one, executes a
checkpoint when the voters for it form a quorum, and the gateway's state at a
tip set does not change. Quorums are an arbitrary family of sets.

Also external: Kademlia (what it learns, and when, is arbitrary; its buckets are
one table of bounded size), gossipsub (publications and subscriptions fail,
records come late, twice or never), Bitswap (completes a query with either
result, queries in any order), the `gcra` crate (a theoretical arrival time per
key), gossipsub's `TimeCache` that holds those times (it forgets a key a period
after it was inserted, in use or not, although the comment at `limiter.rs:12`
speaks of inactivity: `entry().or_insert_with` leaves the expiry of a key that is
there alone), warp and `Toplevel`. The Bloom filter of looked-up peers is a set that
may also claim to hold a peer it does not.

Faults in the managers are counted and bounded by `MaxFaults`: a submission
that fails before or after the push, a push whose answer is lost, a read that
fails and ends the manager, a restart of the daemon, a stop and a respawn.

## Runs

| run | shows |
|---|---|
| `checkpoint_subsystem` | over every interleaving of reloads, a shutdown, failures and panics: no subnet is managed twice, a settled subsystem works from the current config, a clean return leaves no task; a panic surfaces and a drained round ends |
| `stop_notification` | violated: a stop fired while a manager is busy is lost, the round may never end |
| `lagged_channel` | violated: reloads that overflow the channel end the subsystem instead of restarting its managers |
| `topdown` | determinism, exactly-once delivery in order, refinement of `CheckpointDelivery`; every due checkpoint is executed unless a manager has ended |
| `bottomup` | agreement, chaining, refinement; every due checkpoint is executed unless a manager has ended |
| `membership` | providers are routable, the cache shows the newest records, stays bounded unless subnets are pinned, and its deltas miss only prunings; events reproduce the cache however it changes while they wait; topics match the subnets, new peers hear from us soon, nothing postpones a publication; publications and subscriptions may fail |
| `resolver` | peers with an address are routable once events are handled, peers are looked up once, connections are counted, peers met during the bootstrap survive it |
| `resolve_queries` | one query or one answer per request, errors only after all providers were asked, connected ones first; every request is answered |
| `content_limits` | a peer gains nothing by opening further connections: what it is granted while it stays connected is what one address is granted |
| `missing_blocks` | the walk ends and returns exactly the missing blocks referenced by present ones |
| `subnet_commands` | each command over right and wrong configs replaced at every await: right network, messages and answers from one snapshot, one push, included before success |
| `server` | overlapping reloads through the server leave a config that one of their files held meanwhile; a graceful return leaves no request half done, callers that get an answer are told what happened, the process ends |

The violated runs are described under `findings` in `PROJECT.json`, with the
lines they contradict. In the second one a receiver that lags is taken for a
closed channel (`checkpoint.rs:100`), and `run()` returns although nobody asked it
to. It takes as many reloads as the channel has slots and one more before
`run()` is back in its select, which a round that is slow to stop gives time for.

Conditions of the properties. Several properties hold only under a condition
that the code does not enforce, or say less than one might expect.

- `SettledOnLatestConfig` is about the config in memory, not the file. `reload`
  locks only after it awaited the file, so of two overlapping requests the one
  that read first may write last and leave the older config in place.
  `FreshConfig` is what remains true of overlapping reloads: the config was held,
  since the first of them began, by a file whose path was set in that time.
- `DueIsExecuted`: no manager has ended. One that fails in a read outside a
  submission is logged and not started again before the next reload.
- `NewPeersHearSoon`: the latest publication did not fail. After a failure
  `next_publish_timestamp` stays in the past, and `publish_for_new_peer` takes
  every new peer to be served soon until the next tick.
- `KnownAreRoutable` excepts peers pruned for their age and static peers.
  `prune_providers` makes a provider unroutable though discovery keeps its
  address, until Kademlia reports the peer again; the eviction of a static peer
  is reported although its address stays known (`discovery.rs:347`).
- `EveryRequestAnswered`: `max_peers_per_query` is positive. With 0 each query
  is empty and its fallback is the whole list again.
- `DeltaUpToPruning`: a subnet that pruning takes from the very peer whose
  record is added is not in `delta.removed`.
- `EventsReproduceCache`: a consumer may take for provided what was pruned with
  its subnet and did not come back (`lost`), since no event reports prunings.
- `SessionWithinAllowance` bounds what is granted, not what is served:
  `rate_limit_used` ignores a refused charge. It says twice an allowance and its
  refill because the limiter forgets a busy address once a period. It counts
  from a peer's first connection to its last: one that leaves and comes back
  from another address starts afresh.
- `ToldWhatHappened` is about answers. A caller that gave up or lost its
  connection knows nothing: its reload may have been done, be done later, or be
  dropped at its await.
- `RightNetwork` is silent on `send_value`, which compares no networks, and
  `IncludedOnce` on the exit code of the receipt, which nobody reads.

Also part of the models, without a property: the catch-up loop of the bottom-up
manager uses the tip set read before it as the proof of later epochs
(`bottomup.rs:164`); a shutdown requested before the server task is first polled
is not heard by it, and the daemon ends by its time limit (`jsonrpc.rs:82`).

Bounds. One child under a root is enough for the subsystem because rounds treat
subnets alike and only the pair (child, direction) matters to its properties;
the channel has two slots instead of eight, so that repeated reloads overflow it
while a round is joined. The manager runs have two agents, one with two accounts (so that
the second account works with what was read before the first one submitted) and
one with an account that is no validator, chains of two periods, quorums of
two validators in three, and one fault anywhere; for the safety properties the
proofs remove all of these bounds. The bottom-up run compares votes without
their proof (`ProofCounts`), as the managers rely on; were the proof to count,
agents at different heads might never agree.

`subnet_commands` runs one command: commands share nothing but the config, which
changes freely; the proof covers any number. Its configs include wrong URLs, a
missing entry, token or account. `membership` has two peers, two subnets and room
in the cache for one, so that subnets are pruned and come back; two events may
wait while the cache changes. There are records of two ages, an interval of three seconds
of which one must pass between publications, and a clock long enough for a
publication to be made early or to be due, and for a provider to age. The run
explores two sides of the behaviour one at a time (`side`): what the agent
provides and announces, with records that name no subnet and one event that
waits, and what it learns of its peers, with no calls about its own subnets.
Both have the clock, the timer, the queue of events and pinned subnets; beyond
these neither side reads what the other writes: the cache does not depend on the
subnets that are provided, nor a publication on what the cache holds. The proofs cover both at once and
what comes later, with any number of peers, subnets and events that wait. `resolver` has two peers, one of
them static, and room for one in the routing table, so that evictions happen;
providers age at once (`MaxAge` is 0 in a clock of two ticks); one
event of each behaviour may wait to be handled; it
has no subnets, since what is provided does not influence who is routable, and
`membership` covers the rest. `server` has two overlapping reloads, two paths,
two configs, one edit of a file and a channel of one slot, and starts, as paths
and configs are interchangeable, with one of each. `resolve_queries` has batches of one, so that
every failure falls back. `content_limits` has a period that passes within
the run, so that addresses are forgotten while in use, two
peers, two addresses and two connections of each peer, blocks larger than one
limit and as large as another, and no limit. `missing_blocks` takes every acyclic graph
on four blocks. `MaxConnections`, `MaxOutbox`, `MaxDiscoveryOutbox`,
`MaxServing`, `MaxTime`, `MaxEdits` and `MaxFaults` only bound the state space.

Fairness. Weak fairness of every task: tokio polls what is woken, an RPC ends
within the client's 30 s timeout, sleeps end. The chains include pending
messages. Nothing is assumed of config edits, requests or faults. In the server
the time limit of `Toplevel` passes, but only when no woken task is waiting to
be polled. In `resolve_queries` Bitswap completes each query and the service
handles its two queues. The walk of `missing_blocks` is a loop that runs.

## Proofs

Each theorem holds for all values of the constants that satisfy the named
assumptions of the module.

`CheckpointSubsystemProofs`: the inductive invariant `RoundInv` says that a live
task of the current round still has its join handle while the driver has not
panicked, and that outside the current round nothing is alive. It gives that no
child is managed twice and that a clean return leaves no task. That a settled
subsystem works from the current config follows from the count of unread
broadcasts, for every capacity. Of `PanicSurfaces` the safety half is proved (`PanicStays`): a panicked
driver stays so and `run()` can then only wait, stop, join or return the error;
of `DrainedRoundEnds`, that the driver of a round whose tasks have all ended has one
to take up or is done, and that each of its steps brings the end nearer
(`DrainedNeverStuck`). The latter needs that the driver only holds handles of
tasks that were spawned (`HandlesInv`).

`TopDownProofs`: every snapshot a manager holds is *genuine*: the pair of epoch
and nonce was the gateway's state after some prefix of the executed
checkpoints. As those only grow, a genuine snapshot stays genuine, two
checkpoints of one epoch come from the same prefix, and the messages read at
the submission epoch are fixed by the parent's history. Determinism,
exactly-once delivery and the refinement follow. `QuorumsExecute` draws a
consequence that `DueIsExecuted` rests on: as all votes that wait are for the
same checkpoint (`VotesAgree`), those who voted for an epoch that was not executed
are never a quorum, so a quorum is never split and left to wait. It assumes that
the empty set is no quorum.

`BottomUpProofs`: a checkpoint under construction is *sane*: its epoch is one
period after some executed prefix, its contents are those of a template that
was complete when read, and its predecessor is the right one unless a later
checkpoint was executed meanwhile, in which case the actor will refuse it. Here
`QuorumsExecute` also assumes that the proof is not part of what is voted for
(`~ProofCounts`); otherwise votes that differ in it can split a quorum.

`ResolverProofs` has five parts.
- The provider cache (`CacheInv`): minus what pruning took, the cache equals what
  the newest record of each routable peer says; every method keeps that.
- Publications (`TimeInv`): the next publication is never later than the minimum
  interval after the last new peer while the latest one succeeded, and never
  moves back but by a publication or a tick. Topics are what the lists of
  provided and pinned subnets say.
- The events of membership (`ViewInv`): what a consumer who applied the events
  so far holds, followed by what the events that wait say of a peer or of a pair
  of peer and subnet, is the cache. `Told` says this without recursion: an
  event that waits gives it and no later one takes it, or the consumer already
  has it and no event that waits takes it. So each event needs one lemma about a queue that it is
  appended to (`ToldAppend`) or taken from (`ToldTail`), and
  `EventsReproduceCache`, which speaks of an empty queue, follows. Pairs that were
  pruned with their subnet linger with the consumer; `lost` has each of them
  until it comes back or its peer goes.
- Discovery: `num_connections` counts the peers with a connection
  (`ConnectionInv`); while the bootstrap runs the buffer holds everybody who was
  accepted (`BufferInv`); who was looked up is in the filter (`LookupInv`).
- The two kept in step (`RoutingInv`): a peer of the routing table that is not
  routable still has its `Added` event in the queue, and a queued `Removed` is
  about a static peer. `KnownAreRoutable` itself, which speaks of empty queues
  only, is not inductive. `ServiceRefinesMembership` shows
  that each step of the composed service is a step of `Membership` or leaves it
  alone, so that what is proved of the behaviour holds within the service
  (`ServiceKeepsPromises` lists it), and `ServiceRefinesDiscovery` shows the same
  for discovery.

`ResolveQueriesProofs`: the *trail* of a request, the peers it was tried with
followed by those left in its query, never changes after its start and has each
known provider once, connected ones first. An error is answered only when
nothing is left. A query is registered exactly as long as Bitswap has it or has
its result queued (`RegisteredWhileLive`), and if `max_peers_per_query` is not 0 a
query that failed leaves fewer peers to fall back on (`FallbacksRunOut`), which is
why `EveryRequestAnswered` holds once Bitswap and the service are fair.

`ContentProofs`:
- An address's arrival time and the end of its entry in the limiter are never
  more than a period ahead of the clock (`KeySound`). What a peer was granted since it
  connected went into the arrival time of its address or, before that, into entries
  that were forgotten since, one a period, each of which could hold an
  allowance and its refill (`SessionSound`). `SessionsBounded` follows, because
  the address of a peer stays the same while it is connected. What one charge does
  to these numbers is a lemma of its own (`AddArithmetic`).
- The walk of `missing_blocks`, on every acyclic graph and store. `WalkInv` says that
  what is on the stack or collected can be reached, and that there is a set of
  blocks that were dealt with (`DealtWith`): those of them in the store have their
  links in the set or on the stack, the others are exactly what was collected.
  Once the stack is empty the set is closed under following links, which gives
  `MissingAreExact`.
  `WalkDescends`: each step replaces the top of the stack by smaller blocks, which
  is why the walk ends.

`SubnetCommandsProofs`: commands share only the config, so the invariant is
`CallOK`, a predicate of the values of one call. Its connection is an entry of a
config that was current meanwhile; from the network comparison on, the node is
of the network the command is for; a message exists only from the push on.
`AnswersInv` adds that the answers a command has so far come from the node of its
connection, which it keeps until it ends.

`ReloadServerProofs`: a server task that has ended left no request half done
(`DrainInv`); a response says what the handler returned, and only what was
answered is told (`ToldInv`), also when clients give up or lose their connection
at any moment. For
`FreshConfig`, `BatchInv` follows a batch of overlapping reloads: the path, and
every path one of them copied, was set in that time, and what one of them is
about to write was held under such a path. Each step of the composition is a
step of `JsonRpcServer` or leaves it alone, so the server's invariants are proved
once; `ReloadServerComposes` says this of both components, `JsonRpcServer` and
`ReloadableConfig`.

Type correctness is part of each inductive invariant that needs it; no run
checks types alone.

Every invariant and every action property of a run is stated by a theorem.
What is left to TLC alone are the properties under fairness, which the prover
cannot reason about: `PanicSurfaces`, `DrainedRoundEnds`, `DueIsExecuted` in both
directions, `EveryRequestAnswered`, `WalkEnds` and `ProcessEnds`. Of the safety
facts that these rest on, the proofs have the ones named above: `PanicStays`,
`DrainedNeverStuck`, `QuorumsExecute`, `FallbacksRunOut` and `WalkDescends`. What
those lack is fairness and the induction over what gets less; `ProcessEnds` has no
such part of its own.

## Not modelled

- Parsing of the config file and of arguments, and the template that `config
  init` writes: pure input and output. What a config says is an input of
  `ReloadableConfig` and `SubnetCommands`.
- The encoding of messages and answers (CBOR, JSON, base64): field by field
  translations without state.
- Signatures of records: a record that does not verify never reaches the
  behaviours, and the rest is cryptography.
- The subscription over a websocket in the JSON-RPC client: no code of the agent
  uses it.
- The set-up of transports, ping statistics, peer scoring and metrics of the
  resolver: no code of the resolver reads them. (A peer that does not support
  ping is banned; to the models this is a connection that ends.) The service's broadcast of votes
  and pre-emptive data to subscribers is one `send` whose result is ignored, and
  nobody in the repository subscribes outside the tests.
- Test programs: they set up networks and are not part of the agent.
- Reorganisations of the chains and changes of the validator set are left out of
  the managers: the code reads both at a tip set and has no handling of its own
  for them.
