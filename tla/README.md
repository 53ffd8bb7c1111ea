# Senda: specifications, model checks and proofs

This directory is a TLA+ development kept beside the code of `senda/`, the node
program of this repository: a peer-to-peer mesh of machines that pool their
GPUs to serve language models behind one OpenAI-compatible API. It models the
parts of the node whose correctness depends on the order of events, checks them
with TLC on small instances, and proves their main safety properties with TLAPS
for all instances. Paths below are relative to `senda/src/` unless they start
elsewhere.

Contents: [1 inventory](#1-inventory) · [2 modules](#2-modules) ·
[3 runs](#3-runs-and-their-bounds) · [4 fairness](#4-fairness) ·
[5 proofs](#5-proofs) · [6 where code and text disagree](#6-where-code-and-text-disagree) ·
[7 what is not modelled](#7-what-is-not-modelled) · [8 plan](#8-plan)

## 1 Inventory

A node is one tokio process. Its long-lived tasks share a `Node` (state behind
an async mutex, `mesh/mod.rs` `MeshState`) and talk to the same tasks of other
nodes over QUIC streams; several nodes of one machine share a directory of
pidfiles.

| component | state | operations | interacts through | hard because | correct when |
|---|---|---|---|---|---|
| mesh membership (`mesh/gossip.rs`, `heartbeat.rs`, `mod.rs`) | `peers` with `last_seen`/`last_mentioned`, `dead_peers`, `connections`, per-round failure counts | gossip in and out, transitive mentions, heartbeat rounds, prune, `handle_peer_death`, PeerDown / PeerLeaving, redial, join | gossip and control streams; tunnels and router report failures | every handler drops the lock between reading and acting; frames are late or lost; two clocks with different meanings | dead and listed exclude each other; only first-hand contact counts as evidence; what is gone for good is forgotten |
| connection slots (`mesh/mod.rs`) | one connection per peer, a dispatcher task per connection | incoming, dial, swap, close, redial | accept loop, gossip, HTTP tunnels | an old dispatcher's cleanup meets a new connection | a live connection has a dispatcher and keeps its slot |
| split election (`inference/election.rs`) | the loop's place, its plan, the llama-server it owns, backoff; role and model lists others see | evaluate, start or drop the rpc-server, launch, keep, yield, wait, stop | gossiped views of roles, models, readiness, paths; runtime | every node decides alone from its own stale view; some waits have no timer | of two that see each other one elects itself; a node's role, server, hold on the rpc-server and advertisement agree; of nodes that can serve alone one does |
| lazy rpc-server (`inference/lazy_rpc.rs`) | handle, holders, idle clock; tunnel port; gossiped readiness | acquire, release, tick, shutdown | election loops, tunnel manager, gossip | async drop, teardown partly outside the lock | never torn down under a hold, torn down when idle, the port never points at a killed server |
| instances (`runtime/instance.rs`, `inference/launch.rs`, `runtime/mod.rs`) | directories with lock files, pidfiles, child processes | acquire, scan, reap, clean up, spawn, shut down, drop | file system, signals | crashes between any two steps, pid reuse, findings acted on seconds later | only an owner or the reaper of a dead owner signals a server; orphans on record end |
| routing, demotion, verification (`network/openai/transport.rs`, `mesh/mod.rs`, `inference/verify.rs`) | failure windows, demotions, mismatch streaks, the target table | route, fail, deliver, evict, probe, audit, rebuild | router, election, heartbeat, verifier | counts of concurrent requests, four writers of one table, each with several lock sections; turns that fail | only failures since the last delivery demote; what is withdrawn is never forgotten by the loop that is to take it out |
| node configuration (`runtime/config_state.rs`, config streams) | config, revision, hashes, two files, a watch channel | load, apply, push, subscribe | owner's nodes, desktop app | two writes, crashes, sends outside the lock | compare-and-swap on contents, disk = memory, every change reaches its listeners |
| plugin processes (`plugin/`) | the current runtime, status, manifest, restart lock, a connection loop per process | ensure running, request, message, supervise, disable, shut down | requests of any task, the plugin's own failures | failures of an old process noticed late; many tasks restart at once; sends into a full channel have no timeout | one process; failures spare its successor; it comes back and calls end unless the channel is jammed |
| plugin channel, blackboard (`mesh/mod.rs`, `plugins/blackboard/`) | seen message ids, stores with a cap | broadcast, relay, post, synchronise | plugin frames over the connections, PeerUp events | frames reordered, lost with connections; four-step exchanges over a relay; timestamps in seconds | no board drops a newer item for an older one; what a peer had arrives |
| watchdog, keep-warm (`inference/`) | progress stamps, timers | poll | launched process | timeouts against late progress | a stalled load is cut, a slow one is not |
| entry recovery, discovery (`runtime/`) | backoff, last seen peers | rejoin, publish | membership, Nostr | timers | an isolated node rejoins |
| tunnels (`network/tunnel.rs`) | local ports by peer, rewrite map | watch peers, relay bytes | election, llama-server | re-listed peers | a listed worker has a port |
| proxy (`network/openai/`) | in-flight requests | classify, stream, translate | router, tunnels | failure after partial output | retried only before output |
| crypto, wire format, models, hardware, API, CLI, UI, SDKs | keys, files, caches | sign, parse, download, render | everywhere | formats and I/O | outside the reach of this development, see section 7 |

`PROJECT.json` lists the components with their status, and the hazards at their
lines.

## 2 Modules

Each model follows the code's critical sections: what a handler does under one
lock is one action, an `await` without the lock is a boundary between actions,
and what is still to be done is part of the state.

| module | models | its MC module | proofs |
|---|---|---|---|
| `Membership` | mesh membership | `MCMembership` | `MembershipProofs` |
| `Connections` | the connections between two nodes, their slots and dispatchers | `MCConnections` | `ConnectionsProofs` |
| `HostElection` | the pure part of the election: candidates, scores, cohorts | – | `ElectionProofs` |
| `Election` | the election loops of the nodes of one model, over gossip and with the rpc-server (extends `HostElection`) | `MCElection` | `ElectionProofs` |
| `SharedServer` | what a node promises the loops that share its rpc-server | – | – |
| `LazyRpc` | the on-demand rpc-server; implements `SharedServer` | `MCLazyRpc` | `LazyRpcProofs` |
| `Custody` | what the instances of a machine promise each other | – | – |
| `Instances` | lock files, pidfiles and reaping; implements `Custody` | `MCInstances` | `InstancesProofs` |
| `Routing` | failure windows, demotions, probe, verifier and the target table | `MCRouting` | `RoutingProofs` |
| `SharedConfig` | what a node promises the nodes of its owner about its configuration | – | – |
| `ConfigSync` | node configuration, pushes and subscriptions; implements `SharedConfig` | `MCConfigSync` | `ConfigSyncProofs` |
| `PluginSupervision` | one external plugin and the tasks that use it | `MCPluginSupervision` | `PluginProofs` |
| `Blackboard` | the blackboards of the nodes and the channel between them | `MCBlackboard` | `PluginProofs` |

MC modules give the constants their small values and symmetry sets;
`MCMembership` also has `OnceSpec`, a part of the
behaviours of `HousekeptSpec` that is enough to refute a promise (section 4). Some operators named like a variant of their
neighbour (`AddPeerKeepingMark` before `AddPeer`) are the same step with a
plausible slip; no specification uses them. `PROJECT.json` pairs each with the
property that catches the slip, which shows the property is not vacuous.

The modules meet where the components do. `Election` holds and drops the
rpc-server whose inside `LazyRpc` models (`held` is a hold there, `ready` its `rpc_ready`,
`RpcIdle` its tick), its
`stopping` is what `LazyRpc`'s `StopRuntime` begins, and its `known` changes as
`Membership` lists and removes. `Routing`'s `Evict` is `Membership`'s
`RouteFailed`, and its `parked` is `Election`'s place of that name. `Blackboard`'s
`Restart` is a generation of `PluginSupervision`, its `connected` the served connections
of `Connections`.

### Membership

All maps of `MeshState` are keyed by peer and handlers touch one key, so the
module follows the entry of *one* peer in the state of every other node,
`Node` (the watchers). State and code:

| variable | code |
|---|---|
| `alive`, `silence`, `uptime` | the peer's process; ticks since it last ran (history); the machine's uptime, for `Instant` arithmetic |
| `listed`, `last_seen`, `last_mentioned` | `state.peers[peer]` and the ages of its two instants |
| `dead_peers`, `connections`, `fail_counts` | the fields of the same name; a slot is none, open, or broken (its dispatcher has not noticed) |
| `tasks` | handlers suspended at an await: a read gossip stream, a redial, a heartbeat probe, its verdict not yet carried out, a PeerDown confirmation, the halves of `handle_peer_death`, a prune |
| `mentions`, `reports`, `leavings` | gossip, PeerDown and PeerLeaving frames between nodes |

Actions: `HandleIncoming`, `GossipOpened/Applied/Aborted` (`handle_gossip_stream`
with its await), `GossipAnswered` (own gossip), `Join`; `HeartbeatStart`,
`HeartbeatDialed`, `Answered`, `Booked`, `Missed` (the verdict from one look: grace,
threshold, failure count) and `Condemn` (the dead mark, in a later lock section, whatever
was heard in between), `PruneScan/Remove`; `RouteFailed` (a tunnel or request fails), `DeathMark`,
`DeathEvict` (with the broadcast), `PeerDownReceived/Refuted/Confirmed`,
`PeerLeavingReceived`; the dispatcher's `DispatcherClosed`, `Redialed`,
`ReconnectVerified`, `ReconnectFailed`; `Announce`, `MentionReceived`,
`MentionLost` for hearsay; `Crash`, `Leave`, `Start`, `Tick`.

Abstractions, each chosen so that no property is helped by it:

- Time: ages count ticks, saturating at the prune window. A tick is longer than
  any handler's timeout (10–30 s against 180 s), so it finds nothing in flight.
- The watchers' links among themselves are up; what one says of the peer may be
  delayed or lost.
- Removing a connection and removing the peer take the lock twice in a row in
  the code (`connections.remove`, then `remove_peer`) with nothing awaited but
  the lock; they are one action.
- A gossip reply counts as evidence when it is applied, as in the code. Since the clock
  waits for the handlers, such a reply is at most a tick old; older ones are left out.
- A dispatcher exists exactly while the slot is not empty. What happens when two
  connections of a peer overlap is the subject of `Connections`.
- Announcements are of trusted peers (`policy_accepts_peer` holds).

### Connections

Two nodes run the same code against each other, and connections have
identities, which Membership's slot has not.

| variable | code |
|---|---|
| `life`, `dialer` | a QUIC connection: dialed and not yet accepted, open, closed; and who dialed it |
| `slot`, `listed` | `state.connections[other]`, and whether `state.peers` has the other with an address |
| `dispatchers` | running `_dispatch_streams` tasks, counted per connection |
| `closings`, `redials`, `verifies` | dispatchers past their loop: the slot is cleared and the peer's address is yet to be looked up; before the redial; before the gossip that verifies it |
| `dials` | other dials under way: heartbeat and split dials, `connect_to_peer`, HTTP tunnel, PeerDown check |
| `refresh` | `refresh_peer_connection`: dialing, verifying, about to close the old connection |

Actions: `HandleIncoming`; `DialStarted`, and its ends `Attached`,
`TunnelAttached`, `ReportRefuted`, `DialFailed`; the dispatcher's
`DispatcherClosed` (the slot, one lock section), `DispatcherLooked` (the address, the
next), `Redialed`, `RedialFailed`, `Verified`, `VerifyFailed`;
`RefreshStarted/Dialed/DialFailed/Abandoned/Swapped/Closed`; `Gossiped`;
`ConnectionLost`, and `HandlesDropped` (quinn closes a connection with its last
handle); `PeerRemoved`.

Abstractions: why a peer is removed from the list is Membership's subject, here
it may happen at any time, with the slot emptied or kept. A closed connection
that nobody holds may come back as a new one, which keeps the set of identities
finite without bounding how often the nodes reconnect. A gossip exchange is
answered when the other side serves the connection; the reply lists both. The
dead-mark check of `connect_to_peer` only forbids dials and is left out. A dispatcher
has two more ways out (`mesh/mod.rs:4406`, `4424`), for a tunnel receiver that is gone;
the receivers last as long as the process, so they are left out. A closed dispatcher that finds
no address removes the peer, which is one of `PeerRemoved`'s reasons.

### LazyRpc and SharedServer

`handle`, `holders`, `idle_since` are the fields behind the async mutex;
`phase[l]` is the position of election loop `l` in `acquire_hold` or around its
hold; `releases` counts the tasks that dropped holds have spawned; `rpc_port` and
`rpc_ready` are the tunnel's port and the gossiped bit, written outside the
lock; `closing` holds the teardowns of the tick and of shutdown, three steps
after they released the lock; `server` is the life of each spawned process. The
mutex is held across an await only in the spawn (`Unlocked`). The runtime's stop
order (signal loops, wait 3 s, abort, then `shutdown`) is `StopRuntime`,
`LoopStopped`, `LoopAborted`, `Shutdown`; the system really ends there, so
deadlock is not an error. A spawn that is aborted or times out leaves its process
behind (`orphan`), as the code does.

`SharedServer` is the promise without counts, idle clock, mutex or gossip: the
server a loop was given stays the node's until no loop uses it; it is routed to
before anybody uses it, and by nobody when it is killed. `LazyRpc` implements it
with `users <- ` the loops that hold, `current <- handle`, `retiring <- ` the servers
of teardowns under way, `killed <- ` those they ended, `route <- rpc_port`. A loop
that waits for the mutex, a count that is off by a late release after shutdown, a
spawn that fails are stutters of it.

### ConfigSync and SharedConfig

`config`, `revision`, `last_write` are `ConfigState` (`config_hash` is the wire
part of `config`); `file` and `sidecar` are the two files; `applying` is what
`apply` has put in the file with the sidecar still to come, the window in which
the process may crash; `unsent` and `watch` are the revision channel, sent on
after the lock is dropped; `stream`, `seen`, `view` are each subscriber's
handler, its watch receiver and what it was last sent; `reply` is the answer to
the last push. A config is a wire content plus one bit for all host-only
settings (`parallel`, `force_split`, a plugin's `url`), which the conversion in
`protocol/convert.rs` drops. Writes are atomic renames; the Windows variant
(remove, then rename) is not modelled. A write of the config file that fails
changes nothing and is the absence of a step; so is a push that does not
validate. `FileEdited` is the user's or the desktop app's hand in the file;
several edits that nobody reads in between are one. `Crash` loses everything in
memory, `Restart` is `load`. `tokio::sync::watch` neither stores nor counts a
send without receivers; the model counts it, which no receiver can observe since
subscribing marks the current version as seen.

`SharedConfig` is what the owner's other nodes may rely on: contents under a version,
and to each subscriber a view of both, that never goes back while the node runs. A
subscriber shown the contents in this run of the node replaces exactly those, at
once, or nothing. A crash keeps what was written (unless the file was edited by hand)
and may take the version back. `ConfigSync` implements it with the contents and version
of a write counted from the moment the config file is renamed: the sidecar, its
failure, the sends and the notifications after it are stutters or `Show`.

### Election

| variable | code |
|---|---|
| `known`, `view` | `state.peers`, and for each peer its announced role, models and rpc readiness, the measured path, and whether the loop has seen it and for how long (`first_seen` against `HOST_CLAIM_GRACE`) |
| `ticked` | `peer_change_rx` has a change the loop has not taken |
| `role`, `serving`, `hosted`, `ready` | what the node announces: its role, `serving_models` and `hosted_models` for this model, and `rpc_ready`: the rpc-server is up |
| `held` | `worker_rpc_hold`. Dropping it only starts the idle clock (`lazy_rpc.rs:126`): the rpc-server stays up and advertised until `RpcIdle` |
| `pc`, `plan` | where the loop is in its turn, and `desired_launch` |
| `hosting`, `llama`, `running` | `currently_host`, the llama-server's process, `last_running_plan` |
| `backoff`, `young`, `stopping` | launch backoff, the discovery grace, `stop_rx` |

A turn is one `Look` (observe, plan, decide, act up to the next await), then one of
its ends: `KeepHosting`, `StartWorker`/`WorkerStarted`, `KeepWorking`,
`WaitForCapacity`, `Launch` with `LaunchSucceeded/Failed`, `ProxyFailed`; then a wait,
`Wake` (timer or tick) or `WakeOnTick` (`parked`, `proxyless`: ticks only),
`DeathSeen`, `DeathSeenLate` (the second select leaves the role), `Exit`. `Gossip`
copies what another node announces into the view in any order and ticks only for
the changes `add_peer` ticks for. `RpcIdle` is `LazyRpcServer::tick` after
`RPC_IDLE_TIMEOUT` without a hold. `HostElection` has the decision itself:
`fallback_host_candidates_after_grace`, the RAM filter, the solo preference, the
score tuple, `build_dense_launch_plan`, `current_cohort_still_viable`.

Abstractions: memory in GB; the dense (non-MoE) path; every node requested the
model and runs a version the election supports; a path is unmeasured, within or
beyond `MAX_SPLIT_RTT_MS`; `HOST_CLAIM_GRACE` may run out at any time, but not at the nodes
in the bound `Patient`; how many failures arm the backoff is open. What the
runtime does for the loop's callbacks and when it unloads is part of the action
that calls it.

### Instances and Custody

A slot is a pid and names a directory. `life` is how far an instance has come;
`dir`, `lock`, `old` are the directories, those flocked and those untouched for an
hour; `st`, `recycled` each server's process and whether a stranger has its pid;
`keeper`, `grip` which instance started it and what it still has of it (a guard
while it launches, a handle, a shutdown under way); `file` the directory with its
pidfile; `unseen`, `targets`, `aim`, `doomed`, `stale` a reaper's findings, acted on
one by one and late. Actions: `Open`, `Acquire`, `ScanDir`, `ScanOwn`, `Terminate`,
`ForceKill`, `Reaped`, `GiveUp`, `Cleanup`, `Age`, `Spawn`, `Ready`, `LaunchFails`,
`Waited`, `ShutDown`, `ShutDownEnds`, `Drop`, `Leave`, `Crash`, `End`, `Recycle`.

`Custody` is the promise without files, locks or identity checks: a server has a
keeper while the instance that started it lives, only the keeper signals it, then
anybody, and strangers never. `Instances` implements it under the mapping
`alive <- {s : Alive(s)}`, `running <- {k : Running(k)}`, `told <- ` the last
signaller: that is what the flock and `send_signal_if_matches` are for.

One window is left out: `SignalIfMatches` checks the identity of a pid
(`inference/launch.rs:1340`) and signals it (`1366`) in one step. Between the two system
calls the server may end and its pid pass to a stranger, who is then signalled; nothing
in the code could notice, so `OnlyKeepersSignal` speaks of strangers that have the pid
when it is checked.

Abstractions: Unix; start times are known (`process_liveness` never says
Unknown); `is_locked`'s momentary lock on what it probes and clock shifts at boot
are left out; so are `senda stop` and `scan_local_instances`.

### Routing

`hosts`, `path`, `tunnel` are what gossip, measurement and `watch_peers` say of the peers;
`failures` is `target_failures` within its window; `demoted` is `verifier_demotions` and
who wrote the entry; `streak`, `audit` the verifier's; `changed` is an unseen
`peer_change_rx`, `loop`, `unread`, `targets` the election loop as far as it rebuilds the
target table; `request` each chat request between its targets and its lock sections;
`probe` the heartbeat's `probe_undialable_http_hosts` between its locks; `since` is history.

Every lock section is an action. A request: `Start`, then per target `Deliver` and, later,
`Clear` (`clear_target_failures`, which also clears what other requests have counted since);
or `Fail` (the count and the demotion), `Tell` (the tick) and `Evict`; `Overflow`,
`Disconnect`. The loop: `Wake`, `Gather` (`update_targets` reads), `Send` (it publishes, and
the turn waits or parks), or `TurnFails`: a failed launch (`inference/election.rs:3332`) waits with a
timer and a failed proxy (`3379`) without one, and neither calls `update_targets`, so the change is
taken (`unread`) and the table stays as it was. The probe: `Probe`, `Reach` one host (a
failed dial is held against it whatever its path is by then), `Judge` one route, `Strike`,
`Lift`, `EndProbe`. The rest: `Announce`, `Measure`, `Tunnel`, `Forget`, `Lapse`; `Audit`,
`Match`, `Mismatch`, `Inconclusive`. `any_other` (`Replaced`) counts peers with a tunnel port
only, `is_sole_http_host_for_model` (`Sole`) any.

Abstractions: time (a failure leaves its window, a demotion lapses, at any moment);
the order of targets; requests this node serves itself; the verifier's score. A peer that
is no Host is as one that is not listed. A second update of the table within a turn is as one of
the next turn.

### PluginSupervision

`runtime`, `status`, `lock` are the fields of `ExternalPlugin` (`lock` its
`restart_lock`); `proc`, `link`, `backlog` each process, its connection loop and what a
hung one has not read; `task` what each task is doing with the plugin, and of which
generation it expects an answer; `stopping` the steps of the shutdown. Actions follow
`ensure_running` (`Ensure`, `Lock`, `Connect`, `ConnectFails`, `Greet`, `Offer` (the
initialize request into the channel), `Initialized`, `Garbled`, `Rejected`, `Disabled`),
`request` and `send_unsolicited` (`Call`, `Ready`, `Send`, `SendFails`, `Lost`, `Timeout`,
`Answered`), the supervisor (`Tick`, `Unhealthy`), the connection loop (`LoopClears`,
`LoopDrains`), the shutdown (`StopTold/Taken/Done`) and the plugin (`Answer`, `Crash`, `Hang`).
`handle_runtime_failure` is two lock sections: the runtime goes, and at place `report` the
status is yet to be written (`Report`). A connection loop also ends while the process is up (a
read or decode error, an oversized frame, a closed socket; `plugin/transport.rs:66`, `130`),
which drops its runtime.

Abstractions: one plugin; endpoints, their health, manifests and what requests say are left
out; the node has loaded the plugin before (`First`); a message sent between the
drain and the end of a loop waits for its timeout like one sent before.

### Blackboard

`connected` is the connections; `board` a plugin's store, an item being an identifier with
a time in whole seconds, so that items may share one;
`outbox` the messages a plugin has handed to `start_plugin_channel_forwarder`; `frame`
the frames under way, with their copies and the nodes that remember having seen
them; `horizon` the expired items; `got` and `owed` are history: what a plugin was
given, and what it is still to get from a peer along a path. Actions: `Forward`
(`forward_plugin_event`, a copy to every connection even of a targeted frame),
`Arrive` (deduplication, delivery with what the plugin answers, and the relay of a
frame for somebody else to its target alone), `PeerUp`, `Post`, `Read`, `Expire`,
`Connect`, `Disconnect`, `Restart`.

Abstractions: a plugin handles a frame in the step in which it arrives (it is a
single loop; frames it had not handled may be lost in `Restart`); equal messages
waiting in one outbox are one; the 120 s memory of message ids outlives every copy;
at the cap items of the same second go in the order in which they came, of which the model
keeps that the one just inserted goes first; the rate limit and the text are left out. A node that meets a
peer before it is connected to it, or loses and redials a connection without the
peer leaving the list, is told nothing: no debt arises, as the code has none.

## 3 Runs and their bounds

Runs that pass:

| run | instance | shows |
|---|---|---|
| `membership` | 2 watchers, window 2 ticks, thresholds 2, 1 suspended handler beside the atomic ones, 1 frame | a dead mark and a list entry meet only inside the death handler; `last_seen` is first-hand; hearsay raises no dead |
| `membership_live` | 2 watchers without grace (`Strict`), window 1, thresholds 1, 1 handler, 1 frame, `FairSpec` | a peer gone for good leaves every list, whatever the watchers keep mentioning |
| `connections` | 2 nodes, 3 connections at a time, 1 dial or refresh at a time beside any number of redials, 1 dispatcher between its two lock sections (`MaxClosings`) | `DispatchedOnce`: one dispatcher per connection, accepted connections are served; a refresh never closes the connection in use |
| `election` | 2 nodes of which neither holds the model alone (12 and 10 of 22 GB) and b believes a too small to host, a's grace never ends (`Patient`), 1 fault at a, after which launches succeed (`OneMisfortune`) | `RolesAgree`: no llama-server without its loop, no hold on the rpc-server by a node that leads a cohort, no waiting model advertised; `OneElectsItself`: two candidates that see each other do not both elect themselves, and never does nobody; a healthy server is not restarted for a changed plan |
| `election_live` | 2 nodes that each hold it, a's path to b perhaps never measured, launches and proxies of a that may always fail, 1 fault, a mesh that is otherwise quiet, `FairSpec` | again and again somebody serves; a loop told to stop ends or sits in one of the two waits that do not listen |
| `rpc` | 3 loops, 3 spawns, 2 releases at a time, `FairSpec` | `HoldsAreHonoured`: holds are counted exactly, no teardown under a hold, the idle clock runs exactly while nobody holds; `IsSharedServer`: `SharedServer` is implemented; an unwanted server is given up for good |
| `instances` | 2 pids of instances, one that comes back and one whose directory ages, an rpc-server that ends when signalled and a llama-server that no signal ends (`Stuck`), 2 crashes | `OnlyKeepersSignal`: `Custody` is implemented; servers in use are on record, a reaper removes no trace of a live orphan, orphans on record are ended. The last three say in their statement which slots and servers they are not about |
| `routing` | 2 hosts of 1 model, 2 requests (symmetric), 1 host that fails and may lack a path, the other may lack a tunnel port, 1 auditable, thresholds 2 and 1, two of requests, probe, audit and a turn of the loop under way at once (`TwoAtOnce`) | a demotion by the router is earned since the last delivery booked; what is gone or demoted is behind a change the loop has not looked into, or one about to be sent |
| `config` | 2 subscribers (one without pinned-GPU support), 2 contents, 2 revisions, `FairSpec` | disk matches memory; `IsSharedConfig`: `SharedConfig` is implemented; a change reaches whoever listens |
| `plugins` | 1 caller and the supervisor, 2 generations at a time, channel of 1, 1 unread message, 1 fault | one process, failures spare its successor; it comes back and calls end, unless the channel of a hung process is full of messages (`Jammed`) |
| `blackboard` | 3 nodes in a line, posts at b, a told of b, 2 items, of the same second or not, a store of 1, 3 frames, 1 item expires, 1 connection lost or plugin restarted, `BoardSpec` | an item is missing from a full board only for items that are no older; what a plugin is owed is asked for or on its way (`OwedIsOnItsWay`), and arrives over the relay |

One run expects a violation: `connections_stale` (section 6).

Why the bounds suffice.

- Membership's races are between handlers of one node, of which one is suspended
  while any number of atomic ones pass, or between two nodes over one frame; a
  third watcher only repeats the second's part in hearsay. The window of two is
  the smallest with which a peer silent for a tick is still announced; thresholds
  of two tell a first miss from a fatal one. The proofs hold for any number of
  suspended handlers.
- Three connections give an old one, its replacement and a crossing dial of the
  other side; redials and the accept loop are unbounded beside the one dial or
  refresh.
- Two election loops are the smallest cohort, and every rule of the election is
  about pairs: who outranks whom, who waits for whom, who yields to whom. Two
  sizes of memory give the split and the solo regime; `Ram` differs from what b
  assumes so that the two disagree on the candidates. Neither run needs both grace windows: in a cohort of two the grace of the better node
  changes nothing about who is elected. Loops turn any number of
  times and views are arbitrarily late; only faults (a peer lost, a server dead, a
  loop told to stop) are counted, and strike one node, which leaves the other to
  take over. Launches of that node fail any number of times.
- Three loops on the rpc-server give two holders and one loop in each phase of
  `acquire`; three servers give an old, a current and a next one.
- Two instances and two crashes give a reaper, a victim that crashes, and a second
  crash of either while the first is cleaned up; the returning pid meets its own
  old directory and the one that ages is removed by the other. The two servers
  differ in when their pidfile is written, and either's pid may go to a stranger.
- Two hosts are one and its replacement; the failing one is demoted, evicted and
  announced again. Two requests are the race of a delivery with failures counted
  elsewhere; a third, or all of them beside probe, audit and table, is covered by the proofs.
- Two contents and two revisions give a content that returns under a new
  revision, a revision that is reused after a crash, and sends that overtake each
  other.
- Two generations give the process that fails and its successor; names are used
  again, so the number of restarts is not bounded, and neither are the calls. One
  fault is enough to hang with the channel full (one slot, one unread message), time out and race
  a restart.
- A line of three nodes has the direct and the relayed exchange; a store of one
  is full at once, so that posts and responses push each other out, of the same second too.

Every action of a module is enabled in its passing runs. The proofs of section 5
remove the bounds for the safety properties.

Deadlock is not an error where the system may come to rest: a stopped runtime
(`rpc`), stopped loops (`election`), instances that have all left, a blackboard in
agreement, no request (`routing`), connections that have used up their names, tasks that
all wait for a jammed channel (`plugins`).

Every property of a passing run has a mutant in `PROJECT.json`: a mapped
definition with a plausible slip under which TLC finds the property violated.

## 4 Fairness

- Membership. Every suspended handler ends, by its timeout at the latest
  (`WF TaskEnds`). Heartbeat rounds come every 60 s and probe the listed peers, or
  five of them picked at random, so that each listed peer is probed again and again
  (`SF HeartbeatStart`; strong, because other handlers keep removing and re-adding the
  peer). Nothing is assumed about the peer: nothing makes it gossip with or dial
  anybody, so nothing is claimed about its return to a list it was wrongly taken off. Nothing is assumed
  about mentions, reports or connections breaking either. `HousekeptSpec` adds
  that time passes, prunes run and frames are read, so that an endless
  ghost (section 6) cannot be blamed on a lazy scheduler; `OnceSpec` has the behaviours
  among those in which the peer goes down at most once and for good, sends no
  farewell, and nobody routes to it.
- Election. A loop's task is scheduled and its timers end (`WF Loop`, `WF Clock`), the idle
  clock of the rpc-server too (`WF RpcIdle`); gossip rounds reach every peer (`WF Gossip`); a
  dead server is noticed in one of the waits (`SF`, the select polls it each turn). Nothing
  is assumed of launches, of the start of an rpc-server, of measured paths or of nodes outside the
  cohort: a launch that may fail may fail for ever, and on a quiet mesh a wait without
  a timer lasts for ever.
- LazyRpc. Steps that wait for nobody happen; a spawn ends, by its timeout if by
  nothing else; tokio's mutex is fair, so a release and the 30 s tick get their turn
  (strong fairness: loops may take the lock in between).
- Instances. A live instance gets on with its start and its reaping (`WF Acquire`,
  `ScanDir`, `ScanOwn`, `Reap`, `Cleanup`); a process that got SIGKILL ends unless it is
  `Stuck`. Nothing makes anybody start an instance: `RecordedOrphansEnd` is
  conditional on starts that recur (`KeepStarting`).
- Routing. A wait of the loop ends with a change or its timer, if it has one (`WF Loop`),
  the probe's and the requests' steps happen; used only for the refuted liveness of
  section 6.
- ConfigSync. An apply that wrote the config file ends, a handler that is not
  suspended sends its revision or notification; each subscription's handler gets
  the lock eventually (strong, pushes may take it first).
- PluginSupervision. A connection loop that is to end ends (`WF Loop`); a task that is again
  and again able to take its next step does (`SF Steps`): a timeout of 10 or 30 s if by nothing
  else, and the restart lock and the channel are tokio's, which are first come, first served;
  the supervisor's rounds come (`WF Tick`). A task that waits to send into a full channel has
  no timeout and no step until there is room.
- Blackboard. The forwarder's task runs, and a stream over a connection that lasts
  arrives (`WF Forward`, `WF Arrival`).
- Connections is checked for safety only (section 6 says why).

## 5 Proofs

All theorems are about every value of the
constants allowed by each module's named assumptions: finite or infinite
sets of watchers, connections, servers, instances, hosts, requests, subscribers and
tasks, any finite set of loops (for the count) and of nodes that elect (for the best of
them), and any bounds. All safety properties of the passing runs are proved.

**Membership.** `TypeCorrect`; `DeadUnlisted` (`DeadIsUnlisted`); `SeenEvidence`
(`SeenIsEvidence`, assuming `~BootAnchored`; with it the property is false, see
section 6); `DeadStaysDead` (`HearsayRaisesNoDead`).
`DeadIsUnlisted` is inductive together with the types: each handler that
lists clears the mark in the same critical section, and each that marks leaves
its successor task behind. `SeenIsEvidence` is not inductive: a suspended
handler may hold evidence gathered earlier. `PresentInv` says that while the peer
runs `silence` is 0 and that the handlers which will call `add_peer` without
looking again exist only when the peer ran in this tick; `EvidenceInv` adds the
property. `HearsayRaisesNoDead` is a step property proved from `PresentInv`,
action by action.

**Connections.** `TypeCorrect`, `Dispatched` (`DispatchedOnce`, from
`OneDispatcher` and `AcceptedServed`), `RefreshSpares` (`RefreshSparesTheSlot`), for
any set of connections and any number of dials. None is inductive alone. `IInv`
adds who dialed what and who serves it: a connection that is up has a dialer, and
until it is accepted the other side does not serve it (`DialedByNode`); a slot, and
the old connection of a refresh, never name a connection still to be accepted
(`SlotMet`, `RefreshSound`); one that a redial or a refresh is verifying was
dialed by the node that verifies it, is not served there yet and is not verified
twice (`Unserved`, `RefreshSound`); and once a refresh has swapped, the slot is
not its old connection again. Lemmas about
opening and closing a connection (`ConnectInv`, `CloseInv`) carry most steps.

**Election.** `OneElected` (`OneElectsItself`) is about the decision in any state. Its
first half (`RivalsElected`): two nodes that are each other's dialable candidates do
not both elect themselves. Its second (`SomebodyElected`): it never happens that of
all nodes none does, however late and mistaken their views are. Each node scores the
candidates with its own idea of the model's size and paths, so two nodes need not
agree on a score. But every score follows one strict total order of the machines,
`Beats` (fast memory, then the rest, then the id): `ScoreFollows` says that the better
of two dialable machines scores higher for every node that asks, and that no path makes
up for a worse machine than one's own. Of two rivals the beaten one therefore sees a
higher score (`RivalsDoNotBothWin`); the machine that none beats exists because the sets of
machines that beat a given one are well-founded under inclusion (`Best`), and it sees
nobody above itself whatever it has heard. What the theorem does not say is that the
one elected can serve: that is `SomebodyServes`, model-checked under fairness.

`TypeCorrect`; `RolesAgreeAlways` (`RolesAgree`, from
`ServerOwned`, `HostWithoutRpcServer`, `WaitingUnadvertised`) by `Sane`, which says
for every place of the loop what is held, owned and advertised there: the three
properties are not inductive, because a step arrives at a place with what the
previous one left (a launch, say, needs that the hold was dropped before it).
`ServerKept` (`HealthyServerKept`) needs that a running plan was a feasible one:
`CohortInv` relates `running` to the plan it was launched with, and `ElectedKeeps`
that a node still elected with its cohort listed keeps it.

**LazyRpc.** `TypeCorrect`, `HoldsHonoured` (`HoldsAreHonoured`, from
`HoldersCounted`, `HeldOwned` and `UnheldClocked`), `PortNotKilled`,
`ImplementsSharedServer` (`IsSharedServer`).
The count is exact only while the node runs, so the invariant `HoldInv` has
three parts: stopped loops hold nothing once `shutdown` took the lock; until
then the count covers the holds and the releases under way; a positive count has
a handle. The port's invariant relates it to the teardowns: a server being torn
down is older than the one owned, and between "port cleared" and "killed" no
one can point the tunnel back at it. Cardinalities of the set of holders come from
`FiniteSetTheorems`. `UnheldClocked` is the safety core of `ReleasedIsTornDown`: the clock
the tick waits for runs whenever it must; that the tick then comes is fairness. The
refinement goes action by action: the loop's steps are `Start`, `Join` or `Part`
(`AcquireIsShared`, `DropIsShared`), the tick's and shutdown's taking of the handle is
`Retire`, which needs the exact count to know that nobody uses the server
(`RetireIsShared`), and the three steps after the lock are `TurnAway` and `Kill`
(`TeardownIsShared`, with the port's invariant).

**Instances.** `TypeCorrect`; `ImplementsCustody`: every step of `Instances` is a
step of `Custody` or leaves its variables alone. The invariant `CustodyInv`
says what a reaper's late findings are worth: a server it is about to signal has
no living keeper any more, or is its own, because a lock seen free stays that of
a dead instance for as long as its pid is not taken again, and an instance that
takes the pid again ends what it finds before it starts anything. `HeldRecorded`
(`HeldIsRecorded`) and `TraceKept` (`TraceIsKept`) assume nothing; the properties
themselves are about `Steady` directories, those whose pid is not both given out again
and old enough to age, since a directory with both may be removed under its new
owner (section 6), and `TraceIsKept` leaves a server that no signal ends out once
its directory is old or has a new owner. Both rest on `RecordInv`: a scan's stale finding
about a steady directory stays true (`Staleness`: its owner is dead, and while it
exists it is old), every pidfile is in a directory that exists (`Filed`), a server in use
has its own (`Handles`), and what a reaper means to remove it has seen gone (`Doomed`).

**Routing.** `TypeCorrect`; `CountedSince` (`CountedSinceDelivery`): the window holds
failures since the last delivery only, but for a delivery that is not yet booked
(`Clearing`), inductive with the types; `RouteEarned` (`RouteDemotionEarned`) from it: the
router demotes a host only after `Threshold` failures since its last delivery, of any
requests, unless such a booking is ahead. It is not an invariant of one request: failures of
all of them fill one window, and a `Clear` may take away some that came after the delivery,
never leave any from before. `WithdrawnNoticed` (`WithdrawnIsNoticed`): what the
table lists, or will list once the loop has sent what it gathered, and is gone or
demoted is behind a change that is unseen or taken and not looked into, whatever turns fail, or
behind a request or a probe about to send one. That the loop then looks is not implied:
parked after a failed proxy it waits with the change taken (section 6).

**ConfigSync.** `TypeCorrect`; `Persisted` (`PersistedIsCurrent`);
`ImplementsSharedConfig` (`IsSharedConfig`); and two consequences stated on the code's own
variables, `CasReplaces` and `ViewsAdvance`. They rest on `ViewIsKnown`: a live view shows
a revision not newer than the node's, and, if it is the node's, the node's contents.
The type invariant needs `SendsAreRevisions`: sends done and pending together never
exceed the revisions. The refinement adds `SidecarFollows`, so that what a crash falls
back to is a version there was. The write of the file is the point at which a
replacement takes effect: nothing later in `apply` can take it back, and until `apply`
ends the lock keeps everybody from looking (`PushIsShared`, `ApplyIsShared`).

**PluginSupervision.** `TypeCorrect`; `OneProcessEver` (`OneProcess`): a process is
launched only by the holder of the restart lock while there is no runtime, and
every process that is up is the runtime (`SoleGoes`, `DropSole`); `FailureSpares`
(`FailureSparesSuccessor`), a step property: `HandleRuntimeFailure` drops the
runtime only under the generation it was called for (`DropSpares`).

**Blackboard** (also in `PluginProofs`; its names begin with `Board` where the other
module has the same). `BoardTypes`; `BoardNewest` (`BoardIsNewest`): for any nodes,
items and cap, an item that a plugin was given, has not expired and is not on its board is
missing because the board is full of items no older, whichever of the same second came
first. The insertion trims a board that has itself been trimmed, so the invariant `Holds`
has to survive a second trimming: what was dropped before was no newer than all that was kept, and
the new board, which is as full (`KeptOfFull`), keeps of those or better ones (`KeptHolds`,
`InsertedHolds`).
`OwedOnItsWay` (`OwedIsOnItsWay`): what a plugin is still to get from a peer along
connections that lasted is at every moment asked for or on its way: in an outbox, or in a
frame that has a copy left on that path. It is the safety core of `CaughtUp`, no message
that matters is lost without the debt being void. `DebtInv` adds that a debt's path is up
and has one or two connections, that the item is still on the other's board, and that
boards hold only what was given (`BoardIsGiven`); each action has its lemma
(`ForwardCarries`, `RelayCarries`, `HandledCarries`, `DisconnectCarries`, `RestartCarries`),
the relay's deduplication being the delicate one.

Only model-checked: the liveness properties (`GoneIsForgotten`,
`SomebodyServes`, `StopIsHeeded`, `ReleasedIsTornDown`, `RecordedOrphansEnd`,
`ChangesReachListeners`, `ComesBack`, `CallsEnd`, `CaughtUp`), because TLAPS proves
neither fairness arguments nor `ENABLED`, and the violated statements of section 6.

## 6 Where code and text disagree

The run `connections_stale` refutes `mesh/tests.rs:932` "must not remove a newer
replacement connection": a closing dispatcher empties the slot whatever connection it
holds. `PROJECT.json` quotes the lines. The statements below are refuted as
well; each configuration is kept beside the modules and is run with
`tlc -config <cfg> <MC module>`. A row marked "changed" takes the named configuration
with its `INVARIANT` and `PROPERTY` lines replaced by the property of the row
(`HostLendsNothing` as an `INVARIANT`, the others as a `PROPERTY`).

| configuration | property | the code | the text |
|---|---|---|---|
| `LazyRpc_agree` | `ReadyAgrees` | the idle tick wipes a fresh server's port and readiness | `mesh/mod.rs:1277` "`true` once the on-demand rpc-server is up and the tunnel points at it" |
| `Membership_ghost` | `GoneIsForgotten` | nodes that mention a dead peer to each other keep it for ever | `mesh/mod.rs:1088` removed after twice the window |
| `Membership_boot_prune` | `PruneSparesTheFresh` | soon after boot the fallback cutoff prunes everything (`BootAnchored`, Windows) | `mesh/heartbeat.rs:612` "nothing pruned yet" |
| `ConfigSync_noop` | `NoopIsCurrent` | after a failed sidecar the no-op check compares with older contents | `runtime/config_state.rs:13` |
| `ConfigSync_delivers` | `StreamDelivers` | a push between snapshot and subscription is not notified | `mesh/tests.rs:5317` |
| `Election_quiet` | `CapacityIsUsed` | the wait at `inference/election.rs:3264` has no timer, and readiness does not tick | `inference/election.rs:3350` a worker becomes selectable once its rpc-server is up |
| `Election_yield` | `YieldLeavesAServer` | `inference/election.rs:3049`: two hosts yield to each other on stale views | `inference/election.rs:3047` "Sticky unless a dialable peer already took over" |
| `Election`, changed | `HostLendsNothing` | `inference/election.rs:3123`: a worker that becomes host drops its hold, and its rpc-server stays up and advertised for the 120 s of `RPC_IDLE_TIMEOUT` | `inference/election.rs:3103` "A solo node, or the host itself, never holds an rpc-server", which is up "exactly when we're a pipeline worker" |
| `Election_live`, changed | `StopEndsTheLoop` | the waits at `inference/election.rs:3264` and `3387` do not look at `stop_rx` | `runtime/mod.rs:3886` an unload awaits the loop's task |
| `Instances_stragglers` | `StragglersEnd` | `inference/launch.rs:345`: a dropped handle takes the pidfile along, whether or not the server heeds the SIGTERM | `inference/launch.rs:341` a later reaper ends it |
| `Routing_conviction` | `ConvictionStands` | `mesh/mod.rs:1889`: the probe lifts a demotion of the verifier | `mesh/mod.rs:1762` when demotions end |
| `Routing_probe` | `ProbeSparesAHost` | of two pathless hosts each counts as the other's replacement | `mesh/mod.rs:1717` the only host is spared |
| `Routing_recovery` | `RecoveryReturns` | a parked loop is not woken by a lapsed demotion or a measured path | `mesh/mod.rs:1717` returns within minutes |
| `Routing_evict` | `EvictionLeavesAHost` | two requests evict the two hosts of a model, each counting on the other | `mesh/mod.rs:1684` "Evicting this peer would NOT empty the cohort serving model" |
| `Routing_withdrawn` | `WithdrawnLeaves` | a turn whose launch or proxy fails (`inference/election.rs:3332`, `3379`) takes the change and waits without `update_targets`; after a failed proxy without a timer | `mesh/mod.rs:1679` "Demotion withdraws the model from the public catalog and routing table without killing the peer" |
| `PluginSupervision`, changed | `EveryCallEnds` | `plugin/runtime.rs:539`, `590`: a send into the full channel of a hung plugin has no timeout | `plugin/mod.rs:54`: a request is given `REQUEST_TIMEOUT_SECS`, 30 s |
| `PluginSupervision`, changed | `HangIsNoticed` | the same: the supervisor's health request waits for room, so the hung plugin is never restarted | `plugin/mod.rs:55`, `plugin/runtime.rs:520`: a plugin is asked for its health every 15 s and restarted when the request fails |
| `Blackboard_feeds` | `SameFeed` | `plugins/blackboard/mod.rs:303`: at the cap, items of one second stay in the order of arrival | `plugins/blackboard/mod.rs:3` "Every node holds the same in-memory list" |
| `Blackboard_everywhere` | `EveryNodeHolds` | a post goes to direct connections only, and nobody asks again | `plugins/blackboard/mod.rs:3` "Every node holds the same in-memory list (eventually consistent via flood-fill)" |

With other `PROPERTY` lines, `PluginSupervision.cfg` refutes `VerdictSparesSuccessor`
(the supervisor's verdict has no generation, `plugin/runtime.rs:124`),
`StoppedStaysStopped` (a request drained at shutdown starts the plugin again) and
`DisabledIsFinal` (a waiter for the restart lock does not look at the status again).

Also met while modelling, without a configuration:

- *Membership.* A peer only heard of is announced on (`mesh/mod.rs:1087` says such
  peers are excluded from gossip). Removal on a report leaves no dead mark, so the
  next mention re-adds a killed peer (`senda/docs/DESIGN.md:187`). Recency is read
  before a 10 s probe and not again, so a report can evict a peer heard from
  meanwhile (`mesh/mod.rs:4522`). A report about an unknown peer is trusted, then
  applied to one that has become known (`senda/docs/message_protocol.md:214`). With
  `BootAnchored`, a peer heard of soon after boot looks freshly seen
  (`mesh/gossip.rs:773`): `SeenIsEvidence` fails, which is why its theorem excludes it.
- *LazyRpc, ConfigSync.* A server that exits by itself stays advertised
  (`inference/lazy_rpc.rs:15`); the no-op check ignores host-only settings
  (`runtime/config_state.rs:13`).
- *Connections.* A connection dialed for an HTTP tunnel gets no dispatcher on the
  dialing side, so gossip the other side opens on it is never read; and when the
  gossip after a redial fails, the slot keeps a connection nobody dispatches, hence
  nobody notices it close. With either, two nodes in a calm network may reconnect for
  ever or keep a dead slot, so no liveness of the slots is claimed.
- *Election.* The RAM filter is applied to peers but not to oneself, so two nodes
  may elect themselves and park for ever. An unloaded node stays assigned through
  `requested_models`. In a cohort of two with a stuck favourite the runner-up defers
  to it for ever. A launch that fails slowly never trips the backoff. A death seen in
  the second select leaves the role Host advertised. An unload waits for its loop
  without a limit in the task that runs every control request
  (`runtime/mod.rs:3883`). `update_targets` reads across an await and can drop the
  local target of a model loaded meanwhile (`inference/election.rs:4406`). Only the
  launching host fills its rewrite map (`inference/election.rs:4708`); role and tunnel
  port are per node, not per model.
- *Membership, liveness.* A living peer that was wrongly taken off a list is listed again
  only if it gossips with that node or one of the two dials the other: the probes go to a few
  random listed peers (`mesh/heartbeat.rs:445`), and `connect_to_peer` skips known and
  dead ones (`mesh/mod.rs:5243`).
- *Instances.* If a directory both ages and has its pid reused, a server may
  run with its pidfile gone (`HeldIsRecorded` fails with `Reusable` = both slots);
  if a server is `Stuck`, an old directory is removed with its pidfile
  (`runtime/instance.rs:945`). A llama-server has no pidfile until it is healthy and is
  not killed on drop.
- *Routing.* Failures survive an eviction, so a peer that rejoins is evicted at its
  first failure; they are counted per peer, not per model. Clients never record
  any. A split worker lists its host twice and so counts one request twice.
  The demotions of the verifier never tick.
- *Plugins.* The host's connection loop selects over `read_envelope`, which is not
  cancel-safe: a partly read frame is lost when a message goes out
  (`plugin/transport.rs:58`). A plugin's first message is dropped if the forwarder reads
  the manifest before `ensure_running` stored it. `broadcast_mesh_event` stops at the
  first plugin that fails.
- *Blackboard.* A peer heard of before it can be reached over one relay is asked in
  vain, and when it is connected later there is no PeerUp; a connection that is
  redialed while the peer stays listed brings none either, so posts lost with it
  stay lost until somebody restarts.
- *Tunnels.* A peer listed again between two turns of `watch_peers` keeps its tunnel
  but its new entry has no port for good (`network/tunnel.rs:240`).

## 7 What is not modelled

The mapped definitions cover the protocols; most of the remaining lines are output and
CLI (11,000 lines), the HTTP API and its translations, configuration and GGUF
parsing, GPU probing, model downloads, benchmarks, SDKs and the UI. They are pure
I/O, formats, or computations without concurrency, where a model would restate the code
line by line. Numeric scores (reputation, throughput, the verifier's statistics)
enter as their verdicts; signatures and validation as an input of a handler.

Left out of modelled components: owner policy in gossip; the Windows variant of
the config write; the MoE and pipeline launches of the election; `senda stop` and
local instance scans; the order of targets and retries within one host; plugin
endpoints, bulk transfers (the same relay rules as channel frames) and MCP.
Entry recovery, discovery, the loading watchdog and keep-warm are timers around
actions that Membership and Election have; tunnels relay bytes.

## 8 Plan

Done: `Membership`, `Connections`, `Election` over `HostElection`, `LazyRpc`
implementing `SharedServer`, `Instances` implementing `Custody`, `Routing`,
`ConfigSync` implementing `SharedConfig`, `PluginSupervision`, `Blackboard`; proofs of all
safety properties the passing runs check.

Next, in this order:

1. Proofs: the safety cores of more liveness properties, as `UnheldClocked` and
   `OwedOnItsWay` are (a subscriber that listens has its notification ahead; a task that
   waits for the restart lock is waited on by one that moves); the link between
   `running` and `known` in `Election` for cohorts of any size.
2. `OneProcess` and `DeadIsUnlisted` as refinements of an abstract keeper of one process
   and of the life of a peer, where that says more than the properties themselves.
3. The MoE launch of the election, and `Election` with three nodes for the peeling of
   stuck candidates.
4. `ModelServing`: loading and unloading through the control channel against the
   election loop's end (`runtime/mod.rs`).
