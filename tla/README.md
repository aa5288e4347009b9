# AudioHub: a TLA+ model of the daemon's concurrent core

AudioHub turns the microphone and the speakers of one computer into devices of
another. The program under `src/` is a daemon (`core/audiohubd`) with a network
library (`core/audiohub-net`), audio libraries, drivers, an IPC client, and a
desktop application. This directory models the parts of the daemon in which many
threads, and the daemons of two machines, meet: the session table, the recovery
of sessions after a lost connection, the establishment of connections, the ways
media travels between two daemons (a second connection, one multiplexed
connection, the automatic choice), and the virtual devices with the driver that
shows them.

Every action is translated from the code (Rust, and C for the driver); `PROJECT.json` ("map") names the
lines of each definition.

## 1. Inventory

| Component | State | Operations | What is hard |
|---|---|---|---|
| Session table (`conn.rs`, `lib.rs`) | `state.conns`, `state.sessions`, `state.stream_claims`, `rx_table`, the sources of the engine | open by the peer, open by this machine, close by either, teardown of a connection, mode change, lost endpoint | a dozen threads under one mutex that all of them release between steps; opens that take seconds |
| Reconnect (`reconnect.rs`) | `recon`: per peer a timer, a ladder, `in_flight`, a plan of sessions | note_outbound, arm, disarm, supervisor, attempt, replay | the plan must survive every interleaving of drops, attempts and user calls |
| Connections (`conn.rs`) | one registered connection per peer, on each machine | dial, accept, register_conn, reader, ping_and_reap, drop | two machines that decide alone and must agree |
| Mode policy (`haldev.rs`, `mode.rs`) | the mode: share, A, B | gates of every open, announce_mode | a check made before a wait |
| Device watcher (`lib.rs`) | two epochs, the endpoints present | platform callbacks, the watcher's pass | devices leave while a stream opens |
| Device coordinator (`haldev.rs`) | a slot per peer on disk and in memory, a record per slot, flags of opens under way | reconcile, save_table, apply_events, coordinate_sessions, session_worker, release_peer | a wish, a driver and a table that each change on their own; an opener that must follow a moving wish |
| Virtual device bridge and driver (`halbridge.rs`, `AudioHubDriver.c`, `AudioHubBridge.c`) | the driver's slots with their generations, mailboxes, the session | Bind Set and Clear, flush, retire, attach, disconnect | two processes that restart alone, messages that are lost or late |
| Tier 2 multiplexer (`mux.rs`, `muxio.rs`) | control and media queues, one socket, two park flags | write_loop, read_loop, kill, park | priority, lost wakeups, shutdown |
| Tier 1 media (`tcpmedia.rs`) | per peer tickets, `AttachGate`, a media link per connection | negotiate, mint, claim, serve | a second connection that belongs to a first one |
| Automatic tier (`autotier.rs`, `peer_transport.rs`) | the user's pin and a verdict per peer | watchdog_pass, downgrade, TransportSwitch, retire_stale_verdict, set_tier | both ends decide at once, while connections come and go |
| Pairing window (`conn.rs`) | one PIN, its failures, `in_flight` | enable, claim, release | one attempt at a time |
| Quality ladder, servo (`quality.rs`, `servo.rs`) | a rung, windows of loss | one update per report | numeric |
| Engine, DSP, audio rings, AirPlay, secure transport, IPC parsing, UI | | | out of scope, section 8 |

How they meet: IPC threads, the device coordinator and replay threads call
`open_session_from`, which calls `connect_peer` and then works on the session
table. One reader per connection serves the peer's messages on the same table.
Whoever ends a connection runs `teardown_conn`, which empties its part of the
table and hands what this machine had opened to the reconnect entry of the peer.
The supervisor, or a user's connect, dials again and replays the plan through
`open_session_from`. A new tier, set by a user or found by a detector, drops the
connection (`retier`) and lets that recovery negotiate the next one. The driver
tells the coordinator through the bridge which devices applications use; the
coordinator tells the driver which devices there shall be, and a worker which
sessions to open and close.

What makes each correct: no stream beyond the caps and none without its
receiver; nothing left running after a failed open or a teardown; nobody served
by a machine whose mode or devices do not permit it; no session lost or opened
twice on the way through a reconnect; an armed retry that ends; two daemons that
settle on one connection; a writer that never sleeps on work; a stream that nobody
hears moved to the other transport, once; a driver whose devices are those the mode
and the pairings ask for, and sessions that follow their use.

## 2. Modules

| Module | Models | Checked by |
|---|---|---|
| `StreamPool` | what the session table promises, without threads | refinement in `st_conns` |
| `PeerRegistry` | what `state.conns` promises whoever looks a peer up in it | refinement in `st_conns` and `dr_race` |
| `SessionTable` | the session table of one daemon and every thread that touches it | `st_conns`, `st_devices` |
| `SessionTableProofs` | proofs about it, any number of threads, connections and ids | |
| `Reconnect` | recovery towards one peer | `rc_safe`, `rc_live`, `rc_stuck` |
| `ReconnectProofs` | proofs about it | |
| `DialRace` | two daemons that dial each other | `dr_race` |
| `DialRaceProofs` | proofs about it, any number of links, dialling threads and faults | |
| `MediaAttach` | the tier 1 media connection of a control connection, at both ends | `ma_safe`, `ma_live` |
| `MediaAttachProofs` | proofs about it, any number of connections, tickets and faults | |
| `MuxLink` | one tier 2 connection: both producers, the writer, the reader, the end | `mux_link` |
| `MuxLinkProofs` | proofs about it, queues of any size | |
| `AutoTier` | two daemons that move each other from UDP to TCP | `auto_tier` |
| `AutoTierProofs` | proofs about it, any number of connections and upsets | |
| `HalSlot` | the daemon's slots and the driver's, and what lies between | `hal_slot` |
| `HalSlotProofs` | proofs about it, any number of slots, peers and upsets | |
| `DeviceSession` | what the opener of sessions promises a device, without its channel and worker | refinement in `hal_sessions` |
| `HalSessions` | the sessions behind the virtual devices | `hal_sessions` |
| `HalSessionsProofs` | proofs about it, any number of devices, peers, streams and commands | |
| `MC*` | constants and symmetry sets for TLC | |

**SessionTable.** The variables are the fields of `DaemonState` and `DaemonInner`
they are named after; `claims[i]` holds the thread that owns the
`Arc<StreamClaim>`. Threads are program counters (`pc`) with their locals
(`job`, `todo`, `cut`). An action is what a thread does while it holds the state
lock, or one call made without it; so a teardown of one stream is two actions
(`Take` removes the session under one lock, `Unplug` the receiver under
another), as it is two critical sections in `teardown_stream`. `RemoteGate`,
`RemoteSample`, `Claim`, `Build`, `Publish` or `Abandon`, `Unwind`, `Release` are
the stations of `handle_remote_open` and `open_session_from`. `Register` picks
freely whether the tie-break keeps the old connection: `DialRace` has the rule.
Receivers and sources are kept apart (`rxTable`, `txStreams`); volume, salts and
quality targets are not modelled. `Connect` brings a connection object that is
over back, so histories are unbounded.

**PeerRegistry.** `SessionTable`, `Reconnect` and `DialRace` each have `register_conn`
and `teardown_conn`, seen from the streams, from the recovery and from both ends of the
dial. So that the three cannot drift apart, each maps its connections to "off", "live",
"ousted" or "dead" (`Standing`) and implements the same abstract registry: a connection
enters once, is registered until a newer one takes its place or it is dead, and its end
takes away its own registration only. "Ousted" is a connection that is replaced and not
marked dead yet (`conn.rs:537-541`, two critical sections); only `SessionTable` takes
those apart, so in the other two no live connection is unregistered.

**Reconnect.** One peer, because entries of different peers meet nowhere but in
the lock. The plan is a count of sessions per intent (`same_media_intent`), since
nothing depends on its order. Time is left out: an armed retry may be due at any
moment, which includes every backoff. `locked` is the thread that keeps the
`recon` lock across actions: only `attempt` does, in the arm that calls
`drop_conn`. A teardown is four steps (`td`): snapshot, close, unregister, arm;
the reader and a thread in `drop_conn` may run one each for the same connection.
`may_dial` is read together with the use of `recon` that follows it.
`UserDisconnect` stands for `disconnect_peer` and for `forget_peer`, which disarms
and drops in the same order. `UserOpen` asks only for what is neither live nor
owed: a user who opens the same thing twice gets it twice, on purpose.

**DialRace.** Two sides, and links that each have a state at either end. A dial
puts a link in "shaking" at both ends; `Register` runs at each end at its own
time. Faults - a silent path, an end closed, a registration older than the
10-second window - share one budget.

**MediaAttach.** Side D dialled the control connections and A accepted them. `at`
is the thread that runs `register_conn` (with `negotiate` in it) and then the
reader of a connection; `thr` is the thread of a media connection, from dial or
accept to the end of `serve`. Each station of `serve` after its read loop is an
action, since the other end, the teardown and the next connection look between
them. `toD` is the control channel towards D, in order: `ModeState`, tickets,
refusals, one `OpenStream` a connection; the only message towards A that matters
here is the request, `asked`. `killed` is the link's own `alive` flag, negated.
An expired ticket is one that `Expire` took away. Left out: the media queue with
its stale gate and pacing, and automatic verdicts (`pref` is what the operators
set), so `effective_tier` of `auto` is tier 0. The address check of `claim` always
passes: both connections come from one machine. `Connect` happens once D has no
live connection; which of two simultaneous ones stays is `DialRace`'s question.

**MuxLink.** The writer is a program counter through `write_loop`: whose turn it is
(`Turn`), one frame of either kind, the lull with the end and the heartbeat, and the
park in its four parts - `ioParked` up, `mediaParked` up, a look at each queue, the
park itself - because a producer may come between any two. `token` is the unpark
`std::thread` remembers. A producer queues and looks at its flag in two steps. `kill`
runs on the thread that was first, in three steps; who comes second goes on at once.
`credit` says that `CONTROL_CREDIT` has passed since the last control frame. Frames
are counted. A media frame may be stale or revoked; for the queue that is the same as
sent. Left out: the WebSocket shell, the token bucket, frame deadlines and the
shutdown flag, which ends both loops the way `alive` does.

**AutoTier.** D dials, A accepts; the media connection is one step (`Attach`), as
`MediaAttach` has its parts. A registration publishes, retires an old verdict (a look
and a clear under two locks), reads the tier and waits for its attach. `job` says
where each thread is in `downgrade` or `set_tier`: the sweep, a reader with a peer's
report, a user. What a detector sees is reduced to whether UDP reaches its side and
the path the other end bound its stream to; its thresholds only delay `Sweep`. `Blocked`
are the sides UDP does not reach, `Senders` those a stream may come from, `Setters` those
whose user sets a tier; `Changes` names what may upset the rest. Each detector is a thread
of its side: with both sides blocked both may be between finding and drop at once.
The verdicts of both ends grow old together and at a quiet moment (`Hour`), since an
hour is long against everything else; a `set_tier` that changes nothing drops nothing
and is not an action.

**HalSlot.** `Pass` is one turn of `coordinator_loop`, from the events to the list of
Binds; `Send` puts one of them on the wire outside the lock, `SaveTable` follows them
all. The capacity is read before the lock (`capacity` may lag an attach). The driver's
service thread is `ServicePass`: flush the mailboxes, drain the port, retire what is
due. `bindDue` and `ioDue` are the latest-only mailboxes, which is why they are flags:
a flush sends the state of the moment. The bridge lets an IoState through whose
generation is that of the slot's last BindState (`filter`). The device list the
coordinator polls is `Listed`. Directions of a device, names, the online mark,
presentation, volume and formats are left out, with `remove_virtual_on_disconnect`. StartIO
and StopIO post in the step that changes `ioRunning`; both sides see the loss of a
session at once; the handshake and the three critical sections of `release_peer` are
one step each (`HalSessions` has the sections). The bridge's
queue drops its oldest of 256 events; the model's flush waits instead. A flush is all or
nothing, where the code sends each mailbox alone (`AudioHubDriver.c:675-689`) and a BindState
may time out while its IoState passes and is filtered; only `io` of a record would differ, which
no property reads. An attach raises the capacity and the epoch together, where the code stores
one and then the other (`halbridge.rs:7213`, `7221`). `SaveTable` always succeeds: a save that
fails (`haldev.rs:2676`) leaves the old table on the disk, as a crash before it does, but until the
table changes again; section 5 has what follows from such a disk.

**HalSessions.** A slot here is one direction of a device: `coordinate_sessions` runs the
same code for each. The one thing the two share is the cooldown (`open_at`,
`haldev.rs:3214`), so that an open of one may hold the other's back for `OPEN_COOLDOWN`;
here each cools alone, and a cooldown only delays. `Snapshot` is the part of it before the haldev lock, `Decide`
the part under it with the sends. The worker takes one command (`Take`), dials, opens,
records; `Close` forgets under the lock and closes after it. What the driver reports
reaches the records between two passes only, as it does in `coordinator_loop`.
A session may end with its connection or alone (`SessionEnds`), and the driver may report
again that an idle device is idle, which starts its linger anew (`IoReport`).
`conn[p]` is `half` until the peer has sent its mode and its capabilities. An id nobody
speaks of any more may come up again.

## 3. Runs

| Run | Shows |
|---|---|
| `st_conns` | claims, caps, routable receivers, no leak, no orphan, refinement of `StreamPool` and of `PeerRegistry` (so no eviction of a successor), and that claims are released and dead connections leave the table: two connections of a peer with their readers, two openers |
| `st_devices` | an endpoint that comes and goes and a mode that changes, a closer, a reaper beside the reader: no peer keeps a stream on a missing endpoint |
| `rc_safe` | two retry threads, disconnects, policy changes, inbound connections: a plan always has a timer; `in_flight` is never left behind; sessions are open only where a teardown will see them; no session is lost without somebody's decision |
| `rc_live` | retries end; owed sessions come back or are given up |
| `rc_stuck` | *violated*: section 5 |
| `dr_race` | one dialler a side: one connection stays untouched at both ends while there is no fault, and what both have registered is not taken down; each side is a `PeerRegistry` with one live connection whatever the faults; both settle on one connection after the last of two faults |
| `ma_safe` | two control connections in a row, operators who disagree on the tier: one servant per end and path, no flag or latch left behind, messages in order, registration held open as long as the dial lasts |
| `ma_live` | a media link goes with its control connection, and the control connection with its media link |
| `mux_link` | no frame waits for a sleeping writer, not even with a park that never times out; control gets out under any load of media; whatever dies first, all of the link dies |
| `auto_tier` | no connection outlives the tier it was chosen for; the detectors of both ends, which drop and announce at each other, a report, a pin and a re-probe come to rest; it does not stay so that the accepting side does not hear a stream |
| `hal_slot` | a generation names one occupancy of a slot on both sides, whatever is lost or restarted; driver and daemon settle on the same tenants |
| `hal_sessions` | the session a slot records is its tenant's; one open a device; a Close forgets no younger session; refinement of `DeviceSession`; in the end a device in use has a session and an idle one has none |

The type invariants (`TypeOK`) are theorems and not in the runs. Each property of a
passing run has a mutant in `PROJECT.json`: a plausible bug in one mapped definition
(defined beside it) with which the same run fails.

### Bounds, and why they are enough

- `st_*`: two connections of one peer are what replacement needs; two openers beside
  the readers claim on one connection at once, which a cap of 1 must stop; a
  claim of the replaced connection and one of its successor fill the total of 2.
  In `st_devices` a reaper beside the reader gives two teardowns of one
  connection, and `MaxEpoch = 2` lets the output leave and return while one open is
  under way. The input stays: with both endpoints coming and going TLC needs ten
  times as long. Reapers beside two connections are left to the proofs, which
  have any number of threads. No symmetry in `st_conns`, as it checks liveness.
- `rc_*`: one intent and two connections let a session be lost, replayed and lost
  again; `MaxCopies = 1` merges two copies of one intent into one (what a second
  copy does is not asked here). Two retry threads give an attempt beside a replay or beside another
  attempt. `Changes` names the external events a run includes.
- `dr_*`: three links let each side have a dial under way while older links end.
  Two faults are enough for a loss and a loss of what replaced it.
- `ma_*`: two control connections let the tickets, dials and servants of the first
  meet the second; two tickets and two media connections at once are what one
  servant per end can be violated with. `MaxFaults = 1` counts breaks, failed
  installs, unanswered dials and waits that run out; with one, a fault meets every
  step of a fault-free exchange. Expiry of a ticket and the end of a dead
  connection are free. `ma_live` has one control connection, as its properties are
  about one; it uses no symmetry.
- `mux_link`: three frames in the outbox and messages of up to two frames make a
  message fit, not fit, and meet a queue that is partly full; two media slots keep
  media waiting while one frame is written. The environments are not bounded
  otherwise. One fault ends a link; a second would meet a link that is ending.
- `auto_tier`: two connections, as a new one is registered at one end while the old one
  ends at the other, and a `ConnShared` is used again when nobody refers to it. UDP
  reaches neither side, so that both detectors find a stream of D silent, one as its
  receiver and one for want of keepalives, in any order and both at once. One upset - a pin
  of A's user, an hour, or a fault - meets every step of that. A pin at D instead
  (`Setters = {"D"}`) was checked too, and takes longer.
- `hal_slot`: one slot for two paired peers, so that a tenant must leave before the
  other enters; two slots break a liveness property for the reason in section 5. Two
  upsets put a loss or a restart beside every step of the recovery from another. Two
  Binds in the port and two undrained events make both fill up.
- `hal_sessions`: one direction of one device, two peers that may own it, two stream
  ids (one in use and a fresh one); four upsets. `MaxQueue` is never reached by a
  coordinator that opens once (`OneOpening`).

`CHECK_DEADLOCK FALSE` stands in `dr_*`, `ma_*` and `auto_tier`, where linked daemons without
further faults have nothing to do, in `mux_link`, where a link that has ended stays so, and in `rc_safe` and `rc_stuck`, where the system
really stops (the self-deadlock below).

### Fairness

Weak fairness for every step of a call a thread has started: each wait in those
paths has a timeout (`SOURCE_ACK_TIMEOUT` 5 s, `OPEN_TIMEOUT` 10 s,
`HANDSHAKE_TIMEOUT` 10 s, `WRITE_TIMEOUT` 2 s), and mutexes are held for short
sections. A reader leaves its loop once its connection is dead (50 ms receive
slices), the supervisor looks every 200 ms, the watcher every 200 ms. None of the
requests (users, the peer, devices, faults) is fair. `Reconnect` adds strong
fairness of a successful dial: a peer that answers is not missed by every
attempt; without it nothing obliges a retry to end. `rc_live` leaves out
disconnects, because of the deadlock `rc_stuck` shows, and policy changes.
`MediaAttach` is fair to the threads of registrations, readers and media
connections (`PUMP_SLICE` 50 ms, `READ_SLICE` 200 ms, `HANDSHAKE_TIMEOUT` on a
dial), not to connects, opens, expiry or faults; the dial's failure is fair only
where its socket is closed or refused. `MuxLink` is fair to the two threads, to the
second half of a flush or tick, to the control stack's reads and to the passing of
`CONTROL_CREDIT`; not to producers, to the peer or to the park's 20 ms slice, so that
what it shows does not rest on that backstop. `AutoTier` is fair to registrations,
readers, commands that have begun, and the sweep (every 200 ms); not to users,
connects or the network. `HalSlot` is fair to the coordinator (`TICK`), to the attach loop and
the driver's service thread, with the grace period over in the end; and strongly fair to a
pass that looks at the device list with its timers over, which comes every second
however the others fall. `HalSessions` is fair to its threads, to timers and to a
connection's contract (`HANDSHAKE_TIMEOUT` ends one without it); and strongly fair to
a dial and an open that succeed: a peer that is there is not missed by every attempt.

## 4. Proofs

Each invariant and action property of a passing run is proved as a theorem of its
specification, for every value of the constants that satisfies the assumption named in the
module. The one with a hypothesis of its own is `OneIsLeft`: about the behaviour, not the
constants. Wherever the specification has fairness, the theorems do not use it.

- **SessionTable**: `Spec => []IInv` (theorem `Inductive`) and from it `TypeOK`,
  `ClaimsAreHeld`, `StreamCaps`, `CommittedIsRoutable`, `NoMediaLeak`,
  `NoOrphanSession`; and `Refines`, that every behaviour is
  one of `StreamPool`. The assumptions are `ConstantsOK` (finite ids, natural
  caps), `ThreadsDistinct` and `NoneIsNothing`. The properties are not inductive
  alone: that a committed receiver is routable needs that an opener between
  `Build` and `Publish` still has its receiver, which needs that nobody else tears
  that id down, which needs that claims are held; that no session is orphaned
  needs that a dead connection's snapshot covers what was committed before it was
  marked dead, which rests on the commit's look at `alive` under the same lock.
  `DevicesInductive` adds what an open knows of its endpoint and what the watcher owes:
  an epoch that has not moved since the sample means an endpoint that is there or a
  callback still to come (`Sampled`), and a stream on a missing endpoint is one the
  watcher has not reached (`Watched`). From it `MissingEndpointServesNobody`, with any
  number of epochs and openers. `DeadFirst`, that a connection is marked dead before
  its sessions are collected, gives `OnlyDeadUnregistered` (no step takes a live
  connection out of the table), and with it `RefinesRegistry`, that every behaviour is one of
  `PeerRegistry`. That needs `Enrolled`: a connection is in the table only between
  `register_conn` and the end of its reader, and no thread holds one that is yet to be
  registered.
- **Reconnect**: `Spec => []Inv` and from it `TypeOK`, `PlanIsArmed`,
  `InFlightIsHeld`, `LiveIsServed`, and `Conserved`, the action property that no
  step loses a session unless somebody decides so. `Inv` adds who may be in
  `attempts` at which step (`Roles`), that alive connections are served
  (`Served`) and what a teardown at each step has done (`Tearing`). `Refines` shows that
  every behaviour is one of `PeerRegistry`: what is registered has its reader or a teardown
  that has not unregistered yet (`Enrolled`), so nothing dead is in the
  table without somebody left to take it away.
  No run checks it, to keep `rc_safe` short: TLC needs as long again for it.
- **DialRace**: `OneLivePerSide` is inductive with the types: registration alone keeps it.
  `OneIsLeft` needs the tie-break, and holds of every behaviour in which no thread of a side
  begins a dial while another of that side is under way (`OneDialAtATime`). Any number of
  threads may dial one after the other: a retry after a replay after a user. That two dials
  of one side at once are the exception, and the only one, is what `OneLeft` says: the keys
  of two connections of one side are equal, and each end may keep another (a hazard
  `PROJECT.json` lists; nothing in `conn.rs:3247` prevents it). `Healthy` says why it holds:
  a connection of the lower side is never touched once it is there, and one of the higher
  side is not while there is none of the lower. `Established` and `Refines` need no
  hypothesis. Whatever dials at once, `EstablishedStays`: what both ends have registered
  stays, but for a connection of the higher side in whose place one of the lower comes,
  since while nothing fails (`Unharmed`) a newcomer meets a registration that is alive and
  younger than the window, and yields (`RegisterYields`). TLC agrees for two threads a side:
  `dr_race.cfg` with `Diallers = {d1, d2, e1, e2}`, `MaxFaults = 1` and this property only.
  And each daemon implements `PeerRegistry`.
- **MediaAttach**: `AInv` has, besides the types, who sits on which connection (`Seated`),
  the thread behind each raised latch and each raised `media_attaching` (`Latched`,
  `Attached`), and where the mode is among the messages to D: handled, parked, or in the
  channel ahead of every open (`Ordered`). From it `OneServant`, `PathIsServed`,
  `AttachingHasDial` and `ChannelOrder`; `HeldWhileDialling`, an action property, follows
  from `Attached` in each step that ends the wait. The proof sorts the steps by what they do to
  the tables of threads: all but one or two conjuncts see a step only through that.
- **MuxLink**: `Spec => []Inv` and from it `TypeOK` (the queues keep their bounds,
  `kill` runs on a dead link only) and `NoLostWakeup`, for queues of any size
  (`MuxAssumption`). `NoLostWakeup` speaks of a parked writer only, and is not
  inductive: `Inv` follows the writer from the first flag on. Once a flag is up
  (`Flagged`) and its queue was found empty, a frame in it means a producer that has yet
  to look at the flag, or an unpark that is there already (`MediaSeen`, `ControlSeen`);
  the same holds of `kill` and its wakes (`KillSeen`). The theorem shows that the order
  raise, look again, park is what matters, and no size or timeout.
- **AutoTier**: `ChoiceIsCurrent` says that some thread is at work on an outdated
  connection; `Doomed`, its inductive form, says which: a finding that is noted and not
  weighed yet counts only while nothing is pinned, since a pin ends it without a drop.
- **HalSlot**: `OneOccupancy` compares two counters that either process may reset, so it
  says nothing of an earlier or later generation and is not inductive. `HInv` gives each
  generation a meaning of its own: it is even exactly while its slot is free, in the driver,
  in every report under way (`Reports`) and in every record that has seen a report
  (`Known`), since a binding and a retirement each count one up. `HInv` also has that
  a peer has one slot in the table and on disk (`Tables`), which is what puts the Sets of a
  pass in order, and that a Set names a peer. A pass folds `Apply` and `Assign` over queues
  of any length, the service thread folds `Handle`: the first part of the module proves what
  a fold keeps.
- **HalSessions**: `HInv` adds to `RecordedIsTenants` and the types that at most one open per slot is in
  the queue or in the worker's hands, exactly while the flag is up (`OneOpen`), and that a
  Close is ahead of the Open of its slot (`CloseFirst`). From it `OneOpening` and
  `CloseIsOwn`, for a queue of any length and any finite set of devices; and `Refines`,
  that every behaviour is one of `DeviceSession`. The peer a device has asked for
  (`AskedFor`) is in the queue or with the worker; `OneOpen` makes the place unique, so
  that a command that moves up or is taken changes nothing there (`AskedRight`), and
  `CloseFirst` that an answer finds the slot without a session.

The proofs go action by action: one lemma per action, or per small group of
actions, with one step for each conjunct the action can disturb. Counting lemmas
rest on `FiniteSetTheorems`. Where an argument is by induction over Nat (the folds and the
flattened posts of `HalSlot`), it goes through `Induction`, which
is drawn from the cardinalities of intervals, because the induction rules of the library take
an operator as a parameter, which the provers cannot instantiate. For the same reason there is one fold
lemma each for `Apply`, `Assign` and `Handle`, and `HalSlot` orders what a pass plans
by counting (`Nth`) and removes one entry of the store by its index: sorting and
selecting by an operator are closed to the prover.

Only model-checked: liveness, as fairness and ENABLED are out of the prover's reach:
`ClaimsAreReleased`, `DeadConnsVanish`, `RetryEnds`, `OwedEnds`, `Converges`,
`DeadConnLetsGo`, `LostMediaDropsControl`, `ControlGoesOut`, `LinkDiesWhole`, `Settles`,
`AcceptorHears`, `TablesAgree`, `SessionsSettle`. `OneIsLeft` is not claimed where a side
dials twice at once; it does not hold there.

## 5. Where the code and its comments disagree

`rc_stuck` is a run; the others are stated in their modules, and the constants below
make TLC show each within seconds or minutes (with `CHECK_DEADLOCK FALSE`).

- **Self-deadlock of a disarmed attempt** (`rc_stuck`): `attempt` calls
  `drop_conn` while it holds the `recon` lock (`reconnect.rs:492-504`), and
  `drop_conn` ends in `arm_in`, which takes it again. The comment says "drop what
  we just built, recover nothing"; the thread never comes back, and the supervisor,
  `peers.list` and disconnects block behind it.
- **Mode exclusion** (`SessionTable!ModeExclusion`): a peer's open passes the mode gate
  (`conn.rs:2100`), waits for its source, and commits after `announce_mode` has
  closed what it saw. The machine then serves a peer in mode A or B, which the
  comment at `conn.rs:772-775` calls unreachable. `st_conns.cfg` with `Conns = {c1}`,
  `Ids = {i1}`, `Openers = {o1}`, `Offered <- OfferModes`,
  `Switchable = {"share", "A", "B"}`, both caps 1, and this invariant only.
- **Unarmed and offline** (`Reconnect!UnarmedIsConnected`): the teardown arms the retry
  before the connect that preceded it clears the timer, against `reconnect.rs:67`.
  `rc_live.cfg` with this invariant only.
- **A ticket nobody gets** (`MediaAttach!RequestAnswered`): `offer_ticket` says nothing while
  the peer has an unexpired ticket, "certain to be delivered" (`tcpmedia.rs:1314-1315`).
  It is not when the connection it was sent on broke: a peer that dials again
  within 10 s gets neither ticket nor refusal, waits out `ATTACH_TIMEOUT` and stays
  on UDP, which `on_request` (`tcpmedia.rs:1338-1340`) means to spare it. `ma_safe.cfg`
  without symmetry, with `Prefs <- OneAuto` and this property only.
- **A device that moves** (`HalSlot!DeviceKeepsSlot`): the Binds of a new assignment go out
  (`haldev.rs:2275`) before `save_table` (`haldev.rs:2312`). A daemon that dies in between
  assigns again from what the disk has, and by then the store may have another order:
  the driver holds a peer's device on one slot and the table names another, for which
  the driver refuses the Bind as a duplicate. `haldev.rs:406-409` calls a moved device "the
  single failure this whole persistence exists to prevent". `hal_slot.cfg` with
  `NSlots = 2`, `MaxEvents = 4` and this invariant only; with two slots it also keeps
  `TablesAgree` from holding.
- **Two streams of one device** (`HalSessions!OneStream`): `coordinate_sessions` reads the
  live sessions (`haldev.rs:3138-3156`) before it takes the haldev lock. A session that
  the worker inserts and records in between looks dead: its id is dropped as one "that
  went away with its connection" (`haldev.rs:3161`), a second one is opened, and nobody
  closes the first. The test `a_reconnect_leaves_exactly_one_speaker_stream_per_spec`
  states the opposite of a reconnect. `hal_sessions.cfg` with this invariant only.
- **A switch that is not heard** (`AutoTier!PeerReachesVerdict`; why `AcceptorHears` speaks of A only):
  D's detector announces and drops, and D dials again; A's registration marks the
  old connection dead before A's reader has read the announcement. A still reads tier 0 and
  binds its stream to UDP; D's attach then puts the path of both ends on TCP, where neither
  detector looks again. The comment of the announcement (`autotier.rs:354-356`) says that "the
  peer's own detector reaches the same verdict from its own half of the link". Here it never
  does, and D does not hear the stream for good. `auto_tier.cfg` with `Blocked = {"D"}`,
  `Senders = {"D", "A"}`, `Changes = {}`, `MaxUpsets = 0` and this property only.

Seen while modelling, and stated nowhere: a replay connects as
`ConnectOrigin::User` and so brings a disconnected peer's entry back, against
`conn.rs:3193-3195`; the teardowns of a reader and of `drop_conn` may both plan a
session, which two overlapping replays then open twice; two dials from one side
have equal tie-break keys, so each end may keep what the other drops; a ticket
names a peer, not a connection (`tcpmedia.rs:1079`), so a late media connection
may serve a different control connection at each end, and take both down. A record
that a BindState Free or `reconcile` resets forgets its session ids without closing
them (`haldev.rs:2207`, `haldev.rs:2775`); a capacity read before an attach plans the Clear of a
wanted device; an orphan's Clear with the wrong generation is ignored without the
answer that the comment at `haldev.rs:1582-1583` counts on (`AudioHubDriver.c:2212-2219`);
`retire_stale_verdict` looks and clears under two locks, and `set_tier` reads and stores
the record under two, so a verdict that comes in between is lost.

## 6. Plan

In this order:

1. An abstract media path, at most one a connection, that `MediaAttach` implements, beside
   `StreamPool`, `PeerRegistry` and `DeviceSession`.
2. `ControlPair`: two session tables and the ordered messages between them
   (OpenStream, Accept, Reject, CloseStream, ModeState): half-open streams, the
   last mode told, late accepts.
3. `DeviceVolume` (`haldev.rs`): the volume of a virtual device and of the real one behind
   it, their echoes and retries.
4. `PairingWindow` (`conn.rs`), and the single-producer rings of the engine and the bridge.
5. `QualityLadder` (`quality.rs`): the pure algorithm against its reference. The Windows
   bridge, which differs from the macOS one in its transport.

## 7. Hazards without a property yet

`PROJECT.json` lists them with the reason. Some the code does not keep (section 5): the
mode at the commit, the unarmed retry, the ticket of a broken connection, the stale snapshot
of the live sessions, the slot table after a crash. The others wait for a model: half-open
streams after an open that timed out, a close that a replay undoes, overlapping replays, two
dials of one daemon at once (what is settled they leave alone), the order of ModeState messages, the pairing window.

## 8. Not modelled, and why

The media engine, the servo, DSP and latency estimation are numeric code in
10 ms loops; the secure transport, pairing cryptography and wire formats are
taken as given (a finished handshake is an input of the models); the audio rings, volume,
formats and presentation of the driver and its bridge are data paths and property
tables of the platform; AirPlay is a
protocol of its own that meets the daemon in a local route; IPC parsing, the
desktop application, the installer, scripts and vendored code hold no shared
state of the daemon. `override_mode`, which lets probes pass the mode gate, is
left out of `LocalGate`.

The repository has some 170,000 lines, most of them signal processing, platform code,
AirPlay, user interface and tests inside the source files. The concurrent control code that
models can say something about is a few thousand lines of `conn.rs`, `reconnect.rs`,
`haldev.rs`, `tcpmedia.rs`, `mux.rs`, `muxio.rs`, `autotier.rs`, `lib.rs`, the bridge and the
driver, so the share of all lines that the map covers stays small whatever is added.

## 9. Running

    tlc -config st_conns.cfg MCSessionTable.tla
    tlc -config rc_safe.cfg  MCReconnect.tla
    tlc -config dr_race.cfg  MCDialRace.tla
    tlc -config ma_safe.cfg  MCMediaAttach.tla
    tlc -config mux_link.cfg MCMuxLink.tla
    tlc -config auto_tier.cfg MCAutoTier.tla
    tlc -config hal_slot.cfg MCHalSlot.tla
    tlc -config hal_sessions.cfg MCHalSessions.tla
    tlapm SessionTableProofs.tla
    tlapm ReconnectProofs.tla
    tlapm DialRaceProofs.tla
    tlapm MediaAttachProofs.tla
    tlapm MuxLinkProofs.tla
    tlapm AutoTierProofs.tla
    tlapm HalSlotProofs.tla
    tlapm HalSessionsProofs.tla

The other configurations of a module go with the same `MC` module. The longest runs are
`hal_slot` and `auto_tier` with two to three minutes on two workers.
