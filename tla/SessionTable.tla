---------------------------- MODULE SessionTable ----------------------------
(***************************************************************************)
(* The stream table of one AudioHub daemon (core/audiohubd/src/conn.rs):   *)
(* who may put a session into `state.sessions`, and who takes it out.      *)
(*                                                                         *)
(* Threads meet here under one mutex (`inner.state`) that every one of     *)
(* them releases between its steps:                                        *)
(*   - one control reader per connection, which registers it, serves the   *)
(*     peer's OpenStream / CloseStream and tears the connection down,      *)
(*   - the openers of local sessions (IPC, device coordinator, replay),    *)
(*   - the reapers (`ping_and_reap`, `drop_conn`), which run the same      *)
(*     `teardown_conn` as the reader, possibly at the same time,           *)
(*   - the IPC threads that close a session,                               *)
(*   - the thread that changes the mode and runs `announce_mode`,          *)
(*   - the device watcher, which closes what a lost endpoint was serving.  *)
(* One action is what a thread does while it holds the state lock, or one  *)
(* call it makes without it.                                               *)
(***************************************************************************)
EXTENDS Integers, FiniteSets

CONSTANTS
    Conns,        \* connection objects (ConnShared)
    Peers,        \* fingerprints
    PeerOf,       \* the peer each connection leads to
    Ids,          \* stream ids
    Openers,      \* threads that run open_session_from
    Reapers,      \* threads that run ping_and_reap or drop_conn
    Closers,      \* threads that run close_session
    Setter,       \* the holder of settings_write_lock
    Watcher,      \* device_watch_loop
    Offered,      \* the kinds of stream somebody asks for
    Switchable,   \* the modes settings.set may switch to
    Flaky,        \* the endpoints that come and go
    MaxPerConn,   \* MAX_STREAMS_PER_CONN
    MaxTotal,     \* MAX_STREAMS_TOTAL
    MaxEpoch,     \* bound: device changes per endpoint
    None

Modes     == {"share", "A", "B"}
Endpoints == {"in", "out"}
Kinds     == [origin : {"Peer", "User", "Hal"}, shape : {"spk", "mic", "alt"}]
Threads   == Conns \cup Openers \cup Reapers \cup Closers \cup {Setter, Watcher}
Workers   == Conns \cup Openers

ASSUME ConstantsOK ==
    /\ IsFiniteSet(Ids)
    /\ PeerOf \in [Conns -> Peers]
    /\ Offered \subseteq Kinds
    /\ Switchable \subseteq Modes
    /\ Flaky \subseteq Endpoints
    /\ MaxPerConn \in Nat
    /\ MaxTotal \in Nat
    /\ MaxEpoch \in Nat

ASSUME ThreadsDistinct ==
    /\ Conns \cap (Openers \cup Reapers \cup Closers \cup {Setter, Watcher}) = {}
    /\ Openers \cap (Reapers \cup Closers \cup {Setter, Watcher}) = {}
    /\ Reapers \cap (Closers \cup {Setter, Watcher}) = {}
    /\ Closers \cap {Setter, Watcher} = {}
    /\ Setter # Watcher

ASSUME NoneIsNothing ==
    /\ None \notin Threads
    /\ None \notin Ids
    /\ None \notin [conn : Conns, kind : Kinds]
    /\ None \notin [id : Ids, kind : Kinds]

VARIABLES
    mode,       \* effective_mode
    alive,      \* ConnShared.alive
    conns,      \* state.conns: the registered connection of each peer
    sessions,   \* state.sessions
    claims,     \* state.stream_claims: the thread whose Arc<StreamClaim> it is
    rxTable,    \* inner.rx_table
    txStreams,  \* the streams the media engine holds a source for
    present,    \* default_device_presence
    fired,      \* device callbacks the platform still owes us
    epoch,      \* dev_in_epoch, dev_out_epoch
    seen,       \* device_watch_loop's announced_epoch
    gone,       \* the endpoints the watcher's presence query found missing
    pc,         \* where each thread is
    job,        \* its locals: the connection it acts on, the stream id and kind
                \* it is opening, the endpoint epoch it sampled
    todo,       \* the snapshot of ids it is tearing down
    cut         \* an entry it has taken out and not yet unplugged

reg  == <<alive, conns>>
dev  == <<present, fired, epoch, seen, gone>>
tab  == <<sessions, claims, rxTable, txStreams>>
tear == <<todo, cut>>
vars == <<mode, reg, tab, dev, pc, job, tear>>

-----------------------------------------------------------------------------
(* What the code asks of a stream kind and of the table.                   *)

\* A peer's speaker stream and our own microphone streams are received here.
Receives(k) == (k.origin = "Peer") <=> (k.shape = "spk")

\* required_local_endpoint_for_remote_open: the device a peer's stream needs.
Endpoint(k) ==
    IF k.origin # "Peer" \/ k.shape = "alt" THEN "none"
    ELSE IF k.shape = "spk" THEN "out" ELSE "in"

\* mode_permits_origin; refuse_being_used and refuse_using_others are its
\* mirror at the gates.
Permits(m, origin) ==
    \/ origin = "Peer" /\ m = "share"
    \/ origin = "User" /\ m = "A"
    \/ origin = "Hal"  /\ m = "B"

NoJob == [conn |-> None, id |-> None, kind |-> None, epoch |-> 0]

\* The connection a thread acts on: a reader's own, or the one it looked up.
On(t) == IF t \in Conns THEN t ELSE job[t].conn

Live    == {i \in Ids : sessions[i] # None}
Claimed == {i \in Ids : claims[i] # None}
LiveOn(c)    == {i \in Live : sessions[i].conn = c}
ClaimedOn(c) == {i \in Claimed : On(claims[i]) = c}

Current(c) == alive[c] /\ conns[PeerOf[c]] = c

\* Mutants: the caps without the pending openers; no look into rx_table; no
\* look at the claims of others.
ClaimableCountsLive(c, i) ==
    /\ Current(c) /\ sessions[i] = None /\ claims[i] = None /\ i \notin rxTable
    /\ Cardinality(Live) < MaxTotal /\ Cardinality(LiveOn(c)) < MaxPerConn

ClaimableSkipsRx(c, i) ==
    /\ Current(c) /\ sessions[i] = None /\ claims[i] = None
    /\ Cardinality(Live) + Cardinality(Claimed) < MaxTotal
    /\ Cardinality(LiveOn(c)) + Cardinality(ClaimedOn(c)) < MaxPerConn

ClaimableSkipsClaims(c, i) ==
    /\ Current(c) /\ sessions[i] = None /\ i \notin rxTable
    /\ Cardinality(Live) + Cardinality(Claimed) < MaxTotal
    /\ Cardinality(LiveOn(c)) + Cardinality(ClaimedOn(c)) < MaxPerConn

\* claim_stream_id and reserve_pending_stream, under the state lock.
Claimable(c, i) ==
    /\ Current(c)
    /\ sessions[i] = None
    /\ claims[i] = None
    /\ i \notin rxTable
    /\ Cardinality(Live) + Cardinality(Claimed) < MaxTotal
    /\ Cardinality(LiveOn(c)) + Cardinality(ClaimedOn(c)) < MaxPerConn

\* Mutants: a commit that does not ask whether the connection is still there,
\* and one that does not ask whether the endpoint is.
PublishableOnDead(t) ==
    LET j == job[t] IN
    /\ claims[j.id] = t /\ sessions[j.id] = None
    /\ Endpoint(j.kind) # "none" => epoch[Endpoint(j.kind)] = j.epoch

PublishableAnyEpoch(t) ==
    /\ claims[job[t].id] = t /\ Current(On(t)) /\ sessions[job[t].id] = None

\* StreamReservation::publish, and the endpoint check made under its lock.
Publishable(t) ==
    LET j == job[t] IN
    /\ claims[j.id] = t
    /\ Current(On(t))
    /\ sessions[j.id] = None
    /\ Endpoint(j.kind) # "none" => epoch[Endpoint(j.kind)] = j.epoch

Home(t) == IF t \in Conns THEN "reading" ELSE "idle"

Goto(t, l) == pc' = [pc EXCEPT ![t] = l]

\* The call is over and its locals are gone.
Return(t) ==
    /\ Goto(t, Home(t))
    /\ job' = [job EXCEPT ![t] = NoJob]

-----------------------------------------------------------------------------
(* Opening a stream: the reader for the peer, an opener for this machine.  *)

\* conn_reader takes a message only while its connection is alive;
\* handle_remote_open, first statement: our own mode decides.
RemoteGate(c, k) ==
    /\ pc[c] = "reading" /\ alive[c]
    /\ k.origin = "Peer" /\ Permits(mode, "Peer")
    /\ job' = [job EXCEPT ![c] = [NoJob EXCEPT !.kind = k]]
    /\ Goto(c, "gated")
    /\ UNCHANGED <<mode, reg, tab, dev, tear>>

\* The epoch bracket around default_device_presence; absent means reject.
RemoteSample(c) ==
    LET e == Endpoint(job[c].kind) IN
    /\ pc[c] = "gated"
    /\ IF e = "none" \/ present[e]
         THEN /\ job' = [job EXCEPT ![c] = [@ EXCEPT !.epoch = IF e = "none" THEN 0 ELSE epoch[e]]]
              /\ Goto(c, "picked")
         ELSE Return(c)
    /\ UNCHANGED <<mode, reg, tab, dev, tear>>

\* SESSION_OPEN, plan_replay and coordinate_sessions test the mode before
\* open_session_from runs.
LocalGate(o, k) ==
    /\ pc[o] = "idle"
    /\ k.origin # "Peer" /\ Permits(mode, k.origin)
    /\ job' = [job EXCEPT ![o] = [NoJob EXCEPT !.kind = k]]
    /\ Goto(o, "gated")
    /\ UNCHANGED <<mode, reg, tab, dev, tear>>

\* connect_peer found or made a connection; it may fail or time out too.
LocalPick(o) ==
    /\ pc[o] = "gated"
    /\ \/ \E p \in Peers :
            /\ conns[p] # None
            /\ job' = [job EXCEPT ![o] = [@ EXCEPT !.conn = conns[p]]]
            /\ Goto(o, "picked")
       \/ Return(o)
    /\ UNCHANGED <<mode, reg, tab, dev, tear>>

\* claim_stream_id.
Claim(t, i) ==
    /\ pc[t] = "picked"
    /\ Claimable(On(t), i)
    /\ claims' = [claims EXCEPT ![i] = t]
    /\ job' = [job EXCEPT ![t] = [@ EXCEPT !.id = i]]
    /\ Goto(t, "claimed")
    /\ UNCHANGED <<mode, reg, sessions, rxTable, txStreams, dev, tear>>

\* ... or its refusal: nothing is left behind.
ClaimRefused(t) ==
    /\ pc[t] = "picked"
    /\ \E i \in Ids : ~Claimable(On(t), i)
    /\ Return(t)
    /\ UNCHANGED <<mode, reg, tab, dev, tear>>

\* rx_table.insert for a stream we receive, start_tx_stream for one we send.
Build(t) ==
    /\ pc[t] = "claimed"
    /\ IF Receives(job[t].kind)
         THEN rxTable' = rxTable \cup {job[t].id} /\ UNCHANGED txStreams
         ELSE txStreams' = txStreams \cup {job[t].id} /\ UNCHANGED rxTable
    /\ Goto(t, "built")
    /\ UNCHANGED <<mode, reg, sessions, claims, dev, job, tear>>

\* start_tx_stream failed or timed out: its Remove leaves no source behind.
BuildFails(t) ==
    /\ pc[t] = "claimed"
    /\ ~Receives(job[t].kind)
    /\ Goto(t, "release")
    /\ UNCHANGED <<mode, reg, tab, dev, job, tear>>

\* The commit, under the state lock.
Publish(t) ==
    LET j == job[t] IN
    /\ pc[t] = "built"
    /\ Publishable(t)
    /\ sessions' = [sessions EXCEPT ![j.id] = [conn |-> On(t), kind |-> j.kind]]
    /\ claims' = [claims EXCEPT ![j.id] = None]
    /\ Return(t)
    /\ UNCHANGED <<mode, reg, rxTable, txStreams, dev, tear>>

\* Mutants: the reservation is dropped before the unwind; there is no unwind;
\* the reservation is forgotten.
AbandonReleasesFirst(t) ==
    /\ pc[t] = "built" /\ (t \in Openers \/ ~Publishable(t))
    /\ claims' = [claims EXCEPT ![job[t].id] = None]
    /\ Goto(t, "unwind")
    /\ UNCHANGED <<mode, reg, sessions, rxTable, txStreams, dev, job, tear>>

AbandonSkipsUnwind(t) ==
    /\ pc[t] = "built" /\ (t \in Openers \/ ~Publishable(t))
    /\ Goto(t, "release")
    /\ UNCHANGED <<mode, reg, tab, dev, job, tear>>

AbandonForgets(t) ==
    /\ pc[t] = "built" /\ (t \in Openers \/ ~Publishable(t))
    /\ Return(t)
    /\ UNCHANGED <<mode, reg, tab, dev, tear>>

\* The commit is refused, or the peer rejected the stream or never answered.
Abandon(t) ==
    /\ pc[t] = "built"
    /\ t \in Openers \/ ~Publishable(t)
    /\ Goto(t, "unwind")
    /\ UNCHANGED <<mode, reg, tab, dev, job, tear>>

\* `unwind`: take down what Build put up.
Unwind(t) ==
    /\ pc[t] = "unwind"
    /\ IF Receives(job[t].kind)
         THEN rxTable' = rxTable \ {job[t].id} /\ UNCHANGED txStreams
         ELSE txStreams' = txStreams \ {job[t].id} /\ UNCHANGED rxTable
    /\ Goto(t, "release")
    /\ UNCHANGED <<mode, reg, sessions, claims, dev, job, tear>>

\* StreamReservation::drop removes the claim only while it is still its own.
Release(t) ==
    /\ pc[t] = "release"
    /\ claims' = [claims EXCEPT ![job[t].id] = IF @ = t THEN None ELSE @]
    /\ Return(t)
    /\ UNCHANGED <<mode, reg, sessions, rxTable, txStreams, dev, tear>>

-----------------------------------------------------------------------------
(* The life of a connection.                                               *)

\* External: one more connection is accepted or dialled. The object of one that
\* is over and that nobody refers to any more stands for it.
Connect(c) ==
    /\ pc[c] = "done"
    /\ \A t \in Threads : job[t].conn # c
    /\ \A p \in Peers : conns[p] # c
    /\ alive' = [alive EXCEPT ![c] = TRUE]
    /\ Goto(c, "born")
    /\ UNCHANGED <<mode, conns, tab, dev, job, tear>>

\* register_conn: the age and fingerprint tie-break may drop the newcomer.
Register(c) ==
    LET old == conns[PeerOf[c]] IN
    /\ pc[c] = "born"
    /\ \/ /\ old # None /\ alive[old]
          /\ alive' = [alive EXCEPT ![c] = FALSE]
          /\ Goto(c, "done")
          /\ UNCHANGED <<conns, job>>
       \/ /\ conns' = [conns EXCEPT ![PeerOf[c]] = c]
          /\ job' = [job EXCEPT ![c] = [NoJob EXCEPT !.conn = old]]
          /\ Goto(c, IF old = None THEN "reading" ELSE "retiring")
          /\ UNCHANGED alive
    /\ UNCHANGED <<mode, tab, dev, tear>>

\* ... and marks the connection it replaced dead, after the lock is gone.
Retire(c) ==
    /\ pc[c] = "retiring"
    /\ alive' = [alive EXCEPT ![job[c].conn] = FALSE]
    /\ Return(c)
    /\ UNCHANGED <<mode, conns, tab, dev, tear>>

\* conn_reader leaves its loop: EOF, Bye, a protocol error, or ~alive.
ReaderExits(c) ==
    /\ pc[c] = "reading"
    /\ Goto(c, "dying")
    /\ UNCHANGED <<mode, reg, tab, dev, job, tear>>

\* ping_and_reap or drop_conn picks a registered connection.
Reap(r, p) ==
    /\ pc[r] = "idle"
    /\ conns[p] # None
    /\ job' = [job EXCEPT ![r] = [NoJob EXCEPT !.conn = conns[p]]]
    /\ Goto(r, "dying")
    /\ UNCHANGED <<mode, reg, tab, dev, tear>>

\* teardown_conn, first statement.
MarkDead(t) ==
    /\ pc[t] = "dying"
    /\ alive' = [alive EXCEPT ![On(t)] = FALSE]
    /\ Goto(t, "snapping")
    /\ UNCHANGED <<mode, conns, tab, dev, job, tear>>

\* Mutant: a snapshot of what the peer opened only.
SnapConnPeerOnly(t) ==
    /\ pc[t] = "snapping"
    /\ todo' = [todo EXCEPT ![t] = {i \in LiveOn(On(t)) : sessions[i].kind.origin = "Peer"}]
    /\ Goto(t, "purging")
    /\ UNCHANGED <<mode, reg, tab, dev, job, cut>>

\* ... its snapshot of the sessions this connection owns ...
SnapConn(t) ==
    /\ pc[t] = "snapping"
    /\ todo' = [todo EXCEPT ![t] = LiveOn(On(t))]
    /\ Goto(t, "purging")
    /\ UNCHANGED <<mode, reg, tab, dev, job, cut>>

\* Mutant: the registration of the peer goes, whoever it is by now.
UnregisterAny(t) ==
    /\ pc[t] = "purging" /\ todo[t] = {} /\ cut[t] = None
    /\ conns' = [conns EXCEPT ![PeerOf[On(t)]] = None]
    /\ job' = [job EXCEPT ![t] = NoJob]
    /\ Goto(t, IF t \in Conns THEN "done" ELSE "idle")
    /\ UNCHANGED <<mode, alive, tab, dev, tear>>

\* ... and, once they are gone, the registration if it is still its own.
Unregister(t) ==
    LET p == PeerOf[On(t)] IN
    /\ pc[t] = "purging"
    /\ todo[t] = {} /\ cut[t] = None
    /\ conns' = [conns EXCEPT ![p] = IF @ = On(t) THEN None ELSE @]
    /\ job' = [job EXCEPT ![t] = NoJob]
    /\ Goto(t, IF t \in Conns THEN "done" ELSE "idle")
    /\ UNCHANGED <<mode, alive, tab, dev, tear>>

-----------------------------------------------------------------------------
(* teardown_stream, for each id of a snapshot.                             *)

Take(t, i) ==
    /\ pc[t] \in {"closing", "purging"}
    /\ cut[t] = None
    /\ i \in todo[t]
    /\ todo' = [todo EXCEPT ![t] = @ \ {i}]
    /\ cut' = [cut EXCEPT ![t] =
                 IF sessions[i] = None THEN None ELSE [id |-> i, kind |-> sessions[i].kind]]
    /\ sessions' = [sessions EXCEPT ![i] = None]
    /\ UNCHANGED <<mode, reg, claims, rxTable, txStreams, dev, pc, job>>

Unplug(t) ==
    /\ cut[t] # None
    /\ IF Receives(cut[t].kind)
         THEN rxTable' = rxTable \ {cut[t].id} /\ UNCHANGED txStreams
         ELSE txStreams' = txStreams \ {cut[t].id} /\ UNCHANGED rxTable
    /\ cut' = [cut EXCEPT ![t] = None]
    /\ UNCHANGED <<mode, reg, sessions, claims, dev, pc, job, todo>>

Swept(t) ==
    /\ pc[t] = "closing"
    /\ todo[t] = {} /\ cut[t] = None
    /\ Return(t)
    /\ UNCHANGED <<mode, reg, tab, dev, tear>>

\* CloseStream from the peer, for a stream this connection owns.
RemoteClose(c, i) ==
    /\ pc[c] = "reading" /\ alive[c]
    /\ i \in LiveOn(c)
    /\ todo' = [todo EXCEPT ![c] = {i}]
    /\ Goto(c, "closing")
    /\ UNCHANGED <<mode, reg, tab, dev, job, cut>>

\* close_session.
LocalClose(u, i) ==
    /\ pc[u] = "idle"
    /\ i \in Live
    /\ todo' = [todo EXCEPT ![u] = {i}]
    /\ Goto(u, "closing")
    /\ UNCHANGED <<mode, reg, tab, dev, job, cut>>

\* settings.set swaps the mode ...
SetMode(m) ==
    /\ pc[Setter] = "idle"
    /\ m \in Switchable \ {mode}
    /\ mode' = m
    /\ Goto(Setter, "switched")
    /\ UNCHANGED <<reg, tab, dev, job, tear>>

\* ... and announce_mode snapshots what the new mode no longer permits.
SnapMode ==
    /\ pc[Setter] = "switched"
    /\ todo' = [todo EXCEPT ![Setter] =
                  {i \in Live : ~Permits(mode, sessions[i].kind.origin)}]
    /\ Goto(Setter, "closing")
    /\ UNCHANGED <<mode, reg, tab, dev, job, cut>>

-----------------------------------------------------------------------------
(* The real endpoints and the watcher.                                     *)

\* External: a device appears or disappears, and a callback is due.
DeviceChange(e) ==
    /\ e \in Flaky
    /\ epoch[e] + fired[e] < MaxEpoch
    /\ present' = [present EXCEPT ![e] = ~@]
    /\ fired' = [fired EXCEPT ![e] = @ + 1]
    /\ UNCHANGED <<mode, reg, tab, epoch, seen, gone, pc, job, tear>>

\* The platform callback bumps an epoch and does nothing else.
DeviceCallback(e) ==
    /\ fired[e] > 0
    /\ fired' = [fired EXCEPT ![e] = @ - 1]
    /\ epoch' = [epoch EXCEPT ![e] = @ + 1]
    /\ UNCHANGED <<mode, reg, tab, present, seen, gone, pc, job, tear>>

\* device_watch_loop notices; announce_audio_capabilities queries presence,
WatchEpoch ==
    /\ pc[Watcher] = "idle"
    /\ seen # epoch
    /\ seen' = epoch
    /\ Goto(Watcher, "noticed")
    /\ UNCHANGED <<mode, reg, tab, present, fired, epoch, gone, job, tear>>

WatchPresence ==
    /\ pc[Watcher] = "noticed"
    /\ gone' = {e \in Endpoints : ~present[e]}
    /\ Goto(Watcher, "queried")
    /\ UNCHANGED <<mode, reg, tab, present, fired, epoch, seen, job, tear>>

\* and close_peer_sessions_missing_local_endpoints takes its snapshot.
SnapMissing ==
    /\ pc[Watcher] = "queried"
    /\ todo' = [todo EXCEPT ![Watcher] =
                  {i \in Live : Endpoint(sessions[i].kind) \in gone}]
    /\ gone' = {}
    /\ Goto(Watcher, "closing")
    /\ UNCHANGED <<mode, reg, tab, present, fired, epoch, seen, job, cut>>

-----------------------------------------------------------------------------
Init ==
    /\ mode \in Modes
    /\ alive = [c \in Conns |-> TRUE]
    /\ conns = [p \in Peers |-> None]
    /\ sessions = [i \in Ids |-> None]
    /\ claims = [i \in Ids |-> None]
    /\ rxTable = {} /\ txStreams = {}
    /\ present = [e \in Endpoints |-> TRUE]
    /\ fired = [e \in Endpoints |-> 0]
    /\ epoch = [e \in Endpoints |-> 0]
    /\ seen = epoch
    /\ gone = {}
    /\ pc = [t \in Threads |-> IF t \in Conns THEN "born" ELSE "idle"]
    /\ job = [t \in Threads |-> NoJob]
    /\ todo = [t \in Threads |-> {}]
    /\ cut = [t \in Threads |-> None]

\* What somebody outside decides: a request, a fault, a device.
Request ==
    \/ \E c \in Conns : \/ \E k \in Offered : RemoteGate(c, k)
                        \/ \E i \in Ids : RemoteClose(c, i)
                        \/ Connect(c) \/ Register(c)
    \/ \E o \in Openers, k \in Offered : LocalGate(o, k)
    \/ \E r \in Reapers, p \in Peers : Reap(r, p)
    \/ \E u \in Closers, i \in Ids : LocalClose(u, i)
    \/ \E m \in Switchable : SetMode(m)
    \/ \E e \in Endpoints : DeviceChange(e)

OpenStep(t) ==
    \/ t \in Conns /\ RemoteSample(t)
    \/ t \in Openers /\ LocalPick(t)
    \/ \E i \in Ids : Claim(t, i)
    \/ ClaimRefused(t) \/ Build(t) \/ BuildFails(t)
    \/ Publish(t) \/ Abandon(t) \/ Unwind(t) \/ Release(t)

TearStep(t) ==
    \/ MarkDead(t) \/ SnapConn(t) \/ Unregister(t)
    \/ \E i \in Ids : Take(t, i)
    \/ Unplug(t) \/ Swept(t)

Next ==
    \/ Request
    \/ \E t \in Workers : OpenStep(t)
    \/ \E c \in Conns : Retire(c) \/ ReaderExits(c)
    \/ \E t \in Threads : TearStep(t)
    \/ SnapMode
    \/ \E e \in Endpoints : DeviceCallback(e)
    \/ WatchEpoch \/ WatchPresence \/ SnapMissing

\* Every wait in these paths has a timeout (SOURCE_ACK_TIMEOUT, OPEN_TIMEOUT,
\* the bounded control write), so a thread that has started a call ends it. A
\* reader leaves its loop once it sees its connection dead.
Fairness ==
    /\ \A t \in Workers : WF_vars(OpenStep(t))
    /\ \A t \in Threads : WF_vars(TearStep(t))
    /\ \A c \in Conns : WF_vars(Retire(c)) /\ WF_vars(~alive[c] /\ ReaderExits(c))
    /\ WF_vars(SnapMode)
    /\ \A e \in Endpoints : WF_vars(DeviceCallback(e))
    /\ WF_vars(WatchEpoch) /\ WF_vars(WatchPresence) /\ WF_vars(SnapMissing)

Spec == Init /\ [][Next]_vars /\ Fairness

-----------------------------------------------------------------------------
(* Correctness.                                                            *)

TypeOK ==
    /\ mode \in Modes
    /\ alive \in [Conns -> BOOLEAN]
    /\ conns \in [Peers -> Conns \cup {None}]
    /\ sessions \in [Ids -> [conn : Conns, kind : Kinds] \cup {None}]
    /\ claims \in [Ids -> Workers \cup {None}]
    /\ rxTable \subseteq Ids /\ txStreams \subseteq Ids
    /\ present \in [Endpoints -> BOOLEAN]
    /\ fired \in [Endpoints -> Nat]
    /\ epoch \in [Endpoints -> Nat]
    /\ seen \in [Endpoints -> Nat]
    /\ gone \subseteq Endpoints
    /\ pc \in [Threads -> {"born", "retiring", "reading", "idle", "gated", "picked",
                           "claimed", "built", "unwind", "release", "dying", "snapping",
                           "purging", "done", "closing", "switched", "noticed", "queried"}]
    /\ job \in [Threads -> [conn : Conns \cup {None}, id : Ids \cup {None},
                           kind : Kinds \cup {None}, epoch : Nat]]
    /\ todo \in [Threads -> SUBSET Ids]
    /\ cut \in [Threads -> [id : Ids, kind : Kinds] \cup {None}]

Holding == {"claimed", "built", "unwind", "release"}

\* A claim never outlives the opener that made it, and nobody takes it away
\* meanwhile: "stream reservation is no longer owned by this opener" is
\* unreachable, and a failed opener cannot release a successor's claim
\* (StreamReservation::drop compares the Arc).
ClaimsAreHeld ==
    /\ \A i \in Ids : claims[i] # None => pc[claims[i]] \in Holding /\ job[claims[i]].id = i
    /\ \A t \in Workers : pc[t] \in Holding => job[t].id \in Ids /\ claims[job[t].id] = t

\* The caps hold over the table and the pending openers together, however the
\* openers interleave: the 10 ms loops never serve more streams than that.
StreamCaps ==
    /\ Cardinality(Live) + Cardinality(Claimed) <= MaxTotal
    /\ \A c \in Conns : Cardinality(LiveOn(c)) + Cardinality(ClaimedOn(c)) <= MaxPerConn

\* Media of a committed receive stream always finds its receiver. An id whose
\* teardown is between its two locks is not given away (claim_stream_id looks
\* in rx_table too), so the tail of a teardown never cuts a successor off.
CommittedIsRoutable ==
    \A i \in Live : Receives(sessions[i].kind) => i \in rxTable

\* Somebody will take the receiver (rx) or the source (~rx) of stream i down: a
\* committed session, an opener still at work, a teardown between its two steps.
Accounted(i, rx) ==
    \/ sessions[i] # None /\ Receives(sessions[i].kind) = rx
    \/ \E t \in Workers : /\ pc[t] \in {"built", "unwind"}
                          /\ job[t].id = i /\ Receives(job[t].kind) = rx
    \/ \E t \in Threads : /\ cut[t] # None
                          /\ cut[t].id = i /\ Receives(cut[t].kind) = rx

\* Nothing receives or captures on its own: no failed open and no teardown
\* leaves an rx_table entry or a running microphone behind.
NoMediaLeak ==
    /\ \A i \in rxTable : Accounted(i, TRUE)
    /\ \A i \in txStreams : Accounted(i, FALSE)

\* Once the reader of a connection has ended, no session is left on it: "an
\* entry inserted after that teardown is never torn down again". While it is being
\* torn down, what is left on it is in the snapshot of its teardown.
NoOrphanSession ==
    \A c \in Conns :
        /\ pc[c] = "done" => LiveOn(c) = {}
        /\ pc[c] = "purging" => LiveOn(c) \subseteq todo[c]

\* A connection is taken out of the registry only when it is dead, so the
\* teardown of a replaced connection never evicts its successor.
OnlyDeadUnregistered ==
    [][\A p \in Peers : conns[p] # None /\ conns'[p] # conns[p] =>
          \/ ~alive'[conns[p]]
          \/ \E c \in Conns : pc'[c] = "retiring" /\ job'[c].conn = conns[p]]_vars

\* When the watcher has caught up with every callback, no peer is being served
\* from an endpoint this machine no longer has, however long the open took.
MissingEndpointServesNobody ==
    pc[Watcher] = "idle" /\ seen = epoch =>
        \A e \in Endpoints : fired[e] = 0 /\ ~present[e] =>
            \A i \in Live : Endpoint(sessions[i].kind) # e

\* Documented (announce_mode, mode.rs): after a mode change has been announced
\* the machine holds no session its mode does not permit; provider and consumer
\* at once is "the state section 13 exists to make unreachable".  The code does not
\* keep it (README, section 5).
ModeExclusion ==
    pc[Setter] = "idle" => \A i \in Live : Permits(mode, sessions[i].kind.origin)

\* Every claim is released in the end: a slow source, a silent peer or a lost
\* connection cannot use up the stream limit for good.
ClaimsAreReleased ==
    \A i \in Ids : claims[i] # None ~> claims[i] = None

\* Whatever was on a connection that died leaves the table in the end, and so
\* does the connection.
DeadConnsVanish ==
    \A c \in Conns : ~alive[c] ~> \A p \in Peers : conns[p] # c /\ LiveOn(c) = {}

-----------------------------------------------------------------------------
(* The abstract table this one implements.                                 *)

PhaseOf(i) ==
    IF sessions[i] # None THEN "live" ELSE IF claims[i] # None THEN "claimed" ELSE "free"

OwnerOf(i) ==
    IF sessions[i] # None THEN sessions[i].conn
    ELSE IF claims[i] # None THEN On(claims[i]) ELSE None

Pool == INSTANCE StreamPool WITH
            up    <- alive,
            phase <- [i \in Ids |-> PhaseOf(i)],
            owner <- [i \in Ids |-> OwnerOf(i)]

\* All of these threads together behave like StreamPool.
ImplementsPool == Pool!Spec

\* A connection is registered between register_conn and the end of its reader.
Standing(c) ==
    IF pc[c] \in {"born", "done"} THEN "off"
    ELSE IF ~alive[c] THEN "dead"
    ELSE IF conns[PeerOf[c]] = c THEN "live" ELSE "ousted"

Registry == INSTANCE PeerRegistry WITH
                phase <- [c \in Conns |-> Standing(c)],
                reg   <- conns

\* Readers and reapers, however many tear one connection down, keep the promise of
\* the registry: a connection leaves it only when a newer one takes its place or it
\* is dead, and the teardown of a replaced connection never evicts its successor.
ImplementsRegistry == Registry!Spec
=============================================================================
