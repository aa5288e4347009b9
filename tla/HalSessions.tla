---------------------------- MODULE HalSessions ----------------------------
(***************************************************************************)
(* The audio sessions behind the virtual devices (haldev.rs): when an      *)
(* application starts a peer's device the coordinator asks for a session,  *)
(* when it stops, or the device goes, for its end.  The blocking half runs *)
(* on one worker thread that takes the commands in order.  What the driver *)
(* says about a slot, the peers' connections and the mode are the          *)
(* environment here; HalSlot is the module about the slots themselves.     *)
(***************************************************************************)
EXTENDS Naturals, Sequences, FiniteSets, SequencesExt

CONSTANTS
    Slots,      \* one direction of a peer's device each
    Peers,
    Ids,        \* stream ids; their number stands for the caps on streams
    None,       \* no peer, no session
    Upsets,     \* budget of driver events, user actions and lost connections
    MaxQueue    \* commands the worker may have before it

ASSUME SessionsAssumption ==
    /\ None \notin Peers \cup Ids
    /\ IsFiniteSet(Slots)
    /\ Upsets \in Nat /\ MaxQueue \in Nat

VARIABLES
    modeB,      \* the mode in force is B
    announcing, \* mode B was left and announce_mode has not closed its sessions yet
    conn,       \* peer -> "none", "half" (no audio contract yet) or "ready"
    live,       \* inner.sessions: the sessions of the devices
    rec,        \* slot -> the slot record's tenant, IO and session
    opening,    \* slot -> opening_out / opening_in
    cooling,    \* slot -> OPEN_COOLDOWN runs
    pass,       \* the coordinator's snapshot, or Idle
    queue,      \* commands for the worker
    worker,     \* what the worker is at, or Idle
    forget,     \* forget_peer's victim and the session it took, or Idle
    left        \* what is left of Upsets

envVars == <<modeB, announcing, conn>>
haldev  == <<rec, opening, cooling>>
vars == <<envVars, live, haldev, pass, queue, worker, forget, left>>

Idle == [at |-> "idle"]
NoRec == [fp |-> None, bound |-> FALSE, io |-> FALSE, linger |-> FALSE, sess |-> None]

Init ==
    /\ modeB = TRUE /\ announcing = FALSE
    /\ conn = [p \in Peers |-> "none"] /\ live = {}
    /\ rec = [s \in Slots |-> NoRec]
    /\ opening = [s \in Slots |-> FALSE] /\ cooling = [s \in Slots |-> FALSE]
    /\ pass = Idle /\ queue = <<>> /\ worker = Idle /\ forget = Idle
    /\ left = Upsets

LiveIds == {x.id : x \in live}
Mentioned ==
    LiveIds \cup {rec[s].sess : s \in Slots}
            \cup {c.id : c \in {d \in Range(queue) : d.op = "Close"}}
            \cup (IF pass.at = "snap" THEN pass.live ELSE {})
            \cup (IF worker.at \in {"close", "opened"} THEN {worker.id} ELSE {})
            \cup (IF forget.at = "closing" THEN {forget.id} ELSE {})

-----------------------------------------------------------------------------
(* The coordinator: coordinate_sessions.                                   *)

\* The sessions and the connections are read before the slot records are locked.
Snapshot ==
    /\ pass.at = "idle" /\ Len(queue) + Cardinality(Slots) <= MaxQueue
    /\ pass' = [at |-> "snap", live |-> LiveIds, conn |-> conn, modeB |-> modeB]
    /\ UNCHANGED <<envVars, live, haldev, queue, worker, forget, left>>

\* A device in use, or within its linger, wants a session while it is published.
Wants(r) == r.fp # None /\ r.bound /\ (r.io \/ r.linger)

\* Mutant: an id stays in the record when its session is gone.
RememberedDead(r) == r

\* A session that went away, with its connection or alone, is not ours to remember.
Remembered(r) == IF r.sess \in pass.live THEN r ELSE [r EXCEPT !.sess = None]

\* Mutant: whether the worker has an open under way is not looked at.
MayOpenAgain(s, r) ==
    /\ Wants(r) /\ r.sess = None
    /\ pass.modeB /\ pass.conn[r.fp] # "half" /\ ~cooling[s]

\* In mode B, unless the connection is still without its contract.
MayOpen(s, r) ==
    /\ Wants(r) /\ r.sess = None /\ ~opening[s]
    /\ pass.modeB /\ pass.conn[r.fp] # "half" /\ ~cooling[s]

Decide ==
    /\ pass.at = "snap"
    /\ LET r == [s \in Slots |-> Remembered(rec[s])]
           opens  == {s \in Slots : MayOpen(s, r[s])}
           closes == {s \in Slots : r[s].fp # None /\ ~Wants(r[s]) /\ r[s].sess # None}
           cmd(s) == IF s \in opens
                     THEN [op |-> "Open", slot |-> s, peer |-> r[s].fp]
                     ELSE [op |-> "Close", slot |-> s, id |-> r[s].sess]
           order  == SetToSeq(opens \cup closes)
       IN /\ rec' = r
          /\ opening' = [s \in Slots |-> opening[s] \/ s \in opens]
          /\ cooling' = [s \in Slots |-> cooling[s] \/ s \in opens]
          /\ queue' = queue \o [i \in DOMAIN order |-> cmd(order[i])]
    /\ pass' = Idle
    /\ UNCHANGED <<envVars, live, worker, forget, left>>

-----------------------------------------------------------------------------
(* The worker: session_worker and the open_session it runs.                *)

\* Mutant: the newest command goes first.
TurnNewest == Len(queue)

\* The channel gives the commands in the order they were sent.
Turn == 1

\* A Close forgets the session first, under the lock, and closes it after.
Take ==
    /\ worker.at = "idle" /\ queue # <<>>
    /\ LET c == queue[Turn] IN
       IF c.op = "Open"
       THEN /\ worker' = [at |-> "dial", slot |-> c.slot, peer |-> c.peer]
            /\ UNCHANGED rec
       ELSE /\ worker' = [at |-> "close", id |-> c.id]
            /\ rec' = [rec EXCEPT ![c.slot].sess = None]
    /\ queue' = RemoveAt(queue, Turn)
    /\ UNCHANGED <<envVars, live, opening, cooling, pass, forget, left>>

Closed(id) == {x \in live : x.id # id}

WorkerClose ==
    /\ worker.at = "close"
    /\ live' = Closed(worker.id)
    /\ worker' = Idle
    /\ UNCHANGED <<envVars, haldev, pass, queue, forget, left>>

\* connect_peer: a connection there is, or a new one without its contract.
Dial ==
    /\ worker.at = "dial"
    /\ conn' = [conn EXCEPT ![worker.peer] = IF @ = "none" THEN "half" ELSE @]
    /\ worker' = [worker EXCEPT !.at = "open"]
    /\ UNCHANGED <<modeB, announcing, live, haldev, pass, queue, forget, left>>

\* alloc_stream_id; a random id that anybody still speaks of does not come up.
Fresh == Ids \ Mentioned

\* The peer accepts, and the entry goes into the table if the connection it was
\* opened on is still the registered one.
Open ==
    /\ worker.at = "open" /\ conn[worker.peer] = "ready"
    /\ Fresh # {}
    /\ LET id == CHOOSE i \in Fresh : TRUE IN
       /\ live' = live \cup {[id |-> id, slot |-> worker.slot, peer |-> worker.peer]}
       /\ worker' = [at |-> "opened", slot |-> worker.slot, peer |-> worker.peer, id |-> id]
    /\ UNCHANGED <<envVars, haldev, pass, queue, forget, left>>

\* No route, a refusal, a cap, a timeout.
OpenFails ==
    /\ worker.at \in {"dial", "open"}
    /\ worker' = [at |-> "failed", slot |-> worker.slot, peer |-> worker.peer]
    /\ UNCHANGED <<envVars, live, haldev, pass, queue, forget, left>>

\* Mutant: the slot is still the one the session was opened for.
NeverStale(s, p) == FALSE

Stale(s, p) == rec[s].fp # p

\* The slot may have been retired or bound to another while the open ran.
Record ==
    /\ worker.at \in {"opened", "failed"}
    /\ opening' = [opening EXCEPT ![worker.slot] = FALSE]
    /\ IF worker.at = "opened" /\ ~Stale(worker.slot, worker.peer)
       THEN rec' = [rec EXCEPT ![worker.slot].sess = worker.id]
       ELSE UNCHANGED rec
    /\ worker' = IF worker.at = "opened" /\ Stale(worker.slot, worker.peer)
                 THEN [at |-> "close", id |-> worker.id]
                 ELSE Idle
    /\ UNCHANGED <<envVars, live, cooling, pass, queue, forget, left>>

-----------------------------------------------------------------------------
(* What the driver reports: applied by the coordinator before it looks at  *)
(* the sessions, so never between Snapshot and Decide.                     *)

Upset == left > 0 /\ left' = left - 1

Reports(s, r) ==
    /\ pass.at = "idle"
    /\ rec' = [rec EXCEPT ![s] = r]
    /\ UNCHANGED <<envVars, live, opening, cooling, pass, queue, worker, forget>>

\* reconcile puts the slot's new peer into its record; no peer has two slots.
Assigned(s, p) ==
    /\ Upset /\ \A u \in Slots : rec[u].fp # p
    /\ Reports(s, [NoRec EXCEPT !.fp = p])

\* BindState: published; delisted; free.
BoundReport(s) ==
    /\ rec[s].fp # None /\ ~rec[s].bound
    /\ Reports(s, [rec[s] EXCEPT !.bound = TRUE])
    /\ UNCHANGED left

DelistedReport(s) ==
    /\ Upset /\ rec[s].bound
    /\ Reports(s, [rec[s] EXCEPT !.bound = FALSE, !.io = FALSE, !.linger = FALSE])

FreeReport(s) == Upset /\ rec[s].fp # None /\ Reports(s, NoRec)

\* The driver's session is lost: a linger that runs goes on running.
DetachedReport(s) ==
    /\ Upset /\ rec[s].bound
    /\ Reports(s, [rec[s] EXCEPT !.bound = FALSE, !.io = FALSE])

\* IO starts, or stops; a stop is also what the driver says of an idle device when it
\* replays the state of a slot, and starts the linger again.
IoReport(s, running) ==
    /\ rec[s].fp # None /\ rec[s].bound /\ ~(running /\ rec[s].io)
    /\ Reports(s, [rec[s] EXCEPT !.io = running, !.linger = ~running])
    /\ IF rec[s].io THEN UNCHANGED left ELSE Upset

-----------------------------------------------------------------------------
(* Time, connections, the user.                                            *)

LingerOver(s) ==
    /\ rec[s].linger
    /\ rec' = [rec EXCEPT ![s].linger = FALSE]
    /\ UNCHANGED <<envVars, live, opening, cooling, pass, queue, worker, forget, left>>

CoolingOver(s) ==
    /\ cooling[s]
    /\ cooling' = [cooling EXCEPT ![s] = FALSE]
    /\ UNCHANGED <<envVars, live, rec, opening, pass, queue, worker, forget, left>>

\* The peer's mode and audio capabilities have arrived.
Contract(p) ==
    /\ conn[p] = "half"
    /\ conn' = [conn EXCEPT ![p] = "ready"]
    /\ UNCHANGED <<modeB, announcing, live, haldev, pass, queue, worker, forget, left>>

\* The peer dials us.
Inbound(p) ==
    /\ Upset /\ conn[p] = "none"
    /\ conn' = [conn EXCEPT ![p] = "half"]
    /\ UNCHANGED <<modeB, announcing, live, haldev, pass, queue, worker, forget>>

\* teardown_conn (the link, or a contract that never follows) takes the sessions
\* along; an open on that connection fails.
Torn(p) ==
    /\ conn' = [conn EXCEPT ![p] = "none"]
    /\ live' = {x \in live : x.peer # p}
    /\ worker' = IF worker.at = "open" /\ worker.peer = p
                 THEN [worker EXCEPT !.at = "failed"] ELSE worker

DropConn(p) ==
    /\ Upset /\ conn[p] # "none" /\ Torn(p)
    /\ UNCHANGED <<modeB, announcing, haldev, pass, queue, forget>>

\* A session ends while its connection lives: the peer closes the stream, the user
\* does, or its media is gone.
SessionEnds(id) ==
    /\ Upset /\ id \in LiveIds
    /\ live' = Closed(id)
    /\ UNCHANGED <<envVars, haldev, pass, queue, worker, forget>>

SetMode ==
    /\ Upset /\ ~announcing
    /\ modeB' = ~modeB
    /\ announcing' = modeB
    /\ UNCHANGED <<conn, live, haldev, pass, queue, worker, forget>>

\* announce_mode closes what the new mode does not permit.
Announce ==
    /\ announcing /\ announcing' = FALSE
    /\ live' = IF modeB THEN live ELSE {}
    /\ UNCHANGED <<modeB, conn, haldev, pass, queue, worker, forget, left>>

\* release_peer takes the session out of the record; the coordinator may have
\* dropped the assignment before it, then there is nothing to take.
Forget(p) ==
    /\ Upset /\ forget.at = "idle"
    /\ \/ /\ UNCHANGED rec
          /\ forget' = [at |-> "closing", peer |-> p, id |-> None]
       \/ \E s \in Slots :
          /\ rec[s].fp = p
          /\ rec' = [rec EXCEPT ![s].sess = None, ![s].io = FALSE]
          /\ forget' = [at |-> "closing", peer |-> p, id |-> rec[s].sess]
    /\ UNCHANGED <<envVars, live, opening, cooling, pass, queue, worker>>

ForgetCloses ==
    /\ forget.at = "closing"
    /\ live' = Closed(forget.id)
    /\ forget' = [at |-> "dropping", peer |-> forget.peer]
    /\ UNCHANGED <<envVars, haldev, pass, queue, worker, left>>

\* forget_peer drops the connection last.
ForgetDrops ==
    /\ forget.at = "dropping" /\ Torn(forget.peer)
    /\ forget' = Idle
    /\ UNCHANGED <<modeB, announcing, haldev, pass, queue, left>>

-----------------------------------------------------------------------------
Coordinator == Snapshot \/ Decide
Worker == Take \/ WorkerClose \/ Dial \/ Open \/ OpenFails \/ Record
Driver == \E s \in Slots :
    \/ \E p \in Peers : Assigned(s, p)
    \/ BoundReport(s) \/ DelistedReport(s) \/ FreeReport(s) \/ DetachedReport(s)
    \/ \E running \in BOOLEAN : IoReport(s, running)
Time == \E s \in Slots : LingerOver(s) \/ CoolingOver(s)
Links == (\E p \in Peers : Contract(p) \/ Inbound(p) \/ DropConn(p))
         \/ \E id \in Ids : SessionEnds(id)
User == SetMode \/ Announce \/ (\E p \in Peers : Forget(p)) \/ ForgetCloses \/ ForgetDrops

Next == Coordinator \/ Worker \/ Driver \/ Time \/ Links \/ User

Spec == Init /\ [][Next]_vars

\* Threads run, timers expire, a connection gets its contract; a peer that can
\* be dialled again and again answers and accepts in the end.
Fairness ==
    /\ WF_vars(Coordinator) /\ WF_vars(Worker) /\ WF_vars(Time)
    /\ \A p \in Peers : WF_vars(Contract(p))
    /\ WF_vars(Announce) /\ WF_vars(ForgetCloses \/ ForgetDrops)
    /\ SF_vars(Dial) /\ SF_vars(Open)
FairSpec == Spec /\ Fairness
-----------------------------------------------------------------------------
SessionOrNone == Ids \cup {None}
Commands == [op : {"Open"}, slot : Slots, peer : Peers]
            \cup [op : {"Close"}, slot : Slots, id : Ids]

\* Shapes, and that an id names one session.
TypeOK ==
    /\ modeB \in BOOLEAN /\ announcing \in BOOLEAN
    /\ conn \in [Peers -> {"none", "half", "ready"}]
    /\ live \subseteq [id : Ids, slot : Slots, peer : Peers]
    /\ \A x, y \in live : x.id = y.id => x = y
    /\ rec \in [Slots -> [fp : Peers \cup {None}, bound : BOOLEAN, io : BOOLEAN,
                          linger : BOOLEAN, sess : SessionOrNone]]
    /\ opening \in [Slots -> BOOLEAN] /\ cooling \in [Slots -> BOOLEAN]
    /\ queue \in Seq(Commands)
    /\ pass.at \in {"idle", "snap"} /\ forget.at \in {"idle", "closing", "dropping"}
    /\ worker.at \in {"idle", "close", "dial", "open", "opened", "failed"}

\* The session a slot records is that slot's and goes to the peer whose device it
\* is, whatever was unpaired, freed or bound while it was opened (session_worker's
\* stale check).
RecordedIsTenants == \A s \in Slots, x \in live :
    x.id = rec[s].sess => x.slot = s /\ x.peer = rec[s].fp

OpensOf(s) ==
    Cardinality({i \in DOMAIN queue : queue[i].op = "Open" /\ queue[i].slot = s})
    + (IF worker.at \in {"dial", "open", "opened", "failed"} /\ worker.slot = s THEN 1 ELSE 0)

\* The opening flag and the opens under way say the same: never two opens for one
\* device, and no flag left behind that would keep the device silent for good.
OneOpening == \A s \in Slots : OpensOf(s) = IF opening[s] THEN 1 ELSE 0

\* session_worker forgets a slot's session on a Close without comparing ids: the
\* order of the channel sees to it that it never forgets a younger one.
CloseIsOwn == \A c \in Range(queue) :
    c.op = "Close" => rec[c.slot].sess \in {None, c.id}

\* The peer a session is being opened to for slot s, be the command in the queue or
\* in the worker's hands.
AskedFor(s) ==
    CASE ~opening[s] -> None
      [] opening[s] /\ worker.at \in {"dial", "open", "opened", "failed"} /\ worker.slot = s ->
           worker.peer
      [] OTHER -> queue[CHOOSE i \in DOMAIN queue :
                          queue[i].op = "Open" /\ queue[i].slot = s].peer

Device == INSTANCE DeviceSession WITH
    tenant  <- [s \in Slots |-> rec[s].fp],
    asked   <- [s \in Slots |-> AskedFor(s)],
    session <- [s \in Slots |-> rec[s].sess]

\* The coordinator, its channel and its worker together behave like DeviceSession:
\* a device never gets a session it has not asked for as the device of that peer,
\* nor one on top of another (coordinate_sessions, session_worker).
ImplementsDevice == Device!Spec

\* When the driver, the user and the network come to rest, a device in use in
\* mode B has a live session (unless no stream id is left), through failed opens,
\* cooldowns and lost connections; one that nobody uses has none.
SessionsSettle == <>[](\A s \in Slots :
    IF Wants(rec[s]) THEN modeB => rec[s].sess \in LiveIds \/ Ids \ LiveIds = {}
                     ELSE rec[s].sess = None)

\* A device has one stream to its peer: two carry the same samples and add up at
\* the other end.  A snapshot that has grown old breaks it (README, section 5).
OneStream == \A x, y \in live : x.slot = y.slot /\ x.peer = y.peer => x = y
=============================================================================
