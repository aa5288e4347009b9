------------------------------ MODULE Reconnect ------------------------------
(***************************************************************************)
(* Reconnect and session recovery towards one peer                         *)
(* (core/audiohubd/src/reconnect.rs with connect_peer, teardown_conn,      *)
(* drop_conn and disconnect_peer of conn.rs).                              *)
(*                                                                         *)
(* A connection that dies takes its sessions with it. Whoever tears it     *)
(* down - its reader, and drop_conn at the same time - hands the sessions  *)
(* this machine had opened to the peer's PeerRecon entry as a recovery     *)
(* plan. The supervisor starts an attempt, or a user connects first; the   *)
(* one that connects takes the plan and replays it. One action is what a   *)
(* thread does between two uses of the `recon` and `state` locks.          *)
(*                                                                         *)
(* Time is left out: an armed retry may be due at any moment. So is the    *)
(* order of a plan: it is a count of sessions for each intent.             *)
(***************************************************************************)
EXTENDS Naturals

CONSTANTS
    Intents,    \* what same_media_intent tells apart
    Conns,      \* connection objects to this peer
    Retriers,   \* the ahb-retry and ahb-replay threads
    Users,      \* IPC threads
    MaxCopies,  \* bound: sessions of one intent, on a connection or in a plan
    Changes,    \* bound: which of "policy", "inbound", "disconnect" ever happen
    None

Threads == Retriers \cup Users
Tearers == Conns \cup Threads
Counts  == [Intents -> Nat]
Entries == [armed : BOOLEAN, inFlight : BOOLEAN, plan : Counts]
Teardowns == [conn : Conns, step : {"snap", "close", "unreg", "arm"}, mine : Counts]

ASSUME BoundsOK == MaxCopies \in Nat \ {0} /\ Changes \subseteq {"policy", "inbound", "disconnect"}

ASSUME KindsDistinct ==
    /\ Conns \cap Threads = {} /\ Retriers \cap Users = {}
    /\ None \notin Conns \cup Threads \cup Intents
    /\ None \notin Entries /\ None \notin Teardowns

VARIABLES
    dialable,   \* the peer's dial policy lets us originate (may_dial)
    locked,     \* the thread that keeps the `recon` lock beyond one action
    entry,      \* the peer's PeerRecon in inner.recon
    current,    \* state.conns[fp]
    alive,      \* ConnShared.alive
    serving,    \* the connections whose reader is still in its loop
    live,       \* the sessions we have open, by connection and intent
    pc,         \* where a thread is
    list,       \* what it still has to replay
    want,       \* the intent it is opening
    attempts,   \* the threads that run `attempt` for the supervisor
    td          \* a teardown_conn at work: its connection, its step, its `mine`

net    == <<current, alive, serving>>
locals == <<list, want, attempts>>
vars   == <<dialable, locked, entry, net, live, pc, locals, td>>

-----------------------------------------------------------------------------
Zero    == [i \in Intents |-> 0]

\* Counts are kept up to the bound: a longer plan replays like a full one.
Merge(f, g) == [i \in Intents |-> IF f[i] + g[i] > MaxCopies THEN MaxCopies ELSE f[i] + g[i]]

Fresh == [armed |-> FALSE, inFlight |-> FALSE, plan |-> Zero]

\* lk(&inner.recon) would return: the lock is not reentrant.
ReconFree == locked = None

Connected == current # None /\ alive[current]

\* live_intents: what is open to this peer, on whichever connection.
IsLive(i) == \E c \in Conns : live[c][i] > 0

\* Some thread, plan or teardown still has a session of this intent to open.
IsOwed(i) ==
    \/ entry # None /\ entry.plan[i] > 0
    \/ \E t \in Threads : list[t][i] > 0 \/ want[t] = i
    \/ \E x \in Tearers : td[x] # None /\ td[x].mine[i] > 0

Kept(i) == IsLive(i) \/ IsOwed(i)

Goto(t, l) == pc' = [pc EXCEPT ![t] = l]

\* Back from connect_peer or open_session_from to whoever called it.
Resume(t) == Goto(t, IF t \in Users THEN "idle" ELSE "replay")

-----------------------------------------------------------------------------
(* connect_peer.                                                           *)

\* A user's call: peers.connect, or session.open, which connects first. No user
\* asks for what is open or being recovered (session.open would open it twice).
UserConnect(u) ==
    /\ pc[u] = "idle"
    /\ Goto(u, "dial")
    /\ UNCHANGED <<dialable, locked, entry, net, live, locals, td>>

UserOpen(u, i) ==
    /\ pc[u] = "idle"
    /\ ~IsLive(i) /\ ~IsOwed(i)
    /\ want' = [want EXCEPT ![u] = i]
    /\ Goto(u, "dial")
    /\ UNCHANGED <<dialable, locked, entry, net, live, list, attempts, td>>

\* Where each caller goes on: `attempt` itself, or a connect of ConnectOrigin
\* User, which notes the outbound connection.
Dialled(t) == Goto(t, IF t \in attempts /\ want[t] = None THEN "connected" ELSE "note")

\* There is a live connection already, registered by whoever was first.
DialFound(t) ==
    /\ pc[t] = "dial" /\ Connected
    /\ Dialled(t)
    /\ UNCHANGED <<dialable, locked, entry, net, live, locals, td>>

\* register_conn: the newcomer is inserted and the one it replaces is dead. (If
\* the tie-break keeps the other one, the caller goes on as in DialFound.)
Registered(c) ==
    /\ c \notin serving /\ current # c
    /\ \A x \in Tearers : td[x] # None => td[x].conn # c
    /\ current' = c
    /\ alive' = [k \in Conns |-> IF k = c THEN TRUE ELSE IF k = current THEN FALSE ELSE alive[k]]
    /\ serving' = serving \cup {c}

\* The look for a live connection is old by the time the handshake is over.
DialNew(t, c) ==
    /\ pc[t] = "dial" /\ dialable
    /\ Registered(c)
    /\ Dialled(t)
    /\ UNCHANGED <<dialable, locked, entry, live, locals, td>>

\* Inbound-only, unreachable, refused: an attempt counts it, the others give up.
DialFails(t) ==
    /\ pc[t] = "dial"
    /\ IF t \in attempts /\ want[t] = None THEN Goto(t, "failed") ELSE Resume(t)
    /\ want' = [want EXCEPT ![t] = None]
    /\ UNCHANGED <<dialable, locked, entry, net, live, list, attempts, td>>

\* External: the peer connects to us. Nothing is noted.
Inbound(c) ==
    /\ "inbound" \in Changes
    /\ Registered(c)
    /\ UNCHANGED <<dialable, locked, entry, live, pc, locals, td>>

\* The replay thread cannot be spawned: its plan goes with it.
NoSpareThread == \A r \in Retriers : pc[r] # "idle"

\* Mutant of Note: the timer is cleared and the plan left in the entry.
NoteKeepsPlan(t) ==
    /\ pc[t] = "note" /\ ReconFree
    /\ entry' = IF ~dialable THEN entry
                ELSE [(IF entry = None THEN Fresh ELSE entry) EXCEPT !.armed = FALSE]
    /\ Goto(t, IF want[t] # None THEN "open" ELSE "idle")
    /\ UNCHANGED <<dialable, locked, net, live, list, want, attempts, td>>

\* note_outbound, then spawn_replay if the cleared retry held a plan.
Note(t) ==
    LET held == IF dialable /\ entry # None THEN entry.plan ELSE Zero IN
    /\ pc[t] = "note" /\ ReconFree
    /\ entry' = IF ~dialable THEN entry
                ELSE [(IF entry = None THEN Fresh ELSE entry) EXCEPT !.armed = FALSE, !.plan = Zero]
    /\ IF held = Zero
         THEN /\ Goto(t, IF want[t] # None THEN "open" ELSE "idle")
              /\ UNCHANGED list
         ELSE \/ \E r \in Retriers :
                   /\ pc[r] = "idle"
                   /\ list' = [list EXCEPT ![r] = held]
                   /\ pc' = [pc EXCEPT ![r] = "replay",
                                       ![t] = IF want[t] # None THEN "open" ELSE "idle"]
              \/ /\ NoSpareThread
                 /\ Goto(t, IF want[t] # None THEN "open" ELSE "idle")
                 /\ UNCHANGED list
    /\ UNCHANGED <<dialable, locked, net, live, want, attempts, td>>

\* Mutant of Open: the connection found is not asked whether it is alive.
OpenUnchecked(t) ==
    /\ pc[t] = "open" /\ current # None
    /\ live[current][want[t]] < MaxCopies
    /\ live' = [live EXCEPT ![current][want[t]] = @ + 1]
    /\ want' = [want EXCEPT ![t] = None]
    /\ Resume(t)
    /\ UNCHANGED <<dialable, locked, entry, net, list, attempts, td>>

\* The rest of open_session_from: refused without a live connection, or by the
\* peer; SessionTable models how the session gets into the table.
Open(t) ==
    /\ pc[t] = "open" /\ Connected
    /\ live[current][want[t]] < MaxCopies
    /\ live' = [live EXCEPT ![current][want[t]] = @ + 1]
    /\ want' = [want EXCEPT ![t] = None]
    /\ Resume(t)
    /\ UNCHANGED <<dialable, locked, entry, net, list, attempts, td>>

OpenFails(t) ==
    /\ pc[t] = "open"
    /\ want' = [want EXCEPT ![t] = None]
    /\ Resume(t)
    /\ UNCHANGED <<dialable, locked, entry, net, live, list, attempts, td>>

-----------------------------------------------------------------------------
(* The supervisor, its attempts and the replay.                            *)

\* supervisor_loop: one attempt at a time for an entry.
Dispatch(t) ==
    /\ pc[t] = "idle" /\ ReconFree
    /\ entry # None /\ entry.armed /\ ~entry.inFlight
    /\ entry' = [entry EXCEPT !.inFlight = TRUE]
    /\ attempts' = attempts \cup {t}
    /\ Goto(t, "check")
    /\ UNCHANGED <<dialable, locked, net, live, list, want, td>>

\* attempt asks may_dial again before it dials.
Check(t) ==
    /\ pc[t] = "check" /\ ReconFree
    /\ IF dialable THEN Goto(t, "dial") /\ UNCHANGED entry
                   ELSE Goto(t, "finish") /\ entry' = None
    /\ UNCHANGED <<dialable, locked, net, live, locals, td>>

\* Connected: take the plan, or drop what was built for a disarmed peer, which
\* the code does in the arm of a match that holds the lock.
TakePlan(t) ==
    /\ pc[t] = "connected" /\ ReconFree
    /\ IF entry = None
         THEN Goto(t, "drop") /\ locked' = t /\ UNCHANGED <<entry, list>>
         ELSE /\ entry' = [entry EXCEPT !.armed = FALSE, !.plan = Zero]
              /\ list' = [list EXCEPT ![t] = entry.plan]
              /\ Goto(t, "replay")
              /\ UNCHANGED locked
    /\ UNCHANGED <<dialable, net, live, want, attempts, td>>

\* Not connected: the entry stays armed, on the next rung, if it still is.
Rearm(t) ==
    /\ pc[t] = "failed" /\ ReconFree
    /\ Goto(t, "finish")
    /\ UNCHANGED <<dialable, locked, entry, net, live, locals, td>>

\* replay_sessions, one planned session: already live or not permitted by the
\* mode (skipped), or opened through open_session_from.
Replay(t, i) ==
    /\ pc[t] = "replay" /\ list[t][i] > 0
    /\ list' = [list EXCEPT ![t][i] = @ - 1]
    /\ \/ UNCHANGED <<pc, want>>
       \/ /\ ~IsLive(i)
          /\ want' = [want EXCEPT ![t] = i]
          /\ Goto(t, "dial")
    /\ UNCHANGED <<dialable, locked, entry, net, live, attempts, td>>

Replayed(t) ==
    /\ pc[t] = "replay" /\ list[t] = Zero
    /\ Goto(t, IF t \in attempts THEN "finish" ELSE "idle")
    /\ UNCHANGED <<dialable, locked, entry, net, live, locals, td>>

\* Mutant of Finish: the attempt ends without clearing in_flight.
FinishForgets(t) ==
    /\ pc[t] = "finish" /\ ReconFree
    /\ attempts' = attempts \ {t}
    /\ Goto(t, "idle")
    /\ UNCHANGED <<dialable, locked, entry, net, live, list, want, td>>

\* The wrapper around `attempt` clears in_flight in whatever entry is there.
Finish(t) ==
    /\ pc[t] = "finish" /\ ReconFree
    /\ entry' = IF entry = None THEN None ELSE [entry EXCEPT !.inFlight = FALSE]
    /\ attempts' = attempts \ {t}
    /\ Goto(t, "idle")
    /\ UNCHANGED <<dialable, locked, net, live, list, want, td>>

-----------------------------------------------------------------------------
(* Going down: teardown_conn by the reader, and by drop_conn's caller.     *)

\* The peer is gone, or somebody marked the connection dead.
ReaderExits(c) ==
    /\ c \in serving
    /\ serving' = serving \ {c}
    /\ alive' = [alive EXCEPT ![c] = FALSE]
    /\ td' = [td EXCEPT ![c] = [conn |-> c, step |-> "snap", mine |-> Zero]]
    /\ UNCHANGED <<dialable, locked, entry, current, live, pc, locals>>

\* disconnect_peer and forget_peer disarm first; retier does not.
UserDisconnect(u) ==
    /\ "disconnect" \in Changes
    /\ pc[u] = "idle" /\ ReconFree
    /\ entry' = None
    /\ Goto(u, "drop")
    /\ UNCHANGED <<dialable, locked, net, live, locals, td>>

UserRetier(u) ==
    /\ pc[u] = "idle" /\ Connected
    /\ Goto(u, "drop")
    /\ UNCHANGED <<dialable, locked, entry, net, live, locals, td>>

\* drop_conn.
DropConn(t) ==
    /\ pc[t] = "drop"
    /\ IF current = None
         THEN /\ Goto(t, IF t \in attempts THEN "finish" ELSE "idle")
              /\ locked' = IF locked = t THEN None ELSE locked
              /\ UNCHANGED <<alive, td>>
         ELSE /\ alive' = [alive EXCEPT ![current] = FALSE]
              /\ td' = [td EXCEPT ![t] = [conn |-> current, step |-> "snap", mine |-> Zero]]
              /\ Goto(t, "tearing")
              /\ UNCHANGED locked
    /\ UNCHANGED <<dialable, entry, current, serving, live, locals>>

TearSnap(x) ==
    /\ td[x] # None /\ td[x].step = "snap"
    /\ td' = [td EXCEPT ![x] = [@ EXCEPT !.step = "close", !.mine = live[td[x].conn]]]
    /\ UNCHANGED <<dialable, locked, entry, net, live, pc, locals>>

TearClose(x) ==
    /\ td[x] # None /\ td[x].step = "close"
    /\ live' = [live EXCEPT ![td[x].conn] = Zero]
    /\ td' = [td EXCEPT ![x] = [@ EXCEPT !.step = "unreg"]]
    /\ UNCHANGED <<dialable, locked, entry, net, pc, locals>>

TearUnregister(x) ==
    /\ td[x] # None /\ td[x].step = "unreg"
    /\ current' = IF current = td[x].conn THEN None ELSE current
    /\ td' = [td EXCEPT ![x] = [@ EXCEPT !.step = "arm"]]
    /\ UNCHANGED <<dialable, locked, entry, alive, serving, live, pc, locals>>

\* Mutant of ArmIn: what this drop took replaces the plan.
ArmInReplaces(mine) ==
    entry' = IF ~dialable \/ entry = None THEN None
             ELSE [entry EXCEPT !.armed = TRUE, !.plan = mine]

\* arm_in: not for a peer we may not dial, nor for one without an entry; what
\* this drop took is added to the plan, never substituted for it.
ArmIn(mine) ==
    entry' = IF ~dialable \/ entry = None THEN None
             ELSE [entry EXCEPT !.armed = TRUE, !.plan = Merge(@, mine)]

TearArm(x) ==
    /\ td[x] # None /\ td[x].step = "arm" /\ ReconFree
    /\ ArmIn(td[x].mine)
    /\ td' = [td EXCEPT ![x] = None]
    /\ IF x \in Threads THEN Goto(x, IF x \in attempts THEN "finish" ELSE "idle") ELSE UNCHANGED pc
    /\ UNCHANGED <<dialable, locked, net, live, locals>>

\* close_session.
UserClose(c, i) ==
    /\ live[c][i] > 0
    /\ live' = [live EXCEPT ![c][i] = @ - 1]
    /\ UNCHANGED <<dialable, locked, entry, net, pc, locals, td>>

\* The user changes the peer's dial policy.
SetPolicy ==
    /\ "policy" \in Changes
    /\ dialable' = ~dialable
    /\ UNCHANGED <<locked, entry, net, live, pc, locals, td>>

-----------------------------------------------------------------------------
Init ==
    /\ dialable = TRUE
    /\ locked = None
    /\ entry = None
    /\ current = None
    /\ alive = [c \in Conns |-> FALSE]
    /\ serving = {}
    /\ live = [c \in Conns |-> Zero]
    /\ pc = [t \in Threads |-> "idle"]
    /\ list = [t \in Threads |-> Zero]
    /\ want = [t \in Threads |-> None]
    /\ attempts = {}
    /\ td = [x \in Tearers |-> None]

Request ==
    \/ \E u \in Users : UserConnect(u) \/ UserDisconnect(u) \/ UserRetier(u)
    \/ \E u \in Users, i \in Intents : UserOpen(u, i)
    \/ \E c \in Conns, i \in Intents : UserClose(c, i)
    \/ \E c \in Conns : Inbound(c)
    \/ SetPolicy

Step(t) ==
    \/ DialFound(t) \/ DialFails(t) \/ \E c \in Conns : DialNew(t, c)
    \/ Note(t) \/ Open(t) \/ OpenFails(t)
    \/ Check(t) \/ TakePlan(t) \/ Rearm(t)
    \/ \E i \in Intents : Replay(t, i)
    \/ Replayed(t) \/ Finish(t) \/ DropConn(t)

TearStep(x) == TearSnap(x) \/ TearClose(x) \/ TearUnregister(x) \/ TearArm(x)

Next ==
    \/ Request
    \/ \E t \in Threads : Step(t)
    \/ \E t \in Retriers : Dispatch(t)
    \/ \E c \in Conns : ReaderExits(c)
    \/ \E x \in Tearers : TearStep(x)

\* Every call a thread makes times out, a reader notices a dead connection, and
\* the supervisor looks every 200 ms. The last conjunct is about the peer: one
\* that answers is not missed by every attempt.
Fairness ==
    /\ \A t \in Threads : WF_vars(Step(t))
    /\ WF_vars(\E t \in Retriers : Dispatch(t))
    /\ \A c \in Conns : WF_vars(~alive[c] /\ ReaderExits(c))
    /\ \A x \in Tearers : WF_vars(TearStep(x))
    /\ \A t \in Retriers : SF_vars(\E c \in Conns : DialNew(t, c))

Spec == Init /\ [][Next]_vars /\ Fairness

-----------------------------------------------------------------------------
TypeOK ==
    /\ dialable \in BOOLEAN
    /\ locked \in Retriers \cup {None}
    /\ entry \in Entries \cup {None}
    /\ current \in Conns \cup {None}
    /\ alive \in [Conns -> BOOLEAN]
    /\ serving \subseteq Conns
    /\ live \in [Conns -> Counts]
    /\ pc \in [Threads -> {"idle", "dial", "note", "open", "check", "connected", "failed",
                           "replay", "finish", "drop", "tearing"}]
    /\ list \in [Threads -> Counts]
    /\ want \in [Threads -> Intents \cup {None}]
    /\ attempts \subseteq Retriers
    /\ td \in [Tearers -> Teardowns \cup {None}]

\* A connection whose reader, or whose teardown, may still touch the registry.
Leaving(c) ==
    \/ c \in serving
    \/ \E x \in Tearers : td[x] # None /\ td[x].conn = c /\ td[x].step # "arm"

Standing(c) ==
    IF alive[c] THEN "live" ELSE IF Leaving(c) THEN "dead" ELSE "off"

Registry == INSTANCE PeerRegistry WITH
                Peers  <- {"peer"},
                PeerOf <- [c \in Conns |-> "peer"],
                phase  <- [c \in Conns |-> Standing(c)],
                reg    <- [p \in {"peer"} |-> current]

\* Attempts, users, drops and readers together keep the promise of the registry: at most
\* one connection to the peer lives, the registered one.
ImplementsRegistry == Registry!Spec

\* A plan is never stored without a timer: "Clearing the timer and leaving them
\* stored was a silent, permanent loss". Whoever clears the one takes the other.
PlanIsArmed ==
    entry # None /\ entry.plan # Zero => entry.armed

\* in_flight is never left behind: a peer marked so without an attempt at work
\* would never be picked by the supervisor again.
InFlightIsHeld ==
    entry # None /\ entry.inFlight => attempts # {}

\* Sessions live on a connection that is being served or torn down, so each of
\* them will be handed to the plan when the connection goes.
LiveIsServed ==
    \A c \in Conns : live[c] # Zero =>
        \/ c \in serving
        \/ td[c] # None /\ td[c].step \in {"snap", "close"}

\* Who may decide that a session is not owed any more: a user closes it, a
\* replay skips it or fails to open it, the peer is disarmed or was when a
\* teardown came to arm it, or no thread can be spawned for the plan.
GivenUp(i) ==
    \/ UNCHANGED <<entry, td>> /\ \E c \in Conns : live'[c][i] < live[c][i]
    \/ \E t \in Threads : \/ pc[t] = "replay" /\ list'[t][i] < list[t][i]
                          \/ want[t] = i /\ want'[t] = None
                          \/ NoSpareThread /\ pc[t] = "note" /\ pc'[t] # "note"
    \/ entry' = None /\ (entry # None \/ td' # td)

\* What a drop took is owed until one of them does. No interleaving of drops,
\* attempts and connects drops it on the way ("dropping them loses them").
PlanConserved ==
    [][\A i \in Intents : Kept(i) /\ ~Kept(i)' => GivenUp(i)]_vars

\* An armed retry does not stay armed for good: the attempts go on until one
\* connects or the peer is disarmed.
RetryEnds ==
    entry # None /\ entry.armed ~> entry = None \/ ~entry.armed

\* A session lost with its connection is open again in the end, or given up.
OwedEnds ==
    \A i \in Intents : IsOwed(i) ~> IsLive(i) \/ ~IsOwed(i)

\* Documented (attempt): "disarmed while the connect was in flight (an explicit
\* disconnect): drop what we just built, recover nothing".
DisarmedAttemptDrops ==
    \A t \in Retriers : pc[t] = "drop" ~> t \notin attempts

\* Documented (PeerRecon.next_at): "Some = a retry is armed. None = connected,
\* or never dropped." Asked only when no call and no teardown is at work.
\* The code does not keep it (README, section 5).
UnarmedIsConnected ==
    /\ \A t \in Threads : pc[t] = "idle"
    /\ \A x \in Tearers : td[x] = None
    /\ entry # None /\ ~entry.armed
    => Connected
=============================================================================
