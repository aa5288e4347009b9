------------------------------ MODULE AutoTier ------------------------------
(***************************************************************************)
(* The automatic step from tier 0 to tier 1 (autotier.rs): each daemon      *)
(* looks at its own streams for UDP that does not get through, records a    *)
(* verdict about the peer, tells the peer, and drops the control connection *)
(* so that the next one is negotiated on TCP.  Side "D" dials, side "A"     *)
(* accepts; the media connection itself is MediaAttach's, one step here.    *)
(***************************************************************************)
EXTENDS Naturals, FiniteSets

CONSTANTS
    Links,      \* control connections: a ConnShared at each side
    Blocked,    \* the sides no UDP datagram reaches
    Senders,    \* bound: the sides a stream may come from
    Setters,    \* bound: the sides whose user sets a tier
    Prefs,      \* the tiers the users may set
    Starts,     \* what they may have set at first
    Changes,    \* bound: which of "set" (a setting changed), "hour" (verdicts grown
                \* old) and "fault" happen at all,
    MaxUpsets,  \* and how many of them in one behaviour, each of them once
    None

Sides == {"D", "A"}
Other(s) == IF s = "D" THEN "A" ELSE "D"

ASSUME TierConstants ==
    /\ Blocked \subseteq Sides /\ {Senders, Setters} \subseteq SUBSET Sides
    /\ Prefs \subseteq {"auto", "tier0", "tier1"}
    /\ Starts \subseteq [Sides -> Prefs]
    /\ Changes \subseteq {"set", "hour", "fault"} /\ MaxUpsets \in Nat
    /\ None \notin Links \cup {"user", "ticker"}

\* The threads that may find that the tier of the peer has changed: the ticker's
\* sweep, the reader of a connection, the user's command.
Threads == {"ticker", "user"} \cup Links

VARIABLES
    pref,       \* PeerTransport.transport_tier, the user's
    verdict,    \* auto_tier and its age
    up, alive,  \* the TCP connection, ConnShared.alive
    conns,      \* state.conns of each side
    at,         \* where each end is in register_conn, or its reader
    chose,      \* the tier negotiate read
    path,       \* ConnShared.media_path
    asked,      \* an OpenStream on its way
    stream,     \* the stream of a connection
    mail,       \* a TransportSwitch on its way to each end
    job,        \* where each thread is in downgrade, or set_tier
    saw,        \* the connection downgrade looked up to announce on
    edit,       \* the record set_tier took out of the store
    upsets      \* what has happened: "set", "hour", "fault"

store  == <<pref, verdict>>
link   == <<up, alive, conns, at, chose, path>>
media  == <<asked, stream>>
work   == <<job, saw, edit>>
vars   == <<store, link, media, mail, work, upsets>>

Upset(what) ==
    /\ what \in Changes \ upsets /\ Cardinality(upsets) < MaxUpsets
    /\ upsets' = upsets \cup {what}

\* effective_tier
Tier(p, v) == IF p # "auto" THEN p ELSE IF v = "none" THEN "tier0" ELSE "tier1"
Effective(s) == Tier(pref[s], verdict[s])

Busy(s, t, from, to) == job[s][t] = from /\ job' = [job EXCEPT ![s][t] = to]

Init ==
    /\ pref \in Starts
    /\ verdict = [s \in Sides |-> "none"]
    /\ up = [l \in Links |-> FALSE]
    /\ alive = [s \in Sides |-> [l \in Links |-> FALSE]]
    /\ conns = [s \in Sides |-> None]
    /\ at = [s \in Sides |-> [l \in Links |-> "none"]]
    /\ chose = [s \in Sides |-> [l \in Links |-> "tier0"]]
    /\ path = [s \in Sides |-> [l \in Links |-> "udp"]]
    /\ asked = [l \in Links |-> None] /\ stream = [l \in Links |-> None]
    /\ mail = [s \in Sides |-> {}]
    /\ job = [s \in Sides |-> [t \in Threads |-> "idle"]]
    /\ saw = [s \in Sides |-> None] /\ edit = [s \in Sides |-> None]
    /\ upsets = {}

-----------------------------------------------------------------------------
(* The control connection: register_conn and negotiate, its reader, its end. *)

\* External: D dials again once it has no connection. A ConnShared nobody refers
\* to any more stands for the new one, and it does not matter which.
Free(l) == \A s \in Sides : at[s][l] = "none" /\ job[s][l] = "idle"

Connect(l) ==
    /\ \A k \in Links : ~alive["D"][k]
    /\ Free(l) /\ l = CHOOSE k \in Links : Free(k)
    /\ up' = [up EXCEPT ![l] = TRUE]
    /\ alive' = [s \in Sides |-> [alive[s] EXCEPT ![l] = TRUE]]
    /\ at' = [s \in Sides |-> [at[s] EXCEPT ![l] = "greet"]]
    /\ UNCHANGED <<store, conns, chose, path, media, mail, work, upsets>>

\* Published before negotiate looks at the tier; the predecessor is dead.
Publish(s, l) ==
    /\ at[s][l] = "greet"
    /\ conns' = [conns EXCEPT ![s] = l]
    /\ alive' = [alive EXCEPT ![s] = [k \in Links |-> @[k] /\ (k = conns[s] => k = l)]]
    /\ at' = [at EXCEPT ![s][l] = IF verdict[s] = "old" THEN "retire" ELSE "choose"]
    /\ UNCHANGED <<store, up, chose, path, media, mail, work, upsets>>

\* retire_stale_verdict, under a lock of its own after its look at the age.
Retire(s, l) ==
    /\ at[s][l] = "retire"
    /\ verdict' = [verdict EXCEPT ![s] = "none"]
    /\ at' = [at EXCEPT ![s][l] = "choose"]
    /\ UNCHANGED <<pref, up, alive, conns, chose, path, media, mail, work, upsets>>

Choose(s, l) ==
    /\ at[s][l] = "choose"
    /\ chose' = [chose EXCEPT ![s][l] = Effective(s)]
    /\ at' = [at EXCEPT ![s][l] = IF Effective(s) = "tier1" THEN "wait" ELSE "ready"]
    /\ UNCHANGED <<store, up, alive, conns, path, media, mail, work, upsets>>

\* D asked and the reader of A grants, or A offered and D takes the ticket: what
\* they look at is the user's pin, not the effective tier.
Attach(l) ==
    /\ up[l] /\ \A s \in Sides : alive[s][l] /\ path[s][l] = "udp"
    /\ \/ /\ chose["D"][l] = "tier1" /\ at["D"][l] = "wait"
          /\ at["A"][l] = "ready" /\ pref["A"] # "tier0"
       \/ /\ chose["A"][l] = "tier1" /\ at["A"][l] \in {"wait", "ready"}
          /\ at["D"][l] \in {"wait", "ready"}
    /\ pref["D"] # "tier0"
    /\ path' = [s \in Sides |-> [path[s] EXCEPT ![l] = "tcp"]]
    /\ UNCHANGED <<store, up, alive, conns, at, chose, media, mail, work, upsets>>

\* ... with the link up, refused, or the connection gone,
NegotiateEnds(s, l) ==
    /\ at[s][l] = "wait"
    /\ \/ path[s][l] = "tcp" \/ ~up[l] \/ ~alive[s][l]
       \/ \E side \in Sides : pref[side] = "tier0"
    /\ at' = [at EXCEPT ![s][l] = "ready"]
    /\ UNCHANGED <<store, up, alive, conns, chose, path, media, mail, work, upsets>>

\* or ATTACH_TIMEOUT is over, or the dial failed.
AttachFails(s, l) ==
    /\ Upset("fault")
    /\ at[s][l] = "wait"
    /\ at' = [at EXCEPT ![s][l] = "ready"]
    /\ UNCHANGED <<store, up, alive, conns, chose, path, media, mail, work>>

\* The reader ends, its connection dead, or closed with nothing left to read:
\* teardown_conn, and with the reader the last of the ConnShared.
ReaderEnds(s, l) ==
    /\ at[s][l] = "ready" /\ job[s][l] = "idle"
    /\ ~alive[s][l] \/ (~up[l] /\ l \notin mail[s])
    /\ alive' = [alive EXCEPT ![s][l] = FALSE]
    /\ up' = [up EXCEPT ![l] = FALSE]
    /\ conns' = [conns EXCEPT ![s] = IF @ = l THEN None ELSE @]
    /\ at' = [at EXCEPT ![s][l] = "none"]
    /\ chose' = [chose EXCEPT ![s][l] = "tier0"]
    /\ path' = [path EXCEPT ![s][l] = "udp"]
    /\ mail' = [mail EXCEPT ![s] = @ \ {l}]
    /\ asked' = [asked EXCEPT ![l] = None]
    /\ stream' = [stream EXCEPT ![l] = None]
    /\ UNCHANGED <<store, work, upsets>>

\* External: the connection breaks, and takes what is on its way with it or not.
Break(l) ==
    /\ Upset("fault") /\ up[l]
    /\ up' = [up EXCEPT ![l] = FALSE]
    /\ \E s \in Sides : mail' \in {mail, [mail EXCEPT ![s] = @ \ {l}]}
    /\ asked' = [asked EXCEPT ![l] = None]
    /\ stream' = [stream EXCEPT ![l] = None]
    /\ UNCHANGED <<store, alive, conns, at, chose, path, work>>

\* What was sent just before a close may go with it.
Lose(s, l) ==
    /\ Upset("fault") /\ ~up[l] /\ l \in mail[s]
    /\ mail' = [mail EXCEPT ![s] = @ \ {l}]
    /\ UNCHANGED <<store, link, media, work>>

-----------------------------------------------------------------------------
(* Streams: the sender binds the path of its end, for the stream's life.   *)

\* The opener, once its registration is over, sends or asks to be sent to.
OpenStream(s, from, l) ==
    /\ conns[s] = l /\ at[s][l] = "ready" /\ alive[s][l] /\ up[l]
    /\ asked[l] = None /\ stream[l] = None
    /\ asked' = [asked EXCEPT ![l] =
         [by |-> s, from |-> from, over |-> IF from = s THEN path[s][l] ELSE "udp"]]
    /\ UNCHANGED <<store, link, stream, mail, work, upsets>>

Accept(l) ==
    /\ asked[l] # None
    /\ LET peer == Other(asked[l].by) IN
       /\ at[peer][l] = "ready" /\ alive[peer][l]
       /\ stream' = [stream EXCEPT ![l] =
            [from |-> asked[l].from,
             over |-> IF asked[l].from = peer THEN path[peer][l] ELSE asked[l].over]]
    /\ asked' = [asked EXCEPT ![l] = None]
    /\ UNCHANGED <<store, link, mail, work, upsets>>

-----------------------------------------------------------------------------
(* watchdog_pass, downgrade and on_peer_switch.                            *)

\* look_at: the receiver has seen no datagram (signal 1), or the sender no
\* keepalive, which the peer sends while its own path is UDP (signal 2).
NothingArrives(s, l) ==
    /\ s \in Blocked /\ stream[l] # None
    /\ IF stream[l].from = s THEN path[Other(s)][l] = "udp" ELSE stream[l].over = "udp"

Sweep(s) ==
    LET l == conns[s] IN
    /\ l # None
    /\ alive[s][l] /\ path[s][l] = "udp" /\ Effective(s) = "tier0"
    /\ NothingArrives(s, l)
    /\ Busy(s, "ticker", "idle", "found")
    /\ UNCHANGED <<store, link, media, mail, saw, edit, upsets>>

\* Mutant: what the peer says is only logged.
HeedNothing(s, l) ==
    /\ at[s][l] = "ready" /\ l \in mail[s] /\ job[s][l] = "idle"
    /\ mail' = [mail EXCEPT ![s] = @ \ {l}]
    /\ UNCHANGED <<store, link, media, work, upsets>>

\* The reader takes a TransportSwitch: evidence, not an instruction.
Heed(s, l) ==
    /\ at[s][l] = "ready" /\ l \in mail[s]
    /\ mail' = [mail EXCEPT ![s] = @ \ {l}]
    /\ Busy(s, l, "idle", "found")
    /\ UNCHANGED <<store, link, media, saw, edit, upsets>>

\* Mutant: every finding is acted on.
NoteAgain(s, t) ==
    /\ Busy(s, t, "found", "noted")
    /\ verdict' = [verdict EXCEPT ![s] = IF @ = "none" THEN "fresh" ELSE @]
    /\ UNCHANGED <<pref, link, media, mail, saw, edit, upsets>>

\* note_auto_tier: only a change goes any further.
Note(s, t) ==
    /\ job[s][t] = "found"
    /\ job' = [job EXCEPT ![s][t] = IF verdict[s] = "none" THEN "noted" ELSE "idle"]
    /\ verdict' = [verdict EXCEPT ![s] = IF @ = "none" THEN "fresh" ELSE @]
    /\ UNCHANGED <<pref, link, media, mail, saw, edit, upsets>>

\* Mutant: a verdict that came from the peer is recorded and no more.
WeighOwn(s, t) ==
    /\ job[s][t] = "noted"
    /\ job' = [job EXCEPT ![s][t] =
         IF pref[s] # "auto" \/ t # "ticker" THEN "idle" ELSE "announce"]
    /\ saw' = IF t = "ticker" THEN [saw EXCEPT ![s] = conns[s]] ELSE saw
    /\ UNCHANGED <<store, link, media, mail, edit, upsets>>

\* A pin is not acted against, and nothing is asked of the peer either.
Weigh(s, t) ==
    /\ job[s][t] = "noted"
    /\ job' = [job EXCEPT ![s][t] =
         IF pref[s] # "auto" THEN "idle" ELSE IF t = "ticker" THEN "announce" ELSE "drop"]
    /\ saw' = IF t = "ticker" THEN [saw EXCEPT ![s] = conns[s]] ELSE saw
    /\ UNCHANGED <<store, link, media, mail, edit, upsets>>

\* send_msg on the connection that was current: a failure marks it dead.
Announce(s) ==
    LET l == saw[s] IN
    /\ Busy(s, "ticker", "announce", "drop")
    /\ IF l # None /\ up[l]
       THEN mail' = [mail EXCEPT ![Other(s)] = @ \cup {l}] /\ UNCHANGED alive
       ELSE alive' = [alive EXCEPT ![s] = [k \in Links |-> @[k] /\ k # l]] /\ UNCHANGED mail
    /\ saw' = [saw EXCEPT ![s] = None]
    /\ UNCHANGED <<store, up, conns, at, chose, path, media, edit, upsets>>

\* retier: whatever connection is current by now, if it lives.
Drop(s, t) ==
    LET l == conns[s] IN
    /\ Busy(s, t, "drop", "idle")
    /\ IF l # None /\ alive[s][l]
       THEN /\ alive' = [alive EXCEPT ![s][l] = FALSE]
            /\ up' = [up EXCEPT ![l] = FALSE]
            /\ conns' = [conns EXCEPT ![s] = None]
            /\ asked' = [asked EXCEPT ![l] = None]
            /\ stream' = [stream EXCEPT ![l] = None]
       ELSE UNCHANGED <<alive, up, conns, media>>
    /\ UNCHANGED <<store, at, chose, path, mail, saw, edit, upsets>>

-----------------------------------------------------------------------------
(* peers.set_tier: the record is taken out, changed, and put back.         *)

TakeRecord(s, p) ==
    /\ Upset("set")
    /\ p # pref[s]
    /\ Busy(s, "user", "idle", "edit")
    /\ edit' = [edit EXCEPT ![s] = [pref |-> p, verdict |-> verdict[s]]]
    /\ UNCHANGED <<store, link, media, mail, saw>>

PutRecord(s) ==
    /\ Busy(s, "user", "edit", "drop")
    /\ pref' = [pref EXCEPT ![s] = edit[s].pref]
    /\ verdict' = [verdict EXCEPT ![s] = edit[s].verdict]
    /\ edit' = [edit EXCEPT ![s] = None]
    /\ UNCHANGED <<link, media, mail, saw, upsets>>

\* AUTO_TIER_RETRY_SECS: an hour is longer than anything that is under way.
Hour ==
    /\ Upset("hour")
    /\ \E s \in Sides : verdict[s] = "fresh"
    /\ \A s \in Sides : mail[s] = {} /\ \A t \in Threads : job[s][t] = "idle"
    /\ \A s \in Sides, l \in Links : at[s][l] \in {"none", "ready"}
    /\ verdict' = [s \in Sides |-> IF verdict[s] = "none" THEN "none" ELSE "old"]
    /\ UNCHANGED <<pref, link, media, mail, work>>

-----------------------------------------------------------------------------
Register(s, l) == Publish(s, l) \/ Retire(s, l) \/ Choose(s, l) \/ NegotiateEnds(s, l)
Reader(s, l) == ReaderEnds(s, l) \/ Heed(s, l)
Downgrade(s, t) ==
    \/ Note(s, t) \/ Weigh(s, t) \/ Drop(s, t)
    \/ t = "ticker" /\ Announce(s)
    \/ t = "user" /\ PutRecord(s)

Next ==
    \/ \E l \in Links : Connect(l) \/ Attach(l) \/ Break(l) \/ Accept(l)
    \/ \E s \in Sides, l \in Links : Register(s, l) \/ Reader(s, l)
    \/ \E s \in Sides, l \in Links : AttachFails(s, l) \/ Lose(s, l)
    \/ \E s \in Sides, from \in Senders, l \in Links : OpenStream(s, from, l)
    \/ \E s \in Sides : Sweep(s)
    \/ \E s \in Sides, t \in Threads : Downgrade(s, t)
    \/ \E s \in Setters, p \in Prefs : TakeRecord(s, p)
    \/ Hour

\* The threads of the daemons run, and the sweep comes round every 200 ms. Nothing
\* is asked of the users, nor of the network.
Fairness ==
    /\ \A l \in Links : WF_vars(Attach(l)) /\ WF_vars(Accept(l))
    /\ \A s \in Sides, l \in Links :
         WF_vars(Register(s, l) \/ Reader(s, l) \/ Downgrade(s, l))
    /\ \A s \in Sides :
         WF_vars(Sweep(s) \/ Downgrade(s, "ticker")) /\ WF_vars(Downgrade(s, "user"))

Spec == Init /\ [][Next]_vars /\ Fairness
-----------------------------------------------------------------------------
\* Every thread is at a step of its own command, every connection at one of its life.
TypeOK ==
    /\ pref \in [Sides -> Prefs] /\ verdict \in [Sides -> {"none", "fresh", "old"}]
    /\ conns \in [Sides -> Links \cup {None}]
    /\ at \in [Sides -> [Links -> {"none", "greet", "retire", "choose", "wait", "ready"}]]
    /\ mail \in [Sides -> SUBSET Links]
    /\ job \in [Sides -> [Threads -> {"idle", "found", "noted", "announce", "drop", "edit"}]]

\* A thread of s is on its way to the drop.
Pending(s) == \E t \in Threads : job[s][t] \in {"noted", "announce", "drop"}

\* Negotiated on a tier that is ruled out by now: UDP although the tier is 1, where
\* the sweep no longer looks, or TCP although the user pinned tier 0.
Outdated(s, l) == \/ Effective(s) = "tier1" /\ chose[s][l] = "tier0"
                  \/ pref[s] = "tier0" /\ chose[s][l] = "tier1"

\* No connection outlives the tier it was negotiated for: register_conn publishes
\* before it reads the tier, and a new tier is stored before the published
\* connection is looked up, so that of a registration and a verdict or a setting
\* that race, one sees the other.  Missed, the link would be silent and unwatched.
ChoiceIsCurrent ==
    \A s \in Sides :
        LET l == conns[s] IN
        l # None /\ alive[s][l] /\ at[s][l] \in {"wait", "ready"} /\ Outdated(s, l)
            => Pending(s)

\* The detectors of both ends, a peer's report, a re-probe and a pin come to rest:
\* the daemons do not drop and announce at each other for ever.
Settles == <>[](\A s \in Sides : ~Pending(s))

\* Nobody pinned anything and nothing broke or was lost.
Calm == upsets \subseteq {"hour"} /\ \A s \in Sides : pref[s] = "auto"

\* A stream sent over UDP to a side that UDP does not reach.
SilentAt(s, l) ==
    s \in Blocked /\ stream[l] # None /\ stream[l].over = "udp" /\ Other(stream[l].from) = s

\* It does not stay so that the accepting side does not hear a stream: one of the two finds
\* out, the other is told, and the next connection carries it over TCP.
AcceptorHears == []<>(Calm => \A l \in Links : ~SilentAt("A", l))

\* Documented (downgrade, of the announcement): "If it does not arrive, the peer's own
\* detector reaches the same verdict from its own half of the link". So a verdict of one
\* side, while a stream it cannot hear goes on, is the other side's verdict in the end.
\* The code does not keep it (README, section 5).
PeerReachesVerdict ==
    \A s \in Sides, l \in Links :
        SilentAt(s, l) /\ verdict[s] # "none" /\ Calm
            ~> ~SilentAt(s, l) \/ verdict[Other(s)] # "none" \/ ~Calm
=============================================================================
