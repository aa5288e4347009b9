------------------------------ MODULE MediaAttach ------------------------------
(***************************************************************************)
(* Tier 1 of AudioHub (core/audiohubd/src/tcpmedia.rs): a second TCP       *)
(* connection that carries the media of a control connection.              *)
(*                                                                         *)
(* Side "D" dialled the control connections, "A" accepted them; the media  *)
(* connection goes the same way. A mints a ticket, sends it on the control *)
(* channel, D dials and spends it, and each side runs `serve` on its end.  *)
(* Until that is settled `negotiate` holds register_conn open at a side    *)
(* that runs on tier 1, so that no stream opens on UDP meanwhile.          *)
(*                                                                         *)
(* Control connections break and are dialled again at any time, while      *)
(* tickets, dials and `serve` threads of the one before are still around.  *)
(* Which of two simultaneous connections stays is DialRace's.              *)
(***************************************************************************)
EXTENDS Naturals, Sequences, FiniteSets

CONSTANTS
    Links,      \* control connections: a ConnShared at each side
    Socks,      \* media connections: bound on those under way at once
    Tickets,    \* bound: tickets minted in a behaviour
    Prefs,      \* the tiers the operators of the two may have set
    MaxConns,   \* bound: control connections dialled in a behaviour
    MaxFaults,  \* bound: breaks, failures and waits that run out
    None

Sides == {"D", "A"}

ASSUME AttachConstants ==
    /\ Prefs \subseteq [Sides -> {"tier0", "auto", "tier1"}]
    /\ MaxConns \in Nat
    /\ MaxFaults \in Nat
    /\ None \notin Links \cup Socks \cup Tickets
    /\ Tickets \cap {"mode", "open", "refused"} = {}

VARIABLES
    pref,       \* PeerTransport.tier at each side; no automatic verdict stands
    dialled,    \* control connections dialled so far
    faults,     \* faults so far
    up,         \* the control TCP connection
    alive,      \* ConnShared.alive
    conns,      \* state.conns of A: the connection registered for D
    at,         \* where the thread of each end is, in register_conn or its reader
    asked,      \* MediaAttachRequest on its way to A
    toD,        \* the control channel to D
    deferred,   \* what D's pump_for_ticket parked
    told,       \* D's reader has handled this connection's ModeState
    late,       \* the ends whose ATTACH_TIMEOUT is over
    path,       \* ConnShared.media_path: a media connection, or None for UDP
    latch,      \* AttachGate.claimed
    attaching,  \* media_attaching of D; A never dials
    bound,      \* the paths streams of this end were opened on
    tickets,    \* media_tickets of A
    minted,     \* every ticket ever minted
    thr,        \* the thread at each end of a media connection
    on,         \* the control connection it serves
    killed,     \* ~TcpMediaLink.alive
    carries,    \* the ticket a dial presents
    reply,      \* A's answer to it
    open        \* the media TCP connection

ctl    == <<dialled, up, alive, conns, toD>>
reg    == <<at, asked, deferred, told, late, bound>>
med    == <<path, latch, attaching>>
tix    == <<tickets, minted>>
sock   == <<thr, on, killed, carries, reply, open>>
vars   == <<pref, faults, ctl, reg, med, tix, sock>>

Fault == faults < MaxFaults /\ faults' = faults + 1

Runs(side) == pref[side] = "tier1"    \* effective_tier

Kind(side, l) == IF path[side][l] = None THEN "udp" ELSE "tcp"

\* The threads that serve, or try to serve, a media connection of this end.
Servants(side, l) == {s \in Socks : thr[side][s] # "idle" /\ on[side][s] = l}

Step(side, l, from, to) == at[side][l] = from /\ at' = [at EXCEPT ![side][l] = to]

Walk(side, s, from, to) == thr[side][s] = from /\ thr' = [thr EXCEPT ![side][s] = to]

\* send_msg: on a broken connection it marks the end dead.
TellD(l, m) ==
    IF up[l] THEN /\ toD' = [toD EXCEPT ![l] = Append(@, m)]
                  /\ UNCHANGED alive
             ELSE /\ alive' = [alive EXCEPT !["A"][l] = FALSE]
                  /\ UNCHANGED toD

-----------------------------------------------------------------------------
(* The control connection.                                                 *)

\* External: the handshake of a connection D dials once it has no other. The
\* ConnShared of one that nobody refers to any more stands for the new one.
Connect(l) ==
    /\ dialled < MaxConns
    /\ \A k \in Links : ~alive["D"][k]
    /\ \A side \in Sides : at[side][l] = "none" /\ Servants(side, l) = {}
    /\ conns # l
    /\ dialled' = dialled + 1
    /\ up' = [up EXCEPT ![l] = TRUE]
    /\ alive' = [side \in Sides |-> [alive[side] EXCEPT ![l] = TRUE]]
    /\ at' = [side \in Sides |-> [at[side] EXCEPT ![l] = "greet"]]
    /\ asked' = asked \ {l}
    /\ toD' = [toD EXCEPT ![l] = <<>>]
    /\ deferred' = [deferred EXCEPT ![l] = <<>>]
    /\ told' = told \ {l}
    /\ late' = late \ {<<side, l>> : side \in Sides}
    /\ attaching' = attaching \ {l}
    /\ bound' = [side \in Sides |-> [bound[side] EXCEPT ![l] = {}]]
    /\ UNCHANGED <<pref, faults, conns, path, latch, tix, sock>>

\* External: the TCP connection breaks; what is on its way may be lost with it.
Break(l) ==
    /\ Fault
    /\ up[l]
    /\ up' = [up EXCEPT ![l] = FALSE]
    /\ toD' \in {toD, [toD EXCEPT ![l] = <<>>]}
    /\ UNCHANGED <<pref, dialled, alive, conns, reg, med, tix, sock>>

\* The control channel has no more to give: recv fails.
Drained(side, l) == ~up[l] /\ (side = "D" => toD[l] = <<>>)

\* register_conn at A: publish, mark the predecessor dead, announce the mode;
\* then negotiate, which offers a ticket when this side runs on tier 1.
RegisterA(l) ==
    /\ Step("A", l, "greet", IF Runs("A") THEN "offer" ELSE "ready")
    /\ conns' = l
    /\ LET dead == {k \in Links : conns = k} \cup {k \in {l} : ~up[k]} IN
         alive' = [alive EXCEPT !["A"] = [k \in Links |-> @[k] /\ k \notin dead]]
    /\ toD' = IF up[l] THEN [toD EXCEPT ![l] = Append(@, "mode")] ELSE toD
    /\ UNCHANGED <<pref, faults, dialled, up, asked, deferred, told, late, bound, med, tix, sock>>

\* register_conn at D: ask for a ticket when this side runs on tier 1.
RegisterD(l) ==
    /\ Step("D", l, "greet", IF Runs("D") /\ up[l] THEN "pump" ELSE "ready")
    /\ asked' = IF Runs("D") /\ up[l] THEN asked \cup {l} ELSE asked
    /\ alive' = [alive EXCEPT !["D"][l] = up[l]]
    /\ UNCHANGED <<pref, faults, dialled, up, conns, toD, deferred, told, late, bound, med, tix, sock>>

Deadline(side, l) ==
    /\ Fault
    /\ at[side][l] \in {"pump", "offer", "mint", "await"}
    /\ late' = late \cup {<<side, l>>}
    /\ UNCHANGED <<pref, ctl, at, asked, deferred, told, bound, med, tix, sock>>

-----------------------------------------------------------------------------
(* Tickets: A offers, D dials.                                             *)

\* offer_ticket looks at the path and at the unexpired tickets of the peer; both
\* lead on to the end of negotiate, or back to the reader.
Offer(l) ==
    /\ at["A"][l] \in {"offer", "answer"}
    /\ at' = [at EXCEPT !["A"][l] =
                IF path["A"][l] # None \/ tickets # {}
                  THEN IF @ = "offer" THEN "await" ELSE "ready"
                  ELSE IF @ = "offer" THEN "mint" ELSE "mintAnswer"]
    /\ UNCHANGED <<pref, faults, ctl, asked, deferred, told, late, bound, med, tix, sock>>

\* ... mints one after that look, and sends it.
Mint(l, t) ==
    /\ at["A"][l] \in {"mint", "mintAnswer"}
    /\ t \notin minted
    /\ minted' = minted \cup {t}
    /\ tickets' = tickets \cup {t}
    /\ TellD(l, t)
    /\ at' = [at EXCEPT !["A"][l] = IF @ = "mint" THEN "await" ELSE "ready"]
    /\ UNCHANGED <<pref, faults, dialled, up, conns, asked, deferred, told, late, bound, med, sock>>

\* TICKET_TTL is over; the next look at the table drops it.
Expire(t) ==
    /\ t \in tickets
    /\ tickets' = tickets \ {t}
    /\ UNCHANGED <<pref, faults, ctl, reg, med, minted, sock>>

\* A's reader takes the request: on_request refuses, or offers.
OnRequest(l) ==
    /\ at["A"][l] = "ready" /\ alive["A"][l]
    /\ l \in asked
    /\ asked' = asked \ {l}
    /\ IF pref["A"] = "tier0"
         THEN TellD(l, "refused") /\ UNCHANGED at
         ELSE at' = [at EXCEPT !["A"][l] = "answer"] /\ UNCHANGED <<alive, toD>>
    /\ UNCHANGED <<pref, faults, dialled, up, conns, deferred, told, late, bound, med, tix, sock>>

\* on_ticket: a dial of its own, unless one is under way.
TakeTicket(l, t) ==
    IF pref["D"] = "tier0" \/ l \in attaching
      THEN UNCHANGED <<attaching, thr, on, carries, reply>>
      ELSE \E s \in Socks :
             /\ \A side \in Sides : thr[side][s] = "idle"
             /\ attaching' = attaching \cup {l}
             /\ thr' = [thr EXCEPT !["D"][s] = "dial"]
             /\ on' = [on EXCEPT !["D"][s] = l]
             /\ carries' = [carries EXCEPT ![s] = t]
             /\ reply' = [reply EXCEPT ![s] = None]

\* pump_for_ticket: the answer is acted on, everything else is parked.
Pump(l) ==
    /\ at["D"][l] = "pump" /\ toD[l] # <<>>
    /\ toD' = [toD EXCEPT ![l] = Tail(@)]
    /\ LET m == Head(toD[l]) IN
         /\ at' = [at EXCEPT !["D"][l] =
                     IF m \in Tickets THEN "await" ELSE IF m = "refused" THEN "ready" ELSE @]
         /\ IF m \in Tickets THEN TakeTicket(l, m)
            ELSE UNCHANGED <<attaching, thr, on, carries, reply>>
         /\ deferred' = IF m \in {"mode", "open"} THEN [deferred EXCEPT ![l] = Append(@, m)]
                                                  ELSE deferred
    /\ UNCHANGED <<pref, faults, dialled, up, alive, conns, asked, told, late, bound, path, latch, tix,
                   killed, open>>

\* ... until the deadline, or the connection is gone.
PumpEnds(l) ==
    /\ Step("D", l, "pump", "ready")
    /\ <<"D", l>> \in late \/ ~alive["D"][l] \/ Drained("D", l)
    /\ UNCHANGED <<pref, faults, ctl, asked, deferred, told, late, bound, med, tix, sock>>

\* Mutant: the dialling side does not look whether its dial has given up.
AwaitLoses(side, l) ==
    /\ Step(side, l, "await", "ready")
    /\ \/ path[side][l] # None \/ ~alive[side][l] \/ <<side, l>> \in late
       \/ side = "D"
    /\ UNCHANGED <<pref, faults, ctl, asked, deferred, told, late, bound, med, tix, sock>>

\* await_attach.
Await(side, l) ==
    /\ Step(side, l, "await", "ready")
    /\ \/ path[side][l] # None \/ ~alive[side][l] \/ <<side, l>> \in late
       \/ side = "D" /\ l \notin attaching
    /\ UNCHANGED <<pref, faults, ctl, asked, deferred, told, late, bound, med, tix, sock>>

-----------------------------------------------------------------------------
(* The reader, once register_conn has returned.                            *)

\* A opens a stream; it takes the media path of this moment.
OpenStream(l) ==
    /\ at["A"][l] = "ready" /\ alive["A"][l]
    /\ bound["A"][l] = {}
    /\ bound' = [bound EXCEPT !["A"][l] = {Kind("A", l)}]
    /\ TellD(l, "open")
    /\ UNCHANGED <<pref, faults, dialled, up, conns, at, asked, deferred, told, late, med, tix, sock>>

\* Mutant: the socket before the park.
ReadSocketFirst(l) ==
    LET src == IF toD[l] # <<>> THEN toD[l] ELSE deferred[l] IN
    /\ at["D"][l] = "ready" /\ alive["D"][l] /\ src # <<>>
    /\ IF toD[l] # <<>> THEN toD' = [toD EXCEPT ![l] = Tail(@)] /\ UNCHANGED deferred
                        ELSE deferred' = [deferred EXCEPT ![l] = Tail(@)] /\ UNCHANGED toD
    /\ IF Head(src) \in Tickets THEN TakeTicket(l, Head(src))
       ELSE UNCHANGED <<attaching, thr, on, carries, reply>>
    /\ bound' = IF Head(src) = "open" THEN [bound EXCEPT !["D"][l] = @ \cup {Kind("D", l)}]
                                      ELSE bound
    /\ told' = IF Head(src) = "mode" THEN told \cup {l} ELSE told
    /\ UNCHANGED <<pref, faults, dialled, up, alive, conns, at, asked, late, path, latch, tix, killed, open>>

\* conn_reader at D: the parked messages first, then the channel.
Read(l) ==
    LET src == IF deferred[l] # <<>> THEN deferred[l] ELSE toD[l] IN
    /\ at["D"][l] = "ready" /\ alive["D"][l] /\ src # <<>>
    /\ IF deferred[l] # <<>> THEN deferred' = [deferred EXCEPT ![l] = Tail(@)] /\ UNCHANGED toD
                             ELSE toD' = [toD EXCEPT ![l] = Tail(@)] /\ UNCHANGED deferred
    /\ IF Head(src) \in Tickets THEN TakeTicket(l, Head(src))
       ELSE UNCHANGED <<attaching, thr, on, carries, reply>>
    /\ bound' = IF Head(src) = "open" THEN [bound EXCEPT !["D"][l] = @ \cup {Kind("D", l)}]
                                      ELSE bound
    /\ told' = IF Head(src) = "mode" THEN told \cup {l} ELSE told
    /\ UNCHANGED <<pref, faults, dialled, up, alive, conns, at, asked, late, path, latch, tix, killed, open>>

\* The reader ends and teardown_conn marks the end dead and kills its media
\* link, if there is one by now ...
Teardown(side, l) ==
    /\ Step(side, l, "ready", "torn")
    /\ ~alive[side][l] \/ Drained(side, l)
    /\ alive' = [alive EXCEPT ![side][l] = FALSE]
    /\ killed' = [killed EXCEPT ![side] =
                    @ \cup {s \in Socks : path[side][l] = s}]
    /\ UNCHANGED <<pref, faults, dialled, up, conns, toD, asked, deferred, told, late, bound, med, tix,
                   thr, on, carries, reply, open>>

\* ... and takes it out of the registry; its socket closes.
Retire(side, l) ==
    /\ Step(side, l, "torn", "none")
    /\ conns' = IF side = "A" /\ conns = l THEN None ELSE conns
    /\ up' = [up EXCEPT ![l] = FALSE]
    /\ UNCHANGED <<pref, faults, dialled, alive, toD, asked, deferred, told, late, bound, med, tix, sock>>

-----------------------------------------------------------------------------
(* The media connection: dial_and_serve at D, claim at A.                  *)

Ended(side, s) ==
    /\ thr' = [thr EXCEPT ![side][s] = "idle"]
    /\ on' = [on EXCEPT ![side][s] = None]
    /\ killed' = [killed EXCEPT ![side] = @ \ {s}]

\* The claim on the latch is dropped, whatever the way out.
Unlatch(side, s) == latch' = [latch EXCEPT ![side][on[side][s]] = FALSE]

\* AttachClaim::take, before the socket exists.
TakeLatch(s) ==
    LET l == on["D"][s] IN
    /\ thr["D"][s] = "dial"
    /\ IF latch["D"][l]
         THEN Walk("D", s, "dial", "failed") /\ UNCHANGED latch
         ELSE Walk("D", s, "dial", "dialling") /\ latch' = [latch EXCEPT !["D"][l] = TRUE]
    /\ UNCHANGED <<pref, faults, ctl, reg, path, attaching, tix, on, killed, carries, reply, open>>

Dial(s) ==
    /\ thr["D"][s] = "dialling"
    /\ thr' = [thr EXCEPT !["D"][s] = "presented", !["A"][s] = "accepted"]
    /\ open' = [open EXCEPT ![s] = TRUE]
    /\ UNCHANGED <<pref, faults, ctl, reg, med, tix, on, killed, carries, reply>>

\* A refusal, or a socket that was closed under it; and, as a fault, no connection
\* or no answer in time.
DialFails(s) ==
    /\ thr["D"][s] \in {"dialling", "presented"}
    /\ IF thr["D"][s] = "presented" /\ (reply[s] = "error" \/ ~open[s])
         THEN UNCHANGED faults ELSE Fault
    /\ thr' = [thr EXCEPT !["D"][s] = "failed"]
    /\ Unlatch("D", s)
    /\ open' = [open EXCEPT ![s] = FALSE]
    /\ UNCHANGED <<pref, ctl, reg, path, attaching, tix, on, killed, carries, reply>>

Accepted(s) ==
    /\ reply[s] = "ok"
    /\ Walk("D", s, "presented", "installing")
    /\ UNCHANGED <<pref, faults, ctl, reg, med, tix, on, killed, carries, reply, open>>

\* The error arm of on_ticket's thread lets a later ticket try again.
GiveUp(s) ==
    /\ thr["D"][s] = "failed"
    /\ attaching' = attaching \ {on["D"][s]}
    /\ Ended("D", s)
    /\ UNCHANGED <<pref, faults, ctl, reg, path, latch, tix, carries, reply, open>>

Refuse(s) ==
    /\ reply' = [reply EXCEPT ![s] = "error"]
    /\ open' = [open EXCEPT ![s] = FALSE]
    /\ Ended("A", s)

\* claim_ticket: a ticket is spent by looking it up.
Spend(s) ==
    /\ thr["A"][s] = "accepted"
    /\ IF carries[s] \in tickets
         THEN /\ tickets' = tickets \ {carries[s]}
              /\ Walk("A", s, "accepted", "spent")
              /\ UNCHANGED <<on, killed, reply, open>>
         ELSE Refuse(s) /\ UNCHANGED tickets
    /\ UNCHANGED <<pref, faults, ctl, reg, med, minted, carries>>

\* claim: whatever connection is registered for the peer by now, if it lives.
FindConn(s) ==
    /\ thr["A"][s] = "spent"
    /\ IF conns # None /\ alive["A"][conns]
         THEN /\ Walk("A", s, "spent", "found")
              /\ on' = [on EXCEPT !["A"][s] = conns]
              /\ UNCHANGED <<killed, reply, open>>
         ELSE Refuse(s)
    /\ UNCHANGED <<pref, faults, ctl, reg, med, tix, carries>>

\* Mutant: a look at media_path, with the install some time later.
ClaimLooks(s) ==
    LET l == on["A"][s] IN
    /\ thr["A"][s] = "found"
    /\ IF path["A"][l] # None
         THEN Refuse(s) /\ UNCHANGED latch
         ELSE /\ Walk("A", s, "found", "acking")
              /\ latch' = [latch EXCEPT !["A"][l] = TRUE]
              /\ UNCHANGED <<on, killed, reply, open>>
    /\ UNCHANGED <<pref, faults, ctl, reg, path, attaching, tix, carries>>

\* AttachClaim::take: the latch is the arbiter, not the path.
ClaimLatch(s) ==
    LET l == on["A"][s] IN
    /\ thr["A"][s] = "found"
    /\ IF latch["A"][l]
         THEN Refuse(s) /\ UNCHANGED latch
         ELSE /\ Walk("A", s, "found", "acking")
              /\ latch' = [latch EXCEPT !["A"][l] = TRUE]
              /\ UNCHANGED <<on, killed, reply, open>>
    /\ UNCHANGED <<pref, faults, ctl, reg, path, attaching, tix, carries>>

Ack(s) ==
    /\ thr["A"][s] = "acking"
    /\ IF open[s]
         THEN /\ Walk("A", s, "acking", "installing")
              /\ reply' = [reply EXCEPT ![s] = "ok"]
              /\ UNCHANGED <<latch, on, killed>>
         ELSE Ended("A", s) /\ Unlatch("A", s) /\ UNCHANGED reply
    /\ UNCHANGED <<pref, faults, ctl, reg, path, attaching, tix, carries, open>>

-----------------------------------------------------------------------------
(* serve, at either end.                                                   *)

Install(side, s) ==
    /\ Walk(side, s, "installing", "serving")
    /\ path' = [path EXCEPT ![side][on[side][s]] = s]
    /\ UNCHANGED <<pref, faults, ctl, reg, latch, attaching, tix, on, killed, carries, reply, open>>

\* A socket option, the clone or the spawn fails: the socket is dropped.
InstallFails(side, s) ==
    /\ Fault
    /\ thr[side][s] = "installing"
    /\ Unlatch(side, s)
    /\ open' = [open EXCEPT ![s] = FALSE]
    /\ IF side = "D" THEN Walk(side, s, "installing", "failed") /\ UNCHANGED <<on, killed>>
                     ELSE Ended(side, s)
    /\ UNCHANGED <<pref, ctl, reg, path, attaching, tix, carries, reply>>

\* External: the media TCP connection breaks.
BreakMedia(s) ==
    /\ Fault
    /\ open[s]
    /\ open' = [open EXCEPT ![s] = FALSE]
    /\ UNCHANGED <<pref, ctl, reg, med, tix, thr, on, killed, carries, reply>>

\* Mutant: the reader asks its link only, not the connection that owns it.
StopOnKill(side, s) ==
    /\ Walk(side, s, "serving", "stopped")
    /\ s \in killed[side] \/ ~open[s]
    /\ killed' = [killed EXCEPT ![side] = @ \cup {s}]
    /\ open' = [open EXCEPT ![s] = FALSE]
    /\ UNCHANGED <<pref, faults, ctl, reg, med, tix, on, carries, reply>>

\* read_loop ends: the end of its connection, of its link, or of the socket.
Stop(side, s) ==
    /\ Walk(side, s, "serving", "stopped")
    /\ ~alive[side][on[side][s]] \/ s \in killed[side] \/ ~open[s]
    /\ killed' = [killed EXCEPT ![side] = @ \cup {s}]
    /\ open' = [open EXCEPT ![s] = FALSE]
    /\ UNCHANGED <<pref, faults, ctl, reg, med, tix, on, carries, reply>>

\* Mutant: the path keeps the dead link.
RestoreForgets(side, s) ==
    /\ Walk(side, s, "stopped", "restored")
    /\ UNCHANGED <<pref, faults, ctl, reg, med, tix, on, killed, carries, reply, open>>

\* The path goes back to UDP,
Restore(side, s) ==
    /\ Walk(side, s, "stopped", "restored")
    /\ path' = [path EXCEPT ![side][on[side][s]] = None]
    /\ UNCHANGED <<pref, faults, ctl, reg, latch, attaching, tix, on, killed, carries, reply, open>>

\* Mutant: only a dial that fails clears the flag.
ClearForgets(side, s) ==
    /\ Walk(side, s, "restored", "cleared")
    /\ UNCHANGED <<pref, faults, ctl, reg, med, tix, on, killed, carries, reply, open>>

\* a waiter stops believing that a link is coming,
Clear(side, s) ==
    /\ Walk(side, s, "restored", "cleared")
    /\ attaching' = IF side = "D" THEN attaching \ {on[side][s]} ELSE attaching
    /\ UNCHANGED <<pref, faults, ctl, reg, path, latch, tix, on, killed, carries, reply, open>>

\* Mutant: the control connection is left up.
DropControlSkipped(side, s) ==
    /\ Walk(side, s, "cleared", "over")
    /\ UNCHANGED <<pref, faults, ctl, reg, med, tix, on, killed, carries, reply, open>>

\* the control connection is dropped too,
DropControl(side, s) ==
    /\ Walk(side, s, "cleared", "over")
    /\ alive' = [alive EXCEPT ![side][on[side][s]] = FALSE]
    /\ UNCHANGED <<pref, faults, dialled, up, conns, toD, reg, med, tix, on, killed, carries, reply, open>>

\* and the latch with the claim.
Leave(side, s) ==
    /\ thr[side][s] = "over"
    /\ Unlatch(side, s)
    /\ Ended(side, s)
    /\ UNCHANGED <<pref, faults, ctl, reg, path, attaching, tix, carries, reply, open>>

-----------------------------------------------------------------------------
Init ==
    /\ pref \in Prefs
    /\ dialled = 0 /\ faults = 0
    /\ up = [l \in Links |-> FALSE]
    /\ alive = [side \in Sides |-> [l \in Links |-> FALSE]]
    /\ conns = None
    /\ at = [side \in Sides |-> [l \in Links |-> "none"]]
    /\ asked = {} /\ told = {} /\ late = {} /\ attaching = {}
    /\ toD = [l \in Links |-> <<>>]
    /\ deferred = [l \in Links |-> <<>>]
    /\ path = [side \in Sides |-> [l \in Links |-> None]]
    /\ latch = [side \in Sides |-> [l \in Links |-> FALSE]]
    /\ bound = [side \in Sides |-> [l \in Links |-> {}]]
    /\ tickets = {} /\ minted = {}
    /\ thr = [side \in Sides |-> [s \in Socks |-> "idle"]]
    /\ on = [side \in Sides |-> [s \in Socks |-> None]]
    /\ killed = [side \in Sides |-> {}]
    /\ carries = [s \in Socks |-> None]
    /\ reply = [s \in Socks |-> None]
    /\ open = [s \in Socks |-> FALSE]

\* What the threads of a connection do of their own accord ...
RegisterStep(l) ==
    \/ RegisterA(l) \/ RegisterD(l)
    \/ Offer(l) \/ \E t \in Tickets : Mint(l, t)
    \/ PumpEnds(l) \/ \E side \in Sides : Await(side, l)

ReaderStep(side, l) ==
    \/ side = "A" /\ OnRequest(l)
    \/ side = "D" /\ (Pump(l) \/ Read(l))
    \/ Teardown(side, l) \/ Retire(side, l)

\* ... and those of a media connection.
AttachStep(side, s) ==
    \/ side = "D" /\ (TakeLatch(s) \/ Dial(s) \/ Accepted(s) \/ GiveUp(s))
    \/ side = "A" /\ (Spend(s) \/ FindConn(s) \/ ClaimLatch(s) \/ Ack(s))
    \/ Install(side, s) \/ Leave(side, s)

ServeEnds(side, s) ==
    Stop(side, s) \/ Restore(side, s) \/ Clear(side, s) \/ DropControl(side, s)

Next ==
    \/ \E l \in Links : Connect(l) \/ Break(l) \/ OpenStream(l) \/ RegisterStep(l)
    \/ \E side \in Sides, l \in Links : Deadline(side, l) \/ ReaderStep(side, l)
    \/ \E t \in Tickets : Expire(t)
    \/ \E s \in Socks : DialFails(s) \/ BreakMedia(s)
    \/ \E side \in Sides, s \in Socks :
          AttachStep(side, s) \/ ServeEnds(side, s) \/ InstallFails(side, s)

\* A thread that runs goes on: its reads and writes have timeouts, and a dial
\* whose socket is closed fails.
Fairness ==
    /\ \A l \in Links : WF_vars(RegisterStep(l))
    /\ \A side \in Sides, l \in Links : WF_vars(ReaderStep(side, l))
    /\ \A side \in Sides, s \in Socks : WF_vars(AttachStep(side, s)) /\ WF_vars(ServeEnds(side, s))
    /\ \A s \in Socks : WF_vars((reply[s] = "error" \/ ~open[s]) /\ DialFails(s))

Spec == Init /\ [][Next]_vars /\ Fairness

-----------------------------------------------------------------------------
(* Correctness.                                                            *)

Holding == {"dialling", "presented", "acking", "installing", "serving", "stopped",
            "restored", "cleared", "over"}

TypeOK ==
    /\ pref \in Prefs
    /\ dialled \in 0 .. MaxConns /\ faults \in 0 .. MaxFaults
    /\ up \in [Links -> BOOLEAN]
    /\ alive \in [Sides -> [Links -> BOOLEAN]]
    /\ conns \in Links \cup {None}
    /\ at \in [Sides -> [Links -> {"none", "greet", "offer", "mint", "pump", "await", "ready",
                                   "answer", "mintAnswer", "torn"}]]
    /\ asked \subseteq Links /\ told \subseteq Links /\ attaching \subseteq Links
    /\ late \subseteq Sides \X Links
    /\ toD \in [Links -> Seq(Tickets \cup {"mode", "open", "refused"})]
    /\ deferred \in [Links -> Seq({"mode", "open"})]
    /\ path \in [Sides -> [Links -> Socks \cup {None}]]
    /\ latch \in [Sides -> [Links -> BOOLEAN]]
    /\ bound \in [Sides -> [Links -> SUBSET {"udp", "tcp"}]]
    /\ tickets \subseteq minted /\ minted \subseteq Tickets
    /\ thr \in [Sides -> [Socks -> Holding \cup {"idle", "dial", "failed", "accepted", "spent",
                                                "found"}]]
    /\ on \in [Sides -> [Socks -> Links \cup {None}]]
    /\ killed \in [Sides -> SUBSET Socks]
    /\ carries \in [Socks -> Tickets \cup {None}]
    /\ reply \in [Socks -> {"ok", "error", None}]
    /\ open \in [Socks -> BOOLEAN]

\* The latch of an end is taken exactly while one thread installs or serves a
\* link there: two never do (one would overwrite the other's media_path and
\* leave a writer nobody reads), and no way out keeps it (the connection would
\* refuse every attach for its whole life).
OneServant ==
    \A side \in Sides, l \in Links :
        LET h == {s \in Socks : thr[side][s] \in Holding /\ on[side][s] = l} IN
        Cardinality(h) = IF latch[side][l] THEN 1 ELSE 0

\* media_path names a link whose reader is at work, or just about to take it
\* back: "a future stream does not attach to a corpse".
PathIsServed ==
    \A side \in Sides, l \in Links : path[side][l] # None =>
        /\ on[side][path[side][l]] = l
        /\ thr[side][path[side][l]] \in {"serving", "stopped"}

\* media_attaching says that a dial is under way and is no more than that: a
\* flag left behind would be one failed dial made permanent.
AttachingHasDial ==
    \A l \in attaching : Servants("D", l) # {}

\* The park keeps the order of the control channel: no stream of the peer opens
\* before its ModeState has been heard.
ChannelOrder ==
    \A l \in Links : bound["D"][l] # {} => l \in told

Dialling(l) ==
    \E s \in Servants("D", l) : thr["D"][s] \in {"dial", "dialling", "presented", "installing"}

\* register_conn at D is held open for as long as the dial lasts, whichever thread
\* it is that dials: it returns, and streams open, with the link up, with the dial
\* failed, with the connection dead, or after ATTACH_TIMEOUT.
HeldWhileDialling ==
    [][\A l \in Links : at["D"][l] = "await" /\ at'["D"][l] # "await" =>
          ~Dialling(l) \/ ~alive["D"][l] \/ <<"D", l>> \in late]_vars

\* A media link never outlives the connection it belongs to: serve on a dead
\* connection ends even when the teardown ran before the link was published.
DeadConnLetsGo ==
    \A side \in Sides, l \in Links :
        path[side][l] # None /\ ~alive[side][l] ~> path[side][l] = None

\* "A dead media path as loud as a dead control path": when the media connection
\* is gone, each end that served it drops the control connection it served it on.
LostMediaDropsControl ==
    \A side \in Sides, l \in Links :
        path[side][l] # None /\ ~open[path[side][l]] ~> ~alive[side][l]

\* Documented (on_request): the asker of a ticket gets an answer, and need not
\* infer a refusal from a timeout, while the connection lives.  The code does not keep
\* it (README, section 5).
RequestAnswered ==
    \A l \in Links :
        at["D"][l] = "pump" /\ toD[l] = <<>> /\ up[l] /\ alive["A"][l] =>
            \/ l \in asked
            \/ at["A"][l] \in {"greet", "offer", "mint", "answer", "mintAnswer"}
=============================================================================
