------------------------------- MODULE DialRace -------------------------------
(***************************************************************************)
(* Two daemons that dial each other (core/audiohubd/src/conn.rs:           *)
(* connect_peer, handle_inbound, register_conn, conn_reader, ping_and_reap)*)
(*                                                                         *)
(* Each daemon keeps one connection to the other in state.conns. A dial    *)
(* ends in a handshake and then in register_conn at both ends, each at its *)
(* own time; two dials may be under way at once, one from each side, or    *)
(* two from one side (a retry beside a user). A newcomer that finds a      *)
(* fresh registered connection asks a tie-break that both ends answer      *)
(* alike: the connection whose initiator has the lower fingerprint stays.  *)
(*                                                                         *)
(* SessionTable has the threads of one daemon that tear a connection down. *)
(***************************************************************************)
EXTENDS Naturals

CONSTANTS
    Links,      \* TCP connections
    Diallers,   \* the threads that may be in connect_peer, of either daemon
    SideOf,     \* the daemon of each: "low" has the lower fingerprint
    MaxFaults,  \* bound: losses, failed handshakes and delays past the window
    None

Sides == {"low", "high"}

ASSUME DialConstants ==
    /\ SideOf \in [Diallers -> Sides]
    /\ MaxFaults \in Nat
    /\ None \notin Links \cup Diallers

VARIABLES
    by,      \* who dialled the link
    end,     \* the link at each end: "idle" (no such connection), "shaking"
             \* (register_conn still to come), "up" (alive, its reader reading),
             \* "dead" (alive is false, its reader still to notice), "over"
    conns,   \* state.conns: the registered connection at each side
    stale,   \* ... is older there than SIMULTANEOUS_WINDOW
    mute,    \* the links on which nothing arrives any more, not even an end
    faults

vars == <<by, end, conns, stale, mute, faults>>

Other(s) == IF s = "low" THEN "high" ELSE "low"

Initiator(l) == SideOf[by[l]]

\* old.initiator_fp <= conn.initiator_fp
NotAbove(l, k) == Initiator(l) = "low" \/ Initiator(k) = "high"

Alive(s) == conns[s] # None /\ end[s][conns[s]] = "up"

Unused(l) == \A s \in Sides : end[s][l] \in {"idle", "over"}

\* Nothing but silence, or an end, comes from the other end.
Unanswered(s, l) == l \in mute \/ end[Other(s)][l] = "over"

Fault == faults < MaxFaults /\ faults' = faults + 1

-----------------------------------------------------------------------------
\* connect_peer: no live connection here, so dial; the handshake goes through.
\* What the look found is old when register_conn runs. A dialler has one dial
\* at a time. A link that is over at both ends is used again for a new one.
Dial(d, l) ==
    /\ ~Alive(SideOf[d])
    /\ \A k \in Links : ~(by[k] = d /\ end[SideOf[d]][k] = "shaking")
    /\ Unused(l)
    /\ by' = [by EXCEPT ![l] = d]
    /\ end' = [s \in Sides |-> [end[s] EXCEPT ![l] = "shaking"]]
    /\ mute' = mute \ {l}
    /\ UNCHANGED <<conns, stale, faults>>

\* Mutant of Keep: a connection we dialled ourselves is kept as well.
KeepOwn(s, l) ==
    Alive(s) /\ ~stale[s] /\ (Initiator(conns[s]) = s \/ NotAbove(conns[s], l))

\* keep_existing.
Keep(s, l) ==
    Alive(s) /\ ~stale[s] /\ NotAbove(conns[s], l)

\* Mutants of Register: the newcomer always wins; what it replaces lives on.
RegisterNewest(s, l) ==
    /\ end[s][l] = "shaking"
    /\ conns' = [conns EXCEPT ![s] = l]
    /\ stale' = [stale EXCEPT ![s] = FALSE]
    /\ end' = [end EXCEPT ![s] = [k \in Links |->
                 IF k = l THEN "up" ELSE IF k = conns[s] /\ @[k] = "up" THEN "dead" ELSE @[k]]]
    /\ UNCHANGED <<by, mute, faults>>

RegisterLeavesOld(s, l) ==
    /\ end[s][l] = "shaking"
    /\ IF Keep(s, l)
         THEN /\ end' = [end EXCEPT ![s][l] = "over"]
              /\ UNCHANGED <<conns, stale>>
         ELSE /\ conns' = [conns EXCEPT ![s] = l]
              /\ stale' = [stale EXCEPT ![s] = FALSE]
              /\ end' = [end EXCEPT ![s][l] = "up"]
    /\ UNCHANGED <<by, mute, faults>>

\* register_conn: the newcomer is dropped, or replaces what is registered,
\* which is dead from now on.
Register(s, l) ==
    /\ end[s][l] = "shaking"
    /\ IF Keep(s, l)
         THEN /\ end' = [end EXCEPT ![s][l] = "over"]
              /\ UNCHANGED <<conns, stale>>
         ELSE /\ conns' = [conns EXCEPT ![s] = l]
              /\ stale' = [stale EXCEPT ![s] = FALSE]
              /\ end' = [end EXCEPT ![s] = [k \in Links |->
                           IF k = l THEN "up"
                           ELSE IF k = conns[s] /\ @[k] = "up" THEN "dead" ELSE @[k]]]
    /\ UNCHANGED <<by, mute, faults>>

\* The reader of a connection leaves its loop at the end of file, or
\* ping_and_reap gives the connection up after five silent seconds.
MarkDead(s, l) ==
    /\ end[s][l] = "up" /\ Unanswered(s, l)
    /\ end' = [end EXCEPT ![s][l] = "dead"]
    /\ UNCHANGED <<by, conns, stale, mute, faults>>

\* The rest of teardown_conn: the registration goes if it is still its own, and
\* the socket with the last reference to the connection.
TearDown(s, l) ==
    /\ end[s][l] = "dead"
    /\ end' = [end EXCEPT ![s][l] = "over"]
    /\ conns' = [conns EXCEPT ![s] = IF @ = l THEN None ELSE @]
    /\ UNCHANGED <<by, stale, mute, faults>>

-----------------------------------------------------------------------------
\* A path goes silent: no byte and no end of file arrives at either end.
GoesMute(l) ==
    /\ Fault
    /\ l \notin mute /\ ~Unused(l)
    /\ mute' = mute \cup {l}
    /\ UNCHANGED <<by, end, conns, stale>>

\* One end is closed: the peer says Bye or is dropped by a user, a handshake
\* times out at one end only.
Closes(s, l) ==
    /\ Fault
    /\ end[s][l] \in {"shaking", "up"}
    /\ end' = [end EXCEPT ![s][l] = IF @ = "up" THEN "dead" ELSE "over"]
    /\ UNCHANGED <<by, conns, stale, mute>>

\* The registered connection of a side leaves the window of the tie-break.
Ages(s) ==
    /\ Fault
    /\ conns[s] # None /\ ~stale[s]
    /\ stale' = [stale EXCEPT ![s] = TRUE]
    /\ UNCHANGED <<by, end, conns, mute>>

Init ==
    /\ by = [l \in Links |-> None]
    /\ end = [s \in Sides |-> [l \in Links |-> "idle"]]
    /\ conns = [s \in Sides |-> None]
    /\ stale = [s \in Sides |-> FALSE]
    /\ mute = {}
    /\ faults = 0

Next ==
    \/ \E d \in Diallers, l \in Links : Dial(d, l)
    \/ \E s \in Sides, l \in Links : Register(s, l) \/ MarkDead(s, l)
    \/ \E s \in Sides, l \in Links : TearDown(s, l) \/ Closes(s, l)
    \/ \E l \in Links : GoesMute(l)
    \/ \E s \in Sides : Ages(s)

\* A finished handshake is registered or times out, a reader or the ticker
\* notices the end of a connection, and a daemon without one dials again
\* (supervisor_loop, coordinate_sessions).
Fairness ==
    /\ \A s \in Sides, l \in Links :
         WF_vars(Register(s, l)) /\ WF_vars(MarkDead(s, l)) /\ WF_vars(TearDown(s, l))
    /\ \A d \in Diallers : WF_vars(\E l \in Links : Dial(d, l))

Spec == Init /\ [][Next]_vars /\ Fairness

-----------------------------------------------------------------------------
TypeOK ==
    /\ by \in [Links -> Diallers \cup {None}]
    /\ end \in [Sides -> [Links -> {"idle", "shaking", "up", "dead", "over"}]]
    /\ conns \in [Sides -> Links \cup {None}]
    /\ stale \in [Sides -> BOOLEAN]
    /\ mute \subseteq Links
    /\ faults \in 0..MaxFaults

Linked(l) == \A s \in Sides : conns[s] = l /\ end[s][l] = "up"

\* The loser of the tie-break drops its own connection and never evicts the
\* peer's, "which is what used to let both sides tear down both connections":
\* without a fault, of all the connections two daemons dialled at once one is
\* untouched at both ends, whatever the order of the four registrations.
OneIsLeft ==
    faults = 0 /\ (\E l \in Links : by[l] # None) =>
        \E l \in Links : \A s \in Sides : end[s][l] \in {"shaking", "up"}

\* The tie-break never undoes what is settled: without a fault no later dial takes down
\* a connection both ends have registered, from however many threads they come, but
\* one of the lower side may take the place of one of the higher.
EstablishedStays ==
    [][\A l \in Links : Linked(l) /\ faults' = 0 =>
          \/ Linked(l)'
          \/ /\ Initiator(l) = "high"
             /\ \E s \in Sides, k \in Links : conns'[s] = k /\ Initiator(k) = "low"]_vars

\* Each daemon has one live connection to a peer, and it is the registered one:
\* whatever else is up there is on its way out.
OneLivePerSide ==
    \A s \in Sides, l \in Links : end[s][l] = "up" => conns[s] = l

\* What side s has of a connection: only between its registration and its end.
Standing(s, l) ==
    CASE end[s][l] = "up"   -> "live"
      [] end[s][l] = "dead" -> "dead"
      [] OTHER              -> "off"

LowRegistry == INSTANCE PeerRegistry WITH
                   Conns  <- Links,
                   Peers  <- {"high"},
                   PeerOf <- [l \in Links |-> "high"],
                   phase  <- [l \in Links |-> Standing("low", l)],
                   reg    <- [p \in {"high"} |-> conns["low"]]

HighRegistry == INSTANCE PeerRegistry WITH
                    Conns  <- Links,
                    Peers  <- {"low"},
                    PeerOf <- [l \in Links |-> "low"],
                    phase  <- [l \in Links |-> Standing("high", l)],
                    reg    <- [p \in {"low"} |-> conns["high"]]

\* Each daemon keeps the promise of its registry while both dial: a live connection
\* is the registered one, so there is never a second, and it goes only when dead or
\* replaced.
ImplementsRegistry == LowRegistry!Spec /\ HighRegistry!Spec

\* After the last fault the two daemons settle on one connection and keep it.
Converges == <>[](\E l \in Links : Linked(l))
=============================================================================
