---------------------------- MODULE PeerRegistry ----------------------------
(***************************************************************************)
(* What state.conns promises whoever looks a peer up in it, without saying *)
(* which thread does what: a connection is registered once, and stays so   *)
(* until a newer one takes its place or it is dead; the one whose place is *)
(* taken dies; the end of a connection takes its own registration away and *)
(* never its successor's; and what comes back has left everything behind.  *)
(* SessionTable, DialRace and Reconnect see register_conn and              *)
(* teardown_conn each from another side, and each implements it.           *)
(***************************************************************************)
CONSTANTS Conns, Peers, PeerOf, None

VARIABLES
    phase,  \* "off" (nothing of it here), "live", "ousted" (live, with a newer
            \* one in its place) or "dead"
    reg     \* the registered connection of each peer

vars == <<phase, reg>>

\* A newcomer takes the place of what was there, which is marked dead at once or
\* by whoever registered it.
Enter(c) ==
    LET old == reg[PeerOf[c]] IN
    /\ phase[c] = "off"
    /\ reg' = [reg EXCEPT ![PeerOf[c]] = c]
    /\ \E next \in {"ousted", "dead"} :
         phase' = [k \in Conns |-> IF k = c THEN "live"
                                   ELSE IF k = old /\ phase[k] = "live" THEN next
                                   ELSE phase[k]]

Die(c) ==
    /\ phase[c] \in {"live", "ousted"}
    /\ phase' = [phase EXCEPT ![c] = "dead"]
    /\ UNCHANGED reg

\* A teardown, one of several maybe: the registration goes if it is its own.
Leave(c) ==
    /\ phase[c] = "dead"
    /\ reg' = [reg EXCEPT ![PeerOf[c]] = IF @ = c THEN None ELSE @]
    /\ phase' \in {phase, [phase EXCEPT ![c] = "off"]}

Init ==
    /\ phase = [c \in Conns |-> "off"]
    /\ reg = [p \in Peers |-> None]

Next == \E c \in Conns : Enter(c) \/ Die(c) \/ Leave(c)

Spec == Init /\ [][Next]_vars
=============================================================================
