----------------------------- MODULE StreamPool -----------------------------
(***************************************************************************)
(* What the stream table of a daemon promises the 10 ms audio loops and    *)
(* the peers, without saying which thread does what: a stream id is free,  *)
(* claimed for a connection, or live on one; both count against the caps;  *)
(* a stream goes live only on a connection that is up; and a connection    *)
(* comes back up only when nothing of its past is left.                    *)
(* SessionTable implements it (SessionTable!Pool).                         *)
(***************************************************************************)
EXTENDS Integers, FiniteSets

CONSTANTS Conns, Ids, MaxPerConn, MaxTotal, None

VARIABLES
    up,     \* the connections that may still carry a new stream
    phase,  \* "free", "claimed" or "live"
    owner   \* the connection a stream that is not free belongs to

vars == <<up, phase, owner>>

Held      == {i \in Ids : phase[i] # "free"}
HeldBy(c) == {i \in Held : owner[i] = c}

Reserve(i, c) ==
    /\ up[c] /\ phase[i] = "free"
    /\ Cardinality(Held) < MaxTotal
    /\ Cardinality(HeldBy(c)) < MaxPerConn
    /\ phase' = [phase EXCEPT ![i] = "claimed"]
    /\ owner' = [owner EXCEPT ![i] = c]
    /\ UNCHANGED up

Commit(i) ==
    /\ phase[i] = "claimed" /\ up[owner[i]]
    /\ phase' = [phase EXCEPT ![i] = "live"]
    /\ UNCHANGED <<up, owner>>

Drop(i) ==
    /\ phase[i] # "free"
    /\ phase' = [phase EXCEPT ![i] = "free"]
    /\ owner' = [owner EXCEPT ![i] = None]
    /\ UNCHANGED up

GoDown(c) ==
    /\ up' = [up EXCEPT ![c] = FALSE]
    /\ UNCHANGED <<phase, owner>>

ComeUp(c) ==
    /\ ~up[c] /\ HeldBy(c) = {}
    /\ up' = [up EXCEPT ![c] = TRUE]
    /\ UNCHANGED <<phase, owner>>

Init ==
    /\ up = [c \in Conns |-> TRUE]
    /\ phase = [i \in Ids |-> "free"]
    /\ owner = [i \in Ids |-> None]

Next ==
    \/ \E i \in Ids, c \in Conns : Reserve(i, c)
    \/ \E i \in Ids : Commit(i) \/ Drop(i)
    \/ \E c \in Conns : GoDown(c) \/ ComeUp(c)

Spec == Init /\ [][Next]_vars
=============================================================================
