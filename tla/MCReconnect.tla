---------------------------- MODULE MCReconnect ----------------------------
(* Small instances of Reconnect for TLC: plans are counts up to MaxCount.  *)
EXTENDS Reconnect, TLC

CONSTANTS i1, i2, c1, c2, c3, t1, t2, u1

ThreadSymmetry == Permutations(Retriers) \cup Permutations(Conns)
=============================================================================
