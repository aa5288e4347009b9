--------------------------- MODULE MCHalSessions ---------------------------
(* Small instances of HalSessions for TLC.                                 *)
EXTENDS HalSessions, TLC

CONSTANTS p1, p2, x1, x2, d1
=============================================================================
