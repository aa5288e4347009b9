------------------------------ MODULE MCDialRace ------------------------------
(* Small instances of DialRace for TLC.                                    *)
EXTENDS DialRace

CONSTANTS l1, l2, l3, d1, d2, e1, e2

OneEach == [d \in Diallers |-> IF d \in {d1, d2} THEN "low" ELSE "high"]
=============================================================================
