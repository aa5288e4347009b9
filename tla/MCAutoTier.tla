----------------------------- MODULE MCAutoTier -----------------------------
(* Small instances of AutoTier for TLC.                                    *)
EXTENDS AutoTier, TLC

CONSTANTS l1, l2

\* Nobody has pinned anything yet.
Start(d, a) == [s \in Sides |-> IF s = "D" THEN d ELSE a]
Unpinned == {Start("auto", "auto")}
=============================================================================
