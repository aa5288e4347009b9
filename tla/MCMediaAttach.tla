----------------------------- MODULE MCMediaAttach -----------------------------
(* Small instances of MediaAttach for TLC.                                 *)
EXTENDS MediaAttach, TLC

CONSTANTS l1, l2, s1, s2, t1, t2

Pair(d, a) == [side \in Sides |-> IF side = "D" THEN d ELSE a]

\* Only D's operator has pinned tier 1; both on tier 1; and the ways in which they disagree and still talk.
OneAuto == {Pair("tier1", "auto")}
Both   == {Pair("tier1", "tier1")}
Prefer == {Pair("tier1", "auto"), Pair("auto", "tier1"), Pair("tier1", "tier0"),
           Pair("tier0", "tier1"), Pair("tier1", "tier1")}

AnyName == Permutations(Links) \cup Permutations(Socks) \cup Permutations(Tickets)
=============================================================================
