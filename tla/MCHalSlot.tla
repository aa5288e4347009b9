----------------------------- MODULE MCHalSlot -----------------------------
(* Small instances of HalSlot for TLC.                                     *)
EXTENDS HalSlot, TLC

CONSTANTS p1, p2

MCPeers == {p1, p2}

\* Two peers for one slot: the second waits until the first is unpaired.
TwoPaired == {<<p1, p2>>}
=============================================================================
