--------------------------- MODULE MCSessionTable ---------------------------
(* Small instances of SessionTable for TLC.                                *)
EXTENDS SessionTable, TLC

CONSTANTS c1, c2, p1, i1, i2, o1, o2, r1, u1, setter, watcher

OnePeer == [c \in Conns |-> p1]

PeerSpk == [origin |-> "Peer", shape |-> "spk"]
PeerMic == [origin |-> "Peer", shape |-> "mic"]
PeerAlt == [origin |-> "Peer", shape |-> "alt"]
UserSpk == [origin |-> "User", shape |-> "spk"]
UserMic == [origin |-> "User", shape |-> "mic"]
HalSpk  == [origin |-> "Hal",  shape |-> "spk"]

OfferReceive == {PeerSpk, UserMic}
OfferBoth    == {PeerSpk, PeerMic, UserMic}
OfferDevices == {PeerSpk, PeerMic, PeerAlt}
OfferModes   == {PeerMic, UserSpk, HalSpk}

IdSymmetry == Permutations(Ids)
=============================================================================
