----------------------------- MODULE MCMuxLink -----------------------------
(* A small instance of MuxLink for TLC.                                    *)
EXTENDS MuxLink, TLC
=============================================================================
