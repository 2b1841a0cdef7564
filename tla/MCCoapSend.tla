----------------------------- MODULE MCCoapSend -----------------------------
(* A small instance of CoapSend: the peers' ids overlap the ids the server *)
(* gives, and those wrap within the run.                                   *)
EXTENDS CoapSend, TLC

MCPeerIds == {1}
MCSymmetry == Permutations(Notifiers)
=============================================================================
