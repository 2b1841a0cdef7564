---------------------------- MODULE MCDmUpstream ----------------------------
(* Small instances of DmUpstream.                                          *)
EXTENDS DmUpstream, TLC

CONSTANTS p1, p2, d, t

MCPosters == {p1, p2}
MCReceivers == {d, t}
=============================================================================
