--------------------------- MODULE MCMqttPublish ---------------------------
(* Small instances of MqttPublish for TLC.                                 *)
EXTENDS MqttPublish, TLC

CONSTANTS m1, m2, m3

MCMsgs == {m1, m2, m3}
MCTwoMsgs == {m1, m2}

Symmetry == Permutations(Msgs)
=============================================================================
