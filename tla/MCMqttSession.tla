--------------------------- MODULE MCMqttSession ---------------------------
(* Small instances of MqttSession for TLC.                                 *)
EXTENDS MqttSession, TLC

CONSTANTS y1, y2, w1

MCYielders == {y1, y2}
MCOneYielder == {y1}
MCWriters == {w1}

=============================================================================
