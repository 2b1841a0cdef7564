---------------------------- MODULE MCMqttLocks ----------------------------
(* Small instances of MqttLocks: the threads are model values given by the *)
(* configuration.                                                          *)
EXTENDS MqttLocks
=============================================================================
