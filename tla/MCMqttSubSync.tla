--------------------------- MODULE MCMqttSubSync ---------------------------
(* Small instances of MqttSubSync: subscribers and one thread that only    *)
(* yields.                                                                 *)
EXTENDS MqttSubSync
=============================================================================
