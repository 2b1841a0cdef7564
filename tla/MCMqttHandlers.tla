--------------------------- MODULE MCMqttHandlers ---------------------------
(* A small instance of MqttHandlers: a literal filter, and one that ends   *)
(* with '#' and covers it.                                                 *)
EXTENDS MqttHandlers, TLC

MCLetters == {"a", "b"}
MCFilters == { <<"/", "a">>, <<"/", "#">> }
MCNames   == { <<"/", "a">>, <<"/", "b">> }
MCSymmetry == Permutations(Callers) \cup Permutations(Funcs)
=============================================================================
