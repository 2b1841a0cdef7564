------------------------------- MODULE MCOta -------------------------------
(***************************************************************************)
(* Instance of Ota for TLC.                                                *)
(***************************************************************************)
EXTENDS Ota

MCImages == {"good", "bad", "short"}
MCBadImages == {"bad"}
MCLength == [i \in MCImages |-> IF i = "short" THEN 1 ELSE 2]
=============================================================================
