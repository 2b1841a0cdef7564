----------------------------- MODULE MCAwssBind -----------------------------
(***************************************************************************)
(* Instance of AwssBind for TLC: the notification ends after two           *)
(* broadcasts instead of thirty.                                           *)
(***************************************************************************)
EXTENDS AwssBind

MCNotifyMax == 2
=============================================================================
