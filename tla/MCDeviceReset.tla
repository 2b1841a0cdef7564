--------------------------- MODULE MCDeviceReset ---------------------------
(***************************************************************************)
(* Instance of DeviceReset for TLC.                                        *)
(***************************************************************************)
EXTENDS DeviceReset

MCNetworks == {"home", "cafe", "aha"}
MCOpenNetworks == {"cafe"}
MCUnsaved == {"aha"}
=============================================================================
