-------------------------- MODULE MCChargingSession --------------------------
(***************************************************************************)
(* Small instances of ChargingSession for TLC.                              *)
(***************************************************************************)
EXTENDS ChargingSession
=============================================================================
