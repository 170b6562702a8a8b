----------------------------- MODULE MCAmpacity -----------------------------
(***************************************************************************)
(* Small instances of Ampacity for TLC.                                     *)
(***************************************************************************)
EXTENDS Ampacity
=============================================================================
