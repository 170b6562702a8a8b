--------------------------- MODULE MCEvseController ---------------------------
(***************************************************************************)
(* Small instances of EvseController for TLC.                               *)
(***************************************************************************)
EXTENDS EvseController

AllChecks == CheckNames
\* every level the vehicle can show
AllLevels == {"none", "ready", "charge", "vent", "short"}
=============================================================================
