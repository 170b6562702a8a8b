--------------------------- MODULE MCLocalControl ---------------------------
(***************************************************************************)
(* Small instances of LocalControl for TLC.                                 *)
(***************************************************************************)
EXTENDS LocalControl

MCSettings == {<<0, 1>>}

\* From the evening to the morning, over midnight.
MCNight == {<<2, 1>>}
=============================================================================
