--------------------------- MODULE MCRapiProtocol ---------------------------
(***************************************************************************)
(* Small instances of RapiProtocol for TLC.                                 *)
(***************************************************************************)
EXTENDS RapiProtocol

\* with id and checksum, with a checksum only, with neither
MCForms == {<<TRUE, TRUE>>, <<FALSE, TRUE>>, <<FALSE, FALSE>>}
=============================================================================
