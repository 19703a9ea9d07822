----------------------------- MODULE MCOtaUpdate -----------------------------
(***************************************************************************)
(* Small instances of OtaUpdate for TLC.                                   *)
(***************************************************************************)
EXTENDS OtaUpdate

MCFirst    == <<1, 0, 0>>
MCReleases == {<<1, 0, 0>>, <<1, 9, 1>>, <<1, 10, 0>>}
=============================================================================
