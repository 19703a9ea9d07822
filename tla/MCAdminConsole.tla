--------------------------- MODULE MCAdminConsole ---------------------------
(***************************************************************************)
(* Small instances of AdminConsole for TLC.                                *)
(***************************************************************************)
EXTENDS AdminConsole
=============================================================================
