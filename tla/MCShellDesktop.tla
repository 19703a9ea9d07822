--------------------------- MODULE MCShellDesktop ---------------------------
(***************************************************************************)
(* Small instances of ShellDesktop for TLC.                                *)
(***************************************************************************)
EXTENDS ShellDesktop

CONSTANT manual

\* A machine somebody has configured: to lose its settings is to change them.
MCStart == {[auto |-> FALSE, display |-> manual]}
=============================================================================
