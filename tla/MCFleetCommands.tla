--------------------------- MODULE MCFleetCommands ---------------------------
(***************************************************************************)
(* Small instances of FleetCommands for TLC.                               *)
(***************************************************************************)
EXTENDS FleetCommands, TLC

\* No action tells one device, command or request from another.
Symmetry == Permutations(Devices) \cup Permutations(Cmds) \cup
            Permutations(Reqs)
=============================================================================
