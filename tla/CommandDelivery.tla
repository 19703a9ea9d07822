--------------------------- MODULE CommandDelivery ---------------------------
(***************************************************************************)
(* What the command queue promises an administrator, with no heartbeat, no *)
(* acknowledgement and no status: commands are queued, and each device     *)
(* they address executes them at most once, in the order of their          *)
(* creation.  It does not promise that a command is executed.              *)
(***************************************************************************)
EXTENDS Naturals, Sequences

CONSTANTS Devices, Cmds, Fleet, None

VARIABLES
    queued,     \* [to, at] of each queued command, or None
    done,       \* [device -> the commands it executed, in order]
    clock

vars == <<queued, done, clock>>

Addressed(c, d) == queued[c] # None /\ queued[c].to \in {d, Fleet}

Init ==
    /\ queued = [c \in Cmds |-> None]
    /\ done = [d \in Devices |-> <<>>]
    /\ clock = 0

Queue(c, t) ==
    /\ queued[c] = None
    /\ queued' = [queued EXCEPT ![c] = [to |-> t, at |-> clock]]
    /\ UNCHANGED <<done, clock>>

\* A device never goes back: neither to a command it executed nor to one
\* created before a command it executed.
Execute(d, c) ==
    /\ Addressed(c, d)
    /\ \A i \in DOMAIN done[d] :
          done[d][i] # c /\ queued[done[d][i]].at <= queued[c].at
    /\ done' = [done EXCEPT ![d] = Append(@, c)]
    /\ UNCHANGED <<queued, clock>>

Advance ==
    /\ clock' = clock + 1
    /\ UNCHANGED <<queued, done>>

Next ==
    \/ \E c \in Cmds, t \in Devices \cup {Fleet} : Queue(c, t)
    \/ \E d \in Devices, c \in Cmds : Execute(d, c)
    \/ Advance

Spec == Init /\ [][Next]_vars
=============================================================================
