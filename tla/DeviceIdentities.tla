-------------------------- MODULE DeviceIdentities --------------------------
(***************************************************************************)
(* What enrollment promises, with no request, no handler and no file: the  *)
(* server issues identities for enrollment tokens; an identity is issued   *)
(* once, with a key of its own, and never changed; it reaches at most one  *)
(* machine, at most once, and not before its token is spent.  A machine    *)
(* may lose an identity and never gets it back.  It does not promise that  *)
(* every identity reaches a machine, nor that a token pays for one only.   *)
(***************************************************************************)
CONSTANTS Machines, Tokens, Ids, Keys, None

VARIABLES
    issued,     \* the key and the token of each identity, or None
    spent,      \* the tokens that were paid
    transit,    \* issued identities that no machine has received
    held        \* the identities each machine holds

vars == <<issued, spent, transit, held>>

Init ==
    /\ issued = [i \in Ids |-> None]
    /\ spent = {}
    /\ transit = {}
    /\ held = [m \in Machines |-> {}]

\* A fresh id, and a key that opens no other device.
Issue(i, k, t) ==
    /\ issued[i] = None
    /\ \A j \in Ids : issued[j] # None => issued[j].key # k
    /\ issued' = [issued EXCEPT ![i] = [key |-> k, via |-> t]]
    /\ transit' = transit \cup {i}
    /\ UNCHANGED <<spent, held>>

\* A token is spent for an identity that it paid for.
Spend(t) ==
    /\ \E i \in transit : issued[i].via = t
    /\ spent' = spent \cup {t}
    /\ UNCHANGED <<issued, transit, held>>

\* What the machine held may be replaced, or kept by its running agent.
Receive(m, i) ==
    /\ i \in transit
    /\ issued[i].via \in spent
    /\ transit' = transit \ {i}
    /\ \E kept \in SUBSET held[m] : held' = [held EXCEPT ![m] = kept \cup {i}]
    /\ UNCHANGED <<issued, spent>>

\* Requests, answers and files are lost, and what they carried with them.
Lose ==
    /\ transit' \subseteq transit
    /\ held' \in [Machines -> SUBSET Ids]
    /\ \A m \in Machines : held'[m] \subseteq held[m]
    /\ UNCHANGED <<issued, spent>>

Next ==
    \/ \E i \in Ids, k \in Keys, t \in Tokens : Issue(i, k, t)
    \/ \E t \in Tokens : Spend(t)
    \/ \E m \in Machines, i \in Ids : Receive(m, i)
    \/ Lose

Spec == Init /\ [][Next]_vars
=============================================================================
