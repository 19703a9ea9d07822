---------------------------- MODULE VersionOrder ----------------------------
(***************************************************************************)
(* The comparison of versions of the agent (agent/updater.go).             *)
(*                                                                         *)
(* Abstractions.  A version is the sequence of its numbers, as the text    *)
(* between the points is read; two texts are equal when their sequences    *)
(* are.                                                                    *)
(***************************************************************************)
EXTENDS Integers, Sequences

\* What fmt.Sscanf reads at place i: a missing number is 0.
Number(v, i) == IF i <= Len(v) THEN v[i] ELSE 0

\* The first of the three numbers that differs is greater in v than in w.
Newer(v, w) ==
    \E i \in 1..3 : /\ Number(v, i) > Number(w, i)
                    /\ \A k \in 1..(i - 1) : Number(v, k) = Number(w, k)

\* Mutant: a smaller number ends the comparison wherever it stands.
versionLess_any(current, latest) ==
    /\ current # latest
    /\ \A i \in 1..3 : Number(current, i) <= Number(latest, i)

\* The versions differ and current is not the newer one: also TRUE, in both
\* directions, for two texts of the same three numbers (1.1 and 1.1.0).
versionLess(current, latest) == current # latest /\ ~Newer(current, latest)
=============================================================================
