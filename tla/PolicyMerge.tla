---------------------------- MODULE PolicyMerge ----------------------------
(***************************************************************************)
(* Policy documents and the two ways the server combines them              *)
(* (server/src/crypto.ts, server/src/db.ts).                               *)
(*                                                                         *)
(* A document gives every section a leaf, an object, or nothing, and an    *)
(* object every field a leaf or nothing.  Arrays, numbers, strings and null*)
(* are leaves: deepMerge treats them alike.  Objects inside the fields are *)
(* not represented.                                                        *)
(***************************************************************************)

CONSTANTS Sections, Fields, Leaves, Missing

Objects == [Fields -> Leaves \cup {Missing}]
Docs    == [Sections -> Leaves \cup Objects \cup {Missing}]

ASSUME MergeAssumption ==
    /\ Missing \notin Leaves \cup Objects
    /\ \A v \in Leaves : v \notin Objects

IsObject(v) == v \in Objects

\* {...base, ...patch}: whatever the patch has replaces what the base has.
Spread(base, patch) ==
    [x \in DOMAIN base |-> IF patch[x] = Missing THEN base[x] ELSE patch[x]]

\* deepMerge: an object of the patch is spread over an object of the base;
\* anything else replaces what the base has.
deepMerge(base, patch) ==
    [s \in Sections |->
        IF IsObject(base[s]) /\ IsObject(patch[s]) THEN Spread(base[s], patch[s])
        ELSE IF patch[s] = Missing THEN base[s] ELSE patch[s]]

-----------------------------------------------------------------------------
(* What "merged over" means, path by path.                                 *)

\* Section s of document p has a field f.
Has(p, s, f) == IsObject(p[s]) /\ p[s][f] # Missing

\* Document m is o over g: what o says holds, and where o says nothing, g.
IsOver(m, g, o) ==
    \A s \in Sections :
        /\ o[s] \in Leaves => m[s] = o[s]
        /\ o[s] = Missing => m[s] = g[s]
        /\ IsObject(o[s]) =>
              /\ IsObject(m[s])
              /\ \A f \in Fields :
                    m[s][f] = IF Has(o, s, f) THEN o[s][f]
                              ELSE IF Has(g, s, f) THEN g[s][f] ELSE Missing
=============================================================================
