---------------------------- MODULE MCPolicyPush ----------------------------
(***************************************************************************)
(* A small instance of PolicyPush for TLC: three global policies, two      *)
(* overrides.                                                              *)
(***************************************************************************)
EXTENDS PolicyPush

CONSTANTS a, b, none, both, one     \* leaves; the last three are lists

MCSections == {"chromium", "wallpaper_url", "shell", "android"}
MCFields == {"home", "devtools", "force_install", "allowlist"}
MCLeaves == {a, b, none, both, one, Null, Bad}
MCListOf(v) == CASE v = both -> {"p", "q"} [] v = one -> {"p"} [] OTHER -> {}

\* The document, or object, that has only what r has.
Some(names, r) ==
    [x \in names |-> IF x \in DOMAIN r THEN r[x] ELSE Missing]
Object(r) == Some(MCFields, r)
Doc(r) == Some(MCSections, r)

MCDefault ==
    [chromium |-> Object([home |-> a, devtools |-> a]),
     wallpaper_url |-> a,
     shell |-> Object([devtools |-> a]),
     android |-> Object([force_install |-> none, allowlist |-> none])]

MCBodies ==
    {Doc([chromium |-> Object([home |-> b]), wallpaper_url |-> b,
          android |-> Object([force_install |-> both, allowlist |-> one])]),
     Doc([chromium |-> Null, shell |-> Object([home |-> Null, devtools |-> b])]),
     Doc([shell |-> Object([home |-> b, devtools |-> Bad])])}

MCOverrides ==
    {Doc([chromium |-> Object([devtools |-> b]), android |-> Object([allowlist |-> none])]),
     Doc([shell |-> Object([home |-> b]), wallpaper_url |-> Null])}
=============================================================================
