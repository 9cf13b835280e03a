-------------------------- MODULE MCPolicyEvaluation --------------------------
(* Two policies in versions and packages that may collide; Rego that needs   *)
(* the second library, which needs the first; a document with violations, a  *)
(* bare boolean, Rego that does not compile, and a mounted file that answers *)
(* without allow.                                                            *)
EXTENDS PolicyEvaluation, TLC

Says(boolean, allow, violations) ==
    [boolean |-> boolean, allow |-> allow, violations |-> violations]

Source(package, needs, says) ==
    [package |-> package, compiles |-> TRUE, needs |-> needs, says |-> says]

First == Source("p", {"base"}, Says(FALSE, "false", {"low", "unlisted"}))
Second == Source("p", {"base"}, Says(FALSE, "true", {"info"}))
Bare == Source("p", {}, Says(TRUE, "false", {}))
Broken == [Bare EXCEPT !.compiles = FALSE]
File == Source("q", {}, Says(FALSE, "unset", {}))

RegoDef == {First, Second, Bare, Broken, File}
MountedDef == {File}
LibraryFilesDef == <<"common", "base">>
ImportsDef == [l \in {"common", "base"} |-> IF l = "base" THEN {"common"} ELSE {}]

NoRules == [require_true |-> {}, require_false |-> {}, require_present |-> {}]

Seeded == [key |-> "k1", version |-> 1, jurisdiction |-> "EU", opa_package |-> "p",
           rego_code |-> First, rules |-> None, severity |-> "critical", tiers |-> {"high"},
           is_active |-> TRUE, is_deleted |-> FALSE]

Draft == [Seeded EXCEPT !.version = 2, !.rego_code = Second, !.tiers = {},
                        !.rules = [NoRules EXCEPT !.require_true = {"oversight"}]]

PoliciesDef == {Seeded}
DraftsDef == {Draft, [Draft EXCEPT !.key = "k2", !.rego_code = None, !.severity = "info",
                               !.opa_package = "q"]}

PatchesDef == {[version |-> 2], [rego_code |-> Bare], [rego_code |-> None, is_active |-> FALSE],
               [severity |-> "low", rego_code |-> Broken]}

ScopesDef ==
    {[codes |-> {"EU"}, tiers |-> [c \in {"EU"} |-> "high"], keys |-> {}, facts |-> {}],
     [codes |-> {"EU"}, tiers |-> [c \in {"EU"} |-> None], keys |-> {"k1"},
      facts |-> {"oversight"}]}

\* Administrators are alike.
Symmetry == Permutations(Request)

===============================================================================
