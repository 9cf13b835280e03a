------------------------------ MODULE MCAccounts ------------------------------
(* The demo administrator, at its address or still at the legacy one or both; *)
(* an administrator creates an account, one with the reserved address too,    *)
(* and demotes and disables users.                                            *)
EXTENDS Accounts

Row(email, role) ==
    [email |-> email, role |-> role, password |-> "good", is_active |-> TRUE,
     is_system |-> FALSE, is_deleted |-> FALSE]

RenamedDef == [old \in {"admin@aigov.local"} |-> "admin"]
USERSDef == {Row("admin", "admin")}
DraftsDef == {Row("admin", "viewer"), Row("system", "admin")}
PatchesDef == {[role |-> "viewer", password |-> "good"], [is_active |-> FALSE]}

Nobody == [i \in Id |-> None]
FoundersDef == {Nobody,
                [Nobody EXCEPT ![1] = Row("admin@aigov.local", "admin")],
                [Nobody EXCEPT ![1] = Row("admin@aigov.local", "admin"), ![2] = Row("admin", "admin")]}

===============================================================================
