----------------------------- MODULE MCAccounts ------------------------------
(***************************************************************************)
(* The seeded admin, and perhaps a manager who signs in with a provider.   *)
(***************************************************************************)
EXTENDS Accounts, TLC

CONSTANTS i1, i2, i3, e1, e2, p1, s1, anna, admin

Admin1  == Store!Local(admin, e1, p1, "admin")
Manager == [Store!Local(anna, e2, None, "manager") EXCEPT !.provider = "oidc", !.subject = s1]

With(row) == (i1 :> Admin1) @@ (i2 :> row) @@ (i3 :> Absent)

SmallTables == {With(Absent), With(Manager)}

Mock == {[name |-> anna, email |-> e2, password |-> p1]}

Symmetric == Permutations(Requests)
=============================================================================
