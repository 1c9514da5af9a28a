----------------------------- MODULE MCCatalog ------------------------------
(***************************************************************************)
(* A course with up to two modules written twice over, and a path with it. *)
(***************************************************************************)
EXTENDS Catalog, TLC

CONSTANTS c1, p1, t1, t2, m1, m2, k1, k2, s1, s2, x1, x2

TwoModules == (m1 :> {k1}) @@ (m2 :> {k2})

Doc1 == [text |-> t1, modules |-> <<m1>>, prereqs |-> {}, sessions |-> [s \in {s1, s2} |->
           IF s = s1 THEN x1 ELSE None]]
Doc2 == [text |-> t2, modules |-> <<m2>>, prereqs |-> {c1}, sessions |-> [s \in {s1, s2} |-> None]]

PathDoc == [text |-> t1, kind |-> "course", courses |-> <<c1>>, skills |-> {}]

SmallDocuments == {Doc1, Doc2}
SmallPaths == {PathDoc}

Symmetric == Permutations(Requests)
=============================================================================
