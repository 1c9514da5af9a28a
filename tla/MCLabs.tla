-------------------------------- MODULE MCLabs --------------------------------
(***************************************************************************)
(* A course with an index and a hidden module, and every kind of check.  A *)
(* single commit fills the one page that a policy reads.                   *)
(***************************************************************************)
EXTENDS Labs, TLC

CONSTANTS m1, m2

Item(n, t, h) == [name |-> n, type |-> t, hidden |-> h]
Plain == <<Item("lab", "lab", FALSE), Item("more", "modules", FALSE)>>
Moved == <<Item("secret", "lab", TRUE), Item("lab", "lab", FALSE)>>
TwoVersions == {Plain, Moved}
Extra == <<Item("extra", "lab", FALSE), Item("notes", "text", FALSE)>>

FeaturesFirst == <<"feature/a", "feature/b", "main">>
NewestFirst == <<m2, m1>>
Sources == (m1 :> "feature/a") @@ (m2 :> "feature/b")
Prefixes == ("feature/" :> {"feature/a", "feature/b"}) @@ ("" :> {"feature/a", "feature/b", "main"})

Ahead(x, y) == ("feature/a" :> x) @@ ("feature/b" :> y) @@ ("main" :> <<>>)
Both(x, y) == (m1 :> x) @@ (m2 :> y)
Conv == <<"conventional">>
Fresh == [ahead |-> Ahead(<<>>, <<>>), touched |-> {}, state |-> Both("none", "none"),
          author |-> Both(Me, Me), pipe |-> Both("none", "none")]
\* The learner's request under a later one of somebody else, or of the learner.
Opened(who) == [ahead |-> Ahead(Conv, <<"plain">>), touched |-> {"feature/a"},
                state |-> Both("opened", "opened"), author |-> Both(Me, who),
                pipe |-> Both("running", "success")]
Merged == [ahead |-> Ahead(<<>>, Conv), touched |-> {"feature/b"},
           state |-> Both("merged", "opened"), author |-> Both(Me, Other),
           pipe |-> Both("success", "running")]
SomeStarts == {Fresh, Merged} \cup {Opened(who) : who \in Everyone}

Steps == {[kind |-> "step", pos |-> 1, check |-> c, pattern |-> "feature/", own |-> TRUE] : c \in StepTypes}
           \cup {[kind |-> "step", pos |-> 1, check |-> c, pattern |-> "", own |-> TRUE] :
                    c \in {"gitlab_branch", "gitlab_commit_on_branch"}}
           \cup {[kind |-> "step", pos |-> 1, check |-> "gitlab_mr_open", pattern |-> "", own |-> FALSE]}
Policies == {[kind |-> "policy", pos |-> p, rule |-> x] : p \in {1, 2}, x \in Rules}
Locals == {[kind |-> "local", pos |-> p, allow |-> TRUE] : p \in {1, 2, 3}}
AllOps == Steps \cup Policies \cup Locals
=============================================================================
