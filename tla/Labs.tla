--------------------------------- MODULE Labs ---------------------------------
(***************************************************************************)
(* Lab checks: course-service finds the lab a learner names by its         *)
(* position, asks checker-service to judge the learner's GitLab project,   *)
(* and records the verdict.  A check is a dozen calls to GitLab; the       *)
(* project and the course may change between any two of them, and each     *)
(* call may fail in its own way: some end the check, others count as an    *)
(* empty answer.                                                           *)
(***************************************************************************)
EXTENDS Checker

CONSTANTS
  Requests,
  Versions,      \* the module lists the course has had
  Expansion,     \* the modules its git-hosted index lists
  Ops,           \* what learners ask
  MaxEdits,      \* bound on the edits of the course
  MaxFailures    \* bound on failing calls

LabModule == [name : STRING, type : {"lab", "text", "modules"}, hidden : BOOLEAN]

\* A learner checks a step of a lab, has it judged by its policy, or reports
\* what the checks on his own machine said.
Op == [kind : {"step"}, pos : Nat, check : StepTypes, pattern : DOMAIN Matches, own : BOOLEAN]
        \cup [kind : {"policy"}, pos : Nat, rule : Rules]
        \cup [kind : {"local"}, pos : Nat, allow : BOOLEAN]

ASSUME LabsAssumption ==
  /\ Versions \subseteq Seq(LabModule) /\ Expansion \in Seq(LabModule)
  /\ Ops \subseteq Op
  /\ MaxEdits \in Nat /\ MaxFailures \in Nat

VARIABLES
  listing,       \* the modules of the course
  stage, op,
  shown,         \* the modules the learner was looking at when asking
  mod,           \* the module a request found
  todo,          \* its calls about merge requests that remain
  got,           \* what its calls answered
  answer,        \* what the learner is told
  clean,         \* history: nothing changed or failed under the request
  rows,          \* the table lab_checks, in the order of insertion
  edits, failures

request == <<stage, op, shown, mod, todo, got, answer>>
labVars == <<project, request, listing, clean, rows, edits, failures>>

NoOp == [kind |-> "none"]
NoModule == [name |-> "", type |-> "text", hidden |-> FALSE]

LabsInit ==
  /\ ProjectInit
  /\ listing \in Versions
  /\ stage = [r \in Requests |-> "idle"] /\ op = [r \in Requests |-> NoOp]
  /\ shown = [r \in Requests |-> <<>>] /\ mod = [r \in Requests |-> NoModule]
  /\ todo = [r \in Requests |-> <<>>] /\ got = [r \in Requests |-> NothingYet]
  /\ answer = [r \in Requests |-> "none"] /\ clean = [r \in Requests |-> TRUE]
  /\ rows = <<>> /\ edits = 0 /\ failures = 0

\* The lists a request may work on: an index that cannot be fetched is skipped.
Visible(list) == Among(list, {m \in Range(list) : ~m.hidden})
Expanded(list, subs) ==
  LET part(m) == IF m.type = "modules" THEN subs ELSE <<m>>
      all[i \in 0 .. Len(list)] == IF i = 0 THEN <<>> ELSE all[i - 1] \o part(list[i])
  IN  all[Len(list)]
VisibleModules == Visible(Expanded(listing, Expansion))
VisibleWithoutIndex == Visible(Expanded(listing, <<>>))

Fails(r) == failures < MaxFailures /\ failures' = failures + 1 /\ clean' = [clean EXCEPT ![r] = FALSE]
Works == UNCHANGED <<failures, clean>>

Proceed(r, there) == stage' = [stage EXCEPT ![r] = there]
Collect(r, g) == got' = [got EXCEPT ![r] = g]
\* Moves on without having learnt anything.
Skip(r, there) == Proceed(r, there) /\ UNCHANGED <<got, todo>>
Nothing(r) == UNCHANGED <<op, shown, mod, answer>>
Still == UNCHANGED <<project, listing, rows, edits>>

-----------------------------------------------------------------------------
(* course-service                                                          *)

Ask(r) ==
  /\ stage[r] = "idle"
  /\ shown' = [shown EXCEPT ![r] = VisibleModules]
  /\ \E o \in Ops : o.pos \in DOMAIN VisibleModules /\ op' = [op EXCEPT ![r] = o]
  /\ Proceed(r, IF op'[r].kind = "local" THEN "record" ELSE "resolve")
  /\ UNCHANGED <<mod, todo, got, answer>> /\ Works /\ Still

\* checker-service is at work on them.
CheckerStages == {"rule", "project", "merged", "branches", "open", "mrs", "files", "compare", "judge"}

Found(r, m, there) == mod' = [mod EXCEPT ![r] = m] /\ Proceed(r, there)
Refused(r) == UNCHANGED mod /\ Proceed(r, "denied")

FirstCall(o) ==
  IF o.kind = "policy" THEN "spec" ELSE IF o.own THEN "branches" ELSE "judge"

ResolveIn(r, list) ==
  IF op[r].pos \in DOMAIN list /\ list[op[r].pos].type = "lab"
  THEN Found(r, list[op[r].pos], FirstCall(op[r])) ELSE Refused(r)

\* Mutant: the stored list, as for a local check.
ResolveStored(r) ==
  /\ stage[r] = "resolve"
  /\ ResolveIn(r, listing) /\ Works
  /\ UNCHANGED <<op, shown, todo, got, answer>> /\ Still

ResolveLabModule(r) ==
  /\ stage[r] = "resolve"
  /\ \/ ResolveIn(r, VisibleModules) /\ Works
     \/ VisibleWithoutIndex # VisibleModules /\ ResolveIn(r, VisibleWithoutIndex) /\ Fails(r)
  /\ UNCHANGED <<op, shown, todo, got, answer>> /\ Still

FetchCheckSpec(r) ==
  /\ stage[r] = "spec"
  /\ \/ Skip(r, "rule") /\ Works
     \/ Skip(r, "denied") /\ Fails(r)
  /\ Nothing(r) /\ Still

\* The local check is stored as reported, under the module that has this
\* position in the STORED list: unexpanded, hidden modules included.
RecordLocalCheck(r) ==
  /\ stage[r] = "record"
  /\ IF op[r].pos \in DOMAIN listing
     THEN /\ Found(r, listing[op[r].pos], "store")
          /\ answer' = [answer EXCEPT ![r] = IF op[r].allow THEN "allow" ELSE "refuse"]
     ELSE Refused(r) /\ UNCHANGED answer
  /\ UNCHANGED <<op, shown, todo, got>> /\ Works /\ Still

Row(r) == [name |-> mod[r].name, index |-> op[r].pos, allow |-> answer[r] = "allow",
           verified |-> op[r].kind = "policy", by |-> r]

Create(row) == rows' = Append(rows, row)

StoreLabCheck(r) ==
  /\ stage[r] = "store"
  /\ \/ Create(Row(r)) /\ Works
     \/ UNCHANGED rows /\ Fails(r)
  /\ Skip(r, "done") /\ Nothing(r) /\ UNCHANGED <<project, listing, edits>>

-----------------------------------------------------------------------------
(* checker-service                                                         *)

ReadRule(r) ==
  /\ stage[r] = "rule"
  /\ \/ Skip(r, "project") /\ Works
     \/ Skip(r, "error") /\ Fails(r)
  /\ Nothing(r) /\ Still

ReadProject(r) ==
  /\ stage[r] = "project"
  /\ \/ Skip(r, "merged") /\ Works
     \/ Skip(r, "error") /\ Fails(r)
  /\ Nothing(r) /\ Still

\* Mutant: the listing is not restricted to merged ones.
CountAnyState(r) ==
  LET g == got[r]
      list == Among(MRs, {m \in Ids : state[m] # "none"})
      last == LastPage(list, g.page)
  IN
  /\ stage[r] = "merged" /\ Works
  /\ Collect(r, [g EXCEPT !.merged = @ + Len(Page(list, g.page)),
                          !.page = IF last THEN 1 ELSE @ + 1])
  /\ Proceed(r, IF last THEN "open" ELSE "merged")
  /\ UNCHANGED todo /\ Nothing(r) /\ Still

\* A page that fails ends the count with what was counted.
CountMerged(r) ==
  LET g == got[r]
      list == InState("merged")
      last == LastPage(list, g.page)
  IN
  /\ stage[r] = "merged"
  /\ \/ /\ Works
        /\ Collect(r, [g EXCEPT !.merged = @ + Len(Page(list, g.page)),
                                !.page = IF last THEN 1 ELSE @ + 1])
        /\ Proceed(r, IF last THEN "open" ELSE "merged")
     \/ Fails(r) /\ Collect(r, [g EXCEPT !.page = 1]) /\ Proceed(r, "open")
  /\ UNCHANGED todo /\ Nothing(r) /\ Still

ListBranches(r) ==
  LET g == got[r]
      list == Among(Branches, branches)
      last == LastPage(list, g.page)
  IN
  /\ stage[r] = "branches"
  /\ \/ /\ Works
        /\ Collect(r, [g EXCEPT !.branches = @ \o Page(list, g.page),
                                !.page = IF last THEN 1 ELSE @ + 1])
        /\ Proceed(r, IF last THEN "open" ELSE "branches")
     \/ UNCHANGED got /\ Proceed(r, "error") /\ Fails(r)
  /\ UNCHANGED todo /\ Nothing(r) /\ Still

AfterMRs(o) ==
  IF o.kind = "policy" THEN "files" ELSE IF NeedsCompare(o) THEN "compare" ELSE "judge"

\* A policy is evaluated on no merge request when the listing fails; a step
\* check ends.
ListOpenMRs(r) ==
  LET g == got[r]
      list == InState("opened")
      open == g.open \o Page(list, g.page)
  IN
  /\ stage[r] = "open"
  /\ \/ /\ ~LastPage(list, g.page)
        /\ Collect(r, [g EXCEPT !.open = open, !.page = @ + 1])
        /\ UNCHANGED <<stage, todo>> /\ Works
     \/ /\ LastPage(list, g.page)
        /\ Collect(r, [g EXCEPT !.open = open])
        /\ todo' = [todo EXCEPT ![r] = MRCalls(op[r], open)]
        /\ Proceed(r, "mrs") /\ Works
     \/ /\ Collect(r, [g EXCEPT !.open = <<>>])
        /\ Proceed(r, IF op[r].kind = "policy" THEN "mrs" ELSE "error")
        /\ UNCHANGED todo /\ Fails(r)
  /\ Nothing(r) /\ Still

ListAllMRCommits(m) == Range(within[m])

\* A policy gets what one call without paging returns, a step all commits.
MRCommits(o, m) ==
  IF o.kind = "policy" /\ Len(within[m]) > FirstPage
  THEN Range(SubSeq(within[m], 1, FirstPage)) ELSE ListAllMRCommits(m)

ReadMR(r) ==
  LET what == Head(todo[r])[1]
      m    == Head(todo[r])[2]
      g    == got[r]
  IN
  /\ stage[r] = "mrs"
  /\ IF todo[r] = <<>> THEN Skip(r, AfterMRs(op[r])) /\ Works
     ELSE /\ todo' = [todo EXCEPT ![r] = Tail(@)] /\ UNCHANGED stage
          /\ \/ /\ Works
                /\ Collect(r, IF what = "pipe" THEN [g EXCEPT !.pipe = Add(@, m, pipe[m])]
                              ELSE [g EXCEPT !.commits = Add(@, m, MRCommits(op[r], m))])
             \/ UNCHANGED got /\ Fails(r)
  /\ Nothing(r) /\ Still

FetchFiles(r) ==
  /\ stage[r] = "files"
  /\ \/ Collect(r, [got[r] EXCEPT !.file = HasFile(FilesRef(got[r]))]) /\ Works
     \/ UNCHANGED got /\ Fails(r)
  /\ Proceed(r, "judge") /\ UNCHANGED todo /\ Nothing(r) /\ Still

Compare(r) ==
  LET found == BranchByPattern(got[r].branches, op[r].pattern) IN
  /\ stage[r] = "compare"
  /\ \/ /\ Proceed(r, "judge") /\ Works
        /\ IF found = <<>> THEN UNCHANGED got
           ELSE Collect(r, [got[r] EXCEPT !.ahead = Range(ahead[Head(found)]),
                                          !.diff = Head(found) \in touched])
     \/ found # <<>> /\ UNCHANGED got /\ Proceed(r, "error") /\ Fails(r)
  /\ UNCHANGED todo /\ Nothing(r) /\ Still

\* A project that is not the learner's own is refused before any call.
Verdict(o, g) == IF o.kind = "policy" THEN Evaluate(o, g) ELSE o.own /\ CheckStep(o, g)

Judge(r) ==
  /\ stage[r] = "judge"
  /\ answer' = [answer EXCEPT ![r] = IF Verdict(op[r], got[r]) THEN "allow" ELSE "refuse"]
  /\ Proceed(r, IF op[r].kind = "policy" THEN "store" ELSE "done")
  /\ UNCHANGED <<op, shown, mod, todo, got>> /\ Works /\ Still

\* The call to checker-service fails, or its answer cannot be read; nothing
\* is recorded.
CallLost(r) ==
  /\ stage[r] \in CheckerStages
  /\ Skip(r, "error") /\ Fails(r)
  /\ Nothing(r) /\ Still

-----------------------------------------------------------------------------
Serve(r) ==
  \/ ResolveLabModule(r) \/ FetchCheckSpec(r) \/ RecordLocalCheck(r) \/ StoreLabCheck(r)
  \/ ReadRule(r) \/ ReadProject(r) \/ CountMerged(r) \/ ListBranches(r) \/ ListOpenMRs(r)
  \/ ReadMR(r) \/ FetchFiles(r) \/ Compare(r) \/ Judge(r)
  \/ CallLost(r)

Busy == {r \in Requests : stage[r] \notin {"idle", "store", "done", "denied", "error"}}
Disturbed == clean' = [r \in Requests |-> clean[r] /\ r \notin Busy]

ProjectMoves ==
  ProjectNext /\ Disturbed /\ UNCHANGED <<request, listing, rows, edits, failures>>

EditCourse ==
  /\ edits < MaxEdits /\ edits' = edits + 1
  /\ listing' \in Versions \ {listing}
  /\ Disturbed /\ UNCHANGED <<project, request, rows, failures>>

LabsNext == EditCourse \/ ProjectMoves \/ \E r \in Requests : Ask(r) \/ Serve(r)

LabsSpec == LabsInit /\ [][LabsNext]_labVars

-----------------------------------------------------------------------------
(* Safety                                                                  *)

\* What a check asks, said of the project as it is, without pages, calls and
\* orders of reading: the reference definition of the checks.
Mine == Among(InState("opened"), {m \in Ids : author[m] = Me})
First(pattern) == BranchByPattern(Among(Branches, branches), pattern)

Holds(o) ==
  IF o.kind = "policy"
  THEN CASE o.rule = "merged" -> Cardinality({m \in Ids : state[m] = "merged"}) >= MinMerged
         [] o.rule = "review" -> \E m \in Ids : /\ state[m] = "opened" /\ pipe[m] = "success"
                                                /\ "conventional" \in Range(within[m])
         [] o.rule = "file"   -> IF InState("opened") = <<>> THEN onMain
                                 ELSE HasFile(Source[Head(InState("opened"))])
  ELSE /\ o.own
       /\ CASE o.check = "gitlab_mr_open" -> \E m \in Ids : state[m] = "opened" /\ author[m] = Me
            [] o.check = "gitlab_conventional_commit" ->
                 \E m \in Ids : /\ state[m] = "opened" /\ author[m] = Me
                                /\ "conventional" \in Range(within[m])
            [] o.check = "gitlab_pipeline_passed" -> Mine # <<>> /\ pipe[Head(Mine)] = "success"
            [] o.check = "gitlab_file_on_branch" -> First(o.pattern) # <<>> /\ Head(First(o.pattern)) \in touched
            [] o.check = "gitlab_conventional_commit_on_branch" ->
                 First(o.pattern) # <<>> /\ Range(ahead[Head(First(o.pattern))]) = {"conventional"}
            [] o.check = "gitlab_commit_on_branch" -> First(OrFeature(o.pattern)) # <<>>
            [] o.check = "gitlab_branch" -> First(o.pattern) # <<>>

\* A check of a project that nobody touches meanwhile, with every call
\* answered, allows exactly what the check asks for: the pages of the listings,
\* the order of the calls and other people's merge requests make no difference
\* (CheckStep, Fetch, Evaluate).  A policy about commits is right only while no
\* open merge request has more of them than one call returns: it sees the
\* newest, and refuses work that is further down (buildOpenMRInfo).
CommitsSeen(o) ==
  (o.kind = "policy" /\ o.rule = "review") =>
    \A m \in Ids : state[m] = "opened" => Len(within[m]) <= FirstPage

VerdictRight ==
  \A r \in Requests :
    (stage[r] = "judge" /\ clean[r] /\ CommitsSeen(op[r])) => (Verdict(op[r], got[r]) <=> Holds(op[r]))

\* Whatever changes and fails while a check runs, it only ever allows what was
\* done: there was a branch, a merge request of the LEARNER'S with the commit
\* or the passed pipeline, the merge requests counted were merged, the file was
\* written.  A failed call or a torn reading may cost a learner the pass, it
\* never gives one for work that is not there.
Done(o) ==
  IF o.kind = "policy"
  THEN CASE o.rule = "merged" -> Cardinality({m \in Ids : state[m] = "merged"}) >= MinMerged
         [] o.rule = "review" -> \E m \in green : "conventional" \in Range(within[m])
         [] o.rule = "file"   -> onMain \/ touched # {}
  ELSE /\ o.own
       /\ CASE o.check = "gitlab_mr_open" -> \E m \in Ids : author[m] = Me /\ state[m] # "none"
            [] o.check = "gitlab_conventional_commit" -> \E m \in Ids : author[m] = Me /\ "conventional" \in Range(within[m])
            [] o.check = "gitlab_pipeline_passed" -> \E m \in green : author[m] = Me
            [] o.check = "gitlab_file_on_branch" -> onMain \/ touched # {}
            [] o.check = "gitlab_commit_on_branch" -> First(OrFeature(o.pattern)) # <<>>
            [] OTHER -> First(o.pattern) # <<>>

AllowEarned ==
  /\ \A r \in Requests : (op[r].kind \in {"step", "policy"} /\ answer[r] = "allow") => Done(op[r])
  /\ \A i \in DOMAIN rows : (rows[i].verified /\ rows[i].allow) => Done(op[rows[i].by])

\* A stored result names the module the learner was looking at, as long as the
\* course is not edited and its index can be fetched meanwhile.  A local check
\* needs more: its position is looked up in the stored list, so it names
\* another module as soon as a hidden module or an index stands before it.
Shifted(list, pos) == \E i \in 1 .. pos : i \in DOMAIN list /\ (list[i].hidden \/ list[i].type = "modules")

NamesShown ==
  \A i \in DOMAIN rows :
    LET r == rows[i].by IN
      (edits = 0 /\ failures = 0 /\ (op[r].kind = "local" => ~Shifted(listing, rows[i].index))) =>
        rows[i].name = shown[r][rows[i].index].name
=============================================================================
