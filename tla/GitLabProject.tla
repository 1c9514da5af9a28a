----------------------------- MODULE GitLabProject -----------------------------
(***************************************************************************)
(* A learner's GitLab project, as far as checker-service asks about it:    *)
(* its branches, what they add to main, and its merge requests with their  *)
(* pipelines.  GitLab is not part of the repository; this is what the      *)
(* calls in step.go and fetch.go use of it.                                *)
(***************************************************************************)
EXTENDS Naturals, Sequences, FiniteSets, Functions

CONSTANTS
  Me, Other,     \* the learner, and somebody else with access to the project
  Branches,      \* the branches in the order GitLab lists them, main among them
  Main,          \* the default branch
  MRs,           \* the merge requests in the order GitLab lists them, newest first
  Source,        \* the source branch of each merge request
  Starts,        \* the projects considered when the first check is asked
  PageSize,      \* entries of one page of a listing
  FirstPage,     \* entries of the one page GitLab gives who does not ask for more: 20
  MaxMoves       \* bound on the changes made to the project

Everyone == {Me, Other}
Ids == Range(MRs)
Names == Range(Branches)

\* The entries of a list that are in a set: SelectSeq, written out because the
\* provers do not know it.
Among(list, set) ==
  LET kept[i \in 0 .. Len(list)] ==
        IF i = 0 THEN <<>>
        ELSE IF list[i] \in set THEN Append(kept[i - 1], list[i]) ELSE kept[i - 1]
  IN  kept[Len(list)]

Statuses == {"none", "running", "success", "failed"}
States == {"none", "opened", "merged", "closed"}
Kinds == {"conventional", "plain"}

\* Nobody has worked on what is not there.
IsStart(s) ==
  /\ s.ahead \in [Names -> Seq(Kinds)] /\ s.touched \subseteq Names \ {Main}
  /\ s.state \in [Ids -> States] /\ s.author \in [Ids -> Everyone] /\ s.pipe \in [Ids -> Statuses]
  /\ \A m \in Ids : s.state[m] = "none" => s.pipe[m] = "none"

ASSUME ProjectAssumption ==
  /\ Branches \in Seq(Names) /\ Main \in Names
  /\ MRs \in Seq(Ids) /\ IsInjective(MRs)
  /\ Source \in [Ids -> Names]
  /\ \A s \in Starts : IsStart(s)
  /\ PageSize \in Nat \ {0} /\ FirstPage \in Nat \ {0}
  /\ MaxMoves \in Nat

VARIABLES
  branches,      \* the branches that exist
  ahead,         \* the commits a branch has and main has not, newest first: their kinds
  touched,       \* the branches that add the lab's file to main
  onMain,        \* main has the lab's file
  state,         \* the state of each merge request
  author,        \* who opened it
  pipe,          \* the status of its head pipeline
  green,         \* history: the merge requests of which some pipeline passed
  within,        \* the commits of each merge request, newest first: their kinds
  moves

project == <<branches, ahead, touched, onMain, state, author, pipe, green, within, moves>>

\* A start says what the branches add and how far the merge requests are.
ProjectInit == \E s \in Starts :
  /\ ahead = s.ahead /\ state = s.state /\ author = s.author /\ pipe = s.pipe
  /\ branches = {Main} \cup {b \in Names : ahead[b] # <<>>}
                    \cup {Source[m] : m \in {i \in Ids : state[i] # "none"}}
  /\ touched = s.touched /\ onMain = FALSE
  /\ green = {m \in Ids : pipe[m] = "success"}
  /\ within = [m \in Ids |-> IF state[m] = "none" THEN <<>> ELSE ahead[Source[m]]]
  /\ moves = 0

Move == moves < MaxMoves /\ moves' = moves + 1

Affected(b) == {m \in Ids : Source[m] = b /\ state[m] = "opened"}

Push(b, kind, file) ==
  /\ Move /\ b # Main
  /\ branches' = branches \cup {b}
  /\ ahead' = [ahead EXCEPT ![b] = <<kind>> \o @]
  /\ touched' = IF file THEN touched \cup {b} ELSE touched
  /\ pipe' = [m \in Ids |-> IF m \in Affected(b) THEN "running" ELSE pipe[m]]
  /\ within' = [m \in Ids |-> IF m \in Affected(b) THEN <<kind>> \o within[m] ELSE within[m]]
  /\ UNCHANGED <<onMain, state, author, green>>

OpenMR(m, who) ==
  /\ Move /\ state[m] = "none" /\ Source[m] \in branches
  /\ state' = [state EXCEPT ![m] = "opened"]
  /\ author' = [author EXCEPT ![m] = who]
  /\ pipe' = [pipe EXCEPT ![m] = IF ahead[Source[m]] = <<>> THEN "none" ELSE "running"]
  /\ within' = [within EXCEPT ![m] = ahead[Source[m]]]
  /\ UNCHANGED <<branches, ahead, touched, onMain, green>>

PipelineEnds(m, status) ==
  /\ Move /\ state[m] = "opened" /\ pipe[m] = "running"
  /\ pipe' = [pipe EXCEPT ![m] = status]
  /\ green' = IF status = "success" THEN green \cup {m} ELSE green
  /\ UNCHANGED <<branches, ahead, touched, onMain, state, author, within>>

MergeMR(m) ==
  /\ Move /\ state[m] = "opened"
  /\ state' = [state EXCEPT ![m] = "merged"]
  /\ onMain' = (onMain \/ Source[m] \in touched)
  /\ touched' = touched \ {Source[m]}
  /\ ahead' = [ahead EXCEPT ![Source[m]] = <<>>]
  /\ UNCHANGED <<branches, author, pipe, green, within>>

CloseMR(m) ==
  /\ Move /\ state[m] = "opened"
  /\ state' = [state EXCEPT ![m] = "closed"]
  /\ UNCHANGED <<branches, ahead, touched, onMain, author, pipe, green, within>>

ProjectNext ==
  \/ \E b \in Names, kind \in Kinds, file \in BOOLEAN : Push(b, kind, file)
  \/ \E m \in Ids, who \in Everyone : OpenMR(m, who)
  \/ \E m \in Ids, status \in {"success", "failed"} : PipelineEnds(m, status)
  \/ \E m \in Ids : MergeMR(m) \/ CloseMR(m)

-----------------------------------------------------------------------------
(* What the API answers.                                                   *)

InState(s) == Among(MRs, {m \in Ids : state[m] = s})

\* Listings are paged by offset: a page is cut from the list as it is now.
LastPage(list, n) == Len(list) <= n * PageSize
Page(list, n) ==
  SubSeq(list, (n - 1) * PageSize + 1, IF LastPage(list, n) THEN Len(list) ELSE n * PageSize)

HasFile(ref) == onMain \/ ref \in touched
=============================================================================
