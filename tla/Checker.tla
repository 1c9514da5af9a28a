-------------------------------- MODULE Checker --------------------------------
(***************************************************************************)
(* checker-service: what it concludes from the answers of GitLab, and what *)
(* it asks next.  The answers come one call at a time (Labs), and the      *)
(* project may change between them.                                        *)
(***************************************************************************)
EXTENDS GitLabProject

CONSTANTS
  Matches,       \* the branches whose name starts with a pattern; "" is the empty one
  MinMerged      \* merged requests the policy "merged" wants

ASSUME CheckerAssumption == MinMerged \in Nat

StepTypes == {"gitlab_branch", "gitlab_mr_open", "gitlab_conventional_commit",
              "gitlab_pipeline_passed", "gitlab_commit_on_branch",
              "gitlab_file_on_branch", "gitlab_conventional_commit_on_branch"}

\* The policies are Rego written by course authors: three typical ones.
Rules == {"merged", "review", "file"}

\* What a call has gathered so far: of a merge request that could not be read
\* there is no entry.
NothingYet == [branches |-> <<>>, open |-> <<>>, pipe |-> <<>>, commits |-> <<>>,
               merged |-> 0, page |-> 1, ahead |-> {}, diff |-> FALSE, file |-> FALSE]

Add(f, k, v) == [x \in DOMAIN f \cup {k} |-> IF x = k THEN v ELSE f[x]]

\* Mutant: everybody's merge requests.
AnyAuthor(open) == open

MrsByAuthor(open) == Among(open, {m \in Ids : author[m] = Me})

\* The branches of a listing whose name starts with the pattern; the first counts.
BranchByPattern(listed, pattern) == Among(listed, Matches[pattern])

OrFeature(pattern) == IF pattern = "" THEN "feature/" ELSE pattern

\* The calls made for each merge request: the pre-fetched pipelines, then the
\* commits of the learner's own; a policy gets both for every one.
MRCalls(o, open) ==
  LET Ask(what, list) == [i \in DOMAIN list |-> <<what, list[i]>>]
  IN  IF o.kind = "policy"
      THEN [i \in 1 .. 2 * Len(open) |-> <<IF i % 2 = 1 THEN "pipe" ELSE "commits", open[(i + 1) \div 2]>>]
      ELSE Ask("pipe", open) \o
             (IF o.check = "gitlab_conventional_commit"
              THEN Ask("commits", MrsByAuthor(open)) ELSE <<>>)

NeedsCompare(o) ==
  o.check \in {"gitlab_file_on_branch", "gitlab_conventional_commit_on_branch"}

\* The policy sees the file on the branch of the first open merge request.
FilesRef(g) == IF g.open = <<>> THEN Main ELSE Source[Head(g.open)]

-----------------------------------------------------------------------------
CheckMROpen(mine) == mine # <<>>

CheckConventionalCommit(mine, g) ==
  \E i \in DOMAIN mine : mine[i] \in DOMAIN g.commits /\ "conventional" \in g.commits[mine[i]]

\* The first merge request that could be read decides.
CheckPipelinePassed(mine, g) ==
  LET read == Among(mine, DOMAIN g.pipe)
  IN  read # <<>> /\ g.pipe[Head(read)] = "success"

CheckBranch(o, g) == BranchByPattern(g.branches, o.pattern) # <<>>

CheckCommitOnBranch(o, g) == BranchByPattern(g.branches, OrFeature(o.pattern)) # <<>>

CheckFileOnBranch(o, g) == CheckBranch(o, g) /\ g.diff

CheckConventionalCommitOnBranch(o, g) == CheckBranch(o, g) /\ g.ahead = {"conventional"}

CheckStep(o, g) ==
  LET mine == MrsByAuthor(g.open) IN
  CASE o.check = "gitlab_branch"                        -> CheckBranch(o, g)
    [] o.check = "gitlab_mr_open"                       -> CheckMROpen(mine)
    [] o.check = "gitlab_conventional_commit"           -> CheckConventionalCommit(mine, g)
    [] o.check = "gitlab_pipeline_passed"               -> CheckPipelinePassed(mine, g)
    [] o.check = "gitlab_commit_on_branch"              -> CheckCommitOnBranch(o, g)
    [] o.check = "gitlab_file_on_branch"                -> CheckFileOnBranch(o, g)
    [] o.check = "gitlab_conventional_commit_on_branch" -> CheckConventionalCommitOnBranch(o, g)

\* What OPA answers for the three policies on the gathered input.
Evaluate(o, g) ==
  CASE o.rule = "merged" -> g.merged >= MinMerged
    [] o.rule = "file"   -> g.file
    [] o.rule = "review" ->
         \E i \in DOMAIN g.open :
           LET m == g.open[i] IN
             /\ m \in DOMAIN g.pipe /\ g.pipe[m] = "success"
             /\ m \in DOMAIN g.commits /\ "conventional" \in g.commits[m]
=============================================================================
