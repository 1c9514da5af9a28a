# Verification of the e-learning platform

This directory models the parts of the platform where several requests, several services and a database meet, checks
the models with TLC and proves the most important results about them with TLAPS. The code modelled is the Go code of
`src/course-service`, `src/user-service` and `src/checker-service`; everything below names it by path.

Contents: 1 [the system](#1-the-system), 2 [modules](#2-modules-and-how-they-correspond-to-the-code),
3 [runs](#3-runs), 4 [fairness](#4-fairness), 5 [proofs](#5-proofs), 6 [where code and comments disagree](#6-where-code-and-comments-disagree),
7 [abstractions](#7-abstractions), 8 [not modelled](#8-not-modelled), 9 [plan](#9-plan).

## 1. The system

Three Go services and an Astro frontend; two of the services have a PostgreSQL schema of their own.

* **course-service** owns the catalogue (courses, modules, paths, sessions), renders lessons, scores quizzes, runs lab
  checks. It keeps the definitions, the quiz retry state (`quiz_question_attempts`), lab results and, in memory and on
  disk, a cache of git clones.
* **user-service** owns accounts, groups, enrolments, bookings, and what learners have achieved: lesson and module
  progress, XP, badges, skill levels. It keeps a short-lived copy of the catalogue in memory.
* **checker-service** evaluates lab steps against clusters and repositories; it keeps no state.

The services call each other over HTTP with a shared token (`src/internal/httpx/client.go`: a 10 s timeout, no
retries). No call spans a transaction, and most handlers issue their SQL statements one by one.

| component | state | operations | talks to | what is hard | what makes it correct |
|---|---|---|---|---|---|
| Learner progress flow, `course-service/internal/handlers/{lessons,modules,user_client,state}.go` | none of its own; a request's view of the learner | mark a lesson complete, submit a quiz, list modules | user-service (three reads, four kinds of write), catalogue, git cache | decides from what it read earlier, while the learner enrols and leaves; two of its calls are detached and never retried, two synchronous ones may time out half-way | completions and entry only for what was really done; all that follows from a completion arrives; every request is answered |
| Learner records, `user-service/internal/handlers/{internal,internal_progress,xp}.go` and repositories | `lesson_progress`, `module_progress`, `user_xp_events`, `user_badges`, `user_skill_levels`, `enrollments` | record a lesson, a quiz result, a completion; enrol, unenrol | called by course-service | a completion is four statements without a transaction; results of overlapping submissions arrive in any order | awards stand on rows; counts, best scores and passes are never taken back |
| Learner's pages, `course-service/.../modules.go` (listing), `user-service/internal/handlers/{paths,skills,catalog}.go` | none | list modules, paths, a skill's modules | each other | an answer that is missing is read as empty | no page shows a learner further than he is |
| Quiz rules and scoring, `course-service/internal/content/scoring.go`, `handlers/modules.go` | none; rules in a document or in the course definition | show, score, delay | git cache, catalogue | two sources of the same rules, one read through a cache; rounding; partial credit | judged by what was shown; fair scores |
| Quiz retry state, `course-service/internal/repository/quiz_attempt.go` | `quiz_question_attempts` | check, clear, increment, set deadlines | the submission handler | four statements, overlapping submissions, a failing statement in the middle | exact counts; each wrong answer delays; no scoring inside a cooldown |
| Cooldown, `course-service/internal/content/cooldown.go` | none | `ComputeCooldown` | the above | products of machine integers and of a float nobody validates | the cap caps; more failures never mean a shorter wait unless the multiplier asks for it |
| Git cache, `course-service/internal/content/git.go` | entries, clones under way, directories | fetch, Clear, ClearRepo | lessons, quizzes, indexes, lab checks | one mutex, channels, disk operations outside of it, eviction | one clone at a time; bounded disk; every fetch ends |
| Group hierarchy, `user-service/internal/repository/group_hierarchy.go` | `groups.parent_id`, `depth`, `path` | create, subgroup, move, delete | admin and manager handlers, sign-in | the tree is stored twice; unlocked reads at READ COMMITTED | both descriptions agree; bounded depth |
| Group membership, `user-service/internal/repository/group_{members,enrollments,sync}.go`, managers in `handlers/manager.go` | `user_groups`, `group_enrollments`, `enrollments` | add, remove, enrol a group, sign in, delete; a manager's requests | admin and manager handlers, every kind of sign-in | enrolments follow from two tables that change between statements; a manager's scope is looked up before it is used | nobody who should have a course misses it; local memberships survive sign-ins; managers stay in their scope |
| Enrolments and paths, `user-service/internal/handlers/{enrollments,paths,catalog}.go` | `enrollments`, `path_enrollments`, a cache of the catalogue | enrol, leave, list | course-service through the cache | a cached or missing answer decides; a path is several rows | gates decided on recent answers; a path comes with its courses |
| Session booking, `user-service/internal/handlers/sessions.go` | `session_bookings` | book, cancel, mark presence | asks course-service for the capacity | capacity, count, look and insert are four steps | overbooking is bounded by what overlaps |
| Exports, `user-service/internal/repository/export.go`, `handlers/export.go` | the export log | preview, download | course-service for titles | several statements over tables that change; titles of private courses | a file is one moment's rows, with the columns asked for |
| Catalogue, `course-service/internal/repository/{course,path}.go` and admin handlers | course, module, session, path rows | create, save, import, delete, read | admin, every learner request | read in four SELECTs, written in a transaction; most writes check first | no silent overwrite or revival; an import keeps what it says it keeps |
| Accounts, `user-service/internal/handlers/{auth,oauth,oidc,ldap,admin}.go` | users, role mappings, settings, tokens | register, password, OIDC, LDAP sign-in, admin edits, seeding | identity providers | linking, role mapping, checks in other statements than the writes | roles in tokens were held; nobody takes over an account |
| Lab checks, `course-service/internal/handlers/check.go`, checker-service | lab results | check, record | GitLab | a verdict is a dozen calls on a project that moves | work that is there is allowed, work that is not never; a result is stored for the module it was earned in |
| Markdown, asset replication, badge and XP listings, patterns, plumbing, frontend | little | read and render | - | - | - |

`PROJECT.json` lists these components with their status, and under `hazards` each place where something can go wrong
that a test would hardly reach, with the property that watches it.

## 2. Modules and how they correspond to the code

```
LearnerRecords <-- CourseFlow <-- LearnerPages <-- MCCourseFlow           Cooldown <-- QuizAttempts <-- MCQuizAttempts
                                       ^-- CourseFlowProofs                  ^             ^-- QuizProofs (extends both)
GitCache  <-- GitProofs, MCGitCache                               Scoring <--+-- Quizzes <-- MCQuizzes
GroupTree <-- GroupTreeProofs, MCGroupTree
Membership <-- Managers <-- MCMembership        Accounts <-- AccountsProofs, MCAccounts  (implements UserStore)
                   ^-- MembershipProofs         Catalog  <-- CatalogProofs, MCCatalog    (implements CatalogStore)
                                                CatalogCache <-- Enrolments <-- Exports <-- EnrolmentsProofs
                                                                                        ^-- MCEnrolments
                                                                  (Enrolments implements EnrolmentStore)
GitLabProject <-- Checker <-- Labs <-- GitProofs (extends GitCache too), MCLabs
```

An arrow points from a module to one that EXTENDS it. An `MC...` module gives the constants their small values and
names the symmetry; a `...Proofs` module holds theorems. An operator introduced by a comment `Mutant:` is a variant with
a plausible bug; each shows that a property would notice it.

### What learners have done

**LearnerRecords** has one operator for each SQL statement on the rows of *one* learner: every table is keyed by the
user, so learners never meet. `Attempted` is the upsert of `module_progress` (attempts + 1, `GREATEST`, `OR`, and the
`COALESCE` that keeps the slug of the first attempt), `Promoted` the upsert of a skill level with its two maitre rules,
and the queries (`ViewedSlugs`, `PassedModules`, `TotalScore`) are those completion and prerequisites are decided from.

**CourseFlow** composes these statements with the requests of course-service. `pc[r]` is where a request's goroutine is, `shown`
and `view` are `learnerView`'s copy of the modules and of the progress. `Start` loads the course, less the modules of an index
that cannot be fetched; `ReadViewed`, `ReadModules`, `ReadEnrolled` are the three queries of the overview endpoint,
`EnsureAccess`, `ReadPrereqViewed`, `CheckPrereqs` are `ensureModuleAccess`, `PostLesson` ... `Notified` the two handlers.
`call[r][k]` is how far the internal call of kind `k` has come: it is `sent`, then one action runs each of its statements
(`LessonRow`, `LessonXP`, ..., `CompleteSkills`), also when the request that made it has been answered. `CallFails`,
`StatementSkipped`, `OverviewFails`, `SummariesFail` and `GiveUp` are lost calls, failed statements and timeouts. Between any two
steps an admin may save another version of a course (`SaveCourse`), and the learner may enrol or leave (`Enroll`, `Unenroll`);
leaving deletes the enrolment and keeps the progress. `MaxEdits` bounds the three together. The history `member[r]` says whether
an enrolment was there at some moment between the request's start and its look at the enrolments.

**LearnerPages** has the pages that show these records, as operators: the module list with its locks (`Locked`,
`CompletedSlugs`), the learning paths (`BuildCourseStatuses`), the pages of a skill (`SkillCompletion`,
`OrderedSkillStatuses`). Each takes the set of reads that failed when it was built.

**Cooldown** is `ComputeCooldown` in the machine's integers: `Word` stands for 2^63, `Second` for 10^9, and a float that does not
fit an int converts to the smallest int (amd64) or the largest (arm64), both of which are outcomes. The multiplier is a `float64`
that nothing validates, so it is a whole number of `Unit`-ths here, below 1 and below 0 included; `Grown` is the product with its
fraction dropped.

**QuizAttempts** has the four statements of a submission: `Accept`/`Refuse` (States), `Clear`, `Increment` and
`Deadlines`, with the computation of the deadlines (`ComputeBackoff`, through `Cooldown`) between the last two, for it
takes its own time stamp. Histories (`counted`, `owed`, `lockedOut`) record what the learner did and was told.

**Scoring** is `ScoreQuiz` and its parts for every type of question, with quotients rounded as the code rounds them and
both outcomes where a percentage ties with the passing score. **Quizzes** takes one quiz from the page to the verdict:
`ShowQuiz` and `ShowInlineQuiz` are the two ways to show it, `Submit` scores the answers by the rules of that moment
(`SubmitRules`: the document's of a git-hosted quiz, the definition's of another; `CooldownDefaults` where the code applies
them), counts and delays wrong answers through `Cooldown`. `SaveModule` and `PushDocument` exchange the rules in between. A hosted document is
read through the git cache: page and submission take the cached `clone` or make one (`FetchQuizContent`), so a push is not seen before
`DropClone`, which is expiry, eviction and the two Clears.

### What everything is read from

**GitCache** has an action for each critical section of the mutex and each disk operation outside of it: `Lookup`
(`getOrClone`), `Awake` (`awaitClone`), `Wipe` ... `Publish` (`cloneAndCache`, with `evictLocked`), `Close`, `Read`, `Clear`,
`ClearRepo`. A directory is absent, partial or whole.

**Catalog** has the rows of courses, modules, sessions and paths. A request is a record with the statement it is at and
what it has read (`Exists`, `ReadRow`, `ReadModules`, `ReadPrereqs`, `ReadSessions` and the three statements of a path);
`Write` is the transaction of `Upsert`, which locks the course's row and so is one step, `PutSession` the upsert of one
session, `DeleteCourse`, `DeleteSession`, `DeletePath` the single-statement requests. `MergeStored` is what each mode of
an import keeps. **CatalogStore** is the two repositories as their in-memory implementations in `course-service/fake` give
them: the abstract specification.

**CatalogCache** is user-service's copy of the catalogue: entries with an age, flights shared by the requests that miss
the same keys (`Join`, `FetchDone`, `FetchFails`), storing and evicting (`StoreFetched`). The catalogue itself changes by
`Edit`; its history `was` is what the properties compare cached answers with.

### Who may do what

**GroupTree** keeps the rows of `groups` with `parent_id`, `depth` and `path` (a sequence of ids; the default `''` is
`Pathless`). `CreateSubgroup` and `MoveGroup` are one action for each of their reads and one for the writes that end
them; `Create`, `CreatePathless`, `Mirror` and `Delete` are the single-statement ways a group comes, changes hands and
goes.

**Membership** keeps the tables `user_groups`, `group_enrollments` and `enrollments`. A request in a slot is a record
with the statement it is at and what it has read; `After` is the order of the statements of each request. `Record`,
`ListMembers`, `Backfill` are `EnrollCourse`; `Clear`, `Join`, `SetRole`, `MakeDefault`, `LinkDefault`, `ListSlugs`,
`EnrollInAll` a sign-in; `LookForMembers`, `LookForOwner`, `Delete` a deletion. `Clear` and `Join` are one transaction:
what `Clear` deletes stays visible to the others until `Join` commits, and a failure of either undoes both.

**Managers** adds the requests of managers to it. An errand looks at the manager's groups (`CheckOwner` in one statement, or
`ListScope` and `CheckScope` in two) and then does one thing (`Act`), with the tables changing between.

**Accounts** has one action for each SQL statement of registration (`LookForTaken`, `Insert`), of password sign-ins and
changes (`Login`, `Verify`, `Rehash`), of renaming (`CheckName`, `WriteName`) and of provider sign-ins (`FindIdentity`,
`Refresh`, `FindEmail`, `Link`, `LookForName`, `Provision`, then `ReadRole` and `MapRole` in their transaction, and
`Override` by the list of admin groups). `Fails` is a failing statement and what the handler does about it: some give up, some go on as if
nothing was found. The unique indexes are part of every write (`Clash`). **UserStore** is the in-memory repository of the tests.

**Enrolments** has the handlers of user-service that enrol, leave, list and book: each asks the catalogue first, through the cache
(`Resolve`) or directly (`SessionCapacity`), and writes afterwards (`Create`, `EnrollWithCourses`, `Book` and `Insert`, which are
the two statements of `FirstOrCreate`). **EnrolmentStore** is the three in-memory repositories. **Exports** adds the admin's
exports of enrolments and path enrolments: a preview counts, reads rows and looks up titles; a download looks up titles, streams
the rows of one statement and logs itself.

**GitLabProject** is external: the learner's project as far as checker-service asks about it, and how it may move. **Checker** is
what checker-service concludes from the answers (`CheckStep`, `Evaluate`, `BranchByPattern`). **Labs** makes a check one action
for each call: course-service finds the module by its position (`ResolveLabModule`, `ResolveStored` for local checks), the calls
to GitLab follow one by one, the listings of branches and merge requests page by page, `Judge` concludes and `StoreLabCheck`
records. `MRCommits` is all commits of a merge request for a step and the first page of them for a policy, which asks once
(`fetch.go:168`). `CallLost` is the call to checker-service failing at any point of its work, or its answer being unreadable.

## 3. Runs

Each `.cfg` is a run of `PROJECT.json`, where its question is stated in a sentence. The comment above a property states it and names
the code it is about.

| run | instance | shows |
|---|---|---|
| CourseFlow_learn | 3 requests over 2 courses of 3 positions, one private and behind the other, the other with a hidden module and a git-hosted quiz; no faults, no edits | completions are stored only for what was really done (`CompletionSound`), a completion's awards arrive (`AwardsGranted`) |
| CourseFlow_faults | 2 requests over 2 courses of 2 positions, the first private with 2 git-hosted quizzes, one of which asks for the other and may be marked as a lesson, the second behind a score in it; one fault, one edit: the quizzes exchanged, an enrolment or an unenrolment | entry conditions hold for whatever is stored (`AccessHonoured`), the module list opens modules in order (`ModulesOpenInOrder`), awards stand on stored rows (`AwardsBacked`), no result of a module is lost in any order (`AttemptsCounted`), nothing is taken back (`ProgressKept`), no page built during an outage is ahead of the learner (`OutageUnlocksNothing`), requests are answered and calls end (`EverythingEnds`) |
| CourseFlow_missed | 2 requests, a course of a lesson and a quiz, no fault | *violation*: a finished course stays incomplete, see 6 |
| QuizAttempts_overlap | 3 submissions, 2 at a time, 2 questions, a cap of 2, clock to 3, one fault | `CountsExact` in every interleaving; each counted wrong answer delays (`FailureDelays`); no scoring inside a cooldown for submissions that do not overlap (`RetrySpaced`) |
| Quizzes_rules | hosted and inline quizzes of each question type and cooldown strategy; multipliers 0, 1/2, 1, 2 and 3; 4 wrong answers, one edit, clones given up at any time; Word = 64, Second = 2, Unit = 2 | `ScoringFair`; judged by the rules shown (`RulesApplied`); waits grow up to their cap until the product overflows (`WaitsGrowToCap`) |
| GitCache_shared | 3 readers, 2 repositories, room for 1, one failure, one Clear, clock to 1 | `SingleCloner`, `DiskAccounted`, `CacheBounded`; every fetch ends (`FetchEnds`) |
| Catalog_edits | 2 overlapping admins with 4 requests, 1 course (2 texts, 2 modules, 2 sessions), 1 path | the tables behave as the repositories of the tests (`Implements`); the derived skills column answers right (`QueriesAgree`); imports keep what they promise (`ImportKeepsFields`); nothing is written over or revived that the request never found so (`NothingRevived`) |
| Enrolments_seats | 2 overlapping requests of 3 users, 3 in all, an export, 1 course with 1 session of 1 seat, 2 paths, a cache with room for 1, clock to 3 | overbooking stays below the number of requests at work (`SeatsBounded`); gates are decided on answers of a bounded age (`XPGate`); paths come with their courses (`PathComplete`); exports hold one moment's rows (`SheetsFaithful`); `Implements` |
| GroupTree_moves | 5 groups, 6 changes, 2 at a time, nesting to 3 | `PathsTrue` and `DepthBounded` as long as no move overlaps another change |
| Membership_sync | 2 users, the default group and another, 1 course, 2 requests and an errand at a time, 4 changes, one fault | `NobodyMissed` up to the named excuses; `LocalKept`; `ManagersInScope` |
| Accounts_signin | 2 overlapping requests, 3 accounts, 2 emails, 3 names, 2 providers with a common subject, one edit, seeding or fault | `RoleHeld`, `NoTakeover`, `PasswordProven`; the SQL table behaves as the repository of the tests, up to the seeding of a renamed admin (`Implements`) |
| Labs_checks | 1 check of each kind, 2 merge requests on 2 branches, pages of 1, 2 moves of the project, one edit, one fault | an undisturbed check allows exactly what it asks for, for a policy as far as one page of commits goes (`VerdictRight`); a disturbed one allows nothing that was not done (`AllowEarned`); results name the module shown (`NamesShown`) |

Why these bounds are enough. A race needs two actors and, for the caches and counters, a third that profits: three requests
complete both courses and so reach the maitre level while overlapping; three submissions let two overlap and a third meet what
they left; three readers are a leader, a waiter and a reader of the other repository, and room for one clone makes every second
clone evict; three users with one seat are one who sits and two who race. One fault is one statement or call that fails at any
point; what two independent failures do is what each does alone, as a handler never looks at an earlier failure of another
request. Five groups and six changes build a tree three levels deep and move a subtree that has one; nesting to 3 lets the limit
bite both in `CreateSubgroup` and in `MoveGroup`. Four changes in Membership are a group, a member, a group enrolment and one more
disturbance of the request or errand that runs meanwhile. Four requests of the catalogue create a course with a path over it and
let an edit and an import overlap on them. A cached answer can age past its life (`TTL`, with `Lag` for the time a flight takes)
within three ticks, and room for one entry makes each second lookup evict. A page of one item shows each loop over pages stopping
and going on, and one branch beside `Main` makes its listing two pages; with one commit to GitLab's first page (20 in earnest), a
push of the learner's puts work out of a policy's sight. One edit in CourseFlow_faults is enough to enrol, be let in and work, to
leave between any two steps of a request, or to give a passed quiz's place to the other one. The document pushed before the page
and the clone given up behind it need one push. Three accounts are the admin, his rival and a newcomer; two providers with one
subject are what a takeover needs. The `Word` of 64 is passed by the fourth wrong answer under the larger configurations. The
proofs of section 5 remove these bounds from the most important results.

`CHECK_DEADLOCK FALSE` is set everywhere because each request, submission or reader is used once and each number of
changes is bounded: a system whose users have all left has nothing more to do. That nothing hangs before is stated by
`EverythingEnds` and `FetchEnds` where a wait exists at all.

**Refinements.** `Accounts`, `Catalog` and `Enrolments` are stated statement by statement on the SQL tables; the handlers'
tests of the repository run against in-memory repositories, in `user-service/fake` and `course-service/fake`. `UserStore`, `CatalogStore`
and `EnrolmentStore` say what those do, one atomic call at a time, and `Implements` says that the tables, seen through
the interface, move the same way: what the tests show about the fakes carries over, with the differences named in the
property (the seeding of a renamed admin; the sessions a rewritten course keeps).

## 4. Fairness

* CourseFlow: weak fairness of each request's own steps (`Serve`) and of the endpoints' statements (`Handle`). A handler
  is a goroutine that waits for nothing but its calls and its statements, and both are bounded by timeouts. The
  learner, the admin and the faults owe nothing.
* GitCache: weak fairness of each reader's steps. A runnable goroutine runs; the mutex is held for map operations and
  removals only; a clone ends one way or the other, for the git client's context and network errors end it. `Fetch`, `Clear`
  and the clock owe nothing.
* The other modules state safety only and have no fairness: nothing in them waits for anybody else.

## 5. Proofs

TLAPS checks these for every value of the constants that satisfies the named assumptions (`RecordsAssumption`, `FlowAssumption`,
the `CacheAssumption`s of GitCache and CatalogCache, `MembershipAssumption`, `AttemptsAssumption`, `CooldownAssumption`,
`QuizAssumption`, `AccountsAssumption`, `EnrolmentAssumption`, `ExportAssumption`, `TreeAssumption`, `CatalogAssumption`,
`ProjectAssumption`, `CheckerAssumption`, `LabsAssumption`). They are small: numbers are natural, the sets that are counted are
finite, model values that stand for nothing are not values. Of the learner's project they say that a merge request occurs once in
the listings, that its branch is one of the project's, and that nobody has worked on a merge request that is not open yet
(`IsStart`).

**CourseFlowProofs.** `TypeCorrect`; `MaitreAlwaysGranted` and `ProgressAlwaysKept` from types alone, as the upserts themselves
preserve them; `AwardsAlwaysBacked` needs more. `AwardsBacked` is not inductive: the statements that give the badge, the XP and
the levels do not look at the sentinel row. `Inv` adds `CallsMatch` (a call under way belongs to a request that has an operation)
and `SentinelFirst` (a completion call past its first statement has its sentinel row stored). `AwardsBacked` then holds because no
statement deletes from `lesson_progress`. `AttemptsAlwaysCounted` adds that a result exists only after its scoring (`ResultLate`),
so that what was delivered never changes, and that what was delivered is finite. `CompletionAlwaysSound` follows a completion
back: reports are made by requests that saw nothing undone (`ReportsReal`), because what they read was so (`ViewsReal`), because
rows speak of passes that happened (`RowsReal`). The last needs `PlacesKept`, an assumption on the catalogue and part of the
theorem: no edit and no index that cannot be fetched puts a quiz at the position of another. Without it the theorem is false, as
section 6 tells. `AwardsAlwaysGranted` adds what each statement has left so far (`GrantedSoFar`) and that a call in flight behind
an answered request was given up on, which is a fault (`GivenUp`). `AccessAlwaysHonoured` says of each request what it found out
on its way in (`LetIn`): the enrolment it read is there, the courses it saw begun are, and a request past the checks (`Inside`)
met an enrolment, if its course is private, and met the prerequisites. Enrolments come and go, so what stays is not the enrolment
but the history of it: a request that still looks has met every enrolment there is (`MemberKept`). Prerequisites once met stay met
while others write (`MetKept`), because rows only get better and because a sum of scores grows with its terms (`SumGrows`).
`OutageNeverUnlocks` holds of any records at all: the pages are monotone in what could be read. `ModulesAlwaysInOrder` goes from
an open module back to the requests that earned what it waits for. Its invariant `MarkInv` says that a slug is stored as viewed
because a request marked it, in a list that showed it (`LessonsMarked`, `MarksListed`), and that a result carries the slug its
request's list had at its place (`ResultsPlaced`); passes come from `AttemptsAlwaysCounted`. It assumes nothing of the catalogue:
an edited course and a quiz marked as a lesson, which the code accepts, are part of what counts as earned.

*Induction over data.* The library's induction theorems take an operator and cannot be cited here. That the numbers are well
founded can (`NatLessThanWellFounded`, `WFMin`), and gives `SuccessorClosed`: a set that holds 0 and the successor of each of its
numbers holds them all. With that, `SumsExist` shows that the recursive function behind the fold `SumFunctionOnSet` exists, and
`SumGrows` what it sums to.

**GitProofs**, of GitCache. `Inv` holds `LeaderRegistered` and `Registered` (a reader is leading a key exactly if its channel is
the one registered for it), `FailureCleaned` (a failure is published only after its directory is removed), `NoneForgotten` (a
channel that somebody waits on is closed or has a leader that will close it), `DiskAccounted` and `CacheBounded`. `OneCloner` follows
from `LeaderRegistered`, as a key has one registered reader. `CacheBounded` rests on lemmas about the
cardinality of what `Evictions` leaves. `WaitersRemembered` is the safety half of `FetchEnds`.

**GitProofs**, of Labs. `Base` is common to the four theorems: the types, the stages a check of each kind passes (`StageInv`),
what a stored row says (`RowsInv`), and that a merge request nobody opened has no work in it (`ProjectInv`). `LabsTypeCorrect` is
its typing. `Grows` says what no change of the project takes back. `NamesAlwaysShown` follows the module a request works on from
the moment it was shown (`NameInv`). `AllowAlwaysEarned`: nothing gathered is more than what was done (`Earned`), which holds
although every answer is stale, because what an answer reports only grows: commits are added in front of a list and branches are
never deleted (section 7). The count of merged requests needs `Counting`: with n - 1 pages read, the pages were full and the list
is at least as long as they are, so a list that grows between the pages is never counted above its length. `VerdictAlwaysRight`:
while nothing disturbs a request, what it has gathered is what the project answers now (`Current`), page by page for branches and
merge requests (`BranchPage`, `PageMembers`), with the calls that are `Left` to make; a policy has read all commits where they fit
one page (`CommitsRead`, under the property's condition `CommitsSeen`). `VerdictFollows` then compares the code's conclusion with
the reference definition, check by check. It rests on lemmas about the pages of a list (`Listings`, `PageFacts`, `PageStart`) and
on `Among`, which is SelectSeq as a recursive function, with what it keeps (`AmongMembers`, `AmongRange`, `AmongCount`) shown by
`SuccessorClosed`. Two places of the model were put into another form for this: SelectSeq, which the provers do not know, is
written out as `Among`, and the calls for each merge request (`MRCalls`) are a list of pairs in place of a recursive
concatenation. TLC finds as many states as before.

**QuizProofs**, of QuizAttempts. `TypeCorrect` needs that a cooldown is a number: `Power` is a recursive function, which exists and has
whole values by `SuccessorClosed` (`PowersExist`, `PowerType`), and a wait is only computed for a count (`Counting`).
`CountsAlwaysExact`: `Inv` adds that the set of counted submissions is finite and that a
submission that has not reached `Increment` is counted nowhere, so that it adds itself where it adds one. `FailureAlwaysDelays`
follows each counted question to the submission that stored its deadline or is about to (`Delays`), over counts that were reached and
waits that were computed for them (`CountsReached`). Its hypothesis `AlwaysWaits` says that each count the submissions can
reach asks for a wait; a quiz configured without one, or whose product overflows to nothing, delays nobody, as it says.
`RetriesAlwaysSpaced`: while one submission runs at a time, what the learner was told is what the rows say (`OneByOne`).

**QuizProofs**, of Quizzes. `QuizInv` says where the stored rules come from (`QuizTypes`), that what the page said is what is
stored unless the course was saved or an outdated clone was given up since (`ShownCurrent`, which fetching keeps: `FetchKeeps`),
that a result was scored by valid rules (`ResultFair`) and that a wait is 0 or one the question's count called for (`WaitsFit`).
`ScoringAlwaysFair` then is arithmetic: rounding does not take a quotient across a whole number (`RoundBounds`), so partial points
stay below the question's (`PartialBounds`), and sums grow with their terms (`SumGrows`). `WaitsAlwaysGrow` compares a wait with
the uncapped one (`FittingIsExact`), which grows with the count (`UncutGrows`) where the multiplier is at least 1 or the default,
which every stored definition that names none gets (`DefaultsNamed`). That the product grows although its fraction is dropped is
arithmetic of quotients (`QuotientGrows`, `GrownGrows`). Its hypothesis `CapsFit` keeps caps below 292 years. Two details of the
model came up in the proof and were put right: the property's condition that a wait fits a Duration has to hold on the negative
side too, where a linear product with a negative base could wrap around to a wait, and a correct answer to a multiple-choice
question met two cases of `PointsEarned`.

**MembershipProofs.** `TypeCorrect`; `NobodyEverMissed` adds `OffersReal` (a group enrolment's group exists); `LocalAlwaysKept`
adds `ClearedTheirs` (the groups an open transaction has deleted from are still the provider's, for no
statement turns a provider's group back into a local one). A manager's write is one of Membership's, so
`NobodyMissedByManagers` reuses the step lemmas. `ManagersAlwaysInScope` adds `Known`: what an errand has seen is still so,
unless the manager or the user was put out of a group since (`lost`).

**AccountsProofs.** `Inv` is `TypeOK`, which says that names, emails and identities are unique, `TokensKnown`, and for each request that its
fields fit the statement it is at (`Shaped`), that it is on the way its kind may take (`OwnWay`), and that what it
goes on from was true at some moment since it began (`Witnessed`). `Effect` is what any statement may do to the table: leave it
alone or do one of UserStore's operations to one row. Each action has a lemma that it has this effect and
keeps the invariant of its own request; another request only sees more moments. `RoleAlwaysHeld`, `NeverTakenOver` and
`PasswordAlwaysProven` follow from `Witnessed` and `Effect`, and `ImplementsUserStore` is the refinement itself.

**EnrolmentsProofs.** The theorems are about ExportsSpec, so they hold while exports run. `SeatsBounded` is not inductive:
`RoomFor` counts, for each capacity k, those let in under k or less together with the requests that are about to book under k or
less, and keeps their sum below k plus the number of requests: a request that counts sees fewer than k seats taken, and booking
only moves it from one summand to the other (`SeatsInsert`), or out of the first when its look finds a booking already there.
`XPAlwaysGated` and `PathsAlwaysComplete` rest on the age of answers: a fetch holds what was so at `answered`, is stored within
`Lag` of it and read until `TTL` after that, so what a lookup ends with is in `Recently` (`CacheOK`, `RequestOK`, `DecidedOn`),
and a lookup that has ended is acted upon before time moves on. `TypeCorrect` includes that no cache outgrows its limit.
`ImplementsEnrolmentStore` is the refinement. `SheetsAlwaysFaithful` adds `ExportInv`, which says of each export what its sheet
and its total are about (`Shown`, `Written`), with the rows the statement saw in `snapshot`; `ColumnsShown` shows that the columns
fetched only to look titles up are those left out again, and `Published`, which only grows, is where a title can come from.

**GroupTreeProofs.** `DepthBounded` and `PathsTrue` hold together or not at all. `Inv` adds `Measured` (depth and path are read,
computed and written together, so a depth is its path's length less one, races or not: `DepthIsLength`), `InsertsFresh` (a group
that waits for its insertion is nobody else's, and nobody's parent), `MovesAlone` (without a race a move has the table to
itself), `RoomBelow` (the deepest row under the moved group still fits, which rests on `Max` of a finite set of numbers having the
bound its definition promises) and `Tree`, the local half of which (`HangsRight`, a row agrees with its parent's) is not
inductive under a move, which rewrites by prefix: `PathOK` says that every prefix of a path is the path of the group it ends
with. `StillTrue` keeps what a transaction has read. A move's rewriting is then shown to change the whole subtree and
nothing else.

**CatalogProofs.** `Inv` is `Tables`, `NoOrphans`, `SkillsDerived` (the stored skills of a course are those of its modules, from
which `QueriesAlwaysAgree` follows query by query) and, for each request, `Flying` (what it holds fits where it is),
`Remembers` and `Current`. `seen` collects what the course was while the request ran; `Current` says that it includes what is
stored now, and `Remembers` that what the request holds came from there: that the slug was free, that a course was there, that an
own text and the modules an append starts from are those of some moment. Each write then does to one course what a
repository of the tests does, and leaves the others alone (`Elsewhere`), which is both `CatalogImplements`, with
`StoredCourses` and `path` as the refinement mapping, and, with `Remembers`, `ImportsKeepFields` and `NothingIsRevived`.

Only model-checked: the liveness properties `FetchEnds` and `EverythingEnds`, which need ENABLED.

## 6. Where code and comments disagree

*A completion can be missed* (the run CourseFlow_missed). `courseCompleted`'s comment says that passing the quiz "completes
the course whatever order the modules were taken in". Each request credits its own module on top of the progress it read
at its start. When the last lesson and the quiz overlap, both are stored, neither request sees the other's, and
the course has no completion, badge or XP until a module is submitted once more.

The following were met while modelling. Each is excluded by a named condition of a property or is part of its statement.

Learners and quizzes:

* When an index cannot be fetched the course is judged by the shorter list and may be completed on it (`CompletionSound` speaks of
  the list *some request saw*).
* A pass may be read as a pass of another quiz after an edit, or when an index in front of the quiz cannot be fetched: rows are
  keyed by position and keep the first slug, so a course may be completed without one of its quizzes (`CompletionAlwaysSound`
  assumes `PlacesKept`, which holds of the catalogue of CourseFlow_learn with its git-hosted quiz in the last place), and the
  module list opens what is behind it (`PassedAt`, in `ModulesOpenInOrder`). A quiz's slug can be marked complete as a lesson,
  which opens what waits for the quiz (`Marked`). The module list's locks and prerequisites are shown and not enforced by the
  handlers that open or submit a module.
* Leaving a course deletes the enrolment and keeps the progress (`enrollments.go:78-91`), so there is progress in private courses
  the learner is not enrolled in; and a request that was let in goes on although the learner has left since, for nothing looks
  again before the write (`AccessHonoured` asks for an enrolment up to the request's look at it).
* `orderedSkillStatuses` is said to open the skill after the last completed one; it opens one after any completed one. A skill
  without a module that can be assessed is never complete and holds up the rest of its path.
* A question locked by `lockOnMaxAttempts` is reported as locked, but submissions are refused for cooldowns only, and a locked
  question gets none (`quiz_attempt.go:37-39`, `modules.go:959`); the module list reports `Locked: false` always.
* Overlapping submissions are all scored before either's cooldown begins, and the deadline of a later count may be overwritten by
  that of an earlier one (`RetrySpaced` speaks of submissions one at a time).
* A git-hosted quiz shows the attempt limit and the lock of its document, and submissions apply those of the course definition
  (`modules.go:632-637`, `854-855`), so the limit of a hosted quiz never applies, contrary to
  `examples/quizzes/blockage-test.yaml:5` (`RulesApplied` excepts them).
* A learner may be judged by other rules than he was shown with nothing pushed or saved in between: page and submission read a
  hosted document through a clone that lives for a TTL and may be evicted (`git.go:74-95`), so a push *before* the page shows when
  the clone is renewed behind it (`fresh`, in `RulesApplied`).
* The multiplier of a cooldown is a float nobody validates (`cooldown.go:33-38`, `course_mapping.go:227-230`): with 0.5 each
  further wrong answer halves the wait. The default is given to course definitions only, so a document that names no multiplier
  asks for no wait from the second answer on (both are conditions of `WaitsGrowToCap`).
* Once base x multiplier^(n-1) passes the integers, the wait drops to 0 on amd64 (`WaitsGrowToCap` ends there).
* An exact tie of the percentage with the passing score may fall either way by rounding (29 of 50 at 58). Half of a one-point
  question rounds to the full point, and the answer still counts as wrong.

The git cache and groups:

* Eviction is not safe at any moment: the comment at `git.go:250-252` relies on the reader's open file, but the file is
  opened after the mutex has been released (`git.go:89`), so a reader may find its directory gone and fails.
* A failed clone's entry counts as the oldest, so eviction forgets it first and the backoff with it; failure entries are not
  bounded by the limit; the leader's cancelled request is remembered as the repository's failure; and a stale entry
  that is evicted while being cloned anew loses its directory under the clone.
* The cycle check of a move compares paths (`group_hierarchy.go:177-178`). Groups made by managers and sign-ins have an empty
  path, and promoting one of them rewrites every path that begins with `/`, the subgroups of all the others included; a
  group can be moved below its own child that way (`wandered`, in `PathsTrue`).
* Moves that overlap other changes can leave paths and depths that do not agree (`raced`, in `PathsTrue`).
  `maxDescendantDepth` is described as relative to the group and returns a depth in the whole tree, so legal moves are
  refused.
* An admin's `AddMember` does not give the new member the group's courses before his next sign-in (`excused`, in
  `NobodyMissed`).
* "Cannot delete a group that has members" is a check followed by a cascade: a member added in between is removed.
* A local group whose name a provider asserts becomes the provider's, and members added by hand leave it at their next
  sign-in.
* A manager's request acts in another statement than it looks, so it may reach somebody who has just been put out of the
  manager's groups (`lost`, in `ManagersInScope`).

Accounts:

* A token keeps its role until it expires (`docs/SSO.md:186` says so); a demotion between `ReadRole` and `MapRole` may be
  undone by the sign-in; a provider's sign-in does not ask whether the account is active.
* A blank user name skips the checks of a rename and is stored as it is given.
* Seeding finds the admin by name, the repository of the tests and the comment (`seed.go:93-98`) by email (`SeedsByName`).
* A sign-in that races the deletion of its account ends with a token for no account; saving several settings stops at the first
  unknown key with the others saved; role mappings accept "manager", which the table's check refuses.

Catalogue, enrolments and exports:

* A course is read in four statements, so a reader can see one half-applied despite the comment at `course.go:301-303`. Two
  creations at once both succeed. An import may undo an edit that overlaps it; an edit of a course or session deleted meanwhile
  revives it (`NothingRevived` asks that it *was* there while the request ran).
* The in-memory repositories differ: `List` ignores `filter.Slugs`, `Upsert` replaces the sessions that SQL keeps,
  `EnrollWithCourses` does not enrol in the courses, and a sign-in drops local memberships that SQL keeps.
* A gate is skipped when the catalogue cannot be reached; an admin's and an automatic enrolment ask for no XP.
* Booking asks for the capacity without an Authorization header (`course_client.go:15-24`), and course-service hides a private
  course then (`courses.go:350`), so a session of a private course has no limit, contrary to `sessions.go:16-17`. Booking asks for
  no enrolment.
* The count and the rows of a preview are separate statements. An unknown column fails a download after its header has been sent,
  as an empty 200. A download whose log insert fails, or that is cut off, leaves no record. The titles of private courses are
  blank.

Lab checks:

* A local check's position is looked up in the stored list, a learner sees the expanded one (`NamesShown` names the condition);
  its result is as the learner reports it.
* A failed listing of merge requests makes files be read on the default branch; an outage on the newest merge request lets an
  older one decide; a policy cannot see who wrote a merge request.
* A policy sees the first page of a merge request's commits: `fetch.go:168` asks once and without options, where steps ask for
  every page (`step.go:292-317`) and the comment at `fetch.go:136-137` speaks of "paginating to retrieve every result". Work
  further down is refused (`CommitsSeen`, in `VerdictRight`).
* An empty branch pattern matches any branch, except for the check of a commit on a branch, which also accepts a branch without
  commits of its own. A result that cannot be stored is only logged.

## 7. Abstractions

* A learner, a repository, a group's name, a text are model values; a score is a member of a small set in CourseFlow and computed
  in Quizzes.
* CourseFlow: one learner; the XP some courses ask for on enrolment is in Enrolments (`Enroll` here may simply not happen); each
  request id is used once; the pages that only read are operators of the state, in LearnerPages. An index is fetched or skipped as
  a whole.
* QuizAttempts: the service's clock and the database's are one; a configuration is fixed during a run. Quizzes: a submission is
  one step, for QuizAttempts has its statements; the git cache is one clone that is there or not, for GitCache has the races of
  it; a document that cannot be fetched fails the request and changes nothing.
* Cooldown: multipliers are fractions with the denominator `Unit` and products are exact; the rounding of floats, infinities and
  NaN (YAML's `.inf` and `.nan`) are left out.
* GitCache: the clock moves in ticks; `Horizon`, `MaxFaults`, `MaxClears` bound clock, failures and resets. The contents of files
  are not modelled, only whether a directory is complete.
* Catalog: a course's own fields are one text; modules are a sequence of module values with their skills; a transaction on a
  course is one step, for it begins by locking the course's row.
* CatalogCache: the upstream catalogue changes at any time; one lookup is one chunk; entries age in ticks.
* GroupTree: the two UPDATEs that end a move are one step. At READ COMMITTED others could run between them, but then a move
  overlaps another change and `PathsTrue` and `DepthBounded` claim nothing. Names and renaming are left out.
* Membership: a group made again under a deleted one's name has a new id and is another group. Roles and role mappings are in
  Accounts.
* Accounts: a password is a value, and its hash the same; lengths and the email whitelist are left out; a token is a user, a role
  and the way in.
* Exports: two of seven categories, those whose rows have titles. Rows are pairs of a user and a slug.
* Labs: one project, three typical policies for Rego, pages of `PageSize`, and of `FirstPage` for who does not ask for more. The
  pages of one merge request's commits (steps only) are one step. Branches are made and never deleted. `MaxMoves` bounds how often
  the project moves.

## 8. Not modelled

Markdown course documents are parsing and formatting of text. Asset replication writes a temporary file and renames it; two
downloads of one asset write the same bytes. The rendering of a module changes nothing. The listings of badges and XP, the
patterns table, the five other exports and the admin's list of lab results are single statements whose answers nothing depends on.
Configuration, metrics and migrations are plumbing; the HTTP client's timeouts and its lack of retries are part of CourseFlow's
calls. The frontend renders the answers of the services. Identity providers, directories, token signatures and Rego are libraries
and services outside of `src`.

## 9. Plan

Done in the order of importance: what a learner has earned (CourseFlow), what slows him down (QuizAttempts), what everything is
read from (GitCache), who may see what (GroupTree, Membership, Managers), accounts, the catalogue, enrolments and
bookings, lab checks, scoring and exports. What is left:

1. An abstract specification of learners' progress that CourseFlow implements, and the theorem that it does.
2. The five other export categories and the lab results' listing, if their statements come to depend on one another.
