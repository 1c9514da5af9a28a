------------------------------- MODULE Quizzes -------------------------------
(***************************************************************************)
(* One learner and one quiz module, from the page to the verdict: the quiz *)
(* is shown (GetModule, or embedded after the lesson before it), answered, *)
(* scored and, for wrong answers, delayed.  Where its rules come from is   *)
(* decided anew at each request: a git-hosted quiz from its document, as   *)
(* the clone in the service's git cache has it, any other from the course  *)
(* definition.  A saved course shows at the next request, a pushed         *)
(* document when its clone is renewed; GitCache has the cache's own races, *)
(* here a clone is there or not.  QuizAttempts has the statements behind   *)
(* Submit and their races; here one submission is a step.                  *)
(*                                                                         *)
(* A document that cannot be fetched fails the request and changes nothing.*)
(***************************************************************************)
EXTENDS Cooldown, Scoring

CONSTANTS
  Modules,      \* quiz modules an admin may save: [hosted, rules]
  Documents,    \* quiz documents the repository may hold: rules
  Starts,       \* pairs of a module and the document in the repository
  Revisions,    \* pairs of documents, the second of which may replace the first
  Answers,      \* answers a learner may give to one question
  BaseDefault,  \* cooldownDefaultBaseSeconds
  MaxFailures,  \* bound on the wrong answers to a quiz
  MaxEdits      \* bound on replaced modules and documents

\* A quiz's rules: questions by id, passingScore, cooldown,
\* maxAttemptsPerQuestion (0 when it is not set) and lockOnMaxAttempts.
QuestionIds == UNION {DOMAIN r.questions : r \in Documents \cup {m.rules : m \in Modules}}

IsRules(r) ==
  /\ DOMAIN r = {"questions", "passing", "cooldown", "limit", "lock"}
  /\ IsFiniteSet(DOMAIN r.questions)
  /\ \A id \in DOMAIN r.questions :
       /\ r.questions[id] \in Question /\ IsFiniteSet(r.questions[id].correct)
       /\ r.questions[id].negative => r.questions[id].correct # {}
  /\ r.passing \in Nat /\ r.limit \in Nat /\ r.lock \in BOOLEAN
  /\ r.cooldown \in CooldownSpec

ASSUME QuizAssumption ==
  /\ \A r \in Documents : IsRules(r)
  /\ \A m \in Modules : DOMAIN m = {"hosted", "rules"} /\ m.hosted \in BOOLEAN /\ IsRules(m.rules)
  /\ Starts \subseteq Modules \X Documents
  /\ Revisions \subseteq Documents \X Documents
  /\ \A a \in Answers : a \in UserAnswer /\ IsFiniteSet(a.chosen)
  /\ BaseDefault \in Nat
  /\ MaxFailures \in Nat
  /\ MaxEdits \in Nat

VARIABLES
  module,       \* the module as the course stores it
  document,     \* the quiz document in the repository
  clone,        \* the document in the cached clone, or NoClone
  shown,        \* the quiz as last shown to the learner, or NotShown
  edits,        \* edits left
  fresh,        \* history: the rules shown are still those in use
  attempts,     \* wrong answers counted for each question
  wait,         \* the wait last computed for each question, 0 if none
  cooling,      \* questions whose wait has not passed
  result        \* the last submission: rules used, answers, outcome

quizVars == <<module, document, clone, edits, shown, fresh, attempts, wait, cooling, result>>

NotShown     == [rules |-> "none"]
NoClone      == [rules |-> "none"]
NotSubmitted == [rules |-> "none"]

-----------------------------------------------------------------------------
\* Mutant: the multiplier is stored as it is.
DefaultsWithoutMultiplier(spec, none) ==
  IF spec = none THEN spec
  ELSE [spec EXCEPT !.base = IF @ = 0 THEN BaseDefault ELSE @]

\* What a course definition leaves out of a cooldown is filled in when it is
\* stored, unless it says nothing at all (none).  A quiz document's is not.
\* Strategies have no default here: the unnamed one is "exponential" anyway.
CooldownDefaults(spec, none) ==
  IF spec = none THEN spec
  ELSE [spec EXCEPT !.base = IF @ = 0 THEN BaseDefault ELSE @,
                    !.multiplier = IF @ = 0 THEN Unit ELSE @]

NoCooldown == [strategy |-> "exponential", base |-> 0, multiplier |-> 0, max |-> 0]

\* Points default as in a document (defaultedQuestions).
StoredRules(rules) == [ToQuiz(rules) EXCEPT !.cooldown = CooldownDefaults(@, NoCooldown)]
StoredModule(m) == [m EXCEPT !.rules = StoredRules(@)]

HasQuestions == module.hosted \/ DOMAIN module.rules.questions # {}

\* The document a request gets: the cached clone's, or that of a new clone.
Content == IF clone # NoClone THEN clone ELSE document

\* Mutant: every request clones.
FetchAlways == IF module.hosted THEN clone' = document ELSE UNCHANGED clone

\* FetchQuizContent leaves the clone it read in the cache.
FetchQuizContent == IF module.hosted THEN clone' = Content ELSE UNCHANGED clone

\* The rules a learner reads: one source for all of them.
ShownRules == IF module.hosted THEN ToQuiz(Content) ELSE module.rules

\* The rules a submission is judged by: the limit and the lock are always the
\* course definition's (resolveSubmitQuiz returns neither).
SubmitRules ==
  IF module.hosted
  THEN [ToQuiz(Content) EXCEPT !.limit = module.rules.limit, !.lock = module.rules.lock]
  ELSE module.rules

QuizInit ==
  /\ \E s \in Starts : module = StoredModule(s[1]) /\ document = s[2]
  /\ clone = NoClone
  /\ shown = NotShown
  /\ fresh = FALSE
  /\ edits = MaxEdits
  /\ attempts = [id \in QuestionIds |-> 0]
  /\ wait = [id \in QuestionIds |-> 0]
  /\ cooling = {}
  /\ result = NotSubmitted

\* GetModule of the quiz: the rules (and the attempts so far, never as locked).
ShowQuiz ==
  /\ HasQuestions
  /\ FetchQuizContent
  /\ shown' = [rules |-> ShownRules, max |-> 0]
  /\ fresh' = TRUE
  /\ UNCHANGED <<module, document, edits, attempts, wait, cooling, result>>

\* GetModule of the lesson before it: the rules and the points to be had.
ShowInlineQuiz ==
  /\ HasQuestions
  /\ DOMAIN ShownRules.questions # {}
  /\ FetchQuizContent
  /\ shown' = [rules |-> ShownRules, max |-> MaxScore(ShownRules.questions)]
  /\ fresh' = TRUE
  /\ UNCHANGED <<module, document, edits, attempts, wait, cooling, result>>

\* An answer sets the field its question's type reads.
Fits(question, answer) ==
  CASE question.type = "order" -> answer.chosen = {}
    [] question.type = "multiple" -> answer.sequence = << >>
    [] OTHER -> answer.sequence = << >> /\ Cardinality(answer.chosen) <= 1

Wrong(rules, answers) ==
  {id \in DOMAIN rules.questions : ~IsCorrect(rules.questions[id], answers[id])}

\* Right answers are forgotten, wrong ones counted, other quizzes' left alone.
Counted(rules, wrong) ==
  [id \in QuestionIds |-> CASE id \in wrong -> attempts[id] + 1
                          [] id \in DOMAIN rules.questions \ wrong -> 0
                          [] OTHER -> attempts[id]]

\* SubmitModule, unless a question is cooling down.  A locked question gets no
\* wait, and none keeps it from being submitted again.
Submit ==
  LET rules == SubmitRules
      ids   == DOMAIN rules.questions
      max   == MaxScore(rules.questions)
  IN
  /\ HasQuestions
  /\ FetchQuizContent
  /\ cooling \cap ids = {}
  /\ SumFunctionOnSet(attempts, ids) < MaxFailures
  /\ \E answers \in [ids -> Answers] :
       /\ \A id \in ids : Fits(rules.questions[id], answers[id])
       /\ LET total   == TotalScore(rules.questions, answers)
              wrong   == Wrong(rules, answers)
              counts  == Counted(rules, wrong)
              locked  == {id \in wrong : rules.limit > 0 /\ rules.lock /\ counts[id] >= rules.limit}
              delayed == wrong \ locked
              Delay(id) == ComputeCooldown(counts[id], rules.cooldown)
          IN
            /\ attempts' = counts
            /\ \E w \in [delayed -> UNION {Delay(id) : id \in delayed}] :
                 /\ \A id \in delayed : w[id] \in Delay(id)
                 /\ wait' = [id \in QuestionIds |->
                                CASE id \in delayed -> w[id]
                                  [] id \in ids \ delayed -> 0
                                  [] OTHER -> wait[id]]
                 /\ cooling' = cooling \cup {id \in delayed : w[id] > 0}
            /\ \E passed \in Passed(total, max, rules.passing) :
                 result' = [rules |-> rules, answers |-> answers, total |-> total,
                            max |-> max, passed |-> passed, locked |-> locked]
  /\ UNCHANGED <<module, document, edits, shown, fresh>>

\* Long enough for every wait.
TimePasses ==
  /\ cooling # {}
  /\ cooling' = {}
  /\ UNCHANGED <<module, document, clone, edits, shown, fresh, attempts, wait, result>>

\* An admin saves the course.
SaveModule ==
  /\ edits > 0 /\ edits' = edits - 1
  /\ \E m \in Modules : module' = StoredModule(m)
  /\ module' # module
  /\ fresh' = FALSE
  /\ UNCHANGED <<document, clone, shown, attempts, wait, cooling, result>>

\* An author pushes another version of the document.  Nobody sees it as long
\* as there is a clone.
PushDocument ==
  /\ edits > 0 /\ edits' = edits - 1
  /\ module.hosted
  /\ \E d \in Documents : <<document, d>> \in Revisions /\ document' = d
  /\ fresh' = (fresh /\ clone # NoClone)
  /\ UNCHANGED <<module, clone, shown, attempts, wait, cooling, result>>

\* The clone expires, is evicted or cleared.
DropClone ==
  /\ clone # NoClone
  /\ clone' = NoClone
  /\ fresh' = (fresh /\ document = clone)
  /\ UNCHANGED <<module, document, edits, shown, attempts, wait, cooling, result>>

QuizNext ==
  \/ ShowQuiz \/ ShowInlineQuiz \/ Submit \/ TimePasses
  \/ SaveModule \/ PushDocument \/ DropClone

QuizSpec == QuizInit /\ [][QuizNext]_quizVars

-----------------------------------------------------------------------------
(* Safety                                                                  *)

\* Right answers for every question.
Key(questions) ==
  [id \in DOMAIN questions |->
     [chosen   |-> IF questions[id].type = "order" THEN {} ELSE questions[id].correct,
      sequence |-> questions[id].sequence]]

\* Scores are fair: within 0 and the maximum (below 0 only where an author
\* allows it), on the passing side exactly when the percentage is, apart from
\* ties, and never lowered by exchanging one answer for the right one; all
\* right is a pass of any quiz that asks for no more than everything (ScoreQuiz).
ScoringFair ==
  result # NotSubmitted =>
    LET qs == result.rules.questions
        need == result.rules.passing * result.max
    IN  /\ result.total <= result.max
        /\ (\A id \in DOMAIN qs : ~qs[id].negative) => result.total >= 0
        /\ result.passed => 100 * result.total >= need
        /\ (result.max > 0 /\ 100 * result.total > need) => result.passed
        /\ \A id \in {i \in DOMAIN qs : qs[i].type # "unknown" /\ IsCorrect(qs[i], Key(qs)[i])} :
             TotalScore(qs, [result.answers EXCEPT ![id] = Key(qs)[id]]) >= result.total
        /\ (result.max > 0 /\ result.rules.passing <= 100 /\
            \A id \in DOMAIN qs : IsCorrect(qs[id], result.answers[id])) => result.passed

\* The learner is judged by what the page said: questions, passing score,
\* cooldown and points are those shown, and so are the limit and the lock of a
\* quiz the course defines; those of a git-hosted quiz are shown but not applied
\* (resolveSubmitQuiz).  A document pushed between page and submission changes
\* nothing while the clone the page was read from is there; the rules change
\* only when the course is saved, when a clone that a push has outdated is
\* given up, or when a push finds no clone.
RulesApplied ==
  [][(result' # result /\ fresh) =>
       /\ result'.rules.questions = shown.rules.questions
       /\ result'.rules.passing = shown.rules.passing
       /\ result'.rules.cooldown = shown.rules.cooldown
       /\ shown.max \in {0, result'.max}
       /\ ~module.hosted => result'.rules = shown.rules]_quizVars

\* The wait the configuration describes, without its cap and in unbounded
\* arithmetic.
Uncut(n, spec) ==
  CASE spec.strategy = "fixed"  -> spec.base
    [] spec.strategy = "linear" -> spec.base * n
    [] OTHER                    -> Grown(n, spec)

\* Waits grow up to the cap.  With a cap, no exponential wait is longer, also
\* past the point where the product overflows; and another wrong answer under
\* the same rules never shortens the wait, as long as the uncapped one fits a
\* Duration (past that it falls to 0 on amd64), the question is not locked and
\* an exponential's multiplier is at least 1 or left out of a course definition.
\* Nothing checks that it is: with 0.5 waits shrink, and a git-hosted quiz that
\* names none waits for nothing from the second answer on, where a course
\* definition gets the default (ComputeCooldown, applyCooldownDefaults).
WaitsGrowToCap ==
  [][\A id \in QuestionIds :
       LET spec == result'.rules.cooldown
           n    == attempts'[id]
       IN  (result' # result /\ id \in DOMAIN result'.rules.questions /\ n = attempts[id] + 1) =>
             /\ (spec.strategy = "exponential" /\ spec.max > 0) => wait'[id] \in 0 .. spec.max * Second
             /\ (/\ n > 1 /\ result.rules = result'.rules
                 /\ id \notin result'.locked
                 /\ spec.strategy = "exponential" =>
                      (spec.multiplier >= Unit \/ (~module.hosted /\ spec.multiplier = 0))
                 /\ Uncut(n, spec) * Second \in -Word .. Word - 1) => wait'[id] >= wait[id]]_quizVars
=============================================================================
