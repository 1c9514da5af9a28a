----------------------------- MODULE QuizAttempts -----------------------------
(***************************************************************************)
(* The retry state of one learner on one quiz module: one row of           *)
(* quiz_question_attempts for each question, written by concurrent         *)
(* submissions of that quiz.  A submission runs four statements, and       *)
(* nothing holds the rows between them:                                    *)
(*                                                                         *)
(*   States       refuse while a question cools down                       *)
(*   Clear        forget the questions answered correctly                  *)
(*   Increment    count the wrong answers, return the new counts           *)
(*   Deadlines    store the end of the cooldown each count calls for       *)
(***************************************************************************)
EXTENDS Cooldown, FiniteSets

CONSTANTS
  Submissions,  \* identifiers of submissions, each used once
  Questions,    \* the questions of the quiz
  Backoff,      \* the quiz's cooldown configuration
  MaxAttempts,  \* maxAttemptsPerQuestion, 0 when it is not set
  LockOnMax,    \* lockOnMaxAttempts
  MaxInFlight,  \* bound on submissions running at once
  Horizon,      \* bound on the clock
  MaxFaults     \* bound on failed statements

ASSUME AttemptsAssumption ==
  /\ Backoff \in CooldownSpec
  /\ MaxAttempts \in Nat
  /\ LockOnMax \in BOOLEAN
  /\ MaxInFlight \in Nat
  /\ Horizon \in Nat
  /\ MaxFaults \in Nat

VARIABLES
  now,          \* the database's and the service's clock
  rows,         \* quiz_question_attempts: a row, or NoRow, of each question
  pc,           \* where each submission is
  wrong,        \* the questions each submission answered wrongly
  counts,       \* the counts Increment returned to it
  waits,        \* the cooldowns it computed from them
  stamp,        \* when it computed them
  faults,       \* failed statements left
  counted,      \* history: submissions counted in each row
  owed,         \* history: the time before which a question was refused to
                \*   the learner by an answer that nothing has revoked since
  lockedOut,    \* history: questions reported as locked and not cleared since
  overlapped    \* history: two submissions have been running at once

attempt == <<pc, wrong, counts, waits, stamp>>
history == <<counted, owed, lockedOut, overlapped>>
vars == <<now, rows, attempt, faults, history>>

\* until is 0 while cooldown_until is NULL.
NoRow == [attempts |-> 0, until |-> 0]
Row   == [attempts : Nat, until : Nat]

Done == {"answered", "tooEarly", "error"}
PC   == {"idle", "clear", "increment", "backoff", "deadlines"} \cup Done

InFlight == {s \in Submissions : pc[s] \notin {"idle"} \cup Done}

TypeOK ==
  /\ now \in 0..Horizon
  /\ rows \in [Questions -> Row]
  /\ pc \in [Submissions -> PC]
  /\ wrong \in [Submissions -> SUBSET Questions]
  /\ counts \in [Submissions -> [Questions -> Nat]]
  /\ waits \in [Submissions -> [Questions -> Int]]
  /\ stamp \in [Submissions -> 0..Horizon]
  /\ faults \in 0..MaxFaults
  /\ counted \in [Questions -> SUBSET Submissions]
  /\ owed \in [Questions -> Nat]
  /\ lockedOut \subseteq Questions
  /\ overlapped \in BOOLEAN

Init ==
  /\ now = 0
  /\ rows = [q \in Questions |-> NoRow]
  /\ pc = [s \in Submissions |-> "idle"]
  /\ wrong = [s \in Submissions |-> {}]
  /\ counts = [s \in Submissions |-> [q \in Questions |-> 0]]
  /\ waits = [s \in Submissions |-> [q \in Questions |-> 0]]
  /\ stamp = [s \in Submissions |-> 0]
  /\ faults = MaxFaults
  /\ counted = [q \in Questions |-> {}]
  /\ owed = [q \in Questions |-> 0]
  /\ lockedOut = {}
  /\ overlapped = FALSE

-----------------------------------------------------------------------------
Goto(s, from, to) == pc[s] = from /\ pc' = [pc EXCEPT ![s] = to]

Fault == faults > 0 /\ faults' = faults - 1

\* pendingCooldowns: questions with time remaining.
Pending == {q \in Questions : rows[q].until > now}

\* acceptSubmission lets the submission through, then it is scored.
Accept(s) ==
  /\ Cardinality(InFlight) < MaxInFlight
  /\ Pending = {}
  /\ Goto(s, "idle", "clear")
  /\ \E w \in SUBSET Questions : wrong' = [wrong EXCEPT ![s] = w]
  /\ overlapped' = (overlapped \/ InFlight # {})
  /\ UNCHANGED <<now, rows, counts, waits, stamp, faults, counted, owed, lockedOut>>

\* 425 Too Early
Refuse(s) ==
  /\ Cardinality(InFlight) < MaxInFlight
  /\ Pending # {}
  /\ Goto(s, "idle", "tooEarly")
  /\ UNCHANGED <<now, rows, wrong, counts, waits, stamp, faults, history>>

\* Mutant: no answer from the database is no cooldown.
WaveThrough(s) ==
  /\ Cardinality(InFlight) < MaxInFlight
  /\ Fault
  /\ Goto(s, "idle", "clear")
  /\ UNCHANGED <<now, rows, wrong, counts, waits, stamp, history>>

\* The lookup fails: the submission is not scored.
LookupFails(s) ==
  /\ Cardinality(InFlight) < MaxInFlight
  /\ Fault
  /\ Goto(s, "idle", "error")
  /\ UNCHANGED <<now, rows, wrong, counts, waits, stamp, history>>

\* recordQuestionCooldowns, statement by statement.  A quiz without wrong
\* answers ends after Clear.
AfterClear(s) == IF wrong[s] = {} THEN "answered" ELSE "increment"

Clear(s) ==
  LET right == Questions \ wrong[s] IN
  /\ Goto(s, "clear", AfterClear(s))
  /\ rows' = [q \in Questions |-> IF q \in right THEN NoRow ELSE rows[q]]
  /\ counted' = [q \in Questions |-> IF q \in right THEN {} ELSE counted[q]]
  /\ owed' = [q \in Questions |-> IF q \in right THEN 0 ELSE owed[q]]
  /\ lockedOut' = lockedOut \ right
  /\ UNCHANGED <<now, wrong, counts, waits, stamp, faults, overlapped>>

\* A failed Clear is logged and the submission goes on.
ClearFails(s) ==
  /\ Goto(s, "clear", AfterClear(s))
  /\ Fault
  /\ UNCHANGED <<now, rows, wrong, counts, waits, stamp, history>>

\* Mutant: the conflict clause stores the inserted count.
IncrementExcluded(s) ==
  /\ Goto(s, "increment", "backoff")
  /\ rows' = [q \in Questions |-> IF q \in wrong[s] THEN [rows[q] EXCEPT !.attempts = 1] ELSE rows[q]]
  /\ counts' = [counts EXCEPT ![s] = [q \in Questions |-> rows'[q].attempts]]
  /\ counted' = [q \in Questions |-> IF q \in wrong[s] THEN counted[q] \cup {s} ELSE counted[q]]
  /\ UNCHANGED <<now, wrong, waits, stamp, faults, owed, lockedOut, overlapped>>

\* incrementAttempts: one upsert over all wrong answers.
Increment(s) ==
  /\ Goto(s, "increment", "backoff")
  /\ rows' = [q \in Questions |->
                IF q \in wrong[s] THEN [rows[q] EXCEPT !.attempts = @ + 1] ELSE rows[q]]
  /\ counts' = [counts EXCEPT ![s] = [q \in Questions |-> rows'[q].attempts]]
  /\ counted' = [q \in Questions |-> IF q \in wrong[s] THEN counted[q] \cup {s} ELSE counted[q]]
  /\ UNCHANGED <<now, wrong, waits, stamp, faults, owed, lockedOut, overlapped>>

\* Locked questions get no cooldown.
Locked(s) == {q \in wrong[s] : MaxAttempts > 0 /\ LockOnMax /\ counts[s][q] >= MaxAttempts}

\* The rest of RecordFailures up to its last statement.
ComputeBackoff(s) ==
  /\ Goto(s, "backoff", "deadlines")
  /\ stamp' = [stamp EXCEPT ![s] = now]
  /\ \E w \in [Questions -> {0} \cup UNION {ComputeCooldown(counts[s][q], Backoff) : q \in wrong[s]}] :
       /\ \A q \in Questions :
            IF q \in wrong[s] \ Locked(s)
            THEN w[q] \in ComputeCooldown(counts[s][q], Backoff)
            ELSE w[q] = 0
       /\ waits' = [waits EXCEPT ![s] = w]
  /\ UNCHANGED <<now, rows, wrong, counts, faults, history>>

Delayed(s) == {q \in wrong[s] : waits[s][q] > 0}

\* Mutant: the first failure is free.
DeadlinesFromSecond(s) ==
  LET delayed == {q \in Delayed(s) : counts[s][q] > 1} IN
  /\ Goto(s, "deadlines", "answered")
  /\ rows' = [q \in Questions |-> IF q \in delayed /\ rows[q] # NoRow
                THEN [rows[q] EXCEPT !.until = stamp[s] + waits[s][q]] ELSE rows[q]]
  /\ owed' = [q \in Questions |-> IF q \in delayed THEN stamp[s] + waits[s][q] ELSE owed[q]]
  /\ lockedOut' = lockedOut \cup Locked(s)
  /\ UNCHANGED <<now, wrong, counts, waits, stamp, faults, counted, overlapped>>

\* writeDeadlines, then the answer: an UPDATE, so a row deleted meanwhile
\* stays deleted.
Deadlines(s) ==
  /\ Goto(s, "deadlines", "answered")
  /\ rows' = [q \in Questions |->
                IF q \in Delayed(s) /\ rows[q] # NoRow
                THEN [rows[q] EXCEPT !.until = stamp[s] + waits[s][q]]
                ELSE rows[q]]
  /\ owed' = [q \in Questions |-> IF q \in Delayed(s) THEN stamp[s] + waits[s][q] ELSE owed[q]]
  /\ lockedOut' = lockedOut \cup Locked(s)
  /\ UNCHANGED <<now, wrong, counts, waits, stamp, faults, counted, overlapped>>

\* A failed Increment or Deadlines is logged; the learner is told of no
\* cooldown.
RecordingFails(s) ==
  /\ \/ Goto(s, "increment", "answered")
     \/ Delayed(s) # {} /\ Goto(s, "deadlines", "answered")
  /\ Fault
  /\ UNCHANGED <<now, rows, wrong, counts, waits, stamp, history>>

Tick ==
  /\ now < Horizon
  /\ now' = now + 1
  /\ UNCHANGED <<rows, attempt, faults, history>>

Next ==
  \/ \E s \in Submissions :
       \/ Accept(s) \/ Refuse(s) \/ LookupFails(s)
       \/ Clear(s) \/ ClearFails(s) \/ Increment(s) \/ ComputeBackoff(s) \/ Deadlines(s)
       \/ RecordingFails(s)
  \/ Tick

Spec == Init /\ [][Next]_vars

-----------------------------------------------------------------------------
(* Safety                                                                  *)

\* "concurrent submissions cannot lose a count": a row counts exactly the
\* submissions that got its question wrong since it was last answered right,
\* however their statements interleave (incrementAttempts, Clear).
CountsExact == \A q \in Questions : rows[q].attempts = Cardinality(counted[q])

\* A wrong answer is never free: once nobody is writing and no statement has
\* failed, every counted question that is not locked carries the deadline of
\* some wrong answer to it, also when a Clear deleted the row between another
\* submission's two statements (Increment, writeDeadlines).
FailureDelays ==
  (InFlight = {} /\ faults = MaxFaults) =>
    \A q \in Questions :
      (rows[q].attempts > 0 /\ q \notin lockedOut) =>
        \E s \in Submissions :
          /\ q \in wrong[s] /\ waits[s][q] > 0
          /\ rows[q].until = stamp[s] + waits[s][q]

\* A question refused to the learner until some time is not scored before it,
\* unless it was answered correctly in between, whatever statement fails
\* (pendingCooldowns, writeDeadlines).  True of submissions one at a time: two
\* that overlap both pass the check before either writes a deadline, and the
\* answer of one may delete the row the other is about to delay.
RetrySpaced ==
  [][~overlapped' =>
       \A s \in Submissions :
         (pc[s] = "idle" /\ pc'[s] = "clear") => \A q \in Questions : owed[q] <= now]_vars

=============================================================================
