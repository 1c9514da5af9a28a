-------------------------- MODULE QuizProofs ------------------------------
(***************************************************************************)
(* What TLAPS proves of quizzes: of the retry state (QuizAttempts), for    *)
(* any number of submissions and questions, any configuration and any      *)
(* failing statements, that no wrong answer is lost, counted twice or      *)
(* free, and none is scored before its time while submissions come one at  *)
(* a time; of the rules (Quizzes), for any quizzes, answers and edits,     *)
(* that scores are fair, that the learner is judged by what the page said  *)
(* and that waits grow.                                                    *)
(***************************************************************************)
EXTENDS QuizAttempts, Quizzes, FiniteSetTheorems, NaturalsInduction, TLAPS

-----------------------------------------------------------------------------
(* Cooldowns are numbers                                                   *)

\* A set of numbers that holds 0 and the successor of each of its members
\* holds them all.
LEMMA SuccessorClosed ==
  ASSUME NEW G, 0 \in G, \A n \in Nat : n \in G => n + 1 \in G
  PROVE  \A n \in Nat : n \in G
<1> DEFINE T == Nat \ G
<1> SUFFICES ASSUME T # {}
             PROVE  FALSE
  OBVIOUS
<1>1. \E n \in T : \A m \in T : ~(<<m, n>> \in OpToRel(<, Nat))
  BY NatLessThanWellFounded, WFMin
<1>2. PICK n \in T : \A m \in T : ~(m < n)
  BY <1>1 DEF OpToRel
<1>3. n \in Nat /\ n # 0 /\ n - 1 \in Nat /\ n - 1 < n /\ n = (n - 1) + 1
  BY <1>2
<1>4. n - 1 \in G
  BY <1>2, <1>3
<1>5. n \in G
  BY <1>3, <1>4
<1>6. QED
  BY <1>2, <1>5

\* What a power multiplies up.
Powers(m, n, p) == p = [i \in 0..n |-> IF i = 0 THEN 1 ELSE m * p[i - 1]]

LEMMA PowerIsProduct ==
  ASSUME NEW m, NEW n
  PROVE  Power(m, n) = (CHOOSE p : Powers(m, n, p))[n]
  BY DEF Power, Powers

LEMMA PowersExist ==
  ASSUME NEW m \in Int, NEW n \in Nat
  PROVE  \E p \in [0..n -> Int] : Powers(m, n, p)
<1> DEFINE G == {k \in Nat : \E p \in [0..k -> Int] : Powers(m, k, p)}
<1>1. 0 \in G
  <2> DEFINE p == [i \in 0..0 |-> 1]
  <2>1. p \in [0..0 -> Int] /\ Powers(m, 0, p)
    BY DEF Powers
  <2> QED
    BY <2>1
<1>2. ASSUME NEW k \in Nat, k \in G PROVE k + 1 \in G
  <2>1. PICK p \in [0..k -> Int] : Powers(m, k, p)
    BY <1>2
  <2> DEFINE r == [i \in 0..(k + 1) |-> IF i = 0 THEN 1 ELSE m * p[i - 1]]
  <2>2. \A i \in 0..k : r[i] = p[i]
    BY <2>1 DEF Powers
  <2>3. \A i \in 0..(k + 1) : i # 0 => i - 1 \in 0..k
    OBVIOUS
  <2>4. \A x \in Int : m * x \in Int
    OBVIOUS
  <2>5. r \in [0..(k + 1) -> Int]
    <3> SUFFICES ASSUME NEW i \in 0..(k + 1), i # 0 PROVE m * p[i - 1] \in Int
      OBVIOUS
    <3>1. p[i - 1] \in Int
      BY <2>1, <2>3
    <3> QED
      BY <2>4, <3>1
  <2>6. r = [i \in 0..(k + 1) |-> IF i = 0 THEN 1 ELSE m * r[i - 1]]
    BY <2>2, <2>3
  <2>7. Powers(m, k + 1, r)
    BY <2>6 DEF Powers
  <2> HIDE DEF r
  <2> QED
    BY <2>5, <2>7
<1> HIDE DEF G
<1>3. n \in G
  BY <1>1, <1>2, SuccessorClosed
<1> QED
  BY <1>3 DEF G

LEMMA PowerType ==
  ASSUME NEW m \in Int, NEW n \in Nat
  PROVE  Power(m, n) \in Int
<1> DEFINE p == CHOOSE p : Powers(m, n, p)
<1>1. Powers(m, n, p)
  BY PowersExist
<1> HIDE DEF p
<1> DEFINE G == {k \in Nat : k <= n => p[k] \in Int}
<1>2. \A i \in 0..n : p[i] = IF i = 0 THEN 1 ELSE m * p[i - 1]
  BY <1>1 DEF Powers
<1>3. 0 \in G
  BY <1>2
<1>4. ASSUME NEW k \in Nat, k \in G PROVE k + 1 \in G
  <2> SUFFICES ASSUME k + 1 <= n PROVE p[k + 1] \in Int
    OBVIOUS
  <2>1. p[k] \in Int
    BY <1>4
  <2>2. p[k + 1] = m * p[k]
    BY <1>2
  <2> HIDE DEF G
  <2> QED
    BY <2>1, <2>2
<1> HIDE DEF G
<1>5. n \in G
  BY <1>3, <1>4, SuccessorClosed
<1> QED
  BY <1>5, PowerIsProduct DEF G, p

LEMMA PowerStep ==
  ASSUME NEW m \in Int, NEW n \in Nat
  PROVE  Power(m, 0) = 1 /\ Power(m, n + 1) = m * Power(m, n)
<1> DEFINE p == CHOOSE f : Powers(m, n, f)
           r == CHOOSE f : Powers(m, n + 1, f)
           z == CHOOSE f : Powers(m, 0, f)
<1>1. Powers(m, n, p) /\ Powers(m, n + 1, r) /\ Powers(m, 0, z)
  <2>1. n + 1 \in Nat
    OBVIOUS
  <2> QED
    BY <2>1, PowersExist
<1> HIDE DEF p, r, z
<1> DEFINE G == {k \in Nat : k <= n => p[k] = r[k]}
<1>2. /\ \A i \in 0..n : p[i] = IF i = 0 THEN 1 ELSE m * p[i - 1]
      /\ \A i \in 0..(n + 1) : r[i] = IF i = 0 THEN 1 ELSE m * r[i - 1]
      /\ z[0] = 1
  BY <1>1 DEF Powers
<1>3. 0 \in G
  BY <1>2
<1>4. ASSUME NEW k \in Nat, k \in G PROVE k + 1 \in G
  <2> SUFFICES ASSUME k + 1 <= n PROVE p[k + 1] = r[k + 1]
    OBVIOUS
  <2>1. p[k] = r[k]
    BY <1>4
  <2>2. p[k + 1] = m * p[k] /\ r[k + 1] = m * r[k]
    BY <1>2
  <2> HIDE DEF G
  <2> QED
    BY <2>1, <2>2
<1> HIDE DEF G
<1>5. n \in G
  BY <1>3, <1>4, SuccessorClosed
<1>6. r[n + 1] = m * p[n]
  BY <1>2, <1>5 DEF G
<1> QED
  BY <1>2, <1>6, PowerIsProduct DEF p, r, z

LEMMA PowerPositive ==
  ASSUME NEW m \in Nat \ {0}, NEW n \in Nat
  PROVE  Power(m, n) \in Nat \ {0}
<1> DEFINE G == {k \in Nat : Power(m, k) \in Nat \ {0}}
<1>1. 0 \in G
  <2>1. 0 \in Nat /\ m \in Int
    OBVIOUS
  <2>2. Power(m, 0) = 1
    BY <2>1, PowerStep
  <2> QED
    BY <2>2
<1>2. ASSUME NEW k \in Nat, k \in G PROVE k + 1 \in G
  <2>1. Power(m, k) \in Nat \ {0} /\ Power(m, k + 1) = m * Power(m, k)
    BY <1>2, PowerStep
  <2> QED
    BY <2>1
<1> HIDE DEF G
<1>3. n \in G
  BY <1>1, <1>2, SuccessorClosed
<1> QED
  BY <1>3 DEF G

LEMMA TruncatedType ==
  ASSUME NEW x \in Int, NEW d \in Nat \ {0}
  PROVE  /\ Truncated(x, d) \in Int
         /\ x >= 0 => Truncated(x, d) >= 0
         /\ x <= 0 => Truncated(x, d) <= 0
         /\ x = 0 => Truncated(x, d) = 0
<1>1. \A y \in Nat : y \div d \in Nat
  OBVIOUS
<1>2. 0 \div d = 0
  OBVIOUS
<1>3. CASE x >= 0
  BY <1>1, <1>2, <1>3 DEF Truncated
<1>4. CASE x < 0
  <2>1. -x \in Nat /\ Truncated(x, d) = -((-x) \div d)
    BY <1>4 DEF Truncated
  <2> QED
    BY <1>1, <1>4, <2>1
<1> QED
  BY <1>3, <1>4

\* The whole part of a wait grows with it.
LEMMA QuotientGrows ==
  ASSUME NEW a \in Nat, NEW d \in Nat \ {0}, NEW u \in Nat \ {0}, NEW m \in Nat, m >= u
  PROVE  a \div d <= (a * m) \div (u * d)
<1> DEFINE q == a \div d
           e == u * d
           c == a * m
<1>1. q \in Nat /\ q * d <= a
  OBVIOUS
<1>2. e \in Nat \ {0} /\ c \in Nat
  OBVIOUS
<1>3. q * e <= c
  <2>1. q * e = u * (q * d)
    BY <1>1
  <2>2. u * (q * d) <= u * a
    <3> DEFINE x == q * d
    <3>1. x \in Nat /\ x <= a
      BY <1>1
    <3> HIDE DEF x
    <3>2. u * x <= u * a
      BY <3>1
    <3> QED
      BY <3>2 DEF x
  <2>3. u * a <= c /\ u * a \in Nat
    OBVIOUS
  <2>4. u * (q * d) \in Nat
    BY <1>1
  <2> QED
    BY <1>2, <2>1, <2>2, <2>3, <2>4
<1> HIDE DEF q, e, c
<1>4. q <= c \div e
  <2>1. c < ((c \div e) + 1) * e /\ c \div e \in Nat
    BY <1>2
  <2> DEFINE f == c \div e
  <2> HIDE DEF f
  <2>2. ASSUME f + 1 <= q PROVE FALSE
    <3>1. (f + 1) * e <= q * e /\ (f + 1) * e \in Nat /\ q * e \in Nat
      BY <1>1, <1>2, <2>1, <2>2 DEF f
    <3> QED
      BY <1>2, <1>3, <2>1, <3>1 DEF f
  <2> QED
    BY <1>1, <2>1, <2>2 DEF f
<1> QED
  BY <1>4 DEF q, e, c

LEMMA GrownType ==
  ASSUME NEW n \in Nat \ {0}, NEW spec \in CooldownSpec
  PROVE  /\ Grown(n, spec) \in Int /\ spec.base \in Int /\ spec.multiplier \in Int /\ spec.max \in Int
         /\ spec.strategy \in {"fixed", "linear", "exponential"}
         /\ Power(spec.multiplier, n - 1) \in Int /\ Power(Unit, n - 1) \in Nat \ {0}
<1>1. /\ spec.base \in Int /\ spec.multiplier \in Int /\ spec.max \in Int
      /\ spec.strategy \in {"fixed", "linear", "exponential"}
  BY DEF CooldownSpec
<1>2. n - 1 \in Nat
  OBVIOUS
<1>3. Power(spec.multiplier, n - 1) \in Int /\ Power(Unit, n - 1) \in Nat \ {0}
  BY <1>1, <1>2, PowerType, PowerPositive, CooldownAssumption
<1>4. spec.base * Power(spec.multiplier, n - 1) \in Int
  BY <1>1, <1>3
<1> QED
  BY <1>1, <1>3, <1>4, TruncatedType DEF Grown

LEMMA WrapType ==
  ASSUME NEW x \in Int
  PROVE  Wrap(x) \in -Word..(Word - 1)
  BY CooldownAssumption DEF Wrap

LEMMA CooldownType ==
  ASSUME NEW n \in Nat \ {0}, NEW spec \in CooldownSpec
  PROVE  ComputeCooldown(n, spec) \subseteq Int
<1>1. spec.base \in Int /\ spec.max \in Int /\ Grown(n, spec) \in Int
  BY GrownType
<1>2. \A x \in Int : Wrap(x) \in Int
  BY WrapType, CooldownAssumption
<1>3. RawSeconds(n, spec) \subseteq Int
  <2>1. Exponential(n, spec) \subseteq Int
    <3> DEFINE x == Grown(n, spec)
    <3>1. x \in Int
      BY <1>1
    <3> HIDE DEF x
    <3>2. ToInt(x) \subseteq Int
      BY <3>1, CooldownAssumption DEF ToInt
    <3>3. \A secs \in Int : Capped(secs, spec.max) \in Int
      BY <1>1 DEF Capped
    <3> QED
      BY <3>2, <3>3 DEF Exponential, x
  <2>2. Wrap(spec.base * n) \in Int
    BY <1>1, <1>2
  <2> QED
    BY <1>1, <2>1, <2>2 DEF RawSeconds
<1>4. \A secs \in RawSeconds(n, spec) : (IF secs < 0 THEN 0 ELSE secs) * Second \in Int
  BY <1>3, CooldownAssumption
<1> QED
  BY <1>2, <1>4 DEF ComputeCooldown

-----------------------------------------------------------------------------
(* Types                                                                   *)

\* A wait is only computed for a count.
Counting ==
  \A s \in Submissions : pc[s] \in {"backoff", "deadlines"} =>
    \A q \in wrong[s] : counts[s][q] # 0

LEMMA InitTypes == Init => TypeOK /\ Counting
<1> SUFFICES ASSUME Init PROVE TypeOK /\ Counting
  OBVIOUS
<1>1. NoRow \in Row
  BY DEF NoRow, Row
<1>2. now \in 0..Horizon /\ 0 \in 0..Horizon /\ faults \in 0..MaxFaults
  BY AttemptsAssumption DEF Init
<1>3. stamp \in [Submissions -> 0..Horizon] /\ rows \in [Questions -> Row]
  BY <1>1, <1>2 DEF Init
<1>5. /\ pc \in [Submissions -> PC]
      /\ wrong \in [Submissions -> SUBSET Questions]
      /\ counts \in [Submissions -> [Questions -> Nat]]
      /\ waits \in [Submissions -> [Questions -> Int]]
  BY DEF Init, PC
<1>6. counted \in [Questions -> SUBSET Submissions] /\ owed \in [Questions -> Nat]
  BY DEF Init
<1>7. lockedOut \subseteq Questions /\ overlapped \in BOOLEAN
  BY DEF Init
<1>4. TypeOK
  BY <1>2, <1>3, <1>5, <1>6, <1>7 DEF Init, TypeOK
<1> QED
  BY <1>4 DEF Init, Counting

LEMMA AcceptTypes ==
  ASSUME TypeOK, Counting, NEW s \in Submissions, Accept(s)
  PROVE  TypeOK' /\ Counting'
<1>1. wrong' \in [Submissions -> SUBSET Questions]
  BY DEF Accept, TypeOK
<1>2. pc' \in [Submissions -> PC]
  BY DEF Accept, Goto, TypeOK, PC
<1>3. overlapped' \in BOOLEAN
  BY DEF Accept, TypeOK
<1>4. TypeOK'
  BY <1>1, <1>2, <1>3 DEF Accept, TypeOK
<1>5. \A t \in Submissions \ {s} : pc'[t] = pc[t] /\ wrong'[t] = wrong[t]
  BY DEF Accept, Goto, TypeOK
<1>6. pc'[s] = "clear" /\ UNCHANGED counts
  BY DEF Accept, Goto, TypeOK
<1> QED
  BY <1>4, <1>5, <1>6 DEF Counting

LEMMA RefuseTypes ==
  ASSUME TypeOK, Counting, NEW s \in Submissions,
         Refuse(s) \/ LookupFails(s) \/ ClearFails(s) \/ RecordingFails(s)
  PROVE  TypeOK' /\ Counting'
<1>1. /\ UNCHANGED <<now, rows, wrong, counts, waits, stamp, history>>
      /\ \E from, to \in PC : Goto(s, from, to) /\ to \notin {"backoff", "deadlines"}
      /\ faults' \in 0..MaxFaults
  BY AttemptsAssumption DEF Refuse, LookupFails, ClearFails, RecordingFails, AfterClear, Fault, PC, Done, TypeOK
<1>2. pc' \in [Submissions -> PC]
  BY <1>1 DEF Goto, TypeOK
<1>3. \A t \in Submissions : pc'[t] \in {"backoff", "deadlines"} => pc[t] = pc'[t]
  BY <1>1 DEF Goto, TypeOK
<1> QED
  BY <1>1, <1>2, <1>3 DEF TypeOK, Counting, history

LEMMA ClearTypes ==
  ASSUME TypeOK, Counting, NEW s \in Submissions, Clear(s)
  PROVE  TypeOK' /\ Counting'
<1>1. pc' \in [Submissions -> PC]
  BY DEF Clear, Goto, AfterClear, TypeOK, PC, Done
<1>2. \A t \in Submissions : pc'[t] \in {"backoff", "deadlines"} => pc[t] = pc'[t]
  BY DEF Clear, Goto, AfterClear, TypeOK
<1>3. rows' \in [Questions -> Row]
  BY DEF Clear, TypeOK, Row, NoRow
<1>4. /\ counted' \in [Questions -> SUBSET Submissions]
      /\ owed' \in [Questions -> Nat]
      /\ lockedOut' \subseteq Questions
  BY DEF Clear, TypeOK
<1> QED
  BY <1>1, <1>2, <1>3, <1>4 DEF Clear, TypeOK, Counting

LEMMA IncrementTypes ==
  ASSUME TypeOK, Counting, NEW s \in Submissions, Increment(s)
  PROVE  /\ TypeOK' /\ Counting'
         /\ counts'[s] = [q \in Questions |-> rows'[q].attempts]
         /\ \A q \in Questions : rows'[q].attempts = IF q \in wrong[s] THEN rows[q].attempts + 1
                                                                        ELSE rows[q].attempts
         /\ \A q \in Questions : rows'[q].until = rows[q].until
<1>1. pc' \in [Submissions -> PC] /\ pc'[s] = "backoff" /\ \A t \in Submissions \ {s} : pc'[t] = pc[t]
  BY DEF Increment, Goto, TypeOK, PC
<1>2. \A q \in Questions :
        /\ rows'[q].attempts = IF q \in wrong[s] THEN rows[q].attempts + 1 ELSE rows[q].attempts
        /\ rows'[q].until = rows[q].until
        /\ rows'[q] \in Row
  BY DEF Increment, TypeOK, Row
<1>3. rows' \in [Questions -> Row]
  BY <1>2 DEF Increment
<1>4. \A q \in Questions : rows'[q].attempts \in Nat
  BY <1>2 DEF Row
<1>5. counts' = [counts EXCEPT ![s] = [q \in Questions |-> rows'[q].attempts]]
  BY DEF Increment
<1> DEFINE new == [q \in Questions |-> rows'[q].attempts]
<1>6. new \in [Questions -> Nat]
  BY <1>4
<1>7. counts' = [counts EXCEPT ![s] = new]
  BY <1>5
<1> HIDE DEF new
<1>8. /\ counts' \in [Submissions -> [Questions -> Nat]]
      /\ counts'[s] = new
      /\ \A t \in Submissions \ {s} : counts'[t] = counts[t]
  BY <1>6, <1>7 DEF TypeOK
<1>9. counted' \in [Questions -> SUBSET Submissions]
  BY DEF Increment, TypeOK
<1>10. TypeOK'
  BY <1>1, <1>3, <1>8, <1>9 DEF Increment, TypeOK
<1>11. \A q \in wrong[s] : new[q] # 0
  <2> SUFFICES ASSUME NEW q \in wrong[s] PROVE new[q] # 0
    OBVIOUS
  <2>1. q \in Questions
    BY DEF TypeOK
  <2>2. rows'[q].attempts = rows[q].attempts + 1 /\ rows[q].attempts \in Nat
    BY <1>2, <2>1 DEF TypeOK, Row
  <2> QED
    BY <2>1, <2>2 DEF new
<1>12. Counting'
  BY <1>1, <1>8, <1>11 DEF Increment, Counting
<1> QED
  BY <1>2, <1>8, <1>10, <1>12 DEF new

LEMMA BackoffTypes ==
  ASSUME TypeOK, Counting, NEW s \in Submissions, ComputeBackoff(s)
  PROVE  /\ TypeOK' /\ Counting'
         /\ \A t \in Submissions \ {s} : waits'[t] = waits[t] /\ stamp'[t] = stamp[t]
         /\ \A q \in wrong[s] \ Locked(s) : waits'[s][q] \in ComputeCooldown(counts[s][q], Backoff)
<1>1. /\ pc[s] = "backoff" /\ pc'[s] = "deadlines" /\ pc' \in [Submissions -> PC]
      /\ \A t \in Submissions \ {s} : pc'[t] = pc[t]
  BY DEF ComputeBackoff, Goto, TypeOK, PC
<1> DEFINE U == UNION {ComputeCooldown(counts[s][q], Backoff) : q \in wrong[s]}
           W == {0} \cup U
<1>2. W \subseteq Int
  <2>1. ASSUME NEW q \in wrong[s] PROVE ComputeCooldown(counts[s][q], Backoff) \subseteq Int
    <3>1. counts[s][q] \in Nat \ {0}
      BY <1>1 DEF TypeOK, Counting
    <3> QED
      BY <3>1, AttemptsAssumption, CooldownType
  <2>2. ASSUME NEW x \in U PROVE x \in Int
    <3>1. \E q \in wrong[s] : x \in ComputeCooldown(counts[s][q], Backoff)
      BY <2>2, Zenon
    <3> QED
      BY <2>1, <3>1
  <2> HIDE DEF U
  <2> QED
    BY <2>2
<1> HIDE DEF W
<1>3. PICK w \in [Questions -> W] :
        /\ \A q \in Questions :
             IF q \in wrong[s] \ Locked(s)
             THEN w[q] \in ComputeCooldown(counts[s][q], Backoff) ELSE w[q] = 0
        /\ waits' = [waits EXCEPT ![s] = w]
  BY Zenon DEF ComputeBackoff, W
<1>4. w \in [Questions -> Int]
  BY <1>2, <1>3
<1>5. waits' \in [Submissions -> [Questions -> Int]] /\ waits'[s] = w
      /\ \A t \in Submissions \ {s} : waits'[t] = waits[t]
  BY <1>3, <1>4 DEF TypeOK
<1>6. stamp' \in [Submissions -> 0..Horizon] /\ \A t \in Submissions \ {s} : stamp'[t] = stamp[t]
  BY DEF ComputeBackoff, TypeOK
<1>7. TypeOK'
  BY <1>1, <1>5, <1>6 DEF ComputeBackoff, TypeOK, history
<1>8. Counting'
  BY <1>1 DEF ComputeBackoff, Counting
<1>9. \A q \in wrong[s] \ Locked(s) : q \in Questions
  BY DEF TypeOK
<1> QED
  BY <1>3, <1>5, <1>6, <1>7, <1>8, <1>9

LEMMA DeadlinesTypes ==
  ASSUME TypeOK, Counting, NEW s \in Submissions, Deadlines(s)
  PROVE  /\ TypeOK' /\ Counting'
         /\ \A q \in Questions :
              /\ rows'[q].attempts = rows[q].attempts
              /\ rows'[q].until = IF q \in Delayed(s) /\ rows[q] # NoRow
                                  THEN stamp[s] + waits[s][q] ELSE rows[q].until
<1>1. pc' \in [Submissions -> PC] /\ pc'[s] = "answered" /\ \A t \in Submissions \ {s} : pc'[t] = pc[t]
  BY DEF Deadlines, Goto, TypeOK, PC, Done
<1>2. \A q \in Delayed(s) : q \in Questions /\ stamp[s] + waits[s][q] \in Nat
  <2> SUFFICES ASSUME NEW q \in Delayed(s) PROVE q \in Questions /\ stamp[s] + waits[s][q] \in Nat
    OBVIOUS
  <2>1. q \in Questions /\ waits[s][q] \in Int /\ waits[s][q] > 0 /\ stamp[s] \in Nat
    BY DEF Delayed, TypeOK
  <2> QED
    BY <2>1
<1>3. \A q \in Questions :
        /\ rows'[q] = IF q \in Delayed(s) /\ rows[q] # NoRow
                      THEN [rows[q] EXCEPT !.until = stamp[s] + waits[s][q]] ELSE rows[q]
        /\ owed'[q] = IF q \in Delayed(s) THEN stamp[s] + waits[s][q] ELSE owed[q]
  BY DEF Deadlines
<1>4. \A q \in Questions :
        /\ rows'[q] \in Row
        /\ rows'[q].attempts = rows[q].attempts
        /\ rows'[q].until = IF q \in Delayed(s) /\ rows[q] # NoRow
                            THEN stamp[s] + waits[s][q] ELSE rows[q].until
  <2> SUFFICES ASSUME NEW q \in Questions
               PROVE  /\ rows'[q] \in Row
                      /\ rows'[q].attempts = rows[q].attempts
                      /\ rows'[q].until = IF q \in Delayed(s) /\ rows[q] # NoRow
                                          THEN stamp[s] + waits[s][q] ELSE rows[q].until
    OBVIOUS
  <2>1. rows[q] \in Row
    BY DEF TypeOK
  <2>2. CASE q \in Delayed(s) /\ rows[q] # NoRow
    <3>1. rows'[q] = [rows[q] EXCEPT !.until = stamp[s] + waits[s][q]]
      BY <1>3, <2>2
    <3>2. stamp[s] + waits[s][q] \in Nat
      BY <1>2, <2>2
    <3> QED
      BY <2>1, <2>2, <3>1, <3>2 DEF Row
  <2>3. CASE ~(q \in Delayed(s) /\ rows[q] # NoRow)
    BY <1>3, <2>1, <2>3
  <2> QED
    BY <2>2, <2>3
<1>5. rows' \in [Questions -> Row]
  BY <1>4 DEF Deadlines
<1>6. owed' \in [Questions -> Nat]
  BY <1>2 DEF Deadlines, TypeOK
<1>7. lockedOut' \subseteq Questions
  BY DEF Deadlines, Locked, TypeOK
<1>8. TypeOK'
  BY <1>1, <1>5, <1>6, <1>7 DEF Deadlines, TypeOK
<1>9. Counting'
  BY <1>1 DEF Deadlines, Counting
<1> QED
  BY <1>4, <1>8, <1>9

LEMMA TickTypes ==
  ASSUME TypeOK, Counting, Tick \/ UNCHANGED vars
  PROVE  TypeOK' /\ Counting'
<1>1. now' \in 0..Horizon
  BY AttemptsAssumption DEF Tick, vars, TypeOK
<1>2. UNCHANGED <<rows, attempt, faults, history>>
  BY DEF Tick, vars
<1> QED
  BY <1>1, <1>2 DEF attempt, history, TypeOK, Counting

LEMMA TypesStep == TypeOK /\ Counting /\ [Next]_vars => (TypeOK /\ Counting)'
  BY AcceptTypes, RefuseTypes, ClearTypes, IncrementTypes, BackoffTypes, DeadlinesTypes, TickTypes
     DEF Next

\* The rows, and what the submissions hold of them, keep their types, whatever
\* the waits come to: a deadline is always a moment.
THEOREM TypeCorrect == Spec => []TypeOK
  BY InitTypes, TypesStep, PTL DEF Spec

-----------------------------------------------------------------------------
(* No count is lost                                                        *)

CountedFinite == \A q \in Questions : IsFiniteSet(counted[q])

\* A submission that has yet to count its wrong answers is counted nowhere.
NotCountedYet ==
  \A s \in Submissions : pc[s] \in {"idle", "clear", "increment"} =>
    \A q \in Questions : s \notin counted[q]

Inv == TypeOK /\ Counting /\ CountedFinite /\ NotCountedYet /\ CountsExact

\* One more submission counts one more.
LEMMA OneMore ==
  ASSUME NEW S, NEW s, IsFiniteSet(S), s \notin S
  PROVE  IsFiniteSet(S \cup {s}) /\ Cardinality(S \cup {s}) = Cardinality(S) + 1
BY FS_AddElement

\* Increment adds the submission to every row it adds one to.
LEMMA IncrementStep ==
  ASSUME Inv, NEW s \in Submissions, Increment(s)
  PROVE  Inv'
<1> USE DEF Inv
<1>1. /\ pc[s] = "increment" /\ pc' = [pc EXCEPT ![s] = "backoff"]
      /\ counted' = [q \in Questions |->
                       IF q \in wrong[s] THEN counted[q] \cup {s} ELSE counted[q]]
  BY DEF Increment, Goto
<1>2. CountedFinite' /\ CountsExact'
  <2> SUFFICES ASSUME NEW q \in Questions
               PROVE IsFiniteSet(counted'[q]) /\ rows'[q].attempts = Cardinality(counted'[q])
    BY DEF CountedFinite, CountsExact
  <2>1. s \notin counted[q] /\ IsFiniteSet(counted[q]) /\ rows[q].attempts = Cardinality(counted[q])
    BY <1>1 DEF NotCountedYet, CountedFinite, CountsExact
  <2>2. CASE q \in wrong[s]
    <3>1. counted'[q] = counted[q] \cup {s} /\ rows'[q].attempts = rows[q].attempts + 1
      BY <1>1, <2>2, IncrementTypes
    <3>2. QED
      BY <2>1, <3>1, OneMore
  <2>3. CASE q \notin wrong[s]
    BY <1>1, <2>1, <2>3, IncrementTypes
  <2>4. QED
    BY <2>2, <2>3
<1>3. NotCountedYet'
  BY <1>1 DEF NotCountedYet, TypeOK
<1>4. QED
  BY <1>2, <1>3, IncrementTypes

\* Clear forgets the count and those it counted, together.
LEMMA ClearStep ==
  ASSUME Inv, NEW s \in Submissions, Clear(s)
  PROVE  Inv'
<1> USE DEF Inv
<1>1. /\ pc[s] = "clear" /\ pc' = [pc EXCEPT ![s] = AfterClear(s)]
      /\ rows' = [q \in Questions |-> IF q \in Questions \ wrong[s] THEN NoRow ELSE rows[q]]
      /\ counted' = [q \in Questions |-> IF q \in Questions \ wrong[s] THEN {} ELSE counted[q]]
  BY DEF Clear, Goto
<1>2. CountedFinite' /\ CountsExact'
  BY <1>1, FS_EmptySet DEF CountedFinite, CountsExact, NoRow
<1>3. NotCountedYet'
  BY <1>1 DEF NotCountedYet, TypeOK, AfterClear
<1>4. QED
  BY <1>2, <1>3, ClearTypes

\* The other steps change no count, and none leads back to a place before
\* Increment from beyond it.
LEMMA OtherStep ==
  ASSUME Inv, (TypeOK /\ Counting)', UNCHANGED counted,
         \A q \in Questions : rows'[q].attempts = rows[q].attempts,
         \A s \in Submissions : pc'[s] \in {"idle", "clear", "increment"} =>
                                  pc[s] \in {"idle", "clear", "increment"}
  PROVE  Inv'
BY DEF Inv, CountedFinite, NotCountedYet, CountsExact

LEMMA InitInv == Init => Inv
<1> SUFFICES ASSUME Init PROVE Inv
  OBVIOUS
<1>1. CountedFinite /\ NotCountedYet /\ CountsExact
  BY FS_EmptySet DEF Init, CountedFinite, NotCountedYet, CountsExact, NoRow
<1> QED
  BY <1>1, InitTypes DEF Inv

LEMMA Inductive == Inv /\ [Next]_vars => Inv'
<1> SUFFICES ASSUME Inv, [Next]_vars PROVE Inv'
  OBVIOUS
<1>1. TypeOK /\ Counting /\ (TypeOK /\ Counting)'
  BY TypesStep DEF Inv
<1>2. ASSUME NEW s \in Submissions,
             Accept(s) \/ Refuse(s) \/ LookupFails(s) \/ ClearFails(s) \/ RecordingFails(s)
      PROVE  Inv'
  <2>1. UNCHANGED <<rows, counted>>
    BY <1>2 DEF Accept, Refuse, LookupFails, ClearFails, RecordingFails, history
  <2>2. \A t \in Submissions : pc'[t] \in {"idle", "clear", "increment"} =>
                                 pc[t] \in {"idle", "clear", "increment"}
    BY <1>1, <1>2 DEF Accept, Refuse, LookupFails, ClearFails, RecordingFails, AfterClear, Goto, TypeOK
  <2> QED
    BY <1>1, <2>1, <2>2, OtherStep
<1>3. ASSUME NEW s \in Submissions, ComputeBackoff(s) \/ Deadlines(s) PROVE Inv'
  <2>1. UNCHANGED counted /\ \A q \in Questions : rows'[q].attempts = rows[q].attempts
    BY <1>1, <1>3, DeadlinesTypes DEF ComputeBackoff, Deadlines, history
  <2>2. \A t \in Submissions : pc'[t] \in {"idle", "clear", "increment"} =>
                                 pc[t] \in {"idle", "clear", "increment"}
    BY <1>1, <1>3 DEF ComputeBackoff, Deadlines, Goto, TypeOK
  <2> QED
    BY <1>1, <2>1, <2>2, OtherStep
<1>4. ASSUME Tick \/ UNCHANGED vars PROVE Inv'
  BY <1>1, <1>4, OtherStep DEF Tick, vars, attempt, history
<1> QED
  BY <1>2, <1>3, <1>4, IncrementStep, ClearStep DEF Next

\* "concurrent submissions cannot lose a count", for any number of them: each
\* row counts exactly the submissions that got its question wrong since it was
\* last answered right (incrementAttempts, Clear).
THEOREM CountsAlwaysExact == Spec => []CountsExact
<1>1. Inv => CountsExact
  BY DEF Inv
<1>2. QED
  BY <1>1, InitInv, Inductive, PTL DEF Spec

-----------------------------------------------------------------------------
(* No wrong answer is free                                                 *)

\* The quiz makes the learner wait for every count its submissions can reach.
\* A base of 0 does not, nor does a product that passes the integers.
AlwaysWaits ==
  /\ IsFiniteSet(Submissions)
  /\ \A n \in 1..Cardinality(Submissions) : \A w \in ComputeCooldown(n, Backoff) : w > 0

Untroubled == faults = MaxFaults

\* The deadline of a counted question is that of an answered submission ...
Delaying(q, s) ==
  /\ pc[s] = "answered" /\ q \in wrong[s] /\ waits[s][q] > 0
  /\ rows[q].until = stamp[s] + waits[s][q]

\* ... or there is one that has yet to store it.
AboutToDelay(q, s) == pc[s] \in {"backoff", "deadlines"} /\ q \in wrong[s]

Delays ==
  Untroubled => \A q \in Questions :
    (rows[q].attempts > 0 /\ q \notin lockedOut) =>
      \E s \in Submissions : Delaying(q, s) \/ AboutToDelay(q, s)

\* A submission knows counts that were reached, and waits for them.
CountsReached ==
  \A s \in Submissions : pc[s] \in {"backoff", "deadlines"} =>
    \A q \in wrong[s] :
      /\ counts[s][q] \in 1..Cardinality(Submissions)
      /\ pc[s] = "deadlines" /\ q \notin Locked(s) => waits[s][q] > 0

DelayInv == Inv /\ CountsReached /\ Delays

LEMMA ReachedStep ==
  ASSUME AlwaysWaits, Inv, Inv', CountsReached, Next
  PROVE  CountsReached'
<1>1. TypeOK /\ Counting
  BY DEF Inv
<1>2. ASSUME NEW s \in Submissions, Increment(s) PROVE CountsReached'
  <2>1. pc'[s] = "backoff" /\ \A t \in Submissions \ {s} : pc'[t] = pc[t] /\ counts'[t] = counts[t]
    BY <1>1, <1>2 DEF Increment, Goto, TypeOK
  <2>2. UNCHANGED <<wrong, waits>>
    BY <1>2 DEF Increment
  <2>3. \A q \in wrong[s] : counts'[s][q] \in 1..Cardinality(Submissions)
    <3> SUFFICES ASSUME NEW q \in wrong[s] PROVE counts'[s][q] \in 1..Cardinality(Submissions)
      OBVIOUS
    <3>1. q \in Questions /\ rows[q].attempts \in Nat
      BY <1>1 DEF TypeOK, Row
    <3>2. counts'[s][q] = rows[q].attempts + 1 /\ rows'[q].attempts = rows[q].attempts + 1
      BY <1>1, <1>2, <3>1, IncrementTypes
    <3>3. rows'[q].attempts = Cardinality(counted'[q]) /\ counted'[q] \subseteq Submissions
      BY <3>1 DEF Inv, CountsExact, TypeOK
    <3>4. Cardinality(counted'[q]) <= Cardinality(Submissions) /\ Cardinality(Submissions) \in Nat
      BY <3>3, FS_Subset, FS_CardinalityType DEF AlwaysWaits
    <3> QED
      BY <3>1, <3>2, <3>3, <3>4
  <2> QED
    BY <2>1, <2>2, <2>3 DEF CountsReached, Locked
<1>3. ASSUME NEW s \in Submissions, ComputeBackoff(s) PROVE CountsReached'
  <2>1. /\ pc[s] = "backoff" /\ pc'[s] = "deadlines" /\ UNCHANGED <<wrong, counts>>
        /\ \A t \in Submissions \ {s} : pc'[t] = pc[t] /\ waits'[t] = waits[t]
    BY <1>1, <1>3, BackoffTypes DEF ComputeBackoff, Goto, TypeOK
  <2>2. \A q \in wrong[s] \ Locked(s) : waits'[s][q] > 0
    BY <1>1, <1>3, <2>1, BackoffTypes DEF AlwaysWaits, CountsReached
  <2> QED
    BY <2>1, <2>2 DEF CountsReached, Locked
<1>4. ASSUME NEW s \in Submissions,
             \/ Accept(s) \/ Refuse(s) \/ LookupFails(s) \/ Clear(s) \/ ClearFails(s)
             \/ Deadlines(s) \/ RecordingFails(s)
      PROVE  CountsReached'
  <2>1. /\ UNCHANGED <<counts, waits>>
        /\ \A t \in Submissions :
             pc'[t] \in {"backoff", "deadlines"} => pc'[t] = pc[t] /\ wrong'[t] = wrong[t]
    BY <1>1, <1>4 DEF Accept, Refuse, LookupFails, Clear, ClearFails, AfterClear, Deadlines,
       RecordingFails, Goto, TypeOK
  <2> QED
    BY <2>1 DEF CountsReached, Locked
<1>5. CASE Tick
  BY <1>5 DEF Tick, attempt, CountsReached, Locked
<1> QED
  BY <1>2, <1>3, <1>4, <1>5 DEF Next

LEMMA DelaysStep ==
  ASSUME Inv, Inv', CountsReached, Delays, Next
  PROVE  Delays'
<1>1. TypeOK /\ Counting /\ \A q \in Questions : rows[q].attempts \in Nat
  BY DEF Inv, TypeOK, Row
<1>2. faults \in 0..MaxFaults /\ MaxFaults \in Nat
  BY <1>1, AttemptsAssumption DEF TypeOK
<1>3. ASSUME NEW s \in Submissions, Refuse(s) \/ Accept(s)
      PROVE  Delays'
  <2>1. /\ UNCHANGED <<rows, lockedOut, faults, waits, stamp>> /\ pc[s] = "idle"
        /\ \A t \in Submissions \ {s} : pc'[t] = pc[t] /\ wrong'[t] = wrong[t]
    BY <1>1, <1>3 DEF Refuse, Accept, Goto, TypeOK, history
  <2> QED
    BY <2>1 DEF Delays, Untroubled, Delaying, AboutToDelay
<1>4. ASSUME NEW s \in Submissions, LookupFails(s) \/ ClearFails(s) \/ RecordingFails(s)
      PROVE  Delays'
  BY <1>2, <1>4 DEF LookupFails, ClearFails, RecordingFails, Fault, Delays, Untroubled
<1>5. ASSUME NEW s \in Submissions, Clear(s) PROVE Delays'
  <2>1. /\ UNCHANGED <<faults, waits, stamp, wrong>> /\ pc[s] = "clear"
        /\ \A t \in Submissions \ {s} : pc'[t] = pc[t]
        /\ \A q \in Questions : IF q \in wrong[s] THEN rows'[q] = rows[q] ELSE rows'[q] = NoRow
        /\ \A q \in wrong[s] : q \notin lockedOut' => q \notin lockedOut
    BY <1>1, <1>5 DEF Clear, Goto, TypeOK
  <2>2. ~(NoRow.attempts > 0)
    BY DEF NoRow
  <2> QED
    BY <2>1, <2>2 DEF Delays, Untroubled, Delaying, AboutToDelay
<1>6. ASSUME NEW s \in Submissions, Increment(s) PROVE Delays'
  <2>1. /\ UNCHANGED <<faults, waits, stamp, wrong, lockedOut>> /\ pc[s] = "increment"
        /\ pc'[s] = "backoff" /\ \A t \in Submissions \ {s} : pc'[t] = pc[t]
    BY <1>1, <1>6 DEF Increment, Goto, TypeOK
  <2>2. \A q \in Questions : /\ q \notin wrong[s] => rows'[q].attempts = rows[q].attempts
                             /\ rows'[q].until = rows[q].until
    BY <1>1, <1>6, IncrementTypes
  <2> QED
    BY <2>1, <2>2 DEF Delays, Untroubled, Delaying, AboutToDelay
<1>7. ASSUME NEW s \in Submissions, ComputeBackoff(s) PROVE Delays'
  <2>1. /\ UNCHANGED <<faults, rows, wrong, lockedOut>> /\ pc[s] = "backoff"
        /\ pc'[s] = "deadlines"
        /\ \A t \in Submissions \ {s} :
             pc'[t] = pc[t] /\ waits'[t] = waits[t] /\ stamp'[t] = stamp[t]
    BY <1>1, <1>7, BackoffTypes DEF ComputeBackoff, Goto, TypeOK, history
  <2> QED
    BY <2>1 DEF Delays, Untroubled, Delaying, AboutToDelay
<1>8. ASSUME NEW s \in Submissions, Deadlines(s) PROVE Delays'
  <2>1. /\ UNCHANGED <<faults, waits, stamp, wrong>> /\ pc[s] = "deadlines" /\ pc'[s] = "answered"
        /\ \A t \in Submissions \ {s} : pc'[t] = pc[t]
        /\ lockedOut' = lockedOut \cup Locked(s)
    BY <1>1, <1>8 DEF Deadlines, Goto, TypeOK
  <2>2. \A q \in Questions :
          /\ rows'[q].attempts = rows[q].attempts
          /\ rows'[q].until = IF q \in Delayed(s) /\ rows[q] # NoRow
                              THEN stamp[s] + waits[s][q] ELSE rows[q].until
    BY <1>1, <1>8, DeadlinesTypes
  <2> SUFFICES ASSUME Untroubled', NEW q \in Questions, rows'[q].attempts > 0, q \notin lockedOut'
               PROVE  \E t \in Submissions : Delaying(q, t)' \/ AboutToDelay(q, t)'
    BY DEF Delays
  <2>3. rows[q].attempts > 0 /\ rows[q] # NoRow /\ q \notin lockedOut /\ q \notin Locked(s)
    BY <2>1, <2>2 DEF NoRow
  <2>4. CASE q \in wrong[s]
    <3>1. q \in Delayed(s) /\ waits[s][q] > 0
      BY <2>1, <2>3, <2>4 DEF CountsReached, Delayed
    <3>2. rows'[q].until = stamp[s] + waits[s][q]
      BY <2>2, <2>3, <3>1
    <3> QED
      BY <2>1, <2>4, <3>1, <3>2 DEF Delaying
  <2>5. CASE q \notin wrong[s]
    <3>1. rows'[q].until = rows[q].until
      BY <2>2, <2>5 DEF Delayed
    <3>2. PICK t \in Submissions : Delaying(q, t) \/ AboutToDelay(q, t)
      BY <2>1, <2>3 DEF Delays, Untroubled
    <3>3. t # s
      BY <2>1, <2>5, <3>2 DEF Delaying, AboutToDelay
    <3> QED
      BY <2>1, <3>1, <3>2, <3>3 DEF Delaying, AboutToDelay
  <2> QED
    BY <2>4, <2>5
<1>9. CASE Tick
  BY <1>9 DEF Tick, attempt, history, Delays, Untroubled, Delaying, AboutToDelay
<1> QED
  BY <1>3, <1>4, <1>5, <1>6, <1>7, <1>8, <1>9 DEF Next

\* Where the quiz always makes the learner wait, no wrong answer is free: once
\* nobody is writing and no statement has failed, every counted question that
\* is not locked carries the deadline of some wrong answer to it, for any
\* number of overlapping submissions (Increment, writeDeadlines).
THEOREM FailureAlwaysDelays == AlwaysWaits /\ Spec => []FailureDelays
<1>1. Init => DelayInv
  <2> SUFFICES ASSUME Init PROVE DelayInv
    OBVIOUS
  <2>1. CountsReached /\ Delays
    BY DEF Init, CountsReached, Delays, NoRow
  <2> QED
    BY <2>1, InitInv DEF DelayInv
<1>2. AlwaysWaits /\ DelayInv /\ [Next]_vars => DelayInv'
  <2> SUFFICES ASSUME AlwaysWaits, DelayInv, [Next]_vars PROVE DelayInv'
    OBVIOUS
  <2>1. Inv /\ Inv'
    BY Inductive DEF DelayInv
  <2>2. CASE Next
    BY <2>1, <2>2, ReachedStep, DelaysStep DEF DelayInv
  <2>3. CASE UNCHANGED vars
    <3>1. CountsReached'
      BY <2>3 DEF vars, attempt, DelayInv, CountsReached, Locked
    <3>2. Delays'
      BY <2>3 DEF vars, attempt, history, DelayInv, Delays, Untroubled, Delaying, AboutToDelay
    <3> QED
      BY <2>1, <3>1, <3>2 DEF DelayInv
  <2> QED
    BY <2>2, <2>3
<1>3. DelayInv => FailureDelays
  <2> SUFFICES ASSUME DelayInv, InFlight = {}, faults = MaxFaults,
                      NEW q \in Questions, rows[q].attempts > 0, q \notin lockedOut
               PROVE  \E s \in Submissions : /\ q \in wrong[s] /\ waits[s][q] > 0
                                             /\ rows[q].until = stamp[s] + waits[s][q]
    BY DEF FailureDelays
  <2>1. PICK s \in Submissions : Delaying(q, s) \/ AboutToDelay(q, s)
    BY DEF DelayInv, Delays, Untroubled
  <2>2. ~AboutToDelay(q, s)
    BY DEF InFlight, AboutToDelay, Done
  <2> QED
    BY <2>1, <2>2 DEF Delaying
<1>4. AlwaysWaits /\ [Next]_vars => AlwaysWaits'
  BY DEF AlwaysWaits
<1> QED
  BY <1>1, <1>2, <1>3, <1>4, PTL DEF Spec

-----------------------------------------------------------------------------
(* One at a time, nothing is scored inside a cooldown                      *)

Running(s) == pc[s] \in {"clear", "increment", "backoff", "deadlines"}

\* While submissions have come one at a time, what the learner was told is what
\* the rows say, and a submission that is to store deadlines has its rows.
OneByOne ==
  ~overlapped =>
    /\ \A s, t \in Submissions : Running(s) /\ Running(t) => s = t
    /\ \A q \in Questions : owed[q] = rows[q].until
    /\ \A s \in Submissions : pc[s] \in {"backoff", "deadlines"} =>
         \A q \in wrong[s] : rows[q] # NoRow

LEMMA OneByOneStep ==
  ASSUME TypeOK, Counting, OneByOne, Next
  PROVE  OneByOne'
<1>1. ASSUME NEW s \in Submissions, Accept(s) PROVE OneByOne'
  <2>1. /\ UNCHANGED <<rows, owed>> /\ pc[s] = "idle" /\ pc'[s] = "clear"
        /\ \A t \in Submissions \ {s} : pc'[t] = pc[t] /\ wrong'[t] = wrong[t]
        /\ overlapped' = (overlapped \/ InFlight # {})
    BY <1>1 DEF Accept, Goto, TypeOK
  <2>2. ~overlapped' => ~overlapped /\ \A t \in Submissions : ~Running(t)
    BY <2>1 DEF InFlight, Running, Done
  <2> QED
    BY <2>1, <2>2 DEF OneByOne, Running
<1>2. ASSUME NEW s \in Submissions,
             Refuse(s) \/ LookupFails(s) \/ ClearFails(s) \/ RecordingFails(s)
      PROVE  OneByOne'
  <2>1. /\ UNCHANGED <<rows, owed, wrong, overlapped>>
        /\ \A t \in Submissions : /\ Running(t)' => Running(t)
                                  /\ pc'[t] \in {"backoff", "deadlines"} => pc[t] = pc'[t]
    BY <1>2 DEF Refuse, LookupFails, ClearFails, RecordingFails, AfterClear, Goto, Running, history,
       TypeOK
  <2> QED
    BY <2>1 DEF OneByOne
<1>3. ASSUME NEW s \in Submissions, Clear(s) PROVE OneByOne'
  <2>1. /\ UNCHANGED <<wrong, overlapped>> /\ pc[s] = "clear"
        /\ pc'[s] \in {"answered", "increment"} /\ \A t \in Submissions \ {s} : pc'[t] = pc[t]
    BY <1>3 DEF Clear, AfterClear, Goto, TypeOK
  <2>2. \A q \in Questions : \/ rows'[q] = rows[q] /\ owed'[q] = owed[q]
                             \/ rows'[q] = NoRow /\ owed'[q] = 0
    BY <1>3 DEF Clear
  <2>3. NoRow.until = 0
    BY DEF NoRow
  <2>4. ASSUME ~overlapped, NEW t \in Submissions PROVE pc'[t] \notin {"backoff", "deadlines"}
    BY <2>1, <2>4 DEF OneByOne, Running
  <2> QED
    BY <2>1, <2>2, <2>3, <2>4 DEF OneByOne, Running
<1>4. ASSUME NEW s \in Submissions, Increment(s) PROVE OneByOne'
  <2>1. /\ UNCHANGED <<wrong, overlapped, owed>> /\ pc[s] = "increment"
        /\ pc'[s] = "backoff" /\ \A t \in Submissions \ {s} : pc'[t] = pc[t]
    BY <1>4 DEF Increment, Goto, TypeOK
  <2>2. \A q \in Questions : rows'[q].until = rows[q].until
    BY <1>4, IncrementTypes
  <2>3. \A q \in wrong[s] : rows'[q] # NoRow
    <3> SUFFICES ASSUME NEW q \in wrong[s] PROVE rows'[q].attempts # 0
      BY DEF NoRow
    <3>1. q \in Questions /\ rows[q].attempts \in Nat
      BY DEF TypeOK, Row
    <3>2. rows'[q].attempts = rows[q].attempts + 1
      BY <1>4, <3>1, IncrementTypes
    <3> QED
      BY <3>1, <3>2
  <2>4. ASSUME ~overlapped, NEW t \in Submissions, t # s PROVE pc'[t] \notin {"backoff", "deadlines"}
    BY <2>1, <2>4 DEF OneByOne, Running
  <2> QED
    BY <2>1, <2>2, <2>3, <2>4 DEF OneByOne, Running
<1>5. ASSUME NEW s \in Submissions, ComputeBackoff(s) PROVE OneByOne'
  <2>1. /\ UNCHANGED <<rows, wrong, overlapped, owed>> /\ pc[s] = "backoff"
        /\ pc'[s] = "deadlines" /\ \A t \in Submissions \ {s} : pc'[t] = pc[t]
    BY <1>5 DEF ComputeBackoff, Goto, TypeOK, history
  <2> QED
    BY <2>1 DEF OneByOne, Running
<1>6. ASSUME NEW s \in Submissions, Deadlines(s) PROVE OneByOne'
  <2>1. /\ UNCHANGED <<wrong, overlapped>> /\ pc[s] = "deadlines"
        /\ pc'[s] = "answered" /\ \A t \in Submissions \ {s} : pc'[t] = pc[t]
        /\ \A q \in Questions :
             owed'[q] = IF q \in Delayed(s) THEN stamp[s] + waits[s][q] ELSE owed[q]
    BY <1>6 DEF Deadlines, Goto, TypeOK
  <2>2. \A q \in Questions : rows'[q].until = IF q \in Delayed(s) /\ rows[q] # NoRow
                                              THEN stamp[s] + waits[s][q] ELSE rows[q].until
    BY <1>6, DeadlinesTypes
  <2>3. ~overlapped => \A q \in Delayed(s) : rows[q] # NoRow
    BY <2>1 DEF OneByOne, Delayed
  <2>4. ASSUME ~overlapped, NEW t \in Submissions PROVE ~Running(t)'
    BY <2>1, <2>4 DEF OneByOne, Running
  <2>5. ~overlapped => \A q \in Questions : owed'[q] = rows'[q].until
    BY <2>1, <2>2, <2>3 DEF OneByOne
  <2> QED
    BY <2>1, <2>4, <2>5 DEF OneByOne, Running
<1>7. CASE Tick
  BY <1>7 DEF Tick, attempt, history, OneByOne, Running
<1> QED
  BY <1>1, <1>2, <1>3, <1>4, <1>5, <1>6, <1>7 DEF Next

\* A question refused to the learner until some time is not scored before it,
\* unless it was answered correctly in between: while no two submissions have
\* overlapped, whatever statement fails and for any configuration
\* (pendingCooldowns, writeDeadlines).
THEOREM RetriesAlwaysSpaced == Spec => RetrySpaced
<1>1. Init => TypeOK /\ Counting /\ OneByOne
  <2>1. Init => OneByOne
    BY DEF Init, OneByOne, Running, NoRow
  <2> QED
    BY <2>1, InitTypes
<1>2. TypeOK /\ Counting /\ OneByOne /\ [Next]_vars => (TypeOK /\ Counting /\ OneByOne)'
  <2>1. ASSUME OneByOne, UNCHANGED vars PROVE OneByOne'
    BY <2>1 DEF vars, attempt, history, OneByOne, Running
  <2> QED
    BY <2>1, TypesStep, OneByOneStep
<1> DEFINE Spaced ==
             ~overlapped' =>
               \A s \in Submissions :
                 (pc[s] = "idle" /\ pc'[s] = "clear") => \A q \in Questions : owed[q] <= now
<1>3. TypeOK /\ OneByOne /\ [Next]_vars => [Spaced]_vars
  <2> SUFFICES ASSUME TypeOK, OneByOne, Next, ~overlapped', NEW s \in Submissions,
                      pc[s] = "idle", pc'[s] = "clear", NEW q \in Questions
               PROVE  owed[q] <= now
    OBVIOUS
  <2>1. Accept(s)
    BY DEF Next, Accept, Refuse, LookupFails, Clear, ClearFails, AfterClear, Increment, ComputeBackoff,
       Deadlines, RecordingFails, Goto, Tick, attempt, TypeOK
  <2>2. ~(rows[q].until > now) /\ ~overlapped
    BY <2>1 DEF Accept, Pending
  <2>3. rows[q].until \in Nat /\ now \in Nat
    BY DEF TypeOK, Row
  <2> QED
    BY <2>2, <2>3 DEF OneByOne
<1> QED
  BY <1>1, <1>2, <1>3, PTL DEF Spec, RetrySpaced

-----------------------------------------------------------------------------
(* Sums                                                                    *)

Picked(s) == CHOOSE x \in s : TRUE

\* What the fold behind SumFunctionOnSet computes for the subsets in D.
Sums(f, D, g) == g = [s \in D |-> IF s = {} THEN 0 ELSE f[Picked(s)] + g[s \ {Picked(s)}]]

LEMMA SumIsFold ==
  ASSUME NEW f, NEW S
  PROVE  SumFunctionOnSet(f, S) = (CHOOSE g : Sums(f, SUBSET S, g))[S]
  BY DEF SumFunctionOnSet, FoldFunctionOnSet, MapThenFoldSet, Sums, Picked

LEMMA SumsExist ==
  ASSUME NEW f, NEW S, IsFiniteSet(S)
  PROVE  \E g : Sums(f, SUBSET S, g)
<1> DEFINE D(n) == {s \in SUBSET S : Cardinality(s) <= n}
           G == {n \in Nat : \E g : Sums(f, D(n), g)}
<1>1. \A s \in SUBSET S : IsFiniteSet(s) /\ Cardinality(s) \in Nat /\ Cardinality(s) <= Cardinality(S)
  BY FS_Subset, FS_CardinalityType
<1>2. \A s \in SUBSET S : s # {} =>
        Picked(s) \in s /\ s \ {Picked(s)} \in SUBSET S
        /\ Cardinality(s \ {Picked(s)}) = Cardinality(s) - 1
  BY <1>1, FS_RemoveElement DEF Picked
<1>3. 0 \in G
  <2> DEFINE g == [s \in D(0) |-> 0]
  <2>1. \A s \in D(0) : s = {}
    BY <1>1, FS_EmptySet
  <2>2. g = [s \in D(0) |-> IF s = {} THEN 0 ELSE f[Picked(s)] + g[s \ {Picked(s)}]]
    BY <2>1
  <2> QED
    BY <2>2 DEF Sums
<1>4. ASSUME NEW n \in Nat, n \in G
      PROVE  n + 1 \in G
  <2>1. PICK g : Sums(f, D(n), g)
    BY <1>4
  <2> DEFINE h == [s \in D(n + 1) |-> IF s = {} THEN 0 ELSE f[Picked(s)] + g[s \ {Picked(s)}]]
  <2>2. \A s \in D(n) : h[s] = g[s]
    <3>1. \A s \in D(n) : s \in D(n + 1)
      BY <1>1
    <3> QED
      BY <2>1, <3>1 DEF Sums
  <2>3. \A s \in D(n + 1) : s # {} => s \ {Picked(s)} \in D(n)
    BY <1>1, <1>2
  <2>4. \A s \in D(n + 1) : s # {} => h[s \ {Picked(s)}] = g[s \ {Picked(s)}]
    BY <2>2, <2>3
  <2>5. h = [s \in D(n + 1) |-> IF s = {} THEN 0 ELSE f[Picked(s)] + h[s \ {Picked(s)}]]
    BY <2>4
  <2>6. Sums(f, D(n + 1), h)
    BY <2>5 DEF Sums
  <2> HIDE DEF h, D
  <2> QED
    BY <2>6
<1> HIDE DEF G
<1>5. Cardinality(S) \in G
  BY <1>1, <1>3, <1>4, SuccessorClosed
<1>6. D(Cardinality(S)) = SUBSET S
  BY <1>1
<1> QED
  BY <1>5, <1>6 DEF G

\* A sum is an integer, grows with its terms, and vanishes with them.
LEMMA SumGrows ==
  ASSUME NEW S, IsFiniteSet(S), NEW f \in [S -> Int], NEW h \in [S -> Int],
         \A x \in S : f[x] <= h[x]
  PROVE  /\ SumFunctionOnSet(f, S) \in Int
         /\ SumFunctionOnSet(f, S) <= SumFunctionOnSet(h, S)
         /\ (\A x \in S : f[x] = 0) => SumFunctionOnSet(f, S) = 0
<1> DEFINE a == CHOOSE g : Sums(f, SUBSET S, g)
           b == CHOOSE g : Sums(h, SUBSET S, g)
<1>1. Sums(f, SUBSET S, a) /\ Sums(h, SUBSET S, b)
  BY SumsExist
<1> HIDE DEF a, b
<1>2. /\ a[{}] = 0 /\ b[{}] = 0
      /\ \A s \in SUBSET S : s # {} =>
           /\ a[s] = f[Picked(s)] + a[s \ {Picked(s)}]
           /\ b[s] = h[Picked(s)] + b[s \ {Picked(s)}]
  BY <1>1 DEF Sums
<1> DEFINE Zero == \A x \in S : f[x] = 0
           Good(s) == a[s] \in Int /\ b[s] \in Int /\ a[s] <= b[s] /\ (Zero => a[s] = 0)
           Below(n) == \A s \in SUBSET S : Cardinality(s) <= n => Good(s)
           G == {n \in Nat : Below(n)}
<1>3. \A s \in SUBSET S : /\ Cardinality(s) \in Nat /\ Cardinality(s) <= Cardinality(S)
                          /\ Cardinality(s) = 0 => s = {}
  BY FS_Subset, FS_CardinalityType, FS_EmptySet
<1>4. \A s \in SUBSET S : s # {} =>
        /\ Picked(s) \in S /\ s \ {Picked(s)} \in SUBSET S
        /\ Cardinality(s \ {Picked(s)}) = Cardinality(s) - 1
  BY FS_Subset, FS_RemoveElement DEF Picked
<1>5. 0 \in G
  <2>1. \A s \in SUBSET S : Cardinality(s) <= 0 => s = {}
    BY <1>3
  <2>2. Good({})
    BY <1>2
  <2> QED
    BY <2>1, <2>2
<1>6. ASSUME NEW n \in Nat, n \in G
      PROVE  n + 1 \in G
  <2>1. Below(n)
    BY <1>6
  <2> SUFFICES ASSUME NEW s \in SUBSET S, Cardinality(s) <= n + 1
               PROVE  Good(s)
    OBVIOUS
  <2>2. CASE s = {}
    BY <1>2, <2>2
  <2>3. CASE s # {}
    <3> DEFINE t == s \ {Picked(s)}
    <3>1. t \in SUBSET S /\ Cardinality(t) <= n
      BY <1>3, <1>4, <2>3
    <3>2. Good(t)
      BY <2>1, <3>1
    <3>3. /\ f[Picked(s)] \in Int /\ h[Picked(s)] \in Int /\ f[Picked(s)] <= h[Picked(s)]
          /\ Zero => f[Picked(s)] = 0
      BY <1>4, <2>3
    <3>4. a[s] = f[Picked(s)] + a[t] /\ b[s] = h[Picked(s)] + b[t]
      BY <1>2, <2>3
    <3> HIDE DEF t, Zero
    <3> QED
      BY <3>2, <3>3, <3>4
  <2> QED
    BY <2>2, <2>3
<1> HIDE DEF G
<1>7. Cardinality(S) \in G
  BY <1>3, <1>5, <1>6, SuccessorClosed
<1>8. Good(S)
  BY <1>3, <1>7 DEF G
<1> QED
  BY <1>8, SumIsFold DEF a, b

-----------------------------------------------------------------------------
(* Scores                                                                  *)

\* Rounding a quotient does not take it across a whole number.
LEMMA RoundBounds ==
  ASSUME NEW n \in Int, NEW d \in Nat \ {0}, NEW k \in Nat, n <= k * d
  PROVE  Round(n, d) \in Int /\ Round(n, d) <= k /\ (n >= 0 => Round(n, d) >= 0)
<1> DEFINE e == k * d
<1>0. e \in Nat
  OBVIOUS
<1>1. CASE n >= 0
  <2> DEFINE x == 2 * n + d
             y == 2 * d
             r == x \div y
  <2>1. x \in Nat /\ y \in Nat \ {0} /\ x < y * k + y
    <3>1. y * k = 2 * e
      OBVIOUS
    <3> HIDE DEF e
    <3> QED
      BY <1>0, <1>1, <3>1 DEF e
  <2> HIDE DEF x, y
  <2>2. r \in Int /\ y * r <= x /\ x < y * r + y
    BY <2>1
  <2> HIDE DEF r
  <2>3. r <= k
    <3> SUFFICES ASSUME r >= k + 1 PROVE FALSE
      BY <2>2
    <3>1. y * r >= y * (k + 1)
      BY <2>1, <2>2
    <3>2. y * (k + 1) = y * k + y
      BY <2>1
    <3> QED
      BY <2>1, <2>2, <3>1, <3>2
  <2>4. r >= 0
    <3> SUFFICES ASSUME r <= -1 PROVE FALSE
      BY <2>2
    <3>1. y * r <= y * (-1)
      BY <2>1, <2>2
    <3>2. y * (-1) = -y
      BY <2>1
    <3> QED
      BY <2>1, <2>2, <3>1, <3>2
  <2> QED
    BY <1>1, <2>2, <2>3, <2>4 DEF Round, r, x, y
<1>2. CASE n < 0
  <2> DEFINE x == d - 2 * n
             y == 2 * d
             r == x \div y
  <2>1. x \in Nat /\ y \in Nat \ {0}
    BY <1>2
  <2> HIDE DEF x, y
  <2>2. r \in Int /\ x < y * r + y
    BY <2>1
  <2> HIDE DEF r
  <2>3. r >= 0
    <3> SUFFICES ASSUME r <= -1 PROVE FALSE
      BY <2>2
    <3>1. y * r <= y * (-1)
      BY <2>1, <2>2
    <3>2. y * (-1) = -y
      BY <2>1
    <3> QED
      BY <2>1, <2>2, <3>1, <3>2
  <2> QED
    BY <1>2, <2>2, <2>3 DEF Round, r, x, y
<1> QED
  BY <1>1, <1>2

IsQuestion(question) ==
  /\ question \in Question /\ IsFiniteSet(question.correct)
  /\ question.negative => question.correct # {}

IsAnswer(answer) == answer \in UserAnswer /\ IsFiniteSet(answer.chosen)

LEMMA PartialBounds ==
  ASSUME NEW question, IsQuestion(question), NEW chosen, IsFiniteSet(chosen), chosen # {}
  PROVE  /\ PartialScore(question, chosen) \in Int
         /\ PartialScore(question, chosen) <= question.points
         /\ ~question.negative => PartialScore(question, chosen) >= 0
<1> DEFINE hits == Cardinality(chosen \cap question.correct)
           misses == Cardinality(chosen \ question.correct)
           size == Cardinality(question.correct)
           p == question.points
<1>1. hits \in Nat /\ misses \in Nat /\ size \in Nat /\ hits <= size
  <2>1. /\ IsFiniteSet(chosen \cap question.correct) /\ IsFiniteSet(chosen \ question.correct)
        /\ IsFiniteSet(question.correct)
    BY FS_Subset DEF IsQuestion
  <2>2. hits <= size
    BY <2>1, FS_Subset
  <2> QED
    BY <2>1, <2>2, FS_CardinalityType
<1>2. p \in Nat /\ question.negative \in BOOLEAN /\ question.partial \in BOOLEAN
  BY DEF IsQuestion, Question
<1>3. (question.negative \/ hits > misses) => size # 0
  <2>1. question.negative => size # 0
    BY FS_EmptySet DEF IsQuestion
  <2>2. hits > misses => size # 0
    BY <1>1
  <2> QED
    BY <2>1, <2>2
<1> HIDE DEF hits, misses, size, p
<1>4. PartialScore(question, chosen) =
        IF ~question.partial \/ hits = misses \/ (~question.negative /\ hits < misses)
        THEN 0 ELSE Round(p * (hits - misses), size)
  BY DEF PartialScore, hits, misses, size, p
<1>5. CASE ~question.partial \/ hits = misses \/ (~question.negative /\ hits < misses)
  BY <1>2, <1>4, <1>5 DEF p
<1>6. CASE ~(~question.partial \/ hits = misses \/ (~question.negative /\ hits < misses))
  <2>1. size \in Nat \ {0} /\ (~question.negative => hits - misses >= 0) /\ hits - misses \in Int
        /\ hits - misses <= size
    BY <1>1, <1>2, <1>3, <1>6
  <2> DEFINE diff == hits - misses
  <2>2. diff \in Int /\ diff <= size /\ (~question.negative => diff >= 0)
    BY <2>1
  <2> HIDE DEF diff
  <2>3. p * diff \in Int /\ p * diff <= p * size /\ (diff >= 0 => p * diff >= 0)
    BY <1>2, <2>1, <2>2
  <2> DEFINE n == p * diff
  <2>4. n \in Int /\ n <= p * size /\ (diff >= 0 => n >= 0)
    BY <2>3
  <2> HIDE DEF n
  <2>5. Round(n, size) \in Int /\ Round(n, size) <= p /\ (n >= 0 => Round(n, size) >= 0)
    BY <1>2, <2>1, <2>4, RoundBounds
  <2> QED
    BY <1>4, <1>6, <2>2, <2>4, <2>5 DEF n, diff, p
<1> QED
  BY <1>5, <1>6

LEMMA PointsBounds ==
  ASSUME NEW question, IsQuestion(question), NEW answer, IsAnswer(answer)
  PROVE  /\ PointsEarned(question, answer) \in Int
         /\ PointsEarned(question, answer) <= question.points
         /\ ~question.negative => PointsEarned(question, answer) >= 0
         /\ IsCorrect(question, answer) => PointsEarned(question, answer) = question.points
<1>1. question.points \in Nat /\ IsCorrect(question, answer) \in BOOLEAN
  BY DEF IsQuestion, Question, IsCorrect
<1>2. CASE IsCorrect(question, answer)
  BY <1>1, <1>2 DEF PointsEarned
<1>3. CASE ~IsCorrect(question, answer) /\ question.type = "multiple" /\ answer.chosen # {}
  <2>1. PointsEarned(question, answer) = PartialScore(question, answer.chosen)
    BY <1>3 DEF PointsEarned
  <2> QED
    BY <1>3, <2>1, PartialBounds DEF IsAnswer
<1>4. CASE ~IsCorrect(question, answer) /\ ~(question.type = "multiple" /\ answer.chosen # {})
  <2>1. PointsEarned(question, answer) = 0
    BY <1>4 DEF PointsEarned
  <2> QED
    BY <1>1, <1>4, <2>1
<1> QED
  BY <1>2, <1>3, <1>4

-----------------------------------------------------------------------------
(* Waits                                                                   *)

LEMMA WrapFits ==
  ASSUME NEW x \in -Word .. Word - 1
  PROVE  Wrap(x) = x
<1>1. Word \in Nat \ {0}
  BY CooldownAssumption
<1>2. x + Word \in 0 .. 2 * Word - 1
  BY <1>1
<1>3. \A y \in Nat, d \in Nat \ {0} : y < d => y % d = y
  OBVIOUS
<1>4. (x + Word) % (2 * Word) = x + Word
  BY <1>1, <1>2, <1>3
<1> QED
  BY <1>1, <1>4 DEF Wrap

Clamped(secs) == (IF secs < 0 THEN 0 ELSE secs) * Second

LEMMA ClampedBounds ==
  ASSUME NEW x \in Int
  PROVE  /\ Clamped(x) \in Nat /\ (x >= 0 => x <= Clamped(x)) /\ (x < 0 => Clamped(x) = 0)
         /\ x >= 0 => Clamped(x) = x * Second
         /\ \A y \in Int : x <= y => Clamped(x) <= Clamped(y)
<1>1. Second \in Nat \ {0}
  BY CooldownAssumption
<1>2. \A y \in Nat : y * Second \in Nat /\ y <= y * Second
  BY <1>1
<1>3. \A y, z \in Nat : y <= z => y * Second <= z * Second
  BY <1>1
<1>4. \A z \in Nat : 0 <= z * Second
  BY <1>1
<1> QED
  BY <1>1, <1>2, <1>3, <1>4 DEF Clamped

\* The cap caps, whatever overflows before it.
LEMMA CapHolds ==
  ASSUME NEW n \in Nat \ {0}, NEW spec \in CooldownSpec,
         spec.strategy = "exponential", spec.max > 0, spec.max * Second < Word,
         NEW w \in ComputeCooldown(n, spec)
  PROVE  w \in 0 .. spec.max * Second
<1> DEFINE x == Grown(n, spec)
<1>1. x \in Int /\ spec.max \in Int
  BY GrownType
<1> HIDE DEF x
<1>2. x \in Int
  BY <1>1
<1>3. PICK secs \in RawSeconds(n, spec) : w = Wrap(Clamped(secs))
  BY DEF ComputeCooldown, Clamped
<1>4. PICK raw \in ToInt(x) : secs = Capped(raw, spec.max)
  BY <1>3 DEF RawSeconds, Exponential, x
<1>5. raw \in Int
  BY <1>2, <1>4, CooldownAssumption DEF ToInt
<1>6. secs \in Int /\ secs <= spec.max
  BY <1>1, <1>4, <1>5 DEF Capped
<1>7. Clamped(secs) \in Nat /\ Clamped(secs) <= Clamped(spec.max) /\ Clamped(spec.max) = spec.max * Second
  BY <1>1, <1>6, ClampedBounds
<1>8. Clamped(secs) \in -Word .. Word - 1
  <2> DEFINE top == spec.max * Second
             c == Clamped(secs)
  <2>1. top < Word /\ c \in Nat /\ c <= top /\ top \in Int
    BY <1>1, <1>7, CooldownAssumption
  <2> HIDE DEF top, c
  <2>2. c \in -Word .. Word - 1
    BY <2>1, CooldownAssumption
  <2> QED
    BY <2>2 DEF c
<1>9. w = Clamped(secs)
  BY <1>3, <1>8, WrapFits
<1> QED
  BY <1>7, <1>9

\* A wait that fits is the capped and clamped one.
Fitting(n, spec) == Uncut(n, spec) * Second \in -Word .. Word - 1

Exact(n, spec) ==
  Clamped(IF spec.strategy = "exponential" THEN Capped(Uncut(n, spec), spec.max) ELSE Uncut(n, spec))

LEMMA UncutType ==
  ASSUME NEW n \in Nat \ {0}, NEW spec \in CooldownSpec
  PROVE  /\ Uncut(n, spec) \in Int /\ spec.base \in Int /\ spec.max \in Int
         /\ spec.strategy \in {"fixed", "linear", "exponential"}
<1>1. /\ Grown(n, spec) \in Int /\ spec.base \in Int /\ spec.max \in Int
      /\ spec.strategy \in {"fixed", "linear", "exponential"}
  BY GrownType
<1>2. spec.base * n \in Int
  BY <1>1
<1> QED
  BY <1>1, <1>2 DEF Uncut

LEMMA FittingIsExact ==
  ASSUME NEW n \in Nat \ {0}, NEW spec \in CooldownSpec, Fitting(n, spec),
         NEW w \in ComputeCooldown(n, spec)
  PROVE  w = Exact(n, spec) /\ w \in Nat
<1> DEFINE u == Uncut(n, spec)
<1>1. /\ u \in Int /\ spec.base \in Int /\ spec.max \in Int
      /\ spec.strategy \in {"fixed", "linear", "exponential"}
  BY UncutType
<1> HIDE DEF u
<1>2. Second \in Nat \ {0} /\ Word \in Nat \ {0}
  BY CooldownAssumption
<1>3. u * Second \in -Word .. Word - 1
  BY DEF Fitting, u
<1>4. u \in -Word .. Word - 1
  <2>1. u >= 0 => u <= u * Second
    BY <1>1, <1>2
  <2>2. u < 0 => u >= u * Second
    BY <1>1, <1>2
  <2>3. u * Second \in Int
    BY <1>1, <1>2
  <2> QED
    BY <1>1, <1>2, <1>3, <2>1, <2>2, <2>3
<1>5. PICK secs \in RawSeconds(n, spec) : w = Wrap(Clamped(secs))
  BY DEF ComputeCooldown, Clamped
<1>6. secs = IF spec.strategy = "exponential" THEN Capped(u, spec.max) ELSE u
  <2>1. CASE spec.strategy = "fixed"
    BY <1>5, <2>1 DEF RawSeconds, Uncut, u
  <2>2. CASE spec.strategy = "linear"
    <3>1. u = spec.base * n
      BY <2>2 DEF Uncut, u
    <3> QED
      BY <1>4, <1>5, <2>2, <3>1, WrapFits DEF RawSeconds
  <2>3. CASE spec.strategy = "exponential"
    <3>1. u = Grown(n, spec)
      BY <2>3 DEF Uncut, u
    <3>2. ToInt(u) = {u}
      BY <1>2, <1>4 DEF ToInt
    <3>3. RawSeconds(n, spec) = {Capped(secs_, spec.max) : secs_ \in ToInt(u)}
      BY <2>3, <3>1 DEF RawSeconds, Exponential
    <3> QED
      BY <1>5, <2>3, <3>2, <3>3
  <2> QED
    BY <1>1, <2>1, <2>2, <2>3
<1>7. secs \in Int /\ secs <= u
  BY <1>1, <1>6 DEF Capped
<1>8. Clamped(secs) \in Nat /\ Clamped(secs) <= Clamped(u) /\ Clamped(u) < Word
  <2>1. Clamped(secs) \in Nat /\ Clamped(secs) <= Clamped(u)
    BY <1>1, <1>7, ClampedBounds
  <2>2. Clamped(u) \in {0, u * Second}
    BY <1>1, ClampedBounds
  <2> QED
    BY <1>2, <1>3, <2>1, <2>2
<1>9. Clamped(secs) \in -Word .. Word - 1
  BY <1>2, <1>8, ClampedBounds, <1>1
<1>10. w = Clamped(secs)
  BY <1>5, <1>9, WrapFits
<1> QED
  BY <1>6, <1>8, <1>10 DEF Exact, u

\* A spec under which waits grow: an exponential multiplies by 1 or more, or
\* has no base.
Growing(spec) ==
  spec.strategy = "exponential" => (spec.multiplier >= Unit \/ spec.base = 0)

LEMMA GrownGrows ==
  ASSUME NEW n \in Nat \ {0}, NEW spec \in CooldownSpec, spec.multiplier >= Unit \/ spec.base = 0
  PROVE  /\ spec.base >= 0 => Grown(n, spec) >= 0 /\ Grown(n, spec) <= Grown(n + 1, spec)
         /\ spec.base < 0 => Grown(n, spec) <= 0 /\ Grown(n + 1, spec) <= Grown(n, spec)
<1> DEFINE b == spec.base
           m == spec.multiplier
           p == Power(m, n - 1)
           d == Power(Unit, n - 1)
<1>1. /\ b \in Int /\ m \in Int /\ p \in Int /\ d \in Nat \ {0} /\ Unit \in Nat \ {0}
  BY GrownType, CooldownAssumption
<1>2. Power(m, n) = m * p /\ Power(Unit, n) = Unit * d
  <2>1. n - 1 \in Nat /\ (n - 1) + 1 = n
    OBVIOUS
  <2>2. m \in Int /\ Unit \in Int
    BY <1>1
  <2>3. Power(m, (n - 1) + 1) = m * p /\ Power(Unit, (n - 1) + 1) = Unit * d
    BY <2>1, <2>2, PowerStep
  <2> HIDE DEF p, d, m
  <2> QED
    BY <2>1, <2>3
<1>3. Grown(n, spec) = Truncated(b * p, d) /\ Grown(n + 1, spec) = Truncated(b * (m * p), Unit * d)
  <2>1. (n + 1) - 1 = n
    OBVIOUS
  <2> QED
    BY <1>2, <2>1 DEF Grown
<1>4. m >= Unit => p \in Nat
  <2> SUFFICES ASSUME m >= Unit PROVE p \in Nat
    OBVIOUS
  <2>1. m \in Nat \ {0} /\ n - 1 \in Nat
    BY <1>1
  <2> QED
    BY <2>1, PowerPositive
<1> HIDE DEF b, p, d, m
<1> DEFINE e == Unit * d
<1>5. e \in Nat \ {0}
  BY <1>1
<1>6. CASE b = 0
  <2>1. b * p = 0 /\ b * (m * p) = 0
    BY <1>1, <1>6
  <2> QED
    BY <1>1, <1>3, <1>5, <1>6, <2>1, TruncatedType DEF b
<1>7. CASE b > 0
  <2> DEFINE a == b * p
  <2>1. m >= Unit /\ p \in Nat /\ m \in Nat
    BY <1>1, <1>4, <1>7 DEF b, m
  <2>2. a \in Nat /\ b * (m * p) = a * m
    BY <1>1, <1>7, <2>1
  <2>3. a * m \in Nat
    BY <2>1, <2>2
  <2> HIDE DEF a
  <2>4. Truncated(a, d) = a \div d /\ Truncated(a * m, e) = (a * m) \div e
    BY <2>2, <2>3 DEF Truncated
  <2>5. a \div d <= (a * m) \div e
    BY <1>1, <2>1, <2>2, QuotientGrows
  <2>6. a \div d \in Nat
    BY <1>1, <2>2
  <2>7. Grown(n, spec) = a \div d /\ Grown(n + 1, spec) = (a * m) \div e
    BY <1>3, <2>2, <2>4 DEF a, e
  <2> DEFINE x == a \div d
             y == (a * m) \div e
  <2> HIDE DEF x, y
  <2>8. x \in Nat /\ x <= y /\ Grown(n, spec) = x /\ Grown(n + 1, spec) = y /\ y \in Int
    BY <1>5, <2>3, <2>5, <2>6, <2>7 DEF x, y
  <2> QED
    BY <1>1, <1>7, <2>8 DEF b
<1>8. CASE b < 0
  <2> DEFINE a == (-b) * p
  <2>1. m >= Unit /\ p \in Nat /\ m \in Nat
    BY <1>1, <1>4, <1>8 DEF b, m
  <2>2. a \in Nat /\ b * p = -a /\ b * (m * p) = -(a * m)
    <3>1. -b \in Nat
      BY <1>1, <1>8
    <3>2. a \in Nat /\ b * p = -a
      BY <1>1, <2>1, <3>1
    <3>3. b * (m * p) = (b * p) * m
      BY <1>1, <2>1
    <3> HIDE DEF a
    <3>4. (-a) * m = -(a * m)
      BY <2>1, <3>2
    <3> QED
      BY <3>2, <3>3, <3>4
  <2>3. a * m \in Nat
    BY <2>1, <2>2
  <2> HIDE DEF a
  <2> DEFINE c == a * m
  <2> HIDE DEF c
  <2>4. Truncated(-a, d) = -(a \div d) /\ Truncated(-c, e) = -(c \div e)
    <3>1. \A x \in Nat, y \in Nat \ {0} : Truncated(-x, y) = -(x \div y)
      <4> SUFFICES ASSUME NEW x \in Nat, NEW y \in Nat \ {0} PROVE Truncated(-x, y) = -(x \div y)
        OBVIOUS
      <4>1. CASE x = 0
        <5>1. \A z \in Nat \ {0} : 0 \div z = 0
          OBVIOUS
        <5> QED
          BY <4>1, <5>1 DEF Truncated
      <4>2. CASE x > 0
        BY <4>2 DEF Truncated
      <4> QED
        BY <4>1, <4>2
    <3> QED
      BY <1>1, <1>5, <2>2, <2>3, <3>1 DEF c
  <2>5. a \div d <= c \div e
    BY <1>1, <2>1, <2>2, QuotientGrows DEF c
  <2>6. a \div d \in Nat /\ c \div e \in Nat
    BY <1>1, <1>5, <2>2, <2>3 DEF c
  <2>7. Grown(n, spec) = -(a \div d) /\ Grown(n + 1, spec) = -(c \div e)
    BY <1>3, <2>2, <2>4 DEF c, e
  <2> DEFINE x == a \div d
             y == c \div e
  <2> HIDE DEF x, y
  <2>8. x \in Nat /\ y \in Nat /\ x <= y /\ Grown(n, spec) = -x /\ Grown(n + 1, spec) = -y
    BY <2>5, <2>6, <2>7 DEF x, y
  <2> QED
    BY <1>1, <1>8, <2>8 DEF b
<1> QED
  BY <1>1, <1>6, <1>7, <1>8

LEMMA UncutGrows ==
  ASSUME NEW n \in Nat \ {0}, NEW spec \in CooldownSpec, Growing(spec)
  PROVE  /\ spec.base >= 0 => Uncut(n, spec) >= 0 /\ Uncut(n, spec) <= Uncut(n + 1, spec)
         /\ spec.base < 0 => Uncut(n, spec) <= 0 /\ Uncut(n + 1, spec) <= Uncut(n, spec)
<1> DEFINE b == spec.base
<1>1. b \in Int /\ spec.strategy \in {"fixed", "linear", "exponential"}
  BY UncutType
<1> HIDE DEF b
<1>4. CASE spec.strategy = "fixed"
  BY <1>1, <1>4 DEF Uncut, b
<1>5. CASE spec.strategy = "linear"
  <2>1. Uncut(n, spec) = b * n /\ Uncut(n + 1, spec) = b * (n + 1)
    BY <1>5 DEF Uncut, b
  <2>2. b * (n + 1) = b * n + b /\ b * n \in Int
    BY <1>1
  <2>3. (b >= 0 => b * n >= 0) /\ (b < 0 => b * n <= 0)
    BY <1>1
  <2> QED
    BY <1>1, <2>1, <2>2, <2>3 DEF b
<1>6. CASE spec.strategy = "exponential"
  <2>1. Uncut(n, spec) = Grown(n, spec) /\ Uncut(n + 1, spec) = Grown(n + 1, spec)
    BY <1>6 DEF Uncut
  <2>2. spec.multiplier >= Unit \/ spec.base = 0
    BY <1>6 DEF Growing
  <2> QED
    BY <2>1, <2>2, GrownGrows
<1> QED
  BY <1>1, <1>4, <1>5, <1>6

\* One more wrong answer never shortens a wait that fits.
LEMMA WaitGrows ==
  ASSUME NEW n \in Nat \ {0}, NEW spec \in CooldownSpec, Growing(spec), Fitting(n + 1, spec),
         NEW v \in {0} \cup ComputeCooldown(n, spec), NEW w \in ComputeCooldown(n + 1, spec)
  PROVE  w >= v
<1> DEFINE u1 == Uncut(n, spec)
           u2 == Uncut(n + 1, spec)
<1>1. n + 1 \in Nat \ {0}
  OBVIOUS
<1>2. u1 \in Int /\ u2 \in Int /\ spec.base \in Int /\ spec.max \in Int
  BY <1>1, UncutType
<1>3. Second \in Nat \ {0} /\ Word \in Nat \ {0}
  BY CooldownAssumption
<1>4. /\ spec.base >= 0 => u1 >= 0 /\ u1 <= u2
      /\ spec.base < 0 => u1 <= 0 /\ u2 <= u1
  BY UncutGrows
<1>5. u2 * Second \in -Word .. Word - 1
  BY DEF Fitting
<1> HIDE DEF u1, u2
<1>6. u1 * Second \in -Word .. Word - 1
  <2>1. u1 * Second \in Int /\ u2 * Second \in Int
    BY <1>2, <1>3
  <2>2. u1 <= u2 => u1 * Second <= u2 * Second
    BY <1>2, <1>3
  <2>3. u2 <= u1 => u2 * Second <= u1 * Second
    BY <1>2, <1>3
  <2>4. (u1 >= 0 => u1 * Second >= 0) /\ (u1 <= 0 => u1 * Second <= 0)
    BY <1>2, <1>3
  <2> QED
    BY <1>2, <1>3, <1>4, <1>5, <2>1, <2>2, <2>3, <2>4
<1>7. Fitting(n, spec)
  BY <1>6 DEF Fitting, u1
<1>8. w = Exact(n + 1, spec) /\ w \in Nat
  BY <1>1, FittingIsExact
<1>9. CASE v = 0
  BY <1>8, <1>9
<1>10. CASE v \in ComputeCooldown(n, spec)
  <2>1. v = Exact(n, spec)
    BY <1>7, <1>10, FittingIsExact
  <2>2. CASE u1 <= u2
    <3>1. Capped(u1, spec.max) \in Int /\ Capped(u2, spec.max) \in Int
          /\ Capped(u1, spec.max) <= Capped(u2, spec.max)
      BY <1>2, <2>2 DEF Capped
    <3> QED
      BY <1>2, <1>8, <2>1, <2>2, <3>1, ClampedBounds DEF Exact, u1, u2
  <2>3. CASE ~(u1 <= u2)
    <3>1. u1 <= 0 /\ u2 <= 0
      BY <1>2, <1>4, <2>3
    <3>2. Capped(u1, spec.max) = u1
      BY <1>2, <3>1 DEF Capped
    <3>3. v = Clamped(u1)
      BY <2>1, <3>2 DEF Exact, u1
    <3>4. Clamped(u1) = 0
      <4>1. 0 * Second = 0
        BY <1>3
      <4>2. u1 = 0 \/ u1 < 0
        BY <1>2, <3>1
      <4> QED
        BY <1>2, <4>1, <4>2, ClampedBounds
    <3> QED
      BY <1>8, <3>3, <3>4
  <2> QED
    BY <2>2, <2>3
<1> QED
  BY <1>9, <1>10

-----------------------------------------------------------------------------
(* The rules of a quiz                                                     *)

LEMMA RulesConverted ==
  ASSUME NEW raw, IsRules(raw)
  PROVE  /\ IsRules(ToQuiz(raw))
         /\ DOMAIN ToQuiz(raw).questions = DOMAIN raw.questions
         /\ ToQuiz(raw).cooldown = raw.cooldown
<1> DEFINE qs == [id \in DOMAIN raw.questions |-> ConvertQuestion(raw.questions[id])]
           q == ToQuiz(raw)
<1>1. /\ DOMAIN raw = {"questions", "passing", "cooldown", "limit", "lock"}
      /\ IsFiniteSet(DOMAIN raw.questions)
      /\ raw.passing \in Nat /\ raw.limit \in Nat /\ raw.lock \in BOOLEAN /\ raw.cooldown \in CooldownSpec
  BY DEF IsRules
<1>2. q = [raw EXCEPT !.questions = qs]
  BY DEF ToQuiz
<1>3. \A id \in DOMAIN qs :
        /\ qs[id] \in Question /\ IsFiniteSet(qs[id].correct)
        /\ qs[id].negative => qs[id].correct # {}
  <2> SUFFICES ASSUME NEW id \in DOMAIN raw.questions
               PROVE  LET c == ConvertQuestion(raw.questions[id]) IN
                        /\ c \in Question /\ IsFiniteSet(c.correct)
                        /\ c.negative => c.correct # {}
    OBVIOUS
  <2> DEFINE x == raw.questions[id]
             c == ConvertQuestion(x)
  <2>1. x \in Question /\ IsFiniteSet(x.correct) /\ (x.negative => x.correct # {})
    BY DEF IsRules
  <2> HIDE DEF x
  <2>2. c = [x EXCEPT !.points = IF @ = 0 THEN 1 ELSE @]
    BY DEF ConvertQuestion
  <2>3. c \in Question
    BY <2>1, <2>2 DEF Question
  <2>4. c.correct = x.correct /\ c.negative = x.negative
    BY <2>1, <2>2 DEF Question
  <2> QED
    BY <2>1, <2>3, <2>4 DEF x
<1> HIDE DEF qs
<1>4. /\ DOMAIN q = DOMAIN raw /\ q.questions = qs
      /\ q.passing = raw.passing /\ q.limit = raw.limit /\ q.lock = raw.lock /\ q.cooldown = raw.cooldown
  BY <1>1, <1>2
<1>5. DOMAIN qs = DOMAIN raw.questions
  BY DEF qs
<1> HIDE DEF q
<1>6. IsRules(q)
  BY <1>1, <1>3, <1>4, <1>5 DEF IsRules
<1> QED
  BY <1>4, <1>5, <1>6 DEF q

\* A stored cooldown names a multiplier, or none was given at all.
Named(spec) == spec.multiplier = 0 => spec.base = 0

LEMMA DefaultsNamed ==
  ASSUME NEW spec \in CooldownSpec
  PROVE  CooldownDefaults(spec, NoCooldown) \in CooldownSpec /\ Named(CooldownDefaults(spec, NoCooldown))
<1>1. CASE spec = NoCooldown
  BY <1>1 DEF CooldownDefaults, NoCooldown, Named
<1>2. CASE spec # NoCooldown
  <2> DEFINE b == IF spec.base = 0 THEN BaseDefault ELSE spec.base
             m == IF spec.multiplier = 0 THEN Unit ELSE spec.multiplier
  <2>1. b \in Int /\ m \in Int /\ m # 0
    BY QuizAssumption, CooldownAssumption DEF CooldownSpec
  <2>2. CooldownDefaults(spec, NoCooldown) = [spec EXCEPT !.base = b, !.multiplier = m]
    BY <1>2 DEF CooldownDefaults
  <2> HIDE DEF b, m
  <2>3. [spec EXCEPT !.base = b, !.multiplier = m] \in CooldownSpec
    BY <2>1 DEF CooldownSpec
  <2>4. [spec EXCEPT !.base = b, !.multiplier = m].multiplier = m
    BY DEF CooldownSpec
  <2> QED
    BY <2>1, <2>2, <2>3, <2>4 DEF Named
<1> QED
  BY <1>1, <1>2

LEMMA ModuleStored ==
  ASSUME NEW m \in Modules
  PROVE  LET stored == StoredModule(m) IN
           /\ stored.hosted = m.hosted
           /\ IsRules(stored.rules) /\ DOMAIN stored.rules.questions = DOMAIN m.rules.questions
           /\ Named(stored.rules.cooldown)
<1> DEFINE q == ToQuiz(m.rules)
           c == CooldownDefaults(q.cooldown, NoCooldown)
           r == [q EXCEPT !.cooldown = c]
           stored == StoredModule(m)
<1>1. DOMAIN m = {"hosted", "rules"} /\ IsRules(m.rules)
  BY QuizAssumption
<1>2. IsRules(q) /\ DOMAIN q.questions = DOMAIN m.rules.questions
  BY <1>1, RulesConverted
<1>3. stored = [m EXCEPT !.rules = r]
  BY DEF StoredModule, StoredRules
<1> HIDE DEF q
<1>4. c \in CooldownSpec /\ Named(c)
  BY <1>2, DefaultsNamed DEF IsRules
<1> HIDE DEF c
<1>5. /\ DOMAIN r = DOMAIN q /\ r.questions = q.questions /\ r.cooldown = c
      /\ r.passing = q.passing /\ r.limit = q.limit /\ r.lock = q.lock
  BY <1>2 DEF IsRules
<1> HIDE DEF r
<1>6. IsRules(r)
  BY <1>2, <1>4, <1>5 DEF IsRules
<1>7. stored.hosted = m.hosted /\ stored.rules = r
  BY <1>1, <1>3
<1> QED
  BY <1>2, <1>4, <1>5, <1>6, <1>7

\* Types.
QuizTypes ==
  /\ \E m \in Modules : module = StoredModule(m)
  /\ document \in Documents
  /\ clone \in Documents \cup {NoClone}
  /\ attempts \in [QuestionIds -> Nat]
  /\ wait \in [QuestionIds -> Int]
  /\ cooling \subseteq QuestionIds
  /\ edits \in 0..MaxEdits
  /\ fresh \in BOOLEAN

LEMMA ContentType == QuizTypes => Content \in Documents
  BY DEF QuizTypes, Content

\* Fetching changes no document a request gets.
LEMMA FetchKeeps ==
  ASSUME QuizTypes, FetchQuizContent, document' = document
  PROVE  Content' = Content /\ clone' \in Documents \cup {NoClone}
<1>1. Content \in Documents
  BY ContentType
<1> QED
  BY <1>1 DEF FetchQuizContent, Content, QuizTypes

\* The limit and the lock apart, a submission is judged by what is shown.
LEMMA SubmitRulesShown ==
  ASSUME QuizTypes
  PROVE  /\ IsRules(SubmitRules) /\ DOMAIN SubmitRules.questions \subseteq QuestionIds
         /\ SubmitRules.questions = ShownRules.questions
         /\ SubmitRules.passing = ShownRules.passing
         /\ SubmitRules.cooldown = ShownRules.cooldown
         /\ ~module.hosted => SubmitRules = ShownRules /\ Named(SubmitRules.cooldown)
<1>1. PICK m \in Modules : module = StoredModule(m)
  BY DEF QuizTypes
<1>2. /\ module.hosted \in BOOLEAN
      /\ IsRules(module.rules) /\ DOMAIN module.rules.questions = DOMAIN m.rules.questions
      /\ Named(module.rules.cooldown)
  BY <1>1, ModuleStored, QuizAssumption
<1>3. DOMAIN m.rules.questions \subseteq QuestionIds
  BY Zenon DEF QuestionIds
<1>4. CASE ~module.hosted
  BY <1>2, <1>3, <1>4 DEF SubmitRules, ShownRules
<1>5. CASE module.hosted
  <2> DEFINE q == ToQuiz(Content)
             r == [q EXCEPT !.limit = module.rules.limit, !.lock = module.rules.lock]
  <2>1. SubmitRules = r /\ ShownRules = q
    BY <1>5 DEF SubmitRules, ShownRules
  <2>2. Content \in Documents /\ IsRules(Content)
    BY QuizAssumption, ContentType
  <2>3. IsRules(q) /\ DOMAIN q.questions = DOMAIN Content.questions
    BY <2>2, RulesConverted
  <2>4. DOMAIN Content.questions \subseteq QuestionIds
    BY <2>2, Zenon DEF QuestionIds
  <2> HIDE DEF q
  <2>5. /\ DOMAIN r = DOMAIN q /\ r.questions = q.questions /\ r.cooldown = q.cooldown
        /\ r.passing = q.passing /\ r.limit = module.rules.limit /\ r.lock = module.rules.lock
    BY <2>3 DEF IsRules
  <2> HIDE DEF r
  <2>6. IsRules(r)
    BY <1>2, <2>3, <2>5 DEF IsRules
  <2> QED
    BY <1>5, <2>1, <2>3, <2>4, <2>5, <2>6
<1> QED
  BY <1>2, <1>4, <1>5

-----------------------------------------------------------------------------
(* Scores are fair                                                         *)

Points(questions, answers) == [id \in DOMAIN questions |-> PointsEarned(questions[id], answers[id])]
FullPoints(questions) == [id \in DOMAIN questions |-> questions[id].points]

IsQuiz(questions) ==
  IsFiniteSet(DOMAIN questions) /\ \A id \in DOMAIN questions : IsQuestion(questions[id])

LEMMA TotalsAreSums ==
  ASSUME NEW questions, NEW answers
  PROVE  /\ TotalScore(questions, answers) = SumFunctionOnSet(Points(questions, answers), DOMAIN questions)
         /\ MaxScore(questions) = SumFunctionOnSet(FullPoints(questions), DOMAIN questions)
<1>1. DOMAIN Points(questions, answers) = DOMAIN questions /\ DOMAIN FullPoints(questions) = DOMAIN questions
  BY DEF Points, FullPoints
<1>2. /\ TotalScore(questions, answers) = SumFunction(Points(questions, answers))
      /\ MaxScore(questions) = SumFunction(FullPoints(questions))
  BY DEF TotalScore, MaxScore, Points, FullPoints
<1> QED
  BY <1>1, <1>2 DEF SumFunction

LEMMA TotalBounds ==
  ASSUME NEW questions, IsQuiz(questions), NEW answers,
         \A id \in DOMAIN questions : IsAnswer(answers[id])
  PROVE  /\ TotalScore(questions, answers) \in Int /\ MaxScore(questions) \in Nat
         /\ TotalScore(questions, answers) <= MaxScore(questions)
         /\ (\A id \in DOMAIN questions : ~questions[id].negative) => TotalScore(questions, answers) >= 0
         /\ (\A id \in DOMAIN questions : IsCorrect(questions[id], answers[id])) =>
              TotalScore(questions, answers) = MaxScore(questions)
<1> DEFINE S == DOMAIN questions
           f == Points(questions, answers)
           g == FullPoints(questions)
           z == [id \in S |-> 0]
<1>1. IsFiniteSet(S)
  BY DEF IsQuiz
<1>2. \A id \in S :
        /\ f[id] = PointsEarned(questions[id], answers[id]) /\ g[id] = questions[id].points
        /\ f[id] \in Int /\ g[id] \in Nat /\ f[id] <= g[id]
        /\ ~questions[id].negative => f[id] >= 0
        /\ IsCorrect(questions[id], answers[id]) => f[id] = g[id]
  <2> SUFFICES ASSUME NEW id \in S
               PROVE  /\ PointsEarned(questions[id], answers[id]) \in Int /\ questions[id].points \in Nat
                      /\ PointsEarned(questions[id], answers[id]) <= questions[id].points
                      /\ ~questions[id].negative => PointsEarned(questions[id], answers[id]) >= 0
                      /\ IsCorrect(questions[id], answers[id]) =>
                           PointsEarned(questions[id], answers[id]) = questions[id].points
    BY DEF Points, FullPoints
  <2>1. IsQuestion(questions[id]) /\ IsAnswer(answers[id])
    BY DEF IsQuiz
  <2>2. questions[id].points \in Nat
    BY <2>1 DEF IsQuestion, Question
  <2> QED
    BY <2>1, <2>2, PointsBounds
<1>3. f \in [S -> Int] /\ g \in [S -> Int] /\ z \in [S -> Int]
  <2>1. f \in [S -> Int]
    BY <1>2 DEF Points
  <2>2. g \in [S -> Int]
    BY <1>2 DEF FullPoints
  <2> QED
    BY <2>1, <2>2
<1>4. (\A id \in S : IsCorrect(questions[id], answers[id])) => f = g
  <2> SUFFICES ASSUME \A id \in S : IsCorrect(questions[id], answers[id]) PROVE f = g
    OBVIOUS
  <2>1. \A id \in S : f[id] = g[id]
    BY <1>2
  <2> HIDE DEF f, g, S
  <2> QED
    BY <1>3, <2>1
<1> HIDE DEF f, g, z
<1>5. SumFunctionOnSet(f, S) \in Int /\ SumFunctionOnSet(f, S) <= SumFunctionOnSet(g, S)
  BY <1>1, <1>2, <1>3, SumGrows
<1>6. \A id \in S : z[id] = 0
  BY DEF z
<1>7. SumFunctionOnSet(g, S) \in Int /\ SumFunctionOnSet(z, S) = 0 /\ SumFunctionOnSet(z, S) <= SumFunctionOnSet(g, S)
  <2>1. \A id \in S : g[id] <= g[id] /\ z[id] <= g[id]
    BY <1>2, <1>3, <1>6
  <2> QED
    BY <1>1, <1>3, <1>6, <2>1, SumGrows
<1>8. (\A id \in S : ~questions[id].negative) => SumFunctionOnSet(z, S) <= SumFunctionOnSet(f, S)
  <2> SUFFICES ASSUME \A id \in S : ~questions[id].negative
               PROVE  SumFunctionOnSet(z, S) <= SumFunctionOnSet(f, S)
    OBVIOUS
  <2>1. \A id \in S : z[id] <= f[id]
    BY <1>2, <1>6
  <2> QED
    BY <1>1, <1>3, <2>1, SumGrows
<1>9. TotalScore(questions, answers) = SumFunctionOnSet(f, S) /\ MaxScore(questions) = SumFunctionOnSet(g, S)
  BY TotalsAreSums DEF f, g
<1> HIDE DEF S
<1>10. SumFunctionOnSet(g, S) \in Nat
  BY <1>7
<1>11. (\A id \in S : ~questions[id].negative) => SumFunctionOnSet(f, S) >= 0
  BY <1>5, <1>7, <1>8
<1> QED
  BY <1>4, <1>5, <1>9, <1>10, <1>11 DEF S

\* A right answer in the place of another earns no less.
LEMMA RightPays ==
  ASSUME NEW questions, IsQuiz(questions), NEW answers, DOMAIN answers = DOMAIN questions,
         \A id \in DOMAIN questions : IsAnswer(answers[id]),
         NEW one \in DOMAIN questions, NEW right, IsAnswer(right), IsCorrect(questions[one], right)
  PROVE  TotalScore(questions, [answers EXCEPT ![one] = right]) >= TotalScore(questions, answers)
<1> DEFINE S == DOMAIN questions
           better == [answers EXCEPT ![one] = right]
           f == Points(questions, answers)
           h == Points(questions, better)
<1>1. IsFiniteSet(S)
  BY DEF IsQuiz
<1>2. better[one] = right /\ \A id \in S \ {one} : better[id] = answers[id]
  OBVIOUS
<1>3. \A id \in S : IsQuestion(questions[id]) /\ IsAnswer(answers[id]) /\ IsAnswer(better[id])
  BY <1>2 DEF IsQuiz
<1> HIDE DEF better
<1>4. \A id \in S : f[id] = PointsEarned(questions[id], answers[id]) /\ h[id] = PointsEarned(questions[id], better[id])
  BY DEF Points
<1>5. \A id \in S : f[id] \in Int /\ h[id] \in Int
  BY <1>3, <1>4, PointsBounds
<1>6. f[one] <= h[one]
  <2>1. f[one] <= questions[one].points /\ h[one] = questions[one].points
    BY <1>2, <1>3, <1>4, PointsBounds
  <2> QED
    BY <2>1
<1>7. \A id \in S : f[id] <= h[id]
  <2>1. \A id \in S \ {one} : f[id] = h[id]
    BY <1>2, <1>4
  <2> QED
    BY <1>5, <1>6, <2>1
<1>8. f \in [S -> Int] /\ h \in [S -> Int]
  BY <1>5 DEF Points
<1> HIDE DEF f, h
<1>9. SumFunctionOnSet(f, S) <= SumFunctionOnSet(h, S) /\ SumFunctionOnSet(f, S) \in Int
  BY <1>1, <1>7, <1>8, SumGrows
<1>10. SumFunctionOnSet(h, S) \in Int
  BY <1>1, <1>5, <1>8, SumGrows
<1>11. /\ TotalScore(questions, answers) = SumFunctionOnSet(f, S)
       /\ TotalScore(questions, better) = SumFunctionOnSet(h, S)
  BY TotalsAreSums DEF f, h
<1> QED
  BY <1>9, <1>10, <1>11 DEF better

LEMMA VerdictFair ==
  ASSUME NEW total \in Int, NEW max \in Nat, NEW passing \in Nat, total <= max,
         NEW passed \in Passed(total, max, passing)
  PROVE  /\ passed => 100 * total >= passing * max
         /\ (max > 0 /\ 100 * total > passing * max) => passed
         /\ (max > 0 /\ passing <= 100 /\ total = max) => passed
<1> DEFINE need == passing * max
<1>1. need \in Nat
  OBVIOUS
<1>2. passing <= 100 => need <= 100 * max
  OBVIOUS
<1>3. max = 0 => need = 0
  OBVIOUS
<1>4. Passed(total, max, passing) =
        IF max = 0 THEN {FALSE}
        ELSE IF 100 * total = need /\ total \notin {0, max} THEN BOOLEAN
        ELSE {100 * total >= need}
  BY <1>3 DEF Passed
<1> HIDE DEF need
<1>5. CASE max = 0
  BY <1>4, <1>5
<1>6. CASE max # 0 /\ 100 * total = need /\ total \notin {0, max}
  <2>1. 100 * total >= need /\ ~(100 * total > need) /\ total # max
    BY <1>1, <1>6
  <2> QED
    BY <2>1 DEF need
<1>7. CASE max # 0 /\ ~(100 * total = need /\ total \notin {0, max})
  <2>1. passed = (100 * total >= need)
    BY <1>4, <1>7
  <2>2. (100 * total > need) => (100 * total >= need)
    BY <1>1
  <2>3. (passing <= 100 /\ total = max) => (100 * total >= need)
    BY <1>1, <1>2
  <2> QED
    BY <2>1, <2>2, <2>3 DEF need
<1> QED
  BY <1>5, <1>6, <1>7

\* The result of a submission to these rules.
Fair(r) ==
  LET qs == r.rules.questions IN
    /\ IsRules(r.rules)
    /\ DOMAIN r.answers = DOMAIN qs /\ \A id \in DOMAIN qs : IsAnswer(r.answers[id])
    /\ r.total = TotalScore(qs, r.answers) /\ r.max = MaxScore(qs)
    /\ r.passed \in Passed(r.total, r.max, r.rules.passing)

LEMMA FairScores ==
  ASSUME Fair(result)
  PROVE  ScoringFair
<1> DEFINE qs == result.rules.questions
           answers == result.answers
<1>1. IsQuiz(qs) /\ result.rules.passing \in Nat
  BY DEF Fair, IsRules, IsQuiz, IsQuestion
<1>2. DOMAIN answers = DOMAIN qs /\ \A id \in DOMAIN qs : IsAnswer(answers[id])
  BY DEF Fair
<1>3. result.total = TotalScore(qs, answers) /\ result.max = MaxScore(qs)
  BY DEF Fair
<1>4. result.passed \in Passed(result.total, result.max, result.rules.passing)
  BY DEF Fair
<1> HIDE DEF qs, answers
<1>5. /\ result.total \in Int /\ result.max \in Nat /\ result.total <= result.max
      /\ (\A id \in DOMAIN qs : ~qs[id].negative) => result.total >= 0
      /\ (\A id \in DOMAIN qs : IsCorrect(qs[id], answers[id])) => result.total = result.max
  BY <1>1, <1>2, <1>3, TotalBounds
<1>6. /\ result.passed => 100 * result.total >= result.rules.passing * result.max
      /\ (result.max > 0 /\ 100 * result.total > result.rules.passing * result.max) => result.passed
      /\ (result.max > 0 /\ result.rules.passing <= 100 /\ result.total = result.max) => result.passed
  BY <1>1, <1>4, <1>5, VerdictFair
<1>7. ASSUME NEW id \in DOMAIN qs, IsCorrect(qs[id], Key(qs)[id])
      PROVE  TotalScore(qs, [answers EXCEPT ![id] = Key(qs)[id]]) >= result.total
  <2>1. Key(qs)[id] = [chosen   |-> IF qs[id].type = "order" THEN {} ELSE qs[id].correct,
                       sequence |-> qs[id].sequence]
    BY DEF Key
  <2>2. qs[id] \in Question /\ IsFiniteSet(qs[id].correct) /\ IsFiniteSet({})
    BY <1>1, FS_EmptySet DEF IsQuiz, IsQuestion
  <2>3. IsAnswer(Key(qs)[id])
    BY <2>1, <2>2 DEF IsAnswer, UserAnswer, Question
  <2> DEFINE right == Key(qs)[id]
  <2>4. IsAnswer(right) /\ IsCorrect(qs[id], right)
    BY <1>7, <2>3
  <2> HIDE DEF right
  <2>5. TotalScore(qs, [answers EXCEPT ![id] = right]) >= TotalScore(qs, answers)
    BY <1>1, <1>2, <2>4, RightPays
  <2> QED
    BY <1>3, <2>5 DEF right
<1> QED
  BY <1>5, <1>6, <1>7 DEF ScoringFair, qs, answers

-----------------------------------------------------------------------------
(* What a submission does                                                  *)

\* The wait of a question is 0 or what its count called for when the question
\* was last in a scored quiz.
WaitsFit ==
  \A id \in QuestionIds :
    (attempts[id] > 0 /\ id \in DOMAIN result.rules.questions) =>
      wait[id] \in {0} \cup ComputeCooldown(attempts[id], result.rules.cooldown)

\* What the page said is what a request gets, unless something was replaced.
ShownCurrent ==
  fresh => shown.rules = ShownRules /\ shown.max \in {0, MaxScore(ShownRules.questions)}

\* A submission was judged fairly.
ResultFair == result # NotSubmitted => Fair(result)

QuizInv == QuizTypes /\ ShownCurrent /\ WaitsFit /\ ResultFair

\* What a wrong answer, a locked one and a right one do to a question.
Judged(id, spec) ==
  \/ /\ attempts'[id] = attempts[id] + 1 /\ id \notin result'.locked
     /\ wait'[id] \in ComputeCooldown(attempts'[id], spec)
  \/ (attempts'[id] = 0 \/ id \in result'.locked) /\ wait'[id] = 0

LEMMA SubmitEffect ==
  ASSUME QuizTypes, Submit
  PROVE  /\ QuizTypes' /\ UNCHANGED <<module, document, shown, fresh>> /\ ShownRules' = ShownRules
         /\ result'.rules = SubmitRules
         /\ Fair(result')
         /\ \A id \in DOMAIN SubmitRules.questions : Judged(id, SubmitRules.cooldown)
<1> DEFINE rules == SubmitRules
           ids == DOMAIN rules.questions
           spec == rules.cooldown
           Locks(wrongs, counted_) == {id \in wrongs : rules.limit > 0 /\ rules.lock /\ counted_[id] >= rules.limit}
<1>1. IsRules(rules) /\ ids \subseteq QuestionIds /\ spec \in CooldownSpec
  BY SubmitRulesShown DEF IsRules
<1>2. PICK answers \in [ids -> Answers] :
        LET total   == TotalScore(rules.questions, answers)
            max     == MaxScore(rules.questions)
            wrongs  == Wrong(rules, answers)
            counts_ == Counted(rules, wrongs)
            locked  == Locks(wrongs, counts_)
            delayed == wrongs \ locked
            Delay(id) == ComputeCooldown(counts_[id], spec)
        IN
          /\ attempts' = counts_
          /\ \E w \in [delayed -> UNION {Delay(id) : id \in delayed}] :
               /\ \A id \in delayed : w[id] \in Delay(id)
               /\ wait' = [id \in QuestionIds |->
                             CASE id \in delayed -> w[id]
                               [] id \in ids \ delayed -> 0
                               [] OTHER -> wait[id]]
               /\ cooling' = cooling \cup {id \in delayed : w[id] > 0}
          /\ \E passed \in Passed(total, max, rules.passing) :
               result' = [rules |-> rules, answers |-> answers, total |-> total,
                          max |-> max, passed |-> passed, locked |-> locked]
  BY Zenon DEF Submit
<1> DEFINE wrongs  == Wrong(rules, answers)
           counts_ == Counted(rules, wrongs)
           locked  == Locks(wrongs, counts_)
           delayed == wrongs \ locked
           total   == TotalScore(rules.questions, answers)
           max     == MaxScore(rules.questions)
<1>3. attempts' = counts_
  BY <1>2
<1>4. PICK w : /\ \A id \in delayed : w[id] \in ComputeCooldown(counts_[id], spec)
               /\ wait' = [id \in QuestionIds |->
                             CASE id \in delayed -> w[id]
                               [] id \in ids \ delayed -> 0
                               [] OTHER -> wait[id]]
               /\ cooling' = cooling \cup {id \in delayed : w[id] > 0}
  BY <1>2, Zenon
<1>5. PICK passed \in Passed(total, max, rules.passing) :
        result' = [rules |-> rules, answers |-> answers, total |-> total,
                   max |-> max, passed |-> passed, locked |-> locked]
  BY <1>2, Zenon
<1>6. UNCHANGED <<module, document, edits, shown, fresh>>
  BY DEF Submit
<1>7. wrongs \subseteq ids /\ locked \subseteq wrongs /\ delayed \subseteq ids
  BY DEF Wrong
<1>8. \A id \in ids : id \in QuestionIds
  BY <1>1
<1> HIDE DEF rules, wrongs, total, max
<1>9. \A id \in QuestionIds :
        attempts'[id] = CASE id \in wrongs -> attempts[id] + 1
                          [] id \in ids \ wrongs -> 0
                          [] OTHER -> attempts[id]
  BY <1>3 DEF Counted
<1>10. attempts' \in [QuestionIds -> Nat]
  <2>1. \A id \in QuestionIds : attempts[id] \in Nat
    BY DEF QuizTypes
  <2>2. \A id \in QuestionIds : attempts'[id] \in Nat
    <3> SUFFICES ASSUME NEW id \in QuestionIds PROVE attempts'[id] \in Nat
      OBVIOUS
    <3>1. CASE id \in wrongs
      BY <1>7, <1>9, <2>1, <3>1
    <3>2. CASE id \in ids \ wrongs
      BY <1>9, <3>2
    <3>3. CASE id \notin ids
      BY <1>7, <1>9, <2>1, <3>3
    <3> QED
      BY <3>1, <3>2, <3>3
  <2>3. attempts' = [id \in QuestionIds |-> attempts'[id]]
    BY <1>3 DEF Counted
  <2> QED
    BY <2>2, <2>3
<1> HIDE DEF counts_, locked
<1>11. \A id \in ids : Judged(id, spec)
  <2> SUFFICES ASSUME NEW id \in ids PROVE Judged(id, spec)
    OBVIOUS
  <2>1. id \in QuestionIds /\ result'.locked = locked
    BY <1>5, <1>8
  <2>2. CASE id \in delayed
    <3>1. id \in wrongs /\ id \notin locked /\ wait'[id] = w[id]
      BY <1>4, <2>1, <2>2
    <3>2. attempts'[id] = attempts[id] + 1
      BY <1>9, <2>1, <3>1
    <3>3. wait'[id] \in ComputeCooldown(attempts'[id], spec)
      BY <1>3, <1>4, <2>2, <3>1
    <3> QED
      BY <2>1, <3>1, <3>2, <3>3 DEF Judged
  <2>3. CASE id \notin delayed
    <3>1. wait'[id] = 0
      BY <1>4, <2>1, <2>3
    <3>2. id \in locked \/ attempts'[id] = 0
      BY <1>7, <1>9, <2>1, <2>3
    <3> QED
      BY <2>1, <3>1, <3>2 DEF Judged
  <2> QED
    BY <2>2, <2>3
<1>12. wait' \in [QuestionIds -> Int] /\ cooling' \subseteq QuestionIds
  <2>1. \A id \in delayed : w[id] \in Int
    <3> SUFFICES ASSUME NEW id \in delayed PROVE w[id] \in Int
      OBVIOUS
    <3>1. id \in QuestionIds /\ id \in wrongs
      BY <1>7, <1>8
    <3>2. counts_[id] \in Nat \ {0}
      <4>1. counts_[id] = attempts[id] + 1 /\ attempts[id] \in Nat
        BY <1>3, <1>9, <3>1 DEF QuizTypes
      <4> QED
        BY <4>1
    <3>3. ComputeCooldown(counts_[id], spec) \subseteq Int
      BY <1>1, <3>2, CooldownType
    <3> QED
      BY <1>4, <3>3
  <2>2. \A id \in QuestionIds : wait'[id] \in Int
    <3> SUFFICES ASSUME NEW id \in QuestionIds PROVE wait'[id] \in Int
      OBVIOUS
    <3>1. CASE id \in delayed
      BY <1>4, <2>1, <3>1
    <3>2. CASE id \in ids \ delayed
      BY <1>4, <3>2
    <3>3. CASE id \notin ids
      BY <1>4, <1>7, <3>3 DEF QuizTypes
    <3> QED
      BY <3>1, <3>2, <3>3
  <2>3. wait' = [id \in QuestionIds |-> wait'[id]]
    BY <1>4
  <2>4. cooling' \subseteq QuestionIds
    BY <1>4, <1>7, <1>8 DEF QuizTypes
  <2> QED
    BY <2>2, <2>3, <2>4
<1>15. FetchQuizContent
  BY DEF Submit
<1>16. Content' = Content /\ clone' \in Documents \cup {NoClone}
  BY <1>6, <1>15, FetchKeeps
<1>17. ShownRules' = ShownRules
  BY <1>6, <1>16 DEF ShownRules
<1>13. QuizTypes'
  BY <1>6, <1>10, <1>12, <1>16 DEF QuizTypes
<1>14. Fair(result')
  <2>1. /\ result'.rules = rules /\ result'.answers = answers /\ result'.total = total
        /\ result'.max = max /\ result'.passed = passed
    BY <1>5
  <2>2. \A id \in ids : IsAnswer(answers[id])
    BY <1>2, QuizAssumption DEF IsAnswer
  <2>3. DOMAIN answers = ids
    BY <1>2
  <2> QED
    BY <1>1, <1>5, <2>1, <2>2, <2>3 DEF Fair, total, max
<1> QED
  BY <1>5, <1>6, <1>11, <1>13, <1>14, <1>17 DEF rules

-----------------------------------------------------------------------------
(* The invariant                                                           *)

LEMMA QuizInitInv == QuizInit => QuizInv
<1> SUFFICES ASSUME QuizInit PROVE QuizInv
  OBVIOUS
<1>1. PICK s \in Starts : module = StoredModule(s[1]) /\ document = s[2]
  BY DEF QuizInit
<1>2. s[1] \in Modules /\ s[2] \in Documents
  BY QuizAssumption
<1>3. QuizTypes
  <2>1. \E m \in Modules : module = StoredModule(m)
    BY <1>1, <1>2
  <2>2. MaxEdits \in Nat
    BY QuizAssumption
  <2>3. /\ attempts \in [QuestionIds -> Nat] /\ wait \in [QuestionIds -> Int]
        /\ cooling \subseteq QuestionIds /\ edits \in 0..MaxEdits /\ fresh \in BOOLEAN
        /\ clone \in Documents \cup {NoClone}
    <3>1. attempts \in [QuestionIds -> Nat] /\ wait \in [QuestionIds -> Int]
      BY DEF QuizInit
    <3>2. edits \in 0..MaxEdits
      BY <2>2 DEF QuizInit
    <3>3. cooling \subseteq QuestionIds /\ fresh \in BOOLEAN /\ clone = NoClone
      BY DEF QuizInit
    <3> QED
      BY <3>1, <3>2, <3>3
  <2> QED
    BY <1>1, <1>2, <2>1, <2>3 DEF QuizTypes
<1>4. ShownCurrent /\ WaitsFit /\ ResultFair
  BY DEF QuizInit, ShownCurrent, WaitsFit, ResultFair
<1> QED
  BY <1>3, <1>4 DEF QuizInv

LEMMA QuizInductive == QuizInv /\ [QuizNext]_quizVars => QuizInv'
<1> SUFFICES ASSUME QuizInv, [QuizNext]_quizVars PROVE QuizInv'
  OBVIOUS
<1> USE DEF QuizInv
<1>1. CASE ShowQuiz \/ ShowInlineQuiz
  <2>1. /\ UNCHANGED <<module, document, edits, attempts, wait, cooling, result>>
        /\ fresh' = TRUE /\ shown'.rules = ShownRules
        /\ shown'.max \in {0, MaxScore(ShownRules.questions)}
    BY <1>1 DEF ShowQuiz, ShowInlineQuiz
  <2>5. FetchQuizContent
    BY <1>1 DEF ShowQuiz, ShowInlineQuiz
  <2>6. Content' = Content /\ clone' \in Documents \cup {NoClone}
    BY <2>1, <2>5, FetchKeeps
  <2>2. ShownRules' = ShownRules
    BY <2>1, <2>6 DEF ShownRules
  <2>3. ShownCurrent'
    BY <2>1, <2>2 DEF ShownCurrent
  <2>4. QuizTypes' /\ WaitsFit' /\ ResultFair'
    BY <2>1, <2>6 DEF QuizTypes, WaitsFit, ResultFair
  <2> QED
    BY <2>3, <2>4
<1>2. CASE Submit
  <2>1. /\ QuizTypes' /\ UNCHANGED <<module, document, shown, fresh>> /\ ShownRules' = ShownRules
        /\ result'.rules = SubmitRules
        /\ Fair(result')
        /\ \A id \in DOMAIN SubmitRules.questions : Judged(id, SubmitRules.cooldown)
    BY <1>2, SubmitEffect
  <2>2. ShownCurrent'
    BY <2>1 DEF ShownCurrent
  <2>3. ResultFair'
    BY <2>1 DEF ResultFair
  <2>4. WaitsFit'
    BY <2>1 DEF WaitsFit, Judged
  <2> QED
    BY <2>1, <2>2, <2>3, <2>4
<1>3. CASE TimePasses
  BY <1>3 DEF TimePasses, QuizTypes, ShownCurrent, ShownRules, Content, WaitsFit, ResultFair
<1>4. CASE SaveModule \/ PushDocument
  <2>1. UNCHANGED <<clone, shown, attempts, wait, cooling, result>> /\ fresh' \in BOOLEAN
    BY <1>4 DEF SaveModule, PushDocument, QuizTypes
  <2>2. \E m \in Modules : module' = StoredModule(m)
    BY <1>4 DEF SaveModule, PushDocument, QuizTypes
  <2>3. document' \in Documents
    BY <1>4 DEF SaveModule, PushDocument, QuizTypes
  <2>4. edits' \in 0..MaxEdits
    <3>1. MaxEdits \in Nat
      BY QuizAssumption
    <3>2. edits > 0 /\ edits' = edits - 1
      BY <1>4 DEF SaveModule, PushDocument
    <3> QED
      BY <3>1, <3>2 DEF QuizTypes
  <2>5. fresh' => fresh /\ ShownRules' = ShownRules
    BY <1>4 DEF SaveModule, PushDocument, ShownRules, Content
  <2>6. ShownCurrent'
    BY <2>1, <2>5 DEF ShownCurrent
  <2> QED
    BY <2>1, <2>2, <2>3, <2>4, <2>6 DEF QuizTypes, WaitsFit, ResultFair
<1>6. CASE DropClone
  <2>1. /\ UNCHANGED <<module, document, edits, shown, attempts, wait, cooling, result>>
        /\ clone' = NoClone /\ clone # NoClone /\ fresh' = (fresh /\ document = clone)
    BY <1>6 DEF DropClone
  <2>2. fresh' \in BOOLEAN
    BY <2>1
  <2>3. fresh' => fresh /\ ShownRules' = ShownRules
    BY <2>1 DEF ShownRules, Content
  <2>4. ShownCurrent'
    BY <2>1, <2>3 DEF ShownCurrent
  <2> QED
    BY <2>1, <2>2, <2>4 DEF QuizTypes, WaitsFit, ResultFair
<1>5. CASE UNCHANGED quizVars
  BY <1>5 DEF quizVars, QuizTypes, ShownCurrent, ShownRules, Content, WaitsFit, ResultFair
<1> QED
  BY <1>1, <1>2, <1>3, <1>4, <1>5, <1>6 DEF QuizNext

\* Only a submission leaves another result.
LEMMA ResultsSubmitted ==
  ASSUME [QuizNext]_quizVars, result' # result
  PROVE  Submit
  BY DEF QuizNext, quizVars, ShowQuiz, ShowInlineQuiz, TimePasses, SaveModule, PushDocument, DropClone

\* The quiz and the learner's record of it keep their types (StoredModule,
\* FetchQuizContent, finalizeSubmission).
THEOREM QuizTypeCorrect == QuizSpec => []QuizTypes
<1>1. QuizInv => QuizTypes
  BY DEF QuizInv
<1> QED
  BY <1>1, QuizInitInv, QuizInductive, PTL DEF QuizSpec

\* Scores stay within their limits, verdicts are the percentage's, and a right
\* answer never costs a point, for any questions, points and answers
\* (ScoreQuiz, partialMultipleChoiceScore).
THEOREM ScoringAlwaysFair == QuizSpec => []ScoringFair
<1>1. QuizInv => ScoringFair
  <2>1. CASE result = NotSubmitted
    BY <2>1 DEF ScoringFair
  <2>2. CASE result # NotSubmitted
    BY <2>2, FairScores DEF QuizInv, ResultFair
  <2> QED
    BY <2>1, <2>2
<1> QED
  BY <1>1, QuizInitInv, QuizInductive, PTL DEF QuizSpec

\* A learner is judged by what the page said, unless the course was saved since
\* or a clone that a push has outdated was given up, the limit and the lock of
\* a git-hosted quiz apart (populateQuizContent, resolveSubmitQuiz,
\* FetchQuizContent).
THEOREM RulesAlwaysApplied == QuizSpec => RulesApplied
<1> DEFINE Applied ==
             (result' # result /\ fresh) =>
               /\ result'.rules.questions = shown.rules.questions
               /\ result'.rules.passing = shown.rules.passing
               /\ result'.rules.cooldown = shown.rules.cooldown
               /\ shown.max \in {0, result'.max}
               /\ ~module.hosted => result'.rules = shown.rules
<1>1. QuizInv /\ [QuizNext]_quizVars => [Applied]_quizVars
  <2> SUFFICES ASSUME QuizInv, [QuizNext]_quizVars, result' # result, fresh PROVE Applied
    OBVIOUS
  <2>1. Submit /\ QuizTypes /\ ShownCurrent
    BY ResultsSubmitted DEF QuizInv
  <2>2. result'.rules = SubmitRules /\ Fair(result')
    BY <2>1, SubmitEffect
  <2>3. result'.max = MaxScore(SubmitRules.questions)
    BY <2>2 DEF Fair
  <2>4. shown.rules = ShownRules /\ shown.max \in {0, MaxScore(ShownRules.questions)}
    BY <2>1 DEF ShownCurrent
  <2> QED
    BY <2>1, <2>2, <2>3, <2>4, SubmitRulesShown
<1> QED
  BY <1>1, QuizInitInv, QuizInductive, PTL DEF QuizSpec, RulesApplied

\* No cap is longer than a Duration can be: 292 years.
CapsFit ==
  \A r \in Documents \cup {StoredModule(m).rules : m \in Modules} : r.cooldown.max * Second < Word

\* Where the caps fit a Duration, no exponential wait exceeds its cap though
\* the product overflows, and one more wrong answer under the same rules never
\* shortens a wait that fits, if an exponential multiplies by 1 or more, or by
\* the default (ComputeCooldown, applyCooldownDefaults).
THEOREM WaitsAlwaysGrow == CapsFit /\ QuizSpec => WaitsGrowToCap
<1> SUFFICES ASSUME CapsFit PROVE QuizSpec => WaitsGrowToCap
  OBVIOUS
<1> DEFINE Growth(id) ==
             LET spec == result'.rules.cooldown
                 n    == attempts'[id]
             IN  (result' # result /\ id \in DOMAIN result'.rules.questions /\ n = attempts[id] + 1) =>
                   /\ (spec.strategy = "exponential" /\ spec.max > 0) => wait'[id] \in 0 .. spec.max * Second
                   /\ (/\ n > 1 /\ result.rules = result'.rules
                       /\ id \notin result'.locked
                       /\ spec.strategy = "exponential" =>
                            (spec.multiplier >= Unit \/ (~module.hosted /\ spec.multiplier = 0))
                       /\ Uncut(n, spec) * Second \in -Word .. Word - 1) => wait'[id] >= wait[id]
<1>1. QuizInv /\ [QuizNext]_quizVars => [\A id \in QuestionIds : Growth(id)]_quizVars
  <2> SUFFICES ASSUME QuizInv, [QuizNext]_quizVars, result' # result, NEW id \in QuestionIds,
                      id \in DOMAIN result'.rules.questions, attempts'[id] = attempts[id] + 1
               PROVE  Growth(id)
    BY Zenon
  <2> DEFINE spec == result'.rules.cooldown
             n == attempts[id]
  <2>1. Submit /\ QuizTypes /\ WaitsFit
    BY ResultsSubmitted DEF QuizInv
  <2>2. result'.rules = SubmitRules /\ Judged(id, spec)
    BY <2>1, SubmitEffect
  <2>3. IsRules(SubmitRules) /\ spec \in CooldownSpec
    BY <2>1, <2>2, SubmitRulesShown DEF IsRules
  <2>4. n \in Nat /\ n + 1 \in Nat \ {0} /\ attempts'[id] = n + 1
    <3>1. n \in Nat
      BY <2>1 DEF QuizTypes
    <3> QED
      BY <3>1
  <2>5. wait'[id] = 0 \/ wait'[id] \in ComputeCooldown(n + 1, spec)
    BY <2>2, <2>4 DEF Judged
  <2>6. id \notin result'.locked => wait'[id] \in ComputeCooldown(n + 1, spec)
    BY <2>2, <2>4 DEF Judged
  <2>7. spec.max * Second < Word
    <3>1. PICK m \in Modules : module = StoredModule(m)
      BY <2>1 DEF QuizTypes
    <3>2. CASE ~module.hosted
      <4>1. spec = StoredModule(m).rules.cooldown
        BY <2>2, <3>1, <3>2 DEF SubmitRules
      <4>2. StoredModule(m).rules \in {StoredModule(x).rules : x \in Modules}
        OBVIOUS
      <4> QED
        BY <4>1, <4>2 DEF CapsFit
    <3>3. CASE module.hosted
      <4>1. Content \in Documents /\ IsRules(Content)
        BY <2>1, QuizAssumption, ContentType
      <4>2. ShownRules.cooldown = Content.cooldown
        BY <3>3, <4>1, RulesConverted DEF ShownRules
      <4>3. spec = Content.cooldown
        BY <2>1, <2>2, <4>2, SubmitRulesShown
      <4> QED
        BY <4>1, <4>3 DEF CapsFit
    <3> QED
      BY <3>2, <3>3
  <2> HIDE DEF spec, n
  <2>8. (spec.strategy = "exponential" /\ spec.max > 0) => wait'[id] \in 0 .. spec.max * Second
    <3> SUFFICES ASSUME spec.strategy = "exponential", spec.max > 0
                 PROVE  wait'[id] \in 0 .. spec.max * Second
      OBVIOUS
    <3>1. CASE wait'[id] = 0
      <4>1. spec.max \in Nat
        BY <2>3 DEF CooldownSpec
      <4>2. spec.max * Second \in Nat
        BY <4>1, CooldownAssumption
      <4> QED
        BY <3>1, <4>2
    <3>2. CASE wait'[id] \in ComputeCooldown(n + 1, spec)
      BY <2>3, <2>4, <2>7, <3>2, CapHolds
    <3> QED
      BY <2>5, <3>1, <3>2
  <2>9. ASSUME n + 1 > 1, result.rules = result'.rules, id \notin result'.locked,
               spec.strategy = "exponential" =>
                 (spec.multiplier >= Unit \/ (~module.hosted /\ spec.multiplier = 0)),
               Fitting(n + 1, spec)
        PROVE  wait'[id] >= wait[id]
    <3>1. n \in Nat \ {0}
      BY <2>4, <2>9
    <3>2. wait[id] \in {0} \cup ComputeCooldown(n, spec)
      BY <2>1, <2>9, <3>1 DEF WaitsFit, n, spec
    <3>3. Growing(spec)
      BY <2>1, <2>2, <2>9, SubmitRulesShown DEF Growing, Named, spec
    <3> QED
      BY <2>3, <2>6, <2>9, <3>1, <3>2, <3>3, WaitGrows
  <2> QED
    BY <2>4, <2>8, <2>9 DEF Fitting, spec
<1> QED
  BY <1>1, QuizInitInv, QuizInductive, PTL DEF QuizSpec, WaitsGrowToCap

=============================================================================
