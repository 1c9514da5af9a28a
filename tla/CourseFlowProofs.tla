--------------------------- MODULE CourseFlowProofs ---------------------------
(***************************************************************************)
(* What TLAPS proves of CourseFlow, for any catalog, any number of         *)
(* overlapping requests, faults and edits.                                 *)
(*                                                                         *)
(* Inv is inductive.  TypeOK alone is not: an internal call writes with    *)
(* the operation and the score its request holds, so the proof needs that  *)
(* a call only exists when its request holds them (CallsMatch).            *)
(*                                                                         *)
(* The later parts follow a result from its request to its row, a          *)
(* completion back to the list of modules it stands for, a completion on   *)
(* to its awards, a row to the checks its request passed, and the          *)
(* learner's pages back to what was done.                                  *)
(***************************************************************************)
EXTENDS LearnerPages, FiniteSetTheorems, TLAPS

\* A call belongs to a request that has arrived and asks for what the call
\* records; a quiz result has been scored before it travels.
CallsMatch ==
  \A r \in Requests :
    /\ pc[r] = "idle" => op[r] = NoOp /\ \A k \in Kinds : call[r][k] = "none"
    /\ pc[r] # "idle" => op[r] \in Asks
    /\ call[r]["lesson"] # "none" => op[r] \in LessonOps
    /\ call[r]["module"] # "none" =>
         op[r] \in QuizOps /\ scored[r] \in [quiz : Slugs, score : Scores, passed : BOOLEAN]

\* A completion call past its first statement has stored the completion.
SentinelFirst ==
  \A r \in Requests :
    call[r]["complete"] \in {"row", "badge", "xp", "done"} =>
      op[r].course \in CompletedCourses

-----------------------------------------------------------------------------
(* Facts about the building blocks of the actions                          *)

\* A request that has arrived names a known course.
LEMMA OpTypes ==
  ASSUME TypeOK, CallsMatch, NEW r \in Requests, pc[r] # "idle"
  PROVE  op[r] \in Asks /\ op[r].course \in Courses
  BY FlowAssumption DEF CallsMatch, LessonOps, QuizOps

LEMMA CallArrived ==
  ASSUME TypeOK, CallsMatch, NEW r \in Requests, NEW k \in Kinds, call[r][k] # "none"
  PROVE  pc[r] # "idle" /\ op[r] \in Asks /\ op[r].course \in Courses
  BY FlowAssumption DEF CallsMatch, LessonOps, QuizOps

LEMMA RecordsFrame ==
  ASSUME RecordsTypeOK, UNCHANGED records
  PROVE  RecordsTypeOK'
  BY DEF RecordsTypeOK, records

LEMMA GotoType ==
  ASSUME TypeOK, NEW r \in Requests, NEW from, NEW to \in PC, Goto(r, from, to)
  PROVE  pc' \in [Requests -> PC]
  BY DEF Goto, TypeOK

LEMMA SendType ==
  ASSUME TypeOK, NEW r \in Requests, NEW k \in Kinds, Send(r, k)
  PROVE  call' \in [Requests -> [Kinds -> Steps]]
  BY DEF Send, TypeOK, Steps

LEMMA AdvanceType ==
  ASSUME TypeOK, NEW r \in Requests, NEW k \in Kinds, NEW from, NEW to \in Steps,
         Advance(r, k, from, to)
  PROVE  call' \in [Requests -> [Kinds -> Steps]]
  BY DEF Advance, TypeOK

LEMMA FaultType ==
  ASSUME TypeOK, Fault
  PROVE  faults' \in 0..MaxFaults
  BY FlowAssumption DEF Fault, TypeOK

LEMMA EditType ==
  ASSUME TypeOK, Edit
  PROVE  edits' \in 0..MaxEdits
  BY FlowAssumption DEF Edit, TypeOK

LEMMA NoticedType ==
  ASSUME TypeOK, NEW c, Noticed(c)
  PROVE  member' \in [Requests -> BOOLEAN]
<1>1. \A r \in Requests : (r \in Deciding(c) \/ member[r]) \in BOOLEAN
  OBVIOUS
<1> QED
  BY Zenon, <1>1 DEF Noticed

\* The queries return slugs of the course's modules.
LEMMA PassedModulesType ==
  ASSUME RecordsTypeOK, NEW c \in Courses
  PROVE  PassedModules(c) \subseteq Slugs
<1> SUFFICES ASSUME NEW p \in Attempts(c), modules[<<c, p>>].passed
             PROVE  modules[<<c, p>>].slug \in Slugs
  BY DEF PassedModules
<1>1. modules[<<c, p>>] \in ModuleRow
  BY DEF Attempts, RecordsTypeOK
<1> QED
  BY <1>1 DEF ModuleRow

LEMMA VisibleType ==
  ASSUME NEW c \in Courses, NEW list \in Versions[c], NEW fetched \in BOOLEAN
  PROVE  VisibleModules(list, fetched) \in Listing
<1> DEFINE kept == {i \in DOMAIN list : /\ IsAdmin \/ ~list[i].hidden
                                        /\ fetched \/ ~list[i].remote}
<1>1. list \in Seq(Module) /\ DOMAIN list \subseteq Positions
  BY FlowAssumption
<1>2. kept \in SUBSET Positions /\ \A i \in kept : list[i] \in Module
  BY <1>1
<1>3. VisibleModules(list, fetched) = [i \in kept |-> list[i]]
  BY DEF VisibleModules, Restrict
<1> HIDE DEF kept
<1>4. VisibleModules(list, fetched) \in [kept -> Module]
  BY <1>2, <1>3
<1> QED
  BY <1>2, <1>4 DEF Listing

\* The upsert of an attempt gives a row.
LEMMA AttemptedType ==
  ASSUME NEW row \in ModuleRow \cup {NoRow}, NEW slug \in Slugs, NEW score \in Scores,
         NEW passed \in BOOLEAN
  PROVE  Attempted(row, slug, score, passed) \in ModuleRow
<1>1. CASE row = NoRow
  BY <1>1 DEF Attempted, ModuleRow
<1>2. CASE row # NoRow
  <2>1. row \in ModuleRow
    BY <1>2
  <2>2. (row.passed \/ passed) \in BOOLEAN
    OBVIOUS
  <2>3. (IF score > row.best THEN score ELSE row.best) \in Scores
    BY <2>1 DEF ModuleRow
  <2> QED
    <3> DEFINE best == IF score > row.best THEN score ELSE row.best
               or == row.passed \/ passed
               more == row.attempts + 1
    <3>1. Attempted(row, slug, score, passed) =
            [row EXCEPT !.attempts = more, !.best = best, !.passed = or]
      BY <1>2 DEF Attempted
    <3>2. best \in Scores /\ or \in BOOLEAN
      BY <2>2, <2>3
    <3>3. more \in Nat \ {0}
      BY <2>1 DEF ModuleRow
    <3> HIDE DEF best, or, more
    <3> QED
      BY <2>1, <3>1, <3>2, <3>3 DEF ModuleRow
<1> QED
  BY <1>1, <1>2

\* The upsert of a completion gives a skill row, counts one more, never lowers
\* the level and reaches at least the difficulty of the course.
LEMMA PromotedFacts ==
  ASSUME NEW row \in SkillRow, NEW d \in 0..3, NEW total \in Nat
  PROVE  /\ Promoted(row, d, total) \in SkillRow
         /\ Promoted(row, d, total).completed = row.completed + 1
         /\ Promoted(row, d, total).level >= row.level
         /\ Promoted(row, d, total).level >= d
         /\ (total > 0 /\ row.completed + 1 >= total) => Promoted(row, d, total).level = Maitre
         /\ Promoted(row, d, total).total = total
  BY DEF Promoted, SkillRow, Maitre

LEMMA SkillTotalType == ASSUME NEW s \in Skills PROVE SkillTotal(s) \in Nat
  BY RecordsAssumption, FS_Subset, FS_CardinalityType DEF SkillTotal

LEMMA UpsertSkillsType ==
  ASSUME RecordsTypeOK, NEW c \in Courses, NEW totals \in [Skills -> Nat],
         UpsertSkills(c, totals)
  PROVE  levels' \in [Skills -> SkillRow]
  BY PromotedFacts, RecordsAssumption DEF RecordsTypeOK, UpsertSkills

-----------------------------------------------------------------------------
(* The steps of a request, then the steps of the endpoints, keep the types. *)

LEMMA RequestStepTypes ==
  ASSUME TypeOK, CallsMatch, NEW r \in Requests
  PROVE  (Start(r) \/ Serve(r) \/ OverviewFails(r) \/ SummariesFail(r) \/ GiveUp(r)) => TypeOK'
<1>1. CASE Start(r)
  <2>1. PICK o \in Asks, fetched \in BOOLEAN :
          /\ op' = [op EXCEPT ![r] = o]
          /\ shown' = [shown EXCEPT ![r] = VisibleModules(listing[o.course], fetched)]
          /\ member' = [member EXCEPT ![r] = o.course \in enrolled]
    BY <1>1 DEF Start
  <2>2. VisibleModules(listing[o.course], fetched) \in Listing
    BY VisibleType, FlowAssumption DEF TypeOK, Listings, LessonOps, QuizOps
  <2>3. member' \in [Requests -> BOOLEAN]
    <3> DEFINE b == o.course \in enrolled
    <3>1. b \in BOOLEAN /\ member' = [member EXCEPT ![r] = b]
      BY <2>1
    <3> HIDE DEF b
    <3> QED
      BY <3>1 DEF TypeOK
  <2> QED
    BY <1>1, <2>1, <2>2, <2>3, RecordsFrame, GotoType DEF Start, TypeOK, PC
<1>2. CASE ReadViewed(r)
  BY ZenonT(60), <1>2, RecordsFrame, GotoType, SendType, FaultType
     DEF ReadViewed, TypeOK, PC, Finished, View, EmptyView, Kinds, ViewedSlugs
<1>3. CASE ReadModules(r)
  <2>1. PassedModules(op[r].course) \subseteq Slugs
    BY <1>3, OpTypes, PassedModulesType DEF ReadModules, Goto, TypeOK
  <2>2. view' \in [Requests -> View]
    BY ZenonT(60), <1>3, <2>1 DEF ReadModules, TypeOK, View
  <2> QED
    BY <1>3, <2>2, RecordsFrame, GotoType DEF ReadModules, TypeOK, PC
<1>4. CASE ReadEnrolled(r)
  <2>1. (op[r].course \in enrolled) \in BOOLEAN
    OBVIOUS
  <2>2. view' \in [Requests -> View]
    BY ZenonT(60), <1>4, <2>1 DEF ReadEnrolled, TypeOK, View
  <2> QED
    BY <1>4, <2>2, RecordsFrame, GotoType DEF ReadEnrolled, TypeOK, PC
<1>5. CASE OverviewFails(r)
  BY <1>5, RecordsFrame, GotoType, SendType, FaultType
     DEF OverviewFails, TypeOK, PC, Finished, View, EmptyView, Kinds, ViewedSlugs
<1>6. CASE EnsureAccess(r)
  BY <1>6, RecordsFrame, GotoType, SendType, FaultType
     DEF EnsureAccess, TypeOK, PC, Finished, View, EmptyView, Kinds, ViewedSlugs
<1>7. CASE ReadPrereqViewed(r)
  <2> DEFINE Begun == {p.course : p \in {q \in Prereqs[op[r].course] : ViewedSlugs(q.course) # {}}}
  <2>1. Prereqs[op[r].course] \subseteq Prereq
    BY <1>7, OpTypes, FlowAssumption DEF ReadPrereqViewed, Goto
  <2>2. Begun \subseteq Courses
    BY <2>1 DEF Prereq
  <2>3. view' = [view EXCEPT ![r].begun = Begun]
    BY <1>7 DEF ReadPrereqViewed
  <2> HIDE DEF Begun
  <2>4. view' \in [Requests -> View]
    BY ZenonT(60), <2>2, <2>3 DEF TypeOK, View
  <2> QED
    BY <1>7, <2>4, RecordsFrame, GotoType DEF ReadPrereqViewed, TypeOK, PC
<1>8. CASE CheckPrereqs(r)
  BY <1>8, RecordsFrame, GotoType, SendType, FaultType
     DEF CheckPrereqs, TypeOK, PC, Finished, View, EmptyView, Kinds, ViewedSlugs
<1>9. CASE SummariesFail(r)
  BY <1>9, RecordsFrame, GotoType, SendType, FaultType
     DEF SummariesFail, TypeOK, PC, Finished, View, EmptyView, Kinds, ViewedSlugs
<1>10. CASE PostLesson(r)
  BY <1>10, RecordsFrame, GotoType, SendType, FaultType
     DEF PostLesson, TypeOK, PC, Finished, View, EmptyView, Kinds, ViewedSlugs
<1>11. CASE LessonPosted(r)
  BY <1>11, RecordsFrame, GotoType, SendType, FaultType
     DEF LessonPosted, TypeOK, PC, Finished, View, EmptyView, Kinds, ViewedSlugs
<1>12. CASE LessonRefused(r)
  BY <1>12, RecordsFrame, GotoType, SendType, FaultType
     DEF LessonRefused, TypeOK, PC, Finished, View, EmptyView, Kinds, ViewedSlugs
<1>13. CASE RefuseSubmission(r)
  BY <1>13, RecordsFrame, GotoType, SendType, FaultType
     DEF RefuseSubmission, TypeOK, PC, Finished, View, EmptyView, Kinds, ViewedSlugs
<1>14. CASE ScoreSubmission(r)
  <2>1. PICK i \in DOMAIN shown[r], score \in Scores :
          LET complete == score >= PassScore /\ CourseCompleted(r, {shown[r][i].slug}, {})
          IN  /\ scored' = [scored EXCEPT ![r] = [quiz |-> shown[r][i].slug, score |-> score,
                                                  passed |-> score >= PassScore]]
              /\ Goto(r, "act", IF complete THEN "notifying" ELSE "ok")
              /\ call' = [call EXCEPT ![r]["module"] = "sent",
                                      ![r]["complete"] = IF complete THEN "sent" ELSE @]
    BY <1>14 DEF ScoreSubmission
  <2>2. shown[r][i].slug \in Slugs
    BY DEF TypeOK, Listing, Module
  <2>3. (score >= PassScore) \in BOOLEAN
    OBVIOUS
  <2>4. scored' \in [Requests -> {NotScored} \cup [quiz : Slugs, score : Scores, passed : BOOLEAN]]
    BY <2>1, <2>2, <2>3 DEF TypeOK
  <2>5. call' \in [Requests -> [Kinds -> Steps]]
    <3> DEFINE sent == [call EXCEPT ![r]["module"] = "sent"]
    <3>1. sent \in [Requests -> [Kinds -> Steps]]
      BY DEF TypeOK, Steps
    <3>2. \/ call' = sent
          \/ call' = [sent EXCEPT ![r]["complete"] = "sent"]
      BY <2>1 DEF TypeOK
    <3> QED
      BY <3>1, <3>2 DEF Steps
  <2>6. pc' \in [Requests -> PC]
    BY <2>1, GotoType DEF PC, Finished
  <2> QED
    BY <1>14, <2>4, <2>5, <2>6, RecordsFrame DEF ScoreSubmission, TypeOK
<1>15. CASE Notified(r)
  BY <1>15, RecordsFrame, GotoType, SendType, FaultType
     DEF Notified, TypeOK, PC, Finished, View, EmptyView, Kinds, ViewedSlugs
<1>16. CASE GiveUp(r)
  BY <1>16, RecordsFrame, GotoType, SendType, FaultType
     DEF GiveUp, TypeOK, PC, Finished, View, EmptyView, Kinds, ViewedSlugs
<1> QED
  BY <1>1, <1>2, <1>3, <1>4, <1>5, <1>6, <1>7, <1>8, <1>9, <1>10, <1>11, <1>12, <1>13,
     <1>14, <1>15, <1>16 DEF Serve

LEMMA EndpointStepTypes ==
  ASSUME TypeOK, CallsMatch, NEW r \in Requests
  PROVE  (Handle(r) \/ StatementSkipped(r) \/ \E k \in Kinds : CallFails(r, k)) => TypeOK'
<1>1. CASE LessonRow(r)
  <2>1. op[r].course \in Courses /\ (call[r]["lesson"] # "none" => op[r] \in LessonOps)
                                /\ (call[r]["module"] # "none" => scored[r].quiz \in Slugs)
    BY <1>1, CallArrived DEF LessonRow, Advance, Kinds, CallsMatch
  <2>2. RecordsTypeOK'
    BY <1>1, <2>1 DEF LessonRow, Advance, RecordsTypeOK, TypeOK, MarkComplete, AwardXP,
       AwardBadge, CreateEnrollment, XPKeys, XPSources, LessonOps
  <2> QED
    BY <1>1, <2>2, AdvanceType DEF LessonRow, TypeOK, flow, Kinds, Steps
<1>2. CASE LessonXP(r)
  <2>1. op[r].course \in Courses /\ (call[r]["lesson"] # "none" => op[r] \in LessonOps)
                                /\ (call[r]["module"] # "none" => scored[r].quiz \in Slugs)
    BY <1>2, CallArrived DEF LessonXP, Advance, Kinds, CallsMatch
  <2>2. RecordsTypeOK'
    BY <1>2, <2>1 DEF LessonXP, Advance, RecordsTypeOK, TypeOK, MarkComplete, AwardXP, AwardBadge,
         CreateEnrollment, XPKeys, XPSources, LessonOps
  <2> QED
    BY <1>2, <2>2, AdvanceType DEF LessonXP, TypeOK, flow, Kinds, Steps
<1>3. CASE ModuleRowWritten(r)
  <2>1. op[r] \in QuizOps /\ scored[r] \in [quiz : Slugs, score : Scores, passed : BOOLEAN]
    BY <1>3 DEF ModuleRowWritten, Advance, CallsMatch
  <2>2. modules' \in [Courses \X Positions -> ModuleRow \cup {NoRow}]
    <3> DEFINE key == <<op[r].course, op[r].pos>>
               new == Attempted(modules[key], scored[r].quiz, scored[r].score, scored[r].passed)
    <3>1. key \in Courses \X Positions
      BY <2>1 DEF QuizOps
    <3>2. new \in ModuleRow
      BY <2>1, <3>1, AttemptedType DEF TypeOK, RecordsTypeOK
    <3>3. modules' = [modules EXCEPT ![key] = new]
      BY <1>3 DEF ModuleRowWritten, RecordProgress
    <3> QED
      BY <3>1, <3>2, <3>3 DEF TypeOK, RecordsTypeOK
  <2>3. RecordsTypeOK'
    BY <1>3, <2>2 DEF ModuleRowWritten, RecordsTypeOK, TypeOK
  <2> QED
    BY <1>3, <2>3, AdvanceType DEF ModuleRowWritten, TypeOK, flow, Kinds, Steps
<1>4. CASE ModuleXP(r)
  <2>1. op[r].course \in Courses /\ (call[r]["lesson"] # "none" => op[r] \in LessonOps)
                                /\ (call[r]["module"] # "none" => scored[r].quiz \in Slugs)
    BY <1>4, CallArrived DEF ModuleXP, Advance, Kinds, CallsMatch
  <2>2. RecordsTypeOK'
    BY <1>4, <2>1 DEF ModuleXP, Advance, RecordsTypeOK, TypeOK, MarkComplete, AwardXP, AwardBadge,
         CreateEnrollment, XPKeys, XPSources, LessonOps
  <2> QED
    BY <1>4, <2>2, AdvanceType DEF ModuleXP, TypeOK, flow, Kinds, Steps
<1>5. CASE CompleteRow(r)
  <2>1. op[r].course \in Courses /\ (call[r]["lesson"] # "none" => op[r] \in LessonOps)
                                /\ (call[r]["module"] # "none" => scored[r].quiz \in Slugs)
    BY <1>5, CallArrived DEF CompleteRow, Advance, Kinds, CallsMatch
  <2>2. RecordsTypeOK'
    BY <1>5, <2>1 DEF CompleteRow, Advance, RecordsTypeOK, TypeOK, MarkComplete, AwardXP,
       AwardBadge, CreateEnrollment, XPKeys, XPSources, LessonOps
  <2> QED
    BY <1>5, <2>2, AdvanceType DEF CompleteRow, TypeOK, flow, Kinds, Steps
<1>6. CASE CompleteBadge(r)
  <2>1. op[r].course \in Courses /\ (call[r]["lesson"] # "none" => op[r] \in LessonOps)
                                /\ (call[r]["module"] # "none" => scored[r].quiz \in Slugs)
    BY <1>6, CallArrived DEF CompleteBadge, Advance, Kinds, CallsMatch
  <2>2. RecordsTypeOK'
    BY <1>6, <2>1 DEF CompleteBadge, Advance, RecordsTypeOK, TypeOK, MarkComplete, AwardXP,
       AwardBadge, CreateEnrollment, XPKeys, XPSources, LessonOps
  <2> QED
    BY <1>6, <2>2, AdvanceType DEF CompleteBadge, TypeOK, flow, Kinds, Steps
<1>7. CASE CompleteXP(r)
  <2>1. op[r].course \in Courses /\ (call[r]["lesson"] # "none" => op[r] \in LessonOps)
                                /\ (call[r]["module"] # "none" => scored[r].quiz \in Slugs)
    BY <1>7, CallArrived DEF CompleteXP, Advance, Kinds, CallsMatch
  <2>2. RecordsTypeOK'
    BY <1>7, <2>1 DEF CompleteXP, Advance, RecordsTypeOK, TypeOK, MarkComplete, AwardXP,
       AwardBadge, CreateEnrollment, XPKeys, XPSources, LessonOps
  <2> QED
    BY <1>7, <2>2, AdvanceType DEF CompleteXP, TypeOK, flow, Kinds, Steps
<1>8. CASE CompleteSkills(r)
  <2>1. op[r].course \in Courses
    BY <1>8, CallArrived DEF CompleteSkills, Advance, Kinds
  <2>2. levels' \in [Skills -> SkillRow]
    <3>1. \E totals \in [Skills -> Nat] : UpsertSkills(op[r].course, totals)
      BY <1>8, SkillTotalType DEF CompleteSkills
    <3> QED
      BY <2>1, <3>1, UpsertSkillsType DEF TypeOK
  <2>3. RecordsTypeOK'
    BY <1>8, <2>2 DEF CompleteSkills, RecordsTypeOK, TypeOK
  <2> QED
    BY <1>8, <2>3, AdvanceType, FaultType DEF CompleteSkills, TypeOK, flow, Kinds, Steps
<1>9. CASE AutoEnroll(r)
  <2>1. op[r].course \in Courses /\ (call[r]["lesson"] # "none" => op[r] \in LessonOps)
                                /\ (call[r]["module"] # "none" => scored[r].quiz \in Slugs)
    BY <1>9, CallArrived DEF AutoEnroll, Advance, Kinds, CallsMatch
  <2>2. RecordsTypeOK'
    BY <1>9, <2>1 DEF AutoEnroll, Advance, RecordsTypeOK, TypeOK, MarkComplete, AwardXP,
       AwardBadge, CreateEnrollment, XPKeys, XPSources, LessonOps
  <2> QED
    BY <1>9, <2>2, AdvanceType, NoticedType DEF AutoEnroll, TypeOK, flow, Kinds, Steps
<1>10. CASE StatementSkipped(r)
  BY <1>10, RecordsFrame, AdvanceType, FaultType
     DEF StatementSkipped, FaultIn, TypeOK, flow, Kinds, Steps
<1>11. ASSUME NEW k \in Kinds, CallFails(r, k) PROVE TypeOK'
  BY <1>11, RecordsFrame, AdvanceType, FaultType DEF CallFails, FaultIn, TypeOK, flow, Steps
<1> QED
  BY <1>1, <1>2, <1>3, <1>4, <1>5, <1>6, <1>7, <1>8, <1>9, <1>10, <1>11 DEF Handle

-----------------------------------------------------------------------------
(* CallsMatch                                                              *)

\* Sending one call touches no other.
LEMMA SendOnly ==
  ASSUME TypeOK, NEW r \in Requests, NEW k \in Kinds, Send(r, k)
  PROVE  /\ \A q \in Requests, j \in Kinds : (q # r \/ j # k) => call'[q][j] = call[q][j]
         /\ call'[r][k] = "sent"
<1>1. call \in [Requests -> [Kinds -> Steps]]
  BY DEF TypeOK
<1> QED
  BY <1>1 DEF Send

\* Steps that move the request on and leave its calls alone.
LEMMA CallsFrame ==
  ASSUME TypeOK, CallsMatch, UNCHANGED <<op, scored, call>>,
         NEW r \in Requests, NEW from, NEW to, Goto(r, from, to), from # "idle", to # "idle"
  PROVE  CallsMatch'
  BY DEF Goto, TypeOK, CallsMatch

\* Steps that move a call on and leave its request alone.
LEMMA AdvanceFrame ==
  ASSUME TypeOK, CallsMatch, UNCHANGED flow,
         NEW r \in Requests, NEW k \in Kinds, NEW from, NEW to,
         Advance(r, k, from, to), from # "none"
  PROVE  CallsMatch'
  BY DEF Advance, flow, TypeOK, CallsMatch, Kinds

\* Steps that move the request on and send one more call.
LEMMA SendFrame ==
  ASSUME TypeOK, CallsMatch, UNCHANGED <<op, scored>>,
         NEW r \in Requests, NEW from, NEW to, Goto(r, from, to), from # "idle", to # "idle",
         NEW k \in {"enroll", "lesson", "complete"}, Send(r, k),
         k = "lesson" => op[r] \in LessonOps
  PROVE  CallsMatch'
<1>1. \A q \in Requests, j \in Kinds : (q # r \/ j # k) => call'[q][j] = call[q][j]
  BY DEF Send, TypeOK, Kinds
<1>2. \A q \in Requests : q # r => pc'[q] = pc[q]
  BY DEF Goto, TypeOK
<1>3. pc[r] # "idle" /\ pc'[r] # "idle"
  BY DEF Goto, TypeOK
<1> QED
  BY <1>1, <1>2, <1>3 DEF CallsMatch, Kinds

LEMMA CallsStep ==
  ASSUME TypeOK, CallsMatch, Next
  PROVE  CallsMatch'
<1>1. ASSUME NEW r \in Requests, Start(r) PROVE CallsMatch'
  <2>1. PICK o \in Asks : op' = [op EXCEPT ![r] = o]
    BY <1>1 DEF Start
  <2> QED
    BY <1>1, <2>1 DEF Start, Goto, TypeOK, CallsMatch, Kinds
<1>2. ASSUME NEW r \in Requests,
             ReadViewed(r) \/ ReadModules(r) \/ ReadEnrolled(r) \/ OverviewFails(r)
             \/ ReadPrereqViewed(r) \/ CheckPrereqs(r) \/ SummariesFail(r)
             \/ LessonRefused(r) \/ RefuseSubmission(r) \/ Notified(r) \/ GiveUp(r)
      PROVE  CallsMatch'
  BY <1>2, CallsFrame DEF ReadViewed, ReadModules, ReadEnrolled, OverviewFails, ReadPrereqViewed,
       CheckPrereqs, SummariesFail, LessonRefused, RefuseSubmission, Notified, GiveUp
<1>3. ASSUME NEW r \in Requests, EnsureAccess(r) PROVE CallsMatch'
  BY <1>3, CallsFrame, SendFrame DEF EnsureAccess
<1>4. ASSUME NEW r \in Requests, PostLesson(r) PROVE CallsMatch'
  <2>1. op[r] \in LessonOps
    BY <1>4, FlowAssumption DEF PostLesson, TypeOK, NoOp, LessonOps, QuizOps
  <2> QED
    BY <1>4, <2>1, CallsFrame, SendFrame DEF PostLesson
<1>5. ASSUME NEW r \in Requests, LessonPosted(r) PROVE CallsMatch'
  BY <1>5, CallsFrame, SendFrame DEF LessonPosted
<1>6. ASSUME NEW r \in Requests, ScoreSubmission(r) PROVE CallsMatch'
  <2>1. op[r] \in QuizOps
    BY <1>6, FlowAssumption DEF ScoreSubmission, TypeOK, NoOp, LessonOps, QuizOps
  <2>2. PICK i \in DOMAIN shown[r], score \in Scores :
          LET complete == score >= PassScore /\ CourseCompleted(r, {shown[r][i].slug}, {})
          IN  /\ scored' = [scored EXCEPT ![r] = [quiz |-> shown[r][i].slug, score |-> score,
                                                  passed |-> score >= PassScore]]
              /\ Goto(r, "act", IF complete THEN "notifying" ELSE "ok")
              /\ call' = [call EXCEPT ![r]["module"] = "sent",
                                      ![r]["complete"] = IF complete THEN "sent" ELSE @]
    BY <1>6 DEF ScoreSubmission
  <2>3. shown[r][i].slug \in Slugs
    BY DEF TypeOK, Listing, Module
  <2>4. (score >= PassScore) \in BOOLEAN
    OBVIOUS
  <2>5. scored'[r] \in [quiz : Slugs, score : Scores, passed : BOOLEAN]
    BY <2>2, <2>3, <2>4 DEF TypeOK
  <2>6. \A q \in Requests \ {r} :
           pc'[q] = pc[q] /\ scored'[q] = scored[q] /\ call'[q] = call[q]
    BY <2>2 DEF Goto, TypeOK
  <2>7. pc[r] # "idle" /\ pc'[r] # "idle" /\ call'[r]["lesson"] = call[r]["lesson"]
    BY <2>2 DEF Goto, TypeOK, Kinds
  <2>8. op' = op
    BY <1>6 DEF ScoreSubmission
  <2> SUFFICES ASSUME NEW q \in Requests
               PROVE  /\ pc'[q] = "idle" => op[q] = NoOp /\ \A k \in Kinds : call'[q][k] = "none"
                      /\ pc'[q] # "idle" => op[q] \in Asks
                      /\ call'[q]["lesson"] # "none" => op[q] \in LessonOps
                      /\ call'[q]["module"] # "none" =>
                           /\ op[q] \in QuizOps
                           /\ scored'[q] \in [quiz : Slugs, score : Scores, passed : BOOLEAN]
    BY <2>8 DEF CallsMatch
  <2>9. CASE q # r
    BY <2>6, <2>9 DEF CallsMatch
  <2>10. CASE q = r
    BY <2>1, <2>5, <2>7, <2>10 DEF CallsMatch
  <2> QED
    BY <2>9, <2>10
<1>7. ASSUME NEW r \in Requests, Handle(r) \/ StatementSkipped(r) PROVE CallsMatch'
  BY <1>7, AdvanceFrame DEF Handle, LessonRow, LessonXP, ModuleRowWritten, ModuleXP, CompleteRow,
       CompleteBadge, CompleteXP, CompleteSkills, AutoEnroll, StatementSkipped, Kinds
<1>8. ASSUME NEW r \in Requests, NEW k \in Kinds, CallFails(r, k) PROVE CallsMatch'
  BY <1>8, AdvanceFrame DEF CallFails
<1>9. ASSUME NEW c \in Courses, SaveCourse(c) \/ Enroll(c) \/ Unenroll(c) PROVE CallsMatch'
  BY <1>9 DEF SaveCourse, Enroll, Unenroll, flow, CallsMatch
<1> QED
  BY <1>1, <1>2, <1>3, <1>4, <1>5, <1>6, <1>7, <1>8, <1>9 DEF Next, Serve, Disturb

-----------------------------------------------------------------------------
(* Types and calls together                                                *)

LEMMA InitTypes == Init => TypeOK /\ CallsMatch
<1> SUFFICES ASSUME Init PROVE TypeOK /\ CallsMatch
  OBVIOUS
<1>1. RecordsTypeOK
  BY DEF Init, RecordsInit, RecordsTypeOK, SkillRow
<1>2. << >> \in Listing
  BY DEF Listing
<1>3. TypeOK
  BY <1>1, <1>2, FlowAssumption DEF Init, TypeOK, PC, View, EmptyView, Steps
<1>4. CallsMatch
  BY DEF Init, CallsMatch, Kinds
<1> QED
  BY <1>3, <1>4

LEMMA TypesStep ==
  ASSUME TypeOK, CallsMatch, [Next]_vars
  PROVE  TypeOK' /\ CallsMatch'
<1>1. CASE Next
  <2>1. ASSUME NEW c \in Courses, SaveCourse(c) PROVE TypeOK'
    <3>1. listing' \in Listings
      <4>1. PICK v \in Versions[c] : listing' = [listing EXCEPT ![c] = v]
        BY <2>1 DEF SaveCourse
      <4>2. listing \in [Courses -> UNION {Versions[d] : d \in Courses}]
        BY DEF TypeOK, Listings
      <4>3. listing' \in [Courses -> UNION {Versions[d] : d \in Courses}]
        BY <4>1, <4>2
      <4>4. \A d \in Courses : listing'[d] \in Versions[d]
        BY <4>1, <4>2 DEF TypeOK, Listings
      <4> QED
        BY <4>3, <4>4 DEF Listings
    <3>2. edits' \in 0..MaxEdits
      BY <2>1, EditType DEF SaveCourse
    <3> QED
      BY <2>1, <3>1, <3>2, RecordsFrame DEF SaveCourse, TypeOK, flow
  <2>2. ASSUME NEW c \in Courses, Enroll(c) \/ Unenroll(c) PROVE TypeOK'
    <3>1. RecordsTypeOK'
      BY <2>2 DEF Enroll, Unenroll, CreateEnrollment, DeleteEnrollment, RecordsTypeOK, TypeOK
    <3>2. edits' \in 0..MaxEdits
      BY <2>2, EditType DEF Enroll, Unenroll
    <3>3. member' \in [Requests -> BOOLEAN]
      BY <2>2, NoticedType DEF Enroll, Unenroll, TypeOK
    <3> QED
      BY <2>2, <3>1, <3>2, <3>3 DEF Enroll, Unenroll, TypeOK, flow
  <2> QED
    BY <1>1, <2>1, <2>2, RequestStepTypes, EndpointStepTypes, CallsStep DEF Next, Disturb
<1>2. CASE UNCHANGED vars
  BY <1>2, RecordsFrame DEF vars, flow, TypeOK, CallsMatch
<1> QED
  BY <1>1, <1>2

\* Every value the services ever hold is of the type they expect: positions,
\* slugs and scores read from one request are those another call may store.
THEOREM TypeCorrect == Spec => []TypeOK
<1>1. TypeOK /\ CallsMatch /\ [Next]_vars => (TypeOK /\ CallsMatch)'
  BY TypesStep
<1> QED
  BY <1>1, InitTypes, PTL DEF Spec

\* The conjunction later proofs start from.
LEMMA Typed == Spec => [](TypeOK /\ CallsMatch)
<1>1. TypeOK /\ CallsMatch /\ [Next]_vars => (TypeOK /\ CallsMatch)'
  BY TypesStep
<1> QED
  BY <1>1, InitTypes, PTL DEF Spec

-----------------------------------------------------------------------------
(* Awards                                                                  *)

\* What a step does to a completion call: nothing, or it sends it, or it stores
\* the sentinel, or the call moves on with the sentinel's operation unchanged.
LEMMA SentinelStep ==
  ASSUME TypeOK, CallsMatch, SentinelFirst, Next
  PROVE  SentinelFirst'
<1> DEFINE Past(r) == call[r]["complete"] \in {"row", "badge", "xp", "done"}
<1>1. \A c \in CompletedCourses : lessons \subseteq lessons' => c \in CompletedCourses'
  BY DEF CompletedCourses
<1>2. ASSUME NEW r \in Requests,
             Start(r) \/ Serve(r) \/ OverviewFails(r) \/ SummariesFail(r) \/ GiveUp(r)
      PROVE  SentinelFirst'
  <2>1. UNCHANGED lessons
    BY <1>2 DEF Start, Serve, ReadViewed, ReadModules, ReadEnrolled, OverviewFails, EnsureAccess,
         ReadPrereqViewed, CheckPrereqs, SummariesFail, PostLesson, LessonPosted, LessonRefused,
         RefuseSubmission, ScoreSubmission, Notified, GiveUp, records
  <2>2. \A q \in Requests : Past(q)' => Past(q) /\ op'[q] = op[q]
    <3>1. CASE Start(r)
      BY <3>1, CallArrived DEF Start, Goto, TypeOK, Kinds
    <3>2. CASE EnsureAccess(r) \/ PostLesson(r) \/ LessonPosted(r)
      BY <3>2, SendOnly DEF EnsureAccess, PostLesson, LessonPosted, Kinds
    <3>3. CASE ScoreSubmission(r)
      BY <3>3 DEF ScoreSubmission, TypeOK, Kinds
    <3>4. CASE \/ ReadViewed(r) \/ ReadModules(r) \/ ReadEnrolled(r) \/ OverviewFails(r)
               \/ ReadPrereqViewed(r) \/ CheckPrereqs(r) \/ SummariesFail(r)
               \/ LessonRefused(r) \/ RefuseSubmission(r) \/ Notified(r) \/ GiveUp(r)
      BY <3>4 DEF ReadViewed, ReadModules, ReadEnrolled, OverviewFails, ReadPrereqViewed,
           CheckPrereqs, SummariesFail, LessonRefused, RefuseSubmission, Notified, GiveUp
    <3> QED
      BY <1>2, <3>1, <3>2, <3>3, <3>4 DEF Serve
  <2> QED
    BY <1>1, <2>1, <2>2 DEF SentinelFirst
<1>3. ASSUME NEW r \in Requests, CompleteRow(r) PROVE SentinelFirst'
  <2>1. op[r].course \in Courses
    BY <1>3, CallArrived DEF CompleteRow, Advance, Kinds
  <2>2. op[r].course \in CompletedCourses' /\ lessons \subseteq lessons'
    BY <1>3, <2>1 DEF CompleteRow, MarkComplete, CompletedCourses
  <2>3. \A q \in Requests : q # r => (Past(q)' => Past(q))
    BY <1>3 DEF CompleteRow, Advance, TypeOK, Kinds
  <2> QED
    BY <1>1, <1>3, <2>2, <2>3 DEF CompleteRow, flow, SentinelFirst
<1>4. ASSUME NEW r \in Requests,
             (Handle(r) /\ ~CompleteRow(r)) \/ StatementSkipped(r)
      PROVE  SentinelFirst'
  <2>1. lessons \subseteq lessons' /\ UNCHANGED op
    BY <1>4 DEF Handle, LessonRow, LessonXP, ModuleRowWritten, ModuleXP, CompleteBadge,
       CompleteXP, CompleteSkills, AutoEnroll, StatementSkipped, MarkComplete, records, flow
  <2>2. \A q \in Requests : Past(q)' => Past(q)
    <3>1. \E k \in Kinds, from \in Steps, to \in Steps :
             Advance(r, k, from, to) /\ (k = "complete" => from \in {"row", "badge", "xp"})
      BY <1>4 DEF Handle, LessonRow, LessonXP, ModuleRowWritten, ModuleXP, CompleteBadge,
           CompleteXP, CompleteSkills, AutoEnroll, StatementSkipped, Kinds, Steps
    <3> QED
      BY <3>1 DEF Advance, TypeOK, Kinds
  <2> QED
    BY <1>1, <2>1, <2>2 DEF SentinelFirst
<1>5. ASSUME NEW r \in Requests, NEW k \in Kinds, CallFails(r, k) PROVE SentinelFirst'
  BY <1>1, <1>5 DEF CallFails, Advance, TypeOK, Kinds, flow, records, SentinelFirst
<1>6. ASSUME NEW c \in Courses, SaveCourse(c) \/ Enroll(c) \/ Unenroll(c) PROVE SentinelFirst'
  BY <1>1, <1>6 DEF SaveCourse, Enroll, Unenroll, flow, records, SentinelFirst
<1> QED
  BY <1>2, <1>3, <1>4, <1>5, <1>6 DEF Next, Disturb

\* How a step may change the tables an award stands in.
LEMMA AwardStep ==
  ASSUME TypeOK, CallsMatch, SentinelFirst, AwardsBacked, Next
  PROVE  AwardsBacked'
<1> DEFINE Frame == lessons \subseteq lessons' /\ UNCHANGED <<badges, levels>>
                    /\ \A c \in Courses : <<"course", c, Complete>> \in xp' =>
                                          <<"course", c, Complete>> \in xp
<1>1. ASSUME lessons \subseteq lessons' PROVE CompletedCourses \subseteq CompletedCourses'
  BY <1>1 DEF CompletedCourses
<1>2. Frame => AwardsBacked'
  BY <1>1 DEF AwardsBacked
<1>3. ASSUME NEW r \in Requests,
             Start(r) \/ Serve(r) \/ OverviewFails(r) \/ SummariesFail(r) \/ GiveUp(r)
             \/ StatementSkipped(r) \/ (\E k \in Kinds : CallFails(r, k))
      PROVE  AwardsBacked'
  <2>1. UNCHANGED records
    BY <1>3 DEF Start, Serve, ReadViewed, ReadModules, ReadEnrolled, OverviewFails, EnsureAccess,
         ReadPrereqViewed, CheckPrereqs, SummariesFail, PostLesson, LessonPosted, LessonRefused,
         RefuseSubmission, ScoreSubmission, Notified, GiveUp, StatementSkipped, CallFails
  <2> QED
    BY <1>2, <2>1 DEF records
<1>4. ASSUME NEW r \in Requests,
             LessonRow(r) \/ LessonXP(r) \/ ModuleRowWritten(r) \/ ModuleXP(r)
             \/ CompleteRow(r) \/ AutoEnroll(r)
      PROVE  AwardsBacked'
  BY <1>2, <1>4 DEF LessonRow, LessonXP, ModuleRowWritten, ModuleXP, CompleteRow, AutoEnroll,
       MarkComplete, AwardXP
<1>5. ASSUME NEW r \in Requests, CompleteBadge(r) PROVE AwardsBacked'
  BY <1>1, <1>5 DEF CompleteBadge, Advance, AwardBadge, SentinelFirst, AwardsBacked,
     CompletedCourses
<1>6. ASSUME NEW r \in Requests, CompleteXP(r) PROVE AwardsBacked'
  BY <1>1, <1>6 DEF CompleteXP, Advance, AwardXP, SentinelFirst, AwardsBacked, CompletedCourses
<1>7. ASSUME NEW r \in Requests, CompleteSkills(r) PROVE AwardsBacked'
  <2>1. op[r].course \in CompletedCourses /\ UNCHANGED <<lessons, badges, xp>>
    BY <1>7 DEF CompleteSkills, Advance, SentinelFirst
  <2>2. \A s \in Skills : s \notin SkillsOf[op[r].course] => levels'[s] = levels[s]
    BY <1>7 DEF CompleteSkills, UpsertSkills
  <2> QED
    BY <2>1, <2>2 DEF AwardsBacked, CompletedCourses
<1>8. ASSUME NEW c \in Courses, SaveCourse(c) \/ Enroll(c) \/ Unenroll(c) PROVE AwardsBacked'
  BY <1>2, <1>8 DEF SaveCourse, Enroll, Unenroll, records
<1> QED
  BY <1>3, <1>4, <1>5, <1>6, <1>7, <1>8 DEF Next, Handle, Disturb

Inv == TypeOK /\ CallsMatch /\ SentinelFirst /\ AwardsBacked

\* Nobody holds a badge, course XP or a skill level for a course that is not
\* recorded as completed, whatever statements and calls fail and however many
\* completions run at once (InternalMarkCourseComplete).
THEOREM AwardsAlwaysBacked == Spec => []AwardsBacked
<1>1. Init => Inv
  <2> SUFFICES ASSUME Init PROVE SentinelFirst /\ AwardsBacked
    BY InitTypes DEF Inv
  <2>1. SentinelFirst
    BY DEF Init, SentinelFirst, Kinds
  <2>2. AwardsBacked
    BY DEF Init, RecordsInit, AwardsBacked
  <2> QED
    BY <2>1, <2>2
<1>2. Inv /\ [Next]_vars => Inv'
  <2> SUFFICES ASSUME Inv, [Next]_vars PROVE Inv'
    OBVIOUS
  <2>1. TypeOK' /\ CallsMatch'
    BY TypesStep DEF Inv
  <2>2. CASE Next
    BY <2>1, <2>2, SentinelStep, AwardStep DEF Inv
  <2>3. CASE UNCHANGED vars
    BY <2>1, <2>3 DEF Inv, vars, records, flow, SentinelFirst, AwardsBacked, CompletedCourses
  <2> QED
    BY <2>2, <2>3
<1>3. Inv => AwardsBacked
  BY DEF Inv
<1> QED
  BY <1>1, <1>2, <1>3, PTL DEF Spec

-----------------------------------------------------------------------------
(* Skills and monotonicity                                                 *)

\* The level "maitre" is never withheld from a learner whose stored count has
\* reached the stored total (upsertSkillLevelTx).
THEOREM MaitreAlwaysGranted == Spec => []MaitreWhenAllDone
<1>1. Init => MaitreWhenAllDone
  BY DEF Init, RecordsInit, MaitreWhenAllDone
<1>2. ASSUME TypeOK, CallsMatch, MaitreWhenAllDone, [Next]_vars PROVE MaitreWhenAllDone'
  <2>1. CASE UNCHANGED levels
    BY <1>2, <2>1 DEF MaitreWhenAllDone
  <2>2. ASSUME NEW r \in Requests, CompleteSkills(r) PROVE MaitreWhenAllDone'
    <3>1. PICK totals \in [Skills -> Nat] : UpsertSkills(op[r].course, totals)
      BY <2>2, SkillTotalType DEF CompleteSkills
    <3>2. op[r].course \in Courses
      BY <1>2, <2>2, CallArrived DEF CompleteSkills, Advance, Kinds
    <3> SUFFICES ASSUME NEW s \in Skills,
                        levels'[s].total > 0, levels'[s].completed >= levels'[s].total
                 PROVE  levels'[s].level = Maitre
      BY DEF MaitreWhenAllDone
    <3>3. levels[s] \in SkillRow /\ Difficulty[op[r].course] \in 0..3
      BY <1>2, <3>2, RecordsAssumption DEF TypeOK, RecordsTypeOK
    <3>4. \/ levels'[s] = levels[s]
          \/ levels'[s] = Promoted(levels[s], Difficulty[op[r].course], totals[s])
      BY <3>1 DEF UpsertSkills
    <3>5. CASE levels'[s] = levels[s]
      BY <1>2, <3>5 DEF MaitreWhenAllDone
    <3>6. CASE levels'[s] = Promoted(levels[s], Difficulty[op[r].course], totals[s])
      <4> DEFINE row == Promoted(levels[s], Difficulty[op[r].course], totals[s])
      <4>1. totals[s] \in Nat
        OBVIOUS
      <4>2. /\ row.completed = levels[s].completed + 1
            /\ row.total = totals[s]
            /\ (totals[s] > 0 /\ levels[s].completed + 1 >= totals[s]) => row.level = Maitre
        BY ZenonT(60), <3>3, <4>1, PromotedFacts
      <4> QED
        BY <3>6, <4>2
    <3> QED
      BY <3>4, <3>5, <3>6
  <2>3. Next => UNCHANGED levels \/ \E r \in Requests : CompleteSkills(r)
    BY ZenonT(60) DEF Next, Serve, Handle, Disturb, Start, ReadViewed, ReadModules, ReadEnrolled,
       OverviewFails, EnsureAccess, ReadPrereqViewed, CheckPrereqs, SummariesFail,
       PostLesson, LessonPosted, LessonRefused, RefuseSubmission, ScoreSubmission, Notified,
       GiveUp, LessonRow, LessonXP, ModuleRowWritten, ModuleXP, CompleteRow, CompleteBadge,
       CompleteXP, AutoEnroll, StatementSkipped, CallFails, SaveCourse, Enroll, Unenroll, records
  <2> QED
    BY <1>2, <2>1, <2>2, <2>3 DEF vars, records
<1> QED
  BY <1>1, <1>2, Typed, PTL DEF Spec

\* The upsert of an attempt counts it and takes nothing back.
LEMMA AttemptedKeeps ==
  ASSUME NEW row \in ModuleRow, NEW slug \in Slugs, NEW score \in Scores, NEW passed \in BOOLEAN
  PROVE  /\ Attempted(row, slug, score, passed).attempts >= row.attempts
         /\ Attempted(row, slug, score, passed).best >= row.best
         /\ row.passed => Attempted(row, slug, score, passed).passed
<1>1. row # NoRow
  BY DEF ModuleRow, NoRow
<1>2. /\ Attempted(row, slug, score, passed).attempts = row.attempts + 1
      /\ Attempted(row, slug, score, passed).best = IF score > row.best THEN score ELSE row.best
      /\ Attempted(row, slug, score, passed).passed = (row.passed \/ passed)
  BY <1>1 DEF Attempted, ModuleRow
<1>3. row.attempts \in Nat /\ row.best \in Nat /\ score \in Nat
  BY RecordsAssumption DEF ModuleRow
<1>4. row.passed => Attempted(row, slug, score, passed).passed
  BY <1>2, Zenon
<1> QED
  BY <1>2, <1>3, <1>4

LEMMA KeptStep ==
  ASSUME TypeOK, CallsMatch, Next
  PROVE  Kept \/ UNCHANGED records
<1>1. \A k \in Courses \X Positions : modules[k] # NoRow =>
        modules[k] \in ModuleRow /\ modules[k].attempts \in Nat /\ modules[k].best \in Nat
  BY RecordsAssumption DEF TypeOK, RecordsTypeOK, ModuleRow
<1>2. \A s \in Skills : levels[s] \in SkillRow /\ levels[s].level \in Nat
  BY DEF TypeOK, RecordsTypeOK, SkillRow
<1>3. ASSUME UNCHANGED <<modules, levels>>, lessons \subseteq lessons',
             xp \subseteq xp', badges \subseteq badges'
      PROVE  Kept
  BY <1>1, <1>2, <1>3 DEF Kept
<1>4. ASSUME NEW r \in Requests,
             LessonRow(r) \/ LessonXP(r) \/ ModuleXP(r) \/ CompleteRow(r)
             \/ CompleteBadge(r) \/ CompleteXP(r) \/ AutoEnroll(r)
      PROVE  Kept
  BY <1>3, <1>4 DEF LessonRow, LessonXP, ModuleXP, CompleteRow, CompleteBadge, CompleteXP,
       AutoEnroll, MarkComplete, AwardXP, AwardBadge
<1>5. ASSUME NEW r \in Requests, ModuleRowWritten(r) PROVE Kept
  <2> DEFINE key == <<op[r].course, op[r].pos>>
             new == Attempted(modules[key], scored[r].quiz, scored[r].score, scored[r].passed)
  <2>1. modules' = [modules EXCEPT ![key] = new]
    BY <1>5 DEF ModuleRowWritten, RecordProgress
  <2>2. scored[r] \in [quiz : Slugs, score : Scores, passed : BOOLEAN]
    BY <1>5 DEF ModuleRowWritten, Advance, CallsMatch
  <2>3. ASSUME NEW k \in Courses \X Positions, modules[k] # NoRow
        PROVE  /\ modules'[k].attempts >= modules[k].attempts
               /\ modules'[k].best >= modules[k].best
               /\ modules[k].passed => modules'[k].passed
    <3>1. CASE k = key
      <4>1. modules'[k] = new
        BY <2>1, <3>1 DEF TypeOK, RecordsTypeOK
      <4> QED
        BY <1>1, <2>2, <2>3, <3>1, <4>1, AttemptedKeeps
    <3>2. CASE k # key
      <4>1. modules'[k] = modules[k]
        BY <2>1, <3>2 DEF TypeOK, RecordsTypeOK
      <4> QED
        BY <1>1, <2>3, <4>1
    <3> QED
      BY <3>1, <3>2
  <2>4. UNCHANGED <<lessons, xp, badges, levels>>
    BY <1>5 DEF ModuleRowWritten
  <2> QED
    BY <1>2, <2>3, <2>4 DEF Kept
<1>6. ASSUME NEW r \in Requests, CompleteSkills(r) PROVE Kept
  <2>1. PICK totals \in [Skills -> Nat] : UpsertSkills(op[r].course, totals)
    BY <1>6, SkillTotalType DEF CompleteSkills
  <2>2. op[r].course \in Courses
    BY <1>6, CallArrived DEF CompleteSkills, Advance, Kinds
  <2>3. Difficulty[op[r].course] \in 0..3
    BY <2>2, RecordsAssumption
  <2>4. ASSUME NEW s \in Skills PROVE levels'[s].level >= levels[s].level
    <3>1. \/ levels'[s] = levels[s]
          \/ levels'[s] = Promoted(levels[s], Difficulty[op[r].course], totals[s])
      BY <2>1 DEF UpsertSkills
    <3>2. levels[s] \in SkillRow /\ levels[s].level \in Nat /\ totals[s] \in Nat
      BY <1>2
    <3>3. Promoted(levels[s], Difficulty[op[r].course], totals[s]).level >= levels[s].level
      BY <2>3, <3>2, PromotedFacts
    <3> QED
      BY <3>1, <3>2, <3>3
  <2>5. UNCHANGED <<lessons, modules, xp, badges>>
    BY <1>6 DEF CompleteSkills
  <2> QED
    BY <1>1, <2>4, <2>5 DEF Kept
<1>7. ASSUME NEW c \in Courses, Enroll(c) \/ Unenroll(c) PROVE Kept
  BY <1>3, <1>7 DEF Enroll, Unenroll
<1>8. \/ UNCHANGED records
      \/ \E r \in Requests : Handle(r)
      \/ \E c \in Courses : Enroll(c) \/ Unenroll(c)
  BY DEF Next, Serve, Disturb, Start, ReadViewed, ReadModules, ReadEnrolled,
     OverviewFails, EnsureAccess, ReadPrereqViewed, CheckPrereqs, SummariesFail, PostLesson,
     LessonPosted, LessonRefused, RefuseSubmission, ScoreSubmission, Notified, GiveUp,
     StatementSkipped, CallFails, SaveCourse
<1> QED
  BY <1>4, <1>5, <1>6, <1>7, <1>8 DEF Handle

\* No step of any request, call, fault or edit takes recorded progress back,
\* in whatever order the detached results land (RecordProgress, Award, Upsert).
THEOREM ProgressAlwaysKept == Spec => ProgressKept
<1>1. TypeOK /\ CallsMatch /\ [Next]_vars => [Kept]_records
  BY KeptStep DEF vars
<1> QED
  BY <1>1, Typed, PTL DEF Spec, ProgressKept, Kept

-----------------------------------------------------------------------------
(* What a request once had stays so                                        *)

\* A result exists from the end of a quiz request on, before its call is sent.
ResultLate ==
  \A r \in Requests :
    scored[r] # NotScored \/ call[r]["module"] # "none" =>
      op[r] \in QuizOps /\ pc[r] \in {"notifying"} \cup Finished

\* Steps that move a request on and neither score nor deliver a result.
Onward(r) ==
  /\ UNCHANGED <<records, op, shown, scored>>
  /\ \E from, to \in PC \ {"idle"} : /\ Goto(r, from, to)
                                     /\ from \in {"notifying"} \cup Finished => to \in Finished
  /\ \A q \in Requests : call'[q]["module"] = call[q]["module"]

\* Steps of the endpoints and edits.
Behind ==
  /\ UNCHANGED flow /\ lessons \subseteq lessons'
  /\ \A q \in Requests, k \in Kinds : call'[q][k] # "none" => call[q][k] # "none"

\* The endpoint has stored the request's result.
Landed(r) == call[r]["module"] \in {"row", "done"}

LandedSame == UNCHANGED modules /\ \A q \in Requests : Landed(q)' <=> Landed(q)

LEMMA StepKinds ==
  ASSUME TypeOK, CallsMatch, Next
  PROVE  \/ \E r \in Requests : Start(r) \/ ScoreSubmission(r) \/ Onward(r)
         \/ Behind /\ (LandedSame \/ \E r \in Requests : ModuleRowWritten(r))
<1>1. ASSUME NEW r \in Requests,
             ReadViewed(r) \/ ReadModules(r) \/ ReadEnrolled(r) \/ OverviewFails(r)
             \/ ReadPrereqViewed(r) \/ CheckPrereqs(r) \/ SummariesFail(r)
             \/ LessonRefused(r) \/ RefuseSubmission(r) \/ Notified(r) \/ GiveUp(r)
      PROVE  Onward(r)
  <2>1. UNCHANGED <<records, op, shown, scored, call>>
    BY <1>1 DEF ReadViewed, ReadModules, ReadEnrolled, OverviewFails, ReadPrereqViewed,
       CheckPrereqs, SummariesFail, LessonRefused, RefuseSubmission, Notified, GiveUp
  <2>2. \E from, to \in PC \ {"idle"} :
          Goto(r, from, to) /\ (from \in {"notifying"} \cup Finished => to \in Finished)
    BY <1>1 DEF ReadViewed, ReadModules, ReadEnrolled, OverviewFails, ReadPrereqViewed,
       CheckPrereqs, SummariesFail, LessonRefused, RefuseSubmission, Notified, GiveUp, PC, Finished
  <2> QED
    BY <2>1, <2>2 DEF Onward
<1>2. ASSUME NEW r \in Requests, EnsureAccess(r) \/ PostLesson(r) \/ LessonPosted(r)
      PROVE  Onward(r)
  <2>1. UNCHANGED <<records, op, shown, scored>>
    BY <1>2 DEF EnsureAccess, PostLesson, LessonPosted
  <2>2. \E from, to \in PC \ {"idle"} :
          Goto(r, from, to) /\ (from \in {"notifying"} \cup Finished => to \in Finished)
    BY <1>2 DEF EnsureAccess, PostLesson, LessonPosted, PC, Finished
  <2>3. \A q \in Requests : call'[q]["module"] = call[q]["module"]
    BY <1>2, SendOnly DEF EnsureAccess, PostLesson, LessonPosted, Kinds
  <2> QED
    BY <2>1, <2>2, <2>3 DEF Onward
<1>3. ASSUME NEW r \in Requests,
             \/ Handle(r) /\ ~ModuleRowWritten(r)
             \/ StatementSkipped(r) \/ (\E k \in Kinds : CallFails(r, k))
      PROVE  Behind /\ LandedSame
  <2>1. UNCHANGED <<flow, modules>> /\ lessons \subseteq lessons'
    BY <1>3 DEF Handle, LessonRow, LessonXP, ModuleXP, CompleteRow, CompleteBadge, CompleteXP,
       CompleteSkills, AutoEnroll, StatementSkipped, CallFails, MarkComplete, records
  <2>2. \E k \in Kinds, from, to \in Steps :
          /\ Advance(r, k, from, to) /\ from # "none"
          /\ k = "module" => (from \in {"row", "done"} <=> to \in {"row", "done"})
    BY <1>3 DEF Handle, LessonRow, LessonXP, ModuleXP, CompleteRow, CompleteBadge, CompleteXP,
       CompleteSkills, AutoEnroll, StatementSkipped, CallFails, Kinds, Steps
  <2> QED
    BY <2>1, <2>2 DEF Behind, LandedSame, Landed, Advance, TypeOK, Kinds
<1>4. ASSUME NEW r \in Requests, ModuleRowWritten(r) PROVE Behind
  BY <1>4 DEF ModuleRowWritten, Behind, Advance, TypeOK, Kinds
<1>5. ASSUME NEW c \in Courses, SaveCourse(c) \/ Enroll(c) \/ Unenroll(c) PROVE Behind /\ LandedSame
  BY <1>5 DEF SaveCourse, Enroll, Unenroll, Behind, LandedSame, Landed, records
<1> QED
  BY <1>1, <1>2, <1>3, <1>4, <1>5 DEF Next, Serve, Disturb

LEMMA LateStep ==
  ASSUME TypeOK, CallsMatch, ResultLate, Next
  PROVE  ResultLate'
<1>1. ASSUME NEW r \in Requests, Start(r) PROVE ResultLate'
  <2>1. scored[r] = NotScored /\ call[r]["module"] = "none"
    BY <1>1 DEF Start, Goto, ResultLate, Finished
  <2>2. UNCHANGED <<scored, call>> /\ \A q \in Requests \ {r} : pc'[q] = pc[q] /\ op'[q] = op[q]
    BY <1>1 DEF Start, Goto, TypeOK
  <2> QED
    BY <2>1, <2>2 DEF ResultLate
<1>2. ASSUME NEW r \in Requests, ScoreSubmission(r) PROVE ResultLate'
  <2>1. op[r] \in QuizOps /\ UNCHANGED op
    BY <1>2, FlowAssumption DEF ScoreSubmission, TypeOK, NoOp, LessonOps, QuizOps
  <2>2. pc'[r] \in {"notifying"} \cup Finished
    BY <1>2 DEF ScoreSubmission, Goto, TypeOK, Finished
  <2>3. \A q \in Requests \ {r} :
          pc'[q] = pc[q] /\ scored'[q] = scored[q] /\ call'[q]["module"] = call[q]["module"]
    BY <1>2 DEF ScoreSubmission, Goto, TypeOK, Kinds
  <2> QED
    BY <2>1, <2>2, <2>3 DEF ResultLate
<1>3. ASSUME NEW r \in Requests, Onward(r) PROVE ResultLate'
  BY <1>3 DEF Onward, Goto, TypeOK, ResultLate
<1>4. ASSUME Behind PROVE ResultLate'
  BY <1>4 DEF Behind, flow, ResultLate, Kinds
<1> QED
  BY <1>1, <1>2, <1>3, <1>4, StepKinds

\* A request that has arrived keeps its operation and its modules, a request
\* that has a result keeps it, and no lesson is taken back.
LEMMA HistoryKept ==
  ASSUME TypeOK, CallsMatch, ResultLate, Next, NEW q \in Requests
  PROVE  /\ pc[q] # "idle" => pc'[q] # "idle" /\ op'[q] = op[q] /\ shown'[q] = shown[q]
         /\ scored[q] # NotScored => scored'[q] = scored[q]
         /\ lessons \subseteq lessons'
<1>1. ASSUME NEW r \in Requests, Start(r) \/ ScoreSubmission(r)
      PROVE  pc[r] \in {"idle", "act"} /\ scored[r] = NotScored
  BY <1>1 DEF Start, ScoreSubmission, Goto, ResultLate, Finished
<1>2. ASSUME NEW r \in Requests, Start(r) PROVE pc[r] = "idle" /\ UNCHANGED <<scored, lessons>>
            /\ \A p \in Requests \ {r} : pc'[p] = pc[p] /\ op'[p] = op[p] /\ shown'[p] = shown[p]
  BY <1>2 DEF Start, Goto, TypeOK, records
<1>3. ASSUME NEW r \in Requests, ScoreSubmission(r)
      PROVE  /\ UNCHANGED <<op, shown, lessons>> /\ pc'[r] # "idle"
             /\ \A p \in Requests \ {r} : pc'[p] = pc[p] /\ scored'[p] = scored[p]
  BY <1>3 DEF ScoreSubmission, Goto, TypeOK, records
<1>4. ASSUME NEW r \in Requests, Onward(r)
      PROVE  UNCHANGED <<op, shown, scored, lessons>> /\ (pc[q] # "idle" => pc'[q] # "idle")
  BY <1>4 DEF Onward, Goto, TypeOK, records
<1>5. ASSUME Behind PROVE UNCHANGED <<pc, op, shown, scored>> /\ lessons \subseteq lessons'
  BY <1>5 DEF Behind, flow
<1> QED
  BY <1>1, <1>2, <1>3, <1>4, <1>5, StepKinds

-----------------------------------------------------------------------------
(* Every delivered result is counted once                                  *)

\* A row sums up the results res of the requests rs.
SumsUp(row, rs, res) ==
  /\ IsFiniteSet(rs)
  /\ row.attempts = Cardinality(rs)
  /\ rs # {} => /\ row.passed = (\E q \in rs : res[q].passed)
                /\ \E q \in rs : res[q].score = row.best
                /\ \A q \in rs : res[q].score <= row.best

\* AttemptsCounted for each row, and what makes its cardinality a number.
RowsCounted ==
  \A c \in Courses, p \in Positions : SumsUp(modules[<<c, p>>], Delivered(c, p), scored)

\* One more result in the upsert is one more in the sum.
LEMMA UpsertSumsUp ==
  ASSUME NEW row \in ModuleRow \cup {NoRow}, NEW rs, NEW r, r \notin rs, NEW res,
         \A q \in rs \cup {r} : res[q] \in [quiz : Slugs, score : Scores, passed : BOOLEAN],
         SumsUp(row, rs, res),
         NEW new, new = Attempted(row, res[r].quiz, res[r].score, res[r].passed)
  PROVE  SumsUp(new, rs \cup {r}, res)
<1>1. /\ IsFiniteSet(rs \cup {r}) /\ Cardinality(rs \cup {r}) = Cardinality(rs) + 1
      /\ Cardinality(rs) \in Nat
  BY FS_AddElement, FS_CardinalityType DEF SumsUp
<1>2. \A q \in rs \cup {r} : res[q].score \in Nat /\ res[q].passed \in BOOLEAN
  BY RecordsAssumption
<1>3. CASE row = NoRow
  <2>1. Cardinality(rs) = 0 /\ rs = {}
    BY <1>3, FS_EmptySet DEF NoRow, SumsUp
  <2>2. new = [attempts |-> 1, slug |-> res[r].quiz, best |-> res[r].score, passed |-> res[r].passed]
    BY <1>3 DEF Attempted
  <2>3. new.attempts = 1 /\ new.best = res[r].score /\ new.passed = res[r].passed
    BY <2>2
  <2>4. new.attempts = Cardinality(rs \cup {r})
    BY <1>1, <2>1, <2>3
  <2>5. /\ \E q \in rs \cup {r} : res[q].score = new.best
        /\ \A q \in rs \cup {r} : res[q].score <= new.best
    BY <1>2, <2>1, <2>3
  <2>6. new.passed = (\E q \in rs \cup {r} : res[q].passed)
    BY <2>1, <2>3, Zenon
  <2> QED
    BY <1>1, <2>4, <2>5, <2>6 DEF SumsUp
<1>4. CASE row # NoRow
  <2>1. row \in ModuleRow
    BY <1>4
  <2>2. row.attempts # 0 /\ rs # {}
    BY <2>1, FS_EmptySet DEF ModuleRow, SumsUp
  <2>3. /\ new.attempts = row.attempts + 1
        /\ new.best = IF res[r].score > row.best THEN res[r].score ELSE row.best
        /\ new.passed = (row.passed \/ res[r].passed)
    BY <1>4, <2>1 DEF Attempted, ModuleRow
  <2>4. row.best \in Nat /\ row.attempts \in Nat
    BY <2>1, RecordsAssumption DEF ModuleRow
  <2>5. PICK q \in rs : res[q].score = row.best
    BY <2>2 DEF SumsUp
  <2>6. \A p \in rs : res[p].score <= row.best
    BY <2>2 DEF SumsUp
  <2>7. \E p \in rs \cup {r} : res[p].score = new.best
    <3>1. CASE res[r].score > row.best
      BY <2>3, <3>1
    <3>2. CASE ~(res[r].score > row.best)
      BY <2>3, <2>5, <3>2
    <3> QED
      BY <3>1, <3>2
  <2>8. \A p \in rs \cup {r} : res[p].score <= new.best
    <3> SUFFICES ASSUME NEW p \in rs \cup {r} PROVE res[p].score <= new.best
      OBVIOUS
    <3>1. res[p].score \in Nat /\ res[r].score \in Nat
      BY <1>2
    <3> QED
      BY <2>3, <2>4, <2>6, <3>1
  <2>9. new.passed = (\E p \in rs \cup {r} : res[p].passed)
    <3>1. row.passed = (\E p \in rs : res[p].passed)
      BY <2>2 DEF SumsUp
    <3>2. (\E p \in rs \cup {r} : res[p].passed) = ((\E p \in rs : res[p].passed) \/ res[r].passed)
      BY Zenon
    <3> QED
      BY <2>3, <3>1, <3>2, Zenon
  <2>10. new.attempts = Cardinality(rs \cup {r})
    BY <1>1, <2>3 DEF SumsUp
  <2> QED
    BY <1>1, <2>7, <2>8, <2>9, <2>10 DEF SumsUp
<1> QED
  BY <1>3, <1>4

\* What a row sums up depends on its results only.
LEMMA SumsUpSame ==
  ASSUME NEW row, NEW rs, NEW res, NEW other, \A q \in rs : other[q] = res[q], SumsUp(row, rs, res)
  PROVE  SumsUp(row, rs, other)
<1>1. (\E q \in rs : other[q].passed) = (\E q \in rs : res[q].passed)
  OBVIOUS
<1> QED
  BY <1>1 DEF SumsUp

LEMMA CountStep ==
  ASSUME TypeOK, CallsMatch, ResultLate, RowsCounted, Next
  PROVE  RowsCounted'
<1>1. ASSUME UNCHANGED modules,
             \A c \in Courses, p \in Positions : /\ Delivered(c, p)' = Delivered(c, p)
                /\ \A r \in Delivered(c, p) : scored'[r] = scored[r]
      PROVE  RowsCounted'
  BY <1>1, SumsUpSame DEF RowsCounted
<1>2. ASSUME NEW r \in Requests, Start(r) \/ ScoreSubmission(r) PROVE RowsCounted'
  <2>1. pc[r] \in {"idle", "act"} /\ call[r]["module"] = "none"
    BY <1>2 DEF Start, ScoreSubmission, Goto, ResultLate, Finished
  <2>2. /\ UNCHANGED modules /\ call'[r]["module"] \in {"none", "sent"}
        /\ \A q \in Requests \ {r} : /\ op'[q] = op[q] /\ scored'[q] = scored[q]
                                     /\ call'[q]["module"] = call[q]["module"]
    <3>1. CASE Start(r)
      BY <2>1, <3>1 DEF Start, TypeOK, records
    <3>2. CASE ScoreSubmission(r)
      <4>1. /\ UNCHANGED <<modules, op>>
            /\ \A q \in Requests \ {r} : scored'[q] = scored[q]
        BY <3>2 DEF ScoreSubmission, TypeOK, records
      <4>2. PICK complete :
              call' = [call EXCEPT ![r]["module"] = "sent",
                                   ![r]["complete"] = IF complete THEN "sent" ELSE @]
        BY <3>2 DEF ScoreSubmission
      <4>3. /\ call'[r]["module"] = "sent"
            /\ \A q \in Requests \ {r} : call'[q]["module"] = call[q]["module"]
        BY <4>2 DEF TypeOK, Kinds
      <4> QED
        BY <4>1, <4>3
    <3> QED
      BY <1>2, <3>1, <3>2
  <2> QED
    BY <1>1, <2>1, <2>2 DEF Delivered
<1>3. ASSUME NEW r \in Requests, Onward(r) PROVE RowsCounted'
  BY <1>1, <1>3 DEF Onward, Delivered, records
<1>4. ASSUME Behind, LandedSame PROVE RowsCounted'
  BY <1>1, <1>4 DEF Behind, LandedSame, Landed, Delivered, flow
<1>5. ASSUME NEW r \in Requests, ModuleRowWritten(r) PROVE RowsCounted'
  <2> DEFINE key == <<op[r].course, op[r].pos>>
             new == Attempted(modules[key], scored[r].quiz, scored[r].score, scored[r].passed)
  <2>1. modules' = [modules EXCEPT ![key] = new]
    BY <1>5 DEF ModuleRowWritten, RecordProgress
  <2>2. UNCHANGED <<op, scored>> /\ op[r] \in QuizOps
    BY <1>5 DEF ModuleRowWritten, Advance, CallsMatch, flow
  <2>3. ~Landed(r) /\ Landed(r)' /\ \A q \in Requests \ {r} : Landed(q)' <=> Landed(q)
    BY <1>5 DEF ModuleRowWritten, Advance, Landed, TypeOK, Kinds
  <2> SUFFICES ASSUME NEW c \in Courses, NEW p \in Positions
               PROVE  SumsUp(modules[<<c, p>>], Delivered(c, p), scored)'
    BY DEF RowsCounted
  <2>4. SumsUp(modules[<<c, p>>], Delivered(c, p), scored) /\ modules[<<c, p>>] \in ModuleRow \cup {NoRow}
    BY DEF RowsCounted, TypeOK, RecordsTypeOK
  <2>6. CASE <<c, p>> = key
    <3>1. c = op[r].course /\ p = op[r].pos /\ modules'[<<c, p>>] = new
      BY <2>1, <2>6 DEF TypeOK, RecordsTypeOK
    <3>2. \A q \in Delivered(c, p) \cup {r} :
            scored[q] \in [quiz : Slugs, score : Scores, passed : BOOLEAN]
      BY <1>5 DEF Delivered, CallsMatch, ModuleRowWritten, Advance
    <3>3. r \notin Delivered(c, p) /\ Delivered(c, p)' = Delivered(c, p) \cup {r}
      BY <2>2, <2>3, <3>1 DEF Delivered, Landed, QuizOps
    <3>4. new = Attempted(modules[<<c, p>>], scored[r].quiz, scored[r].score, scored[r].passed)
      BY <2>6
    <3> HIDE DEF new
    <3>5. SumsUp(new, Delivered(c, p) \cup {r}, scored)
      BY <2>4, <3>2, <3>3, <3>4, UpsertSumsUp
    <3> QED
      BY <2>2, <3>1, <3>3, <3>5
  <2>7. CASE <<c, p>> # key
    <3>1. modules'[<<c, p>>] = modules[<<c, p>>]
      BY <2>1, <2>7 DEF TypeOK, RecordsTypeOK
    <3>2. Delivered(c, p)' = Delivered(c, p)
      BY <2>2, <2>3, <2>7 DEF Delivered, Landed
    <3> QED
      BY <2>2, <2>4, <3>1, <3>2
  <2> QED
    BY <2>6, <2>7
<1> QED
  BY <1>2, <1>3, <1>4, <1>5, StepKinds

CountInv == TypeOK /\ CallsMatch /\ ResultLate /\ RowsCounted

\* Whatever the number of overlapping submissions, and in whatever order their
\* detached results land, the row of a module counts each result once, holds
\* the best of their scores and a pass if one of them passed (RecordProgress).
THEOREM AttemptsAlwaysCounted == Spec => []AttemptsCounted
<1>1. Init => CountInv
  <2> SUFFICES ASSUME Init PROVE ResultLate /\ RowsCounted
    BY InitTypes DEF CountInv
  <2>1. ResultLate
    BY DEF Init, ResultLate, Kinds
  <2>2. \A c \in Courses, p \in Positions : Delivered(c, p) = {} /\ modules[<<c, p>>] = NoRow
    BY DEF Init, RecordsInit, Delivered, Kinds
  <2>3. SumsUp(NoRow, {}, scored)
    BY FS_EmptySet DEF SumsUp, NoRow
  <2> QED
    BY <2>1, <2>2, <2>3 DEF RowsCounted
<1>2. CountInv /\ [Next]_vars => CountInv'
  <2> SUFFICES ASSUME CountInv, [Next]_vars PROVE CountInv'
    OBVIOUS
  <2>1. TypeOK' /\ CallsMatch'
    BY TypesStep DEF CountInv
  <2>2. CASE Next
    BY <2>1, <2>2, LateStep, CountStep DEF CountInv
  <2>3. CASE UNCHANGED vars
    BY <2>1, <2>3 DEF CountInv, vars, records, flow, ResultLate, RowsCounted, Delivered
  <2> QED
    BY <2>2, <2>3
<1>3. CountInv => AttemptsCounted
  BY DEF CountInv, RowsCounted, SumsUp, AttemptsCounted
<1> QED
  BY <1>1, <1>2, <1>3, PTL DEF Spec

-----------------------------------------------------------------------------
(* A completion is never early                                             *)

\* The lists of modules a learner may be shown of a course.
Lists(c) == {VisibleModules(v, fetched) : v \in Versions[c], fetched \in BOOLEAN}

\* The quizzes that may stand at a position of the course.
QuizzesAt(c, p) ==
  {s \in Slugs : \E list \in Lists(c) : \E i \in DOMAIN list :
                   IndexOf(list, i) = p /\ list[i].quiz /\ list[i].slug = s}

\* No edit and no index that cannot be fetched puts a quiz in the place of
\* another.  Rows are keyed by position, so nothing holds without it.
PlacesKept ==
  \A c \in Courses, p \in Positions : \A s, t \in QuizzesAt(c, p) : s = t

\* All the modules a request works on are done.
AllDone(r) ==
  \A i \in DOMAIN shown[r] : shown[r][i].hidden \/ ReallyDone(op[r].course, shown[r][i])

ListsReal == \A r \in Requests : pc[r] # "idle" => shown[r] \in Lists(op[r].course)

\* A result is one of a quiz at the position that was asked for.
ResultsReal ==
  \A r \in Requests : scored[r] # NotScored =>
    scored[r].quiz \in QuizzesAt(op[r].course, op[r].pos)

\* What a row says was passed was.
RowReal(c, p) ==
  LET row == modules[<<c, p>>] IN
  row # NoRow => row.slug \in QuizzesAt(c, p) /\ (row.passed => ReallyPassed(c, row.slug))

RowsReal == \A c \in Courses, p \in Positions : RowReal(c, p)

\* What a request has read of the progress was so, and still is.
ViewReal(r) ==
  /\ pc[r] = "idle" => view[r] = EmptyView
  /\ \A s \in view[r].viewed : <<op[r].course, s>> \in lessons
  /\ \A s \in view[r].passed : ReallyPassed(op[r].course, s)

ViewsReal == \A r \in Requests : ViewReal(r)

LessonsStored ==
  \A r \in Requests : call[r]["lesson"] \in {"row", "done"} =>
    <<op[r].course, op[r].slug>> \in lessons

\* A completion is reported by a request that works on nothing undone.
ReportsReal == \A r \in Requests : call[r]["complete"] # "none" => AllDone(r)

Sound ==
  /\ ListsReal /\ ResultsReal /\ RowsReal /\ ViewsReal
  /\ LessonsStored /\ ReportsReal /\ CompletionSound

SoundInv == PlacesKept /\ TypeOK /\ CallsMatch /\ ResultLate /\ Sound

\* What was done stays done, and what a request has seen done with it.
LEMMA DoneKept ==
  ASSUME TypeOK, CallsMatch, ResultLate, Next
  PROVE  /\ \A c, s : ReallyPassed(c, s) => ReallyPassed(c, s)'
         /\ \A r \in Requests : pc[r] # "idle" /\ AllDone(r) => AllDone(r)'
<1>1. ASSUME NEW c, NEW s, ReallyPassed(c, s) PROVE ReallyPassed(c, s)'
  <2>1. PICK r \in Requests : /\ op[r].kind = "quiz" /\ op[r].course = c
                              /\ scored[r].passed /\ scored[r].quiz = s
    BY <1>1 DEF ReallyPassed
  <2>2. scored[r] # NotScored
    BY <2>1 DEF NotScored
  <2>3. pc[r] # "idle"
    BY <2>2 DEF ResultLate, Finished
  <2>4. op'[r] = op[r] /\ scored'[r] = scored[r]
    BY <2>2, <2>3, HistoryKept
  <2> QED
    BY <2>1, <2>4 DEF ReallyPassed
<1>2. ASSUME NEW r \in Requests, pc[r] # "idle", AllDone(r) PROVE AllDone(r)'
  <2>1. op'[r] = op[r] /\ shown'[r] = shown[r] /\ lessons \subseteq lessons'
    BY <1>2, HistoryKept
  <2>2. \A m : ReallyDone(op[r].course, m) => ReallyDone(op[r].course, m)'
    BY <1>1, <2>1 DEF ReallyDone
  <2> QED
    BY <1>2, <2>1, <2>2 DEF AllDone
<1> QED
  BY <1>1, <1>2

LEMMA ListsStep ==
  ASSUME TypeOK, CallsMatch, ResultLate, ListsReal, Next
  PROVE  ListsReal'
<1>1. ASSUME NEW r \in Requests, Start(r) PROVE ListsReal'
  <2>1. PICK o \in Asks, fetched \in BOOLEAN :
          /\ op' = [op EXCEPT ![r] = o]
          /\ shown' = [shown EXCEPT ![r] = VisibleModules(listing[o.course], fetched)]
    BY <1>1 DEF Start
  <2>2. VisibleModules(listing[o.course], fetched) \in Lists(o.course)
    <3>1. o.course \in Courses
      BY FlowAssumption DEF LessonOps, QuizOps
    <3>2. listing[o.course] \in Versions[o.course]
      BY <3>1 DEF TypeOK, Listings
    <3> QED
      BY <3>2 DEF Lists
  <2> QED
    BY <1>1, <2>1, <2>2 DEF Start, Goto, TypeOK, ListsReal
<1>2. ASSUME NEW r \in Requests, ScoreSubmission(r) \/ Onward(r)
      PROVE  ListsReal'
  BY <1>2 DEF ScoreSubmission, Onward, Goto, TypeOK, ListsReal
<1>3. ASSUME Behind PROVE ListsReal'
  BY <1>3 DEF Behind, flow, ListsReal
<1> QED
  BY <1>1, <1>2, <1>3, StepKinds

LEMMA ResultsStep ==
  ASSUME TypeOK, CallsMatch, ResultLate, ListsReal, ResultsReal, Next
  PROVE  ResultsReal'
<1>1. ASSUME NEW r \in Requests, Start(r) \/ Onward(r) PROVE ResultsReal'
  <2>1. UNCHANGED scored
    BY <1>1 DEF Start, Onward
  <2> QED
    BY <2>1, HistoryKept DEF ResultsReal, ResultLate, Finished
<1>2. ASSUME NEW r \in Requests, ScoreSubmission(r) PROVE ResultsReal'
  <2>1. PICK i \in DOMAIN shown[r], score \in Scores :
          /\ IndexOf(shown[r], i) = op[r].pos /\ shown[r][i].quiz
          /\ scored' = [scored EXCEPT ![r] =
                           [quiz |-> shown[r][i].slug, score |-> score, passed |-> score >= PassScore]]
    BY <1>2 DEF ScoreSubmission
  <2>2. shown[r] \in Lists(op[r].course) /\ shown[r] \in Listing
    BY <1>2 DEF ScoreSubmission, Goto, ListsReal, TypeOK
  <2>3. shown[r][i].slug \in QuizzesAt(op[r].course, op[r].pos)
    BY <2>1, <2>2 DEF QuizzesAt, Listing, Module
  <2>4. UNCHANGED op
    BY <1>2 DEF ScoreSubmission
  <2> QED
    BY <2>1, <2>3, <2>4 DEF ResultsReal, TypeOK
<1>3. ASSUME Behind PROVE ResultsReal'
  BY <1>3 DEF Behind, flow, ResultsReal
<1> QED
  BY <1>1, <1>2, <1>3, StepKinds

LEMMA RowsStep ==
  ASSUME PlacesKept, TypeOK, CallsMatch, ResultLate, ResultsReal, RowsReal, Next
  PROVE  RowsReal'
<1>1. CASE UNCHANGED modules
  BY <1>1, DoneKept DEF RowsReal, RowReal
<1>2. ASSUME NEW r \in Requests, ModuleRowWritten(r) PROVE RowsReal'
  <2> DEFINE key == <<op[r].course, op[r].pos>>
             quiz == scored[r].quiz
             new == Attempted(modules[key], quiz, scored[r].score, scored[r].passed)
  <2>1. modules' = [modules EXCEPT ![key] = new] /\ UNCHANGED <<op, scored>>
    BY <1>2 DEF ModuleRowWritten, RecordProgress, flow
  <2>2. /\ op[r] \in QuizOps /\ op[r].kind = "quiz"
        /\ op[r].course \in Courses /\ op[r].pos \in Positions
        /\ scored[r] \in [quiz : Slugs, score : Scores, passed : BOOLEAN]
    BY <1>2 DEF ModuleRowWritten, Advance, CallsMatch, QuizOps
  <2>3. scored[r] # NotScored
    BY <2>2, RecordsAssumption DEF NotScored
  <2>4. quiz \in QuizzesAt(op[r].course, op[r].pos)
    BY <2>3 DEF ResultsReal
  <2>5. scored[r].passed => ReallyPassed(op[r].course, quiz)
    BY <2>2 DEF ReallyPassed
  <2>6. modules[key] \in ModuleRow \cup {NoRow}
    BY <2>2 DEF TypeOK, RecordsTypeOK
  <2>7. /\ new.slug = quiz
        /\ new.passed => scored[r].passed \/ (modules[key] # NoRow /\ modules[key].passed)
        /\ modules[key] # NoRow => modules[key].slug = quiz
    <3>1. CASE modules[key] = NoRow
      BY <3>1 DEF Attempted
    <3>2. CASE modules[key] # NoRow
      <4>1. modules[key] \in ModuleRow
        BY <2>6, <3>2
      <4>2. /\ new.slug = modules[key].slug
            /\ new.passed = (modules[key].passed \/ scored[r].passed)
        BY <3>2, <4>1 DEF Attempted, ModuleRow
      <4>3. modules[key].slug = quiz
        BY <2>2, <2>4, <3>2 DEF RowsReal, RowReal, PlacesKept
      <4>4. new.passed => modules[key].passed \/ scored[r].passed
        BY <4>2, Zenon
      <4> HIDE DEF new
      <4> QED
        BY <3>2, <4>2, <4>3, <4>4
    <3> QED
      BY <3>1, <3>2
  <2>8. new.passed => ReallyPassed(op[r].course, new.slug)
    BY <2>2, <2>5, <2>7 DEF RowsReal, RowReal
  <2> HIDE DEF new
  <2> SUFFICES ASSUME NEW c \in Courses, NEW p \in Positions PROVE RowReal(c, p)'
    BY DEF RowsReal
  <2>9. CASE <<c, p>> = key
    <3>1. modules'[<<c, p>>] = new /\ c = op[r].course /\ p = op[r].pos
      BY <2>1, <2>9 DEF TypeOK, RecordsTypeOK
    <3> QED
      BY <2>4, <2>7, <2>8, <3>1, DoneKept DEF RowReal
  <2>10. CASE <<c, p>> # key
    <3>1. modules'[<<c, p>>] = modules[<<c, p>>]
      BY <2>1, <2>10 DEF TypeOK, RecordsTypeOK
    <3> QED
      BY <3>1, DoneKept DEF RowsReal, RowReal
  <2> QED
    BY <2>9, <2>10
<1>3. UNCHANGED modules \/ \E r \in Requests : ModuleRowWritten(r)
  BY StepKinds DEF Start, ScoreSubmission, Onward, LandedSame, records
<1> QED
  BY <1>1, <1>2, <1>3

\* What a query reads was done.
LEMMA ReadReal ==
  ASSUME TypeOK, RowsReal, NEW c \in Courses
  PROVE  /\ \A s \in ViewedSlugs(c) : <<c, s>> \in lessons
         /\ \A s \in PassedModules(c) : ReallyPassed(c, s)
<1>1. ASSUME NEW s \in PassedModules(c) PROVE ReallyPassed(c, s)
  <2>1. PICK p \in Positions : /\ modules[<<c, p>>] # NoRow /\ modules[<<c, p>>].passed
                               /\ s = modules[<<c, p>>].slug
    BY DEF PassedModules, Attempts
  <2> QED
    BY <2>1 DEF RowsReal, RowReal
<1> QED
  BY <1>1 DEF ViewedSlugs

\* A request changes nothing of its view but by reading, or by losing it.
LEMMA ViewChange ==
  ASSUME TypeOK, CallsMatch, Next, NEW q \in Requests
  PROVE  \/ view'[q] = view[q]
         \/ /\ pc[q] # "idle" /\ pc'[q] # "idle"
            /\ view'[q].viewed \in {view[q].viewed, ViewedSlugs(op[q].course), {}}
            /\ view'[q].passed \in {view[q].passed, PassedModules(op[q].course), {}}
<1>1. ASSUME NEW r \in Requests,
             ReadViewed(r) \/ ReadModules(r) \/ ReadEnrolled(r) \/ OverviewFails(r)
             \/ ReadPrereqViewed(r)
      PROVE  \/ view'[q] = view[q]
             \/ /\ q = r /\ pc[q] # "idle" /\ pc'[q] # "idle"
                /\ view'[q].viewed \in {view[q].viewed, ViewedSlugs(op[q].course), {}}
                /\ view'[q].passed \in {view[q].passed, PassedModules(op[q].course), {}}
  <2>1. pc[r] # "idle" /\ pc'[r] # "idle"
    BY <1>1 DEF ReadViewed, ReadModules, ReadEnrolled, OverviewFails, ReadPrereqViewed, Goto, TypeOK
  <2>2. view[r] \in View
    BY DEF TypeOK
  <2>3. CASE ReadViewed(r)
    BY <2>1, <2>2, <2>3 DEF ReadViewed, TypeOK, View
  <2>4. CASE ReadModules(r)
    BY <2>1, <2>2, <2>4 DEF ReadModules, TypeOK, View
  <2>5. CASE ReadEnrolled(r)
    BY <2>1, <2>2, <2>5 DEF ReadEnrolled, TypeOK, View
  <2>6. CASE OverviewFails(r)
    BY <2>1, <2>2, <2>6 DEF OverviewFails, TypeOK, EmptyView
  <2>7. CASE ReadPrereqViewed(r)
    <3> DEFINE Begun == {p.course : p \in {d \in Prereqs[op[r].course] : ViewedSlugs(d.course) # {}}}
    <3>1. view' = [view EXCEPT ![r].begun = Begun]
      BY <2>7 DEF ReadPrereqViewed
    <3> HIDE DEF Begun
    <3> QED
      BY <2>1, <2>2, <3>1 DEF TypeOK, View
  <2> QED
    BY <1>1, <2>3, <2>4, <2>5, <2>6, <2>7
<1>2. \/ UNCHANGED view
      \/ \E r \in Requests : ReadViewed(r) \/ ReadModules(r) \/ ReadEnrolled(r)
                            \/ OverviewFails(r) \/ ReadPrereqViewed(r)
  BY ZenonT(60) DEF Next, Serve, Handle, Disturb, Start, EnsureAccess, CheckPrereqs, SummariesFail,
     PostLesson, LessonPosted, LessonRefused, RefuseSubmission, ScoreSubmission, Notified,
     GiveUp, LessonRow, LessonXP, ModuleRowWritten, ModuleXP, CompleteRow, CompleteBadge,
     CompleteXP, CompleteSkills, AutoEnroll, StatementSkipped, CallFails, SaveCourse, Enroll, Unenroll, flow
<1> QED
  BY <1>1, <1>2

LEMMA ViewsStep ==
  ASSUME TypeOK, CallsMatch, ResultLate, RowsReal, ViewsReal, Next
  PROVE  ViewsReal'
<1> SUFFICES ASSUME NEW r \in Requests PROVE ViewReal(r)'
  BY DEF ViewsReal
<1>1. ViewReal(r)
  BY DEF ViewsReal
<1>2. CASE pc[r] = "idle"
  <2>1. view'[r] = view[r] /\ view[r] = EmptyView
    BY <1>1, <1>2, ViewChange DEF ViewReal
  <2> QED
    BY <2>1 DEF ViewReal, EmptyView
<1>3. CASE pc[r] # "idle"
  <2>1. pc'[r] # "idle" /\ op'[r] = op[r] /\ lessons \subseteq lessons'
    BY <1>3, HistoryKept
  <2>2. op[r].course \in Courses
    BY <1>3, OpTypes
  <2>3. /\ view'[r].viewed \in {view[r].viewed, ViewedSlugs(op[r].course), {}}
        /\ view'[r].passed \in {view[r].passed, PassedModules(op[r].course), {}}
    BY ViewChange
  <2>4. \A s \in view'[r].viewed : <<op[r].course, s>> \in lessons
    BY <1>1, <2>2, <2>3, ReadReal DEF ViewReal
  <2>5. \A s \in view'[r].passed : ReallyPassed(op[r].course, s)
    BY <1>1, <2>2, <2>3, ReadReal DEF ViewReal
  <2> QED
    BY <2>1, <2>4, <2>5, DoneKept DEF ViewReal
<1> QED
  BY <1>2, <1>3

\* How the lesson and the completion call of a request come to be where they are.
LEMMA CallChange ==
  ASSUME TypeOK, CallsMatch, Next, NEW q \in Requests
  PROVE  /\ call'[q]["lesson"] \in {"row", "done"} =>
              call[q]["lesson"] \in {"row", "done"} \/ LessonRow(q)
         /\ call'[q]["complete"] # "none" =>
              \/ call[q]["complete"] # "none"
              \/ LessonPosted(q) /\ CourseCompleted(q, {}, {op[q].slug})
              \/ ScoreSubmission(q) /\ \E i \in DOMAIN shown[q] :
                   /\ scored'[q].quiz = shown[q][i].slug /\ scored'[q].passed
                   /\ CourseCompleted(q, {shown[q][i].slug}, {})
<1>1. ASSUME NEW r \in Requests, Start(r) \/ RefuseSubmission(r) \/ Notified(r) \/ GiveUp(r)
             \/ ReadViewed(r) \/ ReadModules(r) \/ ReadEnrolled(r) \/ OverviewFails(r)
             \/ ReadPrereqViewed(r) \/ CheckPrereqs(r) \/ SummariesFail(r) \/ LessonRefused(r)
      PROVE  UNCHANGED call
  BY <1>1 DEF Start, RefuseSubmission, Notified, GiveUp, ReadViewed, ReadModules, ReadEnrolled,
     OverviewFails, ReadPrereqViewed, CheckPrereqs, SummariesFail, LessonRefused
<1>2. ASSUME NEW r \in Requests, EnsureAccess(r) \/ PostLesson(r)
      PROVE  /\ call'[q]["lesson"] \in {call[q]["lesson"], "sent"}
             /\ call'[q]["complete"] = call[q]["complete"]
  BY <1>2 DEF EnsureAccess, PostLesson, Send, TypeOK, Kinds
<1>3. ASSUME NEW r \in Requests, LessonPosted(r)
      PROVE  /\ call'[q]["lesson"] = call[q]["lesson"]
             /\ \/ call'[q]["complete"] = call[q]["complete"]
                \/ q = r /\ CourseCompleted(q, {}, {op[q].slug})
  BY <1>3 DEF LessonPosted, Send, TypeOK, Kinds
<1>4. ASSUME NEW r \in Requests, ScoreSubmission(r)
      PROVE  /\ call'[q]["lesson"] = call[q]["lesson"]
             /\ \/ call'[q]["complete"] = call[q]["complete"]
                \/ q = r /\ \E i \in DOMAIN shown[q] :
                     /\ scored'[q].quiz = shown[q][i].slug /\ scored'[q].passed
                     /\ CourseCompleted(q, {shown[q][i].slug}, {})
  <2>1. PICK i \in DOMAIN shown[r], score \in Scores :
          LET complete == score >= PassScore /\ CourseCompleted(r, {shown[r][i].slug}, {})
          IN  /\ scored' = [scored EXCEPT ![r] =
                    [quiz |-> shown[r][i].slug, score |-> score, passed |-> score >= PassScore]]
              /\ call' = [call EXCEPT ![r]["module"] = "sent",
                                      ![r]["complete"] = IF complete THEN "sent" ELSE @]
    BY <1>4 DEF ScoreSubmission
  <2> QED
    BY <2>1 DEF TypeOK, Kinds
<1>5. ASSUME NEW r \in Requests, Handle(r) \/ StatementSkipped(r) \/ (\E k \in Kinds : CallFails(r, k))
      PROVE  /\ call'[q]["lesson"] \in {"row", "done"} =>
                  call[q]["lesson"] \in {"row", "done"} \/ (q = r /\ LessonRow(q))
             /\ call'[q]["complete"] # "none" => call[q]["complete"] # "none"
  <2>1. \E k \in Kinds, from, to \in Steps :
          /\ Advance(r, k, from, to) /\ from # "none"
          /\ k = "lesson" => \/ (to \in {"row", "done"} => from \in {"row", "done"})
                            \/ LessonRow(r)
    BY <1>5 DEF Handle, LessonRow, LessonXP, ModuleRowWritten, ModuleXP, CompleteRow, CompleteBadge,
       CompleteXP, CompleteSkills, AutoEnroll, StatementSkipped, CallFails, Kinds, Steps
  <2> QED
    BY <2>1 DEF Advance, TypeOK, Kinds
<1>6. ASSUME NEW c \in Courses, SaveCourse(c) \/ Enroll(c) \/ Unenroll(c) PROVE UNCHANGED call
  BY <1>6 DEF SaveCourse, Enroll, Unenroll
<1> QED
  BY <1>1, <1>2, <1>3, <1>4, <1>5, <1>6 DEF Next, Serve, Disturb

LEMMA LessonsStep ==
  ASSUME TypeOK, CallsMatch, ResultLate, LessonsStored, Next
  PROVE  LessonsStored'
<1> SUFFICES ASSUME NEW q \in Requests, call'[q]["lesson"] \in {"row", "done"}
             PROVE  <<op'[q].course, op'[q].slug>> \in lessons'
  BY DEF LessonsStored
<1>1. CASE call[q]["lesson"] \in {"row", "done"}
  <2>1. pc[q] # "idle"
    BY <1>1, CallArrived DEF Kinds
  <2>2. op'[q] = op[q] /\ lessons \subseteq lessons'
    BY <2>1, HistoryKept
  <2> QED
    BY <1>1, <2>2 DEF LessonsStored
<1>2. CASE LessonRow(q)
  BY <1>2 DEF LessonRow, MarkComplete, flow
<1> QED
  BY <1>1, <1>2, CallChange

LEMMA ReportsStep ==
  ASSUME TypeOK, CallsMatch, ResultLate, ViewsReal, LessonsStored, ReportsReal, Next
  PROVE  ReportsReal'
<1> SUFFICES ASSUME NEW q \in Requests, call'[q]["complete"] # "none" PROVE AllDone(q)'
  BY DEF ReportsReal
<1>0. ViewReal(q)
  BY DEF ViewsReal
<1>1. CASE call[q]["complete"] # "none"
  <2>1. pc[q] # "idle" /\ AllDone(q)
    BY <1>1, CallArrived DEF Kinds, ReportsReal
  <2> QED
    BY <2>1, DoneKept
<1>2. CASE LessonPosted(q) /\ CourseCompleted(q, {}, {op[q].slug})
  <2>1. call[q]["lesson"] = "done" /\ pc[q] = "posting"
    BY <1>2 DEF LessonPosted, Goto
  <2>2. <<op[q].course, op[q].slug>> \in lessons
    BY <2>1 DEF LessonsStored
  <2>3. AllDone(q)
    BY <1>0, <1>2, <2>2 DEF CourseCompleted, AllDone, ReallyDone, ViewReal
  <2> QED
    BY <2>1, <2>3, DoneKept
<1>3. ASSUME ScoreSubmission(q), NEW j \in DOMAIN shown[q],
             scored'[q].quiz = shown[q][j].slug, scored'[q].passed,
             CourseCompleted(q, {shown[q][j].slug}, {})
      PROVE  AllDone(q)'
  <2>1. op[q].kind = "quiz" /\ UNCHANGED <<op, shown, lessons>>
    BY <1>3 DEF ScoreSubmission, records
  <2>2. ReallyPassed(op[q].course, shown[q][j].slug)'
    BY <1>3, <2>1 DEF ReallyPassed
  <2>3. \A s \in view[q].passed : ReallyPassed(op[q].course, s)'
    BY <1>0, <2>1, DoneKept DEF ViewReal
  <2> SUFFICES ASSUME NEW i \in DOMAIN shown[q], ~shown[q][i].hidden
               PROVE  ReallyDone(op[q].course, shown[q][i])'
    BY <2>1 DEF AllDone
  <2>4. CASE shown[q][i].quiz
    BY <1>3, <2>1, <2>2, <2>3, <2>4 DEF CourseCompleted, ReallyDone
  <2>5. CASE ~shown[q][i].quiz
    BY <1>0, <1>3, <2>1, <2>5 DEF CourseCompleted, ReallyDone, ViewReal
  <2> QED
    BY <2>4, <2>5
<1> QED
  BY <1>1, <1>2, <1>3, CallChange

LEMMA CompletionStep ==
  ASSUME TypeOK, CallsMatch, ResultLate, ReportsReal, CompletionSound, Next
  PROVE  CompletionSound'
<1> DEFINE Witness(r, c) == op[r] # NoOp /\ op[r].course = c /\ AllDone(r)
<1>1. \A c \in CompletedCourses : \E r \in Requests : Witness(r, c)
  BY DEF CompletionSound, AllDone
<1>2. ASSUME NEW r \in Requests, NEW c, Witness(r, c) PROVE Witness(r, c)'
  <2>1. pc[r] # "idle"
    BY <1>2 DEF CallsMatch
  <2> QED
    BY <1>2, <2>1, HistoryKept, DoneKept
<1>3. ASSUME NEW c \in CompletedCourses' PROVE \E r \in Requests : Witness(r, c)'
  <2>1. c \in Courses /\ <<c, Complete>> \in lessons'
    BY DEF CompletedCourses
  <2>2. CASE <<c, Complete>> \in lessons
    <3>1. c \in CompletedCourses
      BY <2>1, <2>2 DEF CompletedCourses
    <3> QED
      BY <1>1, <1>2, <3>1
  <2>3. CASE <<c, Complete>> \notin lessons
    <3>1. \/ UNCHANGED lessons
          \/ \E r \in Requests : LessonRow(r) \/ CompleteRow(r)
      BY ZenonT(60) DEF Next, Serve, Handle, Disturb, Start, ReadViewed, ReadModules, ReadEnrolled,
         OverviewFails, EnsureAccess, ReadPrereqViewed, CheckPrereqs, SummariesFail,
         PostLesson, LessonPosted, LessonRefused, RefuseSubmission, ScoreSubmission, Notified,
         GiveUp, LessonXP, ModuleRowWritten, ModuleXP, CompleteBadge, CompleteXP,
         CompleteSkills, AutoEnroll, StatementSkipped, CallFails, SaveCourse, Enroll, Unenroll, records
    <3>2. ASSUME NEW r \in Requests, LessonRow(r) PROVE FALSE
      <4>1. op[r].slug \in Slugs /\ lessons' = lessons \cup {<<op[r].course, op[r].slug>>}
        BY <3>2 DEF LessonRow, Advance, MarkComplete, CallsMatch, LessonOps
      <4> QED
        BY <2>1, <2>3, <4>1, RecordsAssumption
    <3>3. ASSUME NEW r \in Requests, CompleteRow(r) PROVE Witness(r, c)'
      <4>1. /\ call[r]["complete"] = "sent"
            /\ lessons' = lessons \cup {<<op[r].course, Complete>>}
        BY <3>3 DEF CompleteRow, Advance, MarkComplete
      <4>2. op[r].course = c /\ AllDone(r)
        BY <2>1, <2>3, <4>1 DEF ReportsReal
      <4>3. op[r] # NoOp
        BY <4>1, CallArrived, FlowAssumption DEF Kinds, NoOp, LessonOps, QuizOps
      <4> QED
        BY <1>2, <4>2, <4>3
    <3> QED
      BY <2>1, <2>3, <3>1, <3>2, <3>3
  <2> QED
    BY <2>2, <2>3
<1> QED
  BY <1>3 DEF CompletionSound, AllDone

LEMMA AlwaysSound == PlacesKept /\ Spec => []SoundInv
<1>1. PlacesKept /\ Init => SoundInv
  <2> SUFFICES ASSUME PlacesKept, Init PROVE ResultLate /\ Sound
    BY InitTypes DEF SoundInv
  <2>1. ResultLate /\ ListsReal /\ ResultsReal /\ LessonsStored /\ ReportsReal
    BY DEF Init, ResultLate, ListsReal, ResultsReal, LessonsStored, ReportsReal, Kinds
  <2>2. RowsReal
    BY DEF Init, RecordsInit, RowsReal, RowReal
  <2>3. ViewsReal
    BY DEF Init, ViewsReal, ViewReal, EmptyView
  <2>4. CompletionSound
    BY DEF Init, RecordsInit, CompletionSound, CompletedCourses
  <2> QED
    BY <2>1, <2>2, <2>3, <2>4 DEF Sound
<1>2. SoundInv /\ [Next]_vars => SoundInv'
  <2> SUFFICES ASSUME SoundInv, [Next]_vars PROVE SoundInv'
    OBVIOUS
  <2>1. TypeOK' /\ CallsMatch' /\ PlacesKept'
    BY TypesStep DEF SoundInv, PlacesKept, QuizzesAt, Lists
  <2>2. CASE Next
    <3>1. ResultLate' /\ ListsReal' /\ ResultsReal' /\ RowsReal'
      BY <2>2, LateStep, ListsStep, ResultsStep, RowsStep DEF SoundInv, Sound
    <3>2. ViewsReal' /\ LessonsStored' /\ ReportsReal' /\ CompletionSound'
      BY <2>2, ViewsStep, LessonsStep, ReportsStep, CompletionStep DEF SoundInv, Sound
    <3> QED
      BY <2>1, <3>1, <3>2 DEF SoundInv, Sound
  <2>3. CASE UNCHANGED vars
    <3>1. ResultLate' /\ ListsReal' /\ ResultsReal' /\ LessonsStored'
      BY <2>3 DEF SoundInv, Sound, vars, records, flow, ResultLate, ListsReal, ResultsReal, LessonsStored
    <3>2. \A c, s : ReallyPassed(c, s)' <=> ReallyPassed(c, s)
      BY <2>3 DEF vars, flow, ReallyPassed
    <3>3. \A r \in Requests : AllDone(r)' <=> AllDone(r)
      BY <2>3, <3>2 DEF vars, records, flow, AllDone, ReallyDone
    <3>4. RowsReal' /\ ViewsReal' /\ ReportsReal'
      BY <2>3, <3>2, <3>3 DEF SoundInv, Sound, vars, records, flow, RowsReal, RowReal, ViewsReal,
         ViewReal, ReportsReal
    <3>5. CompletionSound'
      BY <2>3, <3>3 DEF SoundInv, Sound, vars, records, flow, CompletionSound, CompletedCourses, AllDone
    <3> QED
      BY <2>1, <3>1, <3>4, <3>5 DEF SoundInv, Sound
  <2> QED
    BY <2>2, <2>3
<1> QED
  BY <1>1, <1>2, PTL DEF Spec

\* Where every quiz keeps its place, a course is recorded as completed only
\* when some request saw a list of which the learner has done everything: no
\* number of overlapping requests, late, lost or failed calls, timeouts, edits
\* or missing indexes completes a course early (courseCompleted,
\* MarkLessonComplete, finalizeSubmission).
THEOREM CompletionAlwaysSound == PlacesKept /\ Spec => []CompletionSound
<1>1. SoundInv => CompletionSound
  BY DEF SoundInv, Sound
<1> QED
  BY <1>1, AlwaysSound, PTL

-----------------------------------------------------------------------------
(* An undisturbed completion gives everything                              *)

\* A completion call in flight whose request has been answered was given up on.
GivenUp ==
  \A r \in Requests : call[r]["complete"] # "none" =>
    /\ pc[r] \in {"notifying"} \cup Finished
    /\ pc[r] \in Finished /\ InFlight(r, "complete") => faults # MaxFaults

\* What each statement behind a completion call has left.
GrantedSoFar(r) ==
  LET c == op[r].course  step == call[r]["complete"]
  IN  /\ step \in {"badge", "xp", "done"} => c \in badges
      /\ step \in {"xp", "done"} => <<"course", c, Complete>> \in xp
      /\ step = "done" => \A s \in SkillsOf[c] : levels[s].level >= Difficulty[c]

Granted == faults = MaxFaults => \A r \in Requests : GrantedSoFar(r)

\* Faults are only used up.
LEMMA FaultsStep ==
  ASSUME TypeOK, Next
  PROVE  /\ faults' = MaxFaults => faults = MaxFaults
         /\ Fault => faults' # MaxFaults
<1>1. faults \in 0..MaxFaults /\ MaxFaults \in Nat
  BY FlowAssumption DEF TypeOK
<1>2. Fault => faults' # MaxFaults
  BY <1>1 DEF Fault
<1>3. UNCHANGED faults \/ Fault
  BY ZenonT(60) DEF Next, Serve, Handle, Disturb, Start, ReadViewed, ReadModules, ReadEnrolled,
     OverviewFails, EnsureAccess, ReadPrereqViewed, CheckPrereqs, SummariesFail,
     PostLesson, LessonPosted, LessonRefused, RefuseSubmission, ScoreSubmission, Notified,
     GiveUp, LessonRow, LessonXP, ModuleRowWritten, ModuleXP, CompleteRow, CompleteBadge,
     CompleteXP, CompleteSkills, AutoEnroll, StatementSkipped, CallFails, FaultIn, SaveCourse, Enroll, Unenroll
<1> QED
  BY <1>1, <1>2, <1>3 DEF Fault

LEMMA GivenUpStep ==
  ASSUME TypeOK, CallsMatch, GivenUp, Next
  PROVE  GivenUp'
<1>1. ASSUME NEW r \in Requests,
             \/ Start(r) \/ ReadViewed(r) \/ ReadModules(r) \/ ReadEnrolled(r) \/ OverviewFails(r)
             \/ ReadPrereqViewed(r) \/ CheckPrereqs(r) \/ SummariesFail(r) \/ LessonRefused(r)
             \/ RefuseSubmission(r) \/ EnsureAccess(r) \/ PostLesson(r)
      PROVE  GivenUp'
  <2>1. pc[r] \notin {"notifying"} \cup Finished /\ call[r]["complete"] = "none"
    BY <1>1 DEF Start, ReadViewed, ReadModules, ReadEnrolled, OverviewFails, ReadPrereqViewed,
       CheckPrereqs, SummariesFail, LessonRefused, RefuseSubmission, EnsureAccess, PostLesson,
       Goto, GivenUp, Finished
  <2>2. \A q \in Requests : call'[q]["complete"] = call[q]["complete"]
    <3>1. CASE EnsureAccess(r) \/ PostLesson(r)
      <4>1. UNCHANGED call \/ Send(r, "enroll") \/ Send(r, "lesson")
        BY <3>1 DEF EnsureAccess, PostLesson
      <4> QED
        BY <4>1, SendOnly DEF Kinds
    <3>2. CASE ~(EnsureAccess(r) \/ PostLesson(r))
      BY <1>1, <3>2 DEF Start, ReadViewed, ReadModules, ReadEnrolled, OverviewFails,
         ReadPrereqViewed, CheckPrereqs, SummariesFail, LessonRefused, RefuseSubmission
    <3> QED
      BY <3>1, <3>2
  <2>3. \A q \in Requests \ {r} : pc'[q] = pc[q]
    BY <1>1 DEF Start, ReadViewed, ReadModules, ReadEnrolled, OverviewFails, ReadPrereqViewed,
       CheckPrereqs, SummariesFail, LessonRefused, RefuseSubmission, EnsureAccess, PostLesson,
       Goto, TypeOK
  <2> QED
    BY <2>1, <2>2, <2>3, FaultsStep DEF GivenUp, InFlight
<1>2. ASSUME NEW r \in Requests, LessonPosted(r) \/ ScoreSubmission(r) PROVE GivenUp'
  <2>1. pc[r] \notin {"notifying"} \cup Finished /\ call[r]["complete"] = "none"
    BY <1>2 DEF LessonPosted, ScoreSubmission, Goto, GivenUp, Finished
  <2>2. call'[r]["complete"] # "none" => pc'[r] = "notifying"
    <3>1. CASE LessonPosted(r)
      BY <2>1, <3>1 DEF LessonPosted, Goto, Send, TypeOK, Kinds
    <3>2. CASE ScoreSubmission(r)
      <4>1. PICK complete \in BOOLEAN :
              /\ Goto(r, "act", IF complete THEN "notifying" ELSE "ok")
              /\ call' = [call EXCEPT ![r]["module"] = "sent",
                                      ![r]["complete"] = IF complete THEN "sent" ELSE @]
        <5>1. PICK i \in DOMAIN shown[r], score \in Scores :
                LET complete == score >= PassScore /\ CourseCompleted(r, {shown[r][i].slug}, {})
                IN  /\ Goto(r, "act", IF complete THEN "notifying" ELSE "ok")
                    /\ call' = [call EXCEPT ![r]["module"] = "sent",
                                            ![r]["complete"] = IF complete THEN "sent" ELSE @]
          BY <3>2 DEF ScoreSubmission
        <5> DEFINE complete == score >= PassScore /\ CourseCompleted(r, {shown[r][i].slug}, {})
        <5>2. complete \in BOOLEAN
          OBVIOUS
        <5> QED
          BY <5>1, <5>2, Zenon
      <4> QED
        BY <2>1, <4>1 DEF Goto, TypeOK, Kinds
    <3> QED
      BY <1>2, <3>1, <3>2
  <2>3. \A q \in Requests \ {r} : pc'[q] = pc[q] /\ call'[q]["complete"] = call[q]["complete"]
    BY <1>2 DEF LessonPosted, ScoreSubmission, Goto, Send, TypeOK, Kinds
  <2> QED
    BY <2>2, <2>3, FaultsStep DEF GivenUp, InFlight, Finished
<1>3. ASSUME NEW r \in Requests, Notified(r) PROVE GivenUp'
  BY <1>3, FaultsStep DEF Notified, Goto, Answered, TypeOK, GivenUp, InFlight, Finished
<1>4. ASSUME NEW r \in Requests, GiveUp(r) PROVE GivenUp'
  <2>1. faults' # MaxFaults /\ UNCHANGED call
    BY <1>4, FaultsStep DEF GiveUp
  <2>2. \A q \in Requests : pc'[q] = pc[q] \/ pc'[q] \in Finished
    BY <1>4 DEF GiveUp, Goto, TypeOK, Finished
  <2> QED
    BY <2>1, <2>2 DEF GivenUp
<1>5. ASSUME NEW r \in Requests, Handle(r) \/ StatementSkipped(r) \/ (\E k \in Kinds : CallFails(r, k))
      PROVE  GivenUp'
  <2>1. UNCHANGED pc
    BY <1>5 DEF Handle, LessonRow, LessonXP, ModuleRowWritten, ModuleXP, CompleteRow, CompleteBadge,
       CompleteXP, CompleteSkills, AutoEnroll, StatementSkipped, CallFails, flow
  <2>2. \E k \in Kinds, from, to \in Steps :
          Advance(r, k, from, to) /\ from \notin {"none", "done", "failed"}
    BY <1>5 DEF Handle, LessonRow, LessonXP, ModuleRowWritten, ModuleXP, CompleteRow, CompleteBadge,
       CompleteXP, CompleteSkills, AutoEnroll, StatementSkipped, CallFails, Kinds, Steps
  <2>3. \A q \in Requests :
          /\ call'[q]["complete"] # "none" => call[q]["complete"] # "none"
          /\ InFlight(q, "complete")' => InFlight(q, "complete")
    BY <2>2 DEF Advance, TypeOK, Kinds, InFlight
  <2> QED
    BY <2>1, <2>3, FaultsStep DEF GivenUp
<1>6. ASSUME NEW c \in Courses, SaveCourse(c) \/ Enroll(c) \/ Unenroll(c) PROVE GivenUp'
  BY <1>6 DEF SaveCourse, Enroll, Unenroll, flow, GivenUp, InFlight
<1> QED
  BY <1>1, <1>2, <1>3, <1>4, <1>5, <1>6 DEF Next, Serve, Disturb

\* The statement that a completion call moves on with, unless it failed.
LEMMA CompleteChange ==
  ASSUME TypeOK, CallsMatch, Next, NEW q \in Requests
  PROVE  \/ call'[q]["complete"] = call[q]["complete"]
         \/ call'[q]["complete"] \in {"sent", "row", "failed"}
         \/ CompleteBadge(q) \/ CompleteXP(q) \/ CompleteSkills(q)
         \/ /\ FaultIn(q, "complete")
            /\ call[q]["complete"] \in {"row", "badge", "xp"}
<1>1. ASSUME NEW r \in Requests, Start(r) \/ Serve(r) \/ OverviewFails(r) \/ SummariesFail(r) \/ GiveUp(r)
      PROVE  call'[q]["complete"] \in {call[q]["complete"], "sent"}
  <2>1. CASE EnsureAccess(r) \/ PostLesson(r) \/ LessonPosted(r)
    <3>1. UNCHANGED call \/ \E k \in Kinds : Send(r, k)
      BY <2>1 DEF EnsureAccess, PostLesson, LessonPosted, Kinds
    <3> QED
      BY <3>1 DEF Send, TypeOK, Kinds
  <2>2. CASE ScoreSubmission(r)
    <3>1. PICK complete :
            call' = [call EXCEPT ![r]["module"] = "sent",
                                 ![r]["complete"] = IF complete THEN "sent" ELSE @]
      BY <2>2 DEF ScoreSubmission
    <3> QED
      BY <3>1 DEF TypeOK, Kinds
  <2>3. CASE ~(EnsureAccess(r) \/ PostLesson(r) \/ LessonPosted(r) \/ ScoreSubmission(r))
    BY <1>1, <2>3 DEF Serve, Start, ReadViewed, ReadModules, ReadEnrolled, OverviewFails,
       ReadPrereqViewed, CheckPrereqs, SummariesFail, LessonRefused, RefuseSubmission, Notified, GiveUp
  <2> QED
    BY <2>1, <2>2, <2>3
<1>2. ASSUME NEW r \in Requests, Handle(r) \/ StatementSkipped(r) \/ (\E k \in Kinds : CallFails(r, k))
      PROVE  \/ call'[q]["complete"] = call[q]["complete"]
             \/ call'[q]["complete"] \in {"row", "failed"}
             \/ CompleteBadge(q) \/ CompleteXP(q) \/ CompleteSkills(q)
             \/ /\ FaultIn(q, "complete")
                /\ call[q]["complete"] \in {"row", "badge", "xp"}
  <2>1. \E k \in Kinds, from, to \in Steps :
          /\ Advance(r, k, from, to)
          /\ k = "complete" =>
               \/ to \in {"row", "failed"}
               \/ CompleteBadge(r) \/ CompleteXP(r) \/ CompleteSkills(r)
               \/ FaultIn(r, "complete") /\ from \in {"row", "badge", "xp"}
    BY <1>2 DEF Handle, LessonRow, LessonXP, ModuleRowWritten, ModuleXP, CompleteRow, CompleteBadge,
       CompleteXP, CompleteSkills, AutoEnroll, StatementSkipped, CallFails, Kinds, Steps
  <2> QED
    BY <2>1 DEF Advance, TypeOK, Kinds
<1>3. ASSUME NEW c \in Courses, SaveCourse(c) \/ Enroll(c) \/ Unenroll(c) PROVE UNCHANGED call
  BY <1>3 DEF SaveCourse, Enroll, Unenroll
<1> QED
  BY <1>1, <1>2, <1>3 DEF Next, Disturb

\* Awards stay, and a level that is reached stays reached.
LEMMA AwardsKept ==
  ASSUME TypeOK, CallsMatch, Next, NEW c \in Courses, NEW s \in Skills
  PROVE  /\ badges \subseteq badges' /\ xp \subseteq xp'
         /\ levels[s].level >= Difficulty[c] => levels'[s].level >= Difficulty[c]
<1>1. TypeOK'
  BY TypesStep
<1>2. levels[s].level \in Nat /\ levels'[s].level \in Nat /\ Difficulty[c] \in Nat
  <2>1. levels[s] \in SkillRow /\ levels'[s] \in SkillRow /\ Difficulty[c] \in 0..3
    BY <1>1, RecordsAssumption DEF TypeOK, RecordsTypeOK
  <2> QED
    BY <2>1 DEF SkillRow
<1>3. badges \subseteq badges' /\ xp \subseteq xp' /\ levels'[s].level >= levels[s].level
  BY <1>2, KeptStep DEF Kept, records
<1> QED
  BY <1>2, <1>3

LEMMA GrantedStep ==
  ASSUME TypeOK, CallsMatch, GivenUp, Granted, Next
  PROVE  Granted'
<1> SUFFICES ASSUME faults' = MaxFaults, NEW q \in Requests PROVE GrantedSoFar(q)'
  BY DEF Granted
<1>1. GrantedSoFar(q) /\ faults = MaxFaults /\ ~Fault
  BY FaultsStep DEF Granted
<1>2. CASE call[q]["complete"] = "none"
  <2>1. call'[q]["complete"] \in {"none", "sent", "row", "failed"}
    BY <1>2, CompleteChange DEF CompleteBadge, CompleteXP, CompleteSkills, Advance
  <2> QED
    BY <2>1 DEF GrantedSoFar
<1>3. CASE call[q]["complete"] # "none"
  <2> DEFINE c == op[q].course
  <2>1. pc[q] # "idle" /\ c \in Courses
    BY <1>3, CallArrived DEF Kinds
  <2>2. op'[q] = op[q]
    <3>1. UNCHANGED op \/ \E r \in Requests : Start(r)
      BY StepKinds DEF ScoreSubmission, Onward, Behind, flow
    <3> QED
      BY <2>1, <3>1 DEF Start, Goto, TypeOK
  <2>3. SkillsOf[c] \subseteq Skills
    BY <2>1, RecordsAssumption
  <2>4. /\ badges \subseteq badges' /\ xp \subseteq xp'
        /\ \A s \in SkillsOf[c] : levels[s].level >= Difficulty[c] => levels'[s].level >= Difficulty[c]
    <3>1. badges \subseteq badges' /\ xp \subseteq xp'
      BY KeptStep DEF Kept, records
    <3> QED
      BY <2>1, <2>3, <3>1, AwardsKept
  <2>5. CASE call'[q]["complete"] = call[q]["complete"]
    BY <1>1, <2>2, <2>4, <2>5 DEF GrantedSoFar
  <2>6. CASE call'[q]["complete"] \in {"sent", "row", "failed"}
    BY <2>6 DEF GrantedSoFar
  <2>7. CASE CompleteBadge(q)
    <3>1. call'[q]["complete"] = "badge" /\ c \in badges'
      BY <2>7 DEF CompleteBadge, Advance, AwardBadge, TypeOK, Kinds
    <3> QED
      BY <2>2, <3>1 DEF GrantedSoFar
  <2>8. CASE CompleteXP(q)
    <3>1. /\ call[q]["complete"] = "badge" /\ call'[q]["complete"] = "xp"
          /\ <<"course", c, Complete>> \in xp'
      BY <2>8 DEF CompleteXP, Advance, AwardXP, TypeOK, Kinds
    <3> QED
      BY <1>1, <2>2, <2>4, <3>1 DEF GrantedSoFar
  <2>9. CASE CompleteSkills(q)
    <3>1. call[q]["complete"] = "xp" /\ call'[q]["complete"] = "done"
      BY <2>9 DEF CompleteSkills, Advance, TypeOK, Kinds
    <3>2. PICK totals \in [Skills -> Nat] : UpsertSkills(c, totals)
      BY <2>9, SkillTotalType DEF CompleteSkills
    <3>3. ASSUME NEW s \in SkillsOf[c] PROVE levels'[s].level >= Difficulty[c]
      <4>1. s \in Skills /\ levels[s] \in SkillRow /\ Difficulty[c] \in 0..3 /\ totals[s] \in Nat
        BY <2>1, <2>3, RecordsAssumption DEF TypeOK, RecordsTypeOK
      <4>2. levels'[s] = IF Difficulty[c] # 0 THEN Promoted(levels[s], Difficulty[c], totals[s])
                         ELSE levels[s]
        BY <3>2, <4>1 DEF UpsertSkills
      <4>3. CASE Difficulty[c] # 0
        BY <4>1, <4>2, <4>3, PromotedFacts
      <4>4. CASE Difficulty[c] = 0
        BY <4>1, <4>2, <4>4 DEF SkillRow
      <4> QED
        BY <4>3, <4>4
    <3> QED
      BY <1>1, <2>2, <2>4, <3>1, <3>3 DEF GrantedSoFar
  <2>10. ~(FaultIn(q, "complete") /\ call[q]["complete"] \in {"row", "badge", "xp"})
    BY <1>1 DEF FaultIn, GivenUp, InFlight
  <2> QED
    BY <2>5, <2>6, <2>7, <2>8, <2>9, <2>10, CompleteChange
<1> QED
  BY <1>2, <1>3

GrantInv == TypeOK /\ CallsMatch /\ GivenUp /\ Granted

\* A completion that no fault disturbed ends with the badge, the XP and the
\* course's difficulty in each of its skills in place, whatever other
\* completions ran between its statements (InternalMarkCourseComplete).
THEOREM AwardsAlwaysGranted == Spec => []AwardsGranted
<1>1. Init => GrantInv
  BY InitTypes DEF GrantInv, Init, GivenUp, Granted, GrantedSoFar, Kinds
<1>2. GrantInv /\ [Next]_vars => GrantInv'
  <2> SUFFICES ASSUME GrantInv, [Next]_vars PROVE GrantInv'
    OBVIOUS
  <2>1. TypeOK' /\ CallsMatch'
    BY TypesStep DEF GrantInv
  <2>2. CASE Next
    BY <2>1, <2>2, GivenUpStep, GrantedStep DEF GrantInv
  <2>3. CASE UNCHANGED vars
    BY <2>1, <2>3 DEF GrantInv, vars, records, flow, GivenUp, InFlight, Granted, GrantedSoFar
  <2> QED
    BY <2>2, <2>3
<1>3. GrantInv => AwardsGranted
  BY DEF GrantInv, Granted, GrantedSoFar, AwardsGranted
<1> QED
  BY <1>1, <1>2, <1>3, PTL DEF Spec

-----------------------------------------------------------------------------
(* Sums over finite sets                                                   *)

\* A set of numbers that holds 0 and the successor of each of its members
\* holds them all.
LEMMA SuccessorClosed ==
  ASSUME NEW G, 0 \in G, \A n \in Nat : n \in G => n + 1 \in G
  PROVE  \A n \in Nat : n \in G
<1> DEFINE T == Nat \ G
<1> SUFFICES ASSUME T # {}
             PROVE  FALSE
  OBVIOUS
<1>1. \E n \in T : \A m \in T : ~(<<m, n>> \in OpToRel(<, Nat))
  BY NatLessThanWellFounded, WFMin
<1>2. PICK n \in T : \A m \in T : ~(m < n)
  BY <1>1 DEF OpToRel
<1>3. n \in Nat /\ n # 0 /\ n - 1 \in Nat /\ n - 1 < n /\ n = (n - 1) + 1
  BY <1>2
<1>4. n - 1 \in G
  BY <1>2, <1>3
<1>5. n \in G
  BY <1>3, <1>4
<1>6. QED
  BY <1>2, <1>5

Picked(s) == CHOOSE x \in s : TRUE

\* What a sum adds up: g[s] is the sum over s.
Sums(f, D, g) ==
  g = [s \in D |-> IF s = {} THEN 0 ELSE f[Picked(s)] + g[s \ {Picked(s)}]]

LEMMA SumIsFold ==
  ASSUME NEW f, NEW S
  PROVE  SumFunctionOnSet(f, S) = (CHOOSE g : Sums(f, SUBSET S, g))[S]
  BY DEF SumFunctionOnSet, FoldFunctionOnSet, MapThenFoldSet, Sums, Picked

LEMMA SumsExist ==
  ASSUME NEW f, NEW S, IsFiniteSet(S)
  PROVE  \E g : Sums(f, SUBSET S, g)
<1> DEFINE D(n) == {s \in SUBSET S : Cardinality(s) <= n}
           G == {n \in Nat : \E g : Sums(f, D(n), g)}
<1>1. \A s \in SUBSET S : IsFiniteSet(s) /\ Cardinality(s) \in Nat /\ Cardinality(s) <= Cardinality(S)
  BY FS_Subset, FS_CardinalityType
<1>2. \A s \in SUBSET S : s # {} =>
        Picked(s) \in s /\ s \ {Picked(s)} \in SUBSET S
        /\ Cardinality(s \ {Picked(s)}) = Cardinality(s) - 1
  BY <1>1, FS_RemoveElement DEF Picked
<1>3. 0 \in G
  <2> DEFINE g == [s \in D(0) |-> 0]
  <2>1. \A s \in D(0) : s = {}
    BY <1>1, FS_EmptySet
  <2>2. g = [s \in D(0) |-> IF s = {} THEN 0 ELSE f[Picked(s)] + g[s \ {Picked(s)}]]
    BY <2>1
  <2>3. QED
    BY <2>2 DEF Sums
<1>4. ASSUME NEW n \in Nat, n \in G
      PROVE  n + 1 \in G
  <2>1. PICK g : Sums(f, D(n), g)
    BY <1>4
  <2> DEFINE h == [s \in D(n + 1) |-> IF s = {} THEN 0 ELSE f[Picked(s)] + g[s \ {Picked(s)}]]
  <2>2. \A s \in D(n) : h[s] = g[s]
    <3>1. \A s \in D(n) : s \in D(n + 1)
      BY <1>1
    <3>2. QED
      BY <2>1, <3>1 DEF Sums
  <2>3. \A s \in D(n + 1) : s # {} => s \ {Picked(s)} \in D(n)
    BY <1>1, <1>2
  <2>4. \A s \in D(n + 1) : s # {} => h[s \ {Picked(s)}] = g[s \ {Picked(s)}]
    BY <2>2, <2>3
  <2>5. h = [s \in D(n + 1) |-> IF s = {} THEN 0 ELSE f[Picked(s)] + h[s \ {Picked(s)}]]
    BY <2>4
  <2>6. Sums(f, D(n + 1), h)
    BY <2>5 DEF Sums
  <2> HIDE DEF h, D
  <2>7. QED
    BY <2>6
<1> HIDE DEF G
<1>5. \A n \in Nat : n \in G
  BY <1>3, <1>4, SuccessorClosed
<1>6. Cardinality(S) \in G
  BY <1>1, <1>5
<1>7. D(Cardinality(S)) = SUBSET S
  BY <1>1
<1>8. QED
  BY <1>6, <1>7 DEF G


\* A sum grows with its terms.
LEMMA SumGrows ==
  ASSUME NEW S, IsFiniteSet(S), NEW f \in [S -> Nat], NEW h \in [S -> Nat],
         \A x \in S : f[x] <= h[x]
  PROVE  /\ SumFunctionOnSet(f, S) \in Nat
         /\ SumFunctionOnSet(f, S) <= SumFunctionOnSet(h, S)
<1> DEFINE a == CHOOSE g : Sums(f, SUBSET S, g)
           b == CHOOSE g : Sums(h, SUBSET S, g)
<1>1. Sums(f, SUBSET S, a) /\ Sums(h, SUBSET S, b)
  BY SumsExist
<1> HIDE DEF a, b
<1>2. /\ a[{}] = 0 /\ b[{}] = 0
      /\ \A s \in SUBSET S : s # {} =>
           /\ a[s] = f[Picked(s)] + a[s \ {Picked(s)}]
           /\ b[s] = h[Picked(s)] + b[s \ {Picked(s)}]
  BY <1>1 DEF Sums
<1> DEFINE Below(n) == \A s \in SUBSET S : Cardinality(s) <= n =>
                         a[s] \in Nat /\ b[s] \in Nat /\ a[s] <= b[s]
           G == {n \in Nat : Below(n)}
<1>3. \A s \in SUBSET S : /\ Cardinality(s) \in Nat /\ Cardinality(s) <= Cardinality(S)
                          /\ Cardinality(s) = 0 => s = {}
  BY FS_Subset, FS_CardinalityType, FS_EmptySet
<1>4. \A s \in SUBSET S : s # {} =>
        /\ Picked(s) \in S /\ s \ {Picked(s)} \in SUBSET S
        /\ Cardinality(s \ {Picked(s)}) = Cardinality(s) - 1
  BY FS_Subset, FS_RemoveElement DEF Picked
<1>5. 0 \in G
  <2>1. \A s \in SUBSET S : Cardinality(s) <= 0 => s = {}
    BY <1>3
  <2>2. a[{}] \in Nat /\ b[{}] \in Nat /\ a[{}] <= b[{}]
    BY <1>2
  <2>3. Below(0)
    BY <2>1, <2>2
  <2>4. QED
    BY <2>3
<1>6. ASSUME NEW n \in Nat, n \in G
      PROVE  n + 1 \in G
  <2>1. Below(n)
    BY <1>6
  <2> SUFFICES ASSUME NEW s \in SUBSET S, Cardinality(s) <= n + 1
               PROVE  a[s] \in Nat /\ b[s] \in Nat /\ a[s] <= b[s]
    OBVIOUS
  <2>2. CASE s = {}
    BY <1>2, <2>2
  <2>3. CASE s # {}
    <3> DEFINE t == s \ {Picked(s)}
    <3>1. t \in SUBSET S /\ Cardinality(t) <= n
      BY <1>3, <1>4, <2>3
    <3>2. a[t] \in Nat /\ b[t] \in Nat /\ a[t] <= b[t]
      BY <2>1, <3>1
    <3>3. f[Picked(s)] \in Nat /\ h[Picked(s)] \in Nat /\ f[Picked(s)] <= h[Picked(s)]
      BY <1>4, <2>3
    <3>4. a[s] = f[Picked(s)] + a[t] /\ b[s] = h[Picked(s)] + b[t]
      BY <1>2, <2>3
    <3> HIDE DEF t
    <3>5. QED
      BY <3>2, <3>3, <3>4
  <2>4. QED
    BY <2>2, <2>3
<1> HIDE DEF G
<1>7. Cardinality(S) \in G
  BY <1>3, <1>5, <1>6, SuccessorClosed
<1>8. a[S] \in Nat /\ b[S] \in Nat /\ a[S] <= b[S]
  BY <1>3, <1>7 DEF G
<1>9. QED
  BY <1>8, SumIsFold DEF a, b

-----------------------------------------------------------------------------
(* Nobody gets in where they should not                                    *)

Begun == {d \in Courses : ViewedSlugs(d) # {}}

\* The door of a request's course: open to all, or met with an enrolment.
Opened(r) == op[r].course \in Public \/ member[r]

\* What a course asks for first.
Met(c) == \A p \in Prereqs[c] : Satisfied(p, Begun)

\* Before the enrolment is read.
Looking(r) == pc[r] \in {"readViewed", "readModules", "readEnrolled"}

\* Past the checks, or with calls behind that were sent past them.
Inside(r) ==
  \/ pc[r] \in {"act", "posting", "notifying"}
  \/ \E k \in {"lesson", "module", "complete"} : call[r][k] # "none"

\* What a request has found out on its way in was so, and what it asks for of
\* other courses still is.
LetIn(r) ==
  /\ Looking(r) /\ op[r].course \in enrolled => member[r]
  /\ view[r].enrolled => pc[r] # "idle" /\ member[r]
  /\ view[r].begun \subseteq Begun
  /\ pc[r] \in {"prereqViewed", "prereqModules"} => IsAdmin \/ Opened(r)
  /\ Inside(r) => IsAdmin \/ (Opened(r) /\ Met(op[r].course))

AccessInv == TypeOK /\ CallsMatch /\ ResultLate /\ \A r \in Requests : LetIn(r)

RowsGrow ==
  \A k \in Courses \X Positions : modules[k] # NoRow =>
    /\ modules'[k] # NoRow
    /\ modules'[k].slug = modules[k].slug
    /\ modules'[k].best >= modules[k].best
    /\ modules[k].passed => modules'[k].passed

LEMMA RowsGrowStep ==
  ASSUME TypeOK, CallsMatch, ResultLate, Next
  PROVE  RowsGrow
<1>1. \A k \in Courses \X Positions : modules[k] # NoRow => modules[k].best \in Nat
  BY RecordsAssumption DEF TypeOK, RecordsTypeOK, ModuleRow
<1>2. CASE UNCHANGED modules
  BY <1>1, <1>2 DEF RowsGrow
<1>3. ASSUME NEW r \in Requests, ModuleRowWritten(r) PROVE RowsGrow
  <2> DEFINE key == <<op[r].course, op[r].pos>>
             new == Attempted(modules[key], scored[r].quiz, scored[r].score, scored[r].passed)
  <2>1. modules' = [modules EXCEPT ![key] = new]
    BY <1>3 DEF ModuleRowWritten, RecordProgress
  <2>2. scored[r] \in [quiz : Slugs, score : Scores, passed : BOOLEAN]
    BY <1>3 DEF ModuleRowWritten, Advance, CallsMatch
  <2> SUFFICES ASSUME NEW k \in Courses \X Positions, modules[k] # NoRow
               PROVE  /\ modules'[k] # NoRow
                      /\ modules'[k].slug = modules[k].slug
                      /\ modules'[k].best >= modules[k].best
                      /\ modules[k].passed => modules'[k].passed
    BY DEF RowsGrow
  <2>3. modules[k] \in ModuleRow
    BY DEF TypeOK, RecordsTypeOK
  <2>4. CASE k = key
    <3>1. modules'[k] = new
      BY <2>1, <2>4 DEF TypeOK, RecordsTypeOK
    <3>2. new.best >= modules[k].best /\ (modules[k].passed => new.passed)
      BY <2>2, <2>3, <2>4, AttemptedKeeps
    <3>3. new = [modules[k] EXCEPT !.attempts = @ + 1,
                     !.best = IF scored[r].score > @ THEN scored[r].score ELSE @,
                     !.passed = @ \/ scored[r].passed]
      BY <2>4 DEF Attempted
    <3>4. new.slug = modules[k].slug /\ new # NoRow
      BY <2>3, <3>3 DEF ModuleRow, NoRow
    <3> HIDE DEF new
    <3> QED
      BY <3>1, <3>2, <3>4
  <2>5. CASE k # key
    <3>1. modules'[k] = modules[k]
      BY <2>1, <2>5 DEF TypeOK, RecordsTypeOK
    <3> QED
      BY <1>1, <3>1
  <2> QED
    BY <2>4, <2>5
<1>4. UNCHANGED modules \/ \E r \in Requests : ModuleRowWritten(r)
  BY StepKinds DEF Start, ScoreSubmission, Onward, LandedSame, records
<1> QED
  BY <1>2, <1>3, <1>4

\* A request under way does not forget that it met an enrolment, and one that
\* still looks has met every enrolment there is.
LEMMA MemberKept ==
  ASSUME TypeOK, CallsMatch, Next, NEW q \in Requests,
         Looking(q) /\ op[q].course \in enrolled => member[q]
  PROVE  /\ pc[q] # "idle" /\ member[q] => member'[q]
         /\ (Looking(q) /\ op[q].course \in enrolled => member[q])'
<1>1. ASSUME NEW r \in Requests, Start(r)
      PROVE  /\ pc[q] # "idle" /\ member[q] => member'[q]
             /\ (Looking(q) /\ op[q].course \in enrolled => member[q])'
  <2>1. PICK o \in Asks : /\ op' = [op EXCEPT ![r] = o]
                          /\ member' = [member EXCEPT ![r] = o.course \in enrolled]
    BY <1>1 DEF Start
  <2>2. enrolled' = enrolled /\ pc[r] = "idle" /\ pc' = [pc EXCEPT ![r] = "readViewed"]
    BY <1>1 DEF Start, Goto, records
  <2>3. CASE q = r
    <3>1. op'[q] = o /\ member'[q] = (o.course \in enrolled)
      BY <2>1, <2>3 DEF TypeOK
    <3> QED
      BY <2>2, <2>3, <3>1
  <2>4. CASE q # r
    <3>1. op'[q] = op[q] /\ member'[q] = member[q] /\ pc'[q] = pc[q]
      BY <2>1, <2>2, <2>4 DEF TypeOK
    <3> QED
      BY <2>2, <3>1 DEF Looking
  <2> QED
    BY <2>3, <2>4
<1>2. ASSUME NEW c, UNCHANGED <<pc, op>>, CreateEnrollment(c), Noticed(c)
      PROVE  /\ pc[q] # "idle" /\ member[q] => member'[q]
             /\ (Looking(q) /\ op[q].course \in enrolled => member[q])'
  <2>1. member'[q] = (q \in Deciding(c) \/ member[q])
    BY <1>2 DEF Noticed
  <2>2. Looking(q) /\ op[q].course = c => q \in Deciding(c)
    BY DEF Looking, Deciding
  <2> QED
    BY <1>2, <2>1, <2>2 DEF CreateEnrollment, Looking
<1>3. ASSUME UNCHANGED <<pc, op, member>>, enrolled' \subseteq enrolled
      PROVE  /\ pc[q] # "idle" /\ member[q] => member'[q]
             /\ (Looking(q) /\ op[q].course \in enrolled => member[q])'
  BY <1>3 DEF Looking
<1>4. ASSUME UNCHANGED <<op, member, enrolled>>, Looking(q)' => Looking(q)
      PROVE  /\ pc[q] # "idle" /\ member[q] => member'[q]
             /\ (Looking(q) /\ op[q].course \in enrolled => member[q])'
  BY <1>4
<1>5. ASSUME NEW r \in Requests, Serve(r) \/ OverviewFails(r) \/ SummariesFail(r) \/ GiveUp(r)
      PROVE  UNCHANGED <<op, member, enrolled>> /\ (Looking(q)' => Looking(q))
  <2>1. UNCHANGED <<op, member, enrolled>>
    BY <1>5 DEF Serve, ReadViewed, ReadModules, ReadEnrolled, OverviewFails, EnsureAccess,
       ReadPrereqViewed, CheckPrereqs, SummariesFail, PostLesson, LessonPosted, LessonRefused,
       RefuseSubmission, ScoreSubmission, Notified, GiveUp, records
  <2>2. \E from, to \in PC :
          /\ Goto(r, from, to)
          /\ to \in {"readViewed", "readModules", "readEnrolled"} =>
               from \in {"readViewed", "readModules", "readEnrolled"}
    <3>1. CASE \/ ReadViewed(r) \/ ReadModules(r) \/ ReadEnrolled(r) \/ OverviewFails(r)
               \/ EnsureAccess(r) \/ ReadPrereqViewed(r) \/ CheckPrereqs(r) \/ SummariesFail(r)
      BY <3>1 DEF ReadViewed, ReadModules, ReadEnrolled, OverviewFails, EnsureAccess,
         ReadPrereqViewed, CheckPrereqs, SummariesFail, PC, Finished
    <3>2. CASE \/ PostLesson(r) \/ LessonPosted(r) \/ LessonRefused(r) \/ RefuseSubmission(r)
               \/ Notified(r) \/ GiveUp(r)
      BY <3>2 DEF PostLesson, LessonPosted, LessonRefused, RefuseSubmission, Notified, GiveUp,
         PC, Finished
    <3>3. CASE ScoreSubmission(r)
      <4>1. Goto(r, "act", "notifying") \/ Goto(r, "act", "ok")
        BY <3>3 DEF ScoreSubmission
      <4> QED
        BY <4>1 DEF PC, Finished
    <3> QED
      BY <1>5, <3>1, <3>2, <3>3 DEF Serve
  <2>3. Looking(q)' => Looking(q)
    BY <2>2 DEF Looking, Goto, TypeOK
  <2> QED
    BY <2>1, <2>3
<1>6. ASSUME NEW r \in Requests,
             \/ Handle(r) /\ ~AutoEnroll(r)
             \/ StatementSkipped(r) \/ (\E k \in Kinds : CallFails(r, k))
      PROVE  UNCHANGED <<pc, op, member, enrolled>>
  BY <1>6 DEF Handle, LessonRow, LessonXP, ModuleRowWritten, ModuleXP, CompleteRow, CompleteBadge,
     CompleteXP, CompleteSkills, StatementSkipped, CallFails, flow, records
<1>7. ASSUME NEW r \in Requests, AutoEnroll(r)
      PROVE  UNCHANGED <<pc, op>> /\ CreateEnrollment(op[r].course) /\ Noticed(op[r].course)
  BY <1>7 DEF AutoEnroll, flow
<1>8. ASSUME NEW c \in Courses, SaveCourse(c) \/ Unenroll(c)
      PROVE  UNCHANGED <<pc, op, member>> /\ enrolled' \subseteq enrolled
  BY <1>8 DEF SaveCourse, Unenroll, DeleteEnrollment, flow, records
<1>9. ASSUME NEW c \in Courses, Enroll(c)
      PROVE  UNCHANGED <<pc, op>> /\ CreateEnrollment(c) /\ Noticed(c)
  BY <1>9 DEF Enroll, flow
<1> QED
  BY <1>1, <1>2, <1>3, <1>4, <1>5, <1>6, <1>7, <1>8, <1>9 DEF Next, Disturb

\* Scores are summed over the positions, and no row's score ever drops.
LEMMA TotalScoreGrows ==
  ASSUME TypeOK, TypeOK', RowsGrow, NEW c \in Courses
  PROVE  TotalScore(c) \in Nat /\ TotalScore(c)' \in Nat /\ TotalScore(c) <= TotalScore(c)'
<1> DEFINE f == [p \in Positions |-> IF p \in Attempts(c) THEN modules[<<c, p>>].best ELSE 0]
           h == [p \in Positions |-> IF p \in Attempts(c)' THEN modules'[<<c, p>>].best ELSE 0]
<1>1. TotalScore(c) = SumFunctionOnSet(f, Positions) /\ TotalScore(c)' = SumFunctionOnSet(h, Positions)
  BY DEF TotalScore
<1>2. \A p \in Positions :
        /\ p \in Attempts(c) => modules[<<c, p>>].best \in Nat
        /\ p \in Attempts(c)' => modules'[<<c, p>>].best \in Nat
  BY RecordsAssumption DEF TypeOK, RecordsTypeOK, ModuleRow, Attempts
<1>3. f \in [Positions -> Nat] /\ h \in [Positions -> Nat]
  BY <1>2
<1>4. \A p \in Positions : f[p] <= h[p]
  BY <1>2 DEF RowsGrow, Attempts
<1> HIDE DEF f, h
<1>5. \A p \in Positions : h[p] <= h[p]
  BY <1>3
<1> QED
  BY <1>1, <1>3, <1>4, <1>5, SumGrows, RecordsAssumption

\* What a course asks for, once met, remains so.
LEMMA MetKept ==
  ASSUME TypeOK, TypeOK', CallsMatch, ResultLate, Next
  PROVE  /\ Begun \subseteq Begun'
         /\ \A c \in Courses : Met(c) => Met(c)'
<1>1. RowsGrow
  BY RowsGrowStep
<1>2. \A c \in Courses : ViewedSlugs(c) \subseteq ViewedSlugs(c)'
  <2>1. CASE \E r \in Requests : TRUE
    BY <2>1, HistoryKept DEF ViewedSlugs
  <2>2. CASE Requests = {}
    BY <2>2, HistoryKept DEF Next, SaveCourse, Enroll, Unenroll, records, ViewedSlugs
  <2> QED
    BY <2>1, <2>2
<1>3. Begun \subseteq Begun'
  BY <1>2 DEF Begun
<1>4. \A c \in Courses : PassedModules(c) \subseteq PassedModules(c)'
  <2> SUFFICES ASSUME NEW c \in Courses, NEW p \in Positions,
                      modules[<<c, p>>] # NoRow, modules[<<c, p>>].passed
               PROVE  modules[<<c, p>>].slug \in PassedModules(c)'
    BY DEF PassedModules, Attempts
  <2>1. /\ modules'[<<c, p>>] # NoRow /\ modules'[<<c, p>>].passed
        /\ modules'[<<c, p>>].slug = modules[<<c, p>>].slug
    BY <1>1 DEF RowsGrow
  <2> QED
    BY <2>1 DEF PassedModules, Attempts
<1>5. ASSUME NEW c \in Courses, NEW p \in Prereqs[c], Satisfied(p, Begun)
      PROVE  Satisfied(p, Begun)'
  <2>1. p.course \in Courses /\ p.minScore \in Nat
    BY FlowAssumption DEF Prereq
  <2>2. TotalScore(p.course) \in Nat /\ TotalScore(p.course)' \in Nat
        /\ TotalScore(p.course) <= TotalScore(p.course)'
    BY <1>1, <2>1, TotalScoreGrows
  <2> QED
    BY <1>3, <1>4, <1>5, <2>1, <2>2 DEF Satisfied
<1> QED
  BY <1>3, <1>5 DEF Met

\* How a request comes to know what it knows, and to be where it is.
LEMMA EntryChange ==
  ASSUME TypeOK, CallsMatch, Next, NEW q \in Requests
  PROVE  /\ view'[q].enrolled => view[q].enrolled \/ (Looking(q) /\ op[q].course \in enrolled)
         /\ view'[q].begun \subseteq view[q].begun \cup Begun
         /\ pc'[q] \in {"prereqViewed", "prereqModules"} =>
              \/ pc[q] \in {"prereqViewed", "prereqModules"}
              \/ IsAdmin \/ op[q].course \in Public \/ view[q].enrolled
         /\ Inside(q)' =>
              \/ Inside(q) \/ IsAdmin
              \/ Prereqs[op[q].course] = {} /\ (op[q].course \in Public \/ view[q].enrolled)
              \/ /\ pc[q] = "prereqModules"
                 /\ \A p \in Prereqs[op[q].course] : Satisfied(p, view[q].begun)
<1> DEFINE Sees == /\ view'[q].enrolled =>
                        view[q].enrolled \/ (Looking(q) /\ op[q].course \in enrolled)
                   /\ view'[q].begun \subseteq view[q].begun \cup Begun
           Stays == pc'[q] = pc[q] /\ call'[q] = call[q] /\ view'[q] = view[q]
           Idles == pc'[q] \notin {"prereqViewed", "prereqModules", "act", "posting", "notifying"}
           CallsNone == \A k \in {"lesson", "module", "complete"} :
                          call'[q][k] # "none" => call[q][k] # "none"
<1>1. view[q] \in View
  BY DEF TypeOK
<1>2. ASSUME NEW r \in Requests, r # q, Start(r) \/ Serve(r) \/ Handle(r) \/ Disturb(r)
      PROVE  Stays
  <2>1. CASE Start(r) \/ ReadViewed(r) \/ ReadModules(r) \/ ReadEnrolled(r) \/ OverviewFails(r)
             \/ ReadPrereqViewed(r) \/ CheckPrereqs(r) \/ SummariesFail(r) \/ LessonRefused(r)
             \/ RefuseSubmission(r) \/ Notified(r) \/ GiveUp(r)
    BY <1>2, <2>1 DEF Start, ReadViewed, ReadModules, ReadEnrolled, OverviewFails, ReadPrereqViewed,
       CheckPrereqs, SummariesFail, LessonRefused, RefuseSubmission, Notified, GiveUp, Goto, TypeOK
  <2>2. CASE EnsureAccess(r) \/ PostLesson(r) \/ LessonPosted(r) \/ ScoreSubmission(r)
    BY <1>2, <2>2 DEF EnsureAccess, PostLesson, LessonPosted, ScoreSubmission, Goto, Send, TypeOK
  <2>3. CASE Handle(r) \/ StatementSkipped(r) \/ (\E k \in Kinds : CallFails(r, k))
    <3>1. UNCHANGED flow /\ \E k \in Kinds, from, to \in Steps : Advance(r, k, from, to)
      BY <2>3 DEF Handle, LessonRow, LessonXP, ModuleRowWritten, ModuleXP, CompleteRow, CompleteBadge,
         CompleteXP, CompleteSkills, AutoEnroll, StatementSkipped, CallFails, Kinds, Steps
    <3> QED
      BY <1>2, <3>1 DEF flow, Advance, TypeOK
  <2> QED
    BY <1>2, <2>1, <2>2, <2>3 DEF Serve, Disturb
<1>3. CASE Start(q)
  BY <1>1, <1>3 DEF Start, Goto, TypeOK, Inside, View
<1>4. CASE ReadViewed(q) \/ ReadModules(q) \/ ReadEnrolled(q) \/ OverviewFails(q)
  <2>1. CallsNone /\ Idles
    BY <1>4 DEF ReadViewed, ReadModules, ReadEnrolled, OverviewFails, Goto, TypeOK
  <2>2. Sees
    <3>1. CASE ReadViewed(q)
      BY <1>1, <3>1 DEF ReadViewed, TypeOK, View
    <3>2. CASE ReadModules(q)
      BY <1>1, <3>2 DEF ReadModules, TypeOK, View
    <3>3. CASE ReadEnrolled(q)
      BY <1>1, <3>3 DEF ReadEnrolled, Goto, TypeOK, View, Looking
    <3>4. CASE OverviewFails(q)
      BY <1>1, <3>4 DEF OverviewFails, TypeOK, EmptyView
    <3> QED
      BY <1>4, <3>1, <3>2, <3>3, <3>4
  <2> QED
    BY <2>1, <2>2 DEF Inside
<1>5. CASE EnsureAccess(q)
  <2>1. UNCHANGED view /\ CallsNone
    BY <1>5 DEF EnsureAccess, Send, TypeOK, Kinds
  <2>2. \/ pc'[q] = "denied"
        \/ /\ IsAdmin \/ op[q].course \in Public \/ view[q].enrolled
           /\ pc'[q] = IF IsAdmin \/ Prereqs[op[q].course] = {} THEN "act" ELSE "prereqViewed"
    BY <1>5 DEF EnsureAccess, Goto, TypeOK
  <2> QED
    BY <2>1, <2>2 DEF Inside
<1>6. CASE ReadPrereqViewed(q)
  <2> DEFINE Seen == {p.course : p \in {d \in Prereqs[op[q].course] : ViewedSlugs(d.course) # {}}}
  <2>1. op[q].course \in Courses
    BY <1>6, OpTypes DEF ReadPrereqViewed, Goto
  <2>2. Seen \subseteq Begun
    BY <2>1, FlowAssumption DEF Begun, Prereq
  <2>3. view' = [view EXCEPT ![q].begun = Seen]
    BY <1>6 DEF ReadPrereqViewed
  <2>4. CallsNone /\ pc[q] = "prereqViewed" /\ pc'[q] = "prereqModules"
    BY <1>6 DEF ReadPrereqViewed, Goto, TypeOK
  <2> HIDE DEF Seen
  <2>5. view'[q].begun = Seen /\ view'[q].enrolled = view[q].enrolled
    BY <1>1, <2>3 DEF TypeOK, View
  <2> QED
    BY <2>2, <2>4, <2>5 DEF Inside
<1>7. CASE CheckPrereqs(q)
  <2>1. UNCHANGED view /\ CallsNone /\ pc[q] = "prereqModules"
    BY <1>7 DEF CheckPrereqs, Goto
  <2>2. \/ pc'[q] = "denied"
        \/ \A p \in Prereqs[op[q].course] : Satisfied(p, view[q].begun)
    BY <1>7 DEF CheckPrereqs, Goto, TypeOK
  <2>3. pc'[q] \in {"denied", "act"}
    BY <1>7 DEF CheckPrereqs, Goto, TypeOK
  <2> QED
    BY <2>1, <2>2, <2>3 DEF Inside
<1>8. CASE SummariesFail(q) \/ LessonRefused(q) \/ RefuseSubmission(q) \/ Notified(q) \/ GiveUp(q)
  BY <1>8 DEF SummariesFail, LessonRefused, RefuseSubmission, Notified, GiveUp, Goto, TypeOK, Inside
<1>9. CASE PostLesson(q) \/ LessonPosted(q) \/ ScoreSubmission(q)
  <2>1. UNCHANGED view /\ Inside(q)
    BY <1>9 DEF PostLesson, LessonPosted, ScoreSubmission, Goto, Inside
  <2>2. pc'[q] \notin {"prereqViewed", "prereqModules"}
    BY <1>9 DEF PostLesson, LessonPosted, ScoreSubmission, Goto, TypeOK
  <2> QED
    BY <2>1, <2>2
<1>10. CASE Handle(q) \/ StatementSkipped(q) \/ (\E k \in Kinds : CallFails(q, k))
  <2>1. UNCHANGED flow /\ \E k \in Kinds, from, to \in Steps : Advance(q, k, from, to) /\ from # "none"
    BY <1>10 DEF Handle, LessonRow, LessonXP, ModuleRowWritten, ModuleXP, CompleteRow, CompleteBadge,
       CompleteXP, CompleteSkills, AutoEnroll, StatementSkipped, CallFails, Kinds, Steps
  <2>2. CallsNone
    BY <2>1 DEF Advance, TypeOK, Kinds
  <2> QED
    BY <2>1, <2>2 DEF flow, Inside
<1>11. ASSUME NEW c \in Courses, SaveCourse(c) \/ Enroll(c) \/ Unenroll(c) PROVE Stays
  BY <1>11 DEF SaveCourse, Enroll, Unenroll, flow
<1>12. CASE Stays
  BY <1>12 DEF Inside
<1> QED
  BY <1>2, <1>3, <1>4, <1>5, <1>6, <1>7, <1>8, <1>9, <1>10, <1>11, <1>12 DEF Next, Serve, Disturb

\* A request that has not arrived only arrives.
LEMMA IdleStep ==
  ASSUME TypeOK, CallsMatch, Next, NEW q \in Requests, pc[q] = "idle"
  PROVE  pc'[q] \in {"idle", "readViewed"} /\ \A k \in Kinds : call'[q][k] = "none"
<1>1. \A k \in Kinds : call[q][k] = "none"
  BY DEF CallsMatch
<1>2. ASSUME NEW r \in Requests, Start(r)
      PROVE  pc'[q] \in {"idle", "readViewed"} /\ UNCHANGED call
  BY <1>2 DEF Start, Goto, TypeOK
<1>3. ASSUME NEW r \in Requests,
             Serve(r) \/ OverviewFails(r) \/ SummariesFail(r) \/ GiveUp(r)
      PROVE  pc'[q] = "idle" /\ call'[q] = call[q]
  <2>1. CASE ReadViewed(r) \/ ReadModules(r) \/ ReadEnrolled(r) \/ OverviewFails(r)
             \/ ReadPrereqViewed(r) \/ CheckPrereqs(r) \/ SummariesFail(r) \/ LessonRefused(r)
             \/ RefuseSubmission(r) \/ Notified(r) \/ GiveUp(r)
    BY <2>1 DEF ReadViewed, ReadModules, ReadEnrolled, OverviewFails, ReadPrereqViewed,
       CheckPrereqs, SummariesFail, LessonRefused, RefuseSubmission, Notified, GiveUp, Goto, TypeOK
  <2>2. CASE EnsureAccess(r) \/ PostLesson(r) \/ LessonPosted(r) \/ ScoreSubmission(r)
    BY <2>2 DEF EnsureAccess, PostLesson, LessonPosted, ScoreSubmission, Goto, Send, TypeOK
  <2> QED
    BY <1>3, <2>1, <2>2 DEF Serve
<1>4. ASSUME NEW r \in Requests, Handle(r) \/ StatementSkipped(r) \/ (\E k \in Kinds : CallFails(r, k))
      PROVE  pc'[q] = "idle" /\ call'[q] = call[q]
  <2>1. UNCHANGED flow /\ \E k \in Kinds, from, to \in Steps : Advance(r, k, from, to) /\ from # "none"
    BY <1>4 DEF Handle, LessonRow, LessonXP, ModuleRowWritten, ModuleXP, CompleteRow, CompleteBadge,
       CompleteXP, CompleteSkills, AutoEnroll, StatementSkipped, CallFails, Kinds, Steps
  <2> QED
    BY <1>1, <2>1 DEF flow, Advance, TypeOK
<1>5. ASSUME NEW c \in Courses, SaveCourse(c) \/ Enroll(c) \/ Unenroll(c) PROVE pc'[q] = "idle" /\ call'[q] = call[q]
  BY <1>5 DEF SaveCourse, Enroll, Unenroll, flow
<1> QED
  BY <1>1, <1>2, <1>3, <1>4, <1>5 DEF Next, Disturb

LEMMA LetInStep ==
  ASSUME TypeOK, TypeOK', CallsMatch, ResultLate, Next, NEW q \in Requests, LetIn(q)
  PROVE  LetIn(q)'
<1>1. Begun \subseteq Begun' /\ \A c \in Courses : Met(c) => Met(c)'
  BY MetKept
<1>2. /\ pc[q] # "idle" /\ member[q] => member'[q]
      /\ (Looking(q) /\ op[q].course \in enrolled => member[q])'
  BY MemberKept DEF LetIn
<1>3. CASE pc[q] = "idle"
  <2>1. ~view[q].enrolled /\ ~Inside(q) /\ ~Looking(q)
    BY <1>3 DEF LetIn, CallsMatch, Inside, Looking, Kinds
  <2>2. ~view'[q].enrolled /\ view'[q].begun \subseteq view[q].begun \cup Begun
    BY <1>3, <2>1, EntryChange
  <2>3. pc'[q] \in {"idle", "readViewed"} /\ \A k \in Kinds : call'[q][k] = "none"
    BY <1>3, IdleStep
  <2> QED
    BY <1>1, <1>2, <2>2, <2>3 DEF LetIn, Inside, Kinds
<1>4. CASE pc[q] # "idle"
  <2>1. pc'[q] # "idle" /\ op'[q] = op[q] /\ op[q].course \in Courses
    BY <1>4, HistoryKept, OpTypes
  <2> DEFINE c == op[q].course
  <2>2. Opened(q) => Opened(q)'
    BY <1>2, <1>4, <2>1 DEF Opened
  <2>3. view'[q].enrolled => member'[q]
    BY <1>2, <1>4, EntryChange DEF LetIn
  <2>4. view'[q].begun \subseteq Begun
    BY EntryChange DEF LetIn
  <2>5. pc'[q] \in {"prereqViewed", "prereqModules"} => IsAdmin \/ Opened(q)
    BY EntryChange DEF LetIn, Opened
  <2>6. ASSUME Inside(q)' PROVE IsAdmin \/ (Opened(q) /\ Met(c))
    <3>1. ASSUME pc[q] = "prereqModules", \A p \in Prereqs[c] : Satisfied(p, view[q].begun)
          PROVE  IsAdmin \/ (Opened(q) /\ Met(c))
      <4>1. IsAdmin \/ Opened(q)
        BY <3>1 DEF LetIn
      <4>2. \A p \in Prereqs[c] : Satisfied(p, Begun)
        BY <3>1 DEF LetIn, Satisfied
      <4> QED
        BY <4>1, <4>2 DEF Met
    <3>2. Prereqs[c] = {} /\ (c \in Public \/ view[q].enrolled) => Opened(q) /\ Met(c)
      BY DEF LetIn, Met, Opened
    <3> QED
      BY <2>6, <3>1, <3>2, EntryChange DEF LetIn
  <2> QED
    BY <1>1, <1>2, <2>1, <2>2, <2>3, <2>4, <2>5, <2>6 DEF LetIn
<1> QED
  BY <1>3, <1>4

\* Whoever sends anything to be stored about a private course met an enrolment
\* between its start and its look at the enrolments, and has the prerequisites
\* of the course behind it, for any number of requests, however they overlap
\* and whoever enrols or leaves meanwhile.
THEOREM AccessAlwaysHonoured == Spec => []AccessHonoured
<1>1. Init => AccessInv
  <2> SUFFICES ASSUME Init PROVE AccessInv
    OBVIOUS
  <2>1. TypeOK /\ CallsMatch
    BY InitTypes
  <2>2. ResultLate
    BY DEF Init, ResultLate, Kinds
  <2>3. \A r \in Requests : LetIn(r)
    BY DEF Init, LetIn, Inside, Looking, EmptyView, Kinds
  <2> QED
    BY <2>1, <2>2, <2>3 DEF AccessInv
<1>2. AccessInv /\ [Next]_vars => AccessInv'
  <2> SUFFICES ASSUME AccessInv, [Next]_vars PROVE AccessInv'
    OBVIOUS
  <2>1. CASE Next
    <3>1. TypeOK' /\ CallsMatch'
      BY <2>1, TypesStep DEF AccessInv
    <3>2. ResultLate'
      BY <2>1, LateStep DEF AccessInv
    <3>3. \A r \in Requests : LetIn(r)'
      BY <2>1, <3>1, LetInStep DEF AccessInv
    <3> QED
      BY <3>1, <3>2, <3>3 DEF AccessInv
  <2>2. CASE UNCHANGED vars
    <3>1. (TypeOK /\ CallsMatch)'
      BY <2>2, TypesStep DEF AccessInv
    <3>2. ResultLate'
      BY <2>2 DEF AccessInv, vars, flow, ResultLate
    <3>3. /\ UNCHANGED <<pc, op, view, call, enrolled, member, Begun>>
          /\ \A c \in Courses : UNCHANGED <<ViewedSlugs(c), Attempts(c), PassedModules(c)>>
      BY <2>2 DEF vars, flow, records, Begun, ViewedSlugs, Attempts, PassedModules
    <3>4. \A c \in Courses : TotalScore(c)' = TotalScore(c)
      BY <2>2 DEF vars, records, TotalScore, Attempts
    <3>5. \A c \in Courses : \A p \in Prereqs[c] : Satisfied(p, Begun)' <=> Satisfied(p, Begun)
      BY <3>3, <3>4, FlowAssumption DEF Satisfied, Prereq
    <3>6. \A c \in Courses : Met(c)' <=> Met(c)
      BY <3>5 DEF Met
    <3>7. \A r \in Requests : Inside(r) => op[r].course \in Courses
      BY OpTypes DEF AccessInv, Inside, CallsMatch, Kinds
    <3>8. (\A r \in Requests : LetIn(r))'
      BY <3>3, <3>6, <3>7 DEF AccessInv, LetIn, Inside, Looking, Opened
    <3> QED
      BY <3>1, <3>2, <3>8 DEF AccessInv
  <2> QED
    BY <2>1, <2>2
<1>3. AccessInv => AccessHonoured
  <2> SUFFICES ASSUME AccessInv, NEW r \in Requests, ~IsAdmin, Stores(r) # {}
               PROVE  Opened(r) /\ Met(op[r].course)
    BY DEF AccessHonoured, Opened, Met, Begun
  <2>1. Inside(r)
    BY DEF Stores, Inside
  <2> QED
    BY <2>1 DEF AccessInv, LetIn
<1> QED
  BY <1>1, <1>2, <1>3, PTL DEF Spec

-----------------------------------------------------------------------------
(* What the pages show                                                     *)

\* What is missing when a page is built only makes it show less.
LEMMA SkillsShrink ==
  ASSUME NEW mods, NEW passed, NEW viewed, NEW allPassed, NEW allViewed,
         passed \subseteq allPassed, viewed \subseteq allViewed
  PROVE  /\ \A m : ModuleDone(m, passed, viewed) => ModuleDone(m, allPassed, allViewed)
         /\ SkillIsCompleted(mods, passed, viewed) => SkillIsCompleted(mods, allPassed, allViewed)
  BY DEF ModuleDone, SkillIsCompleted

LEMMA StatusShrinks ==
  ASSUME NEW done \in BOOLEAN, NEW before \in BOOLEAN, NEW allDone \in BOOLEAN,
         NEW allBefore \in BOOLEAN, done => allDone, before => allBefore
  PROVE  /\ Status(done, before) = "completed" => Status(allDone, allBefore) = "completed"
         /\ Status(done, before) = "available" => Status(allDone, allBefore) # "locked"
         /\ Status(done, before) = "completed" => done
         /\ done => Status(done, before) = "completed"
  BY DEF Status

LEMMA CoursePathShrinks ==
  ASSUME NEW outage \in Outage
  PROVE  /\ NotAhead(MyCoursePath(outage), MyCoursePath(NoOutage))
         /\ EnrolledUser(outage).completed <= EnrolledUser(NoOutage).completed
<1> DEFINE done == CompletedCoursesCtx(outage, CoursePath)
           all == CompletedCoursesCtx(NoOutage, CoursePath)
           page == MyCoursePath(outage)
           full == MyCoursePath(NoOutage)
<1>1. done \subseteq all
  BY DEF CompletedCoursesCtx, NoOutage
<1>2. /\ DOMAIN page = DOMAIN CoursePath /\ DOMAIN full = DOMAIN CoursePath
      /\ \A i \in DOMAIN CoursePath :
           /\ page[i] = Status(CoursePath[i] \in done, i = 1 \/ CoursePath[i - 1] \in done)
           /\ full[i] = Status(CoursePath[i] \in all, i = 1 \/ CoursePath[i - 1] \in all)
  BY DEF MyCoursePath, BuildCourseStatuses
<1> HIDE DEF done, all, page, full
<1>3. \A i \in DOMAIN CoursePath :
        /\ page[i] = "completed" => full[i] = "completed"
        /\ page[i] = "available" => full[i] # "locked"
  <2> SUFFICES ASSUME NEW i \in DOMAIN CoursePath
               PROVE  /\ page[i] = "completed" => full[i] = "completed"
                      /\ page[i] = "available" => full[i] # "locked"
    OBVIOUS
  <2> DEFINE d == CoursePath[i] \in done
             p == i = 1 \/ CoursePath[i - 1] \in done
             e == CoursePath[i] \in all
             q == i = 1 \/ CoursePath[i - 1] \in all
  <2>1. d \in BOOLEAN /\ p \in BOOLEAN /\ e \in BOOLEAN /\ q \in BOOLEAN /\ (d => e) /\ (p => q)
    BY <1>1
  <2>2. page[i] = Status(d, p) /\ full[i] = Status(e, q)
    BY <1>2
  <2> HIDE DEF d, p, e, q
  <2> QED
    BY <2>1, <2>2, StatusShrinks
<1>4. NotAhead(page, full)
  BY <1>2, <1>3 DEF NotAhead
<1> DEFINE few == {i \in DOMAIN page : page[i] = "completed"}
           many == {i \in DOMAIN full : full[i] = "completed"}
<1>5. EnrolledUser(outage).completed = Cardinality(few)
      /\ EnrolledUser(NoOutage).completed = Cardinality(many)
  BY DEF EnrolledUser, page, full
<1>6. IsFiniteSet(DOMAIN CoursePath)
  <2>1. DOMAIN CoursePath = 1..Len(CoursePath) /\ Len(CoursePath) \in Nat
    BY PagesAssumption
  <2> QED
    BY <2>1, FS_Interval
<1>7. few \subseteq many /\ IsFiniteSet(many)
  BY <1>2, <1>3, <1>6, FS_Subset
<1>8. Cardinality(few) <= Cardinality(many)
  BY <1>7, FS_Subset
<1> QED
  BY <1>4, <1>5, <1>8 DEF page, full

LEMMA SkillPagesShrink ==
  ASSUME NEW outage \in Outage
  PROVE  /\ NotAhead(MySkillPath(outage), MySkillPath(NoOutage))
         /\ outage.skills = {} =>
              \A s \in Skills : NotAhead(MySkillModules(s, outage), MySkillModules(s, NoOutage))
<1> DEFINE passed == PassedKeys(outage)
           viewed == ViewedKeys(outage)
           allPassed == PassedKeys(NoOutage)
           allViewed == ViewedKeys(NoOutage)
<1>1. passed \subseteq allPassed /\ viewed \subseteq allViewed
  BY DEF PassedKeys, ViewedKeys, NoOutage
<1>2. NotAhead(MySkillPath(outage), MySkillPath(NoOutage))
  <2> DEFINE state == SkillCompletion(outage)
             all == SkillCompletion(NoOutage)
             page == MySkillPath(outage)
             full == MySkillPath(NoOutage)
             done == {i \in DOMAIN SkillPath : state[SkillPath[i]].completed}
             allDone == {i \in DOMAIN SkillPath : all[SkillPath[i]].completed}
  <2>1. \A s \in Skills :
          /\ state[s].completed => all[s].completed
          /\ ~all[s].unavailable
    <3>1. \A s \in Skills : SkillIsCompleted(SkillModules[s], passed, viewed)
                             => SkillIsCompleted(SkillModules[s], allPassed, allViewed)
      BY <1>1, SkillsShrink
    <3>2. \A s \in Skills : state[s].completed =
            (s \notin outage.skills /\ SkillIsCompleted(SkillModules[s], passed, viewed))
      BY DEF SkillCompletion
    <3>3. \A s \in Skills : /\ all[s].unavailable = (s \in NoOutage.skills)
                             /\ all[s].completed = (s \notin NoOutage.skills
                                  /\ SkillIsCompleted(SkillModules[s], allPassed, allViewed))
      BY DEF SkillCompletion
    <3>4. NoOutage.skills = {}
      BY DEF NoOutage
    <3> HIDE DEF passed, viewed, allPassed, allViewed, state, all
    <3> QED
      BY <3>1, <3>2, <3>3, <3>4
  <2>2. \A i \in DOMAIN SkillPath : SkillPath[i] \in Skills
    BY PagesAssumption
  <2>3. done \subseteq allDone
    BY <2>1, <2>2
  <2>4. /\ DOMAIN page = DOMAIN SkillPath /\ DOMAIN full = DOMAIN SkillPath
        /\ \A i \in DOMAIN SkillPath :
             /\ page[i] = IF state[SkillPath[i]].unavailable THEN "locked"
                          ELSE Status(i \in done, i = 1 \/ i - 1 \in done)
             /\ full[i] = Status(i \in allDone, i = 1 \/ i - 1 \in allDone)
    BY <2>1, <2>2 DEF MySkillPath, OrderedSkillStatuses
  <2> HIDE DEF state, all, page, full, done, allDone
  <2> SUFFICES ASSUME NEW i \in DOMAIN SkillPath
               PROVE  /\ page[i] = "completed" => full[i] = "completed"
                      /\ page[i] = "available" => full[i] # "locked"
    BY <2>4 DEF NotAhead, page, full
  <2> DEFINE d == i \in done
             p == i = 1 \/ i - 1 \in done
             e == i \in allDone
             q == i = 1 \/ i - 1 \in allDone
  <2>5. d \in BOOLEAN /\ p \in BOOLEAN /\ e \in BOOLEAN /\ q \in BOOLEAN /\ (d => e) /\ (p => q)
    BY <2>3
  <2>6. page[i] \in {"locked", Status(d, p)} /\ full[i] = Status(e, q)
    BY <2>4
  <2> HIDE DEF d, p, e, q
  <2> QED
    BY <2>5, <2>6, StatusShrinks
<1>3. ASSUME outage.skills = {}, NEW s \in Skills
      PROVE  NotAhead(MySkillModules(s, outage), MySkillModules(s, NoOutage))
  <2> DEFINE mods == SkillModules[s]
             page == MySkillModules(s, outage)
             full == MySkillModules(s, NoOutage)
             done == {i \in DOMAIN mods : ModuleDone(mods[i], passed, viewed)}
             allDone == {i \in DOMAIN mods : ModuleDone(mods[i], allPassed, allViewed)}
  <2>1. done \subseteq allDone
    BY <1>1, SkillsShrink
  <2>2. /\ DOMAIN page = DOMAIN mods /\ DOMAIN full = DOMAIN mods
        /\ \A i \in DOMAIN mods :
             /\ page[i] = Status(i \in done, i = 1 \/ i - 1 \in done)
             /\ full[i] = Status(i \in allDone, i = 1 \/ i - 1 \in allDone)
    BY <1>3 DEF MySkillModules, NoOutage
  <2> HIDE DEF mods, page, full, done, allDone
  <2> SUFFICES ASSUME NEW i \in DOMAIN mods
               PROVE  /\ page[i] = "completed" => full[i] = "completed"
                      /\ page[i] = "available" => full[i] # "locked"
    BY <2>2 DEF NotAhead, page, full
  <2> DEFINE d == i \in done
             p == i = 1 \/ i - 1 \in done
             e == i \in allDone
             q == i = 1 \/ i - 1 \in allDone
  <2>3. d \in BOOLEAN /\ p \in BOOLEAN /\ e \in BOOLEAN /\ q \in BOOLEAN /\ (d => e) /\ (p => q)
    BY <2>1
  <2>4. page[i] = Status(d, p) /\ full[i] = Status(e, q)
    BY <2>2
  <2> HIDE DEF d, p, e, q
  <2> QED
    BY <2>3, <2>4, StatusShrinks
<1> QED
  BY <1>2, <1>3

\* An outage never unlocks anything: whatever is stored, and for any learning
\* path and any tagging of modules, a page built without what could not be
\* read shows no more than the page built with it.
THEOREM OutageNeverUnlocks == Spec => []OutageUnlocksNothing
<1>1. OutageUnlocksNothing
  BY CoursePathShrinks, SkillPagesShrink DEF OutageUnlocksNothing
<1> QED
  BY <1>1, PTL

-----------------------------------------------------------------------------
(* What the list of a course opens was earned                              *)

\* A lesson is only sent by a request that has it in its list.
MarksListed ==
  \A q \in Requests : call[q]["lesson"] # "none" => Listed(q, op[q].slug)

\* Whatever is stored as viewed was marked.
LessonsMarked ==
  \A k \in lessons :
    \/ k[2] = Complete
    \/ \E q \in Requests : op[q] # NoOp /\ op[q].course = k[1] /\ Marked(q, k[2])

\* A result is that of the quiz at the place that was asked for.
ResultsPlaced ==
  \A q \in Requests : scored[q] # NotScored =>
    \E i \in DOMAIN shown[q] :
      IndexOf(shown[q], i) = op[q].pos /\ scored[q].quiz = shown[q][i].slug

MarkInv == TypeOK /\ CallsMatch /\ ResultLate /\ MarksListed /\ LessonsMarked /\ ResultsPlaced

LEMMA LessonCall ==
  ASSUME TypeOK, CallsMatch, Next, NEW q \in Requests
  PROVE  /\ call[q]["lesson"] # "none" => call'[q]["lesson"] # "none"
         /\ call'[q]["lesson"] # "none" =>
              call[q]["lesson"] # "none" \/ (pc[q] # "idle" /\ Listed(q, op[q].slug))
<1>1. ASSUME NEW r \in Requests, Start(r) \/ RefuseSubmission(r) \/ Notified(r) \/ GiveUp(r)
             \/ ReadViewed(r) \/ ReadModules(r) \/ ReadEnrolled(r) \/ OverviewFails(r)
             \/ ReadPrereqViewed(r) \/ CheckPrereqs(r) \/ SummariesFail(r) \/ LessonRefused(r)
      PROVE  UNCHANGED call
  BY <1>1 DEF Start, RefuseSubmission, Notified, GiveUp, ReadViewed, ReadModules, ReadEnrolled,
     OverviewFails, ReadPrereqViewed, CheckPrereqs, SummariesFail, LessonRefused
<1>2. ASSUME NEW r \in Requests, EnsureAccess(r) \/ LessonPosted(r)
      PROVE  call'[q]["lesson"] = call[q]["lesson"]
  BY <1>2, SendOnly DEF EnsureAccess, LessonPosted, Kinds
<1>3. ASSUME NEW r \in Requests, PostLesson(r)
      PROVE  \/ call'[q]["lesson"] = call[q]["lesson"]
             \/ /\ pc[q] # "idle" /\ Listed(q, op[q].slug)
                /\ call'[q]["lesson"] = "sent"
  <2>1. \/ UNCHANGED call
        \/ pc[r] = "act" /\ Listed(r, op[r].slug) /\ Send(r, "lesson")
    BY <1>3 DEF PostLesson, Goto
  <2> QED
    BY <2>1, SendOnly DEF Kinds
<1>4. ASSUME NEW r \in Requests, ScoreSubmission(r)
      PROVE  call'[q]["lesson"] = call[q]["lesson"]
  <2>1. PICK step \in Steps :
          call' = [call EXCEPT ![r]["module"] = "sent", ![r]["complete"] = step]
    BY <1>4 DEF ScoreSubmission, TypeOK, Kinds, Steps
  <2> QED
    BY <2>1 DEF TypeOK, Kinds
<1>5. ASSUME NEW r \in Requests, Handle(r) \/ StatementSkipped(r) \/ (\E k \in Kinds : CallFails(r, k))
      PROVE  call'[q]["lesson"] # "none" <=> call[q]["lesson"] # "none"
  <2>1. \E k \in Kinds, from, to \in Steps \ {"none"} : Advance(r, k, from, to)
    BY <1>5 DEF Handle, LessonRow, LessonXP, ModuleRowWritten, ModuleXP, CompleteRow, CompleteBadge,
       CompleteXP, CompleteSkills, AutoEnroll, StatementSkipped, CallFails, Kinds, Steps
  <2> QED
    BY <2>1 DEF Advance, TypeOK, Kinds
<1>6. ASSUME NEW c \in Courses, SaveCourse(c) \/ Enroll(c) \/ Unenroll(c) PROVE UNCHANGED call
  BY <1>6 DEF SaveCourse, Enroll, Unenroll
<1> QED
  BY <1>1, <1>2, <1>3, <1>4, <1>5, <1>6 DEF Next, Serve, Disturb

\* What was marked remains so.
LEMMA MarkedKept ==
  ASSUME TypeOK, CallsMatch, ResultLate, Next, NEW q \in Requests, NEW s, Marked(q, s)
  PROVE  Marked(q, s)' /\ op'[q] = op[q]
<1>1. pc[q] # "idle"
  BY CallArrived DEF Marked, Kinds
<1>2. op'[q] = op[q] /\ shown'[q] = shown[q]
  BY <1>1, HistoryKept
<1> QED
  BY <1>2, LessonCall DEF Marked, Listed

LEMMA MarksStep ==
  ASSUME TypeOK, CallsMatch, ResultLate, MarksListed, Next
  PROVE  MarksListed'
<1> SUFFICES ASSUME NEW q \in Requests, call'[q]["lesson"] # "none"
             PROVE  Listed(q, op[q].slug)'
  BY DEF MarksListed
<1>1. pc[q] # "idle" /\ Listed(q, op[q].slug)
  BY LessonCall, CallArrived DEF MarksListed, Kinds
<1> QED
  BY <1>1, HistoryKept DEF Listed

LEMMA LessonsMarkedStep ==
  ASSUME TypeOK, CallsMatch, ResultLate, MarksListed, LessonsMarked, Next
  PROVE  LessonsMarked'
<1>1. ASSUME NEW k \in lessons
      PROVE  \/ k[2] = Complete
             \/ \E q \in Requests : op'[q] # NoOp /\ op'[q].course = k[1] /\ Marked(q, k[2])'
  BY MarkedKept DEF LessonsMarked
<1>2. ASSUME NEW r \in Requests, LessonRow(r) PROVE LessonsMarked'
  <2>1. lessons' = lessons \cup {<<op[r].course, op[r].slug>>}
    BY <1>2 DEF LessonRow, MarkComplete
  <2>2. call[r]["lesson"] # "none"
    BY <1>2 DEF LessonRow, Advance
  <2>3. op[r] \in LessonOps /\ op[r] # NoOp
    BY <2>2 DEF CallsMatch, LessonOps, NoOp
  <2>4. Marked(r, op[r].slug)
    BY <2>2, <2>3 DEF MarksListed, Marked, LessonOps
  <2>5. Marked(r, op[r].slug)' /\ op'[r] = op[r]
    <3>1. PICK s : s = op[r].slug
      OBVIOUS
    <3>2. Marked(r, s)' /\ op'[r] = op[r]
      BY <2>4, <3>1, MarkedKept
    <3> QED
      BY <3>1, <3>2
  <2> QED
    BY <1>1, <2>1, <2>3, <2>5 DEF LessonsMarked
<1>3. ASSUME NEW r \in Requests, CompleteRow(r) PROVE LessonsMarked'
  BY <1>1, <1>3 DEF CompleteRow, MarkComplete, LessonsMarked
<1>4. UNCHANGED lessons \/ \E r \in Requests : LessonRow(r) \/ CompleteRow(r)
  <2>1. ASSUME NEW r \in Requests, Handle(r)
        PROVE  UNCHANGED lessons \/ LessonRow(r) \/ CompleteRow(r)
    BY <2>1 DEF Handle, LessonXP, ModuleRowWritten, ModuleXP, CompleteBadge, CompleteXP,
       CompleteSkills, AutoEnroll
  <2>2. ASSUME NEW r \in Requests, Serve(r) \/ Disturb(r) \/ Start(r)
        PROVE  UNCHANGED lessons
    BY <2>2 DEF Serve, Disturb, Start, ReadViewed, ReadModules, ReadEnrolled, OverviewFails,
       EnsureAccess, ReadPrereqViewed, CheckPrereqs, SummariesFail, PostLesson, LessonPosted,
       LessonRefused, RefuseSubmission, ScoreSubmission, Notified, GiveUp, StatementSkipped,
       CallFails, records
  <2>3. ASSUME NEW d \in Courses, SaveCourse(d) \/ Enroll(d) \/ Unenroll(d) PROVE UNCHANGED lessons
    BY <2>3 DEF SaveCourse, Enroll, Unenroll, records
  <2> QED
    BY <2>1, <2>2, <2>3 DEF Next
<1>5. CASE UNCHANGED lessons
  BY <1>1, <1>5 DEF LessonsMarked
<1> QED
  BY <1>2, <1>3, <1>4, <1>5

LEMMA PlacedStep ==
  ASSUME TypeOK, CallsMatch, ResultLate, ResultsPlaced, Next
  PROVE  ResultsPlaced'
<1>1. ASSUME NEW r \in Requests, Start(r) \/ Onward(r) PROVE ResultsPlaced'
  <2>1. UNCHANGED scored
    BY <1>1 DEF Start, Onward
  <2> QED
    BY <2>1, HistoryKept DEF ResultsPlaced, ResultLate, Finished
<1>2. ASSUME NEW r \in Requests, ScoreSubmission(r) PROVE ResultsPlaced'
  <2>1. PICK i \in DOMAIN shown[r], score \in Scores :
          /\ IndexOf(shown[r], i) = op[r].pos
          /\ scored' = [scored EXCEPT ![r] =
                           [quiz |-> shown[r][i].slug, score |-> score, passed |-> score >= PassScore]]
    BY <1>2 DEF ScoreSubmission
  <2>2. UNCHANGED <<op, shown>>
    BY <1>2 DEF ScoreSubmission
  <2>3. scored'[r].quiz = shown[r][i].slug
    BY <2>1 DEF TypeOK
  <2>4. \A q \in Requests \ {r} : scored'[q] = scored[q]
    BY <2>1 DEF TypeOK
  <2> QED
    BY <2>1, <2>2, <2>3, <2>4 DEF ResultsPlaced
<1>3. ASSUME Behind PROVE ResultsPlaced'
  BY <1>3 DEF Behind, flow, ResultsPlaced
<1> QED
  BY <1>1, <1>2, <1>3, StepKinds

LEMMA AlwaysMarked == Spec => []MarkInv
<1>1. Init => MarkInv
  BY InitTypes DEF Init, RecordsInit, MarkInv, ResultLate, MarksListed, LessonsMarked, ResultsPlaced,
     Kinds
<1>2. MarkInv /\ [Next]_vars => MarkInv'
  <2> SUFFICES ASSUME MarkInv, [Next]_vars PROVE MarkInv'
    OBVIOUS
  <2>1. TypeOK' /\ CallsMatch'
    BY TypesStep DEF MarkInv
  <2>2. CASE Next
    BY <2>1, <2>2, LateStep, MarksStep, LessonsMarkedStep, PlacedStep DEF MarkInv
  <2>3. CASE UNCHANGED vars
    BY <2>1, <2>3 DEF MarkInv, vars, records, flow, ResultLate, MarksListed, LessonsMarked,
       ResultsPlaced, Marked, Listed
  <2> QED
    BY <2>2, <2>3
<1> QED
  BY <1>1, <1>2, PTL DEF Spec

LEMMA Greatest ==
  ASSUME NEW n \in Nat, NEW S, S \subseteq 1..n, S # {}
  PROVE  Last(S) \in S
<1> SUFFICES ASSUME \A i \in S : \E j \in S : i < j
             PROVE  FALSE
  <2>1. (\E i \in S : \A j \in S : j <= i) => Last(S) \in S
    BY DEF Last
  <2> QED
    BY <2>1
<1> DEFINE G == {m \in Nat : \E s \in S : s >= m}
<1>1. 0 \in G
  <2>1. PICK s \in S : TRUE
    OBVIOUS
  <2>2. s \in 1..n /\ s >= 0
    OBVIOUS
  <2> QED
    BY <2>2
<1>2. \A m \in Nat : m \in G => m + 1 \in G
  <2> SUFFICES ASSUME NEW m \in Nat, NEW s \in S, s >= m PROVE \E t \in S : t >= m + 1
    OBVIOUS
  <2>1. PICK t \in S : s < t
    OBVIOUS
  <2> QED
    BY <2>1
<1> HIDE DEF G
<1>3. n + 1 \in G
  BY <1>1, <1>2, SuccessorClosed
<1> QED
  BY <1>3 DEF G

\* No two modules of a list stand at one place.
LEMMA OnePlace ==
  ASSUME NEW list, NEW n \in Nat, DOMAIN list \subseteq 1..n, NEW i \in DOMAIN list,
         NEW k \in DOMAIN list, IndexOf(list, i) = IndexOf(list, k)
  PROVE  i = k
<1> DEFINE upTo(m) == {j \in DOMAIN list : j <= m}
<1>1. IsFiniteSet(1..n)
  BY FS_Interval
<1>2. \A m : upTo(m) \subseteq 1..n
  OBVIOUS
<1>3. IsFiniteSet(upTo(i)) /\ IsFiniteSet(upTo(k))
  BY <1>1, <1>2, FS_Subset
<1>4. Cardinality(upTo(i)) = Cardinality(upTo(k))
  BY DEF IndexOf
<1>5. i \in Nat /\ k \in Nat
  OBVIOUS
<1>6. upTo(i) \subseteq upTo(k) \/ upTo(k) \subseteq upTo(i)
  BY <1>5
<1>7. i \in upTo(i) /\ k \in upTo(k)
  BY <1>5
<1>8. upTo(i) = upTo(k)
  <2> HIDE DEF upTo
  <2> QED
    BY <1>3, <1>4, <1>6, FS_Subset
<1> QED
  BY <1>5, <1>7, <1>8

\* What a list counts as done was earned.
LEMMA SlugsEarned ==
  ASSUME MarkInv, AttemptsCounted, NEW c \in Courses, NEW visible, NEW n \in Nat,
         DOMAIN visible \subseteq 1..n, NEW slug \in Slugs, slug \in CompletedSlugs(c, visible)
  PROVE  Earned(c, visible, slug)
<1>1. CASE slug \in ViewedSlugs(c)
  <2>1. <<c, slug>> \in lessons /\ slug # Complete
    BY <1>1, RecordsAssumption DEF ViewedSlugs
  <2> QED
    BY <2>1 DEF MarkInv, LessonsMarked, Earned
<1>2. CASE slug \notin ViewedSlugs(c)
  <2>1. PICK k \in DOMAIN visible : /\ visible[k].slug = slug
                                    /\ IndexOf(visible, k) \in Attempts(c)
                                    /\ modules[<<c, IndexOf(visible, k)>>].passed
    BY <1>2 DEF CompletedSlugs
  <2> DEFINE p == IndexOf(visible, k)
  <2>2. p \in Positions /\ modules[<<c, p>>] \in ModuleRow /\ modules[<<c, p>>].passed
    BY <2>1 DEF Attempts, MarkInv, TypeOK, RecordsTypeOK
  <2> HIDE DEF p
  <2>3. Delivered(c, p) # {}
    <3>1. modules[<<c, p>>].attempts # 0
      BY <2>2 DEF ModuleRow
    <3>2. modules[<<c, p>>].attempts = Cardinality(Delivered(c, p))
      BY <2>2 DEF AttemptsCounted
    <3> QED
      BY <3>1, <3>2, FS_EmptySet
  <2>4. PICK r \in Delivered(c, p) : scored[r].passed
    BY <2>2, <2>3 DEF AttemptsCounted
  <2>5. /\ r \in Requests /\ op[r].kind = "quiz" /\ op[r].course = c /\ op[r].pos = p
        /\ call[r]["module"] \in {"row", "done"}
    BY DEF Delivered
  <2>6. op[r] # NoOp /\ scored[r] # NotScored
    BY <2>4, <2>5 DEF NoOp, NotScored
  <2>7. shown[r] = visible => scored[r].quiz = visible[k].slug
    <3> SUFFICES ASSUME shown[r] = visible PROVE scored[r].quiz = visible[k].slug
      OBVIOUS
    <3>1. PICK i \in DOMAIN visible : IndexOf(visible, i) = p /\ scored[r].quiz = visible[i].slug
      BY <2>5, <2>6 DEF MarkInv, ResultsPlaced
    <3>2. i = k
      BY <3>1, OnePlace DEF p
    <3> QED
      BY <3>1, <3>2
  <2>8. PassedAt(r, visible, k)
    BY <2>4, <2>5, <2>7 DEF PassedAt, p
  <2> QED
    BY <2>1, <2>5, <2>6, <2>8 DEF Earned
<1> QED
  BY <1>1, <1>2

\* A module is shown as open only when a request of the learner earned each
\* module it needs and the module before it, whatever calls were late or lost,
\* whatever was edited, and for any catalog (ListModules, completedSlugs).
THEOREM ModulesAlwaysInOrder == Spec => []ModulesOpenInOrder
<1>1. MarkInv /\ AttemptsCounted => ModulesOpenInOrder
  <2> SUFFICES ASSUME MarkInv, AttemptsCounted, ~IsAdmin, NEW c \in Courses,
                      NEW visible, visible = VisibleModules(listing[c], TRUE),
                      NEW i \in DOMAIN visible, ~Locked(c, visible, i),
                      NEW j \in WaitsFor(visible, i)
               PROVE  Earned(c, visible, visible[j].slug)
    BY DEF ModulesOpenInOrder
  <2>1. listing[c] \in Versions[c] /\ listing[c] \in Seq(Module)
    BY FlowAssumption DEF MarkInv, TypeOK, Listings
  <2>2. Len(listing[c]) \in Nat
    BY <2>1
  <2>3. /\ DOMAIN visible \subseteq 1..Len(listing[c])
        /\ \A m \in DOMAIN visible : visible[m] \in Module
    BY <2>1 DEF VisibleModules, Restrict
  <2>4. visible[j].slug \in CompletedSlugs(c, visible)
    BY DEF Locked, WaitsFor
  <2>5. j \in DOMAIN visible
    <3>1. CASE j \in Before(visible, i)
      <4> DEFINE earlier == {m \in DOMAIN visible : m < i /\ visible[m].slug \notin InlineSlugs}
      <4>1. earlier # {} /\ j = Last(earlier)
        BY <3>1 DEF Before
      <4> HIDE DEF earlier
      <4>2. earlier \subseteq DOMAIN visible
        BY Zenon DEF earlier
      <4>3. Last(earlier) \in earlier
        BY <2>2, <2>3, <4>1, <4>2, Greatest
      <4> QED
        BY <4>1, <4>2, <4>3
    <3> QED
      BY <3>1 DEF WaitsFor
  <2>6. visible[j].slug \in Slugs
    BY <2>3, <2>5 DEF Module
  <2> QED
    BY <2>2, <2>3, <2>4, <2>6, SlugsEarned
<1> QED
  BY <1>1, AlwaysMarked, AttemptsAlwaysCounted, PTL
=============================================================================
