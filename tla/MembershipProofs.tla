-------------------------- MODULE MembershipProofs ---------------------------
(***************************************************************************)
(* Type correctness of Membership, and that nobody is missed, for any set  *)
(* of users, groups, courses and requests.  NobodyMissed needs little more *)
(* than the types to be inductive: whatever makes a membership or a group  *)
(* enrolment is, in the same step, excused or followed by a request that   *)
(* has yet to list what it wrote.                                          *)
(***************************************************************************)
EXTENDS Managers, TLAPS

\* A slot that is given a request of the right kind.
LEMMA SlotType ==
  ASSUME TypeOK, NEW r \in Requests, NEW q \in Request, Filled(q),
         request' = [request EXCEPT ![r] = q]
  PROVE  request' \in [Requests -> Request] /\ \A s \in Requests : Filled(request'[s])
BY DEF TypeOK

LEMMA IdleType == Idle \in Request /\ Filled(Idle)
BY DEF Idle, Request, PC, Filled

\* Requests start with what they are about.
LEMMA StartType ==
  ASSUME TypeOK, NEW r \in Requests, NEW q \in Request, Filled(q), Start(r, q)
  PROVE  TypeOK'
<1>1. request' \in [Requests -> Request] /\ \A s \in Requests : Filled(request'[s])
  BY SlotType DEF Start
<1>2. QED
  BY <1>1, MembershipAssumption DEF TypeOK, Start, Change

\* A request that only goes on, or ends.
LEMMA GotoType ==
  ASSUME TypeOK, NEW r \in Requests, NEW pc \in PC, Goto(r, pc), Filled([request[r] EXCEPT !.pc = pc])
  PROVE  request' \in [Requests -> Request] /\ \A s \in Requests : Filled(request'[s])
<1> DEFINE q == [request[r] EXCEPT !.pc = pc]
<1>1. q \in Request
  BY DEF TypeOK, Request
<1>2. request' = [request EXCEPT ![r] = q]
  BY DEF Goto
<1> HIDE DEF q
<1>3. QED
  BY <1>1, <1>2, SlotType DEF q

LEMMA EndType ==
  ASSUME TypeOK, NEW r \in Requests, End(r)
  PROVE  request' \in [Requests -> Request] /\ \A s \in Requests : Filled(request'[s])
BY IdleType, SlotType DEF End

\* What a request under way is about.
LEMMA AboutType ==
  ASSUME TypeOK, NEW r \in Requests
  PROVE  request[r] \in Request /\ Filled(request[r])
BY DEF TypeOK

LEMMA TypeStep == TypeOK /\ [Next]_vars => TypeOK'
<1> SUFFICES ASSUME TypeOK, [Next]_vars PROVE TypeOK'
  OBVIOUS
<1> USE MembershipAssumption
<1>1. ASSUME NEW r \in Requests, NEW g \in Groups, NEW c \in Courses, EnrollGroup(r, g, c)
      PROVE TypeOK'
  <2> DEFINE q == [Idle EXCEPT !.pc = "record", !.group = g, !.course = c]
  <2>1. q \in Request /\ Filled(q)
    BY DEF Idle, Request, PC, Filled
  <2>2. Start(r, q)
    BY <1>1 DEF EnrollGroup, After
  <2>3. QED
    BY <2>1, <2>2, StartType
<1>2. ASSUME NEW r \in Requests, NEW u \in Users, SignIn(r, u) PROVE TypeOK'
  <2> DEFINE q == [Idle EXCEPT !.pc = "default", !.user = u]
  <2>1. q \in Request /\ Filled(q)
    BY DEF Idle, Request, PC, Filled
  <2>2. Start(r, q)
    BY <1>2 DEF SignIn, After
  <2>3. QED
    BY <2>1, <2>2, StartType
<1>3. ASSUME NEW r \in Requests, NEW u \in Users, NEW names \in SUBSET Groups,
             ProviderSignIn(r, u, names)
      PROVE TypeOK'
  <2> DEFINE q == [Idle EXCEPT !.pc = "clear", !.user = u, !.names = names]
  <2>1. q \in Request /\ Filled(q)
    BY DEF Idle, Request, PC, Filled
  <2>2. Start(r, q)
    BY <1>3 DEF ProviderSignIn, After
  <2>3. QED
    BY <2>1, <2>2, StartType
<1>4. ASSUME NEW r \in Requests, NEW g \in Groups, DeleteGroup(r, g) PROVE TypeOK'
  <2> DEFINE q == [Idle EXCEPT !.pc = "anyone", !.group = g]
  <2>1. q \in Request /\ Filled(q)
    BY DEF Idle, Request, PC, Filled
  <2>2. QED
    BY <1>4, <2>1, StartType DEF DeleteGroup
<1>5. ASSUME NEW r \in Requests, NEW u \in Users, NEW g \in Groups, ManagerDeleteGroup(r, u, g)
       PROVE TypeOK'
  <2> DEFINE q == [Idle EXCEPT !.pc = "owner", !.user = u, !.group = g]
  <2>1. q \in Request /\ Filled(q)
    BY DEF Idle, Request, PC, Filled
  <2>2. QED
    BY <1>5, <2>1, StartType DEF ManagerDeleteGroup
<1>6. ASSUME NEW r \in Requests, Record(r) PROVE TypeOK'
  <2>1. request[r].group \in Groups /\ request[r].course \in Courses
    BY <1>6, AboutType DEF Record, At, Filled
  <2>2. request' \in [Requests -> Request] /\ \A s \in Requests : Filled(request'[s])
    BY <1>6, <2>1, GotoType, EndType, AboutType DEF Record, After, PC, Filled, Request
  <2>3. QED
    BY <1>6, <2>1, <2>2 DEF Record, TypeOK
<1>7. ASSUME NEW r \in Requests, ListMembers(r) PROVE TypeOK'
  <2> DEFINE q == [request[r] EXCEPT !.pc = "backfill",
                                     !.people = {u \in Users : <<u, request[r].group>> \in member}]
  <2>1. q \in Request /\ Filled(q)
    BY <1>7, AboutType DEF ListMembers, At, Request, PC, Filled
  <2>2. request' = [request EXCEPT ![r] = q]
    BY <1>7 DEF ListMembers, After
  <2>3. QED
    BY <1>7, <2>1, <2>2, SlotType DEF ListMembers, TypeOK
<1>8. ASSUME NEW r \in Requests, Backfill(r) PROVE TypeOK'
  <2>1. request[r].course \in Courses /\ request[r].people \subseteq Users
    BY <1>8, AboutType DEF Backfill, At, Request, Filled
  <2>2. QED
    BY <1>8, <2>1, EndType DEF Backfill, TypeOK
<1>9. ASSUME NEW r \in Requests, Clear(r) PROVE TypeOK'
  <2> DEFINE q == [request[r] EXCEPT !.pc = "join",
                                     !.cleared = GroupsOf(request[r].user) \cap ProviderGroups]
  <2>1. q \in Request /\ Filled(q)
    BY <1>9, AboutType DEF Clear, At, Request, PC, Filled, GroupsOf
  <2>2. request' = [request EXCEPT ![r] = q]
    BY <1>9 DEF Clear
  <2>3. QED
    BY <1>9, <2>1, <2>2, SlotType DEF Clear, TypeOK
<1>10. ASSUME NEW r \in Requests, Join(r) PROVE TypeOK'
  <2>1. request[r].user \in Users /\ request[r].names \subseteq Groups
    BY <1>10, AboutType DEF Join, At, Request, Filled
  <2>2. request' \in [Requests -> Request] /\ \A s \in Requests : Filled(request'[s])
    <3>1. ASSUME NEW s \in Requests, s # r
          PROVE  request'[s] \in Request /\ Filled(request'[s])
      <4>1. \/ request'[s] = request[s]
            \/ request'[s] = [request[s] EXCEPT !.cleared = @ \ request[r].cleared]
        BY <1>10, <3>1 DEF Join
      <4>2. QED
        BY <4>1, AboutType DEF Request, Filled
    <3>2. request'[r] = [request[r] EXCEPT !.pc = "role", !.names = {}, !.cleared = {}]
      BY <1>10 DEF Join, After
    <3>3. request'[r] \in Request /\ Filled(request'[r])
      BY <2>1, <3>2, AboutType DEF Request, PC, Filled
    <3>4. request' = [s \in Requests |-> request'[s]]
      BY <1>10 DEF Join
    <3>5. QED
      BY <3>1, <3>3, <3>4
  <2>3. source' \in [Groups -> Source] /\ member' \subseteq Users \X Groups
    BY <1>10, <2>1 DEF Join, TypeOK, Source
  <2>4. QED
    BY <1>10, <2>2, <2>3 DEF Join, TypeOK
<1>11. ASSUME NEW r \in Requests, MakeDefault(r) PROVE TypeOK'
  <2>1. request' \in [Requests -> Request] /\ \A s \in Requests : Filled(request'[s])
    BY <1>11, GotoType, AboutType DEF MakeDefault, At, After, PC, Filled, Request
  <2>2. QED
    BY <1>11, <2>1 DEF MakeDefault, TypeOK, Source
<1>12. ASSUME NEW r \in Requests, LinkDefault(r) PROVE TypeOK'
  <2>1. request' \in [Requests -> Request] /\ \A s \in Requests : Filled(request'[s])
    BY <1>12, GotoType, AboutType DEF LinkDefault, At, After, PC, Filled, Request
  <2>2. request[r].user \in Users
    BY <1>12, AboutType DEF LinkDefault, At, Filled
  <2>3. QED
    BY <1>12, <2>1, <2>2 DEF LinkDefault, TypeOK
<1>13. ASSUME NEW r \in Requests, ListSlugs(r) PROVE TypeOK'
  <2> DEFINE q == [request[r] EXCEPT !.pc = "enroll", !.slugs = SlugsOf(request[r].user)]
  <2>1. q \in Request /\ Filled(q)
    BY <1>13, AboutType DEF ListSlugs, At, Request, PC, Filled, SlugsOf
  <2>2. request' = [request EXCEPT ![r] = q]
    BY <1>13 DEF ListSlugs
  <2>3. QED
    BY <1>13, <2>1, <2>2, SlotType DEF ListSlugs, TypeOK
<1>14. ASSUME NEW r \in Requests, EnrollInAll(r) PROVE TypeOK'
  <2>1. request[r].user \in Users /\ request[r].slugs \subseteq Courses
    BY <1>14, AboutType DEF EnrollInAll, At, Request, Filled
  <2>2. QED
    BY <1>14, <2>1, EndType DEF EnrollInAll, TypeOK
<1>15. ASSUME NEW r \in Requests, LookForMembers(r) PROVE TypeOK'
  <2>1. request' \in [Requests -> Request] /\ \A s \in Requests : Filled(request'[s])
    BY <1>15, GotoType, EndType, AboutType DEF LookForMembers, At, PC, Filled, Request
  <2>2. QED
    BY <1>15, <2>1 DEF LookForMembers, TypeOK
<1>16. ASSUME NEW r \in Requests, LookForOwner(r) PROVE TypeOK'
  <2>1. request' \in [Requests -> Request] /\ \A s \in Requests : Filled(request'[s])
    BY <1>16, GotoType, EndType, AboutType DEF LookForOwner, At, PC, Filled, Request
  <2>2. QED
    BY <1>16, <2>1 DEF LookForOwner, TypeOK
<1>17. ASSUME NEW r \in Requests, Delete(r) PROVE TypeOK'
  <2>1. source' \in [Groups -> Source] /\ member' \subseteq member /\ offered' \subseteq offered
    BY <1>17 DEF Delete, TypeOK, Source
  <2>2. QED
    BY <1>17, <2>1, EndType DEF Delete, TypeOK
<1>18. ASSUME NEW r \in Requests, Fails(r) PROVE TypeOK'
  <2>1. request' \in [Requests -> Request] /\ \A s \in Requests : Filled(request'[s])
    <3>1. CASE End(r)
      BY <3>1, EndType
    <3>2. CASE /\ request[r].pc \in DOMAIN GoesOn
               /\ request' = [request EXCEPT ![r].pc = GoesOn[request[r].pc], ![r].cleared = {}]
      <4> DEFINE q == [request[r] EXCEPT !.pc = GoesOn[request[r].pc], !.cleared = {}]
      <4>1. request[r].pc \in {"clear", "join", "default", "link"}
            /\ GoesOn[request[r].pc] \in {"role", "slugs"}
        BY <3>2 DEF GoesOn
      <4>2. q \in Request /\ Filled(q)
        BY <4>1, AboutType DEF Request, PC, Filled
      <4>3. request' = [request EXCEPT ![r] = q]
        BY <3>2
      <4>4. QED
        BY <4>2, <4>3, SlotType
    <3>3. QED
      BY <1>18, <3>1, <3>2 DEF Fails
  <2>2. Forgone(request[r]) \subseteq Users \X Courses
    BY AboutType DEF Forgone, Filled, SlugsOf
  <2>3. QED
    BY <1>18, <2>1, <2>2 DEF Fails, TypeOK
<1>19. ASSUME NEW r \in Requests, SetRole(r) PROVE TypeOK'
  <2>1. request' \in [Requests -> Request] /\ \A s \in Requests : Filled(request'[s])
    BY <1>19, GotoType, AboutType DEF SetRole, At, After, PC, Filled, Request
  <2>2. QED
    BY <1>19, <2>1 DEF SetRole, TypeOK
<1>20. ASSUME NEW g \in Groups, CreateGroup(g) PROVE TypeOK'
  BY <1>20 DEF CreateGroup, TypeOK, Source, Change
<1>21. ASSUME NEW u \in Users, NEW g \in Groups,
              CreateAndJoin(u, g) \/ AddMember(u, g) \/ RemoveMember(u, g)
       PROVE TypeOK'
  <2>1. source' \in [Groups -> Source]
    BY <1>21 DEF CreateAndJoin, AddMember, RemoveMember, TypeOK, Source
  <2>2. member' \subseteq member \cup {<<u, g>>} /\ excused' \subseteq excused \cup ({u} \X Courses)
    BY <1>21 DEF CreateAndJoin, AddMember, RemoveMember
  <2>3. UNCHANGED <<offered, enrolled, request, faults>> /\ changes' \in 0..MaxChanges
    BY <1>21 DEF CreateAndJoin, AddMember, RemoveMember, TypeOK, Change
  <2>4. QED
    BY <2>1, <2>2, <2>3 DEF TypeOK
<1>22. ASSUME NEW g \in Groups, NEW c \in Courses, UnenrollGroup(g, c) PROVE TypeOK'
  BY <1>22 DEF UnenrollGroup, TypeOK, Change
<1>23. ASSUME NEW u \in Users, NEW cs \in SUBSET Courses, Enroll(u, cs) PROVE TypeOK'
  BY <1>23 DEF Enroll, TypeOK, Change
<1>24. ASSUME NEW u \in Users, NEW c \in Courses, Unenroll(u, c) PROVE TypeOK'
  BY <1>24 DEF Unenroll, TypeOK, Change
<1>25. CASE UNCHANGED vars
  BY <1>25 DEF vars, TypeOK
<1>26. QED
  BY <1>1, <1>2, <1>3, <1>4, <1>5, <1>6, <1>7, <1>8, <1>9, <1>10, <1>11, <1>12, <1>13,
     <1>14, <1>15, <1>16, <1>17, <1>18, <1>19, <1>20, <1>21, <1>22, <1>23,
     <1>24, <1>25 DEF Next, Step

\* Edits of one statement, with what they may add.
LEMMA EditMissesNobody ==
  ASSUME NobodyMissed, request' = request, offered' \subseteq offered,
         enrolled \cup excused \subseteq enrolled' \cup excused',
         \A u \in Users, g \in Groups, c \in Courses :
           <<u, g>> \in member' /\ <<g, c>> \in offered =>
             <<u, g>> \in member \/ <<u, c>> \in excused'
  PROVE  NobodyMissed'
<1> SUFFICES ASSUME NEW u \in Users, NEW g \in Groups, NEW c \in Courses,
                    <<u, g>> \in member', <<g, c>> \in offered'
             PROVE  <<u, c>> \in enrolled' \cup excused' \/ Coming(u, g, c)'
  BY DEF NobodyMissed
<1>1. CASE <<u, c>> \in excused'
  BY <1>1
<1>2. CASE <<u, g>> \in member
  <2>1. <<u, c>> \in enrolled \cup excused \/ Coming(u, g, c)
    BY <1>2 DEF NobodyMissed
  <2>2. Coming(u, g, c) => Coming(u, g, c)'
    BY DEF Coming
  <2>3. QED
    BY <2>1, <2>2
<1>3. QED
  BY <1>1, <1>2

\* A step of a request, which adds no member and offers no course.
LEMMA RequestMissesNobody ==
  ASSUME TypeOK, NobodyMissed, NEW r \in Requests,
         \A s \in Requests \ {r} : request'[s] = request[s],
         member' \subseteq member, offered' \subseteq offered,
         \A u \in Users, g \in Groups, c \in Courses :
           <<u, c>> \in enrolled \cup excused /\ <<u, g>> \in member /\ <<g, c>> \in offered =>
             <<u, c>> \in enrolled' \cup excused' \/ Coming(u, g, c)',
         \A u \in Users, g \in Groups, c \in Courses :
           /\ <<u, g>> \in member /\ <<g, c>> \in offered
           /\ \/ request[r].pc = "members" /\ request[r].group = g /\ request[r].course = c
              \/ /\ request[r].pc = "backfill" /\ request[r].group = g
                 /\ request[r].course = c /\ u \in request[r].people
              \/ request[r].pc \in {"role", "default", "link", "slugs"} /\ request[r].user = u
              \/ request[r].pc = "enroll" /\ request[r].user = u /\ c \in request[r].slugs
           => <<u, c>> \in enrolled' \cup excused' \/ Coming(u, g, c)'
  PROVE  NobodyMissed'
<1> SUFFICES ASSUME NEW u \in Users, NEW g \in Groups, NEW c \in Courses,
                    <<u, g>> \in member, <<g, c>> \in offered
             PROVE  <<u, c>> \in enrolled' \cup excused' \/ Coming(u, g, c)'
  BY DEF NobodyMissed
<1>1. CASE <<u, c>> \in enrolled \cup excused
  BY <1>1
<1>2. CASE Coming(u, g, c)
  BY <1>2 DEF Coming
<1>3. QED
  BY <1>1, <1>2 DEF NobodyMissed

\* A group that has courses is there: the foreign key of group_enrollments.
OffersReal == \A g \in Groups, c \in Courses : <<g, c>> \in offered => Exists(g)

LEMMA OfferStep == TypeOK /\ OffersReal /\ [Next]_vars => OffersReal'
<1> SUFFICES ASSUME TypeOK, OffersReal, [Next]_vars PROVE OffersReal'
  OBVIOUS
<1>1. ASSUME NEW r \in Requests, Record(r) PROVE OffersReal'
  BY <1>1 DEF Record, OffersReal, Exists
<1>2. ASSUME NEW r \in Requests, Join(r) PROVE OffersReal'
  <2>1. offered' = offered
        /\ \A g \in Groups : source'[g] = source[g] \/ source'[g] = "provider"
    BY <1>2 DEF Join
  <2>2. QED
    BY <2>1 DEF OffersReal, Exists
<1>3. ASSUME NEW r \in Requests, MakeDefault(r) PROVE OffersReal'
  BY <1>3 DEF MakeDefault, OffersReal, Exists, TypeOK
<1>4. ASSUME NEW r \in Requests, Delete(r) PROVE OffersReal'
  BY <1>4 DEF Delete, OffersReal, Exists, TypeOK
<1>5. ASSUME NEW g \in Groups, CreateGroup(g) \/ \E u \in Users : CreateAndJoin(u, g)
      PROVE OffersReal'
  BY <1>5 DEF CreateGroup, CreateAndJoin, OffersReal, Exists, TypeOK
<1>6. ASSUME UNCHANGED source, offered' \subseteq offered PROVE OffersReal'
  BY <1>6 DEF OffersReal, Exists
<1>7. ASSUME NEW r \in Requests, Step(r) PROVE OffersReal'
  BY <1>1, <1>2, <1>3, <1>4, <1>6, <1>7 DEF Step, ListMembers, Backfill, Clear, SetRole,
     LinkDefault, ListSlugs, EnrollInAll, LookForMembers, LookForOwner, Fails
<1>8. QED
  BY <1>5, <1>6, <1>7 DEF Next, vars, EnrollGroup, SignIn, ProviderSignIn, DeleteGroup,
     ManagerDeleteGroup, Start,
     AddMember, RemoveMember, UnenrollGroup, Enroll, Unenroll

LEMMA MissStep == TypeOK /\ OffersReal /\ NobodyMissed /\ [Next]_vars => NobodyMissed'
<1> SUFFICES ASSUME TypeOK, OffersReal, NobodyMissed, [Next]_vars PROVE NobodyMissed'
  OBVIOUS
<1>1. ASSUME NEW r \in Requests, NEW q, Start(r, q) PROVE NobodyMissed'
  <2>1. /\ request[r].pc = "idle" /\ UNCHANGED <<member, offered, enrolled, excused>>
        /\ \A s \in Requests \ {r} : request'[s] = request[s]
    BY <1>1 DEF Start, TypeOK
  <2>2. QED
    BY <2>1, RequestMissesNobody
<1>2. ASSUME NEW r \in Requests, Record(r) PROVE NobodyMissed'
  <2> SUFFICES ASSUME NEW u \in Users, NEW g \in Groups, NEW c \in Courses,
                      <<u, g>> \in member', <<g, c>> \in offered'
               PROVE  <<u, c>> \in enrolled' \cup excused' \/ Coming(u, g, c)'
    BY DEF NobodyMissed
  <2>1. /\ request[r].pc = "record" /\ member' = member
        /\ enrolled' = enrolled /\ excused' = excused
        /\ \A s \in Requests \ {r} : request'[s] = request[s]
    BY <1>2 DEF Record, At, Goto, End, TypeOK
  <2>2. CASE <<g, c>> \in offered
    BY <2>1, <2>2 DEF NobodyMissed, Coming
  <2>3. CASE <<g, c>> \notin offered
    <3>1. /\ g = request[r].group /\ c = request[r].course
          /\ request' = [request EXCEPT ![r].pc = "members"]
      BY <1>2, <2>3 DEF Record, Goto, After
    <3>2. request'[r].pc = "members" /\ request'[r].group = g /\ request'[r].course = c
      BY <3>1 DEF TypeOK, Request
    <3>3. QED
      BY <3>2 DEF Coming
  <2>4. QED
    BY <2>2, <2>3
<1>3. ASSUME NEW r \in Requests, ListMembers(r) PROVE NobodyMissed'
  <2>1. /\ request[r].pc = "members"
        /\ UNCHANGED <<member, offered, enrolled, excused>>
        /\ \A s \in Requests \ {r} : request'[s] = request[s]
    BY <1>3 DEF ListMembers, At, TypeOK
  <2>2. /\ request'[r].pc = "backfill"
        /\ request'[r].group = request[r].group /\ request'[r].course = request[r].course
        /\ request'[r].people = {u \in Users : <<u, request[r].group>> \in member}
    BY <1>3 DEF ListMembers, After, TypeOK, Request
  <2>3. QED
    BY <2>1, <2>2, RequestMissesNobody DEF Coming
<1>4. ASSUME NEW r \in Requests, Backfill(r) PROVE NobodyMissed'
  <2>1. /\ request[r].pc = "backfill"
        /\ UNCHANGED <<member, offered, excused>>
        /\ enrolled' = enrolled \cup (request[r].people \X {request[r].course})
        /\ \A s \in Requests \ {r} : request'[s] = request[s]
    BY <1>4 DEF Backfill, At, End
  <2>2. QED
    BY <2>1, RequestMissesNobody
<1>5. ASSUME NEW r \in Requests, Clear(r) PROVE NobodyMissed'
  <2>1. /\ request[r].pc = "clear" /\ UNCHANGED <<member, offered, enrolled, excused>>
        /\ \A s \in Requests \ {r} : request'[s] = request[s]
    BY <1>5 DEF Clear, At, TypeOK
  <2>2. QED
    BY <2>1, RequestMissesNobody
<1>6. ASSUME NEW r \in Requests, Join(r) PROVE NobodyMissed'
  <2> SUFFICES ASSUME NEW u \in Users, NEW g \in Groups, NEW c \in Courses,
                      <<u, g>> \in member', <<g, c>> \in offered'
               PROVE  <<u, c>> \in enrolled' \cup excused' \/ Coming(u, g, c)'
    BY DEF NobodyMissed
  <2>1. /\ request[r].pc = "join"
        /\ UNCHANGED <<offered, enrolled, excused>>
        /\ request'[r].pc = "role" /\ request'[r].user = request[r].user
    BY <1>6 DEF Join, At, After, TypeOK, Request
  <2>2. CASE u = request[r].user
    BY <2>1, <2>2 DEF Coming
  <2>3. CASE u # request[r].user
    <3>1. <<u, g>> \in member
      BY <1>6, <2>3 DEF Join
    <3>2. \A s \in Requests \ {r} :
            /\ request'[s].pc = request[s].pc /\ request'[s].user = request[s].user
            /\ request'[s].group = request[s].group /\ request'[s].course = request[s].course
            /\ request'[s].people = request[s].people /\ request'[s].slugs = request[s].slugs
      BY <1>6 DEF Join, TypeOK, Request
    <3>3. QED
      BY <2>1, <3>1, <3>2 DEF NobodyMissed, Coming
  <2>4. QED
    BY <2>2, <2>3
<1>7. ASSUME NEW r \in Requests, SetRole(r) PROVE NobodyMissed'
  <2>1. /\ request[r].pc = "role"
        /\ UNCHANGED <<member, offered, enrolled, excused>>
        /\ \A s \in Requests \ {r} : request'[s] = request[s]
        /\ request'[r].pc = "default" /\ request'[r].user = request[r].user
    BY <1>7 DEF SetRole, At, Goto, After, TypeOK, Request
  <2>2. QED
    BY <2>1, RequestMissesNobody DEF Coming
<1>8. ASSUME NEW r \in Requests, MakeDefault(r) PROVE NobodyMissed'
  <2>1. /\ request[r].pc = "default"
        /\ UNCHANGED <<member, offered, enrolled, excused>>
        /\ \A s \in Requests \ {r} : request'[s] = request[s]
        /\ request'[r].pc = "link" /\ request'[r].user = request[r].user
    BY <1>8 DEF MakeDefault, At, Goto, After, TypeOK, Request
  <2>2. QED
    BY <2>1, RequestMissesNobody DEF Coming
<1>9. ASSUME NEW r \in Requests, LinkDefault(r) PROVE NobodyMissed'
  <2> SUFFICES ASSUME NEW u \in Users, NEW g \in Groups, NEW c \in Courses,
                      <<u, g>> \in member', <<g, c>> \in offered'
               PROVE  <<u, c>> \in enrolled' \cup excused' \/ Coming(u, g, c)'
    BY DEF NobodyMissed
  <2>1. /\ request[r].pc = "link"
        /\ UNCHANGED <<offered, enrolled, excused>>
        /\ \A s \in Requests \ {r} : request'[s] = request[s]
        /\ request'[r].pc = "slugs" /\ request'[r].user = request[r].user
    BY <1>9 DEF LinkDefault, At, Goto, After, TypeOK, Request
  <2>2. CASE u = request[r].user
    BY <2>1, <2>2 DEF Coming
  <2>3. CASE u # request[r].user
    <3>1. <<u, g>> \in member
      BY <1>9, <2>3 DEF LinkDefault
    <3>2. QED
      BY <2>1, <2>3, <3>1 DEF NobodyMissed, Coming
  <2>4. QED
    BY <2>2, <2>3
<1>10. ASSUME NEW r \in Requests, ListSlugs(r) PROVE NobodyMissed'
  <2>1. /\ request[r].pc = "slugs"
        /\ UNCHANGED <<member, offered, enrolled>>
        /\ excused' = excused \ ({request[r].user} \X SlugsOf(request[r].user))
        /\ \A s \in Requests \ {r} : request'[s] = request[s]
    BY <1>10 DEF ListSlugs, At, TypeOK
  <2>2. /\ request'[r].pc = "enroll" /\ request'[r].user = request[r].user
        /\ request'[r].slugs = SlugsOf(request[r].user)
    BY <1>10 DEF ListSlugs, TypeOK, Request
  <2>3. \A u \in Users, g \in Groups, c \in Courses :
          <<u, g>> \in member /\ <<g, c>> \in offered => c \in SlugsOf(u)
    BY DEF SlugsOf, GroupsOf
  <2>4. \A u \in Users, g \in Groups, c \in Courses :
          <<u, g>> \in member /\ <<g, c>> \in offered /\ u = request[r].user => Coming(u, g, c)'
    BY <2>2, <2>3 DEF Coming
  <2>5. QED
    BY <2>1, <2>4, RequestMissesNobody
<1>11. ASSUME NEW r \in Requests, EnrollInAll(r) PROVE NobodyMissed'
  <2>1. /\ request[r].pc = "enroll"
        /\ UNCHANGED <<member, offered, excused>>
        /\ enrolled' = enrolled \cup ({request[r].user} \X request[r].slugs)
        /\ \A s \in Requests \ {r} : request'[s] = request[s]
    BY <1>11 DEF EnrollInAll, At, End
  <2>2. QED
    BY <2>1, RequestMissesNobody
<1>12. ASSUME NEW r \in Requests, LookForMembers(r) PROVE NobodyMissed'
  <2>1. /\ request[r].pc = "anyone" /\ UNCHANGED <<member, offered, enrolled, excused>>
        /\ \A s \in Requests \ {r} : request'[s] = request[s]
    BY <1>12 DEF LookForMembers, At, Goto, End, TypeOK
  <2>2. QED
    BY <2>1, RequestMissesNobody
<1>13. ASSUME NEW r \in Requests, LookForOwner(r) PROVE NobodyMissed'
  <2>1. /\ request[r].pc = "owner" /\ UNCHANGED <<member, offered, enrolled, excused>>
        /\ \A s \in Requests \ {r} : request'[s] = request[s]
    BY <1>13 DEF LookForOwner, At, Goto, End, TypeOK
  <2>2. QED
    BY <2>1, RequestMissesNobody
<1>14. ASSUME NEW r \in Requests, Delete(r) PROVE NobodyMissed'
  <2>1. /\ request[r].pc = "delete" /\ UNCHANGED <<enrolled, excused>>
        /\ member' \subseteq member /\ offered' \subseteq offered
        /\ \A s \in Requests \ {r} : request'[s] = request[s]
    BY <1>14 DEF Delete, At, End
  <2>2. QED
    BY <2>1, RequestMissesNobody
<1>15. ASSUME NEW r \in Requests, Fails(r) PROVE NobodyMissed'
  <2>1. /\ UNCHANGED <<member, offered, enrolled>>
        /\ excused' = excused \cup Forgone(request[r])
        /\ \A s \in Requests \ {r} : request'[s] = request[s]
    BY <1>15 DEF Fails, End, TypeOK
  <2>2. request[r].pc \in {"default", "link"} =>
          request'[r].pc = "slugs" /\ request'[r].user = request[r].user
    BY <1>15 DEF Fails, GivesUp, GoesOn, TypeOK, Request
  <2>3. ASSUME NEW u \in Users, NEW g \in Groups, NEW c \in Courses,
               <<u, g>> \in member, <<g, c>> \in offered,
               \/ request[r].pc \in {"members", "backfill"} /\ request[r].group = g
                  /\ request[r].course = c
               \/ request[r].pc \in {"role", "slugs", "enroll"} /\ request[r].user = u
        PROVE  <<u, c>> \in Forgone(request[r])
    BY <2>3 DEF Forgone, SlugsOf, GroupsOf
  <2>4. QED
    BY <2>1, <2>2, <2>3, RequestMissesNobody DEF Coming
<1>16. ASSUME NEW g \in Groups, CreateGroup(g) PROVE NobodyMissed'
  BY <1>16, EditMissesNobody DEF CreateGroup
<1>17. ASSUME NEW u \in Users, NEW g \in Groups, CreateAndJoin(u, g) PROVE NobodyMissed'
  <2>1. \A c \in Courses : <<g, c>> \notin offered
    BY <1>17 DEF CreateAndJoin, OffersReal, Exists
  <2>2. QED
    BY <1>17, EditMissesNobody, <2>1 DEF CreateAndJoin
<1>18. ASSUME NEW u \in Users, NEW g \in Groups, AddMember(u, g) PROVE NobodyMissed'
  BY <1>18, EditMissesNobody DEF AddMember
<1>19. ASSUME NEW u \in Users, NEW g \in Groups, RemoveMember(u, g) PROVE NobodyMissed'
  BY <1>19, EditMissesNobody DEF RemoveMember
<1>20. ASSUME NEW g \in Groups, NEW c \in Courses, UnenrollGroup(g, c) PROVE NobodyMissed'
  BY <1>20, EditMissesNobody DEF UnenrollGroup
<1>21. ASSUME NEW u \in Users, NEW cs \in SUBSET Courses, Enroll(u, cs) PROVE NobodyMissed'
  BY <1>21, EditMissesNobody DEF Enroll
<1>22. ASSUME NEW u \in Users, NEW c \in Courses, Unenroll(u, c) PROVE NobodyMissed'
  BY <1>22, EditMissesNobody DEF Unenroll
<1>23. CASE UNCHANGED vars
  BY <1>23, EditMissesNobody DEF vars
<1>24. ASSUME NEW r \in Requests,
              \/ \E g \in Groups, c \in Courses : EnrollGroup(r, g, c)
              \/ \E u \in Users : SignIn(r, u)
              \/ \E u \in Users, names \in SUBSET Groups : ProviderSignIn(r, u, names)
              \/ \E g \in Groups : DeleteGroup(r, g)
              \/ \E u \in Users, g \in Groups : ManagerDeleteGroup(r, u, g)
       PROVE  NobodyMissed'
  <2>1. \E q : Start(r, q)
    BY <1>24 DEF EnrollGroup, SignIn, ProviderSignIn, DeleteGroup,
     ManagerDeleteGroup
  <2>2. QED
    BY <2>1, <1>1
<1> HIDE DEF NobodyMissed
<1>25. QED
  BY <1>2, <1>3, <1>4, <1>5, <1>6, <1>7, <1>8, <1>9, <1>10, <1>11, <1>12, <1>13, <1>14,
     <1>15, <1>16, <1>17, <1>18, <1>19, <1>20, <1>21, <1>22, <1>23, <1>24 DEF Next, Step

-----------------------------------------------------------------------------
\* What a transaction has deleted was the provider's, and a group never stops
\* being the provider's.
ClearedTheirs == \A r \in Requests : request[r].cleared \subseteq ProviderGroups

LEMMA ClearedStep == TypeOK /\ ClearedTheirs /\ [Next]_vars => ClearedTheirs'
<1> SUFFICES ASSUME TypeOK, ClearedTheirs, [Next]_vars PROVE ClearedTheirs'
  OBVIOUS
<1>1. ProviderGroups \subseteq ProviderGroups'
  BY DEF Next, vars, Step, Record, ListMembers, Backfill, Clear, Join, SetRole, MakeDefault,
     LinkDefault, ListSlugs, EnrollInAll, LookForMembers, LookForOwner, Delete, Fails,
     EnrollGroup, SignIn, ProviderSignIn, DeleteGroup, ManagerDeleteGroup, Start,
     CreateGroup, CreateAndJoin, AddMember, RemoveMember, UnenrollGroup, Enroll, Unenroll,
     ProviderGroups, TypeOK
<1>2. ASSUME NEW s \in Requests
      PROVE  request'[s].cleared \subseteq request[s].cleared \cup ProviderGroups
  <2>1. ASSUME NEW r \in Requests, NEW q, q.cleared = {}, Start(r, q)
        PROVE request'[s].cleared \subseteq request[s].cleared
    BY <2>1 DEF Start, TypeOK
  <2>2. ASSUME NEW r \in Requests,
               \/ \E g \in Groups, c \in Courses : EnrollGroup(r, g, c)
               \/ \E u \in Users : SignIn(r, u)
               \/ \E u \in Users, names \in SUBSET Groups : ProviderSignIn(r, u, names)
               \/ \E g \in Groups : DeleteGroup(r, g)
              \/ \E u \in Users, g \in Groups : ManagerDeleteGroup(r, u, g)
        PROVE  request'[s].cleared \subseteq request[s].cleared
    <3>1. \E q : q.cleared = {} /\ Start(r, q)
      BY <2>2 DEF EnrollGroup, SignIn, ProviderSignIn, DeleteGroup,
     ManagerDeleteGroup, Idle
    <3>2. QED
      BY <2>1, <3>1
  <2>3. ASSUME NEW r \in Requests, NEW pc, Goto(r, pc) \/ End(r)
        PROVE request'[s].cleared \subseteq request[s].cleared
    BY <2>3 DEF Goto, End, Idle, TypeOK, Request
  <2>4. ASSUME NEW r \in Requests, ListMembers(r) \/ ListSlugs(r)
        PROVE request'[s].cleared \subseteq request[s].cleared
    BY <2>4 DEF ListMembers, ListSlugs, TypeOK, Request
  <2>5. ASSUME NEW r \in Requests, Clear(r)
        PROVE request'[s].cleared \subseteq request[s].cleared \cup ProviderGroups
    BY <2>5 DEF Clear, TypeOK, Request
  <2>6. ASSUME NEW r \in Requests, Join(r)
        PROVE request'[s].cleared \subseteq request[s].cleared
    BY <2>6 DEF Join, TypeOK, Request
  <2>7. ASSUME NEW r \in Requests, Fails(r)
        PROVE request'[s].cleared \subseteq request[s].cleared
    BY <2>7, <2>3 DEF Fails, TypeOK, Request
  <2>8. ASSUME NEW r \in Requests, Step(r)
        PROVE request'[s].cleared \subseteq request[s].cleared \cup ProviderGroups
    <3>1. CASE Record(r) \/ Backfill(r) \/ SetRole(r) \/ MakeDefault(r) \/ LinkDefault(r)
               \/ EnrollInAll(r) \/ LookForMembers(r) \/ LookForOwner(r) \/ Delete(r)
      BY <3>1, <2>3 DEF Record, Backfill, SetRole, MakeDefault, LinkDefault, EnrollInAll,
         LookForMembers, LookForOwner, Delete
    <3>2. QED
      BY <2>8, <3>1, <2>4, <2>5, <2>6, <2>7 DEF Step
  <2>9. CASE UNCHANGED request
    BY <2>9
  <2>10. QED
    BY <2>2, <2>8, <2>9 DEF Next, vars, CreateGroup, CreateAndJoin, AddMember, RemoveMember,
       UnenrollGroup, Enroll, Unenroll
<1>3. QED
  BY <1>1, <1>2 DEF ClearedTheirs

\* One request at a time leaves the transaction, by its commit or a rollback.
LEMMA KeptStep ==
  ASSUME TypeOK, ClearedTheirs, [Next]_vars, NEW r \in Requests,
         request[r].pc = "join", request'[r].pc # "join"
  PROVE  member \ member' \subseteq {request[r].user} \X ProviderGroups
<1>1. Join(r) \/ Fails(r)
  <2>1. ASSUME NEW s \in Requests, Step(s) PROVE Join(r) \/ Fails(r)
    <3>1. CASE s = r
      BY <2>1, <3>1 DEF Step, At, Record, ListMembers, Backfill, Clear, SetRole,
         MakeDefault, LinkDefault, ListSlugs, EnrollInAll, LookForMembers, LookForOwner,
         Delete
    <3>2. CASE s # r
      <4>1. CASE Join(s)
        BY <4>1, <3>2 DEF Join, TypeOK, Request
      <4>2. CASE ~Join(s)
        BY <2>1, <4>2, <3>2 DEF Step, Record, ListMembers, Backfill, Clear, SetRole,
           MakeDefault, LinkDefault, ListSlugs, EnrollInAll, LookForMembers, LookForOwner,
           Delete, Fails, Goto, End, TypeOK
      <4>3. QED
        BY <4>1, <4>2
    <3>3. QED
      BY <3>1, <3>2
  <2>2. ASSUME NEW s \in Requests, NEW q, Start(s, q) PROVE FALSE
    BY <2>2 DEF Start, TypeOK
  <2>3. QED
    BY <2>1, <2>2 DEF Next, vars, EnrollGroup, SignIn, ProviderSignIn, DeleteGroup,
     ManagerDeleteGroup, CreateGroup,
       CreateAndJoin, AddMember, RemoveMember, UnenrollGroup, Enroll, Unenroll
<1>2. QED
  BY <1>1 DEF Join, Fails, ClearedTheirs

-----------------------------------------------------------------------------
Inv == TypeOK /\ OffersReal /\ NobodyMissed /\ ClearedTheirs

LEMMA InitInv == Init => Inv
<1> SUFFICES ASSUME Init PROVE Inv
  OBVIOUS
<1>1. TypeOK
  BY IdleType, MembershipAssumption DEF Init, TypeOK, Source
<1>2. OffersReal /\ NobodyMissed
  BY DEF Init, OffersReal, NobodyMissed
<1>3. ClearedTheirs
  BY DEF Init, ClearedTheirs, Idle
<1>4. QED
  BY <1>1, <1>2, <1>3 DEF Inv

LEMMA Inductive == Inv /\ [Next]_vars => Inv'
BY TypeStep, OfferStep, MissStep, ClearedStep DEF Inv

\* The tables and the requests under way keep their types (group_sync.go,
\* group_enrollments.go).
THEOREM TypeCorrect == Spec => []TypeOK
<1>1. Inv => TypeOK
  BY DEF Inv
<1>2. QED
  BY <1>1, InitInv, Inductive, PTL DEF Spec

\* For any number of users, groups, courses and requests at once, and whatever
\* fails: a member whose group has a course is enrolled in it, or about to be,
\* or has an excuse until he signs in (EnrollCourse, SyncEnrollments).
THEOREM NobodyEverMissed == Spec => []NobodyMissed
<1>1. Inv => NobodyMissed
  BY DEF Inv
<1>2. QED
  BY <1>1, InitInv, Inductive, PTL DEF Spec

\* A sign-in takes nobody but its user, and him only out of groups that are the
\* provider's when it commits (SyncGroupsAndDeriveRole).
THEOREM LocalAlwaysKept == Spec => LocalKept
<1>1. Inv /\ [Next]_vars =>
        [\A r \in Requests : request[r].pc = "join" /\ request'[r].pc # "join" =>
           member \ member' \subseteq {request[r].user} \X ProviderGroups]_vars
  BY KeptStep DEF Inv
<1>2. QED
  BY <1>1, InitInv, Inductive, PTL DEF Spec, LocalKept
-----------------------------------------------------------------------------
(***************************************************************************)
(* Managers: what a manager sees or changes is in his scope, and his       *)
(* requests leave the promises of Membership as they were.                 *)
(***************************************************************************)

\* What an errand is about, by how far it is.
Shaped(e) ==
  LET q == errand[e] IN
  /\ q.pc # "idle" => q.manager \in Users
  /\ q.pc = "owner" => q.group \in Groups
  /\ q.pc \in {"groups", "scope"} => q.user \in Users /\ q.group = None
  /\ q.pc = "act" => q.group # None \/ q.user \in Users

\* What it has seen.  Whoever lost a membership since it began is in lost;
\* otherwise all of it is still so.
Seen(e) ==
  LET q == errand[e] IN
  /\ q.pc = "scope" => \A g \in q.scope : g # Default /\ <<q.manager, g>> \in member
  /\ q.pc = "act" /\ q.group # None => q.group # Default /\ <<q.manager, q.group>> \in member
  /\ q.pc = "act" /\ q.group = None =>
       \E g \in Groups : g # Default /\ <<q.manager, g>> \in member /\ <<q.user, g>> \in member

Known(e) == Shaped(e) /\ (e \in lost \/ Seen(e))

AskedFor(e) ==
  \/ \E m \in Users, g \in Groups : AskAboutGroup(e, m, g)
  \/ \E m \in Users, u \in Users : AskAboutUser(e, m, u)

ErrandInv ==
  /\ errand \in [Errands -> ErrandType]
  /\ lost \subseteq Errands
  /\ \A e \in Errands : Known(e)

LEMMA NoErrandType == NoErrand \in ErrandType
BY DEF NoErrand, ErrandType

\* Every step is one of Membership, or leaves its tables and requests alone.
LEMMA ManagersStepIsMembership ==
  ASSUME TypeOK, ErrandInv, [ManagersNext]_managersVars
  PROVE  \/ [Next]_vars
         \/ /\ UNCHANGED <<source, member, offered, enrolled, request, faults, excused>>
            /\ changes' \in 0..MaxChanges
<1>1. ASSUME NEW e \in Errands, Act(e) PROVE [Next]_vars
  <2>1. CASE errand[e].group # None
    <3>1. ActOnGroup(errand[e].group) /\ errand[e].group \in Groups
      BY <1>1, <2>1 DEF Act, ErrandInv, ErrandType
    <3>2. QED
      BY <3>1 DEF ActOnGroup, Next
  <2>2. CASE errand[e].group = None
    <3>1. ActOnUser(errand[e].user) /\ errand[e].user \in Users
      BY <1>1, <2>2 DEF Act, ErrandInv, Known, Shaped
    <3>2. QED
      BY <3>1 DEF ActOnUser, Next
  <2>3. QED
    BY <2>1, <2>2
<1>2. ASSUME NEW e \in Errands, NEW q, Begin(e, q)
      PROVE  /\ UNCHANGED <<source, member, offered, enrolled, request, faults, excused>>
             /\ changes' \in 0..MaxChanges
  BY <1>2, MembershipAssumption DEF Begin, Change, TypeOK
<1>3. ASSUME NEW e \in Errands, CheckOwner(e) \/ ListScope(e) \/ CheckScope(e) \/ GiveUp(e)
      PROVE UNCHANGED vars
  BY <1>3 DEF CheckOwner, ListScope, CheckScope, GiveUp
<1>4. QED
  BY <1>1, <1>2, <1>3 DEF ManagersNext, managersVars, Errand, AskAboutGroup, AskAboutUser, vars

-----------------------------------------------------------------------------
\* An errand that no step touches keeps what it knows: memberships only come,
\* or it is among the lost.
LEMMA KnownStays ==
  ASSUME ErrandInv, NEW e \in Errands, errand'[e] = errand[e],
         e \in lost \/ Loses(errand[e].manager) \/ Loses(errand[e].user) => errand[e].pc = "idle" \/ e \in lost'
  PROVE  Known(e)'
<1> DEFINE q == errand[e]
<1>1. Known(e) /\ q \in ErrandType
  BY DEF ErrandInv
<1>2. CASE q.pc = "idle" \/ e \in lost'
  BY <1>1, <1>2 DEF Known, Shaped, Seen
<1>3. CASE q.pc # "idle" /\ e \notin lost'
  <2>0. errand'[e] = q
    OBVIOUS
  <2>1. e \notin lost /\ ~Loses(q.manager) /\ ~Loses(q.user)
    BY <1>3
  <2>2. Shaped(e)'
    BY <1>1, <2>0 DEF Known, Shaped
  <2>3. Seen(e)
    BY <1>1, <2>1 DEF Known
  <2>4. ASSUME NEW g \in Groups
        PROVE  /\ <<q.manager, g>> \in member => <<q.manager, g>> \in member'
               /\ <<q.user, g>> \in member => <<q.user, g>> \in member'
    BY <2>1 DEF Loses
  <2>5. q.group \in Groups \cup {None} /\ q.scope \subseteq Groups
    BY <1>1 DEF ErrandType
  <2> HIDE DEF q
  <2>6. Seen(e)'
    BY <2>0, <2>3, <2>4, <2>5 DEF Seen, q
  <2>7. QED
    BY <2>2, <2>6 DEF Known
<1>4. QED
  BY <1>2, <1>3

\* One errand at a time takes a step.
LEMMA ErrandStep == TypeOK /\ ErrandInv /\ [ManagersNext]_managersVars => ErrandInv'
<1> SUFFICES ASSUME TypeOK, ErrandInv, [ManagersNext]_managersVars PROVE ErrandInv'
  OBVIOUS
<1>1. CASE UNCHANGED managersVars
  BY <1>1 DEF managersVars, vars, ErrandInv, Known, Shaped, Seen
<1>2. CASE ManagersNext
  <2>1. lost' \subseteq Errands
        /\ \A e \in Errands : errand'[e].pc # "idle" /\ e \notin lost' =>
             e \notin lost /\ ~Loses(errand[e].manager) /\ ~Loses(errand[e].user)
    BY <1>2 DEF ManagersNext
  <2>2. ASSUME NEW e \in Errands, errand'[e] = errand[e] PROVE Known(e)'
    BY <2>1, <2>2, KnownStays
  <2>3. CASE UNCHANGED errand
    BY <2>1, <2>2, <2>3 DEF ErrandInv
  <2>4. ASSUME NEW e \in Errands, Errand(e) PROVE ErrandInv'
    <3>1. PICK q \in ErrandType : errand' = [errand EXCEPT ![e] = q]
      <4>1. CASE AskedFor(e)
        BY <4>1, NoErrandType DEF AskedFor, AskAboutGroup, AskAboutUser, Begin, NoErrand, ErrandType
      <4>2. CASE Act(e) \/ GiveUp(e)
        BY <4>2, NoErrandType DEF Act, GiveUp, Leave
      <4>3. CASE CheckOwner(e) \/ CheckScope(e)
        BY <4>3, NoErrandType DEF CheckOwner, CheckScope, Leave, Proceed, ErrandInv, ErrandType
      <4>4. CASE ListScope(e)
        BY <4>4 DEF ListScope, Scope, GroupsOf, ErrandInv, ErrandType
      <4>5. QED
        BY <2>4, <4>1, <4>2, <4>3, <4>4 DEF Errand, AskedFor
    <3>2. Known(e)'
      <4>1. CASE AskedFor(e)
        <5>1. ASSUME NEW m \in Users, NEW g \in Groups, AskAboutGroup(e, m, g) PROVE Known(e)'
          <6>1. errand'[e] = [pc |-> "owner", manager |-> m, user |-> None, group |-> g, scope |-> {}]
            BY <5>1 DEF AskAboutGroup, Begin, NoErrand, ErrandInv
          <6>2. QED
            BY <6>1 DEF Known, Shaped, Seen
        <5>2. ASSUME NEW m \in Users, NEW u \in Users, AskAboutUser(e, m, u) PROVE Known(e)'
          <6>1. errand'[e] = [pc |-> "groups", manager |-> m, user |-> u, group |-> None, scope |-> {}]
            BY <5>2 DEF AskAboutUser, Begin, NoErrand, ErrandInv
          <6>2. QED
            BY <6>1 DEF Known, Shaped, Seen
        <5>3. QED
          BY <4>1, <5>1, <5>2 DEF AskedFor
      <4>2. CASE Act(e) \/ GiveUp(e)
        BY <4>2 DEF Act, GiveUp, Leave, NoErrand, Known, Shaped, Seen, ErrandInv
      <4>3. CASE CheckOwner(e)
        BY <4>3, MembershipAssumption DEF CheckOwner, Proceed, Leave, NoErrand, Known, Shaped, Seen,
           ErrandInv, ErrandType, Scope, GroupsOf, vars
      <4>4. CASE ListScope(e)
        BY <4>4 DEF ListScope, Known, Shaped, Seen, ErrandInv, ErrandType, Scope, GroupsOf, vars
      <4>5. CASE CheckScope(e)
        <5>1. CASE errand'[e].pc = "idle"
          BY <4>5, <5>1 DEF CheckScope, Proceed, Leave, NoErrand, Known, Shaped, Seen, ErrandInv, ErrandType
        <5>2. CASE errand'[e].pc # "idle"
          <6>1. /\ errand'[e] = [errand[e] EXCEPT !.pc = "act"]
                /\ UserInAnyGroup(errand[e].user, errand[e].scope)
                /\ errand[e].pc = "scope" /\ errand[e] \in ErrandType /\ Known(e)
            BY <4>5, <5>2 DEF CheckScope, Proceed, Leave, NoErrand, ErrandInv
          <6>2. /\ errand'[e].pc = "act" /\ errand'[e].manager = errand[e].manager
                /\ errand'[e].user = errand[e].user /\ errand'[e].group = errand[e].group
            BY <6>1 DEF ErrandType
          <6>3. Shaped(e)'
            BY <6>1, <6>2 DEF Known, Shaped
          <6>4. e \in lost' \/ Seen(e)'
            <7>1. e \in lost' \/ Seen(e)
              BY <2>1, <5>2, <6>1 DEF Known
            <7>2. UNCHANGED member
              BY <4>5 DEF CheckScope, vars
            <7>3. errand[e].group = None /\ errand[e].scope \subseteq Groups
              BY <6>1 DEF Known, Shaped, ErrandType
            <7>4. QED
              BY <6>1, <6>2, <7>1, <7>2, <7>3 DEF Seen, UserInAnyGroup
          <6>5. QED
            BY <6>3, <6>4 DEF Known
        <5>3. QED
          BY <5>1, <5>2
      <4>6. QED
        BY <2>4, <4>1, <4>2, <4>3, <4>4, <4>5 DEF Errand, AskedFor
    <3>3. QED
      BY <2>1, <2>2, <3>1, <3>2 DEF ErrandInv
  <2>5. QED
    BY <1>2, <2>3, <2>4 DEF ManagersNext
<1>3. QED
  BY <1>1, <1>2

-----------------------------------------------------------------------------
ManagersInv == Inv /\ ErrandInv

LEMMA ManagersInitInv == ManagersInit => ManagersInv
BY InitInv, NoErrandType DEF ManagersInit, ManagersInv, ErrandInv, Known, Shaped, Seen, NoErrand

LEMMA ManagersInductive == ManagersInv /\ [ManagersNext]_managersVars => ManagersInv'
<1> SUFFICES ASSUME ManagersInv, [ManagersNext]_managersVars PROVE ManagersInv'
  OBVIOUS
<1>1. Inv /\ TypeOK /\ ErrandInv
  BY DEF ManagersInv, Inv
<1>2. CASE [Next]_vars
  BY <1>1, <1>2, Inductive, ErrandStep DEF ManagersInv
<1>3. CASE /\ UNCHANGED <<source, member, offered, enrolled, request, faults, excused>>
           /\ changes' \in 0..MaxChanges
  <2>1. Inv'
    BY <1>1, <1>3 DEF Inv, TypeOK, Filled, OffersReal, Exists, NobodyMissed, Coming, ClearedTheirs, ProviderGroups
  <2>2. QED
    BY <1>1, <2>1, ErrandStep DEF ManagersInv
<1>4. QED
  BY <1>1, <1>2, <1>3, ManagersStepIsMembership

\* With managers at work a member whose group has a course still has it, or is
\* about to, or has an excuse (ManagerAddGroupMember, ManagerUnenrollUser).
THEOREM NobodyMissedByManagers == ManagersSpec => []NobodyMissed
<1>1. ManagersInv => NobodyMissed
  BY DEF ManagersInv, Inv
<1>2. QED
  BY <1>1, ManagersInitInv, ManagersInductive, PTL DEF ManagersSpec

\* For any number of managers, users and groups at once: an errand that gets to
\* its statement is in its manager's scope at that moment, or he or the user
\* was put out of a group since it began (managerScopeIDs, managerOwnsGroup).
THEOREM ManagersAlwaysInScope == ManagersSpec => ManagersInScope
<1>1. ManagersInv /\ [ManagersNext]_managersVars =>
        [\A e \in Errands :
           errand[e].pc = "act" /\ errand'[e].pc = "idle" => InScope(errand[e]) \/ e \in lost]_managersVars
  BY DEF ManagersInv, ErrandInv, Known, Seen, InScope, Shared
<1>2. QED
  BY <1>1, ManagersInitInv, ManagersInductive, PTL DEF ManagersSpec, ManagersInScope
=============================================================================
