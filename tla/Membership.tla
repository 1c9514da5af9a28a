----------------------------- MODULE Membership ------------------------------
(***************************************************************************)
(* Groups, their members, the courses groups are enrolled in, and the      *)
(* enrolments of learners that are to follow from them.                    *)
(*                                                                         *)
(* Nothing enrols a member when he is added.  Enrolling a group enrols its *)
(* members of that moment; everybody else is enrolled by his next sign-in. *)
(* Both take several statements, without a transaction around them, and    *)
(* members come and go between any two.  Only the sign-in's exchange of    *)
(* the provider's groups is a transaction, at READ COMMITTED.              *)
(*                                                                         *)
(* Subgroups are in GroupTree, roles in Accounts, a manager's other        *)
(* requests in Managers.                                                   *)
(***************************************************************************)
EXTENDS Naturals

CONSTANTS
  Users, Groups, Courses,
  Default,      \* the group named "everyone"
  Requests,     \* slots for requests that take several statements
  None,         \* no user, group or course
  MaxChanges,   \* bound on requests and edits
  MaxFaults     \* bound on failing statements

ASSUME MembershipAssumption ==
  /\ Default \in Groups
  /\ None \notin Users \cup Groups \cup Courses
  /\ MaxChanges \in Nat /\ MaxFaults \in Nat

VARIABLES
  source,       \* of every group: whose it is, or that it is not there
  member,       \* user_groups
  offered,      \* group_enrollments
  enrolled,     \* enrollments
  request,      \* the request in each slot
  changes, faults,
  excused       \* history: enrolments not to be expected yet (NobodyMissed)

vars == <<source, member, offered, enrolled, request, changes, faults, excused>>

\* An id is used once: a group that was deleted and is made again under its
\* old name is another one.
Source == {"unmade", "local", "provider", "deleted"}

Exists(g) == source[g] \in {"local", "provider"}

\* names: the groups the provider asserts; cleared: the memberships the
\* transaction has deleted; people, slugs: what a statement listed.
Idle == [pc |-> "idle", user |-> None, group |-> None, course |-> None,
         names |-> {}, cleared |-> {}, people |-> {}, slugs |-> {}]

PC == {"idle", "record", "members", "backfill", "clear", "join", "role", "default",
       "link", "slugs", "enroll", "owner", "anyone", "delete"}

Request == [pc : PC, user : Users \cup {None}, group : Groups \cup {None},
            course : Courses \cup {None}, names : SUBSET Groups, cleared : SUBSET Groups,
            people : SUBSET Users, slugs : SUBSET Courses]

\* A request knows whom or what it is about.
Filled(q) ==
  /\ q.pc \in {"record", "members", "backfill"} => q.group \in Groups /\ q.course \in Courses
  /\ q.pc \in {"clear", "join", "role", "default", "link", "slugs", "enroll"} => q.user \in Users
  /\ q.pc \in {"owner", "anyone", "delete"} => q.group \in Groups

TypeOK ==
  /\ source \in [Groups -> Source]
  /\ member \subseteq Users \X Groups
  /\ offered \subseteq Groups \X Courses
  /\ enrolled \subseteq Users \X Courses
  /\ request \in [Requests -> Request]
  /\ changes \in 0..MaxChanges
  /\ faults \in 0..MaxFaults
  /\ excused \subseteq Users \X Courses
  /\ \A r \in Requests : Filled(request[r])

Init ==
  /\ source = [g \in Groups |-> "unmade"]
  /\ member = {} /\ offered = {} /\ enrolled = {} /\ excused = {}
  /\ request = [r \in Requests |-> Idle]
  /\ changes = MaxChanges
  /\ faults = MaxFaults

-----------------------------------------------------------------------------
(* Requests and their order                                                *)

\* Mutant: the members are listed before the group is enrolled.
AfterListFirst ==
  [enrollGroup |-> "members", members |-> "record", record |-> "backfill",
   signIn |-> "default", providerSignIn |-> "clear", join |-> "role", role |-> "default",
   default |-> "link", link |-> "slugs"]

\* What a request does first, and what comes after each statement.
After ==
  [enrollGroup |-> "record", record |-> "members", members |-> "backfill",
   signIn |-> "default", providerSignIn |-> "clear", join |-> "role", role |-> "default",
   default |-> "link", link |-> "slugs"]

Change == changes > 0 /\ changes' = changes - 1

Start(r, q) ==
  /\ Change
  /\ request[r].pc = "idle"
  /\ request' = [request EXCEPT ![r] = q]
  /\ UNCHANGED <<source, member, offered, enrolled, faults, excused>>

At(r, pc) == request[r].pc = pc

Goto(r, pc) == request' = [request EXCEPT ![r].pc = pc]

End(r) == request' = [request EXCEPT ![r] = Idle]

EnrollGroup(r, g, c) ==
  Start(r, [Idle EXCEPT !.pc = After.enrollGroup, !.group = g, !.course = c])

SignIn(r, u) == Start(r, [Idle EXCEPT !.pc = After.signIn, !.user = u])

ProviderSignIn(r, u, names) ==
  Start(r, [Idle EXCEPT !.pc = After.providerSignIn, !.user = u, !.names = names])

\* By an admin.
DeleteGroup(r, g) == Start(r, [Idle EXCEPT !.pc = "anyone", !.group = g])

ManagerDeleteGroup(r, u, g) ==
  Start(r, [Idle EXCEPT !.pc = "owner", !.user = u, !.group = g])

-----------------------------------------------------------------------------
(* EnrollCourse                                                            *)

\* Refused by the foreign key when the group is gone.
Record(r) ==
  LET q == request[r] IN
  /\ At(r, "record")
  /\ \/ /\ Exists(q.group)
        /\ offered' = offered \cup {<<q.group, q.course>>}
        /\ Goto(r, After.record)
     \/ /\ ~Exists(q.group)
        /\ End(r)
        /\ UNCHANGED offered
  /\ UNCHANGED <<source, member, enrolled, changes, faults, excused>>

ListMembers(r) ==
  LET q == request[r] IN
  /\ At(r, "members")
  /\ request' = [request EXCEPT ![r].pc = After.members,
                                ![r].people = {u \in Users : <<u, q.group>> \in member}]
  /\ UNCHANGED <<source, member, offered, enrolled, changes, faults, excused>>

Backfill(r) ==
  LET q == request[r] IN
  /\ At(r, "backfill")
  /\ enrolled' = enrolled \cup (q.people \X {q.course})
  /\ End(r)
  /\ UNCHANGED <<source, member, offered, changes, faults, excused>>

-----------------------------------------------------------------------------
(* Sign-in                                                                 *)

ProviderGroups == {g \in Groups : source[g] = "provider"}

GroupsOf(u) == {g \in Groups : <<u, g>> \in member}

\* Mutant: every membership goes.
ClearAll(r) ==
  LET q == request[r] IN
  /\ At(r, "clear")
  /\ request' = [request EXCEPT ![r].pc = "join", ![r].cleared = GroupsOf(q.user)]
  /\ UNCHANGED <<source, member, offered, enrolled, changes, faults, excused>>

\* The rows deleted stay visible to the others until the commit.
Clear(r) ==
  LET q == request[r] IN
  /\ At(r, "clear")
  /\ request' = [request EXCEPT ![r].pc = "join",
                                ![r].cleared = GroupsOf(q.user) \cap ProviderGroups]
  /\ UNCHANGED <<source, member, offered, enrolled, changes, faults, excused>>

\* The upserts, the links and the commit.  A row that another transaction has
\* deleted is none of a statement's any more, also when it was inserted again;
\* a deleted group is made anew, as one that is in no model.
Join(r) ==
  LET q == request[r]
      joined == {g \in q.names : source[g] # "deleted"}
  IN
  /\ At(r, "join")
  /\ source' = [g \in Groups |-> IF g \in joined THEN "provider" ELSE source[g]]
  /\ member' = (member \ ({q.user} \X q.cleared)) \cup ({q.user} \X joined)
  /\ request' = [s \in Requests |->
       CASE s = r -> [q EXCEPT !.pc = After.join, !.names = {}, !.cleared = {}]
         [] s # r /\ request[s].user = q.user ->
              [request[s] EXCEPT !.cleared = @ \ q.cleared]
         [] OTHER -> request[s]]
  /\ UNCHANGED <<offered, enrolled, changes, faults, excused>>

\* A provider's own list of admin groups may overrule the role.
SetRole(r) ==
  /\ At(r, "role")
  /\ Goto(r, After.role)
  /\ UNCHANGED <<source, member, offered, enrolled, changes, faults, excused>>

\* AddToDefault is two statements.
MakeDefault(r) ==
  /\ At(r, "default")
  /\ source' = [source EXCEPT ![Default] = IF @ = "unmade" THEN "local" ELSE @]
  /\ Goto(r, After.default)
  /\ UNCHANGED <<member, offered, enrolled, changes, faults, excused>>

LinkDefault(r) ==
  LET q == request[r] IN
  /\ At(r, "link")
  /\ member' = member \cup {<<q.user, g>> : g \in {h \in {Default} : Exists(h)}}
  /\ Goto(r, After.link)
  /\ UNCHANGED <<source, offered, enrolled, changes, faults, excused>>

\* What the user's groups are enrolled in.
SlugsOf(u) == {c \in Courses : \E g \in GroupsOf(u) : <<g, c>> \in offered}

ListSlugs(r) ==
  LET q == request[r] IN
  /\ At(r, "slugs")
  /\ request' = [request EXCEPT ![r].pc = "enroll", ![r].slugs = SlugsOf(q.user)]
  /\ excused' = excused \ ({q.user} \X SlugsOf(q.user))
  /\ UNCHANGED <<source, member, offered, enrolled, changes, faults>>

EnrollInAll(r) ==
  LET q == request[r] IN
  /\ At(r, "enroll")
  /\ enrolled' = enrolled \cup ({q.user} \X q.slugs)
  /\ End(r)
  /\ UNCHANGED <<source, member, offered, changes, faults, excused>>

-----------------------------------------------------------------------------
(* Deletion                                                                *)

LookForMembers(r) ==
  LET q == request[r] IN
  /\ At(r, "anyone")
  /\ IF \E u \in Users : <<u, q.group>> \in member THEN End(r) ELSE Goto(r, "delete")
  /\ UNCHANGED <<source, member, offered, enrolled, changes, faults, excused>>

\* A manager's groups are those he is in, but for the default one.  Nobody asks
\* for members here.
LookForOwner(r) ==
  LET q == request[r] IN
  /\ At(r, "owner")
  /\ IF <<q.user, q.group>> \in member /\ q.group # Default THEN Goto(r, "delete") ELSE End(r)
  /\ UNCHANGED <<source, member, offered, enrolled, changes, faults, excused>>

\* Local groups only; members and group enrolments go with the group.
Delete(r) ==
  LET q == request[r] IN
  /\ At(r, "delete")
  /\ \/ /\ source[q.group] = "local"
        /\ source' = [source EXCEPT ![q.group] = "deleted"]
        /\ member' = member \ (Users \X {q.group})
        /\ offered' = offered \ ({q.group} \X Courses)
     \/ /\ source[q.group] # "local"
        /\ UNCHANGED <<source, member, offered>>
  /\ End(r)
  /\ UNCHANGED <<enrolled, changes, faults, excused>>

-----------------------------------------------------------------------------
(* Failures                                                                *)

\* Where a failing statement ends the request.
GivesUp == {"record", "members", "backfill", "role", "slugs", "enroll", "owner",
            "anyone", "delete"}

\* Where a sign-in goes on all the same: the transaction is rolled back as a
\* whole, and either half of AddToDefault leaves out the rest of it.
GoesOn == [clear |-> "role", join |-> "role", default |-> "slugs", link |-> "slugs"]

\* Enrolments that a failure leaves undone.
Forgone(q) ==
  CASE q.pc \in {"members", "backfill"} ->
         {u \in Users : <<u, q.group>> \in member} \X {q.course}
    [] q.pc \in {"role", "slugs", "enroll"} -> {q.user} \X SlugsOf(q.user)
    [] OTHER -> {}

Fails(r) ==
  LET q == request[r] IN
  /\ faults > 0 /\ faults' = faults - 1
  /\ \/ q.pc \in GivesUp /\ End(r)
     \/ q.pc \in DOMAIN GoesOn
        /\ request' = [request EXCEPT ![r].pc = GoesOn[q.pc], ![r].cleared = {}]
  /\ excused' = excused \cup Forgone(q)
  /\ UNCHANGED <<source, member, offered, enrolled, changes>>

-----------------------------------------------------------------------------
(* Requests of one statement                                               *)

CreateGroup(g) ==
  /\ Change
  /\ source[g] = "unmade"
  /\ source' = [source EXCEPT ![g] = "local"]
  /\ UNCHANGED <<member, offered, enrolled, request, faults, excused>>

\* CreateAndJoin, by a manager; the default group has another way in.
CreateAndJoin(u, g) ==
  /\ Change
  /\ source[g] = "unmade"
  /\ source' = [source EXCEPT ![g] = "local"]
  /\ member' = member \cup {<<u, g>>}
  /\ UNCHANGED <<offered, enrolled, request, faults, excused>>

\* The courses the group already has are not the new member's before he signs
\* in again.
AddMember(u, g) ==
  /\ Change
  /\ Exists(g)
  /\ member' = member \cup {<<u, g>>}
  /\ excused' = excused \cup ({u} \X {c \in Courses : <<g, c>> \in offered})
  /\ UNCHANGED <<source, offered, enrolled, request, faults>>

RemoveMember(u, g) ==
  /\ Change
  /\ <<u, g>> \in member
  /\ member' = member \ {<<u, g>>}
  /\ UNCHANGED <<source, offered, enrolled, request, faults, excused>>

UnenrollGroup(g, c) ==
  /\ Change
  /\ <<g, c>> \in offered
  /\ offered' = offered \ {<<g, c>>}
  /\ UNCHANGED <<source, member, enrolled, request, faults, excused>>

\* By the learner, an admin or a manager, or on a first visit; with a learning
\* path, in all of its courses.
Enroll(u, cs) ==
  /\ Change
  /\ enrolled' = enrolled \cup ({u} \X cs)
  /\ UNCHANGED <<source, member, offered, request, faults, excused>>

Unenroll(u, c) ==
  /\ Change
  /\ <<u, c>> \in enrolled
  /\ enrolled' = enrolled \ {<<u, c>>}
  /\ excused' = excused \cup {<<u, c>>}
  /\ UNCHANGED <<source, member, offered, request, faults>>

Step(r) ==
  \/ Record(r) \/ ListMembers(r) \/ Backfill(r)
  \/ Clear(r) \/ Join(r) \/ SetRole(r) \/ MakeDefault(r) \/ LinkDefault(r)
  \/ ListSlugs(r) \/ EnrollInAll(r)
  \/ LookForMembers(r) \/ LookForOwner(r) \/ Delete(r)
  \/ Fails(r)

Next ==
  \/ \E r \in Requests :
       \/ Step(r)
       \/ \E g \in Groups, c \in Courses : EnrollGroup(r, g, c)
       \/ \E u \in Users : SignIn(r, u)
       \/ \E u \in Users, names \in SUBSET Groups : ProviderSignIn(r, u, names)
       \/ \E g \in Groups : DeleteGroup(r, g)
       \/ \E u \in Users, g \in Groups : ManagerDeleteGroup(r, u, g)
  \/ \E g \in Groups : CreateGroup(g)
  \/ \E u \in Users, g \in Groups : CreateAndJoin(u, g) \/ AddMember(u, g) \/ RemoveMember(u, g)
  \/ \E g \in Groups, c \in Courses : UnenrollGroup(g, c)
  \/ \E u \in Users, cs \in SUBSET Courses : Enroll(u, cs)
  \/ \E u \in Users, c \in Courses : Unenroll(u, c)

Spec == Init /\ [][Next]_vars

-----------------------------------------------------------------------------
(* Safety                                                                  *)

\* A request under way that is still going to enrol the user: the group's, if
\* it will list him or has, or a sign-in of his.
Coming(u, g, c) ==
  \E r \in Requests :
    LET q == request[r] IN
      \/ q.pc = "members" /\ q.group = g /\ q.course = c
      \/ q.pc = "backfill" /\ q.group = g /\ q.course = c /\ u \in q.people
      \/ q.pc \in {"role", "default", "link", "slugs"} /\ q.user = u
      \/ q.pc = "enroll" /\ q.user = u /\ c \in q.slugs

\* "every current and future member of the group is enrolled in the course":
\* whatever sign-ins, group enrolments and edits overlap, a member of a group
\* with a course has that course, or a request under way will enrol him,
\* unless an admin made him a member after the group had the course, somebody
\* unenrolled him or a statement failed, and he has not signed in since.
NobodyMissed ==
  \A u \in Users, g \in Groups, c \in Courses :
    <<u, g>> \in member /\ <<g, c>> \in offered =>
      <<u, c>> \in enrolled \cup excused \/ Coming(u, g, c)

\* "manually managed local group memberships are preserved across logins": a
\* sign-in takes its user out of the provider's groups only, at the moment it
\* commits and not only at the moment it looked, and takes out nobody else.
LocalKept ==
  [][\A r \in Requests : request[r].pc = "join" /\ request'[r].pc # "join" =>
       member \ member' \subseteq {request[r].user} \X ProviderGroups]_vars
=============================================================================
