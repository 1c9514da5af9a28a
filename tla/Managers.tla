------------------------------ MODULE Managers -------------------------------
(***************************************************************************)
(* Managers at work on the groups of Membership.  A manager may change the *)
(* groups he is in, the one everybody is in excepted, and the enrolments   *)
(* of whoever shares one of them with him.  Each of his requests, an       *)
(* errand here, first looks whether that is so, in one statement or two,   *)
(* and then does what an admin's does at once; memberships change between. *)
(*                                                                         *)
(* His deletions are among the requests of Membership, and the rows of     *)
(* learning paths are in Enrolments.                                       *)
(***************************************************************************)
EXTENDS Membership

CONSTANT Errands      \* slots for errands

VARIABLES
  errand,             \* the errand in each slot
  lost                \* history: errands whose manager or user lost a membership meanwhile

managersVars == <<vars, errand, lost>>

NoErrand == [pc |-> "idle", manager |-> None, user |-> None, group |-> None, scope |-> {}]

\* An errand is about a group or about a user.
ErrandType ==
  [pc : {"idle", "owner", "groups", "scope", "act"}, manager : Users \cup {None},
   user : Users \cup {None}, group : Groups \cup {None}, scope : SUBSET Groups]

ManagersTypeOK ==
  /\ TypeOK
  /\ errand \in [Errands -> ErrandType]
  /\ lost \subseteq Errands

ManagersInit ==
  /\ Init
  /\ errand = [e \in Errands |-> NoErrand]
  /\ lost = {}

-----------------------------------------------------------------------------
(* Asking                                                                  *)

Begin(e, q) ==
  /\ Change
  /\ errand[e].pc = "idle"
  /\ errand' = [errand EXCEPT ![e] = q]
  /\ UNCHANGED <<source, member, offered, enrolled, request, faults, excused>>

\* ManagerListGroupMembers, ManagerAddGroupMember, ManagerRemoveGroupMember and
\* ManagerCreateSubgroup: nothing of the request but the group matters before
\* the look is over.
AskAboutGroup(e, m, g) == Begin(e, [NoErrand EXCEPT !.pc = "owner", !.manager = m, !.group = g])

\* ManagerGetUserEnrollments, ManagerEnrollUser, ManagerUnenrollUser, and the
\* same with a path for a course.
AskAboutUser(e, m, u) == Begin(e, [NoErrand EXCEPT !.pc = "groups", !.manager = m, !.user = u])

-----------------------------------------------------------------------------
(* Looking                                                                 *)

Leave(e) == errand' = [errand EXCEPT ![e] = NoErrand]

Proceed(e, pc) == errand' = [errand EXCEPT ![e].pc = pc]

\* Mutant: everybody manages everybody.
ScopeWithDefault(m) == GroupsOf(m)

\* managerScopeIDs, and the groups managerOwnsGroup accepts.
Scope(m) == GroupsOf(m) \ {Default}

CheckOwner(e) ==
  LET q == errand[e] IN
  /\ q.pc = "owner"
  /\ IF q.group \in Scope(q.manager) THEN Proceed(e, "act") ELSE Leave(e)
  /\ UNCHANGED vars

ListScope(e) ==
  LET q == errand[e] IN
  /\ q.pc = "groups"
  /\ errand' = [errand EXCEPT ![e].pc = "scope", ![e].scope = Scope(q.manager)]
  /\ UNCHANGED vars

UserInAnyGroup(u, gs) == \E g \in gs : <<u, g>> \in member

CheckScope(e) ==
  LET q == errand[e] IN
  /\ q.pc = "scope"
  /\ IF UserInAnyGroup(q.user, q.scope) THEN Proceed(e, "act") ELSE Leave(e)
  /\ UNCHANGED vars

-----------------------------------------------------------------------------
(* Doing                                                                   *)

\* Members of a group that is gone, and its subgroups, are refused by the
\* foreign keys; what is not there need not be removed.
ActOnGroup(g) ==
  \/ UNCHANGED vars
  \/ \E u \in Users : AddMember(u, g) \/ RemoveMember(u, g)
  \/ Exists(g) /\ \E h \in Groups : CreateGroup(h)

\* A path's courses are added together; when the path is taken away they stay.
ActOnUser(u) ==
  \/ UNCHANGED vars
  \/ \E cs \in SUBSET Courses : Enroll(u, cs)
  \/ \E c \in Courses : Unenroll(u, c)

Act(e) ==
  LET q == errand[e] IN
  /\ q.pc = "act"
  /\ IF q.group # None THEN ActOnGroup(q.group) ELSE ActOnUser(q.user)
  /\ Leave(e)

\* A failing statement ends the errand.
GiveUp(e) == errand[e].pc # "idle" /\ Leave(e) /\ UNCHANGED vars

Errand(e) ==
  \/ \E m \in Users, g \in Groups : AskAboutGroup(e, m, g)
  \/ \E m \in Users, u \in Users : AskAboutUser(e, m, u)
  \/ CheckOwner(e) \/ ListScope(e) \/ CheckScope(e)
  \/ Act(e)
  \/ GiveUp(e)

Loses(u) == \E g \in Groups : <<u, g>> \in member \ member'

ManagersNext ==
  /\ \/ Next /\ UNCHANGED errand
     \/ \E e \in Errands : Errand(e)
  /\ lost' = {e \in Errands : /\ errand'[e].pc # "idle"
                              /\ \/ e \in lost
                                 \/ Loses(errand[e].manager) \/ Loses(errand[e].user)}

ManagersSpec == ManagersInit /\ [][ManagersNext]_managersVars

-----------------------------------------------------------------------------
(* Safety                                                                  *)

Shared(m, u) == \E g \in Groups \ {Default} : {<<m, g>>, <<u, g>>} \subseteq member

InScope(q) ==
  IF q.group # None THEN q.group # Default /\ <<q.manager, q.group>> \in member
  ELSE Shared(q.manager, q.user)

\* "User not in manager scope", "Group not in manager scope": what a manager
\* sees or changes is in his scope at that very moment, and not only when his
\* request looked, unless he or the user was put out of a group in between.  His
\* scope never includes the group everybody is in (managerOwnsGroup,
\* managerScopeIDs).
ManagersInScope ==
  [][\A e \in Errands :
       errand[e].pc = "act" /\ errand'[e].pc = "idle" => InScope(errand[e]) \/ e \in lost]_managersVars
=============================================================================
