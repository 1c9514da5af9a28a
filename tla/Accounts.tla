------------------------------ MODULE Accounts -------------------------------
(***************************************************************************)
(* Accounts of user-service and the ways into them: registration, password *)
(* and provider sign-ins, profile and password changes, the admin's edits  *)
(* and the seeded admin.  One action per SQL statement; checks made before *)
(* a statement are steps of their own, and anything may come in between.   *)
(*                                                                         *)
(* The constraints of the users table are part of every write.  A token    *)
(* carries its role until it expires, and middleware asks nothing else.    *)
(* The groups a sign-in exchanges are in Membership.                       *)
(***************************************************************************)
EXTENDS Naturals

CONSTANTS
  Ids, Emails, Names, Subjects, Passwords,
  Providers,            \* of "oidc", "ldap" and the OAuth ones
  AdminName, AdminEmail,
  MockStudents,         \* each with a name, an email and a password
  Blank,                \* a name of spaces only
  Weak,                 \* passwords the policy refuses
  Groups,               \* names of provider groups
  Requests, None,
  Nobody,               \* the zero id
  Tables,               \* the accounts there may be at first
  MaxRequests,          \* bound on requests
  MaxEvents             \* bound on edits, seedings and failing statements

ASSUME AccountsAssumption ==
  /\ Ids \cap Names = {} /\ Nobody \notin Ids
  /\ None \notin Ids \cup Names \cup Emails \cup Subjects \cup Passwords \cup {Nobody}
  /\ "local" \notin Providers /\ "gone" \notin Providers /\ None \notin Providers \cup {"gone"}
  /\ MockStudents \subseteq [name : Names, email : Emails, password : Passwords]
  /\ AdminName \in Names /\ AdminEmail \in Emails /\ Blank \in Names
  /\ MaxRequests \in Nat /\ MaxEvents \in Nat

VARIABLES
  users,        \* users, by id
  mapping,      \* group_role_mappings
  settings,     \* the switches of platform_settings
  tokens,       \* tokens issued: whose, for which role, by which way in
  request,      \* the request in each slot
  seen,         \* history: what its account was while a request ran
  asked, events         \* what is left of each

vars == <<users, mapping, settings, tokens, request, seen, asked, events>>

Store == INSTANCE UserStore

Roles   == Store!Roles
Account == Store!Account
Absent  == Store!Absent
Gone    == Store!Gone
There   == Store!There

Holder == Ids \cup {Nobody, None}

Token == [user : Ids \cup {Nobody}, role : Roles \cup {None}, by : Providers \cup {"local"}]

Settings == [register : BOOLEAN, localLogin : BOOLEAN, rename : BOOLEAN,
             admins : SUBSET Groups]

Idle == [pc |-> "idle", who |-> None, role |-> None, base |-> None, by |-> "local",
         email |-> None, name |-> None, subject |-> None, old |-> None,
         password |-> None, groups |-> {}, admins |-> {}]

PC == {"idle", "free", "insert", "verify", "rehash", "checkName", "rename", "identity",
       "refresh", "email", "link", "name", "provision", "readRole", "mapRole",
       "override", "issue"}

Request ==
  [pc : PC, who : Holder, role : Roles \cup {None}, base : Roles \cup {None},
   by : Providers \cup {"local"}, email : Emails \cup {None}, name : Names \cup {None},
   subject : Subjects \cup {None}, old : Passwords \cup {None},
   password : Passwords \cup {None}, groups : SUBSET Groups, admins : SUBSET Groups]

\* The unique indexes: username, email, provider identity.
Clash(i, row) ==
  \E j \in There \ {i} :
    \/ users[j].name = row.name
    \/ users[j].email = row.email
    \/ row.subject # None /\ users[j].provider = row.provider /\ users[j].subject = row.subject

TypeOK ==
  /\ users \in [Ids -> Account \cup {Absent, Gone}]
  /\ \A i \in There : ~Clash(i, users[i])
  /\ mapping \in [Groups -> {"admin", "student", "none"}]
  /\ settings \in Settings
  /\ tokens \subseteq Token
  /\ request \in [Requests -> Request]
  /\ asked \in 0..MaxRequests /\ events \in 0..MaxEvents

Init ==
  /\ users \in Tables
  /\ users \in [Ids -> Account \cup {Absent}]
  /\ \A i \in There : ~Clash(i, users[i])
  /\ mapping = [g \in Groups |-> "none"]
  /\ settings = [register |-> TRUE, localLogin |-> TRUE, rename |-> TRUE, admins |-> {}]
  /\ tokens = {[user |-> i, role |-> users[i].role, by |-> users[i].provider] : i \in There}
  /\ request = [r \in Requests |-> Idle]
  /\ seen = [r \in Requests |-> {}]
  /\ asked = MaxRequests /\ events = MaxEvents

-----------------------------------------------------------------------------
(* Requests                                                                *)

Event == events > 0 /\ events' = events - 1

At(r, pc) == request[r].pc = pc

Goto(r, pc) == request' = [request EXCEPT ![r].pc = pc]

End(r) == request' = [request EXCEPT ![r] = Idle]

Start(r, q) ==
  /\ asked > 0 /\ asked' = asked - 1
  /\ At(r, "idle")
  /\ request' = [request EXCEPT ![r] = q]
  /\ UNCHANGED <<users, mapping, settings, tokens, events>>

Reads == UNCHANGED <<users, mapping, settings, tokens, asked, events>>
Writes == UNCHANGED <<mapping, settings, tokens, asked, events>>

Put(i, row) == users' = [users EXCEPT ![i] = row]

-----------------------------------------------------------------------------
(* What the statements ask of the table                                    *)

ExistsByEmailOrUsername(email, name) ==
  \E i \in There : users[i].email = email \/ users[i].name = name

ExistsUsernameExcluding(name, except) ==
  \E i \in There \ {except} : users[i].name = name

ExistsByUsername(name) == \E i \in There : users[i].name = name

FindByEmailActive(email) == {i \in There : users[i].email = email /\ users[i].active}

FindByEmail(email) == {i \in There : users[i].email = email}

FindByProviderIdentity(by, subject) ==
  {i \in There : users[i].provider = by /\ users[i].subject = subject}

GetPasswordHash(i) == IF i \in There THEN users[i].password ELSE None

-----------------------------------------------------------------------------
(* Registration and password sign-in                                       *)

Strong(password) == password \notin Weak

\* Whitelist and lengths are left out: they look at nothing but the input.
Register(r, email, name, password) ==
  /\ settings.register /\ Strong(password)
  /\ Start(r, [Idle EXCEPT !.pc = "free", !.email = email, !.name = name,
                           !.password = password])

LookForTaken(r) ==
  LET q == request[r] IN
  /\ At(r, "free")
  /\ IF ExistsByEmailOrUsername(q.email, q.name) THEN End(r) ELSE Goto(r, "insert")
  /\ Reads

Insert(r) ==
  LET q   == request[r]
      row == Store!Local(q.name, q.email, q.password, "student")
  IN
  /\ At(r, "insert")
  /\ \E i \in Ids :
       /\ users[i] = Absent
       /\ IF Clash(i, row)
          THEN End(r) /\ UNCHANGED users
          ELSE /\ Put(i, row)
               /\ request' = [request EXCEPT ![r] =
                    [Idle EXCEPT !.pc = "issue", !.who = i, !.role = "student"]]
  /\ Writes

Login(r, email, password) ==
  /\ settings.localLogin
  /\ \E i \in FindByEmailActive(email) :
       /\ GetPasswordHash(i) = password
       /\ Start(r, [Idle EXCEPT !.pc = "issue", !.who = i, !.role = users[i].role])

Issue(r) ==
  LET q == request[r] IN
  /\ At(r, "issue")
  /\ tokens' = tokens \cup {[user |-> q.who, role |-> q.role, by |-> q.by]}
  /\ End(r)
  /\ UNCHANGED <<users, mapping, settings, asked, events>>

-----------------------------------------------------------------------------
(* The holder of a token changes his account                               *)

ChangePassword(r, t, old, password) ==
  /\ Strong(password)
  /\ Start(r, [Idle EXCEPT !.pc = "verify", !.who = t.user, !.old = old,
                           !.password = password])

\* Mutant: an account without a password lets every candidate pass.
VerifyIfAny(r) ==
  LET q == request[r] IN
  /\ At(r, "verify")
  /\ IF q.who \in There /\ users[q.who].password \in {q.old, None}
     THEN Goto(r, "rehash") ELSE End(r)
  /\ Reads

Verify(r) ==
  LET q == request[r] IN
  /\ At(r, "verify")
  /\ IF GetPasswordHash(q.who) = q.old THEN Goto(r, "rehash") ELSE End(r)
  /\ Reads

Rehash(r) ==
  LET q == request[r] IN
  /\ At(r, "rehash")
  /\ IF q.who \in There THEN Put(q.who, [users[q.who] EXCEPT !.password = q.password])
                         ELSE UNCHANGED users
  /\ End(r)
  /\ Writes

\* The checks are made of the trimmed name, and not at all when that is empty;
\* what is stored is not trimmed.
Rename(r, t, name) ==
  /\ settings.rename \/ name = Blank
  /\ Start(r, [Idle EXCEPT !.pc = IF name = Blank THEN "rename" ELSE "checkName",
                           !.who = t.user, !.name = name])

CheckName(r) ==
  LET q == request[r] IN
  /\ At(r, "checkName")
  /\ IF ExistsUsernameExcluding(q.name, q.who) THEN End(r) ELSE Goto(r, "rename")
  /\ Reads

WriteName(r) ==
  LET q == request[r]
      row == [users[q.who] EXCEPT !.name = q.name]
  IN
  /\ At(r, "rename")
  /\ IF q.who \in There /\ ~Clash(q.who, row) THEN Put(q.who, row) ELSE UNCHANGED users
  /\ End(r)
  /\ Writes

-----------------------------------------------------------------------------
(* Provider sign-ins                                                       *)

\* completeSSOLogin is for OIDC and LDAP; other providers keep to the row.
AfterUpsert(by) == IF by \in {"oidc", "ldap"} THEN "readRole" ELSE "issue"

AfterRole(q) == IF q.admins # {} THEN "override" ELSE "issue"

\* Read when the sign-in begins; only OIDC has such a list.
AdminGroups(by) == IF by = "oidc" THEN settings.admins ELSE {}

SignIn(r, by, subject, email, name, groups) ==
  Start(r, [Idle EXCEPT !.pc = "identity", !.by = by, !.subject = subject, !.email = email,
                        !.name = name, !.groups = groups,
                        !.admins = AdminGroups(by)])

Found(r, pc, i) ==
  request' = [request EXCEPT ![r].pc = pc, ![r].who = i, ![r].role = users[i].role]

\* The row as an UPDATE ... RETURNING gives it: none, when it is gone.
Returned(r, row) ==
  LET q == request[r] IN
  request' = [request EXCEPT
    ![r].pc   = AfterUpsert(q.by),
    ![r].who  = IF q.who \in There THEN @ ELSE Nobody,
    ![r].role = row.role]

FindIdentity(r) ==
  LET q == request[r] IN
  /\ At(r, "identity")
  /\ \/ \E i \in FindByProviderIdentity(q.by, q.subject) : Found(r, "refresh", i)
     \/ FindByProviderIdentity(q.by, q.subject) = {} /\ Goto(r, "email")
  /\ Reads

\* Mutant: the provider's email is taken over.
RefreshEmail(r) ==
  LET q   == request[r]
      row == [users[q.who] EXCEPT !.email = q.email]
  IN
  /\ At(r, "refresh")
  /\ IF q.who \in There /\ ~Clash(q.who, row) THEN Put(q.who, row) ELSE UNCHANGED users
  /\ Returned(r, users[q.who])
  /\ Writes

\* Picture and text only.
Refresh(r) ==
  /\ At(r, "refresh")
  /\ Returned(r, users[request[r].who])
  /\ Reads

\* Mutant: the account is linked whatever its way in.
FindAnyEmail(r) ==
  LET q == request[r] IN
  /\ At(r, "email")
  /\ \/ \E i \in FindByEmail(q.email) : Found(r, "link", i)
     \/ FindByEmail(q.email) = {} /\ Goto(r, "name")
  /\ Reads

\* An account with another way in is refused.
FindEmail(r) ==
  LET q == request[r] IN
  /\ At(r, "email")
  /\ \/ \E i \in FindByEmail(q.email) :
          IF users[i].provider = q.by THEN Found(r, "link", i) ELSE End(r)
     \/ FindByEmail(q.email) = {} /\ Goto(r, "name")
  /\ Reads

\* A refused update leaves the sign-in with the row it had found.
Link(r) ==
  LET q   == request[r]
      row == [users[q.who] EXCEPT !.provider = q.by, !.subject = q.subject]
  IN
  /\ At(r, "link")
  /\ IF q.who \in There /\ Clash(q.who, row)
     THEN Goto(r, AfterUpsert(q.by)) /\ UNCHANGED users
     ELSE /\ IF q.who \in There THEN Put(q.who, row) ELSE UNCHANGED users
          /\ Returned(r, row)
  /\ Writes

\* None: the name is to get a suffix.
LookForName(r) ==
  LET q == request[r] IN
  /\ At(r, "name")
  /\ request' = [request EXCEPT ![r].pc = "provision",
       ![r].name = IF ExistsByUsername(q.name) THEN None ELSE @]
  /\ Reads

Provision(r) ==
  LET q == request[r] IN
  /\ At(r, "provision")
  /\ \E i \in Ids :
       LET row == [name |-> IF q.name = None THEN i ELSE q.name, email |-> q.email,
                   password |-> None, role |-> "student", active |-> TRUE,
                   provider |-> q.by, subject |-> q.subject]
       IN  /\ users[i] = Absent
           /\ IF Clash(i, row)
              THEN End(r) /\ UNCHANGED users
              ELSE /\ Put(i, row)
                   /\ request' = [request EXCEPT ![r].pc = AfterUpsert(q.by), ![r].who = i,
                                                 ![r].role = "student"]
  /\ Writes

\* The transaction reads the role and writes what it derives from it; "student"
\* is the role of an account that is not there.
ReadRole(r) ==
  LET q == request[r] IN
  /\ At(r, "readRole")
  /\ request' = [request EXCEPT ![r].pc = "mapRole",
       ![r].base = IF q.who \in There THEN users[q.who].role ELSE "student"]
  /\ Reads

\* 'admin' beats the others, and what is mapped beats what is not admin.
Derived(base, groups) ==
  LET mapped == {mapping[g] : g \in groups} \ {"none"} IN
  IF base = "admin" \/ "admin" \in mapped THEN "admin"
  ELSE IF mapped # {} THEN "student" ELSE base

Mapped(groups) == \E g \in groups : mapping[g] # "none"

\* Without an account the memberships cannot be inserted: the transaction rolls
\* back and the sign-in keeps the role it had found.
MapRole(r) ==
  LET q    == request[r]
      role == Derived(q.base, q.groups)
  IN
  /\ At(r, "mapRole")
  /\ request' = [request EXCEPT ![r].pc = AfterRole(q),
       ![r].role = IF q.who \notin There /\ q.groups # {} THEN @ ELSE role]
  /\ IF q.who \in There /\ Mapped(q.groups)
     THEN Put(q.who, [users[q.who] EXCEPT !.role = role]) ELSE UNCHANGED users
  /\ Writes

OverrideUnstored(r) ==
  LET q    == request[r]
      role == IF q.groups \cap q.admins # {} THEN "admin" ELSE "student"
  IN
  /\ At(r, "override")
  /\ IF q.who \in There
     THEN request' = [request EXCEPT ![r].pc = "issue", ![r].role = role]
     ELSE End(r)
  /\ UNCHANGED users
  /\ Writes

Override(r) ==
  LET q    == request[r]
      role == IF q.groups \cap q.admins # {} THEN "admin" ELSE "student"
  IN
  /\ At(r, "override")
  /\ IF q.who \in There
     THEN /\ Put(q.who, [users[q.who] EXCEPT !.role = role])
          /\ request' = [request EXCEPT ![r].pc = "issue", ![r].role = role]
     ELSE End(r) /\ UNCHANGED users
  /\ Writes

-----------------------------------------------------------------------------
(* Failing statements                                                      *)

GivesUp == {"free", "insert", "verify", "rehash", "rename", "provision", "override"}

\* A look-up that fails found nothing, an update that fails is done without.
GoesOn(q) ==
  CASE q.pc = "identity"  -> "email"
    [] q.pc = "email"     -> "name"
    [] q.pc = "name"      -> "provision"
    [] q.pc = "checkName" -> "rename"
    [] q.pc \in {"refresh", "link"}     -> AfterUpsert(q.by)
    [] q.pc \in {"readRole", "mapRole"} -> AfterRole(q)
    [] OTHER -> q.pc

Fails(r) ==
  LET q == request[r] IN
  /\ Event
  /\ q.pc \notin {"idle", "issue"}
  /\ IF q.pc \in GivesUp THEN End(r) ELSE Goto(r, GoesOn(q))
  /\ UNCHANGED <<users, mapping, settings, tokens, asked>>

-----------------------------------------------------------------------------
(* Requests of one statement: the admin's, and the seeding                 *)

AdminToken == \E t \in tokens : t.role = "admin"

RowEdit == Event /\ UNCHANGED <<mapping, settings, tokens, request, asked>>

UpdateAdminFields(i, name, active, role) ==
  LET row == [users[i] EXCEPT !.name = name, !.active = active, !.role = role] IN
  /\ AdminToken /\ i \in There /\ ~Clash(i, row)
  /\ Put(i, row)
  /\ RowEdit

Delete(i) ==
  /\ AdminToken /\ i \in There
  /\ Put(i, Gone)
  /\ RowEdit

UpsertMapping(g, role) ==
  /\ AdminToken /\ Event
  /\ mapping' = [mapping EXCEPT ![g] = role]
  /\ UNCHANGED <<users, settings, tokens, request, asked>>

\* A save of several keys is that many statements, in any order.
UpdateSettings(key, value) ==
  /\ AdminToken /\ Event
  /\ settings' = [settings EXCEPT ![key] = value]
  /\ UNCHANGED <<users, mapping, tokens, request, asked>>

\* On a conflict nothing is done.
CreateAdminIfAbsent(i, password) ==
  LET row == Store!Local(AdminName, AdminEmail, password, "admin") IN
  /\ users[i] = Absent /\ ~Clash(i, row)
  /\ Put(i, row)
  /\ RowEdit

\* The account of that NAME gets the admin's email and password, if the email
\* is nobody else's; without one an account is made.
UpsertAdminPassword(i, password) ==
  LET new == Store!Local(AdminName, AdminEmail, password, "admin")
      row == IF i \in There THEN [users[i] EXCEPT !.email = AdminEmail, !.password = password]
                            ELSE new
  IN
  /\ users[i] # Gone /\ ~Clash(i, row)
  /\ i \in There => users[i].name = AdminName
  /\ Put(i, row)
  /\ RowEdit

UpsertMockStudent(i, name, email, password) ==
  LET row == IF i \in There THEN [users[i] EXCEPT !.name = name]
                            ELSE Store!Local(name, email, password, "student")
  IN
  /\ users[i] # Gone /\ ~Clash(i, row)
  /\ i \in There => users[i].email = email
  /\ Put(i, row)
  /\ RowEdit

-----------------------------------------------------------------------------

Step(r) ==
  \/ LookForTaken(r) \/ Insert(r) \/ Issue(r)
  \/ Verify(r) \/ Rehash(r) \/ CheckName(r) \/ WriteName(r)
  \/ FindIdentity(r) \/ Refresh(r) \/ FindEmail(r) \/ Link(r) \/ LookForName(r)
  \/ Provision(r) \/ ReadRole(r) \/ MapRole(r) \/ Override(r)
  \/ Fails(r)

Ask(r) ==
  \/ \E email \in Emails, name \in Names \ {Blank}, password \in Passwords :
       Register(r, email, name, password)
  \/ \E email \in Emails, password \in Passwords : Login(r, email, password)
  \/ \E t \in tokens, old, password \in Passwords : ChangePassword(r, t, old, password)
  \/ \E t \in tokens, name \in Names : Rename(r, t, name)
  \/ \E by \in Providers, subject \in Subjects, email \in Emails, name \in Names \ {Blank},
        groups \in SUBSET Groups : SignIn(r, by, subject, email, name, groups)

Admin ==
  \/ \E i \in Ids :
       \/ \E name \in Names : UpdateAdminFields(i, name, users[i].active, users[i].role)
       \/ UpdateAdminFields(i, users[i].name, ~users[i].active, users[i].role)
       \/ \E role \in Roles : UpdateAdminFields(i, users[i].name, users[i].active, role)
       \/ Delete(i)
  \/ \E g \in Groups, role \in {"admin", "student", "none"} : UpsertMapping(g, role)
  \/ \E key \in {"register", "localLogin", "rename"} : UpdateSettings(key, ~settings[key])
  \/ \E names \in SUBSET Groups : UpdateSettings("admins", names)

Seed ==
  \E i \in Ids, password \in Passwords :
    \/ CreateAdminIfAbsent(i, password)
    \/ UpsertAdminPassword(i, password)
    \/ \E m \in MockStudents : UpsertMockStudent(i, m.name, m.email, m.password)

\* What the request's account was since the request has known it.
Track ==
  seen' = [r \in Requests |->
    IF request'[r].who \notin Ids THEN {}
    ELSE (IF request[r].who = request'[r].who THEN seen[r] ELSE {})
           \cup {[role |-> users'[request'[r].who].role,
                  password |-> users'[request'[r].who].password]}]

Next == ((\E r \in Requests : Step(r) \/ Ask(r)) \/ Admin \/ Seed) /\ Track

Spec == Init /\ [][Next]_vars
-----------------------------------------------------------------------------
(* Properties                                                              *)

\* The role in a token was the account's at some moment of the sign-in that
\* issues it, whatever admins, mappings and other sign-ins changed meanwhile
\* and whichever statements failed, unless the account is gone (Login,
\* completeSSOLogin: role, user.Role and the stored role).
RoleHeld ==
  \A r \in Requests :
    LET q == request[r] IN
      q.pc = "issue" /\ q.who \in There => \E s \in seen[r] : s.role = q.role

\* "Never silently take over a local account": an account keeps the way in it
\* was made with, and a provider lets people only into accounts of its own
\* (upsertSSOUserByEmail, LinkProviderIdentity).
NoTakeover ==
  [][/\ \A i \in There : users'[i] # Gone => users'[i].provider = users[i].provider
     /\ \A t \in tokens' \ tokens :
          t.user \in There /\ t.by # "local" => users[t.user].provider = t.by]_vars

\* A password changes for somebody who gave one the account had since his
\* request began, or for the operator who seeds the account named "admin"
\* (verifyCurrentPassword, applyNewPassword, UpsertAdminPassword).
Proven(i) ==
  \E r \in Requests : /\ At(r, "rehash") /\ request[r].who = i
                       /\ \E s \in seen[r] : s.password = request[r].old

PasswordProven ==
  [][\A i \in There :
       users'[i] # Gone /\ users'[i].password # users[i].password =>
         Proven(i) \/ users[i].name = AdminName]_vars

\* The SQL table changes as the in-memory repository of the tests does, with
\* one exception: the seeding finds the admin by his name, the other by his
\* email (UpsertAdminPassword).
SeedsByName ==
  \E i \in There :
    /\ users[i].name = AdminName /\ users[i].email # AdminEmail
    /\ \E password \in Passwords :
         users' = [users EXCEPT ![i].email = AdminEmail, ![i].password = password]

Implements == Store!Init /\ [][Store!Next \/ SeedsByName]_users
=============================================================================
