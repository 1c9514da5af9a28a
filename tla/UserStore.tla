------------------------------ MODULE UserStore ------------------------------
(***************************************************************************)
(* The UserRepository interface as its in-memory implementation gives it:  *)
(* a list of rows under one mutex, which the tests of every handler run    *)
(* against.  Nothing here is unique but the id, and nothing overlaps.      *)
(* Accounts, which works on the SQL tables, is checked against it.         *)
(***************************************************************************)
EXTENDS Naturals

CONSTANTS
  Ids, Emails, Names, Subjects, Passwords, Providers,
  AdminName, AdminEmail,    \* those of the default admin
  None                      \* no value; "nil" in the code

VARIABLE users              \* the rows, by id

Roles == {"student", "manager", "admin"}

\* What no row has, and what a deleted one leaves: its id is never used again.
Absent == [name |-> None, email |-> None, password |-> None, role |-> None,
           active |-> FALSE, provider |-> None, subject |-> None]

Gone == [Absent EXCEPT !.provider = "gone"]

\* A display name that is taken gets a random suffix: the id stands for it.
Account == [name : Names \cup Ids, email : Emails, password : Passwords \cup {None},
            role : Roles, active : BOOLEAN, provider : Providers \cup {"local"},
            subject : Subjects \cup {None}]

Local(name, email, password, role) ==
  [name |-> name, email |-> email, password |-> password, role |-> role,
   active |-> TRUE, provider |-> "local", subject |-> None]

There == {i \in Ids : users[i] \notin {Absent, Gone}}

ByEmail(email) == {i \in There : users[i].email = email}

Init == users \in [Ids -> Account \cup {Absent}]

Create(i, row) ==
  /\ users[i] = Absent
  /\ users' = [users EXCEPT ![i] = row]

UpdateProfile(i, name) ==
  i \in There /\ users' = [users EXCEPT ![i].name = name]

UpdatePasswordHash(i, password) ==
  i \in There /\ users' = [users EXCEPT ![i].password = password]

LinkProviderIdentity(i, provider, subject) ==
  i \in There /\ users' = [users EXCEPT ![i].provider = provider, ![i].subject = subject]

UpdateSSORole(i, role) ==
  i \in There /\ users' = [users EXCEPT ![i].role = role]

UpdateAdminFields(i, name, active, role) ==
  /\ i \in There
  /\ users' = [users EXCEPT ![i].name = name, ![i].active = active, ![i].role = role]

Delete(i) == i \in There /\ users' = [users EXCEPT ![i] = Gone]

CreateAdminIfAbsent(i, password) ==
  /\ ByEmail(AdminEmail) = {}
  /\ Create(i, Local(AdminName, AdminEmail, password, "admin"))

\* The account of that email, whatever its name.
UpsertAdminPassword(i, password) ==
  \/ i \in ByEmail(AdminEmail) /\ UpdatePasswordHash(i, password)
  \/ ByEmail(AdminEmail) = {} /\ Create(i, Local(AdminName, AdminEmail, password, "admin"))

UpsertMockStudent(i, name, email, password) ==
  \/ i \in ByEmail(email) /\ UpdateProfile(i, name)
  \/ ByEmail(email) = {} /\ Create(i, Local(name, email, password, "student"))

Next ==
  \E i \in Ids :
    \/ users'[i] \in Account /\ Create(i, users'[i])
    \/ \E name \in Names : UpdateProfile(i, name)
    \/ \E password \in Passwords :
         \/ UpdatePasswordHash(i, password)
         \/ CreateAdminIfAbsent(i, password) \/ UpsertAdminPassword(i, password)
         \/ \E name \in Names, email \in Emails : UpsertMockStudent(i, name, email, password)
    \/ \E provider \in Providers, subject \in Subjects :
         LinkProviderIdentity(i, provider, subject)
    \/ \E role \in Roles : UpdateSSORole(i, role)
    \/ \E name \in Names \cup Ids, active \in BOOLEAN, role \in Roles :
         UpdateAdminFields(i, name, active, role)
    \/ Delete(i)

Spec == Init /\ [][Next]_users
=============================================================================
