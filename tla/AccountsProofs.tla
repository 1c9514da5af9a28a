---------------------------- MODULE AccountsProofs -----------------------------
(***************************************************************************)
(* Proofs about Accounts, for any number of accounts, requests, providers  *)
(* and events: types, and the uniqueness of names, emails and identities;  *)
(* who gets into which account, with which role and which password; and    *)
(* that the table implements UserStore.                                    *)
(***************************************************************************)
EXTENDS Accounts, TLAPS

\* Where a sign-in knows its account.
Knows == {"refresh", "link", "readRole", "mapRole", "override", "issue"}

\* What a request carries, by how far it is.
Shaped(r) ==
  LET q == request[r] IN
  /\ q.who \in Ids => users[q.who] # Absent
  /\ q.pc \in {"free", "insert"} =>
       q.email \in Emails /\ q.name \in Names /\ q.password \in Passwords
  /\ q.pc \in {"verify", "rehash"} => q.old \in Passwords /\ q.password \in Passwords
  /\ q.pc \in {"checkName", "rename"} => q.name \in Names
  /\ q.pc \in {"identity", "email", "name", "provision"} => q.who = None
  /\ q.pc \in {"identity", "email", "name"} => q.name \in Names
  /\ q.pc \in {"identity", "email", "name", "provision", "refresh", "link"} =>
       q.by \in Providers /\ q.subject \in Subjects /\ q.email \in Emails
  /\ q.pc \in {"refresh", "link"} => q.who \in Ids
  /\ q.pc = "mapRole" => q.base \in Roles
  /\ q.pc = "issue" => q.who \in Ids \cup {Nobody}
  /\ q.pc \in Knows \cup {"verify", "rehash", "checkName", "rename"} => q.who \in Ids \cup {Nobody}

\* An account is only known to a sign-in by the way in it was made with.
OwnWay(r) ==
  LET q == request[r] IN
    q.pc \in Knows /\ q.who \in There /\ q.by # "local" => users[q.who].provider = q.by

\* What a request has read of its account is in the account's history.
Witnessed(r) ==
  LET q == request[r] IN
  /\ q.pc \in Knows /\ q.who \in There => \E s \in seen[r] : s.role = q.role
  /\ q.pc = "mapRole" /\ q.who \in There => \E s \in seen[r] : s.role = q.base
  /\ q.pc = "rehash" /\ q.who \in There => \E s \in seen[r] : s.password = q.old

RequestInv(r) == Shaped(r) /\ OwnWay(r) /\ Witnessed(r)

TokensKnown == \A t \in tokens : t.user \in Ids => users[t.user] # Absent

Inv == TypeOK /\ TokensKnown /\ \A r \in Requests : RequestInv(r)

\* Who may change a password.
MayRehash(i) == Proven(i) \/ users[i].name = AdminName

\* What may become of a row, as far as other requests care.
Moves(i) ==
  \/ users'[i] = users[i]
  \/ users[i] = Absent /\ users'[i] \in Account
  \/ users[i] \in Account /\ users'[i] = Gone
  \/ /\ users[i] \in Account /\ users'[i] \in Account /\ users'[i].provider = users[i].provider
     /\ users'[i].password = users[i].password \/ MayRehash(i)

\* What a step may do to a row: fill a free one, change it so that it clashes with
\* nobody's or is as before in all that is unique, or delete it.
RowWritten(i, row) ==
  /\ Put(i, row)
  /\ \/ /\ row \in Account /\ ~Clash(i, row)
        /\ \/ users[i] = Absent
           \/ /\ users[i] \in Account /\ row.provider = users[i].provider
              /\ row.password = users[i].password \/ MayRehash(i)
     \/ /\ row \in Account /\ users[i] \in Account
        /\ row.name = users[i].name /\ row.email = users[i].email
        /\ row.provider = users[i].provider /\ row.subject = users[i].subject
        /\ row.password = users[i].password \/ MayRehash(i)
     \/ users[i] \in Account /\ row = Gone

\* A step leaves the table alone, or does to one row what UserStore may do.
Effect ==
  \/ UNCHANGED users
  \/ /\ \E i \in Ids : \E row \in Account \cup {Gone} : RowWritten(i, row)
     /\ Store!Next \/ SeedsByName

LEMMA Rows == Absent \notin Account /\ Gone \notin Account /\ Absent # Gone
BY AccountsAssumption
DEF Absent, Gone, Account, Store!Absent, Store!Gone, Store!Account

LEMMA ThereRows ==
  ASSUME users \in [Ids -> Account \cup {Absent, Gone}], NEW i
  PROVE  i \in There <=> i \in Ids /\ users[i] \in Account
BY Rows DEF There, Store!There, Absent, Gone

LEMMA ThereRowsNext ==
  ASSUME users' \in [Ids -> Account \cup {Absent, Gone}], NEW i
  PROVE  i \in There' <=> i \in Ids /\ users'[i] \in Account
BY Rows DEF There, Store!There, Absent, Gone

Unique == \A i \in There : ~Clash(i, users[i])

\* Whatever a step does to the rows, they keep their types and stay unique.
LEMMA EffectOnRows ==
  ASSUME TypeOK, Effect
  PROVE  /\ users' \in [Ids -> Account \cup {Absent, Gone}]
         /\ Unique'
         /\ \A i \in Ids : Moves(i)
<1>1. CASE UNCHANGED users
  BY <1>1 DEF TypeOK, Unique, Clash, There, Store!There, Moves
<1>2. ASSUME NEW i \in Ids, NEW row \in Account \cup {Gone}, RowWritten(i, row)
      PROVE  /\ users' \in [Ids -> Account \cup {Absent, Gone}]
             /\ Unique'
             /\ \A j \in Ids : Moves(j)
  <2>1. /\ users \in [Ids -> Account \cup {Absent, Gone}]
        /\ users' = [users EXCEPT ![i] = row]
    BY <1>2 DEF TypeOK, RowWritten, Put
  <2>2. users' \in [Ids -> Account \cup {Absent, Gone}]
    BY <2>1
  <2>3. \A j \in Ids : Moves(j)
    BY <1>2, <2>1, Rows DEF Moves, RowWritten
  <2>4. \A j : j \in There <=> j \in Ids /\ users[j] \in Account
    BY <2>1, ThereRows
  <2>5. \A j : j \in There' <=> j \in Ids /\ users'[j] \in Account
    BY <2>2, ThereRowsNext
  <2>6. \A j \in There : ~Clash(j, users[j])
    BY DEF TypeOK
  <2>7. Unique'
    <3>1. SUFFICES ASSUME NEW a \in There', NEW b \in There' \ {a}
                   PROVE  /\ users'[b].name # users'[a].name
                          /\ users'[b].email # users'[a].email
                          /\ ~(/\ users'[a].subject # None /\ users'[b].provider = users'[a].provider
                               /\ users'[b].subject = users'[a].subject)
      BY DEF Unique, Clash
    <3>2. a \in Ids /\ b \in Ids /\ a # b /\ users'[a] \in Account /\ users'[b] \in Account
      BY <3>1, <2>5
    <3>3. CASE a # i /\ b # i
      <4>1. users'[a] = users[a] /\ users'[b] = users[b] /\ a \in There /\ b \in There
        BY <3>2, <3>3, <2>1, <2>4
      <4>2. QED
        BY <4>1, <2>6, <3>2 DEF Clash
    <3>4. CASE a = i \/ b = i
      <4>1. PICK c \in Ids : c # i /\ {a, b} = {i, c} /\ users'[c] = users[c] /\ c \in There
        BY <3>2, <3>4, <2>1, <2>4
      <4>2. users'[i] = row /\ row \in Account
        BY <3>2, <3>4, <2>1, Rows
      <4>3. CASE ~Clash(i, row)
        BY <4>1, <4>2, <4>3, <3>2 DEF Clash
      <4>4. CASE /\ users[i] \in Account
                 /\ row.name = users[i].name /\ row.email = users[i].email
                 /\ row.provider = users[i].provider /\ row.subject = users[i].subject
        <5>1. i \in There
          BY <4>4, <2>4
        <5>2. ~Clash(i, users[i])
          BY <5>1, <2>6
        <5>3. QED
          BY <4>1, <4>2, <4>4, <5>2, <3>2 DEF Clash
      <4>5. QED
        BY <1>2, <4>2, <4>3, <4>4, Rows DEF RowWritten
    <3>5. QED
      BY <3>3, <3>4
  <2>8. QED
    BY <2>2, <2>3, <2>7
<1>3. QED
  BY <1>1, <1>2 DEF Effect

\* The history holds what the account is, and forgets nothing of it.
LEMMA SeenGrows ==
  ASSUME Track, NEW r \in Requests, request'[r].who \in Ids
  PROVE  /\ \E s \in seen'[r] : /\ s.role = users'[request'[r].who].role
                                /\ s.password = users'[request'[r].who].password
         /\ request[r].who = request'[r].who => \A s \in seen[r] : s \in seen'[r]
<1>1. seen'[r] = (IF request[r].who = request'[r].who THEN seen[r] ELSE {})
                   \cup {[role |-> users'[request'[r].who].role,
                          password |-> users'[request'[r].who].password]}
  BY DEF Track
<1>2. DEFINE now == [role |-> users'[request'[r].who].role,
                     password |-> users'[request'[r].who].password]
<1>3. /\ now \in seen'[r] /\ now.role = users'[request'[r].who].role
      /\ now.password = users'[request'[r].who].password
  BY <1>1
<1>4. QED
  BY <1>1, <1>3

\* What a request knows of its account outlasts what the others do to it.
LEMMA SameAccount ==
  ASSUME Inv, Track, Effect, NEW r \in Requests, request'[r].who = request[r].who,
         request[r].who \in Ids
  PROVE  LET i == request[r].who IN
         /\ users'[i] # Absent
         /\ i \in There' => i \in There /\ users'[i].provider = users[i].provider
         /\ \A s \in seen[r] : s \in seen'[r]
<1> DEFINE i == request[r].who
<1>1. /\ users[i] # Absent /\ Moves(i)
      /\ users \in [Ids -> Account \cup {Absent, Gone}]
      /\ users' \in [Ids -> Account \cup {Absent, Gone}]
  BY EffectOnRows DEF Inv, TypeOK, RequestInv, Shaped
<1>2. users'[i] # Absent
  BY <1>1, Rows DEF Moves
<1>3. i \in There' => i \in There /\ users'[i].provider = users[i].provider
  BY <1>1, Rows, ThereRows, ThereRowsNext DEF Moves
<1>4. QED
  BY <1>2, <1>3, SeenGrows

\* A request that does nothing is not disturbed by the others.
LEMMA Undisturbed ==
  ASSUME Inv, Track, Effect, NEW r \in Requests, request'[r] = request[r]
  PROVE  RequestInv(r)'
<1> DEFINE q == request[r]
<1>1. RequestInv(r) /\ users' \in [Ids -> Account \cup {Absent, Gone}]
  BY EffectOnRows DEF Inv
<1>2. q.who \in There' => q.who \in Ids
  BY <1>1, ThereRowsNext
<1>3. q.who \in Ids => /\ users'[q.who] # Absent
                       /\ q.who \in There' => /\ q.who \in There
                                              /\ users'[q.who].provider = users[q.who].provider
                       /\ \A s \in seen[r] : s \in seen'[r]
  BY SameAccount
<1>4. Shaped(r)'
  BY <1>1, <1>3 DEF RequestInv, Shaped, Roles, Store!Roles
<1>5. OwnWay(r)'
  BY <1>1, <1>2, <1>3 DEF RequestInv, OwnWay
<1>6. Witnessed(r)'
  BY <1>1, <1>2, <1>3 DEF RequestInv, Witnessed
<1>7. QED
  BY <1>4, <1>5, <1>6 DEF RequestInv

LEMMA IdleInv ==
  ASSUME NEW r \in Requests, request'[r] = Idle
  PROVE  RequestInv(r)'
BY AccountsAssumption DEF RequestInv, Shaped, OwnWay, Witnessed, Idle, Knows

LEMMA IdleType == Idle \in Request
BY DEF Idle, Request, PC, Holder

\* What is to be shown of a step of one request.
Good(r) ==
  /\ Effect
  /\ request' \in [Requests -> Request]
  /\ \A p \in Requests \ {r} : request'[p] = request[p]
  /\ RequestInv(r)'

\* A request that ends leaves only what it has written.
LEMMA EndIsGood ==
  ASSUME Inv, NEW r \in Requests, Effect, End(r)
  PROVE  Good(r)
<1>1. request \in [Requests -> Request]
  BY DEF Inv, TypeOK
<1>2. request'[r] = Idle /\ request' \in [Requests -> Request]
  BY <1>1, IdleType DEF End
<1>3. QED
  BY <1>1, <1>2, IdleInv DEF End, Good

\* A request that goes on with the account it has.
LEMMA GotoIsGood ==
  ASSUME Inv, Track, NEW r \in Requests, Effect, NEW pc \in PC, Goto(r, pc),
         LET q == request[r] IN
         /\ pc \in {"free", "insert"} => q.pc \in {"free", "insert"}
         /\ pc = "rehash" => q.pc = "verify" /\ UNCHANGED users /\ (q.who \in There => users[q.who].password = q.old)
         /\ pc = "rename" => q.pc \in {"checkName", "rename"}
         /\ pc \in {"email", "name", "provision"} =>
              q.pc \in {"identity", "email", "name", "provision"} /\ (pc # "provision" => q.pc # "provision")
         /\ pc \in {"readRole", "override", "issue"} => q.pc \in Knows
         /\ pc \notin {"idle", "verify", "checkName", "identity", "refresh", "link", "mapRole"}
  PROVE  Good(r)
<1> DEFINE q == request[r]
<1>1. request \in [Requests -> Request] /\ RequestInv(r)
      /\ users' \in [Ids -> Account \cup {Absent, Gone}]
      /\ users \in [Ids -> Account \cup {Absent, Gone}]
  BY EffectOnRows DEF Inv, TypeOK
<1>2. request' = [request EXCEPT ![r].pc = pc]
  BY DEF Goto
<1>3. request'[r] = [q EXCEPT !.pc = pc] /\ request' \in [Requests -> Request]
  BY <1>1, <1>2 DEF Request
<1>4. q.who \in There' => q.who \in Ids
  BY <1>1, ThereRowsNext
<1>5. q \in Request /\ request'[r].who = q.who
  BY <1>1, <1>3 DEF Request
<1>6. q.who \in Ids => /\ users'[q.who] # Absent
                       /\ q.who \in There' => /\ q.who \in There
                                              /\ users'[q.who].provider = users[q.who].provider
                       /\ \A s \in seen[r] : s \in seen'[r]
  BY <1>5, SameAccount
<1>7. Shaped(r)'
  BY <1>1, <1>3, <1>5, <1>6 DEF RequestInv, Shaped, Request, PC, Knows
<1>8. OwnWay(r)'
  BY <1>1, <1>3, <1>4, <1>5, <1>6 DEF RequestInv, OwnWay, Request, PC, Knows
<1>9. Witnessed(r)'
  <2>1. pc # "rehash" => Witnessed(r)'
    BY <1>1, <1>3, <1>4, <1>5, <1>6 DEF RequestInv, Witnessed, Request, PC, Knows
  <2>2. ASSUME pc = "rehash" PROVE Witnessed(r)'
    <3>1. q.who \in There' => \E s \in seen'[r] : s.password = q.old
      BY <2>2, <1>4, <1>5, <1>6, SeenGrows
    <3>2. QED
      BY <2>2, <3>1, <1>3, <1>5 DEF Witnessed, Knows
  <2>3. QED
    BY <2>1, <2>2
<1>10. QED
  BY <1>1, <1>2, <1>3, <1>7, <1>8, <1>9 DEF Good, RequestInv

LEMMA StepFacts ==
  ASSUME Inv, NEW r \in Requests
  PROVE  /\ request \in [Requests -> Request] /\ request[r] \in Request
         /\ RequestInv(r)
         /\ users \in [Ids -> Account \cup {Absent, Gone}]
         /\ \A i : i \in There <=> i \in Ids /\ users[i] \in Account
<1>1. request \in [Requests -> Request] /\ users \in [Ids -> Account \cup {Absent, Gone}]
  BY DEF Inv, TypeOK
<1>2. QED
  BY <1>1, ThereRows DEF Inv

-----------------------------------------------------------------------------
(* Registration and password sign-in                                       *)

LEMMA RegisterStep ==
  ASSUME Inv, Track, NEW r \in Requests, NEW email \in Emails, NEW name \in Names,
         NEW password \in Passwords, Register(r, email, name, password)
  PROVE  Good(r)
<1> DEFINE new == [Idle EXCEPT !.pc = "free", !.email = email, !.name = name,
                               !.password = password]
<1>1. request' = [request EXCEPT ![r] = new] /\ UNCHANGED users
  BY DEF Register, Start
<1>2. new \in Request
  BY IdleType DEF Request, PC
<1>3. request' \in [Requests -> Request] /\ request'[r] = new
  BY <1>1, <1>2, StepFacts
<1>4. RequestInv(r)'
  BY <1>3, AccountsAssumption DEF RequestInv, Shaped, OwnWay, Witnessed, Idle, Knows
<1>5. QED
  BY <1>1, <1>3, <1>4 DEF Good, Effect

LEMMA LookForTakenStep ==
  ASSUME Inv, Track, NEW r \in Requests, LookForTaken(r)
  PROVE  Good(r)
<1>1. Effect /\ request[r].pc = "free"
  BY DEF LookForTaken, Reads, Effect, At
<1>2. End(r) \/ Goto(r, "insert")
  BY DEF LookForTaken
<1>3. QED
  BY <1>1, <1>2, EndIsGood, GotoIsGood DEF PC

LEMMA NewRowEffect ==
  ASSUME Inv, NEW i \in Ids, NEW row \in Account, users[i] = Absent, ~Clash(i, row), Put(i, row)
  PROVE  Effect
<1>1. users'[i] \in Account /\ Store!Create(i, users'[i])
  BY DEF Put, Inv, TypeOK, Store!Create, Absent
<1>2. Store!Next
  BY <1>1 DEF Store!Next, Account
<1>3. QED
  BY <1>2 DEF Effect, RowWritten

LEMMA LocalRow ==
  ASSUME NEW name \in Names, NEW email \in Emails, NEW password \in Passwords,
         NEW role \in Roles
  PROVE  /\ Store!Local(name, email, password, role) \in Account
         /\ Store!Local(name, email, password, role).role = role
         /\ Store!Local(name, email, password, role).provider = "local"
         /\ Store!Local(name, email, password, role).name = name
         /\ Store!Local(name, email, password, role).email = email
BY DEF Store!Local, Account, Store!Account, Roles

LEMMA InsertStep ==
  ASSUME Inv, Track, NEW r \in Requests, Insert(r)
  PROVE  Good(r)
<1> DEFINE q == request[r]
           row == Store!Local(q.name, q.email, q.password, "student")
<1>1. /\ RequestInv(r) /\ q.pc = "insert" /\ request \in [Requests -> Request]
      /\ users \in [Ids -> Account \cup {Absent, Gone}]
  BY StepFacts DEF Insert, At
<1>2. row \in Account /\ row.role = "student"
  BY <1>1, LocalRow DEF RequestInv, Shaped, Roles, Store!Roles
<1>3. PICK i \in Ids : /\ users[i] = Absent
                       /\ \/ End(r) /\ UNCHANGED users
                          \/ /\ ~Clash(i, row) /\ Put(i, row)
                             /\ request' = [request EXCEPT ![r] =
                                  [Idle EXCEPT !.pc = "issue", !.who = i, !.role = "student"]]
  BY DEF Insert
<1>4. CASE End(r) /\ UNCHANGED users
  BY <1>4, EndIsGood DEF Effect
<1>5. CASE /\ ~Clash(i, row) /\ Put(i, row)
           /\ request' = [request EXCEPT ![r] =
                [Idle EXCEPT !.pc = "issue", !.who = i, !.role = "student"]]
  <2> DEFINE new == [Idle EXCEPT !.pc = "issue", !.who = i, !.role = "student"]
  <2>1. Effect
    BY <1>2, <1>3, <1>5, NewRowEffect
  <2>2. new \in Request
    BY IdleType DEF Request, PC, Holder, Roles, Store!Roles
  <2>3. request' \in [Requests -> Request] /\ request'[r] = new
    BY <1>1, <1>5, <2>2
  <2>4. users'[i] = row
    BY <1>1, <1>5 DEF Put
  <2>5. \E s \in seen'[r] : s.role = "student"
    <3>1. request'[r].who = i
      BY <2>3 DEF Idle
    <3>2. QED
      BY <3>1, <2>4, <1>2, SeenGrows
  <2>6. RequestInv(r)'
    BY <2>3, <2>4, <2>5, <1>2, Rows DEF RequestInv, Shaped, OwnWay, Witnessed, Idle, Knows
  <2>7. QED
    BY <1>5, <2>1, <2>3, <2>6 DEF Good
<1>6. QED
  BY <1>3, <1>4, <1>5

LEMMA LoginStep ==
  ASSUME Inv, Track, NEW r \in Requests, NEW email \in Emails, NEW password \in Passwords,
         Login(r, email, password)
  PROVE  Good(r)
<1>1. PICK i \in There :
        request' = [request EXCEPT ![r] =
          [Idle EXCEPT !.pc = "issue", !.who = i, !.role = users[i].role]]
  BY DEF Login, Start, FindByEmailActive
<1> DEFINE new == [Idle EXCEPT !.pc = "issue", !.who = i, !.role = users[i].role]
<1>2. i \in Ids /\ users[i] \in Account /\ users[i].role \in Roles
  BY StepFacts DEF Account, Store!Account, Roles
<1>3. new \in Request
  BY <1>2, IdleType DEF Request, PC, Holder
<1>4. request' \in [Requests -> Request] /\ request'[r] = new /\ UNCHANGED users
  BY <1>1, <1>3, StepFacts DEF Login, Start
<1>5. \E s \in seen'[r] : s.role = users[i].role
  <2>1. request'[r].who = i
    BY <1>4 DEF Idle
  <2>2. QED
    BY <2>1, <1>2, <1>4, SeenGrows
<1>6. RequestInv(r)'
  BY <1>2, <1>4, <1>5, Rows DEF RequestInv, Shaped, OwnWay, Witnessed, Idle, Knows
<1>7. QED
  BY <1>1, <1>4, <1>6 DEF Good, Effect

LEMMA IssueStep ==
  ASSUME Inv, Track, NEW r \in Requests, Issue(r)
  PROVE  Good(r) /\ tokens' \subseteq Token /\ TokensKnown'
<1>1. End(r) /\ UNCHANGED users /\ Effect
  BY DEF Issue, Effect
<1>2. LET q == request[r]
          t == [user |-> q.who, role |-> q.role, by |-> q.by]
      IN  tokens' = tokens \cup {t} /\ t \in Token /\ (t.user \in Ids => users[t.user] # Absent)
  BY StepFacts DEF Issue, Request, Token, RequestInv, Shaped, At
<1>3. tokens' \subseteq Token /\ TokensKnown'
  BY <1>1, <1>2 DEF Inv, TypeOK, TokensKnown
<1>4. QED
  BY <1>1, <1>3, EndIsGood

-----------------------------------------------------------------------------
(* The holder of a token changes his account                               *)

LEMMA TokenHolder ==
  ASSUME Inv, NEW t \in tokens
  PROVE  t.user \in Ids \cup {Nobody} /\ (t.user \in Ids => users[t.user] # Absent)
BY DEF Inv, TypeOK, TokensKnown, Token

LEMMA ChangePasswordStep ==
  ASSUME Inv, Track, NEW r \in Requests, NEW t \in tokens, NEW old \in Passwords,
         NEW password \in Passwords, ChangePassword(r, t, old, password)
  PROVE  Good(r)
<1> DEFINE new == [Idle EXCEPT !.pc = "verify", !.who = t.user, !.old = old,
                               !.password = password]
<1>1. request' = [request EXCEPT ![r] = new] /\ UNCHANGED users
  BY DEF ChangePassword, Start
<1>2. new \in Request
  BY IdleType, TokenHolder DEF Request, PC, Holder
<1>3. request' \in [Requests -> Request] /\ request'[r] = new
  BY <1>1, <1>2, StepFacts
<1>4. RequestInv(r)'
  BY <1>1, <1>3, TokenHolder DEF RequestInv, Shaped, OwnWay, Witnessed, Idle, Knows
<1>5. QED
  BY <1>1, <1>3, <1>4 DEF Good, Effect

LEMMA RenameStep ==
  ASSUME Inv, Track, NEW r \in Requests, NEW t \in tokens, NEW name \in Names, Rename(r, t, name)
  PROVE  Good(r)
<1>1. PICK pc \in {"rename", "checkName"} :
        /\ request' = [request EXCEPT ![r] = [Idle EXCEPT !.pc = pc, !.who = t.user, !.name = name]]
        /\ UNCHANGED users
  BY DEF Rename, Start
<1> DEFINE new == [Idle EXCEPT !.pc = pc, !.who = t.user, !.name = name]
<1>2. new \in Request
  BY IdleType, TokenHolder DEF Request, PC, Holder
<1>3. request' \in [Requests -> Request] /\ request'[r] = new
  BY <1>1, <1>2, StepFacts
<1>4. RequestInv(r)'
  BY <1>1, <1>3, TokenHolder DEF RequestInv, Shaped, OwnWay, Witnessed, Idle, Knows
<1>5. QED
  BY <1>1, <1>3, <1>4 DEF Good, Effect

LEMMA VerifyStep ==
  ASSUME Inv, Track, NEW r \in Requests, Verify(r)
  PROVE  Good(r)
<1>1. Effect /\ UNCHANGED users /\ request[r].pc = "verify"
  BY DEF Verify, Reads, Effect, At
<1>2. CASE End(r)
  BY <1>1, <1>2, EndIsGood
<1>3. CASE Goto(r, "rehash") /\ GetPasswordHash(request[r].who) = request[r].old
  BY <1>1, <1>3, GotoIsGood DEF PC, GetPasswordHash
<1>4. QED
  BY <1>2, <1>3 DEF Verify

LEMMA CheckNameStep ==
  ASSUME Inv, Track, NEW r \in Requests, CheckName(r)
  PROVE  Good(r)
<1>1. Effect /\ request[r].pc = "checkName"
  BY DEF CheckName, Reads, Effect, At
<1>2. End(r) \/ Goto(r, "rename")
  BY DEF CheckName
<1>3. QED
  BY <1>1, <1>2, EndIsGood, GotoIsGood DEF PC

\* A write to the account of the request, if it is there.
LEMMA RehashStep ==
  ASSUME Inv, Track, NEW r \in Requests, Rehash(r)
  PROVE  Good(r)
<1> DEFINE q == request[r]
           row == [users[q.who] EXCEPT !.password = q.password]
<1>1. q.pc = "rehash" /\ q.password \in Passwords
  BY StepFacts DEF Rehash, At, RequestInv, Shaped
<1>2. CASE q.who \in There
  <2>1. q.who \in Ids /\ users[q.who] \in Account /\ Put(q.who, row)
    BY <1>2, StepFacts DEF Rehash
  <2>2. row \in Account /\ row.name = users[q.who].name /\ row.email = users[q.who].email
        /\ row.provider = users[q.who].provider /\ row.subject = users[q.who].subject
    BY <1>1, <2>1 DEF Account, Store!Account
  <2>3. Proven(q.who)
    BY <1>1, <1>2, StepFacts DEF RequestInv, Witnessed, Proven, At
  <2>4. Store!UpdatePasswordHash(q.who, q.password)
    BY <1>2, <2>1 DEF Put, Store!UpdatePasswordHash, There
  <2>5. Store!Next
    BY <1>1, <2>1, <2>4 DEF Store!Next
  <2>6. Effect
    BY <2>1, <2>2, <2>3, <2>5 DEF Effect, RowWritten, MayRehash
  <2>7. QED
    BY <2>6, EndIsGood DEF Rehash
<1>3. CASE q.who \notin There
  BY <1>3, EndIsGood DEF Rehash, Effect
<1>4. QED
  BY <1>2, <1>3

LEMMA WriteNameStep ==
  ASSUME Inv, Track, NEW r \in Requests, WriteName(r)
  PROVE  Good(r)
<1> DEFINE q == request[r]
           row == [users[q.who] EXCEPT !.name = q.name]
<1>1. q.pc = "rename" /\ q.name \in Names
  BY StepFacts DEF WriteName, At, RequestInv, Shaped
<1>2. CASE q.who \in There /\ ~Clash(q.who, row)
  <2>1. q.who \in Ids /\ users[q.who] \in Account /\ Put(q.who, row)
    BY <1>2, StepFacts DEF WriteName
  <2>2. /\ row \in Account /\ row.provider = users[q.who].provider
        /\ row.password = users[q.who].password
    BY <1>1, <2>1 DEF Account, Store!Account
  <2>3. Store!UpdateProfile(q.who, q.name)
    BY <1>2, <2>1 DEF Put, Store!UpdateProfile, There
  <2>4. Store!Next
    BY <1>1, <2>1, <2>3 DEF Store!Next
  <2>5. Effect
    BY <1>2, <2>1, <2>2, <2>4 DEF Effect, RowWritten
  <2>6. QED
    BY <2>5, EndIsGood DEF WriteName
<1>3. CASE ~(q.who \in There /\ ~Clash(q.who, row))
  BY <1>3, EndIsGood DEF WriteName, Effect
<1>4. QED
  BY <1>2, <1>3

-----------------------------------------------------------------------------
(* Provider sign-ins                                                       *)

LEMMA NewRequest ==
  ASSUME NEW q \in Request, NEW pc \in PC, NEW who \in Holder, NEW role \in Roles \cup {None}
  PROVE  [q EXCEPT !.pc = pc, !.who = who, !.role = role] \in Request
BY DEF Request

LEMMA SignInStep ==
  ASSUME Inv, Track, NEW r \in Requests, NEW by \in Providers, NEW subject \in Subjects,
         NEW email \in Emails, NEW name \in Names, NEW groups \in SUBSET Groups,
         SignIn(r, by, subject, email, name, groups)
  PROVE  Good(r)
<1> DEFINE new == [Idle EXCEPT !.pc = "identity", !.by = by, !.subject = subject,
                               !.email = email, !.name = name, !.groups = groups,
                               !.admins = AdminGroups(by)]
<1>1. request' = [request EXCEPT ![r] = new] /\ UNCHANGED users
  BY DEF SignIn, Start
<1>2. AdminGroups(by) \in SUBSET Groups
  BY DEF AdminGroups, Inv, TypeOK, Settings
<1>3. new \in Request
  BY <1>2, IdleType DEF Request, PC
<1>4. request' \in [Requests -> Request] /\ request'[r] = new
  BY <1>1, <1>3, StepFacts
<1>5. RequestInv(r)'
  BY <1>4, AccountsAssumption DEF RequestInv, Shaped, OwnWay, Witnessed, Idle, Knows
<1>6. QED
  BY <1>1, <1>4, <1>5 DEF Good, Effect

\* A sign-in finds an account of its provider.
LEMMA FoundStep ==
  ASSUME Inv, Track, NEW r \in Requests, UNCHANGED users, NEW i \in There,
         NEW pc \in {"refresh", "link"}, Found(r, pc, i),
         request[r].pc \in {"identity", "email"}, users[i].provider = request[r].by
  PROVE  Good(r)
<1> DEFINE q == request[r]
           new == [q EXCEPT !.pc = pc, !.who = i, !.role = users[i].role]
<1>1. i \in Ids /\ users[i] \in Account /\ users[i].role \in Roles
  BY StepFacts DEF Account, Store!Account, Roles
<1>2. request' = [request EXCEPT ![r] = new] /\ q \in Request /\ request \in [Requests -> Request]
  BY StepFacts DEF Found, Request
<1>3. new \in Request /\ request' \in [Requests -> Request] /\ request'[r] = new
  <2>1. new \in Request
    BY <1>1, <1>2, NewRequest DEF PC, Holder
  <2>2. QED
    BY <1>2, <2>1
<1>4. request'[r].who = i /\ request'[r].pc = pc /\ request'[r].role = users[i].role
      /\ request'[r].by = q.by /\ request'[r].subject = q.subject /\ request'[r].email = q.email
  BY <1>2, <1>3 DEF Request
<1>5. \E s \in seen'[r] : s.role = users[i].role
  BY <1>1, <1>4, SeenGrows
<1>6. Shaped(r)'
  BY <1>1, <1>4, Rows, StepFacts DEF RequestInv, Shaped, Knows
<1>7. OwnWay(r)' /\ Witnessed(r)'
  BY <1>4, <1>5 DEF OwnWay, Witnessed
<1>8. QED
  BY <1>2, <1>3, <1>6, <1>7 DEF Good, Effect, RequestInv

LEMMA FindIdentityStep ==
  ASSUME Inv, Track, NEW r \in Requests, FindIdentity(r)
  PROVE  Good(r)
<1>1. Effect /\ UNCHANGED users /\ request[r].pc = "identity"
  BY DEF FindIdentity, Reads, Effect, At
<1>2. CASE Goto(r, "email")
  BY <1>1, <1>2, GotoIsGood DEF PC
<1>3. ASSUME NEW i \in FindByProviderIdentity(request[r].by, request[r].subject),
             Found(r, "refresh", i)
      PROVE  Good(r)
  BY <1>1, <1>3, FoundStep DEF FindByProviderIdentity
<1>4. QED
  BY <1>2, <1>3 DEF FindIdentity

LEMMA FindEmailStep ==
  ASSUME Inv, Track, NEW r \in Requests, FindEmail(r)
  PROVE  Good(r)
<1>1. Effect /\ UNCHANGED users /\ request[r].pc = "email"
  BY DEF FindEmail, Reads, Effect, At
<1>2. CASE Goto(r, "name") \/ End(r)
  BY <1>1, <1>2, EndIsGood, GotoIsGood DEF PC
<1>3. ASSUME NEW i \in FindByEmail(request[r].email), users[i].provider = request[r].by,
             Found(r, "link", i)
      PROVE  Good(r)
  BY <1>1, <1>3, FoundStep DEF FindByEmail
<1>4. QED
  BY <1>2, <1>3 DEF FindEmail

\* A sign-in goes on with the row that an update returned, of the same provider
\* and role, or with none.
LEMMA ReturnedStep ==
  ASSUME Inv, Track, Effect, NEW r \in Requests, request[r].pc \in {"refresh", "link"},
         NEW row, Returned(r, row),
         LET q == request[r] IN
         /\ row.role = users[q.who].role
         /\ q.who \in There => users'[q.who].role = row.role
  PROVE  Good(r)
<1> DEFINE q == request[r]
           who == IF q.who \in There THEN q.who ELSE Nobody
           new == [q EXCEPT !.pc = AfterUpsert(q.by), !.who = who, !.role = row.role]
<1>1. q \in Request /\ request \in [Requests -> Request] /\ RequestInv(r)
      /\ users \in [Ids -> Account \cup {Absent, Gone}]
      /\ users' \in [Ids -> Account \cup {Absent, Gone}]
  BY StepFacts, EffectOnRows DEF Inv
<1>2. q.who \in Ids /\ who \in Ids \cup {Nobody} /\ AfterUpsert(q.by) \in {"readRole", "issue"}
  BY <1>1 DEF RequestInv, Shaped, AfterUpsert
<1>3. row.role \in Roles \cup {None}
  BY <1>1, <1>2 DEF Account, Store!Account, Roles, Absent, Gone, Store!Absent, Store!Gone
<1>4. request' = [request EXCEPT ![r] = new]
  BY <1>1 DEF Returned
<1>5. new \in Request /\ request' \in [Requests -> Request] /\ request'[r] = new
  <2>1. new \in Request
    <3>1. AfterUpsert(q.by) \in PC /\ who \in Holder
      BY <1>2 DEF PC, Holder
    <3> HIDE DEF who
    <3>2. QED
      BY <1>1, <1>3, <3>1, NewRequest
  <2>2. QED
    BY <1>1, <1>4, <2>1
<1>6. /\ request'[r].pc = AfterUpsert(q.by) /\ request'[r].who = who
      /\ request'[r].role = row.role /\ request'[r].by = q.by
  BY <1>1, <1>5 DEF Request
<1>7. CASE q.who \in There
  <2>1. who = q.who /\ request'[r].who = q.who
    BY <1>6, <1>7
  <2>2. users'[q.who] # Absent /\ users[q.who].provider = q.by
        /\ (q.who \in There' => users'[q.who].provider = users[q.who].provider)
    BY <1>1, <1>2, <1>7, <2>1, SameAccount, AccountsAssumption DEF RequestInv, OwnWay, Shaped, Knows
  <2>3. \E s \in seen'[r] : s.role = row.role
    BY <1>2, <1>7, <2>1, SeenGrows
  <2>4. Shaped(r)'
    BY <1>2, <1>6, <2>1, <2>2 DEF Shaped, Knows
  <2>5. OwnWay(r)' /\ Witnessed(r)'
    BY <1>2, <1>6, <2>1, <2>2, <2>3 DEF OwnWay, Witnessed
  <2>6. QED
    BY <1>4, <1>5, <2>4, <2>5, <1>1 DEF Good, RequestInv
<1>8. CASE q.who \notin There
  <2>1. request'[r].who = Nobody /\ Nobody \notin Ids /\ Nobody \notin There'
    BY <1>1, <1>6, <1>8, AccountsAssumption, ThereRowsNext
  <2>2. RequestInv(r)'
    BY <1>2, <1>6, <2>1 DEF RequestInv, Shaped, OwnWay, Witnessed, Knows
  <2>3. QED
    BY <1>4, <1>5, <2>2, <1>1 DEF Good
<1>9. QED
  BY <1>7, <1>8

LEMMA RefreshStep ==
  ASSUME Inv, Track, NEW r \in Requests, Refresh(r)
  PROVE  Good(r)
<1>1. Effect /\ UNCHANGED users /\ request[r].pc = "refresh"
  BY DEF Refresh, Reads, Effect, At
<1>2. Returned(r, users[request[r].who])
  BY DEF Refresh
<1>3. QED
  BY <1>1, <1>2, ReturnedStep

LEMMA LinkStep ==
  ASSUME Inv, Track, NEW r \in Requests, Link(r)
  PROVE  Good(r)
<1> DEFINE q   == request[r]
           row == [users[q.who] EXCEPT !.provider = q.by, !.subject = q.subject]
<1>1. q.pc = "link" /\ RequestInv(r) /\ q.who \in Ids /\ q.by \in Providers
      /\ q.subject \in Subjects /\ users \in [Ids -> Account \cup {Absent, Gone}]
  BY StepFacts DEF Link, At, RequestInv, Shaped
<1>2. CASE q.who \in There /\ Clash(q.who, row)
  <2>1. Effect /\ Goto(r, AfterUpsert(q.by))
    BY <1>2 DEF Link, Effect
  <2>2. QED
    BY <1>1, <2>1, GotoIsGood DEF AfterUpsert, PC, Knows
<1>3. CASE q.who \in There /\ ~Clash(q.who, row)
  <2>1. users[q.who] \in Account /\ users[q.who].provider = q.by
    BY <1>1, <1>3, StepFacts, AccountsAssumption DEF RequestInv, OwnWay, Knows
  <2>2. /\ row \in Account /\ row.provider = users[q.who].provider
        /\ row.role = users[q.who].role /\ row.password = users[q.who].password
    BY <1>1, <2>1 DEF Account, Store!Account
  <2>3. Put(q.who, row) /\ Returned(r, row)
    BY <1>3 DEF Link
  <2>4. Store!LinkProviderIdentity(q.who, q.by, q.subject)
    BY <1>3, <2>3 DEF Put, Store!LinkProviderIdentity, There
  <2>5. Store!Next
    BY <1>1, <2>4 DEF Store!Next
  <2>6. Effect /\ users'[q.who] = row
    BY <1>1, <1>3, <2>1, <2>2, <2>3, <2>5 DEF Effect, RowWritten, Put
  <2>7. QED
    BY <1>1, <2>2, <2>3, <2>6, ReturnedStep
<1>4. CASE q.who \notin There
  <2>1. row.role = users[q.who].role
    BY <1>1 DEF Account, Store!Account, Absent, Gone, Store!Absent, Store!Gone
  <2>2. Effect /\ Returned(r, row)
    BY <1>4 DEF Link, Effect
  <2>3. QED
    BY <1>1, <1>4, <2>1, <2>2, ReturnedStep
<1>5. QED
  BY <1>2, <1>3, <1>4

LEMMA LookForNameStep ==
  ASSUME Inv, Track, NEW r \in Requests, LookForName(r)
  PROVE  Good(r)
<1> DEFINE q == request[r]
<1>1. PICK name \in {None, q.name} :
        request' = [request EXCEPT ![r] = [q EXCEPT !.pc = "provision", !.name = name]]
  BY StepFacts DEF LookForName, Request
<1> DEFINE new == [q EXCEPT !.pc = "provision", !.name = name]
<1>2. q \in Request /\ RequestInv(r) /\ q.pc = "name" /\ UNCHANGED users
  BY StepFacts DEF LookForName, At, Reads
<1>3. new \in Request /\ request' \in [Requests -> Request] /\ request'[r] = new
  <2>1. new \in Request
    BY <1>2 DEF Request, PC
  <2>2. QED
    BY <1>1, <2>1, StepFacts
<1>4. RequestInv(r)'
  BY <1>2, <1>3, AccountsAssumption DEF RequestInv, Shaped, OwnWay, Witnessed, Knows, Request
<1>5. QED
  BY <1>1, <1>2, <1>3, <1>4 DEF Good, Effect

LEMMA ProvisionStep ==
  ASSUME Inv, Track, NEW r \in Requests, Provision(r)
  PROVE  Good(r)
<1> DEFINE q == request[r]
           row(i) == [name |-> IF q.name = None THEN i ELSE q.name, email |-> q.email,
                      password |-> None, role |-> "student", active |-> TRUE,
                      provider |-> q.by, subject |-> q.subject]
<1>1. /\ q \in Request /\ request \in [Requests -> Request] /\ RequestInv(r) /\ q.pc = "provision"
      /\ users \in [Ids -> Account \cup {Absent, Gone}]
  BY StepFacts DEF Provision, At
<1>2. PICK i \in Ids : /\ users[i] = Absent
                       /\ \/ End(r) /\ UNCHANGED users
                          \/ /\ ~Clash(i, row(i)) /\ Put(i, row(i))
                             /\ request' = [request EXCEPT ![r].pc = AfterUpsert(q.by), ![r].who = i,
                                                           ![r].role = "student"]
  BY DEF Provision
<1>3. row(i) \in Account /\ row(i).role = "student" /\ row(i).provider = q.by
  BY <1>1 DEF RequestInv, Shaped, Account, Store!Account, Request, Store!Roles
<1>4. CASE End(r) /\ UNCHANGED users
  BY <1>4, EndIsGood DEF Effect
<1>5. CASE /\ ~Clash(i, row(i)) /\ Put(i, row(i))
           /\ request' = [request EXCEPT ![r].pc = AfterUpsert(q.by), ![r].who = i,
                                         ![r].role = "student"]
  <2> DEFINE new == [q EXCEPT !.pc = AfterUpsert(q.by), !.who = i, !.role = "student"]
  <2>1. Effect /\ users'[i] = row(i)
    BY <1>1, <1>2, <1>3, <1>5, NewRowEffect DEF Put
  <2>2. AfterUpsert(q.by) \in {"readRole", "issue"}
    BY DEF AfterUpsert
  <2>3. request' = [request EXCEPT ![r] = new] /\ new \in Request
    <3>1. new \in Request
      BY <1>1, <2>2, NewRequest DEF PC, Holder, Roles, Store!Roles
    <3>2. QED
      BY <1>1, <1>5, <3>1
  <2>4. request' \in [Requests -> Request] /\ request'[r] = new
    BY <1>1, <2>3
  <2>5. /\ request'[r].pc = AfterUpsert(q.by) /\ request'[r].who = i
        /\ request'[r].role = "student" /\ request'[r].by = q.by
    BY <1>1, <2>4 DEF Request
  <2>6. \E s \in seen'[r] : s.role = "student"
    BY <1>3, <2>1, <2>5, SeenGrows
  <2>7. Shaped(r)'
    BY <1>3, <2>1, <2>2, <2>5, Rows DEF Shaped, Knows
  <2>8. OwnWay(r)' /\ Witnessed(r)'
    BY <1>3, <2>1, <2>2, <2>5, <2>6 DEF OwnWay, Witnessed
  <2>9. QED
    BY <2>1, <2>3, <2>4, <2>7, <2>8, <1>1 DEF Good, RequestInv
<1>6. QED
  BY <1>2, <1>4, <1>5

\* The transaction's first statement.
LEMMA ReadRoleStep ==
  ASSUME Inv, Track, NEW r \in Requests, ReadRole(r)
  PROVE  Good(r)
<1> DEFINE q == request[r]
           base == IF q.who \in There THEN users[q.who].role ELSE "student"
           new == [q EXCEPT !.pc = "mapRole", !.base = base]
<1>1. /\ q \in Request /\ request \in [Requests -> Request] /\ RequestInv(r) /\ q.pc = "readRole"
      /\ users \in [Ids -> Account \cup {Absent, Gone}] /\ UNCHANGED users
  BY StepFacts DEF ReadRole, At, Reads
<1>2. base \in Roles
  BY StepFacts DEF Account, Store!Account, Roles, Store!Roles
<1>3. request' = [request EXCEPT ![r] = new]
  BY <1>1 DEF ReadRole
<1>4. new \in Request
  <2> HIDE DEF base
  <2>1. QED
    BY <1>1, <1>2 DEF Request, PC
<1>5. request' \in [Requests -> Request] /\ request'[r] = new
  BY <1>1, <1>3, <1>4
<1>6. /\ request'[r].pc = "mapRole" /\ request'[r].who = q.who /\ request'[r].base = base
      /\ request'[r].role = q.role /\ request'[r].by = q.by
  BY <1>1, <1>5 DEF Request
<1>7. q.who \in There => /\ \E s \in seen'[r] : s.role = base
                         /\ \A s \in seen[r] : s \in seen'[r]
  BY <1>1, <1>6, SeenGrows, StepFacts
<1>8. There' = There
  BY <1>1 DEF There, Store!There
<1>9. Shaped(r)'
  BY <1>1, <1>2, <1>6 DEF RequestInv, Shaped, Knows, Roles
<1>10. OwnWay(r)' /\ Witnessed(r)'
  BY <1>1, <1>6, <1>7, <1>8 DEF RequestInv, OwnWay, Witnessed, Knows
<1>11. QED
  BY <1>1, <1>3, <1>5, <1>9, <1>10 DEF Good, Effect, RequestInv

\* What writing a role does to a row.
LEMMA RoleEffect ==
  ASSUME Inv, NEW i \in There, NEW role \in Roles, Put(i, [users[i] EXCEPT !.role = role])
  PROVE  Effect /\ users'[i].role = role
<1> DEFINE row == [users[i] EXCEPT !.role = role]
<1>1. i \in Ids /\ users[i] \in Account /\ users' = [users EXCEPT ![i] = row]
      /\ users \in [Ids -> Account \cup {Absent, Gone}]
  BY DEF Put, Inv, TypeOK, There, Store!There, Account, Absent, Gone
<1>2. row \in Account /\ row.name = users[i].name /\ row.email = users[i].email
      /\ row.provider = users[i].provider /\ row.subject = users[i].subject /\ row.role = role
      /\ row.password = users[i].password
  BY <1>1 DEF Account, Store!Account, Roles
<1>3. Store!UpdateSSORole(i, role)
  BY DEF Put, Store!UpdateSSORole, There
<1>4. Store!Next
  BY <1>1, <1>3 DEF Store!Next, Roles
<1>5. QED
  BY <1>1, <1>2, <1>4 DEF Effect, RowWritten

\* A step of a sign-in that leaves it with the role that the account has or had.
LEMMA RoleStep ==
  ASSUME Inv, Track, Effect, NEW r \in Requests, NEW role \in Roles \cup {None},
         request[r].pc \in {"mapRole", "override"}, NEW pc \in {"override", "issue"},
         request' = [request EXCEPT ![r].pc = pc, ![r].role = role],
         LET q == request[r] IN
           q.who \in There =>
             \/ \E s \in seen[r] : s.role = role
             \/ users'[q.who].role = role
  PROVE  Good(r)
<1> DEFINE q == request[r]
           new == [q EXCEPT !.pc = pc, !.role = role]
<1>1. /\ q \in Request /\ request \in [Requests -> Request] /\ RequestInv(r)
      /\ users' \in [Ids -> Account \cup {Absent, Gone}]
  BY StepFacts, EffectOnRows DEF Inv
<1>2. request' = [request EXCEPT ![r] = new]
  BY <1>1
<1>3. new \in Request
  BY <1>1 DEF Request, PC
<1>4. request' \in [Requests -> Request] /\ request'[r] = new
  BY <1>1, <1>2, <1>3
<1>5. /\ request'[r].pc = pc /\ request'[r].who = q.who
      /\ request'[r].role = role /\ request'[r].by = q.by
  BY <1>1, <1>4 DEF Request
<1>6. q.who \in There' => q.who \in Ids
  BY <1>1, ThereRowsNext
<1>7. q.who \in Ids => /\ users'[q.who] # Absent
                       /\ q.who \in There' => /\ q.who \in There
                                              /\ users'[q.who].provider = users[q.who].provider
                       /\ \A s \in seen[r] : s \in seen'[r]
                       /\ \E s \in seen'[r] : s.role = users'[q.who].role
  <2>1. ASSUME q.who \in Ids
        PROVE  \E s \in seen'[r] : s.role = users'[q.who].role
    BY <1>5, <2>1, SeenGrows
  <2>2. QED
    BY <1>5, <2>1, SameAccount
<1>8. Shaped(r)'
  BY <1>1, <1>5, <1>7 DEF RequestInv, Shaped, Knows
<1>9. OwnWay(r)'
  BY <1>1, <1>5, <1>6, <1>7 DEF RequestInv, OwnWay, Knows
<1>10. Witnessed(r)'
  BY <1>5, <1>6, <1>7 DEF Witnessed
<1>11. QED
  BY <1>1, <1>2, <1>4, <1>8, <1>9, <1>10 DEF Good, RequestInv

LEMMA DerivedRole ==
  ASSUME mapping \in [Groups -> {"admin", "student", "none"}], NEW base \in Roles,
         NEW groups \in SUBSET Groups
  PROVE  /\ Derived(base, groups) \in Roles
         /\ ~Mapped(groups) => Derived(base, groups) = base
<1>1. ~Mapped(groups) => {mapping[g] : g \in groups} \ {"none"} = {}
  BY DEF Mapped
<1>2. {mapping[g] : g \in groups} \ {"none"} = {} => Derived(base, groups) = base
  BY DEF Derived
<1>3. Derived(base, groups) \in Roles
  BY DEF Derived, Roles, Store!Roles
<1>4. QED
  BY <1>1, <1>2, <1>3

LEMMA MapRoleStep ==
  ASSUME Inv, Track, NEW r \in Requests, MapRole(r)
  PROVE  Good(r)
<1> DEFINE q == request[r]
           role == Derived(q.base, q.groups)
           told == IF q.who \notin There /\ q.groups # {} THEN q.role ELSE role
<1>1. /\ q \in Request /\ request \in [Requests -> Request] /\ RequestInv(r) /\ q.pc = "mapRole"
      /\ q.base \in Roles /\ q.groups \in SUBSET Groups
      /\ mapping \in [Groups -> {"admin", "student", "none"}]
  BY StepFacts DEF MapRole, At, RequestInv, Shaped, Request, Inv, TypeOK
<1>2. role \in Roles /\ (~Mapped(q.groups) => role = q.base)
  BY <1>1, DerivedRole
<1> HIDE DEF role
<1>3. told \in Roles \cup {None} /\ AfterRole(q) \in {"override", "issue"}
  BY <1>1, <1>2 DEF Request, AfterRole
<1>4. request' = [request EXCEPT ![r].pc = AfterRole(q), ![r].role = told]
  BY <1>1 DEF MapRole, role
<1>5. q.who \in There => told = role
  OBVIOUS
<1>6. CASE q.who \in There /\ Mapped(q.groups)
  <2>1. Put(q.who, [users[q.who] EXCEPT !.role = role])
    BY <1>6 DEF MapRole, role
  <2>2. Effect /\ users'[q.who].role = role
    BY <1>2, <1>6, <2>1, RoleEffect
  <2> HIDE DEF told
  <2>3. QED
    BY <1>1, <1>3, <1>4, <1>5, <2>2, RoleStep
<1>7. CASE ~(q.who \in There /\ Mapped(q.groups))
  <2>1. Effect
    BY <1>7 DEF MapRole, Effect
  <2>2. q.who \in There => \E s \in seen[r] : s.role = told
    BY <1>1, <1>2, <1>5, <1>7 DEF RequestInv, Witnessed
  <2> HIDE DEF told
  <2>3. QED
    BY <1>1, <1>3, <1>4, <2>1, <2>2, RoleStep
<1>8. QED
  BY <1>6, <1>7

LEMMA OverrideStep ==
  ASSUME Inv, Track, NEW r \in Requests, Override(r)
  PROVE  Good(r)
<1> DEFINE q == request[r]
           role == IF q.groups \cap q.admins # {} THEN "admin" ELSE "student"
<1>1. q.pc = "override" /\ role \in Roles
  BY DEF Override, At, Roles, Store!Roles
<1>2. CASE q.who \in There
  <2>1. Put(q.who, [users[q.who] EXCEPT !.role = role])
        /\ request' = [request EXCEPT ![r].pc = "issue", ![r].role = role]
    BY <1>2 DEF Override
  <2> HIDE DEF role
  <2>2. Effect /\ users'[q.who].role = role
    BY <1>1, <1>2, <2>1, RoleEffect
  <2>3. QED
    BY <1>1, <2>1, <2>2, RoleStep
<1>3. CASE q.who \notin There
  BY <1>3, EndIsGood DEF Override, Effect
<1>4. QED
  BY <1>2, <1>3

LEMMA FailsStep ==
  ASSUME Inv, Track, NEW r \in Requests, Fails(r)
  PROVE  Good(r)
<1> DEFINE q == request[r]
<1>1. Effect /\ UNCHANGED users /\ q.pc \in PC \ {"idle", "issue"}
  BY StepFacts DEF Fails, Effect, Request
<1>2. CASE q.pc \in GivesUp
  BY <1>1, <1>2, EndIsGood DEF Fails
<1>3. CASE q.pc \notin GivesUp
  <2>1. Goto(r, GoesOn(q))
    BY <1>3 DEF Fails
  <2>2. /\ q.pc = "identity" => GoesOn(q) = "email"
        /\ q.pc = "email" => GoesOn(q) = "name"
        /\ q.pc = "name" => GoesOn(q) = "provision"
        /\ q.pc = "checkName" => GoesOn(q) = "rename"
        /\ q.pc \in {"refresh", "link"} => GoesOn(q) \in {"readRole", "issue"}
        /\ q.pc \in {"readRole", "mapRole"} => GoesOn(q) \in {"override", "issue"}
        /\ q.pc \in {"identity", "email", "name", "checkName", "refresh", "link", "readRole", "mapRole"}
    BY <1>1, <1>3 DEF GoesOn, AfterUpsert, AfterRole, GivesUp, PC
  <2>3. QED
    BY <1>1, <2>1, <2>2, GotoIsGood DEF PC, Knows
<1>4. QED
  BY <1>2, <1>3

-----------------------------------------------------------------------------
(* The admin and the seeding                                               *)

LEMMA AdminFieldsEffect ==
  ASSUME Inv, NEW i \in Ids, NEW name \in Names \cup Ids, NEW active \in BOOLEAN,
         NEW role \in Roles, UpdateAdminFields(i, name, active, role)
  PROVE  Effect
<1> DEFINE row == [users[i] EXCEPT !.name = name, !.active = active, !.role = role]
<1>1. users[i] \in Account /\ ~Clash(i, row) /\ Put(i, row)
  BY ThereRows DEF UpdateAdminFields, Inv, TypeOK
<1>2. row \in Account /\ row.provider = users[i].provider /\ row.password = users[i].password
  BY <1>1 DEF Account, Store!Account, Roles
<1>3. Store!UpdateAdminFields(i, name, active, role)
  BY DEF UpdateAdminFields, Put, Store!UpdateAdminFields, There
<1>4. Store!Next
  BY <1>3 DEF Store!Next, Roles
<1>5. QED
  BY <1>1, <1>2, <1>4 DEF Effect, RowWritten

LEMMA AdminStep ==
  ASSUME Inv, Admin
  PROVE  Effect /\ UNCHANGED <<request, tokens>>
<1>1. ASSUME NEW i \in Ids, NEW name \in Names,
             UpdateAdminFields(i, name, users[i].active, users[i].role)
      PROVE  Effect /\ UNCHANGED <<request, tokens>>
  <2>1. users[i].active \in BOOLEAN /\ users[i].role \in Roles
    BY <1>1, ThereRows DEF UpdateAdminFields, Inv, TypeOK, Account, Store!Account, Roles
  <2>2. QED
    BY <1>1, <2>1, AdminFieldsEffect DEF UpdateAdminFields, RowEdit
<1>2. ASSUME NEW i \in Ids, UpdateAdminFields(i, users[i].name, ~users[i].active, users[i].role)
      PROVE  Effect /\ UNCHANGED <<request, tokens>>
  <2>1. users[i].name \in Names \cup Ids /\ users[i].active \in BOOLEAN /\ users[i].role \in Roles
    BY <1>2, ThereRows DEF UpdateAdminFields, Inv, TypeOK, Account, Store!Account, Roles
  <2>2. QED
    BY <1>2, <2>1, AdminFieldsEffect DEF UpdateAdminFields, RowEdit
<1>3. ASSUME NEW i \in Ids, NEW role \in Roles,
             UpdateAdminFields(i, users[i].name, users[i].active, role)
      PROVE  Effect /\ UNCHANGED <<request, tokens>>
  <2>1. users[i].name \in Names \cup Ids /\ users[i].active \in BOOLEAN
    BY <1>3, ThereRows DEF UpdateAdminFields, Inv, TypeOK, Account, Store!Account
  <2>2. QED
    BY <1>3, <2>1, AdminFieldsEffect DEF UpdateAdminFields, RowEdit
<1>4. ASSUME NEW i \in Ids, Delete(i) PROVE Effect /\ UNCHANGED <<request, tokens>>
  <2>1. i \in There /\ users[i] \in Account /\ Put(i, Gone)
    BY <1>4, ThereRows DEF Delete, Inv, TypeOK
  <2>2. Store!Delete(i)
    BY <2>1 DEF Put, Store!Delete, There, Gone
  <2>3. Store!Next
    BY <2>2 DEF Store!Next
  <2>4. QED
    BY <1>4, <2>1, <2>3 DEF Effect, RowWritten, Delete, RowEdit
<1>5. ASSUME NEW g \in Groups, NEW role \in {"admin", "student", "none"}, UpsertMapping(g, role)
      PROVE  Effect /\ UNCHANGED <<request, tokens>>
  BY <1>5 DEF UpsertMapping, Effect
<1>6. ASSUME NEW key, NEW value, UpdateSettings(key, value)
      PROVE  Effect /\ UNCHANGED <<request, tokens>>
  BY <1>6 DEF UpdateSettings, Effect
<1>7. QED
  BY <1>1, <1>2, <1>3, <1>4, <1>5, <1>6 DEF Admin

LEMMA SeedStep ==
  ASSUME Inv, Seed
  PROVE  Effect /\ UNCHANGED <<request, tokens>>
<1>1. users \in [Ids -> Account \cup {Absent, Gone}] /\ "admin" \in Roles /\ "student" \in Roles
  BY DEF Inv, TypeOK, Roles, Store!Roles
<1>2. ASSUME NEW i \in Ids, NEW password \in Passwords, CreateAdminIfAbsent(i, password)
      PROVE  Effect /\ UNCHANGED <<request, tokens>>
  BY <1>1, <1>2, AccountsAssumption, LocalRow, NewRowEffect DEF CreateAdminIfAbsent, RowEdit
<1>3. ASSUME NEW i \in Ids, NEW password \in Passwords, UpsertAdminPassword(i, password)
      PROVE  Effect /\ UNCHANGED <<request, tokens>>
  <2> DEFINE row == [users[i] EXCEPT !.email = AdminEmail, !.password = password]
  <2>1. CASE i \in There
    <3>1. users[i] \in Account /\ ~Clash(i, row) /\ Put(i, row)
      BY <1>1, <1>3, <2>1, ThereRows DEF UpsertAdminPassword
    <3>2. row \in Account /\ row.provider = users[i].provider
      BY <3>1, AccountsAssumption DEF Account, Store!Account
    <3>3. users[i].name = AdminName /\ users' = [users EXCEPT ![i] = row]
      BY <1>3, <2>1, <3>1 DEF UpsertAdminPassword, Put
    <3>4. ASSUME users[i].email = AdminEmail PROVE Store!Next
      <4>1. row = [users[i] EXCEPT !.password = password]
        BY <3>1, <3>4 DEF Account, Store!Account
      <4>2. Store!UpdatePasswordHash(i, password)
        BY <2>1, <3>3, <4>1 DEF Store!UpdatePasswordHash, There
      <4>3. QED
        BY <4>2 DEF Store!Next
    <3>5. ASSUME users[i].email # AdminEmail PROVE SeedsByName
      BY <2>1, <3>3, <3>5 DEF SeedsByName
    <3>6. QED
      BY <1>3, <3>1, <3>2, <3>3, <3>4, <3>5 DEF Effect, RowWritten, MayRehash, UpsertAdminPassword, RowEdit
  <2>2. CASE i \notin There
    <3>1. users[i] = Absent
      BY <1>1, <1>3, <2>2, ThereRows DEF UpsertAdminPassword
    <3>2. QED
      BY <1>1, <1>3, <2>2, <3>1, AccountsAssumption, LocalRow, NewRowEffect
      DEF UpsertAdminPassword, RowEdit
  <2>3. QED
    BY <2>1, <2>2
<1>4. ASSUME NEW i \in Ids, NEW m \in MockStudents, UpsertMockStudent(i, m.name, m.email, m.password)
      PROVE  Effect /\ UNCHANGED <<request, tokens>>
  <2> DEFINE row == [users[i] EXCEPT !.name = m.name]
  <2>1. m.name \in Names /\ m.email \in Emails /\ m.password \in Passwords
    BY AccountsAssumption
  <2>2. CASE i \in There
    <3>1. users[i] \in Account /\ ~Clash(i, row) /\ Put(i, row)
      BY <1>1, <1>4, <2>2, ThereRows DEF UpsertMockStudent
    <3>2. row \in Account /\ row.provider = users[i].provider /\ row.password = users[i].password
      BY <2>1, <3>1 DEF Account, Store!Account
    <3>3. Store!UpdateProfile(i, m.name)
      BY <2>2, <3>1 DEF Put, Store!UpdateProfile, There
    <3>4. Store!Next
      BY <2>1, <3>3 DEF Store!Next
    <3>5. QED
      BY <1>4, <3>1, <3>2, <3>4 DEF Effect, RowWritten, UpsertMockStudent, RowEdit
  <2>3. CASE i \notin There
    <3>1. users[i] = Absent
      BY <1>1, <1>4, <2>3, ThereRows DEF UpsertMockStudent
    <3>2. QED
      BY <1>1, <1>4, <2>1, <2>3, <3>1, LocalRow, NewRowEffect
      DEF UpsertMockStudent, RowEdit
  <2>4. QED
    BY <2>2, <2>3
<1>5. QED
  BY <1>2, <1>3, <1>4 DEF Seed

-----------------------------------------------------------------------------
(* The invariant and the theorems                                          *)

LEMMA StepIsGood ==
  ASSUME Inv, Track, NEW r \in Requests, Step(r)
  PROVE  Good(r)
BY LookForTakenStep, InsertStep, IssueStep, VerifyStep, RehashStep, CheckNameStep, WriteNameStep,
   FindIdentityStep, RefreshStep, FindEmailStep, LinkStep, LookForNameStep, ProvisionStep,
   ReadRoleStep, MapRoleStep, OverrideStep, FailsStep
DEF Step

LEMMA AskIsGood ==
  ASSUME Inv, Track, NEW r \in Requests, Ask(r)
  PROVE  Good(r)
BY RegisterStep, LoginStep, ChangePasswordStep, RenameStep, SignInStep DEF Ask

\* Only Issue gives tokens.
LEMMA TokensStep ==
  ASSUME Inv, NEW r \in Requests, Step(r) \/ Ask(r)
  PROVE  UNCHANGED tokens \/ Issue(r)
BY DEF Step, Ask, LookForTaken, Insert, Verify, Rehash, CheckName, WriteName, FindIdentity,
       Refresh, FindEmail, Link, LookForName, Provision, ReadRole, MapRole, Override, Fails,
       Register, Login, ChangePassword, Rename, SignIn, Start, Reads, Writes

LEMMA OthersTyped ==
  ASSUME Inv, Next
  PROVE  /\ mapping' \in [Groups -> {"admin", "student", "none"}]
         /\ settings' \in Settings
         /\ asked' \in 0..MaxRequests /\ events' \in 0..MaxEvents
<1>1. /\ mapping \in [Groups -> {"admin", "student", "none"}]
      /\ settings \in Settings
      /\ asked \in 0..MaxRequests /\ events \in 0..MaxEvents
      /\ MaxRequests \in Nat /\ MaxEvents \in Nat
  BY AccountsAssumption DEF Inv, TypeOK
<1>2. ASSUME NEW r \in Requests, Step(r)
      PROVE  UNCHANGED <<mapping, settings, asked>> /\ (UNCHANGED events \/ Event)
  BY <1>2
  DEF Step, LookForTaken, Insert, Verify, Rehash, CheckName, WriteName, FindIdentity, Issue,
      Refresh, FindEmail, Link, LookForName, Provision, ReadRole, MapRole, Override, Fails,
      Reads, Writes
<1>3. ASSUME NEW r \in Requests, Ask(r)
      PROVE  UNCHANGED <<mapping, settings, events>> /\ asked > 0 /\ asked' = asked - 1
  BY <1>3 DEF Ask, Register, Login, ChangePassword, Rename, SignIn, Start
<1>4. ASSUME Seed PROVE UNCHANGED <<mapping, settings, asked>> /\ Event
  BY <1>4 DEF Seed, CreateAdminIfAbsent, UpsertAdminPassword, UpsertMockStudent, RowEdit
<1>5. CASE Admin
  <2>1. CASE UNCHANGED <<mapping, settings, asked>> /\ Event
    BY <1>1, <2>1 DEF Event
  <2>2. ASSUME NEW g \in Groups, NEW role \in {"admin", "student", "none"}, UpsertMapping(g, role)
        PROVE  /\ mapping' \in [Groups -> {"admin", "student", "none"}]
               /\ UNCHANGED <<settings, asked>> /\ Event
    BY <1>1, <2>2 DEF UpsertMapping
  <2>3. ASSUME NEW key \in {"register", "localLogin", "rename"},
               UpdateSettings(key, ~settings[key])
        PROVE  settings' \in Settings /\ UNCHANGED <<mapping, asked>> /\ Event
    BY <1>1, <2>3 DEF UpdateSettings, Settings
  <2>4. ASSUME NEW names \in SUBSET Groups, UpdateSettings("admins", names)
        PROVE  settings' \in Settings /\ UNCHANGED <<mapping, asked>> /\ Event
    BY <1>1, <2>4 DEF UpdateSettings, Settings
  <2>5. \/ UNCHANGED <<mapping, settings, asked>> /\ Event
        \/ \E g \in Groups, role \in {"admin", "student", "none"} : UpsertMapping(g, role)
        \/ \E key \in {"register", "localLogin", "rename"} : UpdateSettings(key, ~settings[key])
        \/ \E names \in SUBSET Groups : UpdateSettings("admins", names)
    BY <1>5 DEF Admin, UpdateAdminFields, Delete, RowEdit
  <2>6. QED
    BY <1>1, <2>1, <2>2, <2>3, <2>4, <2>5 DEF Event
<1>6. /\ UNCHANGED events \/ Event => events' \in 0..MaxEvents
      /\ asked > 0 /\ asked' = asked - 1 => asked' \in 0..MaxRequests
  BY <1>1 DEF Event
<1>7. QED
  BY <1>1, <1>2, <1>3, <1>4, <1>5, <1>6 DEF Next

\* A step moves at most one request, by one of the lemmas above.
LEMMA NextIsGood ==
  ASSUME Inv, Next
  PROVE  /\ Effect
         /\ request' \in [Requests -> Request]
         /\ \A r \in Requests : RequestInv(r)'
<1>1. Track /\ request \in [Requests -> Request]
  BY DEF Next, Inv, TypeOK
<1>2. ASSUME NEW r \in Requests, Step(r) \/ Ask(r)
      PROVE  /\ Effect /\ request' \in [Requests -> Request]
             /\ \A p \in Requests : RequestInv(p)'
  <2>1. Good(r)
    BY <1>1, <1>2, StepIsGood, AskIsGood
  <2>2. \A p \in Requests \ {r} : RequestInv(p)'
    BY <1>1, <2>1, Undisturbed DEF Good
  <2>3. QED
    BY <2>1, <2>2 DEF Good
<1>3. ASSUME Admin \/ Seed
      PROVE  /\ Effect /\ request' \in [Requests -> Request]
             /\ \A p \in Requests : RequestInv(p)'
  <2>1. Effect /\ UNCHANGED request
    BY <1>3, AdminStep, SeedStep
  <2>2. QED
    BY <1>1, <2>1, Undisturbed
<1>4. QED
  BY <1>2, <1>3 DEF Next

LEMMA TokensNext ==
  ASSUME Inv, Next
  PROVE  tokens' \subseteq Token /\ TokensKnown'
<1>1. Track /\ Effect /\ tokens \subseteq Token /\ TokensKnown
  BY NextIsGood DEF Next, Inv, TypeOK
<1>2. CASE UNCHANGED tokens
  <2>1. \A i \in Ids : users[i] # Absent => users'[i] # Absent
    BY <1>1, EffectOnRows, Rows DEF Moves, Inv
  <2>2. QED
    BY <1>1, <1>2, <2>1 DEF TokensKnown
<1>3. ASSUME NEW r \in Requests, Issue(r) PROVE tokens' \subseteq Token /\ TokensKnown'
  BY <1>1, <1>3, IssueStep
<1>4. QED
  BY <1>2, <1>3, TokensStep, AdminStep, SeedStep DEF Next

LEMMA InitInv == Init => Inv
<1> SUFFICES ASSUME Init PROVE Inv
  OBVIOUS
<1>1. users \in [Ids -> Account \cup {Absent, Gone}] /\ request \in [Requests -> Request]
  BY IdleType DEF Init
<1>2. \A i : i \in There => i \in Ids /\ users[i] \in Account
  BY <1>1, ThereRows
<1>3. tokens \subseteq Token
  <2>1. SUFFICES ASSUME NEW i \in There
                 PROVE  [user |-> i, role |-> users[i].role, by |-> users[i].provider] \in Token
    BY DEF Init
  <2>2. QED
    BY <1>2 DEF Token, Account, Store!Account, Roles
<1>4. TokensKnown
  <2>1. SUFFICES ASSUME NEW t \in tokens PROVE users[t.user] # Absent
    BY DEF TokensKnown
  <2>2. t.user \in There
    BY DEF Init
  <2>3. QED
    BY <1>2, <2>2, Rows
<1>5. \A r \in Requests : RequestInv(r)
  BY AccountsAssumption DEF Init, RequestInv, Shaped, OwnWay, Witnessed, Idle, Knows
<1>6. /\ mapping \in [Groups -> {"admin", "student", "none"}] /\ settings \in Settings
      /\ asked \in 0..MaxRequests /\ events \in 0..MaxEvents
  BY AccountsAssumption DEF Init, Settings
<1>7. QED
  BY <1>1, <1>3, <1>4, <1>5, <1>6 DEF Init, Inv, TypeOK

LEMMA NextInv == Inv /\ [Next]_vars => Inv'
<1> SUFFICES ASSUME Inv, [Next]_vars PROVE Inv'
  OBVIOUS
<1>1. CASE Next
  <2>1. Effect /\ request' \in [Requests -> Request] /\ \A r \in Requests : RequestInv(r)'
    BY <1>1, NextIsGood
  <2>2. users' \in [Ids -> Account \cup {Absent, Gone}] /\ Unique'
    BY <2>1, EffectOnRows DEF Inv
  <2>3. TypeOK'
    BY <1>1, <2>1, <2>2, OthersTyped, TokensNext DEF TypeOK, Unique
  <2>4. QED
    BY <1>1, <2>1, <2>3, TokensNext DEF Inv
<1>2. CASE UNCHANGED vars
  BY <1>2 DEF vars, Inv, TypeOK, TokensKnown, RequestInv, Shaped, OwnWay, Witnessed, There,
              Store!There, Clash
<1>3. QED
  BY <1>1, <1>2

THEOREM AlwaysInv == Spec => []Inv
<1>1. QED
  BY InitInv, NextInv, PTL DEF Spec

\* Every variable keeps its type, and names, emails and identities stay unique.
THEOREM TypeCorrect == Spec => []TypeOK
<1>1. Inv => TypeOK
  BY DEF Inv
<1>2. QED
  BY <1>1, AlwaysInv, PTL

\* A role in a token was the account's while the sign-in ran.
THEOREM RoleAlwaysHeld == Spec => []RoleHeld
<1>1. Inv => RoleHeld
  BY DEF Inv, RoleHeld, RequestInv, Witnessed, Knows
<1>2. QED
  BY <1>1, AlwaysInv, PTL

\* No account changes its way in, and no provider lets anybody into another's.
THEOREM NeverTakenOver == Spec => NoTakeover
<1>1. ASSUME Inv, Next
      PROVE  /\ \A i \in There : users'[i] # Gone => users'[i].provider = users[i].provider
             /\ \A t \in tokens' \ tokens :
                  t.user \in There /\ t.by # "local" => users[t.user].provider = t.by
  <2>1. \A i \in Ids : Moves(i)
    BY <1>1, NextIsGood, EffectOnRows DEF Inv
  <2>2. \A i \in There : users'[i] # Gone => users'[i].provider = users[i].provider
    BY <1>1, <2>1, ThereRows, Rows DEF Moves, Inv, TypeOK
  <2>3. ASSUME NEW r \in Requests, Issue(r), NEW t \in tokens' \ tokens
        PROVE  t.user \in There /\ t.by # "local" => users[t.user].provider = t.by
    <3>1. t.user = request[r].who /\ t.by = request[r].by /\ request[r].pc = "issue"
      BY <2>3 DEF Issue, At
    <3>2. QED
      BY <1>1, <3>1 DEF Inv, RequestInv, OwnWay, Knows
  <2>4. UNCHANGED tokens \/ \E r \in Requests : Issue(r)
    BY <1>1, TokensStep, AdminStep, SeedStep DEF Next
  <2>5. QED
    BY <2>2, <2>3, <2>4
<1>2. Inv /\ [Next]_vars =>
        [/\ \A i \in There : users'[i] # Gone => users'[i].provider = users[i].provider
         /\ \A t \in tokens' \ tokens :
              t.user \in There /\ t.by # "local" => users[t.user].provider = t.by]_vars
  BY <1>1
<1>3. QED
  BY <1>2, AlwaysInv, PTL DEF Spec, NoTakeover

\* A password changes for its holder or for the operator only.
THEOREM PasswordAlwaysProven == Spec => PasswordProven
<1>1. ASSUME Inv, Next
      PROVE  \A i \in There :
               users'[i] # Gone /\ users'[i].password # users[i].password =>
                 Proven(i) \/ users[i].name = AdminName
  <2>1. \A i \in Ids : Moves(i)
    BY <1>1, NextIsGood, EffectOnRows DEF Inv
  <2>2. QED
    BY <1>1, <2>1, ThereRows, Rows DEF Moves, MayRehash, Inv, TypeOK
<1>2. Inv /\ [Next]_vars =>
        [\A i \in There :
           users'[i] # Gone /\ users'[i].password # users[i].password =>
             Proven(i) \/ users[i].name = AdminName]_vars
  BY <1>1
<1>3. QED
  BY <1>2, AlwaysInv, PTL DEF Spec, PasswordProven

\* The table implements UserStore: it starts as one, and each step is one of
\* UserStore's, the seeding of a renamed admin, or leaves the accounts alone.
THEOREM ImplementsUserStore == Spec => Implements
<1>1. Init => Store!Init
  BY DEF Init, Store!Init, Account, Absent
<1>2. Inv /\ [Next]_vars => [Store!Next \/ SeedsByName]_users
  BY NextIsGood DEF Effect, vars
<1>3. QED
  BY <1>1, <1>2, AlwaysInv, PTL DEF Spec, Implements
==============================================================================
