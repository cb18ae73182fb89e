----------------------------- MODULE AccountProofs -----------------------------
(***************************************************************************)
(* Theorems about AccountSecurity, for any devices, requests, staff mode   *)
(* and bounds.  Everything rests on one observation: session_version grows *)
(* with every change of a secret, a role or a suspension, so what a        *)
(* session, a request or a screen carries is either overtaken or current.  *)
(***************************************************************************)
EXTENDS AccountSecurity, TLAPS

\* A session is overtaken, or it was earned with the password in force, which
\* somebody knows.
GoodSession(s, row, pw) ==
  s # NoSession => /\ s.version <= row.version
                   /\ s.version = row.version => s.password = pw /\ pw # 0

\* So is a request; what it is about to show works, and what the middleware
\* found out about a staff account is still so.
GoodRequest(q, row, pw, ph) ==
  q # Idle => /\ q.version <= row.version
              /\ q.version = row.version =>
                   /\ q.password = pw /\ pw # 0
                   /\ q.pc = "opening" /\ q.phrase # 0 => q.phrase = ph
                   /\ q.kind = "staff" /\ row.exists => Staff(row)
              /\ q.kind = "login" => q.phrase = 0

\* The phrase of a screen is overtaken or works.
GoodScreen(x, row, ph) ==
  x.phrase # 0 => /\ x.version <= row.version
                  /\ x.version = row.version => x.phrase = ph

\* Only accounts with a role are suspended, and none before it has a phrase;
\* nobody knows the secrets of an account that is invited or not yet there.
GoodRow(row, invited, pw, ph) ==
  /\ row.suspended => row.role # "user" /\ ph # 0
  /\ invited \/ row.version = 0 => pw = 0 /\ ph = 0
  /\ invited => row.version # 0

Inv ==
  /\ TypeOK
  /\ \A d \in Devices : GoodSession(sessions[d], account, password)
  /\ \A r \in Requests : GoodRequest(requests[r], account, password, phrase)
  /\ \A d \in Devices : GoodScreen(shown[d], account, phrase)
  /\ GoodRow(account, invitation, password, phrase)

\* How a step may change the row and the secrets.
Advances(row, pw, ph, row2, pw2, ph2) ==
  /\ row.version <= row2.version
  /\ row2.version = row.version =>
       /\ pw2 = pw /\ ph2 = ph
       /\ row2.exists => row.exists
       /\ Staff(row) /\ row2.exists => Staff(row2)

------------------------------------------------------------------------------
(* Old sessions, requests and screens. *)

\* Nothing that was good becomes bad when the row advances.
LEMMA StaysGood ==
  ASSUME NEW row \in AccountRow, NEW row2 \in AccountRow, NEW pw, NEW pw2, NEW ph, NEW ph2,
         Advances(row, pw, ph, row2, pw2, ph2)
  PROVE  /\ \A s \in Session \cup {NoSession} :
              GoodSession(s, row, pw) => GoodSession(s, row2, pw2)
         /\ \A q \in Request \cup {Idle} :
              GoodRequest(q, row, pw, ph) => GoodRequest(q, row2, pw2, ph2)
         /\ \A x \in Screen : GoodScreen(x, row, ph) => GoodScreen(x, row2, ph2)
  <1>1. row.version \in Nat /\ row2.version \in Nat
    BY DEF AccountRow
  <1>2. ASSUME NEW s \in Session \cup {NoSession}, GoodSession(s, row, pw)
        PROVE  GoodSession(s, row2, pw2)
    <2>1. s # NoSession => s.version \in Nat
      BY DEF Session
    <2> QED
      BY <1>1, <1>2, <2>1 DEF GoodSession, Advances
  <1>3. ASSUME NEW q \in Request \cup {Idle}, GoodRequest(q, row, pw, ph)
        PROVE  GoodRequest(q, row2, pw2, ph2)
    <2>1. q # Idle => q.version \in Nat
      BY DEF Request
    <2> QED
      BY <1>1, <1>3, <2>1 DEF GoodRequest, Advances
  <1>4. ASSUME NEW x \in Screen, GoodScreen(x, row, ph)
        PROVE  GoodScreen(x, row2, ph2)
    <2>1. x.version \in Nat
      BY DEF Screen
    <2> QED
      BY <1>1, <1>4, <2>1 DEF GoodScreen, Advances
  <1> QED
    BY <1>2, <1>3, <1>4

\* A step keeps the invariant if its new sessions, requests and screens are
\* good and the row advances.
LEMMA Assemble ==
  ASSUME Inv, TypeOK',
         Advances(account, password, phrase, account', password', phrase'),
         GoodRow(account', invitation', password', phrase'),
         \A d \in Devices : sessions'[d] = sessions[d] \/ GoodSession(sessions'[d], account', password'),
         \A r \in Requests : requests'[r] = requests[r]
                             \/ GoodRequest(requests'[r], account', password', phrase'),
         \A d \in Devices : shown'[d] = shown[d] \/ GoodScreen(shown'[d], account', phrase')
  PROVE  Inv'
  <1>1. account \in AccountRow /\ account' \in AccountRow
    BY DEF Inv, TypeOK
  <1>2. \A d \in Devices : GoodSession(sessions'[d], account', password')
    BY <1>1, StaysGood DEF Inv, TypeOK
  <1>3. \A r \in Requests : GoodRequest(requests'[r], account', password', phrase')
    BY <1>1, StaysGood DEF Inv, TypeOK
  <1>4. \A d \in Devices : GoodScreen(shown'[d], account', phrase')
    BY <1>1, StaysGood DEF Inv, TypeOK
  <1> QED
    BY <1>2, <1>3, <1>4 DEF Inv

------------------------------------------------------------------------------
(* Rows. *)

\* What each UPDATE makes of a row.
LEMMA RowsTyped ==
  ASSUME NEW row \in AccountRow
  PROVE  /\ Recovered(row) \in AccountRow /\ Rotated(row) \in AccountRow
         /\ SignedOut(row) \in AccountRow /\ PhraseSaved(row) \in AccountRow
         /\ Administered(row) \in AccountRow /\ FreshRow \in AccountRow
         /\ \A role \in Roles : RoleAssigned(row, role) \in AccountRow
  <1>1. row.version + 1 \in Nat /\ (row.role # "user") \in BOOLEAN
    BY DEF AccountRow
  <1>2. FreshRow \in AccountRow
    BY DEF FreshRow, AccountRow, Roles
  <1>3. Recovered(row) \in AccountRow
    BY <1>1, Zenon DEF Recovered, AccountRow
  <1>4. Rotated(row) \in AccountRow
    BY <1>1, Zenon DEF Rotated, AccountRow
  <1>5. SignedOut(row) \in AccountRow
    BY <1>1, Zenon DEF SignedOut, AccountRow
  <1>6. PhraseSaved(row) \in AccountRow
    BY DEF PhraseSaved, AccountRow
  <1>7. "administrator" \in Roles
    BY DEF Roles
  <1>8. Administered(row) \in AccountRow
    BY <1>1, <1>7, Zenon DEF Administered, AccountRow
  <1>9. \A role \in Roles : RoleAssigned(row, role) \in AccountRow
    BY <1>1, Zenon DEF RoleAssigned, AccountRow
  <1> QED
    BY <1>2, <1>3, <1>4, <1>5, <1>6, <1>8, <1>9

\* A record of some kind on its way through a request.
LEMMA RequestTyped ==
  ASSUME NEW pc \in {"loaded", "opening"}, NEW kind \in Kinds, NEW d \in Devices, NEW v \in Nat,
         NEW pw \in Nat, NEW by \in BOOLEAN, NEW ph \in Nat
  PROVE  [pc |-> pc, kind |-> kind, device |-> d, version |-> v, password |-> pw,
          byPassword |-> by, phrase |-> ph] \in Request
  BY DEF Request

\* Ends and outcomes of requests keep the table's type.
LEMMA SetTyped ==
  ASSUME TypeOK, NEW r \in Requests, NEW q \in Request \cup {Idle}, Set(r, q)
  PROVE  requests' \in [Requests -> Request \cup {Idle}]
  BY DEF TypeOK, Set

------------------------------------------------------------------------------
(* Actions. *)

\* What the middleware puts into a request is good: the session was accepted
\* just now, and a staff request was checked against the row.
LEMMA LoadKeeps ==
  ASSUME Inv, NEW r \in Requests, NEW d \in Devices,
         NEW kind \in {"reauthenticate", "rotate", "revoke", "save", "staff"}, Load(r, d, kind)
  PROVE  Inv'
  <1> DEFINE s == sessions[d]
             q == [pc |-> "loaded", kind |-> kind, device |-> d, version |-> s.version,
                   password |-> s.password, byPassword |-> s.byPassword,
                   phrase |-> shown[d].phrase]
  <1>1. /\ Set(r, q) /\ UNCHANGED <<account, secrets, invitation, sessions, shown, kept>>
        /\ s # NoSession /\ s.version = account.version
        /\ kind = "staff" => Staff(account)
    BY DEF Load, SignedIn
  <1>2. s \in Session /\ shown[d] \in Screen /\ account.version \in Nat
    BY <1>1 DEF Inv, TypeOK, AccountRow
  <1>3. q \in Request
    <2>1. kind \in Kinds
      BY DEF Kinds
    <2>2. s.version \in Nat /\ s.password \in Nat /\ s.byPassword \in BOOLEAN /\ shown[d].phrase \in Nat
      BY <1>2 DEF Session, Screen
    <2> QED
      BY <2>1, <2>2, RequestTyped
  <1>4. s.password = password /\ password # 0
    BY <1>1 DEF Inv, GoodSession
  <1>5. GoodRequest(q, account, password, phrase)
    BY <1>1, <1>2, <1>4 DEF GoodRequest
  <1> HIDE DEF q
  <1>6. \A p \in Requests : requests'[p] = IF p = r THEN q ELSE requests[p]
    BY <1>1 DEF Set, Inv, TypeOK
  <1>7. TypeOK'
    BY <1>1, <1>3, SetTyped DEF Inv, TypeOK, secrets
  <1> QED
    BY <1>1, <1>5, <1>6, <1>7 DEF Inv, secrets

\* Sign-in reads hash and version in one query.
LEMMA LoginReadKeeps ==
  ASSUME Inv, NEW r \in Requests, NEW d \in Devices, LoginRead(r, d)
  PROVE  Inv'
  <1> DEFINE q == [pc |-> "loaded", kind |-> "login", device |-> d, version |-> account.version,
                   password |-> password, byPassword |-> TRUE, phrase |-> 0]
  <1>1. /\ Set(r, q) /\ UNCHANGED <<account, secrets, invitation, sessions, shown, kept>>
        /\ password # 0
    BY DEF LoginRead
  <1>2. account.version \in Nat /\ password \in Nat
    BY DEF Inv, TypeOK, AccountRow
  <1>3. q \in Request
    BY <1>2, RequestTyped DEF Kinds
  <1>4. GoodRequest(q, account, password, phrase)
    BY <1>1, <1>2 DEF GoodRequest
  <1> HIDE DEF q
  <1>5. \A p \in Requests : requests'[p] = IF p = r THEN q ELSE requests[p]
    BY <1>1 DEF Set, Inv, TypeOK
  <1>6. TypeOK'
    BY <1>1, <1>3, SetTyped DEF Inv, TypeOK, secrets
  <1> QED
    BY <1>1, <1>4, <1>5, <1>6 DEF Inv, secrets

\* The slow verification changes only where the request stands.
LEMMA LoginVerifiedKeeps ==
  ASSUME Inv, NEW r \in Requests, LoginVerified(r)
  PROVE  Inv'
  <1> DEFINE old == requests[r]
             q == [old EXCEPT !.pc = "opening"]
  <1>1. /\ Set(r, q) /\ UNCHANGED <<account, secrets, invitation, sessions, shown, kept>>
        /\ old.pc = "loaded" /\ old.kind = "login"
    BY DEF LoginVerified
  <1>2. old \in Request /\ old # Idle
    BY <1>1 DEF Inv, TypeOK, Idle
  <1>3. GoodRequest(old, account, password, phrase)
    BY DEF Inv
  <1> HIDE DEF old
  <1>4. /\ q \in Request
        /\ q.version = old.version /\ q.password = old.password /\ q.kind = "login"
        /\ q.phrase = old.phrase
    BY <1>1, <1>2 DEF Request
  <1>5. GoodRequest(q, account, password, phrase)
    BY <1>1, <1>2, <1>3, <1>4 DEF GoodRequest
  <1> HIDE DEF q
  <1>6. \A p \in Requests : requests'[p] = IF p = r THEN q ELSE requests[p]
    BY <1>1 DEF Set, Inv, TypeOK
  <1>7. TypeOK'
    BY <1>1, <1>4, SetTyped DEF Inv, TypeOK, secrets
  <1> QED
    BY <1>1, <1>5, <1>6, <1>7 DEF Inv, secrets

\* The password typed again was checked against the row under its lock.
LEMMA ReauthenticateKeeps ==
  ASSUME Inv, NEW r \in Requests, Reauthenticate(r)
  PROVE  Inv'
  <1> DEFINE old == requests[r]
             q == [old EXCEPT !.pc = "opening", !.byPassword = TRUE, !.password = password,
                              !.phrase = 0]
  <1>1. /\ Set(r, q) /\ UNCHANGED <<account, secrets, invitation, sessions, shown, kept>>
        /\ old.pc = "loaded" /\ old.kind = "reauthenticate" /\ old.version = account.version
    BY DEF Reauthenticate, Loaded, Current
  <1>2. old \in Request /\ old # Idle /\ password \in Nat /\ account.version \in Nat
    BY <1>1 DEF Inv, TypeOK, Idle, AccountRow
  <1>8. password # 0
    BY <1>1, <1>2 DEF Inv, GoodRequest
  <1> HIDE DEF old
  <1>3. q \in Request
    BY <1>2, Zenon DEF Request
  <1>4. /\ q.version = account.version /\ q.password = password
        /\ q.kind = "reauthenticate" /\ q.phrase = 0
    BY <1>1, <1>2 DEF Request
  <1>5. GoodRequest(q, account, password, phrase)
    BY <1>2, <1>4, <1>8 DEF GoodRequest
  <1> HIDE DEF q
  <1>6. \A p \in Requests : requests'[p] = IF p = r THEN q ELSE requests[p]
    BY <1>1 DEF Set, Inv, TypeOK
  <1>7. TypeOK'
    BY <1>1, <1>3, SetTyped DEF Inv, TypeOK, secrets
  <1> QED
    BY <1>1, <1>5, <1>6, <1>7 DEF Inv, secrets

\* New secrets come with a new version, which overtakes everything but what is
\* on its way to the device that asked for them.
LEMMA IssueKeeps ==
  ASSUME Inv, NEW r \in Requests, NEW d \in Devices, NEW row \in AccountRow,
         Issue(r, d, row), invitation' = FALSE,
         row.version > account.version, row.suspended => row.role # "user"
  PROVE  Inv'
  <1> DEFINE q == [pc |-> "opening", kind |-> "issue", device |-> d, version |-> row.version,
                   password |-> password + 1, byPassword |-> FALSE, phrase |-> phrase + 1]
  <1>1. /\ Set(r, q) /\ SignOutAll /\ UNCHANGED <<shown, kept>>
        /\ account' = row /\ password' = password + 1 /\ phrase' = phrase + 1
    BY DEF Issue
  <1>2. /\ row.version \in Nat /\ account.version \in Nat
        /\ password + 1 \in Nat \ {0} /\ phrase + 1 \in Nat \ {0}
    BY DEF Inv, TypeOK, AccountRow
  <1>3. q \in Request
    BY <1>2, RequestTyped DEF Kinds
  <1>4. GoodRequest(q, account', password', phrase')
    BY <1>1, <1>2 DEF GoodRequest
  <1> HIDE DEF q
  <1>5. \A p \in Requests : requests'[p] = IF p = r THEN q ELSE requests[p]
    BY <1>1 DEF Set, Inv, TypeOK
  <1>6. \A e \in Devices : GoodSession(sessions'[e], account', password')
    BY <1>1 DEF SignOutAll, GoodSession
  <1>7. sessions' \in [Devices -> Session \cup {NoSession}]
    BY <1>1 DEF SignOutAll
  <1>8. TypeOK'
    BY <1>1, <1>2, <1>3, <1>7, SetTyped DEF Inv, TypeOK
  <1>9. Advances(account, password, phrase, account', password', phrase')
    BY <1>1, <1>2 DEF Advances
  <1>10. GoodRow(account', invitation', password', phrase')
    BY <1>1, <1>2 DEF GoodRow
  <1> QED
    BY <1>1, <1>4, <1>5, <1>6, <1>8, <1>9, <1>10, Assemble

\* A sign-up makes version 1 of a row that did not exist.
LEMMA SignUpKeeps ==
  ASSUME Inv, NEW r \in Requests, NEW d \in Devices, SignUp(r, d)
  PROVE  Inv'
  <1>1. Issue(r, d, FreshRow) /\ account.version = 0 /\ invitation' = invitation
    BY DEF SignUp
  <1>2. invitation = FALSE
    BY <1>1 DEF Inv, GoodRow, TypeOK
  <1>3. FreshRow \in AccountRow /\ FreshRow.version > 0 /\ ~FreshRow.suspended
    BY DEF FreshRow, AccountRow, Roles
  <1> QED
    BY <1>1, <1>2, <1>3, IssueKeeps

\* An activation moves the version of the invited row, which is not suspended.
LEMMA ActivateKeeps ==
  ASSUME Inv, NEW r \in Requests, NEW d \in Devices, Activate(r, d)
  PROVE  Inv'
  <1> DEFINE row == [Rotated(account) EXCEPT !.role = Offered]
  <1>1. Issue(r, d, row) /\ invitation /\ invitation' = FALSE
    BY DEF Activate
  <1>2. account \in AccountRow /\ account.version \in Nat /\ Offered \in Roles
    BY SecurityAssumption DEF Inv, TypeOK, AccountRow
  <1>3. Rotated(account) \in AccountRow
    BY <1>2, RowsTyped
  <1>4. row \in AccountRow
    BY <1>2, <1>3, Zenon DEF AccountRow
  <1>5. row.version > account.version /\ row.suspended = account.suspended
    BY <1>2 DEF Rotated, AccountRow
  <1>6. ~account.suspended
    BY <1>1 DEF Inv, GoodRow
  <1> HIDE DEF row
  <1> QED
    BY <1>1, <1>2, <1>4, <1>5, <1>6, IssueKeeps

\* A recovery moves the version and suspends staff, never a plain user.
LEMMA RecoverKeeps ==
  ASSUME Inv, NEW r \in Requests, NEW d \in Devices, Recover(r, d)
  PROVE  Inv'
  <1>1. Issue(r, d, Recovered(account)) /\ phrase # 0 /\ invitation' = invitation
    BY DEF Recover
  <1>2. invitation = FALSE
    BY <1>1 DEF Inv, GoodRow, TypeOK
  <1>3. account \in AccountRow /\ account.version \in Nat /\ Recovered(account) \in AccountRow
    BY RowsTyped DEF Inv, TypeOK, AccountRow
  <1>4. /\ Recovered(account).version > account.version
        /\ Recovered(account).suspended => Recovered(account).role # "user"
    <2>1. Recovered(account).version = account.version + 1
      BY <1>3 DEF Recovered, AccountRow
    <2>2. Recovered(account).suspended => Recovered(account).role # "user"
      BY <1>3, Zenon DEF Recovered, AccountRow
    <2> QED
      BY <1>3, <2>1, <2>2
  <1> QED
    BY <1>1, <1>2, <1>3, <1>4, IssueKeeps

\* A rotation was asked for in a current session, so the account is no longer merely invited.
LEMMA RotateKeeps ==
  ASSUME Inv, NEW r \in Requests, Rotate(r)
  PROVE  Inv'
  <1> DEFINE q == requests[r]
  <1>1. /\ q.pc = "loaded" /\ Issue(r, q.device, Rotated(account)) /\ invitation' = invitation
        /\ account.exists /\ account.version = q.version
    BY DEF Rotate, Loaded, Current
  <1>2. q \in Request /\ q # Idle
    BY <1>1 DEF Inv, TypeOK, Idle
  <1>3. password # 0
    BY <1>1, <1>2 DEF Inv, GoodRequest
  <1>4. invitation = FALSE
    BY <1>3 DEF Inv, GoodRow, TypeOK
  <1>5. account \in AccountRow /\ account.version \in Nat /\ Rotated(account) \in AccountRow
    BY RowsTyped DEF Inv, TypeOK, AccountRow
  <1>6. /\ Rotated(account).version > account.version
        /\ Rotated(account).suspended = account.suspended
        /\ Rotated(account).role = account.role
        /\ account.suspended => account.role # "user"
    BY <1>5 DEF Rotated, AccountRow, Inv, GoodRow
  <1>7. q.device \in Devices
    BY <1>2 DEF Request
  <1> QED
    BY <1>1, <1>4, <1>5, <1>6, <1>7, IssueKeeps

------------------------------------------------------------------------------
(* Changes of the row by administrators, sign-out and confirmation. *)

\* A new version signs everybody out and overtakes what is in flight.
LEMMA NewVersionKeeps ==
  ASSUME Inv, NEW row \in AccountRow, account' = row, row.version > account.version,
         row.suspended => account.suspended /\ row.role # "user",
         SignOutAll, UNCHANGED <<secrets, invitation, shown, kept>>,
         requests' \in [Requests -> Request \cup {Idle}],
         \A r \in Requests : requests'[r] = requests[r] \/ requests'[r] = Idle
  PROVE  Inv'
  <1>1. row.version \in Nat /\ account.version \in Nat
    BY DEF Inv, TypeOK, AccountRow
  <1>2. \A d \in Devices : GoodSession(sessions'[d], account', password')
    BY DEF SignOutAll, GoodSession
  <1>3. sessions' \in [Devices -> Session \cup {NoSession}]
    BY DEF SignOutAll
  <1>4. TypeOK'
    BY <1>3 DEF Inv, TypeOK, secrets
  <1>5. Advances(account, password, phrase, account', password', phrase')
    BY <1>1 DEF Advances
  <1>6. GoodRow(account', invitation', password', phrase')
    <2>1. /\ account.suspended => phrase # 0
          /\ invitation => password = 0 /\ phrase = 0
          /\ password' = password /\ phrase' = phrase /\ invitation' = invitation
      BY DEF Inv, GoodRow, secrets
    <2> QED
      BY <1>1, <2>1 DEF GoodRow
  <1>7. \A r \in Requests : requests'[r] = requests[r]
                            \/ GoodRequest(requests'[r], account', password', phrase')
    BY DEF GoodRequest
  <1> QED
    BY <1>2, <1>4, <1>5, <1>6, <1>7, Assemble

\* An administrator's role, grant, or change of the names.
LEMMA AdministerKeeps ==
  ASSUME Inv, NEW row \in AccountRow, Administer(row), row.version > account.version,
         row.suspended => account.suspended /\ row.role # "user"
  PROVE  Inv'
  <1>1. /\ account' = row /\ SignOutAll
        /\ UNCHANGED <<secrets, invitation, shown, kept>> /\ requests' = requests
    BY DEF Administer
  <1>2. requests' \in [Requests -> Request \cup {Idle}]
    BY <1>1 DEF Inv, TypeOK
  <1> QED
    BY <1>1, <1>2, NewVersionKeeps

\* A role given by an administrator comes with a new version and no suspension.
LEMMA AssignRoleKeeps ==
  ASSUME Inv, NEW role \in Roles, AssignRole(role)
  PROVE  Inv'
  <1> DEFINE row == RoleAssigned(account, role)
  <1>1. account \in AccountRow /\ account.version \in Nat /\ row \in AccountRow
    BY RowsTyped DEF Inv, TypeOK, AccountRow
  <1>2. row.version > account.version /\ ~row.suspended
    BY <1>1 DEF RoleAssigned, AccountRow
  <1>3. Administer(row)
    BY DEF AssignRole
  <1> HIDE DEF row
  <1> QED
    BY <1>1, <1>2, <1>3, AdministerKeeps

\* So does the host's grant of administrator.
LEMMA GrantKeeps ==
  ASSUME Inv, GrantAdministrator
  PROVE  Inv'
  <1> DEFINE row == Administered(account)
  <1>1. account \in AccountRow /\ account.version \in Nat /\ row \in AccountRow
    BY RowsTyped DEF Inv, TypeOK, AccountRow
  <1>2. row.version > account.version /\ ~row.suspended
    BY <1>1 DEF Administered, AccountRow
  <1>3. Administer(row)
    BY DEF GrantAdministrator
  <1> HIDE DEF row
  <1> QED
    BY <1>1, <1>2, <1>3, AdministerKeeps

\* A change of the private names moves the version and nothing else.
LEMMA RenameKeeps ==
  ASSUME Inv, Rename
  PROVE  Inv'
  <1> DEFINE row == SignedOut(account)
  <1>1. account \in AccountRow /\ account.version \in Nat /\ row \in AccountRow
    BY RowsTyped DEF Inv, TypeOK, AccountRow
  <1>2. /\ row.version > account.version
        /\ row.suspended = account.suspended /\ row.role = account.role
    BY <1>1 DEF SignedOut, AccountRow
  <1>3. Administer(row)
    BY DEF Rename
  <1>4. account.suspended => account.role # "user"
    BY DEF Inv, GoodRow
  <1> HIDE DEF row
  <1> QED
    BY <1>1, <1>2, <1>3, <1>4, AdministerKeeps

\* Sign-out everywhere also ends the request.
LEMMA RevokeKeeps ==
  ASSUME Inv, NEW r \in Requests, Revoke(r)
  PROVE  Inv'
  <1> DEFINE row == SignedOut(account)
  <1>1. account \in AccountRow /\ account.version \in Nat /\ row \in AccountRow
    BY RowsTyped DEF Inv, TypeOK, AccountRow
  <1>2. /\ row.version > account.version
        /\ row.suspended = account.suspended /\ row.role = account.role
    BY <1>1 DEF SignedOut, AccountRow
  <1>3. /\ account' = row /\ SignOutAll /\ Set(r, Idle)
        /\ UNCHANGED <<secrets, invitation, shown, kept>>
    BY DEF Revoke, End
  <1>4. account.suspended => account.role # "user"
    BY DEF Inv, GoodRow
  <1>5. /\ requests' \in [Requests -> Request \cup {Idle}]
        /\ \A p \in Requests : requests'[p] = requests[p] \/ requests'[p] = Idle
    BY <1>3 DEF Inv, TypeOK, Set
  <1> HIDE DEF row
  <1> QED
    BY <1>1, <1>2, <1>3, <1>4, <1>5, NewVersionKeeps

\* A deleted row keeps its version, but nobody is signed in to it any more.
LEMMA DeleteKeeps ==
  ASSUME Inv, DeleteAccount
  PROVE  Inv'
  <1> DEFINE row == [account EXCEPT !.exists = FALSE]
  <1>1. /\ account' = row /\ SignOutAll /\ invitation' = FALSE
        /\ UNCHANGED <<secrets, shown, kept, requests>>
    BY DEF DeleteAccount
  <1>2. account \in AccountRow
    BY DEF Inv, TypeOK
  <1>3. /\ row \in AccountRow /\ row.version = account.version /\ ~row.exists
        /\ row.suspended = account.suspended /\ row.role = account.role
    BY <1>2 DEF AccountRow
  <1>4. row.version \in Nat
    BY <1>3 DEF AccountRow
  <1> HIDE DEF row
  <1>5. \A d \in Devices : GoodSession(sessions'[d], account', password')
    BY <1>1 DEF SignOutAll, GoodSession
  <1>6. sessions' \in [Devices -> Session \cup {NoSession}]
    BY <1>1 DEF SignOutAll
  <1>7. TypeOK'
    BY <1>1, <1>3, <1>6 DEF Inv, TypeOK, secrets
  <1>8. Advances(account, password, phrase, account', password', phrase')
    BY <1>1, <1>3, <1>4 DEF Advances, secrets
  <1>9. GoodRow(account', invitation', password', phrase')
    BY <1>1, <1>3 DEF GoodRow, Inv, secrets
  <1> QED
    BY <1>1, <1>5, <1>7, <1>8, <1>9, Assemble

\* The confirmation of a phrase changes no version and takes nothing away.
LEMMA SaveKeeps ==
  ASSUME Inv, NEW r \in Requests, Save(r)
  PROVE  Inv'
  <1> DEFINE row == IF account.exists THEN PhraseSaved(account) ELSE account
  <1>1. /\ account' = row /\ Set(r, Idle) /\ kept' = kept \cup {requests[r].phrase}
        /\ UNCHANGED <<secrets, invitation, sessions, shown>>
        /\ requests[r].pc = "loaded"
    BY DEF Save, End, Loaded
  <1>2. account \in AccountRow /\ account.version \in Nat /\ PhraseSaved(account) \in AccountRow
    BY RowsTyped DEF Inv, TypeOK, AccountRow
  <1>3. /\ row \in AccountRow /\ row.version = account.version /\ row.exists = account.exists
        /\ row.suspended = account.suspended /\ row.role = account.role
        /\ account.saved => row.saved
    BY <1>2 DEF PhraseSaved, AccountRow
  <1> HIDE DEF row
  <1>4. requests[r].phrase \in Nat
    BY <1>1 DEF Inv, TypeOK, Idle, Request
  <1>5. /\ requests' \in [Requests -> Request \cup {Idle}]
        /\ \A p \in Requests : requests'[p] = requests[p] \/ requests'[p] = Idle
    BY <1>1 DEF Inv, TypeOK, Set
  <1>6. TypeOK'
    BY <1>1, <1>3, <1>4, <1>5 DEF Inv, TypeOK, secrets
  <1>7. Advances(account, password, phrase, account', password', phrase')
    BY <1>1, <1>2, <1>3 DEF Advances, Staff, secrets
  <1>8. GoodRow(account', invitation', password', phrase')
    BY <1>1, <1>3 DEF GoodRow, Inv, secrets
  <1>9. \A p \in Requests : requests'[p] = requests[p]
                            \/ GoodRequest(requests'[p], account', password', phrase')
    BY <1>5 DEF GoodRequest
  <1> QED
    BY <1>1, <1>6, <1>7, <1>8, <1>9, Assemble

------------------------------------------------------------------------------
(* Delivery, time and the end of requests. *)

\* What was good in flight is good on the device.
LEMMA BeginSessionKeeps ==
  ASSUME Inv, NEW r \in Requests, BeginSession(r)
  PROVE  Inv'
  <1> DEFINE q == requests[r]
             s == [version |-> q.version, password |-> q.password,
                   byPassword |-> q.byPassword, age |-> 0]
             x == [phrase |-> q.phrase, version |-> q.version]
  <1>1. /\ q.pc = "opening" /\ sessions' = [sessions EXCEPT ![q.device] = s]
        /\ shown' = IF q.phrase = 0 THEN shown ELSE [shown EXCEPT ![q.device] = x]
        /\ Set(r, Idle) /\ UNCHANGED <<account, secrets, invitation, kept>>
    BY DEF BeginSession, End
  <1>2. q \in Request /\ q # Idle
    BY <1>1 DEF Inv, TypeOK, Idle
  <1>3. /\ q.device \in Devices /\ q.version \in Nat /\ q.password \in Nat /\ q.phrase \in Nat
        /\ q.byPassword \in BOOLEAN
    BY <1>2 DEF Request
  <1>4. s \in Session /\ s # NoSession
    BY <1>3 DEF Session, NoSession
  <1>5. x \in Screen
    BY <1>3 DEF Screen
  <1>6. GoodRequest(q, account, password, phrase)
    BY DEF Inv
  <1>7. GoodSession(s, account, password)
    BY <1>2, <1>6 DEF GoodSession, GoodRequest
  <1>8. q.phrase # 0 => GoodScreen(x, account, phrase)
    BY <1>1, <1>2, <1>6 DEF GoodScreen, GoodRequest
  <1> HIDE DEF s, x, q
  <1>9. \A d \in Devices : sessions'[d] = sessions[d] \/ GoodSession(sessions'[d], account', password')
    BY <1>1, <1>3, <1>7 DEF Inv, TypeOK, secrets
  <1>10. \A d \in Devices : shown'[d] = shown[d] \/ GoodScreen(shown'[d], account', phrase')
    BY <1>1, <1>3, <1>8 DEF Inv, TypeOK, secrets
  <1>11. sessions' \in [Devices -> Session \cup {NoSession}] /\ shown' \in [Devices -> Screen]
    BY <1>1, <1>3, <1>4, <1>5 DEF Inv, TypeOK
  <1>12. /\ requests' \in [Requests -> Request \cup {Idle}]
         /\ \A p \in Requests : requests'[p] = requests[p] \/ requests'[p] = Idle
    BY <1>1 DEF Inv, TypeOK, Set
  <1>13. TypeOK'
    BY <1>1, <1>11, <1>12 DEF Inv, TypeOK, secrets
  <1>14. /\ Advances(account, password, phrase, account', password', phrase')
         /\ GoodRow(account', invitation', password', phrase')
    BY <1>1 DEF Advances, Inv, TypeOK, AccountRow, secrets
  <1>15. \A p \in Requests : requests'[p] = requests[p]
                             \/ GoodRequest(requests'[p], account', password', phrase')
    BY <1>12 DEF GoodRequest
  <1> QED
    BY <1>9, <1>10, <1>13, <1>14, <1>15, Assemble

\* A session that ends or grows older.
LEMMA DeviceKeeps ==
  ASSUME Inv, NEW d \in Devices, DeviceStep(d)
  PROVE  Inv'
  <1>1. UNCHANGED <<account, secrets, invitation, shown, kept, requests>>
    BY DEF DeviceStep, Refuse, Logout, Age
  <1>2. /\ sessions' \in [Devices -> Session \cup {NoSession}]
        /\ \A e \in Devices : GoodSession(sessions'[e], account, password)
    <2>1. CASE sessions' = [sessions EXCEPT ![d] = NoSession]
      BY <2>1 DEF Inv, TypeOK, GoodSession
    <2>2. CASE Age(d)
      <3> DEFINE s == [sessions[d] EXCEPT !.age = @ + 1]
      <3>1. sessions' = [sessions EXCEPT ![d] = s] /\ sessions[d] # NoSession /\ sessions[d].age < 2
        BY <2>2 DEF Age
      <3>2. sessions[d] \in Session /\ GoodSession(sessions[d], account, password)
        BY <3>1 DEF Inv, TypeOK
      <3>3. sessions[d].age + 1 \in 0..2
        BY <3>1, <3>2 DEF Session
      <3>4. s \in Session /\ s.version = sessions[d].version /\ s.password = sessions[d].password
        BY <3>2, <3>3 DEF Session
      <3> HIDE DEF s
      <3>5. GoodSession(s, account, password)
        BY <3>1, <3>2, <3>4 DEF GoodSession
      <3> QED
        BY <3>1, <3>4, <3>5 DEF Inv, TypeOK
    <2> QED
      BY <2>1, <2>2 DEF DeviceStep, Refuse, Logout
  <1>3. TypeOK'
    BY <1>1, <1>2 DEF Inv, TypeOK, secrets
  <1> QED
    BY <1>1, <1>2, <1>3 DEF Inv, secrets

\* A request that ends without a trace in these tables.
LEMMA EndKeeps ==
  ASSUME Inv, NEW r \in Requests, StaffAction(r) \/ Fail(r)
  PROVE  Inv'
  <1>1. Set(r, Idle) /\ UNCHANGED <<account, secrets, invitation, sessions, shown, kept>>
    BY DEF StaffAction, Fail, End
  <1>2. /\ requests' \in [Requests -> Request \cup {Idle}]
        /\ \A p \in Requests : requests'[p] = requests[p] \/ requests'[p] = Idle
    BY <1>1 DEF Inv, TypeOK, Set
  <1>3. TypeOK'
    BY <1>1, <1>2 DEF Inv, TypeOK, secrets
  <1>4. \A p \in Requests : GoodRequest(requests'[p], account, password, phrase)
    BY <1>2 DEF Inv, GoodRequest
  <1> QED
    BY <1>1, <1>3, <1>4 DEF Inv, secrets

------------------------------------------------------------------------------
(* The specification. *)

\* At the start there are no sessions, requests or secrets.
LEMMA InitGood == Init => Inv
  <1> SUFFICES ASSUME Init PROVE Inv
    OBVIOUS
  <1>1. FreshRow \in AccountRow /\ [FreshRow EXCEPT !.exists = FALSE, !.version = 0] \in AccountRow
    BY DEF FreshRow, AccountRow, Roles
  <1>2. account \in AccountRow /\ ~account.suspended /\ (invitation => account.version = 1)
    BY <1>1 DEF Init, FreshRow
  <1>3. TypeOK
    BY <1>2, SecurityAssumption DEF Init, TypeOK, Screen
  <1> QED
    BY <1>2, <1>3, SecurityAssumption DEF Init, Inv, GoodSession, GoodRequest, GoodScreen, GoodRow

\* Every step of the program keeps the invariant.
LEMMA StepGood == Inv /\ [Next]_vars => Inv'
  <1> SUFFICES ASSUME Inv, [Next]_vars PROVE Inv'
    OBVIOUS
  <1>1. CASE UNCHANGED vars
    BY <1>1 DEF vars, secrets, Inv, TypeOK
  <1>2. CASE AdminStep
    BY <1>2, AssignRoleKeeps, GrantKeeps, RenameKeeps, DeleteKeeps DEF AdminStep
  <1>3. ASSUME NEW d \in Devices, DeviceStep(d)
        PROVE  Inv'
    BY <1>3, DeviceKeeps
  <1>4. ASSUME NEW r \in Requests, StartStep(r)
        PROVE  Inv'
    BY <1>4, LoadKeeps, LoginReadKeeps, SignUpKeeps, ActivateKeeps, RecoverKeeps
       DEF StartStep, SignIn, Security
  <1>5. ASSUME NEW r \in Requests, FinishStep(r)
        PROVE  Inv'
    BY <1>5, LoginVerifiedKeeps, ReauthenticateKeeps, RotateKeeps, RevokeKeeps, SaveKeeps,
       BeginSessionKeeps, EndKeeps DEF FinishStep
  <1> QED
    BY <1>1, <1>2, <1>3, <1>4, <1>5 DEF Next

\* Sessions, requests and screens are overtaken or current, in every reachable state.
THEOREM CredentialsStayGood == Spec => []Inv
  BY InitGood, StepGood, PTL DEF Spec

\* The tables and the requests in flight keep their types.
THEOREM SecurityTypes == Spec => []TypeOK
  <1>1. Inv => TypeOK
    BY DEF Inv
  <1> QED
    BY <1>1, CredentialsStayGood, PTL

\* A usable session was earned with the password in force.
THEOREM SessionsAreEarned == Spec => []SessionsProvePassword
  <1>1. Inv => SessionsProvePassword
    BY DEF Inv, TypeOK, GoodSession, GoodRequest, SessionsProvePassword, SignedIn, Current, Idle
  <1> QED
    BY <1>1, CredentialsStayGood, PTL

\* A phrase on a screen that nothing has overtaken works.
THEOREM PhrasesWork == Spec => []ShownPhraseWorks
  <1>1. Inv => ShownPhraseWorks
    BY DEF Inv, GoodScreen, ShownPhraseWorks
  <1> QED
    BY <1>1, CredentialsStayGood, PTL


\* A staff request that gets past requireCurrentSession has the authority the
\* middleware found, and its session is one of the password in force.
THEOREM StaffHaveAuthority == Spec => StaffActsCurrent
  <1> DEFINE Acts == \A r \in Requests :
               StaffAction(r) => /\ account.exists /\ Staff(account)
                                 /\ requests[r].password = password
  <1>1. Inv => Acts
    <2> SUFFICES ASSUME Inv, NEW r \in Requests, StaffAction(r)
                 PROVE  account.exists /\ Staff(account) /\ requests[r].password = password
      OBVIOUS
    <2>1. /\ requests[r].pc = "loaded" /\ requests[r].kind = "staff"
          /\ account.exists /\ account.version = requests[r].version
      BY DEF StaffAction, Loaded, Current
    <2>2. requests[r] # Idle
      BY <2>1 DEF Idle
    <2> QED
      BY <2>1, <2>2 DEF Inv, GoodRequest
  <1>2. Inv /\ [Next]_vars => [Acts]_vars
    BY <1>1
  <1> QED
    BY <1>2, InitGood, StepGood, PTL DEF Spec, StaffActsCurrent

\* Only administrators end a suspension, and give a role back only to an
\* account whose phrase is saved.
THEOREM SuspensionsLast == Spec => SuspensionLasts
  <1> DEFINE Lasts == account.suspended /\ account'.exists /\ ~account'.suspended =>
                        AdminStep /\ (account'.role # "user" => account.saved)
  <1>1. Inv /\ [Next]_vars => [Lasts]_vars
    <2> SUFFICES ASSUME Inv, Next, account.suspended, account'.exists, ~account'.suspended
                 PROVE  AdminStep /\ (account'.role # "user" => account.saved)
      OBVIOUS
    <2>1. /\ account \in AccountRow /\ account.role # "user" /\ phrase # 0
          /\ account.version # 0 /\ invitation = FALSE
      BY DEF Inv, TypeOK, GoodRow
    <2>2. ASSUME NEW role \in Roles, AssignRole(role)
          PROVE  account'.role # "user" => account.saved
      <3>1. account'.role = role /\ role \in {"user", "editor"} /\ (role = "editor" => account.saved)
        BY <2>1, <2>2 DEF AssignRole, MayAssign, Administer, RoleAssigned, AccountRow
      <3> QED
        BY <3>1
    <2>3. CASE GrantAdministrator
      BY <2>3 DEF AdminStep, GrantAdministrator, MayAdminister
    <2>4. CASE Rename
      BY <2>1, <2>4 DEF Rename, Administer, SignedOut, AccountRow
    <2>5. CASE DeleteAccount
      BY <2>1, <2>5 DEF DeleteAccount, AccountRow
    <2>6. ASSUME NEW d \in Devices, DeviceStep(d)
          PROVE  FALSE
      <3>1. UNCHANGED <<account, secrets, invitation, shown, kept, requests>>
        BY <2>6 DEF DeviceStep, Refuse, Logout, Age
      <3> QED
        BY <3>1
    <2>7. ASSUME NEW r \in Requests, NEW d \in Devices, Recover(r, d)
          PROVE  FALSE
      <3>1. account' = Recovered(account)
        BY <2>7 DEF Recover, Issue
      <3>2. Recovered(account).suspended = (account.role # "user")
        BY <2>1, Zenon DEF Recovered, AccountRow
      <3> QED
        BY <2>1, <3>1, <3>2
    <2>8. ASSUME NEW r \in Requests, StartStep(r)
          PROVE  FALSE
      BY <2>1, <2>7, <2>8 DEF StartStep, SignIn, Security, Load, LoginRead, SignUp, Activate
    <2>9. ASSUME NEW r \in Requests, Rotate(r) \/ Revoke(r) \/ Save(r)
          PROVE  FALSE
      BY <2>1, <2>9 DEF Rotate, Issue, Rotated, Revoke, SignedOut, Save, PhraseSaved, AccountRow
    <2>10. ASSUME NEW r \in Requests, FinishStep(r)
           PROVE  FALSE
      BY <2>9, <2>10 DEF FinishStep, LoginVerified, Reauthenticate, StaffAction, BeginSession, Fail
    <2> QED
      BY <2>2, <2>3, <2>4, <2>5, <2>6, <2>8, <2>10 DEF Next, AdminStep
  <1> QED
    BY <1>1, InitGood, StepGood, PTL DEF Spec, SuspensionLasts
================================================================================
