--------------------------- MODULE AccountSecurity ---------------------------
(***************************************************************************)
(* The credentials and the sessions of one account: sign-up or invitation, *)
(* sign-in, repeated verification, replacement and recovery of the         *)
(* password and the recovery phrase, sign-out everywhere, confirmation of  *)
(* the phrase, and what administrators do to the row                       *)
(* (server/security.ts, server/routes/auth.ts, server/routes/accounts.ts). *)
(*                                                                         *)
(* A request is up to three steps: the middleware (or the sign-in query)   *)
(* reads the row; the handler's transaction commits, atomically because it *)
(* locks the row; beginSession then stores a new session and the reply     *)
(* reaches the device.  Other requests, administrators, time and failures  *)
(* come between.  Password and phrase are generations: two hashes match    *)
(* when their generations are equal.                                       *)
(***************************************************************************)
EXTENDS AccountRows

CONSTANTS
  Devices,         \* browsers, each with one session cookie
  Requests,        \* requests in flight at one time
  StaffAuthMode,   \* staffAuthMode(): "session" or "password_recent"
  EmailRecovery,   \* a verified recovery address is on file
  Offered,         \* the role of the host's invitation
  MaxSession,      \* bound: session_version
  MaxSecret        \* bound: generations of the password and of the phrase

ASSUME SecurityAssumption ==
  /\ StaffAuthMode \in {"session", "password_recent"}
  /\ EmailRecovery \in BOOLEAN
  /\ Offered \in Roles
  /\ MaxSession \in Nat /\ MaxSecret \in Nat

VARIABLES
  account,    \* the row of accounts
  password,   \* generation of password_hash, 0 while nobody knows it
  phrase,     \* generation of recovery_hash, likewise
  invitation, \* the row of account_setup is there
  sessions,   \* the row of sessions for each device's cookie
  shown,      \* the phrase on each device's screen and the version it came with
  kept,       \* phrases somebody confirmed from a screen that showed them
  requests    \* requests in flight

vars == <<account, password, phrase, invitation, sessions, shown, kept, requests>>
secrets == <<password, phrase>>

------------------------------------------------------------------------------
(* A definition with a suffix, as in Current_Always, is a wrong variant of the *)
(* definition below it; no specification uses it.                              *)

\* age 0: verified within 5 minutes, 1: within 15, 2: longer ago.  password is
\* the generation current when the session was earned, and byPassword says
\* that passwordAuthenticatedAt is set.
Session == [version : Nat, password : Nat, byPassword : BOOLEAN, age : 0..2]
NoSession == [age |-> 3]

Screen == [phrase : Nat, version : Nat]

Kinds == {"login", "reauthenticate", "rotate", "revoke", "save", "staff", "issue"}

\* "issue" stands for sign-up, activation and recovery, whose only state
\* between steps is the session and the phrase they are about to deliver.
Request == [pc : {"loaded", "opening"}, kind : Kinds, device : Devices, version : Nat,
            password : Nat, byPassword : BOOLEAN, phrase : Nat]
Idle == [pc |-> "idle"]

Known(d) == shown[d].phrase = phrase \/ phrase \in kept

\* loadAccount accepts the session of this device.
SignedIn(d) ==
  /\ sessions[d] # NoSession
  /\ account.exists
  /\ sessions[d].version = account.version

StaffVerified(s) ==
  StaffAuthMode = "password_recent" => s.byPassword /\ s.age <= 1

AssertRecent(s) ==
  /\ s.age = 0
  /\ account.role # "user" => s.byPassword

Current_Always(r) == account.exists
\* requireCurrentSession, under the row lock.
Current(r) == account.exists /\ account.version = requests[r].version

Set(r, req) == requests' = [requests EXCEPT ![r] = req]
End(r) == Set(r, Idle)
SignOutAll == sessions' = [d \in Devices |-> NoSession]

------------------------------------------------------------------------------
(* First step: what the middleware or the sign-in query reads. *)

Load(r, d, kind) ==
  /\ requests[r] = Idle
  /\ SignedIn(d)
  /\ kind \in {"rotate", "revoke"} => AssertRecent(sessions[d])
  /\ kind = "staff" => Staff(account) /\ StaffVerified(sessions[d])
  /\ kind = "save" => shown[d].phrase # 0
  /\ Set(r, [pc |-> "loaded", kind |-> kind, device |-> d, version |-> sessions[d].version,
             password |-> sessions[d].password, byPassword |-> sessions[d].byPassword,
             phrase |-> shown[d].phrase])
  /\ UNCHANGED <<account, secrets, invitation, sessions, shown, kept>>

\* A session that loadAccount refuses is regenerated as an anonymous one.
Refuse(d) ==
  /\ sessions[d] # NoSession /\ ~SignedIn(d)
  /\ sessions' = [sessions EXCEPT ![d] = NoSession]
  /\ UNCHANGED <<account, secrets, invitation, shown, kept, requests>>

\* Sign-in reads the hash and the version in one unlocked query; the typed
\* password matches the hash it read (a wrong one ends in 401).
LoginRead(r, d) ==
  /\ requests[r] = Idle
  /\ account.exists /\ password # 0
  /\ Set(r, [pc |-> "loaded", kind |-> "login", device |-> d, version |-> account.version,
             password |-> password, byPassword |-> TRUE, phrase |-> 0])
  /\ UNCHANGED <<account, secrets, invitation, sessions, shown, kept>>

------------------------------------------------------------------------------
(* Second step: the transaction. *)

\* The slow verify() ran on what the query read.
LoginVerified_RereadsVersion(r) ==
  /\ requests[r].pc = "loaded" /\ requests[r].kind = "login"
  /\ Set(r, [requests[r] EXCEPT !.pc = "opening", !.version = account.version])
  /\ UNCHANGED <<account, secrets, invitation, sessions, shown, kept>>
LoginVerified(r) ==
  /\ requests[r].pc = "loaded" /\ requests[r].kind = "login"
  /\ Set(r, [requests[r] EXCEPT !.pc = "opening"])
  /\ UNCHANGED <<account, secrets, invitation, sessions, shown, kept>>

Loaded(r, kind) == requests[r].pc = "loaded" /\ requests[r].kind = kind

\* The typed password is checked under the row lock.
Reauthenticate(r) ==
  /\ Loaded(r, "reauthenticate") /\ Current(r)
  /\ Set(r, [requests[r] EXCEPT !.pc = "opening", !.byPassword = TRUE, !.password = password,
                                !.phrase = 0])
  /\ UNCHANGED <<account, secrets, invitation, sessions, shown, kept>>

\* New password, new phrase, and what is about to be delivered with them.
Issue(r, d, row) ==
  /\ row.version <= MaxSession
  /\ password < MaxSecret /\ phrase < MaxSecret
  /\ account' = row
  /\ password' = password + 1 /\ phrase' = phrase + 1
  /\ SignOutAll
  /\ Set(r, [pc |-> "opening", kind |-> "issue", device |-> d, version |-> row.version,
             password |-> password + 1, byPassword |-> FALSE, phrase |-> phrase + 1])
  /\ UNCHANGED <<shown, kept>>

SignUp(r, d) ==
  /\ requests[r] = Idle
  /\ account.version = 0
  /\ Issue(r, d, FreshRow)
  /\ UNCHANGED invitation

\* The one-use code of a host invitation; the row gets its role.
Activate(r, d) ==
  /\ requests[r] = Idle
  /\ invitation /\ account.exists
  /\ Issue(r, d, [Rotated(account) EXCEPT !.role = Offered])
  /\ invitation' = FALSE

\* By the phrase of a screen or of a note, or by an e-mailed code.
Recover(r, d) ==
  /\ requests[r] = Idle
  /\ account.exists /\ phrase # 0
  /\ (\E e \in Devices : Known(e)) \/ EmailRecovery
  /\ Issue(r, d, Recovered(account))
  /\ UNCHANGED invitation

Rotate(r) ==
  /\ Loaded(r, "rotate") /\ Current(r)
  /\ Issue(r, requests[r].device, Rotated(account))
  /\ UNCHANGED invitation

\* Sign out everywhere, then the session itself.
Revoke(r) ==
  /\ Loaded(r, "revoke") /\ Current(r)
  /\ account.version < MaxSession
  /\ account' = SignedOut(account)
  /\ SignOutAll
  /\ End(r)
  /\ UNCHANGED <<secrets, invitation, shown, kept>>

\* One UPDATE outside any transaction and with no look at the version.
Save(r) ==
  /\ Loaded(r, "save")
  /\ account' = IF account.exists THEN PhraseSaved(account) ELSE account
  /\ kept' = kept \cup {requests[r].phrase}
  /\ End(r)
  /\ UNCHANGED <<secrets, invitation, sessions, shown>>

\* Any administration handler that starts with requireCurrentSession; what
\* it does to other accounts is not this account's state.
StaffAction(r) ==
  /\ Loaded(r, "staff") /\ Current(r)
  /\ End(r)
  /\ UNCHANGED <<account, secrets, invitation, sessions, shown, kept>>

\* requireCurrentSession throws 401, or the connection or the server fails,
\* before or after the commit: the reply is never seen.
Fail(r) ==
  /\ requests[r] # Idle
  /\ End(r)
  /\ UNCHANGED <<account, secrets, invitation, sessions, shown, kept>>

------------------------------------------------------------------------------
(* Third step: beginSession and the reply. *)

BeginSession(r) ==
  LET q == requests[r] IN
  /\ q.pc = "opening"
  /\ sessions' = [sessions EXCEPT ![q.device] =
       [version |-> q.version, password |-> q.password, byPassword |-> q.byPassword, age |-> 0]]
  /\ shown' = IF q.phrase = 0 THEN shown
              ELSE [shown EXCEPT ![q.device] = [phrase |-> q.phrase, version |-> q.version]]
  /\ End(r)
  /\ UNCHANGED <<account, secrets, invitation, kept>>

Logout(d) ==
  /\ sessions[d] # NoSession
  /\ sessions' = [sessions EXCEPT ![d] = NoSession]
  /\ UNCHANGED <<account, secrets, invitation, shown, kept, requests>>

\* Minutes pass.
Age(d) ==
  /\ sessions[d] # NoSession /\ sessions[d].age < 2
  /\ sessions' = [sessions EXCEPT ![d].age = @ + 1]
  /\ UNCHANGED <<account, secrets, invitation, shown, kept, requests>>

------------------------------------------------------------------------------
(* Administrators and the host console. *)

Administer(row) ==
  /\ account.exists
  /\ row.version <= MaxSession
  /\ account' = row
  /\ SignOutAll
  /\ UNCHANGED <<secrets, invitation, shown, kept, requests>>

AssignRole(role) == MayAssign(account, role) /\ Administer(RoleAssigned(account, role))
GrantAdministrator == MayAdminister(account) /\ Administer(Administered(account))
Rename == account.role # "administrator" /\ Administer(SignedOut(account))
\* The invitation goes with the row.
DeleteAccount ==
  /\ account.exists /\ account.role # "administrator"
  /\ account' = [account EXCEPT !.exists = FALSE]
  /\ invitation' = FALSE
  /\ SignOutAll
  /\ UNCHANGED <<secrets, shown, kept, requests>>

------------------------------------------------------------------------------
\* The host has invited somebody, or the account is yet to be signed up for.
Init ==
  /\ invitation \in BOOLEAN
  /\ account = IF invitation THEN FreshRow ELSE [FreshRow EXCEPT !.exists = FALSE, !.version = 0]
  /\ password = 0 /\ phrase = 0
  /\ sessions = [d \in Devices |-> NoSession]
  /\ shown = [d \in Devices |-> [phrase |-> 0, version |-> 0]]
  /\ kept = {}
  /\ requests = [r \in Requests |-> Idle]

AdminStep == (\E role \in Roles : AssignRole(role)) \/ GrantAdministrator \/ Rename \/ DeleteAccount

DeviceStep(d) == Refuse(d) \/ Logout(d) \/ Age(d)

\* The pages /login, /register and /recover, open to everybody.
SignIn(r, d) == LoginRead(r, d) \/ SignUp(r, d) \/ Recover(r, d)

\* The security page of an account, with the screen of a new phrase.
Security(r, d) ==
  \E kind \in {"reauthenticate", "rotate", "revoke", "save"} : Load(r, d, kind)

StartStep(r) == \E d \in Devices :
  \/ SignIn(r, d)
  \/ Activate(r, d)
  \/ Security(r, d)
  \/ Load(r, d, "staff")

FinishStep(r) ==
  \/ LoginVerified(r)
  \/ Reauthenticate(r)
  \/ Rotate(r)
  \/ Revoke(r)
  \/ Save(r)
  \/ StaffAction(r)
  \/ BeginSession(r)
  \/ Fail(r)

Next == AdminStep \/ (\E d \in Devices : DeviceStep(d)) \/ \E r \in Requests : StartStep(r) \/ FinishStep(r)

Spec == Init /\ [][Next]_vars

------------------------------------------------------------------------------
(* Properties. *)

\* The rows, the screens and the requests have their shapes.
TypeOK ==
  /\ account \in AccountRow
  /\ password \in Nat /\ phrase \in Nat
  /\ invitation \in BOOLEAN
  /\ sessions \in [Devices -> Session \cup {NoSession}]
  /\ shown \in [Devices -> Screen]
  /\ kept \subseteq Nat
  /\ requests \in [Requests -> Request \cup {Idle}]

\* A session that loadAccount accepts, and a request on the way to open one at
\* the current version, were earned with the password that is current now: a
\* sign-in that read the old hash never yields a usable session after the
\* password was replaced.
SessionsProvePassword ==
  /\ \A d \in Devices : SignedIn(d) => sessions[d].password = password
  /\ \A r \in Requests :
       requests[r].pc = "opening" /\ Current(r) => requests[r].password = password

\* The phrase a device shows is the working one as long as the account's
\* version has not moved since: two replacements in flight never leave both
\* devices with a phrase they may believe in.
ShownPhraseWorks ==
  \A d \in Devices : shown[d].phrase # 0 /\ shown[d].version = account.version
                     => shown[d].phrase = phrase

\* A staff request whose session was ended, or whose authority was taken away,
\* between the middleware's check and its transaction changes nothing.
StaffActsCurrent == [][\A r \in Requests :
  StaffAction(r) => /\ account.exists /\ Staff(account)
                    /\ requests[r].password = password]_vars

\* Staff access that recovery suspended comes back only through an
\* administrator who finds the recovery phrase saved, never through a
\* sign-in, a new password, an invitation or a confirmation of the phrase.
SuspensionLasts == [][
  account.suspended /\ account'.exists /\ ~account'.suspended =>
    AdminStep /\ (account'.role # "user" => account.saved)]_vars

\* Whoever is made an editor confirmed the recovery phrase that works.
RecipientsSaved == [][
  account.role = "user" /\ account'.role = "editor" /\ ~invitation => phrase \in kept]_vars
==============================================================================
