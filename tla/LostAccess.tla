----------------------------- MODULE LostAccess -----------------------------
(***************************************************************************)
(* The recovery e-mail and the passkeys of one account                     *)
(* (server/routes/email.ts, server/routes/auth.ts from "/passkeys" on,     *)
(* src/components/EmailSettings.tsx, src/lib/passkeys.ts and the recovery  *)
(* page in src/pages/AccountPages.tsx).                                    *)
(*                                                                         *)
(* Mail is slow, fails, and is read by whoever has the address; a sign-in  *)
(* reads the account's version in its transaction and begins the session   *)
(* afterwards.  AccountSecurity has passwords, roles and staff checks.     *)
(***************************************************************************)
EXTENDS Naturals, Sequences, FiniteSets

CONSTANTS
  Addresses,
  Passkeys,    \* credential ids
  MaxPasskeys, \* passkeys that an account may have: 10 in the code
  MaxCodes,    \* bound: codes that are mailed
  MaxCredentials \* bound: changes of the credentials

ASSUME AccessAssumption ==
  MaxPasskeys \in Nat /\ MaxCodes \in Nat /\ MaxCredentials \in Nat \ {0}

VARIABLES
  credentials,  \* session_version of the row of accounts
  since,        \* history: its value after the last recovery
  recovery,     \* the row of recovery_emails
  mails,        \* the messages, one for each code
  enrolled,     \* rows of passkeys: the version of the session that added it
  sessions,     \* rows of sessions that name the account
  starting,     \* sessions that finished sign-ins are about to begin
  adding,       \* registrations under way, one for each version of their session
  used        \* history: the codes that have recovered the account

accessVars == <<credentials, since, recovery, mails, enrolled, sessions, starting, adding, used>>
sessionVars == <<sessions, starting, adding>>

NoEmail == [missing |-> TRUE]
NoAddress == [empty |-> TRUE]
Codes == 1..MaxCodes
Generations == 1..MaxCredentials

\* A code of zero is a hash that is NULL.
Recovery == [address : Addresses \cup {NoAddress}, pending : Addresses \cup {NoAddress},
             verification : 0..MaxCodes, reset : 0..MaxCodes]

\* at is history: the version of the credentials when the code was made;
\* waiting: the server has not heard what became of the message.
Message == [to : Addresses, purpose : {"verify", "reset"}, at : Generations,
            waiting : BOOLEAN]

\* key is the passkey that a sign-in was made with, if any.
Session == [version : Generations, key : {{}} \cup {{k} : k \in Passkeys}]

AccessTypeOK ==
  /\ credentials \in Generations /\ since \in Generations
  /\ recovery \in Recovery \cup {NoEmail}
  /\ mails \in Seq(Message) /\ Len(mails) <= MaxCodes
  /\ enrolled \in [Passkeys -> 0..MaxCredentials]
  /\ sessions \subseteq Session /\ starting \subseteq Session /\ adding \subseteq Generations
  /\ used \in [Codes -> 0..MaxCredentials]

AccessInit ==
  /\ credentials = 1 /\ since = 1
  /\ recovery = NoEmail
  /\ mails = <<>>
  /\ enrolled = [k \in Passkeys |-> 0]
  /\ sessions = {} /\ starting = {} /\ adding = {}
  /\ used = [c \in Codes |-> 0]

InForce(session) == session.version = credentials
SignedIn == \E session \in sessions : InForce(session)

------------------------------------------------------------------------------
(* Mail *)

Code == Len(mails) + 1

Mailed(to, purpose) ==
  /\ Code \in Codes
  /\ mails' = Append(mails, [to |-> to, purpose |-> purpose, at |-> credentials,
                             waiting |-> TRUE])

\* Somebody reads the message and enters its code.  A message that failed may
\* have arrived all the same, and a code that expires after fifteen minutes, or
\* is never read, is one that nobody enters in time.
Readable(c, purpose) == c \in DOMAIN mails /\ mails[c].purpose = purpose

Deliver(c) ==
  /\ mails[c].waiting
  /\ mails' = [mails EXCEPT ![c].waiting = FALSE]
  /\ UNCHANGED <<credentials, since, recovery, enrolled, sessionVars, used>>

\* The failure of POST /setup; a recovery message that fails is only logged.
Withdrawn(c) ==
  IF recovery = NoEmail \/ recovery.verification # c \/ mails[c].purpose = "reset" THEN recovery
  ELSE [recovery EXCEPT !.pending = NoAddress, !.verification = 0]

FailMail(c) ==
  /\ mails[c].waiting
  /\ mails' = [mails EXCEPT ![c].waiting = FALSE]
  /\ recovery' = Withdrawn(c)
  /\ UNCHANGED <<credentials, since, enrolled, sessionVars, used>>

------------------------------------------------------------------------------
(* The recovery e-mail.  A definition with a suffix is a wrong variant of the *)
(* definition below it; no specification uses it.                             *)

Row == IF recovery # NoEmail THEN recovery
       ELSE [address |-> NoAddress, pending |-> NoAddress, verification |-> 0, reset |-> 0]

Setup(to) ==
  /\ SignedIn
  /\ Mailed(to, "verify")
  /\ recovery' = [Row EXCEPT !.pending = to, !.verification = Code]
  /\ UNCHANGED <<credentials, since, enrolled, sessionVars, used>>

Verified_KeepsReset ==
  [recovery EXCEPT !.address = recovery.pending, !.pending = NoAddress, !.verification = 0]
Verified ==
  [recovery EXCEPT !.address = recovery.pending, !.pending = NoAddress, !.verification = 0,
                   !.reset = 0]

Verify(c) ==
  /\ SignedIn /\ Readable(c, "verify")
  /\ recovery # NoEmail /\ recovery.verification = c
  /\ recovery' = Verified
  /\ UNCHANGED <<credentials, since, mails, enrolled, sessionVars, used>>

Remove ==
  /\ SignedIn /\ recovery # NoEmail
  /\ recovery' = NoEmail
  /\ UNCHANGED <<credentials, since, mails, enrolled, sessionVars, used>>

\* POST /request, by anybody who knows the name.
RequestRecovery ==
  /\ recovery # NoEmail /\ recovery.address # NoAddress
  /\ Mailed(recovery.address, "reset")
  /\ recovery' = [recovery EXCEPT !.reset = Code]
  /\ UNCHANGED <<credentials, since, enrolled, sessionVars, used>>

\* replaceLostCredentials
Cleared_KeepsPending(row) == IF row = NoEmail THEN row ELSE [row EXCEPT !.reset = 0]
Cleared(row) ==
  IF row = NoEmail THEN row
  ELSE [row EXCEPT !.reset = 0, !.verification = 0, !.pending = NoAddress]

Replaced ==
  /\ credentials < MaxCredentials
  /\ credentials' = credentials + 1 /\ since' = credentials + 1
  /\ recovery' = Cleared(recovery)
  /\ enrolled' = [k \in Passkeys |-> 0]
  /\ sessions' = {}
  /\ starting' = starting \cup {[version |-> credentials + 1, key |-> {}]}
  /\ UNCHANGED <<mails, adding>>

RecoverByMail(c) ==
  /\ Readable(c, "reset") /\ recovery # NoEmail /\ recovery.reset = c
  /\ Replaced
  /\ used' = [used EXCEPT ![c] = @ + 1]

\* POST /recover, by somebody who has the phrase.
RecoverByPhrase == Replaced /\ UNCHANGED used

------------------------------------------------------------------------------
(* Sessions *)

\* Any request of it may be lost before; a session may also end by itself.
BeginSession(session) ==
  /\ sessions' = sessions \cup {session}
  /\ starting' = starting \ {session}
  /\ UNCHANGED <<credentials, since, recovery, mails, enrolled, adding, used>>

EndSession(session) ==
  /\ sessions' = sessions \ {session} /\ starting' = starting \ {session}
  /\ UNCHANGED <<credentials, since, recovery, mails, enrolled, adding, used>>

SignIn ==
  /\ starting' = starting \cup {[version |-> credentials, key |-> {}]}
  /\ UNCHANGED <<credentials, since, recovery, mails, enrolled, sessions, adding, used>>

\* POST /security/reset and /sessions/revoke: the passkeys and codes stay.
RotateCredentials(stays) ==
  /\ SignedIn /\ credentials < MaxCredentials
  /\ credentials' = credentials + 1
  /\ sessions' = {}
  /\ starting' = IF stays THEN starting \cup {[version |-> credentials + 1, key |-> {}]}
                 ELSE starting
  /\ UNCHANGED <<since, recovery, mails, enrolled, adding, used>>

------------------------------------------------------------------------------
(* Passkeys *)

\* POST /passkeys/register/options, the prompt of the browser, and the start
\* of /register/verify, which consumes the challenge.
AskToRegister ==
  /\ SignedIn /\ Cardinality({k \in Passkeys : enrolled[k] # 0}) < MaxPasskeys
  /\ adding' = adding \cup {credentials}
  /\ UNCHANGED <<credentials, since, recovery, mails, enrolled, sessions, starting, used>>

MayEnroll(version) == version = credentials

\* The transaction of /register/verify, which does not count the passkeys
\* again.
Enroll(version, k) ==
  /\ MayEnroll(version) /\ enrolled[k] = 0
  /\ enrolled' = [enrolled EXCEPT ![k] = version]
  /\ adding' = adding \ {version}
  /\ UNCHANGED <<credentials, since, recovery, mails, sessions, starting, used>>

EndRegistration(version) ==
  /\ adding' = adding \ {version}
  /\ UNCHANGED <<credentials, since, recovery, mails, enrolled, sessions, starting, used>>

\* POST /passkeys/login/options and /verify, up to the end of its transaction.
SignInWithPasskey(k) ==
  /\ enrolled[k] # 0
  /\ starting' = starting \cup {[version |-> credentials, key |-> {k}]}
  /\ UNCHANGED <<credentials, since, recovery, mails, enrolled, sessions, adding, used>>

------------------------------------------------------------------------------
(* The pages, by the requests that each may send *)

\* Of the address on /account/security.  That it shows the field of a code only
\* while a code is pending restricts nothing: Verify wants the pending one.
EmailSettings ==
  \/ \E to \in Addresses : Setup(to)
  \/ \E c \in DOMAIN mails : Verify(c)
  \/ Remove

\* /recover, with its two methods.
RecoverForm ==
  \/ RequestRecovery
  \/ \E c \in DOMAIN mails : RecoverByMail(c)
  \/ RecoverByPhrase

\* registerPasskey and authenticatePasskey ask for options, wait for the
\* browser's prompt and send what it answers.
PasskeyPrompts ==
  \/ AskToRegister
  \/ \E version \in adding : EndRegistration(version) \/ \E k \in Passkeys : Enroll(version, k)
  \/ \E k \in Passkeys : SignInWithPasskey(k)

AccessNext ==
  \/ EmailSettings \/ RecoverForm \/ PasskeyPrompts
  \/ \E c \in DOMAIN mails : Deliver(c) \/ FailMail(c)
  \/ SignIn
  \/ \E session \in starting : BeginSession(session)
  \/ \E session \in sessions \cup starting : EndSession(session)
  \/ \E stays \in BOOLEAN : RotateCredentials(stays)

AccessSpec == AccessInit /\ [][AccessNext]_accessVars

------------------------------------------------------------------------------
(* Properties *)

\* "Only a verified recovery address can recover an account", and a code is
\* "one-use" (docs/email-recovery.md): a code that recovers was mailed to the
\* address that the account has then and did not recover it before, and an
\* address becomes the account's by a code that was mailed to it.
OnlyVerifiedRecovers ==
  [][/\ \A c \in Codes : used'[c] # used[c] =>
          used[c] = 0 /\ recovery # NoEmail /\ mails[c].to = recovery.address
     /\ recovery' # NoEmail /\ recovery'.address \notin {NoAddress, Row.address} =>
          Row.verification # 0 /\ mails[Row.verification].to = recovery'.address
    ]_accessVars

\* A recovery ends every access from before it: its passkeys, the codes that
\* were on their way, the sessions, and the sign-ins and registrations that
\* were under way (docs/email-recovery.md: "replaces credentials, revokes
\* sessions").
RecoveryEndsAccess ==
  /\ \A k \in Passkeys : enrolled[k] # 0 => enrolled[k] >= since
  /\ \A session \in sessions : InForce(session) => \A k \in session.key : enrolled[k] # 0
  /\ recovery # NoEmail =>
       \A c \in {recovery.verification, recovery.reset} \ {0} : mails[c].at >= since
==============================================================================
