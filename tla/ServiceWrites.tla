---------------------------- MODULE ServiceWrites ----------------------------
(* Service accounts and their writes: tokens are issued, rotated, revoked and  *)
(* deleted (service-token-cli.ts, routes/accounts.ts) while programs write     *)
(* entries with a token and an idempotency key, repeat writes whose reply they *)
(* did not get, and reuse keys (routes/service-listings.ts).  All accounts     *)
(* carry one name, of which one account at a time may be alive.                *)
EXTENDS Naturals, FiniteSets

CONSTANTS Services,   \* rows of service_accounts
          Requests, Keys, None,
          MaxToken,   \* bound on tokens issued
          MaxVersion  \* bound on the version of the entry that is edited

ASSUME ServiceAssumption == MaxToken \in Nat /\ MaxVersion \in Nat \ {0}

Scopes == {"read", "create", "edit"}
DefaultScopes == {"read", "edit"}

(* An edit names the version it expects; a creation expects nothing.           *)
Payloads == [scope : {"create"}, expected : {0}]
              \cup [scope : {"edit"}, expected : 1..MaxVersion]

VARIABLES tokens,   \* how many tokens have been issued
          services, \* table service_accounts
          dedup,    \* table service_request_dedup: None, or a finished request
          claims,   \* who has inserted a row of dedup and not committed yet
          version,  \* version of the entry
          writes,   \* how many writes each key of each service has made
          requests  \* requests in flight

serviceVars == <<tokens, services, dedup, claims, version, writes, requests>>

Service == [token : 0..MaxToken, scopes : SUBSET Scopes,
            expired : BOOLEAN, revoked : BOOLEAN, deleted : BOOLEAN]

NoService == [token |-> 0, scopes |-> {}, expired |-> FALSE,
              revoked |-> FALSE, deleted |-> FALSE]

(* request_hash and response: what was asked, and the version that it made.    *)
Answer == [payload : Payloads, made : 1..MaxVersion]

Request == [pc : {"authenticated", "working", "answered"}, service : Services,
            key : Keys, payload : Payloads, answer : Answer \cup {None}]

ASSUME NoneAssumption == None \notin Requests \cup Answer \cup Request

ServiceTypeOK ==
  /\ tokens \in 0..MaxToken
  /\ services \in [Services -> Service]
  /\ dedup \in [Services \X Keys -> Answer \cup {None}]
  /\ claims \in [Services \X Keys -> Requests \cup {None}]
  /\ version \in 1..MaxVersion
  /\ writes \in [Services \X Keys -> Nat]
  /\ requests \in [Requests -> Request \cup {None}]

ServiceInit ==
  /\ tokens = 0
  /\ services = [s \in Services |-> NoService]
  /\ dedup = [k \in Services \X Keys |-> None]
  /\ claims = [k \in Services \X Keys |-> None]
  /\ version = 1
  /\ writes = [k \in Services \X Keys |-> 0]
  /\ requests = [r \in Requests |-> None]

(* Transactions that have inserted a row of dedup hold FOR KEY SHARE on the     *)
(* account, which its foreign key made them take.                              *)
NotReferenced(s) == \A k \in Keys : claims[<<s, k>>] = None

Alive(s) == services[s].token # 0 /\ ~services[s].deleted

Usable(s) == Alive(s) /\ ~services[s].revoked /\ ~services[s].expired

UnchangedWrites == UNCHANGED <<dedup, claims, version, writes, requests>>

--------------------------------------------------------------------------------
(* Tokens *)

(* What the page of administrators can ask for: its form wants a scope.  The   *)
(* command line gives DefaultScopes.                                           *)
ScopesToChoose == (SUBSET Scopes) \ {{}}

Issue(s, scopes) ==
  /\ services[s].token = 0
  /\ \A other \in Services : ~Alive(other)
  /\ tokens < MaxToken
  /\ tokens' = tokens + 1
  /\ services' = [services EXCEPT
       ![s] = [NoService EXCEPT !.token = tokens + 1, !.scopes = scopes]]
  /\ UnchangedWrites

Rotate_SameToken(s) ==
  /\ Alive(s)
  /\ NotReferenced(s)
  /\ tokens < MaxToken
  /\ tokens' = tokens + 1
  /\ services' = [services EXCEPT
       ![s].scopes = DefaultScopes, ![s].revoked = FALSE, ![s].expired = FALSE]
  /\ UnchangedWrites

(* The token's column is unique, so that its UPDATE waits in the same way.     *)
Rotate(s) ==
  /\ Alive(s)
  /\ NotReferenced(s)
  /\ tokens < MaxToken
  /\ tokens' = tokens + 1
  /\ services' = [services EXCEPT
       ![s] = [NoService EXCEPT !.token = tokens + 1, !.scopes = DefaultScopes]]
  /\ UnchangedWrites

Revoke(s) ==
  /\ Alive(s)
  /\ services' = [services EXCEPT ![s].revoked = TRUE]
  /\ UNCHANGED tokens
  /\ UnchangedWrites

(* SELECT ... FOR UPDATE waits for the transactions that refer to the account. *)
Delete(s) ==
  /\ Alive(s)
  /\ NotReferenced(s)
  /\ services' = [services EXCEPT ![s].revoked = TRUE, ![s].deleted = TRUE]
  /\ UNCHANGED tokens
  /\ UnchangedWrites

Expire(s) ==
  /\ Alive(s)
  /\ services' = [services EXCEPT ![s].expired = TRUE]
  /\ UNCHANGED tokens
  /\ UnchangedWrites

--------------------------------------------------------------------------------
(* Writes *)

Place(r) == <<requests[r].service, requests[r].key>>

(* authenticateServiceToken and requireServiceScope read the account once,     *)
(* before the body of an upload arrives and before the transaction begins.     *)
Authenticate(r, s, k, payload) ==
  /\ requests[r] = None
  /\ Usable(s)
  /\ payload.scope \in services[s].scopes
  /\ requests' = [requests EXCEPT ![r] =
       [pc |-> "authenticated", service |-> s, key |-> k,
        payload |-> payload, answer |-> None]]
  /\ UNCHANGED <<tokens, services, dedup, claims, version, writes>>

Begin_Unclaimed(r) ==
  /\ requests[r] # None /\ requests[r].pc = "authenticated"
  /\ dedup[Place(r)] = None
  /\ claims' = [claims EXCEPT ![Place(r)] = r]
  /\ requests' = [requests EXCEPT ![r].pc = "working"]
  /\ UNCHANGED <<tokens, services, dedup, version, writes>>

(* INSERT ... ON CONFLICT DO NOTHING waits for a transaction that has inserted *)
(* the same key and has not ended.                                             *)
Begin(r) ==
  /\ requests[r] # None /\ requests[r].pc = "authenticated"
  /\ claims[Place(r)] = None
  /\ dedup[Place(r)] = None
  /\ claims' = [claims EXCEPT ![Place(r)] = r]
  /\ requests' = [requests EXCEPT ![r].pc = "working"]
  /\ UNCHANGED <<tokens, services, dedup, version, writes>>

SameRequest_Unchecked(r) == TRUE
SameRequest(r) == dedup[Place(r)].payload = requests[r].payload

(* A key that was used is answered as before, if the request is the same.      *)
Replay(r) ==
  /\ requests[r] # None /\ requests[r].pc = "authenticated"
  /\ dedup[Place(r)] # None
  /\ SameRequest(r)
  /\ requests' = [requests EXCEPT ![r].pc = "answered", ![r].answer = dedup[Place(r)]]
  /\ UNCHANGED <<tokens, services, dedup, claims, version, writes>>

Commit_AnyVersion(r) ==
  LET p == requests[r].payload
      answer == [payload |-> p, made |-> IF p.scope = "edit" THEN version + 1 ELSE 1]
  IN
  /\ requests[r] # None /\ requests[r].pc = "working"
  /\ version' = IF p.scope = "edit" THEN version + 1 ELSE version
  /\ dedup' = [dedup EXCEPT ![Place(r)] = answer]
  /\ claims' = [claims EXCEPT ![Place(r)] = None]
  /\ writes' = [writes EXCEPT ![Place(r)] = @ + 1]
  /\ requests' = [requests EXCEPT ![r].pc = "answered", ![r].answer = answer]
  /\ UNCHANGED <<tokens, services>>

(* The operation, the response and COMMIT: a new entry has version 1, an edit  *)
(* has to expect the version that is current.                                  *)
Commit(r) ==
  LET p == requests[r].payload
      answer == [payload |-> p, made |-> IF p.scope = "edit" THEN version + 1 ELSE 1]
  IN
  /\ requests[r] # None /\ requests[r].pc = "working"
  /\ p.scope = "edit" => p.expected = version /\ version < MaxVersion
  /\ version' = IF p.scope = "edit" THEN version + 1 ELSE version
  /\ dedup' = [dedup EXCEPT ![Place(r)] = answer]
  /\ claims' = [claims EXCEPT ![Place(r)] = None]
  /\ writes' = [writes EXCEPT ![Place(r)] = @ + 1]
  /\ requests' = [requests EXCEPT ![r].pc = "answered", ![r].answer = answer]
  /\ UNCHANGED <<tokens, services>>

(* The request ends: refused, rolled back, its reply delivered or lost.        *)
End(r) ==
  /\ requests[r] # None
  /\ claims' = IF requests[r].pc = "working"
               THEN [claims EXCEPT ![Place(r)] = None] ELSE claims
  /\ requests' = [requests EXCEPT ![r] = None]
  /\ UNCHANGED <<tokens, services, dedup, version, writes>>

(* Somebody else edits the entry.                                              *)
EditElsewhere ==
  /\ version < MaxVersion
  /\ version' = version + 1
  /\ UNCHANGED <<tokens, services, dedup, claims, writes, requests>>

ServiceNext ==
  \/ EditElsewhere
  \/ \E s \in Services :
       \/ \E scopes \in ScopesToChoose : Issue(s, scopes)
       \/ Rotate(s) \/ Revoke(s) \/ Delete(s) \/ Expire(s)
       \/ \E r \in Requests, k \in Keys, p \in Payloads : Authenticate(r, s, k, p)
  \/ \E r \in Requests : Begin(r) \/ Replay(r) \/ Commit(r) \/ End(r)

ServiceSpec == ServiceInit /\ [][ServiceNext]_serviceVars

--------------------------------------------------------------------------------
(* Properties *)

(* However often a write is repeated, at the same time or after its reply was  *)
(* lost, its key writes once (idempotent, service-listings.ts:46).             *)
OncePerKey == \A k \in Services \X Keys : writes[k] <= 1

(* An answer tells of what was asked, of the one write that the key has made,  *)
(* and of a version that the entry has had (service-listings.ts:58-71).        *)
AnswersAreTrue ==
  \A r \in Requests :
    requests[r] # None /\ requests[r].pc = "answered" =>
      /\ requests[r].answer.payload = requests[r].payload
      /\ requests[r].answer = dedup[Place(r)]
      /\ writes[Place(r)] = 1
      /\ requests[r].answer.made <= version

(* A token that has stopped working, because it was replaced, revoked, deleted *)
(* or expired, never works again (service-token-cli.ts:78, docs: "the deleted  *)
(* token can never be reactivated").                                           *)
Works(t) == \E s \in Services : Usable(s) /\ services[s].token = t

TokensStayDead == [][\A t \in 1..tokens : Works(t)' => Works(t)]_serviceVars
================================================================================
