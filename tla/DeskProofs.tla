------------------------------ MODULE DeskProofs ------------------------------
(***************************************************************************)
(* Theorems about ServiceWrites, LostAccess, Moderation and SavedTags, for *)
(* any values of their constants, and about the instance that runs them    *)
(* side by side.                                                           *)
(***************************************************************************)
EXTENDS MCDesk, FiniteSetTheorems, SequenceTheorems, TLAPS

------------------------------------------------------------------------------
(* ServiceWrites.  A row of dedup that is not committed yet belongs to the one *)
(* request that works on its key; once it is committed it is the answer to     *)
(* whoever asks with the key, and nobody works on the key again.               *)

Working(r) == requests[r] # None /\ requests[r].pc = "working"

\* Claims and working requests are the same thing, and a claimed key has no
\* answer.
ClaimsHeld ==
  /\ \A k \in Services \X Keys : claims[k] # None =>
       Working(claims[k]) /\ Place(claims[k]) = k /\ dedup[k] = None
  /\ \A r \in Requests : Working(r) => claims[Place(r)] = r

\* A key has written if it has an answer, of a version that the entry has had.
AnswersKept == \A k \in Services \X Keys :
  /\ writes[k] = IF dedup[k] = None THEN 0 ELSE 1
  /\ dedup[k] # None => dedup[k].made <= version

\* What was answered is the answer of the key, to the same request.
AnswersGiven == \A r \in Requests :
  requests[r] # None /\ requests[r].pc = "answered" =>
    /\ dedup[Place(r)] # None
    /\ requests[r].answer = dedup[Place(r)]
    /\ requests[r].answer.payload = requests[r].payload

ServiceInv == ServiceTypeOK /\ ClaimsHeld /\ AnswersKept /\ AnswersGiven

LEMMA ServiceInvInit == ServiceInit => ServiceInv
<1> SUFFICES ASSUME ServiceInit PROVE ServiceInv
  OBVIOUS
<1>1. NoService \in Service
  BY ServiceAssumption DEF NoService, Service
<1>2. ServiceTypeOK
  BY <1>1, ServiceAssumption DEF ServiceInit, ServiceTypeOK
<1>3. ClaimsHeld /\ AnswersKept /\ AnswersGiven
  BY DEF ServiceInit, ClaimsHeld, AnswersKept, AnswersGiven, Working
<1>4. QED
  BY <1>2, <1>3 DEF ServiceInv

LEMMA PlaceType ==
  ASSUME ServiceTypeOK, NEW r \in Requests, requests[r] # None
  PROVE  requests[r] \in Request /\ Place(r) \in Services \X Keys
BY DEF ServiceTypeOK, Place, Request

\* A request that starts to wait for its key, or ends without a claim, changes
\* nothing of what is kept.
LEMMA ServiceQuiet ==
  ASSUME ServiceInv, UNCHANGED <<dedup, claims, writes, requests>>,
         tokens' \in 0..MaxToken, services' \in [Services -> Service],
         version' \in 1..MaxVersion, version <= version'
  PROVE  ServiceInv'
<1>1. ServiceTypeOK'
  BY DEF ServiceInv, ServiceTypeOK
<1>2. ClaimsHeld' /\ AnswersGiven'
  BY DEF ServiceInv, ClaimsHeld, AnswersGiven, Working, Place
<1>3. AnswersKept'
  BY ServiceAssumption DEF ServiceInv, AnswersKept, ServiceTypeOK, Answer
<1>4. QED
  BY <1>1, <1>2, <1>3 DEF ServiceInv

\* A token is issued or rotated with the next number, and otherwise flags are set.
LEMMA TokenSteps ==
  ASSUME ServiceTypeOK, NEW s \in Services,
         \/ \E scopes \in ScopesToChoose : Issue(s, scopes)
         \/ Rotate(s) \/ Revoke(s) \/ Delete(s) \/ Expire(s)
  PROVE  /\ UnchangedWrites
         /\ tokens' \in 0..MaxToken
         /\ services' \in [Services -> Service]
<1>1. ASSUME NEW scopes \in SUBSET Scopes, tokens < MaxToken
      PROVE  /\ tokens + 1 \in 0..MaxToken
             /\ [NoService EXCEPT !.token = tokens + 1, !.scopes = scopes] \in Service
  <2>1. tokens + 1 \in 0..MaxToken
    BY <1>1, ServiceAssumption DEF ServiceTypeOK
  <2>2. NoService \in [token : {0}, scopes : SUBSET Scopes, expired : {FALSE},
                       revoked : {FALSE}, deleted : {FALSE}]
    BY DEF NoService
  <2>3. QED
    BY <2>1, <2>2 DEF Service
<1>2. ASSUME NEW row \in Service
      PROVE  /\ [row EXCEPT !.revoked = TRUE] \in Service
             /\ [row EXCEPT !.revoked = TRUE, !.deleted = TRUE] \in Service
             /\ [row EXCEPT !.expired = TRUE] \in Service
  BY <1>2 DEF Service
<1>3. CASE \E scopes \in ScopesToChoose : Issue(s, scopes)
  BY <1>1, <1>3 DEF Issue, ScopesToChoose, UnchangedWrites, ServiceTypeOK
<1>4. CASE Rotate(s)
  BY <1>1, <1>4 DEF Rotate, DefaultScopes, Scopes, UnchangedWrites, ServiceTypeOK
<1>5. CASE Revoke(s)
  BY <1>2, <1>5 DEF Revoke, UnchangedWrites, ServiceTypeOK
<1>6. CASE Delete(s)
  BY <1>2, <1>6 DEF Delete, UnchangedWrites, ServiceTypeOK
<1>7. CASE Expire(s)
  BY <1>2, <1>7 DEF Expire, UnchangedWrites, ServiceTypeOK
<1>8. QED
  BY <1>3, <1>4, <1>5, <1>6, <1>7

LEMMA AuthenticateInv ==
  ASSUME ServiceInv, NEW r \in Requests, NEW s \in Services, NEW k \in Keys,
         NEW p \in Payloads, Authenticate(r, s, k, p)
  PROVE  ServiceInv'
<1> DEFINE request == [pc |-> "authenticated", service |-> s, key |-> k,
                       payload |-> p, answer |-> None]
<1>1. request \in Request /\ request.pc = "authenticated"
  BY DEF Request
<1>2. /\ requests[r] = None
      /\ requests' = [requests EXCEPT ![r] = request]
      /\ UNCHANGED <<tokens, services, dedup, claims, version, writes>>
  BY DEF Authenticate
<1> HIDE DEF request
<1>3. ServiceTypeOK /\ ClaimsHeld /\ AnswersKept /\ AnswersGiven
  BY DEF ServiceInv
<1>4. ServiceTypeOK'
  BY <1>1, <1>2, <1>3 DEF ServiceTypeOK
<1>5. \A q \in Requests : q # r => requests'[q] = requests[q]
  BY <1>2, <1>3 DEF ServiceTypeOK
<1>6. requests'[r] = request
  BY <1>2, <1>3 DEF ServiceTypeOK
<1>7. ClaimsHeld'
  <2>1. ASSUME NEW key \in Services \X Keys, claims[key] # None
        PROVE  claims[key] \in Requests \ {r}
    BY <1>2, <1>3, <2>1 DEF ClaimsHeld, Working, ServiceTypeOK
  <2>2. QED
    BY <1>1, <1>2, <1>3, <1>5, <1>6, <2>1 DEF ClaimsHeld, Working, Place
<1>8. AnswersKept'
  BY <1>2, <1>3 DEF AnswersKept
<1>9. AnswersGiven'
  BY <1>1, <1>2, <1>3, <1>5, <1>6 DEF AnswersGiven, Place
<1>10. QED
  BY <1>4, <1>7, <1>8, <1>9 DEF ServiceInv

\* A request that was authenticated holds nothing, so that what happens to it
\* disturbs nobody else.
LEMMA BeginInv ==
  ASSUME ServiceInv, NEW r \in Requests, Begin(r)
  PROVE  ServiceInv'
<1> DEFINE P == Place(r)
<1>1. ServiceTypeOK /\ ClaimsHeld /\ AnswersKept /\ AnswersGiven
  BY DEF ServiceInv
<1>2. requests[r] \in Request /\ P \in Services \X Keys
  BY <1>1, PlaceType DEF Begin
<1>3. [requests[r] EXCEPT !.pc = "working"] \in Request
  BY <1>2 DEF Request
<1>4. ServiceTypeOK'
  BY <1>1, <1>2, <1>3 DEF ServiceTypeOK, Begin
<1>5. \A q \in Requests \ {r} : requests'[q] = requests[q] /\ Place(q)' = Place(q)
  BY <1>1 DEF ServiceTypeOK, Begin, Place
<1>6. /\ requests'[r] # None /\ requests'[r].pc = "working"
      /\ requests'[r].service = requests[r].service /\ requests'[r].key = requests[r].key
  BY <1>1, <1>2, <1>3, NoneAssumption DEF ServiceTypeOK, Begin, Request
<1>7. Place(r)' = P
  BY <1>6 DEF Place
<1>8. ~Working(r)
  BY DEF Begin, Working
<1>9. claims' = [claims EXCEPT ![P] = r] /\ claims[P] = None /\ dedup[P] = None
  BY DEF Begin
<1>10. UNCHANGED <<dedup, version, writes>>
  BY DEF Begin
<1> HIDE DEF P
<1>11. ClaimsHeld'
  <2>1. ASSUME NEW k \in Services \X Keys, (claims[k] # None)'
        PROVE  (Working(claims[k]) /\ Place(claims[k]) = k /\ dedup[k] = None)'
    <3>1. CASE k = P
      <4>1. claims'[k] = r
        BY <1>1, <1>2, <1>9, <3>1 DEF ServiceTypeOK
      <4>2. QED
        BY <1>6, <1>7, <1>9, <1>10, <3>1, <4>1 DEF Working, Place
    <3>2. CASE k # P
      <4>1. claims'[k] = claims[k]
        BY <1>1, <1>2, <1>9, <3>2 DEF ServiceTypeOK
      <4>2. claims[k] \in Requests \ {r}
        BY <1>1, <1>8, <2>1, <4>1 DEF ClaimsHeld, ServiceTypeOK
      <4>3. QED
        BY <1>1, <1>5, <1>10, <2>1, <4>1, <4>2 DEF ClaimsHeld, Working, Place
    <3>3. QED
      BY <3>1, <3>2
  <2>2. ASSUME NEW q \in Requests, Working(q)'
        PROVE  claims'[Place(q)'] = q
    <3>1. CASE q = r
      BY <1>1, <1>2, <1>7, <1>9, <3>1 DEF ServiceTypeOK
    <3>2. CASE q # r
      <4>1. Working(q) /\ claims[Place(q)] = q /\ Place(q)' = Place(q)
        BY <1>1, <1>5, <2>2, <3>2 DEF ClaimsHeld, Working
      <4>2. q # None
        BY NoneAssumption
      <4>3. Place(q) # P /\ Place(q) \in Services \X Keys
        BY <1>1, <1>9, <4>1, <4>2, PlaceType DEF Working
      <4>4. QED
        BY <1>1, <1>9, <4>1, <4>3 DEF ServiceTypeOK
    <3>3. QED
      BY <3>1, <3>2
  <2>3. QED
    BY <2>1, <2>2 DEF ClaimsHeld
<1>12. AnswersKept'
  BY <1>1, <1>10 DEF AnswersKept
<1>13. AnswersGiven'
  BY <1>1, <1>5, <1>6, <1>10 DEF AnswersGiven
<1>14. QED
  BY <1>4, <1>11, <1>12, <1>13 DEF ServiceInv

LEMMA ReplayInv ==
  ASSUME ServiceInv, NEW r \in Requests, Replay(r)
  PROVE  ServiceInv'
<1> DEFINE P == Place(r)
<1>1. ServiceTypeOK /\ ClaimsHeld /\ AnswersKept /\ AnswersGiven
  BY DEF ServiceInv
<1>2. requests[r] \in Request /\ P \in Services \X Keys
  BY <1>1, PlaceType DEF Replay
<1>3. dedup[P] \in Answer /\ dedup[P].payload = requests[r].payload
  BY <1>1, <1>2 DEF Replay, SameRequest, ServiceTypeOK
<1>5. requests'[r] = [requests[r] EXCEPT !.pc = "answered", !.answer = dedup[P]]
  BY <1>1 DEF Replay, ServiceTypeOK
<1>6. /\ requests'[r] \in Request /\ requests'[r].pc = "answered"
      /\ requests'[r].answer = dedup[P] /\ requests'[r].payload = requests[r].payload
      /\ Place(r)' = P
  <2>1. /\ requests'[r] \in Request /\ requests'[r].pc = "answered"
        /\ requests'[r].answer = dedup[P]
        /\ requests'[r].service = requests[r].service /\ requests'[r].key = requests[r].key
        /\ requests'[r].payload = requests[r].payload
    BY <1>2, <1>3, <1>5, Zenon DEF Request
  <2>2. QED
    BY <2>1 DEF Place
<1>7. \A q \in Requests \ {r} : requests'[q] = requests[q]
  BY <1>1 DEF ServiceTypeOK, Replay
<1>8. UNCHANGED <<tokens, services, dedup, claims, version, writes>>
  BY DEF Replay
<1>9. ~Working(r) /\ dedup[P] # None
  BY DEF Replay, Working
<1>10. ServiceTypeOK'
  <2>1. requests' \in [Requests -> Request \cup {None}]
    BY <1>1, <1>6, <1>7 DEF ServiceTypeOK, Replay
  <2>2. QED
    BY <1>1, <1>8, <2>1 DEF ServiceTypeOK
<1> HIDE DEF P
<1>11. ClaimsHeld'
  <2>1. ASSUME NEW k \in Services \X Keys, claims[k] # None
        PROVE  claims[k] \in Requests \ {r}
    BY <1>1, <1>9, <2>1 DEF ClaimsHeld, ServiceTypeOK
  <2>2. QED
    BY <1>1, <1>6, <1>7, <1>8, <2>1 DEF ClaimsHeld, Working, Place
<1>12. AnswersKept'
  BY <1>1, <1>8 DEF AnswersKept
<1>13. AnswersGiven'
  <2>1. ASSUME NEW q \in Requests, (requests[q] # None /\ requests[q].pc = "answered")'
        PROVE  (/\ dedup[Place(q)] # None
                /\ requests[q].answer = dedup[Place(q)]
                /\ requests[q].answer.payload = requests[q].payload)'
    <3>1. CASE q = r
      BY <1>3, <1>6, <1>8, <1>9, <3>1
    <3>2. CASE q # r
      BY <1>1, <1>7, <1>8, <2>1, <3>2 DEF AnswersGiven, Place
    <3>3. QED
      BY <3>1, <3>2
  <2>2. QED
    BY <2>1 DEF AnswersGiven
<1>14. QED
  BY <1>10, <1>11, <1>12, <1>13 DEF ServiceInv

\* The transaction that held the claim leaves the only answer of its key.
LEMMA CommitInv ==
  ASSUME ServiceInv, NEW r \in Requests, Commit(r)
  PROVE  ServiceInv'
<1> DEFINE P == Place(r)
           p == requests[r].payload
           a == [payload |-> p, made |-> IF p.scope = "edit" THEN version + 1 ELSE 1]
<1>1. ServiceTypeOK /\ ClaimsHeld /\ AnswersKept /\ AnswersGiven
  BY DEF ServiceInv
<1>2. requests[r] \in Request /\ P \in Services \X Keys
  BY <1>1, PlaceType DEF Commit
<1>3. /\ p \in Payloads
      /\ p.scope = "edit" => version < MaxVersion
      /\ version' = IF p.scope = "edit" THEN version + 1 ELSE version
      /\ dedup' = [dedup EXCEPT ![P] = a]
      /\ claims' = [claims EXCEPT ![P] = None]
      /\ writes' = [writes EXCEPT ![P] = @ + 1]
      /\ requests' = [requests EXCEPT ![r].pc = "answered", ![r].answer = a]
      /\ UNCHANGED <<tokens, services>>
      /\ Working(r)
  BY <1>2 DEF Commit, Working, Request
<1>4. /\ version' \in 1..MaxVersion /\ version <= version'
      /\ a.made \in 1..MaxVersion /\ a.made <= version'
      /\ a.payload = p
  BY <1>1, <1>3, ServiceAssumption DEF ServiceTypeOK
<1>5. a \in Answer
  BY <1>3, <1>4 DEF Answer
<1>7. requests'[r] = [requests[r] EXCEPT !.pc = "answered", !.answer = a]
  BY <1>1, <1>3 DEF ServiceTypeOK
<1>8. a.payload = p /\ a # None /\ a.made <= version'
  BY <1>4, <1>5, NoneAssumption
<1> HIDE DEF a
<1>9. /\ requests'[r] \in Request /\ requests'[r].pc = "answered"
      /\ requests'[r].answer = a /\ requests'[r].payload = p
      /\ Place(r)' = P
  <2>1. /\ requests'[r] \in Request /\ requests'[r].pc = "answered"
        /\ requests'[r].answer = a
        /\ requests'[r].service = requests[r].service /\ requests'[r].key = requests[r].key
        /\ requests'[r].payload = requests[r].payload
    BY <1>2, <1>5, <1>7, Zenon DEF Request
  <2>2. QED
    BY <2>1 DEF Place
<1>10. \A q \in Requests \ {r} : requests'[q] = requests[q]
  BY <1>1, <1>3 DEF ServiceTypeOK
<1> HIDE DEF P, p
<1>11. /\ dedup[P] = None /\ claims[P] = r /\ dedup'[P] = a
       /\ claims'[P] = None /\ writes[P] = 0 /\ writes'[P] = 1
  <2>1. claims[P] = r
    BY <1>1, <1>3 DEF ClaimsHeld, P
  <2>2. r # None
    BY NoneAssumption
  <2>3. dedup[P] = None
    BY <1>1, <1>2, <2>1, <2>2 DEF ClaimsHeld
  <2>4. writes[P] = 0
    BY <1>1, <1>2, <2>3 DEF AnswersKept
  <2>5. QED
    BY <1>1, <1>2, <1>3, <2>1, <2>3, <2>4 DEF ServiceTypeOK
<1>12. \A k \in Services \X Keys : k # P =>
         dedup'[k] = dedup[k] /\ claims'[k] = claims[k] /\ writes'[k] = writes[k]
  BY <1>1, <1>2, <1>3 DEF ServiceTypeOK
<1>13. ServiceTypeOK'
  <2>1. requests' \in [Requests -> Request \cup {None}]
    BY <1>1, <1>3, <1>9, <1>10 DEF ServiceTypeOK
  <2>2. dedup' \in [Services \X Keys -> Answer \cup {None}]
    BY <1>1, <1>3, <1>5 DEF ServiceTypeOK
  <2>3. claims' \in [Services \X Keys -> Requests \cup {None}]
    BY <1>1, <1>3 DEF ServiceTypeOK
  <2>4. writes' \in [Services \X Keys -> Nat]
    BY <1>1, <1>2, <1>3 DEF ServiceTypeOK
  <2>5. QED
    BY <1>1, <1>3, <1>4, <2>1, <2>2, <2>3, <2>4 DEF ServiceTypeOK
<1>14. ClaimsHeld'
  <2>1. ASSUME NEW k \in Services \X Keys, (claims[k] # None)'
        PROVE  (Working(claims[k]) /\ Place(claims[k]) = k /\ dedup[k] = None)'
    <3>1. k # P /\ claims'[k] = claims[k] /\ dedup'[k] = dedup[k]
      BY <1>11, <1>12, <2>1
    <3>2. claims[k] \in Requests /\ Working(claims[k]) /\ Place(claims[k]) = k /\ dedup[k] = None
      BY <1>1, <2>1, <3>1 DEF ClaimsHeld, ServiceTypeOK
    <3>3. claims[k] # r
      BY <3>1, <3>2 DEF P
    <3>4. QED
      BY <1>10, <3>1, <3>2, <3>3 DEF Working, Place
  <2>2. ASSUME NEW q \in Requests, Working(q)'
        PROVE  (claims[Place(q)] = q)'
    <3>1. q # r
      BY <1>9, <2>2 DEF Working
    <3>2. Working(q) /\ claims[Place(q)] = q /\ Place(q)' = Place(q)
      BY <1>1, <1>10, <2>2, <3>1 DEF ClaimsHeld, Working, Place
    <3>3. Place(q) # P /\ Place(q) \in Services \X Keys
      BY <1>1, <1>11, <3>1, <3>2, PlaceType DEF Working
    <3>4. QED
      BY <1>12, <3>2, <3>3
  <2>3. QED
    BY <2>1, <2>2 DEF ClaimsHeld
<1>15. AnswersKept'
  <2>1. ASSUME NEW k \in Services \X Keys
        PROVE  (/\ writes[k] = IF dedup[k] = None THEN 0 ELSE 1
                /\ dedup[k] # None => dedup[k].made <= version)'
    <3>1. CASE k = P
      BY <1>8, <1>11, <3>1
    <3>2. CASE k # P
      <4>1. dedup'[k] = dedup[k] /\ writes'[k] = writes[k]
        BY <1>12, <3>2
      <4>2. dedup[k] # None => dedup[k].made \in 1..MaxVersion /\ dedup[k].made <= version
        BY <1>1 DEF AnswersKept, ServiceTypeOK, Answer
      <4>3. dedup[k] # None => dedup[k].made <= version'
        BY <1>1, <1>4, <4>2, ServiceAssumption DEF ServiceTypeOK
      <4>4. QED
        BY <1>1, <4>1, <4>3 DEF AnswersKept
    <3>3. QED
      BY <3>1, <3>2
  <2>2. QED
    BY <2>1 DEF AnswersKept
<1>16. AnswersGiven'
  <2>1. ASSUME NEW q \in Requests, (requests[q] # None /\ requests[q].pc = "answered")'
        PROVE  (/\ dedup[Place(q)] # None
                /\ requests[q].answer = dedup[Place(q)]
                /\ requests[q].answer.payload = requests[q].payload)'
    <3>1. CASE q = r
      BY <1>8, <1>9, <1>11, <3>1
    <3>2. CASE q # r
      <4>1. /\ requests'[q] = requests[q] /\ Place(q)' = Place(q)
            /\ dedup[Place(q)] # None
            /\ requests[q].answer = dedup[Place(q)]
            /\ requests[q].answer.payload = requests[q].payload
        BY <1>1, <1>10, <2>1, <3>2 DEF AnswersGiven, Place
      <4>2. Place(q) # P /\ Place(q) \in Services \X Keys
        BY <1>1, <1>11, <2>1, <4>1, PlaceType
      <4>3. QED
        BY <1>12, <4>1, <4>2
    <3>3. QED
      BY <3>1, <3>2
  <2>2. QED
    BY <2>1 DEF AnswersGiven
<1>17. QED
  BY <1>13, <1>14, <1>15, <1>16 DEF ServiceInv

LEMMA EndInv ==
  ASSUME ServiceInv, NEW r \in Requests, End(r)
  PROVE  ServiceInv'
<1> DEFINE P == Place(r)
<1>1. ServiceTypeOK /\ ClaimsHeld /\ AnswersKept /\ AnswersGiven
  BY DEF ServiceInv
<1>2. requests[r] \in Request /\ P \in Services \X Keys
  BY <1>1, PlaceType DEF End
<1>3. /\ requests' = [requests EXCEPT ![r] = None]
      /\ claims' = IF Working(r) THEN [claims EXCEPT ![P] = None] ELSE claims
      /\ UNCHANGED <<tokens, services, dedup, version, writes>>
  BY DEF End, Working
<1>4. requests'[r] = None /\ \A q \in Requests \ {r} : requests'[q] = requests[q]
  BY <1>1, <1>3 DEF ServiceTypeOK
<1>5. ServiceTypeOK'
  BY <1>1, <1>2, <1>3 DEF ServiceTypeOK
<1> HIDE DEF P
<1>6. \A k \in Services \X Keys :
        /\ claims'[k] # None => claims'[k] = claims[k] /\ claims[k] # r
        /\ claims[k] # r => claims'[k] = claims[k]
  <2>1. ASSUME NEW k \in Services \X Keys, claims[k] = r
        PROVE  Working(r) /\ k = P
    BY <1>1, <2>1, NoneAssumption DEF ClaimsHeld, P
  <2>2. ASSUME Working(r) PROVE claims[P] = r
    BY <1>1, <2>2 DEF ClaimsHeld, P
  <2>3. QED
    BY <1>1, <1>2, <1>3, <2>1, <2>2 DEF ServiceTypeOK
<1>7. ClaimsHeld'
  <2>1. ASSUME NEW k \in Services \X Keys, (claims[k] # None)'
        PROVE  (Working(claims[k]) /\ Place(claims[k]) = k /\ dedup[k] = None)'
    <3>1. claims'[k] = claims[k] /\ claims[k] \in Requests \ {r}
      BY <1>1, <1>6, <2>1 DEF ServiceTypeOK
    <3>2. Working(claims[k]) /\ Place(claims[k]) = k /\ dedup[k] = None
      BY <1>1, <2>1, <3>1 DEF ClaimsHeld
    <3>3. QED
      BY <1>3, <1>4, <3>1, <3>2 DEF Working, Place
  <2>2. ASSUME NEW q \in Requests, Working(q)'
        PROVE  (claims[Place(q)] = q)'
    <3>1. q # r
      BY <1>4, <2>2 DEF Working
    <3>2. Working(q) /\ claims[Place(q)] = q /\ Place(q)' = Place(q)
      BY <1>1, <1>4, <2>2, <3>1 DEF ClaimsHeld, Working, Place
    <3>3. Place(q) \in Services \X Keys
      BY <1>1, <3>2, PlaceType DEF Working
    <3>4. QED
      BY <1>6, <3>1, <3>2, <3>3
  <2>3. QED
    BY <2>1, <2>2 DEF ClaimsHeld
<1>8. AnswersKept'
  BY <1>1, <1>3 DEF AnswersKept
<1>9. AnswersGiven'
  BY <1>1, <1>3, <1>4 DEF AnswersGiven, Place
<1>10. QED
  BY <1>5, <1>7, <1>8, <1>9 DEF ServiceInv

LEMMA ServiceInvNext == ServiceInv /\ [ServiceNext]_serviceVars => ServiceInv'
<1> SUFFICES ASSUME ServiceInv, [ServiceNext]_serviceVars PROVE ServiceInv'
  OBVIOUS
<1>1. ServiceTypeOK
  BY DEF ServiceInv
<1>2. CASE EditElsewhere
  BY <1>1, <1>2, ServiceQuiet, ServiceAssumption DEF EditElsewhere, ServiceTypeOK
<1>3. ASSUME NEW s \in Services,
             \/ \E scopes \in ScopesToChoose : Issue(s, scopes)
             \/ Rotate(s) \/ Revoke(s) \/ Delete(s) \/ Expire(s)
      PROVE  ServiceInv'
  <2>1. UnchangedWrites /\ tokens' \in 0..MaxToken /\ services' \in [Services -> Service]
    BY <1>1, <1>3, TokenSteps
  <2>2. QED
    BY <1>1, <2>1, ServiceQuiet, ServiceAssumption DEF UnchangedWrites, ServiceTypeOK
<1>4. CASE UNCHANGED serviceVars
  BY <1>1, <1>4, ServiceQuiet, ServiceAssumption DEF serviceVars, ServiceTypeOK
<1>5. QED
  BY <1>2, <1>3, <1>4, AuthenticateInv, BeginInv, ReplayInv, CommitInv, EndInv DEF ServiceNext

LEMMA ServiceInvAlways == ServiceSpec => []ServiceInv
BY ServiceInvInit, ServiceInvNext, PTL DEF ServiceSpec

(* Tokens, keys, versions and requests keep the values that service-token-cli.ts *)
(* and service-listings.ts can give them.                                       *)
THEOREM ServiceTypes == ServiceSpec => []ServiceTypeOK
<1>1. ServiceInv => ServiceTypeOK
  BY DEF ServiceInv
<1>2. QED
  BY <1>1, ServiceInvAlways, PTL

(* A key of idempotent (service-listings.ts:46) writes at most once, whatever  *)
(* requests repeat it and whenever.                                            *)
THEOREM KeysWriteOnce == ServiceSpec => []OncePerKey
<1>1. ServiceInv => OncePerKey
  BY DEF ServiceInv, AnswersKept, OncePerKey
<1>2. QED
  BY <1>1, ServiceInvAlways, PTL

(* Every answer of service-listings.ts:58-71 is that of the one write of its   *)
(* key, to the same request, with a version that the entry has had.            *)
THEOREM AnswersStayTrue == ServiceSpec => []AnswersAreTrue
<1>1. ServiceInv => AnswersAreTrue
  <2> SUFFICES ASSUME ServiceInv, NEW r \in Requests,
                      requests[r] # None, requests[r].pc = "answered"
               PROVE  /\ requests[r].answer.payload = requests[r].payload
                      /\ requests[r].answer = dedup[Place(r)]
                      /\ writes[Place(r)] = 1
                      /\ requests[r].answer.made <= version
    BY DEF AnswersAreTrue
  <2>1. Place(r) \in Services \X Keys
    BY PlaceType DEF ServiceInv
  <2>2. QED
    BY <2>1 DEF ServiceInv, AnswersGiven, AnswersKept
<1>2. QED
  BY <1>1, ServiceInvAlways, PTL

(* No command and no passing of time makes a token work again that has stopped *)
(* working (service-token-cli.ts:78).                                          *)
THEOREM DeadTokensStayDead == ServiceSpec => TokensStayDead
<1>1. ServiceInv /\ [ServiceNext]_serviceVars
        => [\A t \in 1..tokens : Works(t)' => Works(t)]_serviceVars
  <2> SUFFICES ASSUME ServiceInv, [ServiceNext]_serviceVars, NEW t \in 1..tokens,
                      NEW s \in Services, (Usable(s) /\ services[s].token = t)'
               PROVE  Works(t)
    BY DEF Works
  <2>1. ServiceTypeOK
    BY DEF ServiceInv
  <2>2. t # tokens + 1 /\ t # 0
    BY <2>1, ServiceAssumption DEF ServiceTypeOK
  <2>3. CASE UNCHANGED services
    BY <2>3 DEF Works, Usable, Alive
  <2>4. ASSUME NEW n \in Services,
               \/ \E scopes \in ScopesToChoose : Issue(n, scopes)
               \/ Rotate(n) \/ Revoke(n) \/ Delete(n) \/ Expire(n)
        PROVE  Works(t)
    <3>1. CASE s # n
      <4>1. services'[s] = services[s]
        BY <2>1, <2>4, <3>1 DEF Issue, Rotate, Revoke, Delete, Expire, ServiceTypeOK
      <4>2. QED
        BY <4>1 DEF Works, Usable, Alive
    <3>2. CASE s = n /\ ((\E scopes \in ScopesToChoose : Issue(n, scopes)) \/ Rotate(n))
      <4>1. services'[s].token = tokens + 1
        BY <2>1, <3>2 DEF Issue, Rotate, ServiceTypeOK, NoService
      <4>2. QED
        BY <2>2, <4>1
    <3>3. CASE s = n /\ (Revoke(n) \/ Delete(n) \/ Expire(n))
      <4>1. services[s] \in Service
        BY <2>1 DEF ServiceTypeOK
      <4>2. services'[s].revoked \/ services'[s].expired
        BY <2>1, <3>3, <4>1 DEF Revoke, Delete, Expire, ServiceTypeOK, Service
      <4>3. QED
        BY <4>2 DEF Usable
    <3>4. QED
      BY <2>4, <3>1, <3>2, <3>3
  <2>5. QED
    BY <2>3, <2>4
    DEF ServiceNext, EditElsewhere, Authenticate, Begin, Replay, Commit, End, serviceVars
<1>2. QED
  BY <1>1, ServiceInvAlways, PTL DEF ServiceSpec, TokensStayDead

------------------------------------------------------------------------------
(* LostAccess.  A recovery raises the version of the credentials and clears    *)
(* the keys and the codes, so that all that is found afterwards is younger:    *)
(* since bounds it from below.  A code that the account remembers is the last  *)
(* one that was mailed for its purpose, to the address that was meant.         *)

\* Passkeys are from after the last recovery, and a session in force was made
\* with none that is gone.
AccessesNew ==
  /\ since <= credentials
  /\ \A k \in Passkeys : enrolled[k] # 0 => enrolled[k] >= since
  /\ \A session \in sessions \cup starting :
       /\ session.version <= credentials
       /\ InForce(session) => \A k \in session.key : enrolled[k] # 0

\* What a code of zero, or one that was mailed since the last recovery, stands for.
Stands(c, to) == c # 0 => c \in DOMAIN mails /\ mails[c].to = to /\ mails[c].at >= since

CodesMatch ==
  /\ recovery # NoEmail =>
       /\ Stands(recovery.verification, recovery.pending)
       /\ Stands(recovery.reset, recovery.address)
       /\ recovery.reset # 0 => used[recovery.reset] = 0
  /\ \A c \in Codes : used[c] # 0 => c \in DOMAIN mails

AccessInv == AccessTypeOK /\ AccessesNew /\ CodesMatch

LEMMA AccessInvInit == AccessInit => AccessInv
<1> SUFFICES ASSUME AccessInit PROVE AccessInv
  OBVIOUS
<1>1. AccessTypeOK
  BY AccessAssumption DEF AccessInit, AccessTypeOK, Generations
<1>2. AccessesNew /\ CodesMatch
  BY DEF AccessInit, AccessesNew, CodesMatch
<1>3. QED
  BY <1>1, <1>2 DEF AccessInv

LEMMA MailedFacts ==
  ASSUME AccessTypeOK, NEW to \in Addresses, NEW purpose \in {"verify", "reset"},
         Mailed(to, purpose)
  PROVE  /\ mails' \in Seq(Message) /\ Len(mails') <= MaxCodes
         /\ Code \in Codes /\ Code \notin DOMAIN mails /\ Code # 0
         /\ DOMAIN mails' = DOMAIN mails \cup {Code}
         /\ \A c \in DOMAIN mails : mails'[c] = mails[c]
         /\ mails'[Code].to = to /\ mails'[Code].at = credentials
<1> DEFINE message == [to |-> to, purpose |-> purpose, at |-> credentials, waiting |-> TRUE]
<1>1. message \in Message /\ message.to = to /\ message.at = credentials
  BY DEF AccessTypeOK, Message
<1>2. /\ mails' = Append(mails, message) /\ Code \in Codes
      /\ mails \in Seq(Message) /\ Len(mails) <= MaxCodes
  BY DEF Mailed, AccessTypeOK
<1> HIDE DEF message
<1>3. Len(mails) + 1 <= MaxCodes
  BY <1>2, AccessAssumption DEF Code, Codes
<1>4. QED
  BY <1>1, <1>2, <1>3 DEF Code

LEMMA HeardFacts ==
  ASSUME AccessTypeOK, NEW c \in DOMAIN mails, mails' = [mails EXCEPT ![c].waiting = FALSE]
  PROVE  /\ mails' \in Seq(Message) /\ Len(mails') <= MaxCodes
         /\ DOMAIN mails' = DOMAIN mails
         /\ \A d \in DOMAIN mails : mails'[d].to = mails[d].to /\ mails'[d].at = mails[d].at
<1>1. mails \in Seq(Message) /\ Len(mails) <= MaxCodes
  BY DEF AccessTypeOK
<1>2. mails[c] \in Message
  BY <1>1
<1> DEFINE heard == [mails[c] EXCEPT !.waiting = FALSE]
<1>3. heard \in Message /\ heard.to = mails[c].to /\ heard.at = mails[c].at
  BY <1>2 DEF Message
<1>4. mails' = [mails EXCEPT ![c] = heard]
  OBVIOUS
<1> HIDE DEF heard
<1>5. QED
  <2>1. c \in 1..Len(mails)
    BY <1>1
  <2>2. heard \in Message /\ mails \in Seq(Message)
    BY <1>1, <1>3
  <2>3. /\ [mails EXCEPT ![c] = heard] \in Seq(Message)
        /\ Len([mails EXCEPT ![c] = heard]) = Len(mails)
    BY <2>1, <2>2, ExceptSeq, Zenon
  <2>4. \A j \in DOMAIN mails : mails'[j] = IF j = c THEN heard ELSE mails[j]
    BY <1>4
  <2>5. QED
    BY <1>1, <1>3, <1>4, <2>3, <2>4

LEMMA RowType ==
  ASSUME AccessTypeOK
  PROVE  /\ Row \in Recovery
         /\ recovery = NoEmail => Row.verification = 0 /\ Row.reset = 0
         /\ recovery # NoEmail => Row = recovery
<1>1. [address |-> NoAddress, pending |-> NoAddress, verification |-> 0, reset |-> 0] \in Recovery
  BY AccessAssumption DEF Recovery
<1>2. QED
  BY <1>1 DEF Row, AccessTypeOK

LEMMA ZeroCode == 0 \in 0..MaxCodes
BY AccessAssumption

\* Messages are only added and heard of, so that a code goes on to stand for
\* what it did.
LEMMA MailOnly ==
  ASSUME AccessInv, UNCHANGED <<credentials, since, enrolled, sessions, starting, adding, used>>,
         mails' \in Seq(Message), Len(mails') <= MaxCodes,
         DOMAIN mails \subseteq DOMAIN mails',
         recovery' \in Recovery \cup {NoEmail},
         recovery' # NoEmail =>
           /\ Stands(recovery.verification, recovery.pending)'
           /\ Stands(recovery.reset, recovery.address)'
           /\ recovery'.reset # 0 => used[recovery'.reset] = 0
  PROVE  AccessInv'
<1>1. AccessTypeOK' /\ AccessesNew'
  BY DEF AccessInv, AccessTypeOK, AccessesNew, InForce
<1>2. CodesMatch'
  BY DEF AccessInv, CodesMatch
<1>3. QED
  BY <1>1, <1>2 DEF AccessInv

LEMMA StillStands ==
  ASSUME NEW c, NEW to, Stands(c, to), since' = since, DOMAIN mails \subseteq DOMAIN mails',
         \A d \in DOMAIN mails : mails'[d].to = mails[d].to /\ mails'[d].at = mails[d].at
  PROVE  c # 0 => c \in DOMAIN mails' /\ mails'[c].to = to /\ mails'[c].at >= since'
BY DEF Stands

LEMMA HeardInv ==
  ASSUME AccessInv, NEW c \in DOMAIN mails, Deliver(c) \/ FailMail(c)
  PROVE  AccessInv'
<1>1. /\ mails' = [mails EXCEPT ![c].waiting = FALSE]
      /\ UNCHANGED <<credentials, since, enrolled, sessions, starting, adding, used>>
      /\ recovery' = recovery \/ recovery' = Withdrawn(c)
  BY DEF Deliver, FailMail, sessionVars
<1>2. AccessTypeOK /\ CodesMatch
  BY DEF AccessInv
<1>3. /\ mails' \in Seq(Message) /\ Len(mails') <= MaxCodes /\ DOMAIN mails' = DOMAIN mails
      /\ \A d \in DOMAIN mails : mails'[d].to = mails[d].to /\ mails'[d].at = mails[d].at
  BY <1>1, <1>2, HeardFacts
<1>4. CASE recovery' = recovery
  <2>1. recovery # NoEmail =>
          /\ Stands(recovery.verification, recovery.pending)'
          /\ Stands(recovery.reset, recovery.address)'
    BY <1>1, <1>2, <1>3, <1>4, StillStands DEF CodesMatch, Stands
  <2>2. QED
    BY <1>1, <1>2, <1>3, <1>4, <2>1, MailOnly DEF AccessTypeOK, CodesMatch
<1>5. CASE recovery # NoEmail
           /\ recovery' = [recovery EXCEPT !.pending = NoAddress, !.verification = 0]
  <2>1. recovery \in Recovery
    BY <1>2, <1>5 DEF AccessTypeOK
  <2>2. /\ recovery' \in Recovery /\ recovery'.verification = 0
        /\ recovery'.reset = recovery.reset /\ recovery'.address = recovery.address
    BY <1>5, <2>1, AccessAssumption, Zenon, ZeroCode DEF Recovery
  <2>3. Stands(recovery.verification, recovery.pending)' /\ Stands(recovery.reset, recovery.address)'
    BY <1>1, <1>2, <1>3, <1>5, <2>2, StillStands DEF CodesMatch, Stands
  <2>4. recovery'.reset # 0 => used[recovery'.reset] = 0
    BY <1>2, <1>5, <2>2 DEF CodesMatch
  <2>5. QED
    BY <1>1, <1>3, <2>2, <2>3, <2>4, MailOnly
<1>6. QED
  BY <1>1, <1>4, <1>5 DEF Withdrawn

LEMMA SetupInv ==
  ASSUME AccessInv, NEW to \in Addresses, Setup(to)
  PROVE  AccessInv'
<1>1. /\ Mailed(to, "verify")
      /\ recovery' = [Row EXCEPT !.pending = to, !.verification = Code]
      /\ UNCHANGED <<credentials, since, enrolled, sessions, starting, adding, used>>
  BY DEF Setup, sessionVars
<1>2. AccessTypeOK /\ CodesMatch /\ since <= credentials
  BY DEF AccessInv, AccessesNew
<1>3. /\ mails' \in Seq(Message) /\ Len(mails') <= MaxCodes
      /\ Code \in Codes /\ Code \notin DOMAIN mails /\ Code # 0
      /\ DOMAIN mails' = DOMAIN mails \cup {Code}
      /\ \A c \in DOMAIN mails : mails'[c] = mails[c]
      /\ mails'[Code].to = to /\ mails'[Code].at = credentials
  BY <1>1, <1>2, MailedFacts
<1>4. Row \in Recovery /\ Code \in 0..MaxCodes
  BY <1>2, <1>3, RowType, AccessAssumption DEF Codes
<1>5. /\ recovery' \in Recovery /\ recovery'.verification = Code /\ recovery'.pending = to
      /\ recovery'.reset = Row.reset /\ recovery'.address = Row.address
  BY <1>1, <1>4, Zenon DEF Recovery
<1>6. Stands(recovery.verification, recovery.pending)'
  BY <1>1, <1>2, <1>3, <1>5 DEF Stands, AccessTypeOK, Generations
<1>7. Row.reset # 0 => recovery # NoEmail /\ Row = recovery
  BY <1>2, RowType
<1>8. Stands(recovery.reset, recovery.address)' /\ (Row.reset # 0 => used[Row.reset] = 0)
  BY <1>1, <1>2, <1>3, <1>5, <1>7 DEF Stands, CodesMatch
<1>9. QED
  BY <1>1, <1>3, <1>5, <1>6, <1>8, MailOnly

LEMMA RequestRecoveryInv ==
  ASSUME AccessInv, RequestRecovery
  PROVE  AccessInv'
<1>1. /\ recovery # NoEmail /\ recovery.address # NoAddress
      /\ Mailed(recovery.address, "reset")
      /\ recovery' = [recovery EXCEPT !.reset = Code]
      /\ UNCHANGED <<credentials, since, enrolled, sessions, starting, adding, used>>
  BY DEF RequestRecovery, sessionVars
<1>2. AccessTypeOK /\ CodesMatch /\ since <= credentials
  BY DEF AccessInv, AccessesNew
<1>3. recovery \in Recovery /\ recovery.address \in Addresses
  BY <1>1, <1>2 DEF AccessTypeOK, Recovery
<1>4. /\ mails' \in Seq(Message) /\ Len(mails') <= MaxCodes
      /\ Code \in Codes /\ Code \notin DOMAIN mails /\ Code # 0
      /\ DOMAIN mails' = DOMAIN mails \cup {Code}
      /\ \A c \in DOMAIN mails : mails'[c] = mails[c]
      /\ mails'[Code].to = recovery.address /\ mails'[Code].at = credentials
  BY <1>1, <1>2, <1>3, MailedFacts
<1>5. Code \in 0..MaxCodes
  BY <1>4, AccessAssumption DEF Codes
<1>6. /\ recovery' \in Recovery /\ recovery'.reset = Code
      /\ recovery'.address = recovery.address
      /\ recovery'.verification = recovery.verification /\ recovery'.pending = recovery.pending
  BY <1>1, <1>3, <1>5, Zenon DEF Recovery
<1>7. Stands(recovery.verification, recovery.pending)' /\ Stands(recovery.reset, recovery.address)'
  BY <1>1, <1>2, <1>4, <1>6 DEF Stands, CodesMatch, AccessTypeOK, Generations
<1>8. used[Code] = 0
  BY <1>2, <1>4 DEF CodesMatch
<1>9. QED
  BY <1>1, <1>4, <1>6, <1>7, <1>8, MailOnly

LEMMA VerifyInv ==
  ASSUME AccessInv, NEW c \in DOMAIN mails, Verify(c)
  PROVE  AccessInv'
<1>1. /\ recovery # NoEmail
      /\ recovery' = [recovery EXCEPT !.address = recovery.pending, !.pending = NoAddress,
                                      !.verification = 0, !.reset = 0]
      /\ UNCHANGED <<credentials, since, mails, enrolled, sessions, starting, adding, used>>
  BY DEF Verify, Verified, sessionVars
<1>2. AccessTypeOK /\ recovery \in Recovery /\ 0 \in 0..MaxCodes
  BY <1>1, AccessAssumption DEF AccessInv, AccessTypeOK
<1>3. recovery' \in Recovery /\ recovery'.reset = 0 /\ recovery'.verification = 0
  BY <1>1, <1>2, Zenon DEF Recovery
<1>4. QED
  BY <1>1, <1>2, <1>3, MailOnly DEF Stands, AccessTypeOK

LEMMA RemoveInv ==
  ASSUME AccessInv, Remove
  PROVE  AccessInv'
BY MailOnly DEF Remove, AccessInv, AccessTypeOK, sessionVars

\* replaceLostCredentials clears what could be older than the new version.
LEMMA ReplacedInv ==
  ASSUME AccessInv, Replaced,
         used' = used \/ \E c \in DOMAIN mails : used[c] = 0 /\ used' = [used EXCEPT ![c] = @ + 1]
  PROVE  AccessInv'
<1>1. /\ credentials < MaxCredentials
      /\ credentials' = credentials + 1 /\ since' = credentials + 1
      /\ recovery' = Cleared(recovery)
      /\ enrolled' = [k \in Passkeys |-> 0]
      /\ sessions' = {}
      /\ starting' = starting \cup {[version |-> credentials + 1, key |-> {}]}
      /\ UNCHANGED <<mails, adding>>
  BY DEF Replaced
<1>2. AccessTypeOK /\ CodesMatch /\ AccessesNew
  BY DEF AccessInv
<1>3. /\ credentials \in Generations /\ credentials + 1 \in Generations
      /\ credentials \in Nat /\ 0 \in 0..MaxCredentials /\ 1 \in 0..MaxCredentials
  BY <1>1, <1>2, AccessAssumption DEF AccessTypeOK, Generations
<1>4. \/ recovery' = NoEmail
      \/ recovery' \in Recovery /\ recovery'.reset = 0 /\ recovery'.verification = 0
  <2>1. CASE recovery = NoEmail
    BY <1>1, <2>1 DEF Cleared
  <2>2. CASE recovery # NoEmail
    <3>1. recovery \in Recovery
      BY <1>2, <2>2 DEF AccessTypeOK
    <3>2. recovery' = [recovery EXCEPT !.reset = 0, !.verification = 0, !.pending = NoAddress]
      BY <1>1, <2>2 DEF Cleared
    <3>3. QED
      BY <3>1, <3>2, ZeroCode, Zenon DEF Recovery
  <2>3. QED
    BY <2>1, <2>2
<1>5. used' \in [Codes -> 0..MaxCredentials] /\ \A c \in Codes : used'[c] # 0 => c \in DOMAIN mails
  <2>1. CASE used' = used
    BY <1>2, <2>1 DEF AccessTypeOK, CodesMatch
  <2>2. ASSUME NEW c \in DOMAIN mails, used[c] = 0, used' = [used EXCEPT ![c] = @ + 1]
        PROVE  used' \in [Codes -> 0..MaxCredentials] /\ \A d \in Codes : used'[d] # 0 => d \in DOMAIN mails
    <3>1. used' = [used EXCEPT ![c] = 1]
      BY <2>2
    <3>2. QED
      BY <1>2, <1>3, <2>2, <3>1 DEF AccessTypeOK, CodesMatch
  <2>3. QED
    BY <2>1, <2>2
<1>6. [version |-> credentials + 1, key |-> {}] \in Session
  BY <1>3 DEF Session
<1>7. AccessTypeOK'
  BY <1>1, <1>2, <1>3, <1>4, <1>5, <1>6 DEF AccessTypeOK
<1>8. AccessesNew'
  <2>1. \A session \in starting : session.version <= credentials /\ session.version \in Nat
    BY <1>2 DEF AccessesNew, AccessTypeOK, Session, Generations
  <2>2. ASSUME NEW session \in starting'
        PROVE  /\ session.version <= credentials'
               /\ session.version = credentials' => session.key = {}
    BY <1>1, <1>3, <2>1
  <2>3. QED
    BY <1>1, <1>3, <2>2 DEF AccessesNew, InForce
<1>9. CodesMatch'
  BY <1>1, <1>4, <1>5 DEF CodesMatch, Stands
<1>10. QED
  BY <1>7, <1>8, <1>9 DEF AccessInv

\* Steps of sessions and passkeys, with the mail as it was.
LEMMA SessionsOnly ==
  ASSUME AccessInv, UNCHANGED <<since, recovery, mails, used>>,
         credentials' \in Generations, credentials <= credentials',
         enrolled' \in [Passkeys -> 0..MaxCredentials],
         sessions' \subseteq Session, starting' \subseteq Session, adding' \subseteq Generations,
         \A k \in Passkeys : enrolled'[k] # 0 => enrolled'[k] >= since,
         \A session \in sessions' \cup starting' :
           /\ session.version <= credentials'
           /\ session.version = credentials' => \A k \in session.key : enrolled'[k] # 0
  PROVE  AccessInv'
<1>1. AccessTypeOK'
  BY DEF AccessInv, AccessTypeOK
<1>2. AccessesNew'
  BY DEF AccessInv, AccessesNew, AccessTypeOK, Generations, InForce
<1>3. CodesMatch'
  BY DEF AccessInv, CodesMatch, Stands
<1>4. QED
  BY <1>1, <1>2, <1>3 DEF AccessInv

LEMMA SessionsInv ==
  ASSUME AccessInv, credentials' = credentials, enrolled' = enrolled,
         UNCHANGED <<since, recovery, mails, used>>, adding' \subseteq Generations,
         sessions' \cup starting' \subseteq sessions \cup starting
           \cup {session \in Session : session.version = credentials
                                       /\ \A k \in session.key : enrolled[k] # 0}
  PROVE  AccessInv'
<1>1. /\ credentials \in Generations /\ credentials \in Nat
      /\ enrolled \in [Passkeys -> 0..MaxCredentials]
      /\ sessions' \subseteq Session /\ starting' \subseteq Session
      /\ \A k \in Passkeys : enrolled[k] # 0 => enrolled[k] >= since
  BY DEF AccessInv, AccessTypeOK, AccessesNew, Generations
<1>2. ASSUME NEW session \in sessions' \cup starting'
      PROVE  /\ session.version <= credentials
             /\ session.version = credentials => \A k \in session.key : enrolled[k] # 0
  BY <1>1 DEF AccessInv, AccessesNew, InForce
<1>3. QED
  BY <1>1, <1>2, SessionsOnly

LEMMA RotateInv ==
  ASSUME AccessInv, NEW stays \in BOOLEAN, RotateCredentials(stays)
  PROVE  AccessInv'
<1>1. /\ credentials < MaxCredentials /\ credentials' = credentials + 1
      /\ sessions' = {}
      /\ starting' \subseteq starting \cup {[version |-> credentials + 1, key |-> {}]}
      /\ UNCHANGED <<since, recovery, mails, enrolled, adding, used>>
  BY DEF RotateCredentials
<1>2. AccessTypeOK /\ AccessesNew
  BY DEF AccessInv
<1>3. credentials \in Nat /\ credentials + 1 \in Generations
  BY <1>1, <1>2, AccessAssumption DEF AccessTypeOK, Generations
<1>4. [version |-> credentials + 1, key |-> {}] \in Session
  BY <1>3 DEF Session
<1>5. \A session \in starting : session.version <= credentials /\ session.version \in Nat
  BY <1>2 DEF AccessesNew, AccessTypeOK, Session, Generations
<1>6. ASSUME NEW session \in sessions' \cup starting'
      PROVE  /\ session.version <= credentials'
             /\ session.version = credentials' => \A k \in session.key : enrolled'[k] # 0
  BY <1>1, <1>3, <1>5
<1>7. /\ sessions' \subseteq Session /\ starting' \subseteq Session
      /\ credentials <= credentials' /\ credentials' \in Generations
      /\ enrolled' \in [Passkeys -> 0..MaxCredentials] /\ adding' \subseteq Generations
      /\ \A k \in Passkeys : enrolled'[k] # 0 => enrolled'[k] >= since
  <2>1. sessions' \subseteq Session /\ starting' \subseteq Session
    BY <1>1, <1>2, <1>4 DEF AccessTypeOK
  <2>2. credentials <= credentials' /\ credentials' \in Generations
    BY <1>1, <1>3
  <2>3. QED
    BY <1>1, <1>2, <2>1, <2>2 DEF AccessTypeOK, AccessesNew
<1>8. QED
  BY <1>1, <1>6, <1>7, SessionsOnly

LEMMA EnrollInv ==
  ASSUME AccessInv, NEW v \in adding, NEW k \in Passkeys, Enroll(v, k)
  PROVE  AccessInv'
<1>1. AccessTypeOK /\ AccessesNew
  BY DEF AccessInv
<1>2. /\ v = credentials /\ enrolled[k] = 0
      /\ enrolled' = [enrolled EXCEPT ![k] = v]
      /\ adding' = adding \ {v}
      /\ UNCHANGED <<credentials, since, recovery, mails, sessions, starting, used>>
  BY DEF Enroll, MayEnroll
<1>3. v \in Generations /\ v \in 0..MaxCredentials /\ v # 0 /\ v >= since
  BY <1>1, <1>2, AccessAssumption DEF AccessTypeOK, AccessesNew, Generations
<1>4. /\ enrolled' \in [Passkeys -> 0..MaxCredentials]
      /\ \A p \in Passkeys : enrolled'[p] # 0 => enrolled'[p] >= since
      /\ \A p \in Passkeys : enrolled[p] # 0 => enrolled'[p] # 0
  BY <1>1, <1>2, <1>3 DEF AccessTypeOK, AccessesNew
<1>5. ASSUME NEW session \in sessions' \cup starting'
      PROVE  /\ session.version <= credentials'
             /\ session.version = credentials' => \A p \in session.key : enrolled'[p] # 0
  <2>1. session \in Session /\ session \in sessions \cup starting
    BY <1>1, <1>2 DEF AccessTypeOK
  <2>2. \A p \in session.key : p \in Passkeys
    BY <2>1 DEF Session
  <2>3. QED
    BY <1>1, <1>2, <1>4, <2>1, <2>2 DEF AccessesNew, InForce
<1>6. QED
  BY <1>1, <1>2, <1>4, <1>5, SessionsOnly DEF AccessTypeOK, Generations

LEMMA AccessInvNext == AccessInv /\ [AccessNext]_accessVars => AccessInv'
<1> SUFFICES ASSUME AccessInv, [AccessNext]_accessVars PROVE AccessInv'
  OBVIOUS
<1>1. AccessTypeOK /\ credentials \in Generations /\ adding \subseteq Generations
  BY DEF AccessInv, AccessTypeOK
<1>2. CASE EmailSettings
  BY <1>2, SetupInv, VerifyInv, RemoveInv DEF EmailSettings
<1>3. CASE RecoverForm
  <2>1. ASSUME NEW c \in DOMAIN mails, RecoverByMail(c) PROVE AccessInv'
    <3>1. recovery # NoEmail /\ recovery.reset = c /\ c # 0
      BY <1>1, <2>1 DEF RecoverByMail, AccessTypeOK
    <3>2. used[c] = 0
      BY <3>1 DEF AccessInv, CodesMatch
    <3>3. QED
      BY <2>1, <3>2, ReplacedInv DEF RecoverByMail
  <2>2. CASE RecoverByPhrase
    BY <2>2, ReplacedInv DEF RecoverByPhrase
  <2>3. QED
    BY <1>3, <2>1, <2>2, RequestRecoveryInv DEF RecoverForm
<1>4. CASE PasskeyPrompts
  <2>1. CASE AskToRegister
    BY <1>1, <2>1, SessionsInv DEF AskToRegister
  <2>2. ASSUME NEW v \in adding, EndRegistration(v) PROVE AccessInv'
    BY <1>1, <2>2, SessionsInv DEF EndRegistration
  <2>3. ASSUME NEW k \in Passkeys, SignInWithPasskey(k) PROVE AccessInv'
    <3>1. [version |-> credentials, key |-> {k}] \in Session
      BY <1>1 DEF Session
    <3>2. QED
      BY <1>1, <2>3, <3>1, SessionsInv DEF SignInWithPasskey
  <2>4. QED
    BY <1>4, <2>1, <2>2, <2>3, EnrollInv DEF PasskeyPrompts
<1>5. CASE SignIn
  <2> DEFINE session == [version |-> credentials, key |-> {}]
  <2>1. session \in Session /\ session.version = credentials /\ session.key = {}
    BY <1>1 DEF Session
  <2>2. /\ UNCHANGED <<credentials, since, recovery, mails, enrolled, sessions, adding, used>>
        /\ starting' = starting \cup {session}
    BY <1>5 DEF SignIn
  <2> HIDE DEF session
  <2>3. QED
    BY <1>1, <2>1, <2>2, SessionsInv
<1>6. ASSUME NEW session \in starting, BeginSession(session) PROVE AccessInv'
  BY <1>1, <1>6, SessionsInv DEF BeginSession
<1>7. ASSUME NEW session, EndSession(session) PROVE AccessInv'
  BY <1>1, <1>7, SessionsInv DEF EndSession
<1>8. CASE UNCHANGED accessVars
  BY <1>1, <1>8, SessionsInv DEF accessVars
<1>9. QED
  BY <1>2, <1>3, <1>4, <1>5, <1>6, <1>7, <1>8, HeardInv, RotateInv DEF AccessNext

LEMMA AccessInvAlways == AccessSpec => []AccessInv
BY AccessInvInit, AccessInvNext, PTL DEF AccessSpec

(* The rows and messages of server/routes/email.ts and of the passkeys in      *)
(* server/routes/auth.ts keep the shapes that the code gives them.             *)
THEOREM AccessTypes == AccessSpec => []AccessTypeOK
<1>1. AccessInv => AccessTypeOK
  BY DEF AccessInv
<1>2. QED
  BY <1>1, AccessInvAlways, PTL

(* replaceLostCredentials leaves no passkey, code, session or registration     *)
(* that is older (docs/email-recovery.md), whatever was under way.             *)
THEOREM RecoveryEndsEveryAccess == AccessSpec => []RecoveryEndsAccess
<1>1. AccessInv => RecoveryEndsAccess
  BY DEF AccessInv, AccessesNew, CodesMatch, Stands, RecoveryEndsAccess
<1>2. QED
  BY <1>1, AccessInvAlways, PTL

(* Only the address that an account has, which a code verified, recovers it by *)
(* mail, and each code does so once (docs/email-recovery.md).                  *)
THEOREM VerifiedAddressRecovers == AccessSpec => OnlyVerifiedRecovers
<1> DEFINE Step ==
      /\ \A c \in Codes : used'[c] # used[c] =>
           used[c] = 0 /\ recovery # NoEmail /\ mails[c].to = recovery.address
      /\ recovery' # NoEmail /\ recovery'.address \notin {NoAddress, Row.address} =>
           Row.verification # 0 /\ mails[Row.verification].to = recovery'.address
<1>1. AccessInv /\ [AccessNext]_accessVars => [Step]_accessVars
  <2> SUFFICES ASSUME AccessInv, [AccessNext]_accessVars PROVE Step
    BY DEF accessVars
  <2>1. AccessTypeOK /\ CodesMatch
    BY DEF AccessInv
  <2>2. \/ used' = used
        \/ \E c \in DOMAIN mails : RecoverByMail(c)
    BY DEF AccessNext, EmailSettings, RecoverForm, PasskeyPrompts, accessVars, Setup, Verify, Remove,
       RequestRecovery, RecoverByPhrase, AskToRegister, EndRegistration, Enroll, SignInWithPasskey,
       Deliver, FailMail, SignIn, BeginSession, EndSession, RotateCredentials
  <2>3. ASSUME NEW c \in Codes, used'[c] # used[c]
        PROVE  used[c] = 0 /\ recovery # NoEmail /\ mails[c].to = recovery.address
    <3>1. PICK d \in DOMAIN mails : RecoverByMail(d)
      BY <2>2, <2>3
    <3>2. recovery # NoEmail /\ recovery.reset = d /\ used' = [used EXCEPT ![d] = @ + 1] /\ d # 0
      BY <2>1, <3>1 DEF RecoverByMail, AccessTypeOK
    <3>3. d = c
      BY <2>1, <2>3, <3>2 DEF AccessTypeOK
    <3>4. QED
      BY <2>1, <3>2, <3>3 DEF CodesMatch, Stands
  <2>4. \/ recovery' = NoEmail
        \/ recovery'.address = Row.address
        \/ \E c \in DOMAIN mails : Verify(c)
    <3>1. Row \in Recovery /\ (recovery # NoEmail => recovery \in Recovery /\ Row = recovery)
      BY <2>1, RowType DEF AccessTypeOK
    <3>2. CASE recovery' = recovery
      BY <3>1, <3>2
    <3>3. ASSUME NEW to, Setup(to) PROVE recovery'.address = Row.address
      BY <3>1, <3>3, Zenon DEF Setup, Recovery
    <3>4. CASE RequestRecovery
      BY <3>1, <3>4, Zenon DEF RequestRecovery, Recovery
    <3>5. ASSUME recovery # NoEmail,
                 \/ recovery' = [recovery EXCEPT !.pending = NoAddress, !.verification = 0]
                 \/ recovery' = [recovery EXCEPT !.reset = 0, !.verification = 0,
                                                 !.pending = NoAddress]
          PROVE  recovery'.address = Row.address
      BY <3>1, <3>5, Zenon DEF Recovery
    <3>6. CASE Replaced
      BY <3>2, <3>5, <3>6 DEF Replaced, Cleared
    <3>7. ASSUME NEW c, FailMail(c) PROVE recovery' = recovery \/ recovery'.address = Row.address
      BY <3>5, <3>7 DEF FailMail, Withdrawn
    <3>8. CASE UNCHANGED accessVars
      BY <3>2, <3>8 DEF accessVars
    <3>9. QED
      BY <3>2, <3>3, <3>4, <3>6, <3>7, <3>8
      DEF AccessNext, EmailSettings, RecoverForm, PasskeyPrompts, Remove, RecoverByMail,
          RecoverByPhrase, AskToRegister, EndRegistration, Enroll, SignInWithPasskey,
          Deliver, SignIn, BeginSession, EndSession, RotateCredentials
  <2>5. ASSUME NEW c \in DOMAIN mails, Verify(c)
        PROVE  Row.verification # 0 /\ mails[Row.verification].to = recovery'.address
    <3>1. recovery # NoEmail /\ recovery.verification = c /\ c # 0 /\ Row = recovery
      BY <2>1, <2>5 DEF Verify, AccessTypeOK, Row
    <3>2. recovery \in Recovery
      BY <2>1, <3>1 DEF AccessTypeOK
    <3>3. recovery'.address = recovery.pending
      BY <2>5, <3>2, Zenon DEF Verify, Verified, Recovery
    <3>4. QED
      BY <2>1, <3>1, <3>3 DEF CodesMatch, Stands
  <2>6. QED
    BY <2>3, <2>4, <2>5
<1>2. QED
  BY <1>1, AccessInvAlways, PTL DEF AccessSpec, OnlyVerifiedRecovers

------------------------------------------------------------------------------
(* Moderation.  A call repeats what its note was typed for, and what it has    *)
(* read stays as it is while it holds the rows: the account from its first     *)
(* check on, the report from the second, the entry from the third.             *)

\* A report is open at version 1 and closed by its decision.
ReportsKept ==
  /\ \A r \in Reports : reports[r] # Absent =>
       (reports[r].status = "open" <=> reports[r].version = 1)
  /\ \A d \in decisions : reports[d.report] # Absent /\ reports[d.report].status = "closed"

\* Text in a form was typed for what the form shows.
PagesKept == \A a \in Editors, r \in Reports :
  /\ queue[a].shown[r] # 0 => queue[a].entry # 0 /\ reports[r] # Absent
  /\ queue[a].note[r] \in {Absent, Sent, KeyOf(queue[a], r)}

CallKept(c) ==
  /\ reports[calls[c].report] # Absent
  /\ calls[c].typed = [report |-> calls[c].version, entry |-> calls[c].entry]
  /\ calls[c].stage # "sent" =>
       editors[calls[c].by] = [staff |-> TRUE, session |-> calls[c].session]
  /\ calls[c].stage = "checked" => AsSeen(calls[c])

CallsKept ==
  /\ \A c \in Calls : calls[c] # Absent => CallKept(c)
  /\ \A c, d \in Running({"claimed", "checked"}) : calls[c].report = calls[d].report => c = d

ModerationInv == ModerationTypeOK /\ ReportsKept /\ PagesKept /\ CallsKept

LEMMA FiledIsThere == Absent \notin Report
<1>1. "none" \in DOMAIN Absent
  BY DEF Absent
<1>2. \A row \in Report : "none" \notin DOMAIN row
  BY DEF Report
<1>3. QED
  BY <1>1, <1>2

LEMMA ModerationInvInit == ModerationInit => ModerationInv
<1> SUFFICES ASSUME ModerationInit PROVE ModerationInv
  OBVIOUS
<1>1. 0 \in 0..MaxChanges /\ 1 \in Versions
  BY ModerationAssumption DEF Versions
<1>2. ModerationTypeOK
  <2>1. reported \in Entry
    BY <1>1 DEF ModerationInit, Entry
  <2>2. editors \in [Editors -> Account]
    BY <1>1 DEF ModerationInit, Account
  <2>3. queue \in [Editors -> Queue]
    <3>1. Closed \in [Reports -> 0..2] /\ Blank \in [Reports -> Key \cup {Absent, Sent}]
      BY DEF Closed, Blank
    <3>2. QED
      BY <1>1, <3>1 DEF ModerationInit, Queue
  <2>4. QED
    BY <2>1, <2>2, <2>3 DEF ModerationInit, ModerationTypeOK
<1>3. ReportsKept /\ PagesKept /\ CallsKept
  BY DEF ModerationInit, ReportsKept, PagesKept, CallsKept, Running, Closed, Blank
<1>4. QED
  BY <1>2, <1>3 DEF ModerationInv

Alike(x, y) ==
  /\ x.by = y.by /\ x.session = y.session /\ x.report = y.report /\ x.version = y.version
  /\ x.entry = y.entry /\ x.typed = y.typed /\ x.stage = y.stage

\* Calls end or go unheard while the rows that they hold stay.
LEMMA CallsStay ==
  ASSUME ModerationTypeOK, CallsKept,
         \A c \in Calls : \/ calls'[c] = Absent
                          \/ calls[c] # Absent /\ Alike(calls'[c], calls[c]),
         \A r \in Reports : reports[r] # Absent => reports'[r] # Absent,
         \A c \in Calls : calls[c] # Absent /\ calls[c].stage # "sent" =>
           editors'[calls[c].by] = editors[calls[c].by],
         \A c \in Calls : calls[c] # Absent /\ calls'[c] # Absent /\ calls[c].stage = "checked" =>
           reported' = reported /\ reports'[calls[c].report] = reports[calls[c].report]
  PROVE  CallsKept'
<1>1. ASSUME NEW c \in Calls, calls'[c] # Absent
      PROVE  CallKept(c)'
  <2>1. calls[c] # Absent /\ Alike(calls'[c], calls[c]) /\ CallKept(c)
    BY <1>1 DEF CallsKept
  <2>2. calls[c] \in Call /\ calls[c].report \in Reports
    BY <2>1 DEF ModerationTypeOK, Call
  <2>3. /\ reports'[calls'[c].report] # Absent
        /\ calls'[c].typed = [report |-> calls'[c].version, entry |-> calls'[c].entry]
    BY <2>1, <2>2 DEF CallKept, Alike
  <2>4. calls'[c].stage # "sent" =>
          editors'[calls'[c].by] = [staff |-> TRUE, session |-> calls'[c].session]
    BY <2>1, <2>2 DEF CallKept, Alike
  <2>5. ASSUME calls'[c].stage = "checked" PROVE AsSeen(calls[c])'
    <3>1. calls[c].stage = "checked" /\ AsSeen(calls[c])
      BY <2>1, <2>5 DEF CallKept, Alike
    <3>2. reported' = reported /\ reports'[calls[c].report] = reports[calls[c].report]
      BY <1>1, <2>1, <3>1
    <3>3. QED
      BY <2>1, <3>1, <3>2 DEF AsSeen, SameReport, SameEntry, Alike
  <2>6. QED
    BY <2>3, <2>4, <2>5 DEF CallKept
<1>2. \A c \in Running({"claimed", "checked"})' :
        c \in Running({"claimed", "checked"}) /\ calls'[c].report = calls[c].report
  BY DEF Running, Alike
<1>3. QED
  BY <1>1, <1>2 DEF CallsKept

\* Calls, pages and decisions are not touched.
LEMMA RowsOnly ==
  ASSUME ModerationInv, UNCHANGED <<decisions, queue, calls>>,
         reported' \in Entry, reports' \in [Reports -> Report \cup {Absent}],
         editors' \in [Editors -> Account],
         \A r \in Reports : reports[r] # Absent => reports'[r] = reports[r],
         \A r \in Reports : reports[r] = Absent /\ reports'[r] # Absent =>
           reports'[r] = [status |-> "open", version |-> 1],
         \A c \in Calls : calls[c] # Absent /\ calls[c].stage # "sent" =>
           editors'[calls[c].by] = editors[calls[c].by],
         \A c \in Calls : calls[c] # Absent /\ calls[c].stage = "checked" => reported' = reported
  PROVE  ModerationInv'
<1>1. ModerationTypeOK /\ ReportsKept /\ PagesKept /\ CallsKept
  BY DEF ModerationInv
<1>2. ModerationTypeOK'
  BY <1>1 DEF ModerationTypeOK
<1>3. ReportsKept'
  <2>1. \A d \in decisions : d.report \in Reports
    BY <1>1 DEF ModerationTypeOK, Decision
  <2>2. QED
    BY <1>1, <2>1 DEF ReportsKept
<1>4. PagesKept'
  BY <1>1 DEF PagesKept, KeyOf
<1>5. CallsKept'
  <2>1. \A c \in Calls : calls[c] # Absent => calls[c].report \in Reports /\ CallKept(c)
    BY <1>1 DEF ModerationTypeOK, Call, CallsKept
  <2>2. \A c \in Calls : calls[c] # Absent => reports[calls[c].report] # Absent
    BY <2>1 DEF CallKept
  <2>3. \A c \in Calls : \/ calls'[c] = Absent
                         \/ calls[c] # Absent /\ Alike(calls'[c], calls[c])
    BY DEF Alike
  <2>4. \A c \in Calls : calls[c] # Absent =>
          reports'[calls[c].report] = reports[calls[c].report]
    BY <2>1, <2>2
  <2>5. \A r \in Reports : reports[r] # Absent => reports'[r] # Absent
    OBVIOUS
  <2>6. QED
    BY <1>1, <2>3, <2>4, <2>5, CallsStay
<1>6. QED
  BY <1>2, <1>3, <1>4, <1>5 DEF ModerationInv

LEMMA RowStepsInv ==
  ASSUME ModerationInv,
         \/ \E r \in Reports : FileReport(r)
         \/ \E status \in {"published", "archived"} : ChangeEntry(status)
         \/ DeleteEntry
         \/ \E a \in Editors, staff \in BOOLEAN : ChangeAuthority(a, staff)
         \/ UNCHANGED moderationVars
  PROVE  ModerationInv'
<1>1. ModerationTypeOK
  BY DEF ModerationInv
<1>2. ASSUME NEW r \in Reports, FileReport(r) PROVE ModerationInv'
  <2>1. [status |-> "open", version |-> 1] \in Report
    BY DEF Report
  <2>2. QED
    BY <1>1, <1>2, <2>1, RowsOnly DEF FileReport, ModerationTypeOK
<1>3. ASSUME MayChange
      PROVE  \A c \in Calls : calls[c] # Absent => calls[c].stage # "checked"
  BY <1>3 DEF MayChange, EntryLocked, Running
<1>4. ASSUME NEW status \in {"published", "archived"}, ChangeEntry(status) PROVE ModerationInv'
  <2>1. reported' \in Entry
    BY <1>1, <1>4, ModerationAssumption DEF ChangeEntry, ModerationTypeOK, Entry, Versions
  <2>2. QED
    BY <1>1, <1>3, <1>4, <2>1, RowsOnly DEF ChangeEntry, ModerationTypeOK
<1>5. CASE DeleteEntry
  <2>1. reported' \in Entry
    BY <1>1, <1>5 DEF DeleteEntry, ModerationTypeOK, Entry
  <2>2. QED
    BY <1>1, <1>3, <1>5, <2>1, RowsOnly DEF DeleteEntry, ModerationTypeOK
<1>6. ASSUME NEW a \in Editors, NEW staff \in BOOLEAN, ChangeAuthority(a, staff)
      PROVE  ModerationInv'
  <2>1. editors[a].session + 1 \in 0..MaxChanges
    BY <1>1, <1>6, ModerationAssumption DEF ChangeAuthority, ModerationTypeOK, Account
  <2>2. [staff |-> staff, session |-> editors[a].session + 1] \in Account
    BY <2>1 DEF Account
  <2>3. editors' \in [Editors -> Account] /\ \A b \in Editors \ {a} : editors'[b] = editors[b]
    BY <1>1, <1>6, <2>2 DEF ChangeAuthority, ModerationTypeOK
  <2>4. ASSUME NEW c \in Calls, calls[c] # Absent, calls[c].stage # "sent"
        PROVE  calls[c].by \in Editors \ {a}
    BY <1>1, <1>6, <2>4 DEF ChangeAuthority, LockedAccounts, Running, ModerationTypeOK, Call
  <2>5. QED
    BY <1>1, <1>6, <2>3, <2>4, RowsOnly DEF ChangeAuthority, ModerationTypeOK
<1>7. CASE UNCHANGED moderationVars
  BY <1>1, <1>7, RowsOnly DEF moderationVars, ModerationTypeOK
<1>8. QED
  BY <1>2, <1>4, <1>5, <1>6, <1>7

\* The pages change; calls at most go unheard.
LEMMA PagesOnly ==
  ASSUME ModerationInv, UNCHANGED <<reported, reports, decisions, editors>>,
         queue' \in [Editors -> Queue], PagesKept',
         calls' \in [Calls -> Call \cup {Absent}],
         \A c \in Calls : \/ calls'[c] = Absent
                          \/ calls[c] # Absent /\ Alike(calls'[c], calls[c])
  PROVE  ModerationInv'
<1>1. ModerationTypeOK /\ ReportsKept /\ CallsKept
  BY DEF ModerationInv
<1>2. ModerationTypeOK'
  BY <1>1 DEF ModerationTypeOK
<1>3. ReportsKept'
  BY <1>1 DEF ReportsKept
<1>4. CallsKept'
  BY <1>1, CallsStay
<1>5. QED
  BY <1>2, <1>3, <1>4 DEF ModerationInv

LEMMA UnheardCall ==
  ASSUME NEW call \in Call
  PROVE  /\ [call EXCEPT !.heard = FALSE] \in Call
         /\ Alike([call EXCEPT !.heard = FALSE], call)
BY DEF Call, Alike

LEMMA SameCallsAlike ==
  ASSUME ModerationInv, calls' = calls
  PROVE  /\ calls' \in [Calls -> Call \cup {Absent}]
         /\ \A c \in Calls : calls'[c] = Absent \/ (calls[c] # Absent /\ Alike(calls'[c], calls[c]))
BY DEF ModerationInv, ModerationTypeOK, Alike

LEMMA ReadReportsInv ==
  ASSUME ModerationInv, NEW a \in Editors, ReadReports(a)
  PROVE  ModerationInv'
<1>1. ModerationTypeOK /\ ReportsKept /\ PagesKept
  BY DEF ModerationInv
<1> DEFINE seen == [r \in Reports |-> IF r \in Open THEN reports[r].version ELSE 0]
           new == [queue[a] EXCEPT !.entry = reported.version, !.shown = seen]
           note == [r \in Reports |-> IF Remounted(queue[a], new, r) THEN Absent
                                      ELSE queue[a].note[r]]
<1>2. queue[a] \in Queue /\ reported.version \in Versions
  BY <1>1 DEF ModerationTypeOK, Entry
<1>3. seen \in [Reports -> 0..2]
  BY <1>1 DEF Open, ModerationTypeOK, Report
<1>4. \A r \in Reports : seen[r] # 0 => reports[r] # Absent
  BY DEF Open
<1> HIDE DEF seen
<1>5. /\ new \in Queue /\ new.entry = reported.version /\ new.shown = seen
      /\ new.note = queue[a].note
  BY <1>2, <1>3, Zenon DEF Queue
<1> HIDE DEF new
<1>6. note \in [Reports -> Key \cup {Absent, Sent}]
  BY <1>2 DEF Queue
<1>7. [new EXCEPT !.note = note] = Refreshed(a)
  BY <1>5 DEF Refreshed, new, seen
<1>8. \A r \in Reports : note[r] \in {Absent, Sent, KeyOf(new, r)}
  BY <1>1 DEF PagesKept, Remounted
<1> HIDE DEF note
<1>9. /\ Refreshed(a) \in Queue /\ Refreshed(a).entry = reported.version
      /\ Refreshed(a).shown = seen /\ Refreshed(a).note = note
  BY <1>5, <1>6, <1>7, Zenon DEF Queue
<1>10. queue' = [queue EXCEPT ![a] = Refreshed(a)] /\ UNCHANGED <<reported, reports, decisions, editors, calls>>
  BY DEF ReadReports
<1>11. queue' \in [Editors -> Queue] /\ queue'[a] = Refreshed(a)
       /\ \A b \in Editors \ {a} : queue'[b] = queue[b]
  BY <1>1, <1>9, <1>10 DEF ModerationTypeOK
<1>12. \A r \in Reports : KeyOf(queue'[a], r) = KeyOf(new, r)
  BY <1>5, <1>9, <1>11 DEF KeyOf
<1>13. reported.version # 0
  BY <1>2, ModerationAssumption DEF Versions
<1>14. PagesKept'
  BY <1>1, <1>4, <1>8, <1>9, <1>10, <1>11, <1>12, <1>13 DEF PagesKept, KeyOf
<1>15. QED
  BY <1>10, <1>11, <1>14, PagesOnly, SameCallsAlike

LEMMA LeavesInv ==
  ASSUME ModerationInv, NEW a \in Editors, NEW session \in 0..MaxChanges, Leaves(a, session)
  PROVE  ModerationInv'
<1>1. ModerationTypeOK /\ PagesKept
  BY DEF ModerationInv
<1> DEFINE page == [session |-> session, entry |-> 0, shown |-> Closed, note |-> Blank]
<1>2. page \in Queue /\ page.shown = Closed /\ page.note = Blank
  <2>1. Closed \in [Reports -> 0..2] /\ Blank \in [Reports -> Key \cup {Absent, Sent}]
    BY DEF Closed, Blank
  <2>2. QED
    BY <2>1 DEF Queue
<1>3. /\ queue' = [queue EXCEPT ![a] = page]
      /\ calls' = [c \in Calls |-> IF calls[c] = Absent \/ calls[c].by # a THEN calls[c]
                                   ELSE [calls[c] EXCEPT !.heard = FALSE]]
      /\ UNCHANGED <<reported, reports, decisions, editors>>
  BY DEF Leaves
<1> HIDE DEF page
<1>4. queue' \in [Editors -> Queue] /\ queue'[a] = page
      /\ \A b \in Editors \ {a} : queue'[b] = queue[b]
  BY <1>1, <1>2, <1>3 DEF ModerationTypeOK
<1>5. \A r \in Reports : page.shown[r] = 0 /\ page.note[r] = Absent
  BY <1>2 DEF Closed, Blank
<1>6. PagesKept'
  BY <1>1, <1>3, <1>4, <1>5 DEF PagesKept, KeyOf
<1>7. ASSUME NEW c \in Calls
      PROVE  /\ calls'[c] \in Call \cup {Absent}
             /\ calls'[c] = Absent \/ (calls[c] # Absent /\ Alike(calls'[c], calls[c]))
  <2>1. CASE calls[c] = Absent \/ calls[c].by # a
    BY <1>1, <1>3, <2>1 DEF ModerationTypeOK, Alike
  <2>2. CASE calls[c] # Absent /\ calls[c].by = a
    <3>1. calls[c] \in Call /\ calls'[c] = [calls[c] EXCEPT !.heard = FALSE]
      BY <1>1, <1>3, <2>2 DEF ModerationTypeOK
    <3>2. QED
      BY <2>2, <3>1, UnheardCall
  <2>3. QED
    BY <2>1, <2>2
<1>8. calls' \in [Calls -> Call \cup {Absent}]
  BY <1>3, <1>7
<1>9. QED
  BY <1>3, <1>4, <1>6, <1>7, <1>8, PagesOnly

\* A form takes a text for its key, or marks that its text was sent.
LEMMA NoteWritten ==
  ASSUME ModerationTypeOK, PagesKept, NEW a \in Editors, NEW r \in Reports,
         NEW x \in {KeyOf(queue[a], r), Sent},
         queue[a].shown[r] # 0 \/ x = Sent,
         queue' = [queue EXCEPT ![a].note[r] = x],
         \A q \in Reports : reports[q] # Absent => reports'[q] # Absent
  PROVE  /\ queue' \in [Editors -> Queue]
         /\ PagesKept'
<1>1. queue[a] \in Queue /\ queue[a].note \in [Reports -> Key \cup {Absent, Sent}]
  BY DEF ModerationTypeOK, Queue
<1>2. x \in Key \cup {Absent, Sent}
  <2>1. CASE x = KeyOf(queue[a], r) /\ queue[a].shown[r] # 0
    <3>1. queue[a].shown[r] \in {1, 2} /\ queue[a].entry \in Versions
      BY <1>1, <2>1 DEF PagesKept, Queue
    <3>2. QED
      BY <2>1, <3>1 DEF KeyOf, Key
  <2>2. QED
    BY <2>1
<1> DEFINE note == [queue[a].note EXCEPT ![r] = x]
           page == [queue[a] EXCEPT !.note = note]
<1>3. note \in [Reports -> Key \cup {Absent, Sent}] /\ note[r] = x
      /\ \A q \in Reports \ {r} : note[q] = queue[a].note[q]
  BY <1>1, <1>2
<1>4. queue' = [queue EXCEPT ![a] = page]
  OBVIOUS
<1> HIDE DEF note
<1>5. page \in Queue /\ page.note = note /\ page.entry = queue[a].entry /\ page.shown = queue[a].shown
  BY <1>1, <1>3, Zenon DEF Queue
<1> HIDE DEF page
<1>6. queue' \in [Editors -> Queue] /\ queue'[a] = page
      /\ \A b \in Editors \ {a} : queue'[b] = queue[b]
  BY <1>4, <1>5 DEF ModerationTypeOK
<1>7. \A q \in Reports : KeyOf(page, q) = KeyOf(queue[a], q)
  BY <1>5 DEF KeyOf
<1>8. \A q \in Reports : page.note[q] \in {Absent, Sent, KeyOf(page, q)}
  BY <1>3, <1>5, <1>7 DEF PagesKept
<1>9. ASSUME NEW b \in Editors, NEW q \in Reports
      PROVE  (/\ queue[b].shown[q] # 0 => queue[b].entry # 0 /\ reports[q] # Absent
              /\ queue[b].note[q] \in {Absent, Sent, KeyOf(queue[b], q)})'
  <2>1. CASE b = a
    BY <1>5, <1>6, <1>8, <2>1 DEF PagesKept, KeyOf
  <2>2. CASE b # a
    BY <1>6, <2>2 DEF PagesKept, KeyOf
  <2>3. QED
    BY <2>1, <2>2
<1>10. QED
  BY <1>6, <1>9 DEF PagesKept

LEMMA UnheardInv ==
  ASSUME ModerationInv, NEW c \in Calls, GiveUpDecision(c) \/ Abort(c)
  PROVE  ModerationInv'
<1>1. ModerationTypeOK /\ PagesKept /\ calls[c] # Absent
  BY DEF ModerationInv, GiveUpDecision, Abort
<1>2. calls[c] \in Call
  BY <1>1 DEF ModerationTypeOK
<1>3. /\ \/ calls' = [calls EXCEPT ![c] = [calls[c] EXCEPT !.heard = FALSE]]
         \/ calls' = [calls EXCEPT ![c] = Absent]
      /\ UNCHANGED <<reported, reports, decisions, editors, queue>>
  BY DEF GiveUpDecision, Abort
<1>4. [calls[c] EXCEPT !.heard = FALSE] \in Call /\ Alike([calls[c] EXCEPT !.heard = FALSE], calls[c])
  BY <1>2, UnheardCall
<1>5. calls' \in [Calls -> Call \cup {Absent}]
  BY <1>1, <1>3, <1>4 DEF ModerationTypeOK
<1>6. \A d \in Calls \ {c} : calls'[d] = Absent \/ (calls[d] # Absent /\ Alike(calls'[d], calls[d]))
  BY <1>1, <1>3 DEF ModerationTypeOK, Alike
<1>7. calls'[c] = Absent \/ Alike(calls'[c], calls[c])
  BY <1>1, <1>3, <1>4 DEF ModerationTypeOK
<1>8. PagesKept' /\ queue' \in [Editors -> Queue]
  BY <1>1, <1>3 DEF PagesKept, KeyOf, ModerationTypeOK
<1>9. QED
  BY <1>1, <1>3, <1>5, <1>6, <1>7, <1>8, PagesOnly

\* One call is in a new stage, in which it is kept as well.
LEMMA OneCall ==
  ASSUME ModerationInv, UNCHANGED <<reported, reports, decisions, editors, queue>>,
         NEW c \in Calls, NEW call \in Call, calls' = [calls EXCEPT ![c] = call],
         CallKept(c)',
         call.stage \in {"claimed", "checked"} =>
           \A d \in Running({"claimed", "checked"}) \ {c} : calls[d].report # call.report
  PROVE  ModerationInv'
<1>1. ModerationTypeOK /\ ReportsKept /\ PagesKept /\ CallsKept
  BY DEF ModerationInv
<1>2. calls'[c] = call /\ \A d \in Calls \ {c} : calls'[d] = calls[d]
  BY <1>1 DEF ModerationTypeOK
<1>3. ModerationTypeOK'
  BY <1>1 DEF ModerationTypeOK
<1>4. ReportsKept' /\ PagesKept'
  BY <1>1 DEF ReportsKept, PagesKept, KeyOf
<1>5. CallsKept'
  <2>1. ASSUME NEW d \in Calls \ {c}, (calls[d] # Absent)' PROVE CallKept(d)'
    BY <1>1, <1>2, <2>1 DEF CallsKept, CallKept, AsSeen, SameReport, SameEntry
  <2>2. ASSUME NEW d \in Calls \ {c}, d \in Running({"claimed", "checked"})'
        PROVE  d \in Running({"claimed", "checked"}) /\ calls'[d] = calls[d]
    BY <1>2, <2>2 DEF Running
  <2>3. c \in Running({"claimed", "checked"})' => call.stage \in {"claimed", "checked"}
    BY <1>2 DEF Running
  <2>4. \A d, e \in Running({"claimed", "checked"})' :
          calls'[d].report = calls'[e].report => d = e
    <3>1. Running({"claimed", "checked"})' \subseteq Calls
      BY DEF Running
    <3>2. QED
      BY <1>1, <1>2, <2>2, <2>3, <3>1 DEF CallsKept
  <2>5. QED
    BY <2>1, <2>4 DEF CallsKept
<1>6. QED
  BY <1>3, <1>4, <1>5 DEF ModerationInv

LEMMA SendDecisionInv ==
  ASSUME ModerationInv, NEW a \in Editors, NEW r \in Reports, NEW c \in Calls,
         SendDecision(a, r, c)
  PROVE  ModerationInv'
<1>1. ModerationTypeOK /\ PagesKept
  BY DEF ModerationInv
<1> DEFINE call == [by |-> a, session |-> queue[a].session, report |-> r,
                    version |-> queue[a].shown[r], entry |-> queue[a].entry,
                    typed |-> queue[a].note[r], heard |-> TRUE, stage |-> "sent"]
<1>2. /\ queue[a].shown[r] # 0 /\ queue[a].note[r] \notin {Absent, Sent}
      /\ calls' = [calls EXCEPT ![c] = call]
      /\ UNCHANGED <<reported, reports, decisions, editors, queue>>
  BY DEF SendDecision
<1>3. queue[a] \in Queue
  BY <1>1 DEF ModerationTypeOK
<1>4. /\ queue[a].session \in 0..MaxChanges /\ queue[a].shown[r] \in {1, 2}
      /\ queue[a].entry \in Versions /\ reports[r] # Absent
      /\ queue[a].note[r] \in Key
      /\ queue[a].note[r] = [report |-> queue[a].shown[r], entry |-> queue[a].entry]
  BY <1>1, <1>2, <1>3 DEF PagesKept, Queue, KeyOf
<1>5. /\ call \in Call /\ call.stage = "sent" /\ call.report = r
      /\ call.typed = [report |-> call.version, entry |-> call.entry]
  BY <1>4 DEF Call
<1> HIDE DEF call
<1>6. calls'[c] = call
  BY <1>1, <1>2 DEF ModerationTypeOK
<1>7. CallKept(c)'
  BY <1>2, <1>4, <1>5, <1>6 DEF CallKept
<1>8. QED
  BY <1>2, <1>5, <1>7, OneCall

\* A transaction that goes on has read what its next stage promises.
LEMMA MovesInv ==
  ASSUME ModerationInv, NEW c \in Calls, Authorise(c) \/ Claim(c) \/ Check(c)
  PROVE  ModerationInv'
<1>1. ModerationTypeOK /\ CallsKept
  BY DEF ModerationInv
<1>2. PICK stage \in {"authorised", "claimed", "checked"} :
        /\ calls' = [calls EXCEPT ![c] = [calls[c] EXCEPT !.stage = stage]]
        /\ UNCHANGED <<reported, reports, decisions, editors, queue>>
        /\ calls[c] # Absent
        /\ \/ stage = "authorised" /\ MayDecide(calls[c])
           \/ stage = "claimed" /\ calls[c].stage = "authorised"
              /\ calls[c].report \notin LockedReports
           \/ stage = "checked" /\ calls[c].stage = "claimed" /\ AsSeen(calls[c])
  BY DEF Authorise, Claim, Check, Moves, Running
<1>3. calls[c] \in Call /\ CallKept(c)
  BY <1>1, <1>2 DEF ModerationTypeOK, CallsKept
<1> DEFINE call == [calls[c] EXCEPT !.stage = stage]
<1>4. /\ call \in Call /\ call.stage = stage
      /\ call.by = calls[c].by /\ call.session = calls[c].session
      /\ call.report = calls[c].report /\ call.version = calls[c].version
      /\ call.entry = calls[c].entry /\ call.typed = calls[c].typed
  BY <1>3, Zenon DEF Call
<1>5. calls' = [calls EXCEPT ![c] = call]
  BY <1>2
<1> HIDE DEF call
<1>6. calls'[c] = call
  BY <1>1, <1>5 DEF ModerationTypeOK
<1>7. editors[call.by] = [staff |-> TRUE, session |-> call.session]
  <2>1. CASE MayDecide(calls[c])
    <3>1. editors[call.by] \in Account /\ editors[call.by].session = call.session
          /\ editors[call.by].staff
      BY <1>1, <1>3, <1>4, <2>1 DEF MayDecide, ModerationTypeOK, Call
    <3>2. QED
      BY <3>1 DEF Account
  <2>2. CASE calls[c].stage # "sent"
    BY <1>3, <1>4, <2>2 DEF CallKept
  <2>3. QED
    BY <1>2, <2>1, <2>2
<1>8. stage = "checked" => AsSeen(call)
  BY <1>2, <1>4 DEF AsSeen, SameReport, SameEntry
<1>9. CallKept(c)'
  BY <1>2, <1>3, <1>4, <1>6, <1>7, <1>8 DEF CallKept, AsSeen, SameReport, SameEntry
<1>10. ASSUME stage \in {"claimed", "checked"}, NEW d \in Running({"claimed", "checked"}) \ {c}
       PROVE  calls[d].report # call.report
  <2>1. CASE stage = "claimed"
    BY <1>2, <1>4, <1>10, <2>1 DEF LockedReports
  <2>2. CASE stage = "checked"
    <3>1. c \in Running({"claimed", "checked"})
      BY <1>2, <2>2 DEF Running
    <3>2. QED
      BY <1>1, <1>4, <1>10, <3>1 DEF CallsKept
  <2>3. QED
    BY <1>10, <2>1, <2>2
<1>11. QED
  BY <1>2, <1>4, <1>5, <1>9, <1>10, OneCall

\* What Decide does, to a report that is open.
LEMMA DecideFacts ==
  ASSUME ModerationInv, NEW c \in Calls, Decide(c)
  PROVE  /\ calls[c] \in Call /\ calls[c] # Absent /\ calls[c].stage = "checked"
         /\ AsSeen(calls[c]) /\ CallKept(c)
         /\ reports[calls[c].report] \in Report /\ calls[c].version = 1
         /\ reports[calls[c].report].version = 1
         /\ reports' = [reports EXCEPT ![calls[c].report] = [status |-> "closed", version |-> 2]]
         /\ decisions' = decisions \cup {DecisionOf(calls[c])}
         /\ DecisionOf(calls[c]) \in Decision
         /\ DecisionOf(calls[c]).report = calls[c].report
<1>1. ModerationTypeOK /\ ReportsKept /\ CallsKept
  BY DEF ModerationInv
<1>2. calls[c] # Absent /\ calls[c].stage = "checked"
  BY DEF Decide, Running
<1>3. calls[c] \in Call /\ CallKept(c)
  BY <1>1, <1>2 DEF ModerationTypeOK, CallsKept
<1>4. AsSeen(calls[c]) /\ calls[c].report \in Reports /\ reports[calls[c].report] # Absent
  BY <1>2, <1>3 DEF CallKept, Call
<1>5. reports[calls[c].report] \in Report
  BY <1>1, <1>4 DEF ModerationTypeOK
<1>6. reports[calls[c].report].version = 1 /\ calls[c].version = 1
  BY <1>1, <1>4 DEF ReportsKept, AsSeen, SameReport
<1>7. reports' = [reports EXCEPT ![calls[c].report] = [status |-> "closed", version |-> 2]]
  BY <1>1, <1>4, <1>6 DEF Decide, Resolved, ModerationTypeOK
<1>8. DecisionOf(calls[c]) \in Decision /\ DecisionOf(calls[c]).report = calls[c].report
  BY <1>3, <1>6 DEF DecisionOf, Decision, Call
<1>9. decisions' = decisions \cup {DecisionOf(calls[c])}
  BY DEF Decide
<1>10. QED
  BY <1>2, <1>3, <1>4, <1>5, <1>6, <1>7, <1>8, <1>9

LEMMA DecideInv ==
  ASSUME ModerationInv, NEW c \in Calls, Decide(c)
  PROVE  ModerationInv'
<1> DEFINE call == calls[c]
           row == [status |-> "closed", version |-> 2]
<1>1. ModerationTypeOK /\ ReportsKept /\ PagesKept /\ CallsKept
  BY DEF ModerationInv
<1>2. /\ call \in Call /\ call # Absent /\ call.stage = "checked" /\ call.by \in Editors
      /\ reports' = [reports EXCEPT ![call.report] = row]
      /\ decisions' = decisions \cup {DecisionOf(call)}
      /\ DecisionOf(call) \in Decision /\ DecisionOf(call).report = call.report
      /\ call.report \in Reports
  BY DecideFacts DEF Call
<1>3. /\ calls' = [calls EXCEPT ![c] = Absent]
      /\ queue' = queue \/ queue' = [queue EXCEPT ![call.by].note[call.report] = Sent]
      /\ UNCHANGED <<reported, editors>>
  BY DEF Decide
<1> HIDE DEF call
<1>4. row \in Report /\ row # Absent /\ row.status = "closed" /\ row.version = 2
  BY FiledIsThere DEF Report
<1> HIDE DEF row
<1>5. reports' \in [Reports -> Report \cup {Absent}] /\ reports'[call.report] = row
      /\ \A r \in Reports \ {call.report} : reports'[r] = reports[r]
  BY <1>1, <1>2, <1>4 DEF ModerationTypeOK
<1>6. queue' \in [Editors -> Queue] /\ PagesKept'
  <2>1. \A q \in Reports : reports[q] # Absent => reports'[q] # Absent
    BY <1>4, <1>5
  <2>2. CASE queue' = queue
    BY <1>1, <2>1, <2>2 DEF PagesKept, KeyOf, ModerationTypeOK
  <2>3. CASE queue' = [queue EXCEPT ![call.by].note[call.report] = Sent]
    BY <1>1, <1>2, <2>1, <2>3, NoteWritten
  <2>4. QED
    BY <1>3, <2>2, <2>3
<1>7. calls' \in [Calls -> Call \cup {Absent}] /\ calls'[c] = Absent
      /\ \A d \in Calls \ {c} : calls'[d] = calls[d]
  BY <1>1, <1>3 DEF ModerationTypeOK
<1>8. ModerationTypeOK'
  BY <1>1, <1>2, <1>3, <1>5, <1>6, <1>7 DEF ModerationTypeOK
<1>9. ReportsKept'
  <2>1. \A d \in decisions : d.report \in Reports
    BY <1>1 DEF ModerationTypeOK, Decision
  <2>2. QED
    BY <1>1, <1>2, <1>4, <1>5, <2>1 DEF ReportsKept
<1>10. CallsKept'
  <2>1. ASSUME NEW d \in Calls
        PROVE  calls'[d] = Absent \/ (calls[d] # Absent /\ Alike(calls'[d], calls[d]))
    <3>1. CASE d = c
      BY <1>7, <3>1
    <3>2. CASE d # c
      BY <1>7, <3>2 DEF Alike
    <3>3. QED
      BY <3>1, <3>2
  <2>2. \A r \in Reports : reports[r] # Absent => reports'[r] # Absent
    BY <1>4, <1>5
  <2>3. ASSUME NEW d \in Calls, calls[d] # Absent, calls'[d] # Absent, calls[d].stage = "checked"
        PROVE  reports'[calls[d].report] = reports[calls[d].report]
    <3>1. d # c /\ d \in Running({"claimed", "checked"}) /\ c \in Running({"claimed", "checked"})
      BY <1>2, <1>7, <2>3 DEF Running, call
    <3>2. calls[d].report # call.report /\ calls[d].report \in Reports
      BY <1>1, <2>3, <3>1 DEF CallsKept, ModerationTypeOK, Call, call
    <3>3. QED
      BY <1>5, <3>2
  <2>4. QED
    BY <1>1, <1>3, <2>1, <2>2, <2>3, CallsStay
<1>11. QED
  BY <1>6, <1>8, <1>9, <1>10 DEF ModerationInv

LEMMA ModerationInvNext == ModerationInv /\ [ModerationNext]_moderationVars => ModerationInv'
<1> SUFFICES ASSUME ModerationInv, [ModerationNext]_moderationVars PROVE ModerationInv'
  OBVIOUS
<1>1. ModerationTypeOK /\ PagesKept
  BY DEF ModerationInv
<1>2. ASSUME NEW a \in Editors, CloseReports(a) \/ SignInAgain(a) PROVE ModerationInv'
  <2>1. queue[a].session \in 0..MaxChanges /\ editors[a].session \in 0..MaxChanges
    BY <1>1 DEF ModerationTypeOK, Queue, Account
  <2>2. QED
    BY <1>2, <2>1, LeavesInv DEF CloseReports, SignInAgain
<1>3. ASSUME NEW a \in Editors, NEW r \in Reports, WriteNote(a, r) PROVE ModerationInv'
  <2>1. queue' \in [Editors -> Queue] /\ PagesKept'
    BY <1>1, <1>3, NoteWritten DEF WriteNote
  <2>2. QED
    BY <1>3, <2>1, PagesOnly, SameCallsAlike DEF WriteNote
<1>4. QED
  BY <1>2, <1>3, RowStepsInv, ReadReportsInv, SendDecisionInv, UnheardInv, MovesInv, DecideInv
  DEF ModerationNext

LEMMA ModerationInvAlways == ModerationSpec => []ModerationInv
BY ModerationInvInit, ModerationInvNext, PTL DEF ModerationSpec

(* The rows, pages and calls of server/routes/moderation.ts and                *)
(* src/pages/ReviewQueuePage.tsx keep the shapes that the code gives them.     *)
THEOREM ModerationTypes == ModerationSpec => []ModerationTypeOK
<1>1. ModerationInv => ModerationTypeOK
  BY DEF ModerationInv
<1>2. QED
  BY <1>1, ModerationInvAlways, PTL

(* POST /reports/:id/resolve decides a report once, while it and its entry are *)
(* as the note was typed for, by an account that is staff (moderation.ts).     *)
THEOREM ReportsDecidedAsRead == ModerationSpec => DecidedAsRead
<1> DEFINE Step ==
      \A d \in decisions' \ decisions :
       \E c \in Calls :
         /\ calls[c] # Absent /\ calls'[c] = Absent
         /\ calls[c].by = d.actor /\ calls[c].report = d.report
         /\ reports[d.report].status = "open" /\ reported.status # "deleted"
         /\ calls[c].typed = [report |-> reports[d.report].version, entry |-> reported.version]
         /\ editors[d.actor] = [staff |-> TRUE, session |-> calls[c].session]
         /\ reports'[d.report] = [status |-> "closed", version |-> d.version]
         /\ \A e \in decisions : e.report # d.report
<1>1. ModerationInv /\ [ModerationNext]_moderationVars => [Step]_moderationVars
  <2> SUFFICES ASSUME ModerationInv, [ModerationNext]_moderationVars PROVE Step
    OBVIOUS
  <2>1. decisions' = decisions \/ \E c \in Calls : Decide(c)
    BY DEF ModerationNext, moderationVars, FileReport, ChangeEntry, DeleteEntry, ChangeAuthority,
       ReadReports, CloseReports, SignInAgain, Leaves, WriteNote, SendDecision, GiveUpDecision,
       Authorise, Claim, Check, Moves, Abort
  <2>2. ASSUME NEW c \in Calls, Decide(c) PROVE Step
    <3>1. ModerationTypeOK /\ ReportsKept
      BY DEF ModerationInv
    <3>2. /\ calls[c] \in Call /\ calls[c] # Absent /\ calls[c].stage = "checked"
          /\ AsSeen(calls[c]) /\ CallKept(c) /\ calls[c].version = 1
          /\ reports' = [reports EXCEPT ![calls[c].report] = [status |-> "closed", version |-> 2]]
          /\ decisions' = decisions \cup {DecisionOf(calls[c])}
      BY <2>2, DecideFacts
    <3>3. calls'[c] = Absent
      BY <2>2, <3>1 DEF Decide, ModerationTypeOK
    <3>4. calls[c].report \in Reports
      BY <3>2 DEF Call
    <3> DEFINE d == DecisionOf(calls[c])
    <3>5. d.actor = calls[c].by /\ d.report = calls[c].report /\ d.version = 2
      BY <3>2 DEF DecisionOf
    <3> HIDE DEF d
    <3>6. reports'[d.report] = [status |-> "closed", version |-> d.version]
      BY <3>1, <3>2, <3>4, <3>5 DEF ModerationTypeOK
    <3>7. /\ reports[d.report].status = "open" /\ reported.status # "deleted"
          /\ calls[c].typed = [report |-> reports[d.report].version, entry |-> reported.version]
      BY <3>2, <3>5 DEF AsSeen, SameReport, SameEntry, CallKept
    <3>8. editors[d.actor] = [staff |-> TRUE, session |-> calls[c].session]
      BY <3>2, <3>5 DEF CallKept
    <3>9. \A e \in decisions : e.report # d.report
      BY <3>1, <3>7 DEF ReportsKept
    <3>10. decisions' \ decisions \subseteq {d}
      BY <3>2 DEF d
    <3>11. QED
      BY <3>2, <3>3, <3>5, <3>6, <3>7, <3>8, <3>9, <3>10
  <2>3. QED
    BY <2>1, <2>2
<1>2. QED
  BY <1>1, ModerationInvAlways, PTL DEF ModerationSpec, DecidedAsRead

------------------------------------------------------------------------------
(* SavedTags.  The choices that the tab keeps for an account it is merging are *)
(* those of one merge: each was saved for some account or is on the merge's    *)
(* rest.                                                                       *)

TabKept(t, had) ==
  /\ t.user = Nobody => t.merging = Nobody
  /\ IsFiniteSet(t.merges)
  /\ \A a \in Accounts : t.lists[a] = {Unread} \/ t.lists[a] \subseteq had
  /\ t.merging # Nobody /\ t.local # {} =>
       \E m \in t.merges : m.user = t.merging /\ t.local \subseteq had \cup m.rest

SavedInv ==
  /\ SavedTypeOK
  /\ \A a \in Accounts : saved[a] \subseteq held /\ IsFiniteSet(saved[a])
  /\ TabKept(tab, held)

LEMMA SavedInvInit == SavedInit => SavedInv
<1> SUFFICES ASSUME SavedInit PROVE SavedInv
  OBVIOUS
<1>1. NoLists \in [Accounts -> (SUBSET Tags) \cup {{Unread}}]
  BY DEF NoLists
<1>2. tab \in Tab
  BY <1>1 DEF SavedInit, Tab, Visitors
<1>3. Cardinality({}) = 0 /\ IsFiniteSet({})
  BY FS_EmptySet
<1>4. SavedTypeOK
  BY <1>2, <1>3, SavedAssumption DEF SavedInit, SavedTypeOK, Visitors
<1>5. TabKept(tab, held)
  BY <1>3 DEF SavedInit, TabKept, NoLists
<1>6. QED
  BY <1>3, <1>4, <1>5 DEF SavedInv, SavedInit

\* The effect may begin a merge of the choices that the account has not, or
\* forget choices that it has.
LEMMA AfterKept ==
  ASSUME NEW new \in Tab, NEW had, IsFiniteSet(new.merges),
         \A a \in Accounts : new.lists[a] = {Unread} \/ new.lists[a] \subseteq had,
         new.merging # Nobody /\ new.local # {} =>
           \E m \in new.merges : m.user = new.merging /\ new.local \subseteq had \cup m.rest
  PROVE  /\ After(new) \in Tab /\ TabKept(After(new), had) /\ After(new).user = new.user
         /\ new.local \ After(new).local \subseteq had
<1> DEFINE u == new.user
<1>1. /\ u \in Visitors /\ new.local \subseteq Tags /\ new.merges \subseteq Merge
      /\ new.lists \in [Accounts -> (SUBSET Tags) \cup {{Unread}}] /\ Nobody \in Visitors
  BY DEF Tab, Visitors
<1>2. CASE u = Nobody
  <2> DEFINE t == [new EXCEPT !.merging = Nobody]
  <2>1. /\ t \in Tab /\ t.user = u /\ t.merging = Nobody /\ t.local = new.local
        /\ t.lists = new.lists /\ t.merges = new.merges
    BY <1>1, Zenon DEF Tab
  <2>2. After(new) = t
    BY <1>2 DEF After
  <2> HIDE DEF t
  <2>3. QED
    BY <2>1, <2>2 DEF TabKept
<1>3. CASE u # Nobody /\ (new.lists[u] = {Unread} \/ new.merging = u)
  <2>1. After(new) = new
    BY <1>3 DEF After
  <2>2. QED
    BY <1>3, <2>1 DEF TabKept
<1>4. CASE u # Nobody /\ new.lists[u] # {Unread} /\ new.merging # u /\ new.local \subseteq new.lists[u]
  <2> DEFINE t == [new EXCEPT !.merging = u, !.local = {}]
  <2>1. {} \subseteq Tags
    OBVIOUS
  <2>2. /\ t \in Tab /\ t.user = u /\ t.merging = u /\ t.local = {}
        /\ t.lists = new.lists /\ t.merges = new.merges
    BY <1>1, <2>1, Zenon DEF Tab
  <2>3. After(new) = t
    BY <1>4 DEF After
  <2> HIDE DEF t
  <2>4. u \in Accounts
    BY <1>1, <1>4 DEF Visitors
  <2>5. QED
    BY <1>4, <2>2, <2>3, <2>4 DEF TabKept
<1>5. CASE u # Nobody /\ new.lists[u] # {Unread} /\ new.merging # u /\ ~(new.local \subseteq new.lists[u])
  <2> DEFINE merge == [user |-> u, rest |-> new.local \ new.lists[u]]
             merges == new.merges \cup {merge}
             t == [new EXCEPT !.merging = u, !.merges = merges]
  <2>1. u \in Accounts
    BY <1>1, <1>5 DEF Visitors
  <2>2. merge \in Merge /\ merge.user = u /\ merge.rest = new.local \ new.lists[u]
    BY <1>1, <2>1 DEF Merge
  <2>3. After(new) = [new EXCEPT !.merging = u, !.merges = new.merges \cup {merge}]
    BY <1>5 DEF After
  <2> HIDE DEF merge
  <2>4. merges \subseteq Merge /\ merge \in merges /\ IsFiniteSet(merges)
    BY <1>1, <2>2, FS_AddElement
  <2>5. After(new) = t
    BY <2>3
  <2> HIDE DEF merges
  <2>6. /\ t \in Tab /\ t.user = u /\ t.merging = u /\ t.local = new.local
        /\ t.lists = new.lists /\ t.merges = merges
    BY <1>1, <2>4, Zenon DEF Tab
  <2> HIDE DEF t
  <2>7. new.local \subseteq had \cup merge.rest
    BY <1>5, <2>1, <2>2
  <2>8. QED
    BY <1>5, <2>2, <2>4, <2>5, <2>6, <2>7 DEF TabKept
<1>6. QED
  BY <1>2, <1>3, <1>4, <1>5

LEMMA KeptLonger ==
  ASSUME NEW t, NEW had, NEW has, had \subseteq has, TabKept(t, had)
  PROVE  TabKept(t, has)
BY DEF TabKept

Remembers ==
  (tab'.user # Nobody /\ Cardinality({m \in tab.merges : m.user = tab.merging}) <= 1)
    => tab.local \ tab'.local \subseteq held'

LEMMA TabType ==
  ASSUME SavedInv
  PROVE  /\ tab \in Tab /\ tab.user \in Visitors /\ tab.merging \in Visitors
         /\ tab.local \subseteq Tags /\ tab.merges \subseteq Merge
         /\ tab.lists \in [Accounts -> (SUBSET Tags) \cup {{Unread}}]
         /\ cookie \in Visitors /\ saved \in [Accounts -> SUBSET Tags]
         /\ retired \subseteq Tags /\ held \subseteq Tags
         /\ TabKept(tab, held)
BY DEF SavedInv, SavedTypeOK, Tab

\* Rows that the server writes: one tag more, within the limit, or one less.
RowsKept ==
  /\ saved' \in [Accounts -> SUBSET Tags] /\ held' \subseteq Tags /\ held \subseteq held'
  /\ \A a \in Accounts : /\ Cardinality(saved'[a]) <= MaxSaved
                         /\ saved'[a] \subseteq held' /\ IsFiniteSet(saved'[a])

LEMMA RowsStay ==
  ASSUME SavedInv, UNCHANGED <<saved, held>>
  PROVE  RowsKept
BY DEF SavedInv, SavedTypeOK, RowsKept

LEMMA PutKept ==
  ASSUME SavedInv, NEW a \in Accounts, NEW t \in Tags,
         t \in saved[a] \/ Cardinality(saved[a]) < MaxSaved,
         saved' = [saved EXCEPT ![a] = @ \cup {t}], held' = held \cup {t}
  PROVE  RowsKept /\ t \in held'
<1>1. /\ saved \in [Accounts -> SUBSET Tags] /\ held \subseteq Tags /\ MaxSaved \in Nat
      /\ \A b \in Accounts : /\ Cardinality(saved[b]) <= MaxSaved
                             /\ saved[b] \subseteq held /\ IsFiniteSet(saved[b])
  BY SavedAssumption DEF SavedInv, SavedTypeOK
<1>2. Cardinality(saved[a]) \in Nat /\ IsFiniteSet(saved[a] \cup {t})
      /\ Cardinality(saved[a] \cup {t}) <= MaxSaved
  <2>1. IsFiniteSet(saved[a])
    BY <1>1
  <2>2. Cardinality(saved[a]) \in Nat
    BY <2>1, FS_CardinalityType
  <2>3. /\ IsFiniteSet(saved[a] \cup {t})
        /\ Cardinality(saved[a] \cup {t}) =
             IF t \in saved[a] THEN Cardinality(saved[a]) ELSE Cardinality(saved[a]) + 1
    BY <2>1, FS_AddElement
  <2>4. QED
    BY <1>1, <2>2, <2>3
<1>3. saved' \in [Accounts -> SUBSET Tags] /\ saved'[a] = saved[a] \cup {t}
      /\ \A b \in Accounts \ {a} : saved'[b] = saved[b]
  BY <1>1
<1>4. QED
  BY <1>1, <1>2, <1>3 DEF RowsKept

LEMMA DropKept ==
  ASSUME SavedInv, NEW a \in Accounts, NEW t \in Tags, Dropped(a, t)
  PROVE  RowsKept
<1>1. /\ saved \in [Accounts -> SUBSET Tags] /\ held \subseteq Tags /\ MaxSaved \in Nat
      /\ \A b \in Accounts : /\ Cardinality(saved[b]) <= MaxSaved
                             /\ saved[b] \subseteq held /\ IsFiniteSet(saved[b])
  BY SavedAssumption DEF SavedInv, SavedTypeOK
<1>2. Cardinality(saved[a]) \in Nat /\ IsFiniteSet(saved[a] \ {t})
      /\ Cardinality(saved[a] \ {t}) <= MaxSaved
  <2>1. IsFiniteSet(saved[a])
    BY <1>1
  <2>2. Cardinality(saved[a]) \in Nat
    BY <2>1, FS_CardinalityType
  <2>3. /\ IsFiniteSet(saved[a] \ {t})
        /\ Cardinality(saved[a] \ {t}) =
             IF t \in saved[a] THEN Cardinality(saved[a]) - 1 ELSE Cardinality(saved[a])
    BY <2>1, FS_RemoveElement
  <2>4. QED
    BY <1>1, <2>2, <2>3
<1>3. saved' = [saved EXCEPT ![a] = saved[a] \ {t}] /\ held' = held
  BY DEF Dropped
<1>4. saved' \in [Accounts -> SUBSET Tags] /\ saved'[a] = saved[a] \ {t}
      /\ \A b \in Accounts \ {a} : saved'[b] = saved[b]
  BY <1>1, <1>3
<1>5. QED
  BY <1>1, <1>2, <1>3, <1>4 DEF RowsKept

LEMMA SavedStep ==
  ASSUME SavedInv, RowsKept, cookie' \in Visitors, retired' \subseteq Tags,
         tab' \in Tab, TabKept(tab', held')
  PROVE  SavedInv'
BY DEF SavedInv, SavedTypeOK, RowsKept

\* The tab stays, or another user or another list is known to it, after which
\* the effect may run.
LEMMA SameTab ==
  ASSUME SavedInv, RowsKept, cookie' \in Visitors, retired' \subseteq Tags, tab' = tab
  PROVE  SavedInv' /\ Remembers
<1>1. TabKept(tab', held')
  BY TabType, KeptLonger DEF RowsKept
<1>2. tab' \in Tab
  BY TabType
<1>3. QED
  BY <1>1, <1>2, SavedStep DEF Remembers

LEMMA NewTab ==
  ASSUME SavedInv, RowsKept, cookie' \in Visitors, retired' \subseteq Tags,
         NEW new \in Tab, new.local = tab.local, new.merging = tab.merging,
         new.merges = tab.merges,
         \A a \in Accounts : new.lists[a] = {Unread} \/ new.lists[a] \subseteq held',
         tab' = After(new) \/ (tab' = new /\ new.user = tab.user)
  PROVE  SavedInv' /\ Remembers
<1>1. TabKept(tab, held') /\ IsFiniteSet(new.merges)
  BY TabType, KeptLonger DEF RowsKept, TabKept
<1>2. new.merging # Nobody /\ new.local # {} =>
        \E m \in new.merges : m.user = new.merging /\ new.local \subseteq held' \cup m.rest
  BY <1>1 DEF TabKept
<1>3. CASE tab' = After(new)
  BY <1>1, <1>2, <1>3, AfterKept, SavedStep DEF Remembers
<1>4. CASE tab' = new /\ new.user = tab.user
  <2>1. TabKept(tab', held')
    BY <1>1, <1>2, <1>4 DEF TabKept
  <2>2. QED
    BY <1>4, <2>1, SavedStep DEF Remembers
<1>5. QED
  BY <1>3, <1>4

LEMMA ListedTab ==
  ASSUME SavedInv, RowsKept, NEW list, list \subseteq Tags, list \subseteq held',
         tab.user # Nobody
  PROVE  LET new == [tab EXCEPT !.lists[tab.user] = list] IN
         /\ new \in Tab /\ new.local = tab.local /\ new.merging = tab.merging
         /\ new.merges = tab.merges /\ new.user = tab.user
         /\ \A a \in Accounts : new.lists[a] = {Unread} \/ new.lists[a] \subseteq held'
<1> DEFINE lists == [tab.lists EXCEPT ![tab.user] = list]
           new == [tab EXCEPT !.lists = lists]
<1>1. tab.user \in Accounts
  BY TabType DEF Visitors
<1>2. lists \in [Accounts -> (SUBSET Tags) \cup {{Unread}}]
      /\ \A a \in Accounts : lists[a] = tab.lists[a] \/ lists[a] = list
  BY <1>1, TabType
<1>3. \A a \in Accounts : lists[a] = {Unread} \/ lists[a] \subseteq held'
  BY <1>2, TabType DEF TabKept, RowsKept
<1> HIDE DEF lists
<1>4. tab \in Tab
  BY TabType
<1>5. /\ new \in Tab /\ new.local = tab.local /\ new.merging = tab.merging
      /\ new.merges = tab.merges /\ new.user = tab.user /\ new.lists = lists
  BY <1>2, <1>4, Zenon DEF Tab
<1>6. QED
  BY <1>3, <1>5 DEF lists

LEMMA ToggleSteps ==
  ASSUME SavedInv, NEW t \in Tags,
         ToggleLocal(t) \/ \E told \in BOOLEAN : ToggleSaved(t, told)
  PROVE  SavedInv' /\ Remembers
<1>1. CASE ToggleLocal(t)
  <2> DEFINE local == IF t \in Ids THEN tab.local \ {t} ELSE tab.local \cup {t}
             new == [tab EXCEPT !.local = local]
  <2>1. /\ tab.user = Nobody /\ tab' = After([tab EXCEPT !.local = local])
        /\ UNCHANGED <<cookie, saved, retired, held>>
    BY <1>1 DEF ToggleLocal
  <2>2. local \subseteq Tags /\ tab \in Tab
    BY TabType
  <2> HIDE DEF local
  <2>3. /\ new \in Tab /\ new.user = tab.user /\ new.merging = tab.merging
        /\ new.merges = tab.merges /\ new.lists = tab.lists
    BY <2>2, Zenon DEF Tab
  <2>4. tab' = After(new)
    BY <2>1
  <2> HIDE DEF new
  <2>5. TabKept(tab, held) /\ tab.merging = Nobody
    BY <2>1, TabType DEF TabKept
  <2>6. tab' \in Tab /\ TabKept(tab', held) /\ tab'.user = Nobody
    <3>1. /\ IsFiniteSet(new.merges) /\ new.merging = Nobody
          /\ \A a \in Accounts : new.lists[a] = {Unread} \/ new.lists[a] \subseteq held
      BY <2>3, <2>5 DEF TabKept
    <3>2. /\ After(new) \in Tab /\ TabKept(After(new), held) /\ After(new).user = new.user
      BY <2>3, <3>1, AfterKept
    <3>3. QED
      BY <2>1, <2>3, <2>4, <3>2
  <2>7. QED
    BY <2>1, <2>6, RowsStay, SavedStep, TabType DEF Remembers
<1>2. ASSUME NEW told \in BOOLEAN, ToggleSaved(t, told) PROVE SavedInv' /\ Remembers
  <2> DEFINE list == saved'[cookie] \ retired
             new == [tab EXCEPT !.lists[tab.user] = list]
  <2>1. /\ tab.user # Nobody /\ cookie # Nobody /\ cookie \in Accounts
        /\ Dropped(cookie, t) \/ (MayPut(t) /\ Put(t))
        /\ UNCHANGED <<cookie, retired>>
    BY <1>2, TabType DEF ToggleSaved, Visitors
  <2>2. tab' = tab \/ tab' = After([tab EXCEPT !.lists[tab.user] = saved'[cookie] \ retired])
    BY <1>2 DEF ToggleSaved, Becomes
  <2>3. RowsKept
    BY <2>1, PutKept, DropKept DEF MayPut, Put
  <2>4. list \subseteq Tags /\ list \subseteq held'
    BY <2>1, <2>3 DEF RowsKept
  <2> HIDE DEF list
  <2>5. /\ new \in Tab /\ new.local = tab.local /\ new.merging = tab.merging
        /\ new.merges = tab.merges
        /\ \A a \in Accounts : new.lists[a] = {Unread} \/ new.lists[a] \subseteq held'
    BY <2>1, <2>3, <2>4, ListedTab
  <2>6. tab' = tab \/ tab' = After(new)
    BY <2>2 DEF list
  <2> HIDE DEF new
  <2>7. QED
    BY <2>1, <2>3, <2>5, <2>6, TabType, SameTab, NewTab
<1>3. QED
  BY <1>1, <1>2

LEMMA ReadListStep ==
  ASSUME SavedInv, NEW again \in BOOLEAN, ReadList(again)
  PROVE  SavedInv' /\ Remembers
<1> DEFINE new == [tab EXCEPT !.lists[tab.user] = Listed]
<1>1. /\ tab.user # Nobody /\ cookie # Nobody
      /\ UNCHANGED <<cookie, saved, retired, held>>
      /\ tab' = After(new) \/ tab' = new
  BY DEF ReadList, Becomes
<1>2. Listed \subseteq Tags /\ Listed \subseteq held /\ RowsKept
  BY <1>1, TabType, RowsStay DEF Listed, Mine, SavedInv, Visitors
<1>3. /\ new \in Tab /\ new.local = tab.local /\ new.merging = tab.merging
      /\ new.merges = tab.merges /\ new.user = tab.user
      /\ \A a \in Accounts : new.lists[a] = {Unread} \/ new.lists[a] \subseteq held'
  BY <1>1, <1>2, ListedTab
<1> HIDE DEF new
<1>4. QED
  BY <1>1, <1>2, <1>3, TabType, NewTab

LEMMA SessionSteps ==
  ASSUME SavedInv, RefreshSession \/ NoticeSession
  PROVE  SavedInv' /\ Remembers
<1>1. UNCHANGED <<cookie, saved, retired, held>>
  BY DEF RefreshSession, NoticeSession
<1>2. RowsKept /\ cookie \in Visitors /\ tab \in Tab
  BY <1>1, RowsStay, TabType
<1>3. NoLists \in [Accounts -> (SUBSET Tags) \cup {{Unread}}] /\ \A a \in Accounts : NoLists[a] = {Unread}
  BY DEF NoLists
<1>4. CASE RefreshSession
  <2> DEFINE new == [tab EXCEPT !.user = cookie, !.lists = NoLists]
  <2>1. /\ new \in Tab /\ new.local = tab.local /\ new.merging = tab.merging
        /\ new.merges = tab.merges /\ new.lists = NoLists
    BY <1>2, <1>3, Zenon DEF Tab
  <2>2. tab' = After(new)
    BY <1>4 DEF RefreshSession, Becomes
  <2> HIDE DEF new
  <2>3. QED
    BY <1>1, <1>2, <1>3, <2>1, <2>2, TabType, NewTab
<1>5. CASE NoticeSession
  <2> DEFINE new == [tab EXCEPT !.user = cookie]
  <2>1. /\ new \in Tab /\ new.local = tab.local /\ new.merging = tab.merging
        /\ new.merges = tab.merges /\ new.lists = tab.lists
    BY <1>2, Zenon DEF Tab
  <2>2. tab' = After(new)
    BY <1>5 DEF NoticeSession, Becomes
  <2> HIDE DEF new
  <2>3. \A a \in Accounts : new.lists[a] = {Unread} \/ new.lists[a] \subseteq held'
    BY <1>1, <2>1, TabType DEF TabKept
  <2>4. QED
    BY <1>1, <1>2, <2>1, <2>2, <2>3, TabType, NewTab
<1>6. QED
  BY <1>4, <1>5

\* Everything but the choices is lost, or an answer that nobody shows.
LEMMA ForgettingSteps ==
  ASSUME SavedInv, Reload \/ \E a \in Accounts : Forget(a)
  PROVE  SavedInv' /\ Remembers
<1>1. UNCHANGED <<cookie, saved, retired, held>>
  BY DEF Reload, Forget
<1>2. RowsKept /\ cookie \in Visitors /\ tab \in Tab /\ TabKept(tab, held)
      /\ tab.lists \in [Accounts -> (SUBSET Tags) \cup {{Unread}}] /\ Nobody \in Visitors
  BY <1>1, RowsStay, TabType DEF Visitors
<1>3. NoLists \in [Accounts -> (SUBSET Tags) \cup {{Unread}}] /\ \A a \in Accounts : NoLists[a] = {Unread}
  BY DEF NoLists
<1>4. CASE Reload
  <2>1. {} \subseteq Merge
    OBVIOUS
  <2>2. tab' = [tab EXCEPT !.user = cookie, !.lists = NoLists, !.merging = Nobody, !.merges = {}]
    BY <1>4 DEF Reload
  <2>3. /\ tab' \in Tab /\ tab'.local = tab.local /\ tab'.merging = Nobody
        /\ tab'.merges = {} /\ tab'.lists = NoLists
    BY <1>2, <1>3, <2>1, <2>2, Zenon DEF Tab
  <2>4. TabKept(tab', held')
    BY <1>3, <2>3, FS_EmptySet DEF TabKept
  <2>5. QED
    BY <1>1, <1>2, <2>3, <2>4, SavedStep, TabType DEF Remembers
<1>5. ASSUME NEW a \in Accounts, Forget(a) PROVE SavedInv' /\ Remembers
  <2> DEFINE lists == [tab.lists EXCEPT ![a] = {Unread}]
  <2>1. lists \in [Accounts -> (SUBSET Tags) \cup {{Unread}}]
        /\ \A b \in Accounts : lists[b] = {Unread} \/ lists[b] = tab.lists[b]
    BY <1>2
  <2>2. tab' = [tab EXCEPT !.lists = lists]
    BY <1>5 DEF Forget
  <2> HIDE DEF lists
  <2>3. /\ tab' \in Tab /\ tab'.local = tab.local /\ tab'.merging = tab.merging
        /\ tab'.merges = tab.merges /\ tab'.lists = lists /\ tab'.user = tab.user
    BY <1>2, <2>1, <2>2, Zenon DEF Tab
  <2>4. TabKept(tab', held')
    BY <1>1, <1>2, <2>1, <2>3 DEF TabKept
  <2>5. QED
    BY <1>1, <1>2, <2>3, <2>4, SavedStep, TabType DEF Remembers
<1>6. QED
  BY <1>4, <1>5

\* One request of a merge is answered: the tag leaves its rest, and was saved.
LEMMA MergeTagStep ==
  ASSUME SavedInv, NEW merge \in tab.merges, NEW t \in merge.rest, MergeTag(merge, t)
  PROVE  SavedInv' /\ Remembers
<1>1. /\ tab \in Tab /\ merge \in Merge /\ tab.merges \subseteq Merge /\ TabKept(tab, held)
      /\ cookie \in Visitors /\ retired \subseteq Tags
  BY TabType
<1>2. t \in Tags /\ merge.rest \subseteq Tags /\ merge.user \in Accounts
  BY <1>1 DEF Merge
<1>3. /\ MayPut(t) /\ Put(t)
      /\ tab' = [tab EXCEPT !.merges = Rest(merge, t)]
      /\ UNCHANGED <<cookie, retired>>
  BY DEF MergeTag
<1>4. RowsKept /\ t \in held'
  BY <1>1, <1>2, <1>3, PutKept DEF MayPut, Put, Visitors
<1> DEFINE less == [merge EXCEPT !.rest = merge.rest \ {t}]
           merges == (tab.merges \ {merge}) \cup {less}
<1>5. less \in Merge /\ less.user = merge.user /\ less.rest = merge.rest \ {t}
  BY <1>1, <1>2 DEF Merge
<1>6. Rest(merge, t) = merges
  BY DEF Rest
<1> HIDE DEF less
<1>7. IsFiniteSet(merges)
  BY <1>1, FS_RemoveElement, FS_AddElement DEF TabKept
<1>8. merges \subseteq Merge
  BY <1>1, <1>5
<1> HIDE DEF merges
<1>9. /\ tab' \in Tab /\ tab'.local = tab.local /\ tab'.merging = tab.merging
      /\ tab'.merges = merges /\ tab'.lists = tab.lists /\ tab'.user = tab.user
  BY <1>1, <1>3, <1>6, <1>8, Zenon DEF Tab
<1>10. ASSUME tab.merging # Nobody, tab.local # {}
       PROVE  \E m \in merges : m.user = tab.merging /\ tab.local \subseteq held' \cup m.rest
  <2>1. PICK m \in tab.merges : m.user = tab.merging /\ tab.local \subseteq held \cup m.rest
    BY <1>1, <1>10 DEF TabKept
  <2>2. CASE m # merge
    BY <1>4, <2>1, <2>2 DEF merges, RowsKept
  <2>3. CASE m = merge
    <3>1. less \in merges
      BY DEF merges
    <3>2. tab.local \subseteq held' \cup less.rest
      BY <1>4, <1>5, <2>1, <2>3 DEF RowsKept
    <3>3. QED
      BY <1>5, <2>1, <2>3, <3>1, <3>2
  <2>4. QED
    BY <2>2, <2>3
<1>11. TabKept(tab', held')
  <2>1. TabKept(tab, held')
    BY <1>1, <1>4, KeptLonger DEF RowsKept
  <2>2. QED
    BY <1>7, <1>9, <1>10, <2>1 DEF TabKept
<1>12. QED
  BY <1>1, <1>3, <1>4, <1>9, <1>11, SavedStep DEF Remembers

\* A merge that failed is no longer the one that its choices wait for.
LEMMA FailMergeStep ==
  ASSUME SavedInv, NEW merge \in tab.merges, FailMerge(merge)
  PROVE  SavedInv' /\ Remembers
<1>1. /\ tab \in Tab /\ merge \in Merge /\ tab.merges \subseteq Merge /\ TabKept(tab, held)
      /\ cookie \in Visitors /\ retired \subseteq Tags /\ tab.merging \in Visitors
      /\ Nobody \in Visitors
  BY TabType DEF Visitors
<1> DEFINE merges == tab.merges \ {merge}
           merging == IF tab.merging = merge.user THEN Nobody ELSE tab.merging
<1>2. PICK t \in merge.rest :
        /\ tab' = [tab EXCEPT !.merges = merges, !.merging = merging]
        /\ (MayPut(t) /\ Put(t)) \/ UNCHANGED <<saved, held>>
        /\ UNCHANGED <<cookie, retired>>
  BY DEF FailMerge, FailedMerge
<1>3. t \in Tags
  BY <1>1 DEF Merge
<1>4. RowsKept
  BY <1>1, <1>2, <1>3, PutKept, RowsStay DEF MayPut, Put, Visitors
<1>5. merges \subseteq Merge /\ merging \in Visitors
  BY <1>1
<1>6. IsFiniteSet(merges)
  BY <1>1, FS_RemoveElement DEF TabKept
<1>7. \/ merging = Nobody
      \/ merging = tab.merging /\ merging # merge.user
  OBVIOUS
<1>8. tab.user = Nobody => merging = Nobody
  BY <1>1 DEF TabKept
<1> HIDE DEF merging, merges
<1>9. /\ tab' \in Tab /\ tab'.local = tab.local /\ tab'.merging = merging
      /\ tab'.merges = merges /\ tab'.lists = tab.lists /\ tab'.user = tab.user
  BY <1>1, <1>2, <1>5, Zenon DEF Tab
<1>10. TabKept(tab', held')
  <2>1. TabKept(tab, held')
    BY <1>1, <1>4, KeptLonger DEF RowsKept
  <2>2. ASSUME merging # Nobody, tab.local # {}
        PROVE  \E m \in merges : m.user = merging /\ tab.local \subseteq held' \cup m.rest
    <3>1. PICK m \in tab.merges : m.user = merging /\ tab.local \subseteq held' \cup m.rest
      BY <1>7, <2>1, <2>2 DEF TabKept
    <3>2. m \in merges
      BY <1>7, <2>2, <3>1 DEF merges
    <3>3. QED
      BY <3>1, <3>2
  <2>3. QED
    BY <1>6, <1>8, <1>9, <2>1, <2>2 DEF TabKept
<1>11. QED
  BY <1>1, <1>2, <1>4, <1>9, <1>10, SavedStep DEF Remembers

\* The choices that a finished merge forgets are its own, unless there is
\* another of its account.
LEMMA FinishMergeStep ==
  ASSUME SavedInv, NEW merge \in tab.merges, FinishMerge(merge)
  PROVE  SavedInv' /\ Remembers
<1>1. /\ tab \in Tab /\ tab.merges \subseteq Merge /\ TabKept(tab, held)
      /\ cookie \in Visitors /\ retired \subseteq Tags /\ tab.local \subseteq Tags
  BY TabType
<1> DEFINE merges == tab.merges \ {merge}
           local == IF tab.merging = merge.user THEN {} ELSE tab.local
<1>2. /\ merge.rest = {}
      /\ tab' = [tab EXCEPT !.merges = merges, !.local = local]
      /\ UNCHANGED <<cookie, saved, retired, held>>
  BY DEF FinishMerge
<1>3. RowsKept
  BY <1>2, RowsStay
<1>4. merges \subseteq Merge /\ local \subseteq Tags
  BY <1>1
<1>5. IsFiniteSet(merges)
  BY <1>1, FS_RemoveElement DEF TabKept
<1>6. local = {} \/ (local = tab.local /\ tab.merging # merge.user)
  OBVIOUS
<1> HIDE DEF local, merges
<1>7. /\ tab' \in Tab /\ tab'.local = local /\ tab'.merging = tab.merging
      /\ tab'.merges = merges /\ tab'.lists = tab.lists /\ tab'.user = tab.user
  BY <1>1, <1>2, <1>4, Zenon DEF Tab
<1>8. TabKept(tab', held')
  <2>1. ASSUME tab.merging # Nobody, local # {}
        PROVE  \E m \in merges : m.user = tab.merging /\ local \subseteq held \cup m.rest
    <3>1. PICK m \in tab.merges : m.user = tab.merging /\ tab.local \subseteq held \cup m.rest
      BY <1>1, <1>6, <2>1 DEF TabKept
    <3>2. m \in merges
      BY <1>6, <2>1, <3>1 DEF merges
    <3>3. QED
      BY <1>6, <2>1, <3>1, <3>2
  <2>2. QED
    BY <1>1, <1>2, <1>5, <1>7, <2>1 DEF TabKept
<1>9. Remembers
  <2> SUFFICES ASSUME tab'.user # Nobody, local # tab.local,
                      Cardinality({m \in tab.merges : m.user = tab.merging}) <= 1
               PROVE  tab.local \subseteq held'
    BY <1>7 DEF Remembers
  <2> DEFINE mine == {m \in tab.merges : m.user = tab.merging}
  <2>1. tab.merging = merge.user
    BY DEF local
  <2>2. merge.user \in Accounts /\ tab.merging # Nobody
    BY <1>1, <2>1, VisitorsAssumption DEF Merge
  <2>3. CASE tab.local = {}
    BY <2>3
  <2>4. CASE tab.local # {}
    <3>1. PICK m \in tab.merges : m.user = tab.merging /\ tab.local \subseteq held \cup m.rest
      BY <1>1, <2>2, <2>4 DEF TabKept
    <3>2. merge \in mine /\ m \in mine /\ mine \subseteq tab.merges
      BY <2>1, <3>1
    <3>3. Cardinality(mine) <= 1
      OBVIOUS
    <3> HIDE DEF mine
    <3>4. IsFiniteSet(mine) /\ Cardinality(mine) \in Nat
      BY <1>1, <3>2, FS_Subset, FS_CardinalityType DEF TabKept
    <3>5. mine = {merge}
      <4>1. IsFiniteSet({merge}) /\ Cardinality({merge}) = 1
        BY FS_Singleton
      <4>2. {merge} \in SUBSET mine
        BY <3>2
      <4>3. Cardinality({merge}) <= Cardinality(mine)
        BY <3>4, <4>2, FS_Subset
      <4>4. Cardinality(mine) = Cardinality({merge})
        BY <3>3, <3>4, <4>1, <4>3
      <4>5. QED
        BY <3>4, <4>2, <4>4, FS_Subset
    <3>6. m = merge
      BY <3>2, <3>5
    <3>7. QED
      BY <1>2, <3>1, <3>6
  <2>5. QED
    BY <2>3, <2>4
<1>10. QED
  BY <1>1, <1>2, <1>3, <1>7, <1>8, <1>9, SavedStep

LEMMA SavedInvNext ==
  SavedInv /\ [SavedNext]_savedVars => SavedInv' /\ [Remembers]_savedVars
<1> SUFFICES ASSUME SavedInv, [SavedNext]_savedVars PROVE SavedInv' /\ Remembers
  OBVIOUS
<1>1. /\ cookie \in Visitors /\ retired \subseteq Tags
      /\ UNCHANGED <<saved, held>> => RowsKept
  BY RowsStay, TabType
<1>2. CASE UNCHANGED savedVars
  BY <1>1, <1>2, SameTab DEF savedVars
<1>3. ASSUME NEW t \in Tags, RetireTag(t) PROVE SavedInv' /\ Remembers
  BY <1>1, <1>3, SameTab DEF RetireTag
<1>4. ASSUME NEW v \in Visitors, ChangeCookie(v) PROVE SavedInv' /\ Remembers
  BY <1>1, <1>4, SameTab DEF ChangeCookie
<1>5. ASSUME NEW a \in Accounts, NEW t \in Tags, SaveElsewhere(a, t) \/ DropElsewhere(a, t)
      PROVE  SavedInv' /\ Remembers
  <2>1. RowsKept
    BY <1>5, PutKept, DropKept DEF SaveElsewhere, DropElsewhere
  <2>2. UNCHANGED <<cookie, retired, tab>>
    BY <1>5 DEF SaveElsewhere, DropElsewhere
  <2>3. QED
    BY <2>1, <2>2, SameTab, TabType
<1>6. QED
  BY <1>2, <1>3, <1>4, <1>5, ToggleSteps, ReadListStep, MergeTagStep, FailMergeStep,
     FinishMergeStep, SessionSteps, ForgettingSteps DEF SavedNext

LEMMA SavedInvAlways == SavedSpec => []SavedInv
BY SavedInvInit, SavedInvNext, PTL DEF SavedSpec

(* The rows of account_saved_tags stay within their limit, and the tab of      *)
(* SavedTagsProvider.tsx keeps the shape that the code gives it.               *)
THEOREM SavedTypes == SavedSpec => []SavedTypeOK
<1>1. SavedInv => SavedTypeOK
  BY DEF SavedInv
<1>2. QED
  BY <1>1, SavedInvAlways, PTL

(* SavedTagsProvider.tsx forgets a choice of a visitor who is signed in only   *)
(* when some account has had it, unless two merges of the account overlap.     *)
THEOREM ChoicesKeptUntilSaved == SavedSpec => KeptUntilSaved
BY SavedInvInit, SavedInvNext, PTL DEF SavedSpec, KeptUntilSaved, Remembers

------------------------------------------------------------------------------
(* The components side by side.                                                *)

DeskInv == ModerationInv /\ ServiceInv /\ AccessInv /\ SavedInv

(* All four components keep the types of their variables when they run side by *)
(* side.                                                                       *)
THEOREM DeskTypes == Spec => []TypesOK
<1> DEFINE deskVars == <<running, moderationVars, serviceVars, accessVars, savedVars>>
<1>1. Init => DeskInv
  BY ModerationInvInit, ServiceInvInit, AccessInvInit, SavedInvInit DEF Init, DeskInv
<1>2. DeskInv /\ [Next]_deskVars => DeskInv'
  <2> SUFFICES ASSUME DeskInv, [Next]_deskVars PROVE DeskInv'
    OBVIOUS
  <2>1. /\ [ModerationNext]_moderationVars /\ [ServiceNext]_serviceVars
        /\ [AccessNext]_accessVars /\ [SavedNext]_savedVars
    BY DEF Next
  <2>2. QED
    BY <2>1, ModerationInvNext, ServiceInvNext, AccessInvNext, SavedInvNext DEF DeskInv
<1>3. DeskInv => TypesOK
  BY DEF DeskInv, TypesOK, ModerationInv, ServiceInv, AccessInv, SavedInv
<1>4. QED
  BY <1>1, <1>2, <1>3, PTL DEF Spec
==============================================================================
