--------------------------- MODULE OwnershipProofs ---------------------------
(***************************************************************************)
(* Theorems about OwnershipTransfer for any accounts, entries, offers,     *)
(* concurrent requests and bounds: its types and its audit; what a request *)
(* may rely on when it commits; how an offer ages; and that the handlers   *)
(* implement OwnershipConsent.                                             *)
(***************************************************************************)
EXTENDS OwnershipTransfer, SequenceTheorems, TLAPS

Decisions == {"accept", "decline", "cancel"}

\* A request on an offer names an offer that was made, its entry and, unless
\* staff cancels, its recipient; a nomination names an account.
Linked(q, rows) == q.pc # "idle" =>
  /\ q.kind \in Decisions =>
       /\ q.offer \in OfferIds
       /\ rows[q.offer] \in Offer
       /\ rows[q.offer].listing = q.listing
       /\ q.kind # "cancel" => rows[q.offer].recipient = q.caller
  /\ q.kind = "nominate" => q.recipient \in Accounts

RequestsLinked == \A r \in Requests : Linked(requests[r], offers)

TypeInv == TypeOK /\ RequestsLinked

------------------------------------------------------------------------------
(* Lemmas on the rows. *)

\* Every UPDATE of an account row gives an account row.
LEMMA RowUpdates ==
  ASSUME NEW row \in AccountRow, NEW role \in Roles
  PROVE  /\ Recovered(row) \in AccountRow
         /\ Rotated(row) \in AccountRow
         /\ SignedOut(row) \in AccountRow
         /\ PhraseSaved(row) \in AccountRow
         /\ RoleAssigned(row, role) \in AccountRow
         /\ Administered(row) \in AccountRow
         /\ [row EXCEPT !.exists = FALSE] \in AccountRow
<1> USE DEF AccountRow
<1>1. /\ row.version + 1 \in Nat
      /\ (row.role # "user") \in BOOLEAN
  OBVIOUS
<1>2. Recovered(row) \in AccountRow
  BY <1>1, Zenon DEF Recovered
<1>3. Rotated(row) \in AccountRow
  BY <1>1, Zenon DEF Rotated
<1>4. SignedOut(row) \in AccountRow
  BY <1>1, Zenon DEF SignedOut
<1>5. PhraseSaved(row) \in AccountRow
  BY Zenon DEF PhraseSaved
<1>6. RoleAssigned(row, role) \in AccountRow
  BY <1>1, Zenon DEF RoleAssigned
<1>7. "administrator" \in Roles
  BY DEF Roles
<1>8. Administered(row) \in AccountRow
  BY <1>1, <1>7, Zenon DEF Administered
<1>9. [row EXCEPT !.exists = FALSE] \in AccountRow
  BY Zenon
<1>10. QED
  BY <1>2, <1>3, <1>4, <1>5, <1>6, <1>8, <1>9

\* An account step is the write of one row.
LEMMA AccountStepWrites ==
  ASSUME TypeOK, AccountStep
  PROVE  \E a \in Accounts, row \in AccountRow : WriteRow(a, row)
<1>1. PICK a \in Accounts :
        \/ RecoverCredentials(a)
        \/ RotateCredentials(a)
        \/ RevokeSessions(a)
        \/ SavePhrase(a)
        \/ \E role \in Roles : AssignRole(a, role)
        \/ GrantAdministrator(a)
        \/ DeleteAccount(a)
  BY DEF AccountStep
<1>2. accounts[a] \in AccountRow
  BY DEF TypeOK
<1>3. CASE \E role \in Roles : AssignRole(a, role)
  BY <1>2, <1>3, RowUpdates DEF AssignRole, WriteAccount
<1>4. QED
  BY <1>1, <1>2, <1>3, RowUpdates DEF RecoverCredentials, RotateCredentials, RevokeSessions, SavePhrase,
     GrantAdministrator, DeleteAccount, Roles, WriteAccount

\* What happens to entries outside transfers gives entries.
LEMMA ListingTyping ==
  ASSUME TypeOK, ListingStep
  PROVE  listings' \in [Listings -> Listing]
<1>1. NoListing \in Listing
  BY OwnershipAssumption DEF NoListing, Listing, Holder, Statuses
<1>2. PICK l \in Listings :
        \/ \E owner \in Holder : Submit(l, owner)
        \/ EditContent(l)
        \/ Attest(l)
        \/ \E status \in Statuses : SetStatus(l, status)
        \/ DeleteListing(l)
  BY DEF ListingStep
<1>3. listings[l] \in Listing
  BY DEF TypeOK
<1>4. ASSUME NEW row \in Listing, WriteListing(l, row)
      PROVE  listings' \in [Listings -> Listing]
  <2>1. listings[l].version + 1 \in Nat
    BY <1>3 DEF Listing
  <2>2. [row EXCEPT !.version = listings[l].version + 1] \in Listing
    BY <1>4, <2>1, Zenon DEF Listing
  <2>3. QED
    BY <1>4, <2>2 DEF WriteListing, TypeOK
<1>5. CASE \E owner \in Holder : Submit(l, owner)
  <2>1. PICK owner \in Holder : Submit(l, owner)
    BY <1>5
  <2>2. [NoListing EXCEPT !.phase = "live", !.owner = owner, !.version = 1] \in Listing
    BY <1>1, Zenon DEF Listing
  <2>3. QED
    BY <2>1, <2>2 DEF Submit, TypeOK
<1>6. CASE EditContent(l)
  BY <1>3, <1>4, <1>6 DEF EditContent, Listing
<1>7. CASE Attest(l)
  BY <1>3, <1>4, <1>7 DEF Attest, Listing
<1>8. CASE \E status \in Statuses : SetStatus(l, status)
  BY <1>3, <1>4, <1>8 DEF SetStatus, Listing
<1>9. CASE DeleteListing(l)
  BY <1>1, <1>9 DEF DeleteListing, Listing, TypeOK
<1>10. QED
  BY <1>2, <1>5, <1>6, <1>7, <1>8, <1>9

------------------------------------------------------------------------------
(* Type correctness. *)

\* The placeholders are neither requests nor offers.
LEMMA Distinct == /\ Idle \notin Request
                  /\ NoOffer \notin Offer
<1>1. Idle.pc = "idle" /\ \A q \in Request : q.pc # "idle"
  BY DEF Idle, Request
<1>2. NoOffer.state = "none" /\ \A q \in Offer : q.state # "none"
  BY DEF NoOffer, Offer, Outcomes
<1>3. QED
  BY <1>1, <1>2

\* A request that has begun is a full record.
LEMMA Active ==
  ASSUME TypeOK, NEW r \in Requests, requests[r].pc # "idle"
  PROVE  requests[r] \in Request
BY DEF TypeOK, Idle

\* A reply frees the request.
LEMMA ReplyTyping ==
  ASSUME TypeOK, NEW r \in Requests, Reply(r)
  PROVE  requests' \in [Requests -> Request \cup {Idle}]
BY DEF TypeOK, Reply

\* What the middleware and the unlocked reads give is a request.
LEMMA BeginTyping ==
  ASSUME TypeOK, NEW r \in Requests, BeginStep(r)
  PROVE  requests' \in [Requests -> Request \cup {Idle}]
<1> DEFINE Shape == [kind : Kinds, caller : Accounts, listing : Listings, version : Nat,
                     recipient : Holder, prior : Holder, offer : OfferIds \cup {Nobody}]
<1>1. ASSUME NEW c \in Accounts, NEW kind \in Kinds, NEW l \in Listings, NEW version \in Nat,
             NEW recipient \in Holder, NEW prior \in Holder, NEW offer \in OfferIds \cup {Nobody},
             Begin(r, [kind |-> kind, caller |-> c, listing |-> l, version |-> version,
                       recipient |-> recipient, prior |-> prior, offer |-> offer])
      PROVE  requests' \in [Requests -> Request \cup {Idle}]
  <2>1. accounts[c].version \in Nat
    BY DEF TypeOK, AccountRow
  <2> DEFINE new == [pc |-> "begun", kind |-> kind, caller |-> c, session |-> accounts[c].version,
                     held |-> {}, listing |-> l, version |-> version,
                     recipient |-> recipient, prior |-> prior, offer |-> offer]
  <2>2. new \in Request
    BY <2>1 DEF Request
  <2>3. requests' = [requests EXCEPT ![r] = new]
    BY <1>1 DEF Begin
  <2>4. QED
    BY <2>2, <2>3 DEF TypeOK
<1>2. ASSUME NEW c \in Accounts, NEW l \in Listings, NEW version \in 1..MaxRevision,
             NEW recipient \in Accounts, BeginNominate(r, c, l, version, recipient)
      PROVE  requests' \in [Requests -> Request \cup {Idle}]
  <2>1. (IF Live(l) THEN listings[l].owner ELSE Nobody) \in Holder
    BY DEF TypeOK, Listing, Holder
  <2>2. version \in Nat /\ "nominate" \in Kinds
    BY OwnershipAssumption DEF Kinds
  <2>3. QED
    BY <1>1, <1>2, <2>1, <2>2 DEF BeginNominate, Holder
<1>3. ASSUME NEW c \in Accounts, NEW l \in Listings, NEW version \in 1..MaxRevision,
             BeginNoAccount(r, c, l, version)
      PROVE  requests' \in [Requests -> Request \cup {Idle}]
  <2>1. version \in Nat /\ "no-account" \in Kinds
    BY OwnershipAssumption DEF Kinds
  <2>2. QED
    BY <1>1, <1>3, <2>1 DEF BeginNoAccount, Holder
<1>4. ASSUME NEW c \in Accounts, NEW kind \in Kinds, NEW o \in OfferIds, BeginDecision(r, kind, c, o)
      PROVE  requests' \in [Requests -> Request \cup {Idle}]
  <2>1. offers[o] \in Offer
    BY <1>4 DEF BeginDecision, TypeOK
  <2>2. offers[o].listing \in Listings /\ offers[o].recipient \in Holder /\ 0 \in Nat
    BY <2>1 DEF Offer, Holder
  <2>3. QED
    BY <1>1, <1>4, <2>2 DEF BeginDecision, Holder
<1>5. QED
  BY <1>2, <1>3, <1>4 DEF BeginStep

\* A request locks accounts.
LEMMA WantedAccounts ==
  ASSUME TypeInv, NEW r \in Requests, requests[r].pc # "idle"
  PROVE  Wanted(requests[r]) \subseteq Holder /\ Found(requests[r]) \subseteq Accounts
<1>1. requests[r] \in Request
  BY Active DEF TypeInv
<1>2. requests[r].caller \in Holder /\ requests[r].recipient \in Holder /\ requests[r].prior \in Holder
  BY <1>1 DEF Request, Holder
<1>3. CASE requests[r].kind = "nominate"
  BY <1>2, <1>3 DEF Wanted, Found, Holder
<1>4. CASE requests[r].kind = "no-account"
  BY <1>2, <1>4 DEF Wanted, Found, Holder
<1>5. CASE requests[r].kind \in Decisions
  <2>1. offers[requests[r].offer].proposer \in Accounts
    BY <1>5 DEF TypeInv, RequestsLinked, Linked, Offer
  <2>2. Wanted(requests[r]) = {requests[r].caller, offers[requests[r].offer].proposer}
    BY <1>5 DEF Wanted, Decisions
  <2>3. QED
    BY <1>2, <2>1, <2>2 DEF Found, Holder
<1>6. QED
  BY <1>1, <1>3, <1>4, <1>5 DEF Request, Kinds, Decisions

\* A locked request is still a request.
LEMMA LockTyping ==
  ASSUME TypeInv, NEW r \in Requests, LockAccounts(r)
  PROVE  requests' \in [Requests -> Request \cup {Idle}]
<1> USE DEF TypeInv
<1>1. requests[r].pc = "begun"
  BY DEF LockAccounts
<1>2. requests[r] \in Request
  BY <1>1, Active
<1>3. CASE MayLock(requests[r])
  <2> DEFINE locked == [requests[r] EXCEPT !.pc = "locked", !.held = Found(requests[r])]
  <2>1. Found(requests[r]) \in SUBSET Accounts
    BY <1>1, WantedAccounts
  <2>2. "locked" \in {"begun", "locked"}
    OBVIOUS
  <2>3. locked \in Request
    BY <1>2, <2>1, <2>2, Zenon DEF Request
  <2>4. requests' = [requests EXCEPT ![r] = locked]
    BY <1>3 DEF LockAccounts, TypeOK
  <2>5. QED
    BY <2>3, <2>4 DEF TypeOK
<1>4. CASE ~MayLock(requests[r])
  BY <1>4, ReplyTyping DEF LockAccounts
<1>5. QED
  BY <1>3, <1>4

Causes == {"", "expired", "proposer_changed", "entry_changed"}

\* Who resolves an offer with which outcome.
Resolver(o, actor, state) ==
  /\ state \in {"accepted", "declined"} => actor = offers[o].recipient
  /\ state = "cancelled" => actor # Nobody
  /\ state \in {"expired", "revoked"} => actor = Nobody

\* A commit leaves offers alone, makes one, or resolves the pending one that
\* the request names.
LEMMA CommitOffers ==
  ASSUME TypeInv, NEW r \in Requests, CommitStep(r)
  PROVE  \/ UNCHANGED <<offers, trail>>
         \/ \E o \in OfferIds : CommitNominate(r, o)
         \/ /\ requests[r].offer \in OfferIds
            /\ offers[requests[r].offer] \in Offer
            /\ Unresolved(requests[r].offer)
            /\ \E actor \in Holder, state \in Outcomes, cause \in Causes :
                 /\ Resolve(requests[r].offer, actor, state, cause)
                 /\ Resolver(requests[r].offer, actor, state)
<1> USE DEF TypeInv
<1>1. ASSUME NEW kind \in Decisions, Deciding(r, kind)
      PROVE  /\ requests[r].offer \in OfferIds
             /\ offers[requests[r].offer] \in Offer
             /\ requests[r].caller \in Accounts
             /\ kind # "cancel" => offers[requests[r].offer].recipient = requests[r].caller
  BY <1>1, Active DEF Deciding, RequestsLinked, Linked, Request
<1>2. CASE \E o \in OfferIds : CommitNominate(r, o)
  BY <1>2
<1>3. CASE RefuseNominate(r) \/ RefuseNoAccount(r) \/ DecideResolved(r) \/ AcceptUnverified(r)
  BY <1>3 DEF RefuseNominate, RefuseNoAccount, DecideResolved, AcceptUnverified, Fail
<1>4. CASE \E label \in BOOLEAN : CommitNoAccount(r, label)
  BY <1>4 DEF CommitNoAccount
<1>5. CASE DecideExpired(r)
  BY <1>1, <1>5 DEF DecideExpired, Decisions, Outcomes, Causes, Holder, Resolver
<1>6. CASE AcceptRevoked(r)
  BY <1>1, <1>6 DEF AcceptRevoked, Decisions, Outcomes, Causes, Holder, Resolver
<1>7. CASE \E verified \in BOOLEAN : CommitAccept(r, verified)
  BY <1>1, <1>7 DEF CommitAccept, Acceptable, Decisions, Outcomes, Causes, Holder, Resolver
<1>8. CASE CommitDecline(r)
  BY <1>1, <1>8 DEF CommitDecline, Decisions, Outcomes, Causes, Holder, Resolver
<1>9. CASE CommitCancel(r)
  BY <1>1, <1>9, OwnershipAssumption DEF CommitCancel, Decisions, Outcomes, Causes, Holder, Resolver
<1>10. QED
  BY <1>2, <1>3, <1>4, <1>5, <1>6, <1>7, <1>8, <1>9 DEF CommitStep

\* The offer that a nomination makes.
NewOffer(r) ==
  LET req == requests[r]
      l == req.listing
  IN [state |-> "pending", listing |-> l, proposer |-> req.caller,
      role |-> accounts[req.caller].role, session |-> accounts[req.caller].version,
      recipient |-> req.recipient, prior |-> listings[l].owner,
      version |-> listings[l].version, status |-> listings[l].status,
      expires |-> now + Lifetime]

\* A nomination inserts an offer.
LEMMA NewOfferTyping ==
  ASSUME TypeInv, NEW r \in Requests, NEW o \in OfferIds, CommitNominate(r, o)
  PROVE  NewOffer(r) \in Offer
<1> USE DEF TypeInv
<1>1. requests[r] \in Request /\ requests[r].recipient \in Accounts
  BY Active DEF CommitNominate, RequestsLinked, Linked
<1>2. accounts[requests[r].caller] \in AccountRow /\ listings[requests[r].listing] \in Listing
  BY <1>1 DEF TypeOK, Request
<1>3. now + Lifetime \in Nat
  BY OwnershipAssumption DEF TypeOK
<1>4. QED
  BY <1>1, <1>2, <1>3 DEF NewOffer, Offer, Request, AccountRow, Listing

\* What the steps do to one offer and its audit rows.
LEMMA OfferMoves ==
  ASSUME TypeInv, NEW r \in Requests, CommitStep(r), NEW p \in OfferIds
  PROVE  \/ offers'[p] = offers[p] /\ trail'[p] = trail[p]
         \/ /\ CommitNominate(r, p)
            /\ offers'[p] = NewOffer(r)
            /\ trail'[p] = Append(trail[p], Entry("proposed", requests[r].caller, ""))
         \/ /\ Unresolved(p) /\ offers[p] \in Offer
            /\ \E actor \in Holder, state \in Outcomes, cause \in Causes :
                 /\ offers'[p] = [offers[p] EXCEPT !.state = state]
                 /\ trail'[p] = Append(trail[p], Entry(state, actor, cause))
                 /\ Resolver(p, actor, state)
<1> USE DEF TypeInv
<1>1. CASE UNCHANGED <<offers, trail>>
  BY <1>1
<1>2. ASSUME NEW o \in OfferIds, CommitNominate(r, o)
      PROVE  \/ offers'[p] = offers[p] /\ trail'[p] = trail[p]
             \/ /\ CommitNominate(r, p)
                /\ offers'[p] = NewOffer(r)
                /\ trail'[p] = Append(trail[p], Entry("proposed", requests[r].caller, ""))
             \/ /\ Unresolved(p) /\ offers[p] \in Offer
                /\ offers'[p] = [offers[p] EXCEPT !.state = "expired"]
                /\ trail'[p] = Append(trail[p], Entry("expired", Nobody, "expired"))
  <2>1. CASE p = o
    BY <1>2, <2>1 DEF CommitNominate, NewOffer
  <2>2. CASE p # o /\ p \in PendingOn(requests[r].listing)
    <3>1. Unresolved(p) /\ offers[p] \in Offer
      BY <2>2 DEF PendingOn, Unresolved, TypeOK, NoOffer
    <3>2. QED
      BY <1>2, <2>2, <3>1 DEF CommitNominate
  <2>3. CASE p # o /\ p \notin PendingOn(requests[r].listing)
    BY <1>2, <2>3 DEF CommitNominate
  <2>4. QED
    BY <2>1, <2>2, <2>3
<1>3. ASSUME NEW actor \in Holder, NEW state \in Outcomes, NEW cause \in Causes,
             requests[r].offer \in OfferIds, offers[requests[r].offer] \in Offer,
             Unresolved(requests[r].offer),
             Resolve(requests[r].offer, actor, state, cause),
             Resolver(requests[r].offer, actor, state)
      PROVE  \/ offers'[p] = offers[p] /\ trail'[p] = trail[p]
             \/ /\ Unresolved(p) /\ offers[p] \in Offer
                /\ offers'[p] = [offers[p] EXCEPT !.state = state]
                /\ trail'[p] = Append(trail[p], Entry(state, actor, cause))
                /\ Resolver(p, actor, state)
  BY <1>3 DEF Resolve, TypeOK
<1>4. "expired" \in Outcomes /\ "expired" \in Causes /\ Nobody \in Holder /\ Resolver(p, Nobody, "expired")
  BY DEF Outcomes, Causes, Holder, Resolver
<1>5. CASE \E o \in OfferIds : CommitNominate(r, o)
  BY <1>2, <1>4, <1>5
<1>6. CASE \E actor \in Holder, state \in Outcomes, cause \in Causes :
             /\ requests[r].offer \in OfferIds
             /\ offers[requests[r].offer] \in Offer
             /\ Unresolved(requests[r].offer)
             /\ Resolve(requests[r].offer, actor, state, cause)
             /\ Resolver(requests[r].offer, actor, state)
  <2>1. PICK actor \in Holder, state \in Outcomes, cause \in Causes :
             /\ requests[r].offer \in OfferIds
             /\ offers[requests[r].offer] \in Offer
             /\ Unresolved(requests[r].offer)
             /\ Resolve(requests[r].offer, actor, state, cause)
             /\ Resolver(requests[r].offer, actor, state)
    BY <1>6
  <2>2. QED
    BY <1>3, <2>1
<1>7. QED
  BY <1>1, <1>5, <1>6, CommitOffers

\* Every commit ends its request, and changes no account and no clock.
LEMMA CommitFrame ==
  ASSUME NEW r \in Requests, CommitStep(r)
  PROVE  requests[r].pc = "locked" /\ Reply(r) /\ UNCHANGED <<accounts, now>>
<1>1. ASSUME NEW o \in OfferIds, CommitNominate(r, o)
      PROVE  requests[r].pc = "locked" /\ Reply(r) /\ UNCHANGED <<accounts, now>>
  BY <1>1 DEF CommitNominate
<1>2. ASSUME NEW label \in BOOLEAN, CommitNoAccount(r, label)
      PROVE  requests[r].pc = "locked" /\ Reply(r) /\ UNCHANGED <<accounts, now>>
  BY <1>2 DEF CommitNoAccount
<1>3. ASSUME NEW verified \in BOOLEAN, CommitAccept(r, verified)
      PROVE  requests[r].pc = "locked" /\ Reply(r) /\ UNCHANGED <<accounts, now>>
  BY <1>3 DEF CommitAccept, Deciding
<1>4. QED
  BY <1>1, <1>2, <1>3 DEF CommitStep, RefuseNominate, RefuseNoAccount, DecideResolved, DecideExpired,
     AcceptRevoked, AcceptUnverified, CommitDecline, CommitCancel, Fail, Deciding

\* What a commit does to the entries: nothing, a release, or a hand-over of
\* the entry of an offer that is acceptable.
LEMMA CommitListings ==
  ASSUME TypeInv, NEW r \in Requests, CommitStep(r)
  PROVE  \/ UNCHANGED listings
         \/ /\ requests[r].kind = "no-account"
            /\ requests[r].listing \in Listings
            /\ Live(requests[r].listing)
            /\ \E label \in BOOLEAN :
                 listings' = [listings EXCEPT ![requests[r].listing] = Reassigned(@, Nobody, label)]
            /\ UNCHANGED <<offers, trail>>
         \/ LET o == requests[r].offer IN
            /\ Deciding(r, "accept")
            /\ o \in OfferIds /\ offers[o] \in Offer
            /\ Acceptable(o)
            /\ requests[r].caller = offers[o].recipient
            /\ listings' = [listings EXCEPT ![offers[o].listing] =
                              Reassigned(@, offers[o].recipient, FALSE)]
            /\ Resolve(o, offers[o].recipient, "accepted", "")
<1>1. ASSUME NEW o \in OfferIds, CommitNominate(r, o) PROVE UNCHANGED listings
  BY <1>1 DEF CommitNominate
<1>2. ASSUME NEW label \in BOOLEAN, CommitNoAccount(r, label)
      PROVE  /\ requests[r].kind = "no-account"
             /\ requests[r].listing \in Listings
             /\ Live(requests[r].listing)
             /\ listings' = [listings EXCEPT ![requests[r].listing] = Reassigned(@, Nobody, label)]
             /\ UNCHANGED <<offers, trail>>
  <2>1. requests[r] \in Request
    BY <1>2, Active DEF CommitNoAccount, TypeInv
  <2>2. QED
    BY <1>2, <2>1 DEF CommitNoAccount, Releasable, Request
<1>3. ASSUME NEW verified \in BOOLEAN, CommitAccept(r, verified)
      PROVE  LET o == requests[r].offer IN
            /\ Deciding(r, "accept")
            /\ o \in OfferIds /\ offers[o] \in Offer
            /\ Acceptable(o)
            /\ requests[r].caller = offers[o].recipient
            /\ listings' = [listings EXCEPT ![offers[o].listing] =
                              Reassigned(@, offers[o].recipient, FALSE)]
            /\ Resolve(o, offers[o].recipient, "accepted", "")
  <2>1. /\ requests[r].offer \in OfferIds
        /\ offers[requests[r].offer] \in Offer
        /\ offers[requests[r].offer].recipient = requests[r].caller
    BY <1>3 DEF CommitAccept, Deciding, TypeInv, RequestsLinked, Linked, Decisions
  <2>2. QED
    BY <1>3, <2>1 DEF CommitAccept
<1>4. ASSUME \/ RefuseNominate(r) \/ RefuseNoAccount(r) \/ DecideResolved(r) \/ DecideExpired(r)
             \/ AcceptRevoked(r) \/ AcceptUnverified(r) \/ CommitDecline(r) \/ CommitCancel(r)
      PROVE  UNCHANGED listings
  BY <1>4 DEF RefuseNominate, RefuseNoAccount, DecideResolved, DecideExpired,
     AcceptRevoked, AcceptUnverified, CommitDecline, CommitCancel, Fail
<1>5. QED
  BY <1>1, <1>2, <1>3, <1>4 DEF CommitStep

\* A new owner leaves a row of its shape.
LEMMA ReassignedTyping ==
  ASSUME NEW row \in Listing, NEW owner \in Holder, NEW label \in BOOLEAN
  PROVE  Reassigned(row, owner, label) \in Listing
<1>1. row.version + 1 \in Nat
  BY DEF Listing
<1>2. QED
  BY <1>1, Zenon DEF Reassigned, Listing

\* Every commit writes rows of the declared shapes.
LEMMA CommitTyping ==
  ASSUME TypeInv, NEW r \in Requests, CommitStep(r)
  PROVE  TypeOK'
<1> USE DEF TypeInv
<1>1. UNCHANGED <<accounts, now>> /\ requests' \in [Requests -> Request \cup {Idle}]
  BY CommitFrame, ReplyTyping
<1>2. listings' \in [Listings -> Listing]
  <2>1. CASE UNCHANGED listings
    BY <2>1 DEF TypeOK
  <2>2. ASSUME NEW l \in Listings, NEW owner \in Holder, NEW label \in BOOLEAN,
               listings' = [listings EXCEPT ![l] = Reassigned(@, owner, label)]
        PROVE  listings' \in [Listings -> Listing]
    BY <2>2, ReassignedTyping DEF TypeOK
  <2>3. QED
    BY <2>1, <2>2, CommitListings DEF Holder, Offer
<1>3. offers' \in [OfferIds -> Offer \cup {NoOffer}] /\ trail' \in [OfferIds -> Seq(AuditRow)]
  <2>1. /\ DOMAIN offers' = OfferIds /\ offers' = [p \in OfferIds |-> offers'[p]]
        /\ DOMAIN trail' = OfferIds /\ trail' = [p \in OfferIds |-> trail'[p]]
    <3>1. CASE UNCHANGED <<offers, trail>>
      BY <3>1 DEF TypeOK
    <3>2. CASE \E o \in OfferIds : CommitNominate(r, o)
      BY <3>2 DEF CommitNominate
    <3>3. CASE \E o, actor, state, cause : Resolve(o, actor, state, cause)
      BY <3>3 DEF Resolve, TypeOK
    <3>4. QED
      BY <3>1, <3>2, <3>3, CommitOffers
  <2>2. ASSUME NEW p \in OfferIds
        PROVE  offers'[p] \in Offer \cup {NoOffer} /\ trail'[p] \in Seq(AuditRow)
    <3>1. offers[p] \in Offer \cup {NoOffer} /\ trail[p] \in Seq(AuditRow)
      BY DEF TypeOK
    <3>2. ASSUME CommitNominate(r, p), offers'[p] = NewOffer(r),
                 trail'[p] = Append(trail[p], Entry("proposed", requests[r].caller, ""))
          PROVE  offers'[p] \in Offer \cup {NoOffer} /\ trail'[p] \in Seq(AuditRow)
      <4>1. requests[r].caller \in Holder
        BY CommitFrame, Active DEF Request, Holder
      <4>2. Entry("proposed", requests[r].caller, "") \in AuditRow
        BY <4>1 DEF Entry, AuditRow
      <4>3. offers'[p] \in Offer
        BY <3>2, NewOfferTyping
      <4>4. trail'[p] \in Seq(AuditRow)
        <5> DEFINE e == Entry("proposed", requests[r].caller, "")
        <5>1. trail'[p] = Append(trail[p], e) /\ e \in AuditRow
          BY <3>2, <4>2
        <5> HIDE DEF e
        <5>2. QED
          BY <3>1, <5>1
      <4>5. QED
        BY <4>3, <4>4
    <3>3. ASSUME NEW actor \in Holder, NEW state \in Outcomes, NEW cause \in Causes,
                 offers[p] \in Offer,
                 offers'[p] = [offers[p] EXCEPT !.state = state],
                 trail'[p] = Append(trail[p], Entry(state, actor, cause))
          PROVE  offers'[p] \in Offer \cup {NoOffer} /\ trail'[p] \in Seq(AuditRow)
      <4>1. Entry(state, actor, cause) \in AuditRow
        BY DEF Entry, AuditRow, Causes
      <4>2. offers'[p] \in Offer
        BY <3>3 DEF Offer
      <4>3. QED
        BY <3>1, <3>3, <4>1, <4>2
    <3>4. QED
      BY <3>1, <3>2, <3>3, OfferMoves
  <2>3. QED
    BY <2>1, <2>2
<1>4. QED
  BY <1>1, <1>2, <1>3 DEF TypeOK

\* The empty tables have their types.
LEMMA TypeInit == Init => TypeInv
<1> SUFFICES ASSUME Init PROVE TypeInv
  OBVIOUS
<1>1. accounts \in [Accounts -> AccountRow]
  BY Zenon DEF Init, StartRow, FreshRow, AccountRow, Roles
<1>2. NoListing \in Listing
  BY OwnershipAssumption DEF NoListing, Listing, Holder, Statuses
<1>3. QED
  BY <1>1, <1>2 DEF Init, TypeInv, TypeOK, RequestsLinked, Linked, Idle

\* Begin, lock and rollback steps change the request only.
LEMMA RequestFrame ==
  ASSUME NEW r \in Requests, BeginStep(r) \/ LockAccounts(r) \/ Rollback(r)
  PROVE  UNCHANGED <<accounts, listings, offers, trail, now>>
<1>1. CASE BeginStep(r)
  BY <1>1 DEF BeginStep, BeginNominate, BeginNoAccount, BeginDecision, Begin
<1>2. CASE LockAccounts(r) \/ Rollback(r)
  BY <1>2 DEF LockAccounts, Rollback
<1>3. QED
  BY <1>1, <1>2

\* An entry handler changes the entries only.
LEMMA ListingFrame ==
  ASSUME ListingStep
  PROVE  UNCHANGED <<accounts, offers, trail, requests, now>>
BY DEF ListingStep, Submit, EditContent, Attest, SetStatus, DeleteListing, WriteListing

\* Every step but a commit, by what it changes.
LEMMA OtherSteps ==
  ASSUME TypeOK, [Next]_vars, ~ \E r \in Requests : CommitStep(r)
  PROVE  /\ UNCHANGED <<offers, trail>>
         /\ \/ UNCHANGED vars
            \/ Tick
            \/ \E a \in Accounts, row \in AccountRow : WriteRow(a, row)
            \/ ListingStep
            \/ \E r \in Requests : BeginStep(r) \/ LockAccounts(r) \/ Rollback(r)
<1>1. CASE UNCHANGED vars
  BY <1>1 DEF vars
<1>2. CASE Tick
  BY <1>2 DEF Tick
<1>3. CASE AccountStep
  BY <1>3, AccountStepWrites DEF WriteRow
<1>4. CASE ListingStep
  BY <1>4, ListingFrame
<1>5. CASE \E r \in Requests : BeginStep(r) \/ LockAccounts(r) \/ Rollback(r)
  BY <1>5, RequestFrame
<1>6. QED
  BY <1>1, <1>2, <1>3, <1>4, <1>5 DEF Next, RequestStep

\* The entry and the parties of an offer never change, so a request stays
\* linked to it.
LEMMA OfferIdentity ==
  ASSUME TypeInv, [Next]_vars, NEW o \in OfferIds, offers[o] \in Offer
  PROVE  /\ offers'[o] \in Offer
         /\ \E state \in {"pending"} \cup Outcomes : offers'[o] = [offers[o] EXCEPT !.state = state]
<1>1. offers[o] = [offers[o] EXCEPT !.state = offers[o].state]
  BY DEF Offer
<1>2. offers[o].state \in {"pending"} \cup Outcomes
  BY DEF Offer
<1>3. CASE UNCHANGED offers
  BY <1>1, <1>2, <1>3
<1>4. ASSUME NEW r \in Requests, CommitStep(r)
      PROVE \E state \in {"pending"} \cup Outcomes : offers'[o] = [offers[o] EXCEPT !.state = state]
  <2>1. ~CommitNominate(r, o)
    BY Distinct DEF CommitNominate
  <2>2. QED
    BY <1>1, <1>2, <1>4, <2>1, OfferMoves
<1>5. CASE \E r \in Requests : CommitStep(r)
  <2>1. PICK state \in {"pending"} \cup Outcomes : offers'[o] = [offers[o] EXCEPT !.state = state]
    BY <1>4, <1>5
  <2>2. [offers[o] EXCEPT !.state = state] \in Offer
    BY <2>1, Zenon DEF Offer
  <2>3. QED
    BY <2>1, <2>2
<1>6. CASE ~ \E r \in Requests : CommitStep(r)
  BY <1>3, <1>6, OtherSteps DEF TypeInv
<1>7. QED
  BY <1>5, <1>6

\* A request that begins is linked to what it read.
LEMMA BeginLinks ==
  ASSUME TypeOK, NEW r \in Requests, BeginStep(r)
  PROVE  requests'[r].pc = "begun" /\ Linked(requests'[r], offers)
<1> USE DEF TypeOK
<1>1. ASSUME NEW c \in Accounts, NEW kind \in Kinds, NEW o \in OfferIds, BeginDecision(r, kind, c, o)
      PROVE  requests'[r].pc = "begun" /\ Linked(requests'[r], offers)
  <2>1. offers[o] \in Offer /\ kind # "nominate"
    BY <1>1 DEF BeginDecision, TypeOK
  <2>2. QED
    BY <1>1, <2>1 DEF BeginDecision, Begin, Linked
<1>2. ASSUME NEW c \in Accounts, NEW l \in Listings, NEW version, NEW recipient \in Accounts,
             BeginNominate(r, c, l, version, recipient)
      PROVE  requests'[r].pc = "begun" /\ Linked(requests'[r], offers)
  BY <1>2 DEF BeginNominate, Begin, Linked, Decisions
<1>3. ASSUME NEW c \in Accounts, NEW l \in Listings, NEW version, BeginNoAccount(r, c, l, version)
      PROVE  requests'[r].pc = "begun" /\ Linked(requests'[r], offers)
  BY <1>3 DEF BeginNoAccount, Begin, Linked, Decisions
<1>4. QED
  BY <1>1, <1>2, <1>3 DEF BeginStep

\* What a step leaves in the slot of one request.
LEMMA RequestMoves ==
  ASSUME TypeInv, [Next]_vars, NEW s \in Requests
  PROVE  \/ requests'[s] = requests[s]
         \/ requests'[s] = Idle
         \/ /\ requests[s].pc = "begun" /\ MayLock(requests[s])
            /\ requests'[s] = [requests[s] EXCEPT !.pc = "locked", !.held = Found(requests[s])]
            /\ UNCHANGED <<accounts, listings, offers, trail, now>>
         \/ requests'[s].pc = "begun" /\ Linked(requests'[s], offers)
<1> USE DEF TypeInv
<1>1. ASSUME NEW r \in Requests, Reply(r)
      PROVE  requests'[s] = requests[s] \/ requests'[s] = Idle
  BY <1>1 DEF Reply, TypeOK
<1>2. CASE \E r \in Requests : CommitStep(r)
  BY <1>1, <1>2, CommitFrame
<1>3. CASE ~ \E r \in Requests : CommitStep(r)
  <2>1. CASE UNCHANGED requests
    BY <2>1
  <2>2. ASSUME NEW r \in Requests, BeginStep(r)
        PROVE  \/ requests'[s] = requests[s]
               \/ requests'[s].pc = "begun" /\ Linked(requests'[s], offers)
    <3>1. s # r => requests'[s] = requests[s]
      BY <2>2 DEF BeginStep, BeginNominate, BeginNoAccount, BeginDecision, Begin, TypeOK
    <3>2. QED
      BY <2>2, <3>1, BeginLinks
  <2>3. ASSUME NEW r \in Requests, LockAccounts(r)
        PROVE  \/ requests'[s] = requests[s]
               \/ requests'[s] = Idle
               \/ /\ requests[s].pc = "begun" /\ MayLock(requests[s])
                  /\ requests'[s] = [requests[s] EXCEPT !.pc = "locked", !.held = Found(requests[s])]
                  /\ UNCHANGED <<accounts, listings, offers, trail, now>>
    BY <1>1, <2>3 DEF LockAccounts, TypeOK
  <2>4. CASE \E r \in Requests : Rollback(r)
    BY <1>1, <2>4 DEF Rollback
  <2>5. QED
    BY <1>3, <2>1, <2>2, <2>3, <2>4, OtherSteps, ListingFrame DEF vars, Tick, WriteRow
<1>4. QED
  BY <1>2, <1>3

\* A request keeps naming an offer that is there, because offers are never deleted.
LEMMA LinkedStep ==
  ASSUME TypeInv, [Next]_vars
  PROVE  RequestsLinked'
<1> SUFFICES ASSUME NEW s \in Requests
             PROVE  Linked(requests'[s], offers')
  BY DEF RequestsLinked
<1>1. ASSUME NEW o \in OfferIds, offers[o] \in Offer
      PROVE  /\ offers'[o] \in Offer
             /\ offers'[o].listing = offers[o].listing
             /\ offers'[o].recipient = offers[o].recipient
  <2>1. PICK state \in {"pending"} \cup Outcomes : offers'[o] = [offers[o] EXCEPT !.state = state]
    BY <1>1, OfferIdentity
  <2>2. QED
    BY <1>1, <2>1, OfferIdentity DEF Offer
<1>2. ASSUME NEW q, Linked(q, offers)
      PROVE  Linked(q, offers')
  BY <1>1, <1>2 DEF Linked
<1>3. Linked(requests[s], offers)
  BY DEF TypeInv, RequestsLinked
<1>4. Linked(Idle, offers)
  BY DEF Linked, Idle
<1>5. ASSUME requests[s].pc = "begun"
      PROVE  Linked([requests[s] EXCEPT !.pc = "locked", !.held = Found(requests[s])], offers)
  <2>1. requests[s] \in Request
    BY <1>5, Active DEF TypeInv
  <2>2. QED
    BY <1>3, <1>5, <2>1 DEF Linked, Request
<1>6. QED
  BY <1>2, <1>3, <1>4, <1>5, RequestMoves

\* Every step keeps types and links.
LEMMA TypeStep == TypeInv /\ [Next]_vars => TypeInv'
<1> SUFFICES ASSUME TypeInv, [Next]_vars PROVE TypeInv'
  OBVIOUS
<1> USE DEF TypeInv
<1>1. CASE \E r \in Requests : CommitStep(r)
  BY <1>1, CommitTyping, LinkedStep
<1>2. CASE ~ \E r \in Requests : CommitStep(r)
  <2>1. CASE UNCHANGED vars
    BY <2>1, LinkedStep DEF vars, TypeOK
  <2>2. CASE Tick
    BY <2>2, LinkedStep DEF Tick, TypeOK
  <2>3. CASE \E a \in Accounts, row \in AccountRow : WriteRow(a, row)
    BY <2>3, LinkedStep DEF WriteRow, TypeOK
  <2>4. CASE ListingStep
    BY <2>4, LinkedStep, ListingTyping, ListingFrame DEF TypeOK
  <2>5. CASE \E r \in Requests : BeginStep(r) \/ LockAccounts(r) \/ Rollback(r)
    <3>1. PICK r \in Requests : BeginStep(r) \/ LockAccounts(r) \/ Rollback(r)
      BY <2>5
    <3>2. UNCHANGED <<accounts, listings, offers, trail, now>>
      BY <3>1, RequestFrame
    <3>3. requests' \in [Requests -> Request \cup {Idle}]
      BY <3>1, BeginTyping, LockTyping, ReplyTyping DEF Rollback
    <3>4. QED
      BY <3>2, <3>3, LinkedStep DEF TypeOK
  <2>6. QED
    BY <1>2, <2>1, <2>2, <2>3, <2>4, <2>5, OtherSteps
<1>3. QED
  BY <1>1, <1>2

\* The tables keep their shape, and requests stay linked to the offers they name.
THEOREM TypeCorrect == Spec => [](TypeOK /\ RequestsLinked)
<1>1. Spec => []TypeInv
  BY TypeInit, TypeStep, PTL DEF Spec
<1>2. QED
  BY <1>1, PTL DEF TypeInv

------------------------------------------------------------------------------
(* One pending offer for an entry. *)

\* A nomination that inserts a pending offer resolves those it finds.
LEMMA OnePendingStep ==
  ASSUME TypeInv, OnePending, [Next]_vars
  PROVE  OnePending'
<1> USE DEF TypeInv
<1> SUFFICES ASSUME NEW o \in OfferIds, NEW p \in OfferIds,
                    offers'[o].state = "pending", offers'[p].state = "pending",
                    offers'[o].listing = offers'[p].listing,
                    o # p
             PROVE  FALSE
  BY DEF OnePending, Unresolved
<1>1. CASE UNCHANGED offers
  BY <1>1 DEF OnePending, Unresolved
<1>2. CASE \E r \in Requests : CommitStep(r)
  <2>1. PICK r \in Requests : CommitStep(r)
    BY <1>2
  <2>2. ASSUME NEW q \in OfferIds, offers'[q].state = "pending", offers'[q] # offers[q]
        PROVE  CommitNominate(r, q) /\ offers'[q] = NewOffer(r)
    BY <2>1, <2>2, OfferMoves DEF Outcomes, Offer
  <2>3. ASSUME NEW q \in OfferIds, NEW s \in OfferIds, q # s, CommitNominate(r, q),
               offers'[s].state = "pending"
        PROVE  /\ offers'[s] = offers[s]
               /\ offers[s].listing # requests[r].listing
    <3>1. s \notin PendingOn(requests[r].listing)
      <4>1. SUFFICES ASSUME s \in PendingOn(requests[r].listing) PROVE FALSE
        OBVIOUS
      <4>2. offers[s] \in Offer
        BY <4>1 DEF PendingOn, Unresolved, TypeOK, NoOffer
      <4>3. offers'[s] = [offers[s] EXCEPT !.state = "expired"]
        BY <2>3, <4>1 DEF CommitNominate
      <4>4. QED
        BY <2>3, <4>2, <4>3 DEF Offer
    <3>2. offers'[s] = offers[s]
      BY <2>3, <3>1 DEF CommitNominate
    <3>3. QED
      BY <2>3, <3>1, <3>2 DEF PendingOn, Unresolved
  <2>4. ASSUME NEW q \in OfferIds, CommitNominate(r, q)
        PROVE  offers'[q].listing = requests[r].listing
    BY <2>4 DEF CommitNominate, TypeOK
  <2>5. QED
    BY <2>2, <2>3, <2>4 DEF OnePending, Unresolved
<1>3. QED
  BY <1>1, <1>2, OtherSteps

\* A checked nomination never meets the unique index: no reachable state has
\* two pending offers for one entry, for any number of concurrent requests.
THEOREM OnePendingOffer == Spec => []OnePending
<1>1. Init => OnePending
  BY DEF Init, OnePending, Unresolved, NoOffer
<1>2. QED
  BY <1>1, TypeInit, TypeStep, OnePendingStep, PTL DEF Spec

------------------------------------------------------------------------------
(* The audit of an offer tells its one outcome. *)

\* What Append makes of no entry and of one.
LEMMA Appends ==
  ASSUME NEW a, NEW b
  PROVE  Append(<<>>, b) = <<b>> /\ Append(<<a>>, b) = <<a, b>>
<1> DEFINE S == {a, b}
<1>1. a \in S /\ b \in S
  OBVIOUS
<1> HIDE DEF S
<1>2. <<a>> \in Seq(S) /\ Len(<<a>>) = 1 /\ <<a>>[1] = a
  BY <1>1
<1>3. <<a, b>> \in Seq(S) /\ Len(<<a, b>>) = 2 /\ <<a, b>>[1] = a /\ <<a, b>>[2] = b
  BY <1>1
<1>4. /\ Append(<<a>>, b) \in Seq(S) /\ Len(Append(<<a>>, b)) = 2
      /\ Append(<<a>>, b)[1] = a /\ Append(<<a>>, b)[2] = b
  BY <1>1, <1>2
<1> DEFINE s == Append(<<a>>, b)
           t == <<a, b>>
<1>5. s = t
  <2>1. s \in Seq(S) /\ t \in Seq(S) /\ Len(s) = 2 /\ Len(t) = 2 /\ s[1] = t[1] /\ s[2] = t[2]
    BY <1>3, <1>4
  <2> HIDE DEF s, t
  <2>2. \A i \in 1 .. Len(s) : s[i] = t[i]
    BY <2>1
  <2>3. QED BY <2>1, <2>2, SeqEqual
<1>6. Append(<<>>, b) = <<b>>
  OBVIOUS
<1>7. QED
  BY <1>5, <1>6

\* TrailTellsOutcome for one offer, given its row and its audit rows.
TrailTells(row, rows) ==
  LET opening == Entry("proposed", row.proposer, "") IN
  IF row = NoOffer THEN rows = <<>>
  ELSE IF row.state = "pending" THEN rows = <<opening>>
  ELSE \E actor \in Holder, cause \in Causes :
         /\ rows = <<opening, Entry(row.state, actor, cause)>>
         /\ row.state \in {"accepted", "declined"} => actor = row.recipient
         /\ row.state = "cancelled" => actor # Nobody
         /\ row.state \in {"expired", "revoked"} => actor = Nobody

\* The property, one offer at a time.
LEMMA TrailByOffer == TrailTellsOutcome <=> \A o \in OfferIds : TrailTells(offers[o], trail[o])
BY DEF TrailTellsOutcome, TrailTells, Unresolved, Causes

\* A step appends to an audit exactly what it does to the offer.
LEMMA TrailStep ==
  ASSUME TypeInv, \A o \in OfferIds : TrailTells(offers[o], trail[o]), [Next]_vars,
         NEW p \in OfferIds
  PROVE  TrailTells(offers'[p], trail'[p])
<1>1. CASE offers'[p] = offers[p] /\ trail'[p] = trail[p]
  BY <1>1
<1>2. ASSUME NEW r \in Requests, CommitNominate(r, p), offers'[p] = NewOffer(r),
             trail'[p] = Append(trail[p], Entry("proposed", requests[r].caller, ""))
      PROVE  TrailTells(offers'[p], trail'[p])
  <2>1. trail[p] = <<>>
    BY <1>2 DEF CommitNominate, TrailTells
  <2>2. NewOffer(r) # NoOffer /\ NewOffer(r).state = "pending" /\ NewOffer(r).proposer = requests[r].caller
    BY <1>2, NewOfferTyping, Distinct DEF NewOffer
  <2>3. trail'[p] = <<Entry("proposed", requests[r].caller, "")>>
    BY <1>2, <2>1, Appends
  <2>4. QED
    BY <1>2, <2>2, <2>3 DEF TrailTells
<1>3. ASSUME NEW actor \in Holder, NEW state \in Outcomes, NEW cause \in Causes,
             Unresolved(p), offers[p] \in Offer,
             offers'[p] = [offers[p] EXCEPT !.state = state],
             trail'[p] = Append(trail[p], Entry(state, actor, cause)),
             Resolver(p, actor, state)
      PROVE  TrailTells(offers'[p], trail'[p])
  <2>1. trail[p] = <<Entry("proposed", offers[p].proposer, "")>>
    BY <1>3, Distinct DEF Unresolved, TrailTells
  <2>2. trail'[p] = <<Entry("proposed", offers[p].proposer, ""), Entry(state, actor, cause)>>
    BY <1>3, <2>1, Appends
  <2>3. /\ offers'[p] # NoOffer /\ offers'[p].state = state /\ state # "pending"
        /\ offers'[p].proposer = offers[p].proposer /\ offers'[p].recipient = offers[p].recipient
    BY <1>3, Distinct DEF Offer, Outcomes, NoOffer
  <2>4. /\ trail'[p] = <<Entry("proposed", offers'[p].proposer, ""), Entry(offers'[p].state, actor, cause)>>
        /\ offers'[p].state \in {"accepted", "declined"} => actor = offers'[p].recipient
        /\ offers'[p].state = "cancelled" => actor # Nobody
        /\ offers'[p].state \in {"expired", "revoked"} => actor = Nobody
    BY <1>3, <2>2, <2>3 DEF Resolver
  <2>5. QED
    BY <2>3, <2>4, Zenon DEF TrailTells
<1>4. CASE \E r \in Requests : CommitStep(r)
  BY <1>1, <1>2, <1>3, <1>4, OfferMoves
<1>5. CASE ~ \E r \in Requests : CommitStep(r)
  BY <1>1, <1>5, OtherSteps DEF TypeInv
<1>6. QED
  BY <1>4, <1>5

\* The audit of every offer is its proposal and then at most one outcome, by
\* the account that may give it, however the requests interleave.
THEOREM AuditTellsOutcome == Spec => []TrailTellsOutcome
<1>1. Init => TrailTellsOutcome
  BY DEF Init, TrailTellsOutcome
<1>2. TypeInv /\ TrailTellsOutcome /\ [Next]_vars => TrailTellsOutcome'
  <2> SUFFICES ASSUME TypeInv, TrailTellsOutcome, [Next]_vars
               PROVE  \A o \in OfferIds : TrailTells(offers'[o], trail'[o])
    BY DEF TrailTellsOutcome, TrailTells, Unresolved, Causes
  <2>1. QED
    BY TrailByOffer, TrailStep
<1>3. QED
  BY <1>1, <1>2, TypeInit, TypeStep, PTL DEF Spec

------------------------------------------------------------------------------
(***************************************************************************)
(* Authority over ownership offers: what the SHARE locks of a request      *)
(* carry from its checks to its commit.                                    *)
(***************************************************************************)

\* What a handler may do to one account row: a new session version, a saved
\* phrase, or deletion of a row nothing refers to.
AccountMove(a, row) ==
  /\ WriteRow(a, row)
  /\ \/ row.exists /\ row.version = accounts[a].version + 1
     \/ row = PhraseSaved(accounts[a])
     \/ row = [accounts[a] EXCEPT !.exists = FALSE] /\ ~References(a)

\* What one administrative step may do: one account gets one of the rows listed in AccountMove.
LEMMA AccountMoves ==
  ASSUME TypeOK, AccountStep
  PROVE  \E a \in Accounts, row \in AccountRow : AccountMove(a, row)
<1>1. PICK a \in Accounts :
        \/ RecoverCredentials(a)
        \/ RotateCredentials(a)
        \/ RevokeSessions(a)
        \/ SavePhrase(a)
        \/ \E role \in Roles : AssignRole(a, role)
        \/ GrantAdministrator(a)
        \/ DeleteAccount(a)
  BY DEF AccountStep
<1>2. accounts[a] \in AccountRow /\ "user" \in Roles
  BY DEF TypeOK, Roles
<1>3. ASSUME NEW row \in AccountRow, WriteRow(a, row),
             row.exists = accounts[a].exists, row.version = accounts[a].version + 1
      PROVE  \E b \in Accounts, new \in AccountRow : AccountMove(b, new)
  BY <1>3 DEF AccountMove, WriteRow, Writable
<1>4. CASE RecoverCredentials(a)
  <2>1. /\ Recovered(accounts[a]) \in AccountRow
        /\ Recovered(accounts[a]).exists = accounts[a].exists
        /\ Recovered(accounts[a]).version = accounts[a].version + 1
    BY <1>2, RowUpdates DEF Recovered, AccountRow
  <2>2. QED
    BY <1>3, <1>4, <2>1 DEF RecoverCredentials, WriteAccount
<1>5. CASE RotateCredentials(a)
  <2>1. /\ Rotated(accounts[a]) \in AccountRow
        /\ Rotated(accounts[a]).exists = accounts[a].exists
        /\ Rotated(accounts[a]).version = accounts[a].version + 1
    BY <1>2, RowUpdates DEF Rotated, AccountRow
  <2>2. QED
    BY <1>3, <1>5, <2>1 DEF RotateCredentials, WriteAccount
<1>6. CASE RevokeSessions(a)
  <2>1. /\ SignedOut(accounts[a]) \in AccountRow
        /\ SignedOut(accounts[a]).exists = accounts[a].exists
        /\ SignedOut(accounts[a]).version = accounts[a].version + 1
    BY <1>2, RowUpdates DEF SignedOut, AccountRow
  <2>2. QED
    BY <1>3, <1>6, <2>1 DEF RevokeSessions, WriteAccount
<1>7. CASE SavePhrase(a)
  BY <1>2, <1>7, RowUpdates DEF SavePhrase, AccountMove, WriteAccount
<1>8. ASSUME NEW role \in Roles, AssignRole(a, role)
      PROVE  \E b \in Accounts, row \in AccountRow : AccountMove(b, row)
  <2>1. /\ RoleAssigned(accounts[a], role) \in AccountRow
        /\ RoleAssigned(accounts[a], role).exists = accounts[a].exists
        /\ RoleAssigned(accounts[a], role).version = accounts[a].version + 1
    BY <1>2, RowUpdates DEF RoleAssigned, AccountRow
  <2>2. QED
    BY <1>3, <1>8, <2>1 DEF AssignRole, WriteAccount
<1>9. CASE GrantAdministrator(a)
  <2>1. /\ Administered(accounts[a]) \in AccountRow
        /\ Administered(accounts[a]).exists = accounts[a].exists
        /\ Administered(accounts[a]).version = accounts[a].version + 1
    BY <1>2, RowUpdates DEF Administered, AccountRow
  <2>2. QED
    BY <1>3, <1>9, <2>1 DEF GrantAdministrator, WriteAccount
<1>10. CASE DeleteAccount(a)
  BY <1>2, <1>10, RowUpdates DEF DeleteAccount, AccountMove
<1>11. QED
  BY <1>1, <1>4, <1>5, <1>6, <1>7, <1>8, <1>9, <1>10

\* A step that changes an account is such a move.
LEMMA AccountChanges ==
  ASSUME TypeInv, [Next]_vars
  PROVE  \/ UNCHANGED accounts
         \/ \E a \in Accounts, row \in AccountRow : AccountMove(a, row)
<1>1. CASE \E r \in Requests : CommitStep(r)
  BY <1>1, CommitFrame
<1>2. CASE \E r \in Requests : BeginStep(r) \/ LockAccounts(r) \/ Rollback(r)
  BY <1>2, RequestFrame
<1>3. CASE AccountStep
  BY <1>3, AccountMoves DEF TypeInv
<1>4. QED
  BY <1>1, <1>2, <1>3, ListingFrame DEF Next, RequestStep, vars, Tick

------------------------------------------------------------------------------
(* The SHARE locks. *)

\* A write leaves every account alone that a locked request holds.
LEMMA HeldUnchanged ==
  ASSUME TypeInv, [Next]_vars, NEW r \in Requests, requests[r].pc = "locked",
         NEW a \in requests[r].held, a \in Accounts
  PROVE  accounts'[a] = accounts[a]
<1>1. CASE UNCHANGED accounts
  BY <1>1
<1>2. ASSUME NEW b \in Accounts, NEW row \in AccountRow, WriteRow(b, row)
      PROVE  accounts'[a] = accounts[a]
  BY <1>2 DEF WriteRow, Writable, ShareLocked, TypeInv, TypeOK
<1>3. CASE \E s \in Requests : CommitStep(s)
  BY <1>1, <1>3, CommitFrame
<1>4. CASE ~ \E s \in Requests : CommitStep(s)
  BY <1>1, <1>2, <1>4, OtherSteps, ListingFrame, RequestFrame DEF TypeInv, vars, Tick
<1>5. QED
  BY <1>3, <1>4

\* A row that does not exist is never written.
LEMMA AbsentUnchanged ==
  ASSUME TypeInv, [Next]_vars, NEW a \in Accounts, ~accounts[a].exists
  PROVE  accounts'[a] = accounts[a]
<1>1. CASE UNCHANGED accounts
  BY <1>1
<1>2. ASSUME NEW b \in Accounts, NEW row \in AccountRow, WriteRow(b, row)
      PROVE  accounts'[a] = accounts[a]
  BY <1>2 DEF WriteRow, Writable, TypeInv, TypeOK
<1>3. CASE \E s \in Requests : CommitStep(s)
  BY <1>1, <1>3, CommitFrame
<1>4. CASE ~ \E s \in Requests : CommitStep(s)
  BY <1>1, <1>2, <1>4, OtherSteps, ListingFrame, RequestFrame DEF TypeInv, vars, Tick
<1>5. QED
  BY <1>3, <1>4

\* What a locked request's checks rest on, as functions of the request and the
\* tables.
WantedIn(q, rows) ==
  {q.caller} \cup
    (IF q.kind = "nominate" THEN {q.recipient, q.prior}
     ELSE IF q.kind = "no-account" THEN {}
     ELSE {rows[q.offer].proposer})

FoundIn(q, rows, table) == {a \in WantedIn(q, rows) \ {Nobody} : table[a].exists}

CarriedIn(q, rows, table) ==
  /\ table[q.caller].exists /\ table[q.caller].version = q.session
  /\ q.kind \in {"nominate", "no-account", "cancel"} => Staff(table[q.caller])
  /\ q.kind = "nominate" => q.recipient \in FoundIn(q, rows, table)
  /\ q.held = FoundIn(q, rows, table)

\* Which accounts a request locks depends only on the request, its offer and the rows it found.
LEMMA WantedReading ==
  ASSUME NEW q, q.kind \in Kinds
  PROVE  Wanted(q) = WantedIn(q, offers) /\ Found(q) = FoundIn(q, offers, accounts)
<1>1. Wanted(q) = WantedIn(q, offers)
  BY DEF Wanted, WantedIn, Kinds
<1>2. QED
  BY <1>1 DEF Found, FoundIn

Carried == \A r \in Requests : requests[r].pc = "locked" => CarriedIn(requests[r], offers, accounts)

\* LocksCarry in terms of one request and the tables it read.
LEMMA CarriedReading == TypeInv => (LocksCarry <=> Carried)
<1> SUFFICES ASSUME TypeInv PROVE LocksCarry <=> Carried
  OBVIOUS
<1>1. ASSUME NEW r \in Requests, requests[r].pc = "locked"
      PROVE  (MayLock(requests[r]) /\ requests[r].held = Found(requests[r]))
             <=> CarriedIn(requests[r], offers, accounts)
  <2>1. requests[r].kind \in Kinds
    BY <1>1, Active DEF TypeInv, Request
  <2>2. QED
    BY <2>1, WantedReading DEF MayLock, SessionCurrent, CarriedIn
<1>2. QED
  BY <1>1 DEF LocksCarry, Carried

\* The accounts a request wants: its own, and the proposer of the offer it
\* names, which no step changes.
LEMMA WantedStable ==
  ASSUME TypeInv, [Next]_vars, NEW r \in Requests, requests[r].pc # "idle"
  PROVE  /\ WantedIn(requests[r], offers') = WantedIn(requests[r], offers)
         /\ WantedIn(requests[r], offers) \subseteq Holder
         /\ requests[r].caller \in Accounts
<1>1. requests[r] \in Request
  BY Active DEF TypeInv
<1>2. CASE requests[r].kind \in Decisions
  <2>1. requests[r].offer \in OfferIds /\ offers[requests[r].offer] \in Offer
    BY <1>2 DEF TypeInv, RequestsLinked, Linked
  <2>2. PICK state \in {"pending"} \cup Outcomes :
          offers'[requests[r].offer] = [offers[requests[r].offer] EXCEPT !.state = state]
    BY <2>1, OfferIdentity
  <2>3. offers'[requests[r].offer].proposer = offers[requests[r].offer].proposer
    BY <2>1, <2>2 DEF Offer
  <2>4. offers[requests[r].offer].proposer \in Holder /\ requests[r].caller \in Holder
    BY <1>1, <2>1 DEF Offer, Request, Holder
  <2>5. QED
    BY <1>1, <1>2, <2>3, <2>4 DEF WantedIn, Decisions, Request
<1>3. CASE requests[r].kind \notin Decisions
  BY <1>1, <1>3 DEF WantedIn, Decisions, Request, Kinds, Holder
<1>4. QED
  BY <1>2, <1>3

\* No step changes a row that a locked request holds.
LEMMA CarriedStep ==
  ASSUME TypeInv, Carried, [Next]_vars
  PROVE  Carried'
<1> SUFFICES ASSUME NEW s \in Requests, requests'[s].pc = "locked"
             PROVE  CarriedIn(requests'[s], offers', accounts')
  BY DEF Carried
<1>1. CASE requests'[s] = requests[s]
  <2> DEFINE q == requests[s]
  <2>1. CarriedIn(q, offers, accounts) /\ q.pc = "locked"
    BY <1>1 DEF Carried
  <2>2. /\ WantedIn(q, offers') = WantedIn(q, offers)
        /\ WantedIn(q, offers) \subseteq Holder
        /\ q.caller \in Accounts
    BY <2>1, WantedStable
  <2>3. q.held = FoundIn(q, offers, accounts) /\ q.caller \in q.held
    BY <2>1, <2>2, OwnershipAssumption DEF CarriedIn, FoundIn, WantedIn
  <2>4. ASSUME NEW a \in WantedIn(q, offers) \ {Nobody}
        PROVE  accounts'[a] = accounts[a]
    <3>1. a \in Accounts
      BY <2>2, <2>4 DEF Holder
    <3>2. CASE accounts[a].exists
      BY <2>1, <2>3, <3>1, <3>2, HeldUnchanged DEF FoundIn
    <3>3. CASE ~accounts[a].exists
      BY <3>1, <3>3, AbsentUnchanged
    <3>4. QED
      BY <3>2, <3>3
  <2>5. FoundIn(q, offers', accounts') = FoundIn(q, offers, accounts)
    BY <2>2, <2>4 DEF FoundIn
  <2>6. accounts'[q.caller] = accounts[q.caller]
    BY <2>2, <2>4, OwnershipAssumption DEF WantedIn
  <2>7. QED
    BY <1>1, <2>1, <2>5, <2>6 DEF CarriedIn
<1>2. CASE requests'[s] = Idle
  BY <1>2 DEF Idle
<1>3. CASE /\ requests[s].pc = "begun" /\ MayLock(requests[s])
           /\ requests'[s] = [requests[s] EXCEPT !.pc = "locked", !.held = Found(requests[s])]
           /\ UNCHANGED <<accounts, listings, offers, trail, now>>
  <2>1. requests[s] \in Request
    BY <1>3, Active DEF TypeInv
  <2>2. /\ requests'[s].kind = requests[s].kind /\ requests'[s].caller = requests[s].caller
        /\ requests'[s].recipient = requests[s].recipient /\ requests'[s].prior = requests[s].prior
        /\ requests'[s].offer = requests[s].offer /\ requests'[s].session = requests[s].session
        /\ requests'[s].held = Found(requests[s]) /\ requests[s].kind \in Kinds
    BY <1>3, <2>1 DEF Request
  <2>3. FoundIn(requests'[s], offers, accounts) = Found(requests[s])
    BY <2>2, WantedReading DEF FoundIn, WantedIn
  <2>4. QED
    BY <1>3, <2>2, <2>3 DEF CarriedIn, MayLock, SessionCurrent
<1>4. CASE requests'[s].pc = "begun"
  BY <1>4
<1>5. QED
  BY <1>1, <1>2, <1>3, <1>4, RequestMoves

\* What a request found and checked when it took its SHARE locks is still so
\* whenever it commits, whatever the other handlers do meanwhile.
THEOREM LocksCarryThrough == Spec => []LocksCarry
<1>1. Init => Carried
  BY DEF Init, Carried, Idle
<1>2. Spec => [](TypeInv /\ Carried)
  BY <1>1, TypeInit, TypeStep, CarriedStep, PTL DEF Spec
<1>3. QED
  BY <1>2, CarriedReading, PTL

------------------------------------------------------------------------------
(* Staff authority at the commit. *)

\* Only a cancellation makes an offer cancelled.
LEMMA CancelledBy ==
  ASSUME TypeInv, NEW r \in Requests, CommitStep(r), NEW o \in OfferIds, offers[o] # NoOffer,
         offers[o].state # "cancelled", offers'[o].state = "cancelled"
  PROVE  Deciding(r, "cancel")
<1>1. offers[o] \in Offer
  BY DEF TypeInv, TypeOK
<1>2. ASSUME NEW p \in OfferIds, NEW actor, NEW state, NEW cause,
             state # "cancelled", Resolve(p, actor, state, cause)
      PROVE  FALSE
  BY <1>1, <1>2 DEF Resolve, TypeInv, TypeOK, Offer
<1>3. ASSUME NEW p \in OfferIds, CommitNominate(r, p)
      PROVE  FALSE
  <2>1. o # p
    BY <1>3 DEF CommitNominate
  <2>2. offers'[o] = offers[o] \/ offers'[o] = [offers[o] EXCEPT !.state = "expired"]
    BY <1>3, <2>1 DEF CommitNominate
  <2>3. QED
    BY <1>1, <2>2 DEF Offer
<1>4. ~UNCHANGED offers
  OBVIOUS
<1>5. \A kind \in Decisions : Deciding(r, kind) => requests[r].offer \in OfferIds
  BY DEF Deciding, TypeInv, RequestsLinked, Linked
<1>6. QED
  BY <1>2, <1>3, <1>4, <1>5 DEF CommitStep, RefuseNominate, CommitNoAccount, RefuseNoAccount, DecideResolved,
     DecideExpired, AcceptRevoked, CommitAccept, AcceptUnverified, CommitDecline, CommitCancel, Fail, Decisions

\* Only the no-account handler takes the owner from an entry that stays.
LEMMA ReleasedBy ==
  ASSUME TypeInv, [Next]_vars, NEW l \in Listings, Live(l), listings'[l].phase = "live",
         listings[l].owner # Nobody, listings'[l].owner = Nobody
  PROVE  \E r \in Requests : CommitStep(r) /\ Deciding(r, "no-account")
<1>1. listings[l] \in Listing
  BY DEF TypeInv, TypeOK
<1>2. CASE UNCHANGED listings
  BY <1>2
<1>3. ASSUME ListingStep PROVE FALSE
  <2>1. PICK k \in Listings :
          \/ \E owner \in Holder : Submit(k, owner)
          \/ EditContent(k)
          \/ Attest(k)
          \/ \E status \in Statuses : SetStatus(k, status)
          \/ DeleteListing(k)
    BY <1>3 DEF ListingStep
  <2>2. k = l
    BY <2>1 DEF Submit, EditContent, Attest, SetStatus, DeleteListing, WriteListing, TypeInv, TypeOK
  <2>3. CASE \E owner \in Holder : Submit(l, owner)
    BY <2>3 DEF Submit, Live
  <2>4. ASSUME NEW row \in Listing, row.owner = listings[l].owner, WriteListing(l, row)
        PROVE  FALSE
    BY <2>4 DEF WriteListing, TypeInv, TypeOK, Listing
  <2>5. CASE EditContent(l)
    BY <1>1, <2>4, <2>5 DEF EditContent, Listing
  <2>6. CASE Attest(l)
    BY <1>1, <2>4, <2>6 DEF Attest, Listing
  <2>7. CASE \E status \in Statuses : SetStatus(l, status)
    BY <1>1, <2>4, <2>7 DEF SetStatus, Listing
  <2>8. CASE DeleteListing(l)
    BY <2>8 DEF DeleteListing, NoListing, TypeInv, TypeOK
  <2>9. QED
    BY <2>1, <2>2, <2>3, <2>5, <2>6, <2>7, <2>8
<1>4. ASSUME NEW r \in Requests, CommitStep(r)
      PROVE  Deciding(r, "no-account")
  <2>1. requests[r].pc = "locked"
    BY <1>4, CommitFrame
  <2>2. ASSUME Deciding(r, "accept"), offers[requests[r].offer] \in Offer,
               listings' = [listings EXCEPT ![offers[requests[r].offer].listing] =
                              Reassigned(@, offers[requests[r].offer].recipient, FALSE)]
        PROVE  FALSE
    <3>1. offers[requests[r].offer].listing \in Listings /\ offers[requests[r].offer].recipient # Nobody
      BY <2>2, OwnershipAssumption DEF Offer
    <3>2. QED
      BY <1>1, <2>2, <3>1 DEF Reassigned, Listing, TypeInv, TypeOK
  <2>3. QED
    BY <1>2, <1>4, <2>1, <2>2, CommitListings DEF Deciding
<1>5. CASE ~ \E r \in Requests : CommitStep(r)
  BY <1>2, <1>3, <1>5, OtherSteps, RequestFrame DEF TypeInv, vars, Tick, WriteRow
<1>6. QED
  BY <1>4, <1>5

\* A request that ends by a commit of a staff kind ends as staff.
LEMMA StaffEnds ==
  ASSUME TypeInv, Carried, NEW r \in Requests, CommitStep(r),
         NEW kind \in {"nominate", "no-account", "cancel"}, Deciding(r, kind)
  PROVE  EndsAsStaff(kind)
<1>1. requests'[r] = Idle
  BY CommitFrame DEF Reply, TypeInv, TypeOK
<1>2. QED
  BY <1>1 DEF EndsAsStaff, Carried, CarriedIn, Deciding, SessionCurrent

\* Offers appear, offers are cancelled and entries are released only by an
\* account that is staff, under the session of the request, at the commit.
THEOREM StaffAuthorityAtCommit == Spec => StaffAtCommit
<1>1. TypeInv /\ Carried /\ [Next]_vars =>
        [/\ \A o \in OfferIds :
              /\ offers[o] = NoOffer /\ offers'[o] # NoOffer => EndsAsStaff("nominate")
              /\ offers[o] # NoOffer /\ offers[o].state # "cancelled" /\ offers'[o].state = "cancelled"
                 => EndsAsStaff("cancel")
         /\ \A l \in Listings :
              Live(l) /\ Live(l)' /\ listings[l].owner # Nobody /\ listings'[l].owner = Nobody
              => EndsAsStaff("no-account")]_vars
  <2> SUFFICES ASSUME TypeInv, Carried, [Next]_vars
               PROVE  /\ \A o \in OfferIds :
                           /\ offers[o] = NoOffer /\ offers'[o] # NoOffer => EndsAsStaff("nominate")
                           /\ /\ offers[o] # NoOffer /\ offers[o].state # "cancelled"
                              /\ offers'[o].state = "cancelled"
                              => EndsAsStaff("cancel")
                      /\ \A l \in Listings :
                           Live(l) /\ Live(l)' /\ listings[l].owner # Nobody /\ listings'[l].owner = Nobody
                           => EndsAsStaff("no-account")
    OBVIOUS
  <2>1. ASSUME NEW o \in OfferIds, offers[o] = NoOffer, offers'[o] # NoOffer
        PROVE  EndsAsStaff("nominate")
    <3>1. PICK r \in Requests : CommitStep(r)
      BY <2>1, OtherSteps DEF TypeInv
    <3>2. CommitNominate(r, o)
      BY <2>1, <3>1, OfferMoves, Distinct
    <3>3. QED
      BY <3>1, <3>2, StaffEnds DEF CommitNominate, Deciding
  <2>2. ASSUME NEW o \in OfferIds, offers[o] # NoOffer, offers[o].state # "cancelled",
               offers'[o].state = "cancelled"
        PROVE  EndsAsStaff("cancel")
    <3>1. PICK r \in Requests : CommitStep(r)
      BY <2>2, OtherSteps DEF TypeInv
    <3>2. QED
      BY <2>2, <3>1, CancelledBy, StaffEnds
  <2>3. ASSUME NEW l \in Listings, Live(l), Live(l)', listings[l].owner # Nobody,
               listings'[l].owner = Nobody
        PROVE  EndsAsStaff("no-account")
    <3>1. PICK r \in Requests : CommitStep(r) /\ Deciding(r, "no-account")
      BY <2>3, ReleasedBy DEF Live
    <3>2. QED
      BY <3>1, StaffEnds
  <2>4. QED
    BY <2>1, <2>2, <2>3
<1>2. Init => Carried
  BY DEF Init, Carried, Idle
<1>3. Spec => [](TypeInv /\ Carried)
  BY <1>2, TypeInit, TypeStep, CarriedStep, PTL DEF Spec
<1>4. QED
  BY <1>1, <1>3, PTL DEF Spec, StaffAtCommit

------------------------------------------------------------------------------
(***************************************************************************)
(* How an offer ages: its proposer and its entry only move                 *)
(* away from what it recorded, so an offer that cannot be accepted never   *)
(* can be again, an entry's revision is handed over once, and the accounts *)
(* that rows name stay.                                                    *)
(***************************************************************************)

\* Each row of an offer against the tables: the session version recorded is
\* not ahead of the proposer's, and while they are equal the proposer is the
\* staff account it was; likewise the version and the state of the entry.
ProposerAges(row, table) ==
  /\ row.session <= table[row.proposer].version
  /\ table[row.proposer].exists /\ table[row.proposer].version = row.session
     => Staff(table[row.proposer]) /\ table[row.proposer].role = row.role

EntryAges(row, table) ==
  LET l == table[row.listing] IN
  /\ l.phase # "new"
  /\ l.phase = "live" =>
       /\ row.version <= l.version
       /\ l.version = row.version => l.owner = row.prior /\ l.status = row.status

Aging == \A o \in OfferIds : offers[o] # NoOffer =>
           ProposerAges(offers[o], accounts) /\ EntryAges(offers[o], listings)

\* What an account write may do to a staff account without a new version.
LEMMA ProposerStep ==
  ASSUME TypeInv, NEW row \in Offer, ProposerAges(row, accounts), [Next]_vars
  PROVE  ProposerAges(row, accounts')
<1> DEFINE a == row.proposer
<1>1. a \in Accounts /\ row.session \in Nat /\ row.role \in Roles
  BY DEF Offer
<1>2. accounts[a] \in AccountRow
  BY <1>1 DEF TypeInv, TypeOK
<1>3. CASE accounts'[a] = accounts[a]
  BY <1>3 DEF ProposerAges
<1>4. ASSUME NEW b \in Accounts, NEW new \in AccountRow, AccountMove(b, new)
      PROVE  ProposerAges(row, accounts')
  <2>1. CASE a # b
    BY <1>3, <1>4, <2>1 DEF AccountMove, WriteRow, TypeInv, TypeOK
  <2>2. CASE a = b
    <3>1. accounts'[a] = new /\ accounts[a].exists
      BY <1>1, <1>4, <2>2 DEF AccountMove, WriteRow, Writable, TypeInv, TypeOK
    <3>2. CASE new.exists /\ new.version = accounts[a].version + 1
      BY <1>1, <1>2, <3>1, <3>2 DEF ProposerAges, AccountRow
    <3>3. CASE new = PhraseSaved(accounts[a])
      BY <1>1, <1>2, <3>1, <3>3 DEF ProposerAges, PhraseSaved, AccountRow, Staff
    <3>4. CASE new = [accounts[a] EXCEPT !.exists = FALSE]
      BY <1>1, <1>2, <3>1, <3>4 DEF ProposerAges, AccountRow
    <3>5. QED
      BY <1>4, <2>2, <3>2, <3>3, <3>4 DEF AccountMove
  <2>3. QED
    BY <2>1, <2>2
<1>5. QED
  BY <1>3, <1>4, AccountChanges

\* What a handler may do to the entries: nothing; a first submission; a new
\* version of a live entry, with the same owner unless it is a commit; or a
\* deletion.
EntryMove(l, row) ==
  /\ row \in Listing
  /\ listings' = [listings EXCEPT ![l] = row]
  /\ \/ listings[l].phase = "new" /\ row.phase = "live"
     \/ Live(l) /\ row.phase = "live" /\ row.version = listings[l].version + 1
     \/ Live(l) /\ row.phase = "deleted" /\ row.owner = Nobody /\ ~row.label

\* A step changes at most one entry, and by one of the moves of EntryMove.
LEMMA EntryChanges ==
  ASSUME TypeInv, [Next]_vars
  PROVE  \/ UNCHANGED listings
         \/ \E l \in Listings, row \in Listing : EntryMove(l, row)
<1> USE DEF TypeInv
<1>1. ASSUME NEW l \in Listings PROVE listings[l] \in Listing
  BY DEF TypeOK
<1>2. ASSUME ListingStep
      PROVE  \E l \in Listings, row \in Listing : EntryMove(l, row)
  <2>1. PICK l \in Listings :
          \/ \E owner \in Holder : Submit(l, owner)
          \/ EditContent(l)
          \/ Attest(l)
          \/ \E status \in Statuses : SetStatus(l, status)
          \/ DeleteListing(l)
    BY <1>2 DEF ListingStep
  <2>2. listings' = [listings EXCEPT ![l] = listings'[l]] /\ listings'[l] \in Listing
    BY <1>2, <2>1, ListingTyping DEF Submit, EditContent, Attest, SetStatus, DeleteListing, WriteListing, TypeOK
  <2>3. NoListing \in Listing /\ NoListing.owner = Nobody /\ NoListing.label = FALSE
    BY OwnershipAssumption DEF NoListing, Listing, Holder, Statuses
  <2>4. CASE \E owner \in Holder : Submit(l, owner)
    <3>1. listings[l].phase = "new" /\ listings'[l].phase = "live"
      BY <2>3, <2>4 DEF Submit, TypeOK, Listing
    <3>2. QED
      BY <2>2, <3>1 DEF EntryMove
  <2>5. ASSUME NEW row \in Listing, row.phase = listings[l].phase, WriteListing(l, row)
        PROVE  Live(l) /\ listings'[l].phase = "live" /\ listings'[l].version = listings[l].version + 1
    BY <2>5 DEF WriteListing, TypeOK, Listing, Live
  <2>6. CASE EditContent(l) \/ Attest(l) \/ \E status \in Statuses : SetStatus(l, status)
    <3>1. CASE EditContent(l)
      BY <1>1, <2>2, <2>5, <3>1 DEF EditContent, Listing, EntryMove
    <3>2. CASE Attest(l)
      BY <1>1, <2>2, <2>5, <3>2 DEF Attest, Listing, EntryMove
    <3>3. CASE \E status \in Statuses : SetStatus(l, status)
      BY <1>1, <2>2, <2>5, <3>3 DEF SetStatus, Listing, EntryMove
    <3>4. QED
      BY <2>6, <3>1, <3>2, <3>3
  <2>7. CASE DeleteListing(l)
    <3>1. /\ Live(l) /\ listings'[l].phase = "deleted" /\ listings'[l].owner = Nobody
          /\ listings'[l].label = FALSE
      BY <2>3, <2>7 DEF DeleteListing, TypeOK, Listing
    <3>2. QED
      BY <2>2, <3>1 DEF EntryMove
  <2>8. QED
    BY <2>1, <2>4, <2>6, <2>7
<1>3. ASSUME NEW l \in Listings, NEW owner \in Holder, NEW label \in BOOLEAN, Live(l),
             listings' = [listings EXCEPT ![l] = Reassigned(@, owner, label)]
      PROVE  EntryMove(l, listings'[l]) /\ listings'[l] \in Listing
  <2>1. listings'[l] = Reassigned(listings[l], owner, label) /\ listings'[l] \in Listing
    BY <1>1, <1>3, ReassignedTyping DEF TypeOK
  <2>2. ASSUME NEW row \in Listing, row.phase = "live"
        PROVE  /\ Reassigned(row, owner, label).phase = "live"
               /\ Reassigned(row, owner, label).version = row.version + 1
    BY <2>2 DEF Reassigned, Listing
  <2>3. listings'[l].phase = "live" /\ listings'[l].version = listings[l].version + 1
    BY <1>1, <1>3, <2>1, <2>2 DEF Live
  <2>4. listings' = [listings EXCEPT ![l] = listings'[l]]
    BY <1>3, <2>1 DEF TypeOK
  <2>5. QED
    BY <1>3, <2>1, <2>3, <2>4 DEF EntryMove
<1>4. ASSUME NEW r \in Requests, CommitStep(r)
      PROVE  \/ UNCHANGED listings
             \/ \E l \in Listings, row \in Listing : EntryMove(l, row)
  <2>1. ASSUME NEW o \in OfferIds, offers[o] \in Offer, Acceptable(o)
        PROVE  /\ offers[o].listing \in Listings /\ offers[o].recipient \in Holder
               /\ Live(offers[o].listing)
    BY <2>1 DEF Acceptable, SameEntry, Offer, Holder, Live
  <2>2. Nobody \in Holder /\ FALSE \in BOOLEAN
    BY DEF Holder
  <2>3. QED
    BY <1>3, <1>4, <2>1, <2>2, CommitListings
<1>5. CASE ~ \E r \in Requests : CommitStep(r)
  BY <1>2, <1>5, OtherSteps, RequestFrame DEF vars, Tick, WriteRow
<1>6. QED
  BY <1>4, <1>5

\* A version an offer recorded is never above the entry's, and it stays below once passed.
LEMMA EntryStep ==
  ASSUME TypeInv, NEW row \in Offer, EntryAges(row, listings), [Next]_vars
  PROVE  EntryAges(row, listings')
<1> DEFINE l == row.listing
<1>1. l \in Listings /\ row.version \in Nat
  BY DEF Offer
<1>2. listings[l] \in Listing
  BY <1>1 DEF TypeInv, TypeOK
<1>3. CASE listings'[l] = listings[l]
  BY <1>3 DEF EntryAges
<1>4. ASSUME NEW k \in Listings, NEW new \in Listing, EntryMove(k, new)
      PROVE  EntryAges(row, listings')
  <2>1. CASE l # k
    BY <1>3, <1>4, <2>1 DEF EntryMove, TypeInv, TypeOK
  <2>2. CASE l = k
    <3>1. listings'[l] = new
      BY <1>1, <1>4, <2>2 DEF EntryMove, TypeInv, TypeOK
    <3>2. CASE Live(l) /\ new.phase = "live" /\ new.version = listings[l].version + 1
      BY <1>1, <1>2, <3>1, <3>2 DEF EntryAges, Listing, Live
    <3>3. CASE new.phase = "deleted"
      BY <3>1, <3>3 DEF EntryAges
    <3>4. QED
      BY <1>4, <2>2, <3>2, <3>3 DEF EntryMove, EntryAges
  <2>3. QED
    BY <2>1, <2>2
<1>5. QED
  BY <1>3, <1>4, EntryChanges

\* Every step keeps the offers older than what they refer to.
LEMMA AgingStep ==
  ASSUME TypeInv, Carried, Aging, [Next]_vars
  PROVE  Aging'
<1> SUFFICES ASSUME NEW o \in OfferIds, offers'[o] # NoOffer
             PROVE  ProposerAges(offers'[o], accounts') /\ EntryAges(offers'[o], listings')
  BY DEF Aging
<1> USE DEF TypeInv
<1>1. CASE offers[o] # NoOffer
  <2>1. offers[o] \in Offer
    BY <1>1 DEF TypeOK
  <2>2. ProposerAges(offers[o], accounts') /\ EntryAges(offers[o], listings')
    BY <1>1, <2>1, ProposerStep, EntryStep DEF Aging
  <2>3. PICK state \in {"pending"} \cup Outcomes : offers'[o] = [offers[o] EXCEPT !.state = state]
    BY <2>1, OfferIdentity
  <2>4. /\ offers'[o].proposer = offers[o].proposer /\ offers'[o].role = offers[o].role
        /\ offers'[o].session = offers[o].session /\ offers'[o].listing = offers[o].listing
        /\ offers'[o].version = offers[o].version /\ offers'[o].prior = offers[o].prior
        /\ offers'[o].status = offers[o].status
    BY <2>1, <2>3 DEF Offer
  <2>5. QED
    BY <2>2, <2>4 DEF ProposerAges, EntryAges
<1>2. CASE offers[o] = NoOffer
  <2>1. PICK r \in Requests : CommitStep(r)
    BY <1>2, OtherSteps
  <2>2. CommitNominate(r, o) /\ offers'[o] = NewOffer(r)
    BY <1>2, <2>1, OfferMoves, Distinct
  <2>3. UNCHANGED <<accounts, listings>> /\ requests[r].pc = "locked" /\ requests[r].kind = "nominate"
    BY <2>2 DEF CommitNominate
  <2>4. requests[r] \in Request
    BY <2>3, Active
  <2>5. Staff(accounts[requests[r].caller])
    BY <2>3 DEF Carried, CarriedIn
  <2>6. Live(requests[r].listing)
    BY <2>2 DEF CommitNominate, Nominable
  <2>7. accounts[requests[r].caller] \in AccountRow /\ listings[requests[r].listing] \in Listing
    BY <2>4 DEF TypeOK, Request
  <2>8. ProposerAges(NewOffer(r), accounts)
    BY <2>5, <2>7 DEF ProposerAges, NewOffer, AccountRow
  <2>9. EntryAges(NewOffer(r), listings)
    BY <2>6, <2>7 DEF EntryAges, NewOffer, Listing, Live
  <2>10. QED
    BY <2>2, <2>3, <2>8, <2>9
<1>3. QED
  BY <1>1, <1>2

AgingInv == TypeInv /\ Carried /\ Aging

\* Offers never refer to versions that have not been, in every reachable state.
THEOREM AgingInvariant == Spec => []AgingInv
<1>1. Init => AgingInv
  BY TypeInit DEF Init, Carried, Idle, Aging, AgingInv
<1>2. AgingInv /\ [Next]_vars => AgingInv'
  BY TypeStep, CarriedStep, AgingStep DEF AgingInv
<1>3. QED
  BY <1>1, <1>2, PTL DEF Spec

------------------------------------------------------------------------------
(* No revival. *)

\* The clock never goes back.
LEMMA ClockStep ==
  ASSUME TypeInv, [Next]_vars
  PROVE  now' \in Nat /\ now <= now'
<1>1. CASE Tick
  BY <1>1 DEF Tick, TypeInv, TypeOK
<1>2. CASE UNCHANGED now
  BY <1>2 DEF TypeInv, TypeOK
<1>3. CASE \E r \in Requests : CommitStep(r)
  BY <1>2, <1>3, CommitFrame
<1>4. QED
  BY <1>1, <1>2, <1>3, OtherSteps, ListingFrame, RequestFrame DEF TypeInv, vars, WriteRow

\* A proposer that is no longer the one an offer recorded stays so.
LEMMA ProposerLost ==
  ASSUME AgingInv, [Next]_vars, NEW o \in OfferIds, offers[o] \in Offer, ~SameProposer(o)
  PROVE  ~SameProposer(o)'
<1> DEFINE a == offers[o].proposer
<1> USE DEF AgingInv
<1>1. a \in Accounts /\ offers[o].session \in Nat /\ accounts[a] \in AccountRow
  BY DEF Offer, TypeInv, TypeOK
<1>2. ProposerAges(offers[o], accounts)
  BY Distinct DEF Aging
<1>3. ~accounts[a].exists \/ offers[o].session < accounts[a].version
  BY <1>1, <1>2 DEF ProposerAges, SameProposer, AccountRow
<1>4. ~accounts'[a].exists \/ offers[o].session < accounts'[a].version
  <2>1. CASE accounts'[a] = accounts[a]
    BY <1>3, <2>1
  <2>2. ASSUME NEW b \in Accounts, NEW row \in AccountRow, AccountMove(b, row), a = b
        PROVE  ~accounts'[a].exists \/ offers[o].session < accounts'[a].version
    <3>1. accounts'[a] = row /\ accounts[a].exists
      BY <2>2 DEF AccountMove, WriteRow, Writable, TypeInv, TypeOK
    <3>2. QED
      BY <1>1, <1>3, <2>2, <3>1 DEF AccountMove, PhraseSaved, AccountRow
  <2>3. ASSUME NEW b \in Accounts, NEW row \in AccountRow, AccountMove(b, row), a # b
        PROVE  accounts'[a] = accounts[a]
    BY <2>3 DEF AccountMove, WriteRow, TypeInv, TypeOK
  <2>4. QED
    BY <2>1, <2>2, <2>3, AccountChanges
<1>5. offers'[o].proposer = a /\ offers'[o].session = offers[o].session
  <2>1. PICK state \in {"pending"} \cup Outcomes : offers'[o] = [offers[o] EXCEPT !.state = state]
    BY OfferIdentity
  <2>2. QED
    BY <2>1 DEF Offer
<1>6. accounts'[a] \in AccountRow
  BY <1>1, TypeStep DEF TypeInv, TypeOK
<1>7. QED
  BY <1>1, <1>4, <1>5, <1>6 DEF SameProposer, Staff, AccountRow

\* An entry that is no longer as an offer recorded it stays so.
LEMMA EntryLost ==
  ASSUME AgingInv, [Next]_vars, NEW o \in OfferIds, offers[o] \in Offer, ~SameEntry(o)
  PROVE  ~SameEntry(o)'
<1> DEFINE l == offers[o].listing
<1> USE DEF AgingInv
<1>1. l \in Listings /\ offers[o].version \in Nat /\ listings[l] \in Listing
  BY DEF Offer, TypeInv, TypeOK
<1>2. EntryAges(offers[o], listings)
  BY Distinct DEF Aging
<1>3. listings[l].phase = "deleted" \/ (Live(l) /\ offers[o].version < listings[l].version)
  BY <1>1, <1>2 DEF EntryAges, SameEntry, Listing, Live
<1>4. listings'[l].phase = "deleted" \/ offers[o].version < listings'[l].version
  <2>1. CASE listings'[l] = listings[l]
    BY <1>3, <2>1
  <2>2. ASSUME NEW k \in Listings, NEW row \in Listing, EntryMove(k, row), k = l
        PROVE  listings'[l].phase = "deleted" \/ offers[o].version < listings'[l].version
    <3>1. listings'[l] = row
      BY <2>2 DEF EntryMove, TypeInv, TypeOK
    <3>2. QED
      BY <1>1, <1>3, <2>2, <3>1 DEF EntryMove, Listing, Live
  <2>3. ASSUME NEW k \in Listings, NEW row \in Listing, EntryMove(k, row), k # l
        PROVE  listings'[l] = listings[l]
    BY <2>3 DEF EntryMove, TypeInv, TypeOK
  <2>4. QED
    BY <2>1, <2>2, <2>3, EntryChanges
<1>5. offers'[o].listing = l /\ offers'[o].version = offers[o].version
  <2>1. PICK state \in {"pending"} \cup Outcomes : offers'[o] = [offers[o] EXCEPT !.state = state]
    BY OfferIdentity
  <2>2. QED
    BY <2>1 DEF Offer
<1>6. listings'[l] \in Listing
  BY <1>1, TypeStep DEF TypeInv, TypeOK
<1>7. QED
  BY <1>1, <1>4, <1>5, <1>6 DEF SameEntry, Listing

\* An offer that cannot be accepted cannot be accepted after any step.
LEMMA NoRevivalStep ==
  ASSUME AgingInv, [Next]_vars, NEW o \in OfferIds, Unresolved(o), ~Acceptable(o)
  PROVE  ~Acceptable(o)'
<1> USE DEF AgingInv
<1>1. offers[o] \in Offer
  BY DEF Unresolved, TypeInv, TypeOK, NoOffer
<1>2. CASE ~SameProposer(o)
  BY <1>1, <1>2, ProposerLost DEF Acceptable
<1>3. CASE ~SameEntry(o)
  BY <1>1, <1>3, EntryLost DEF Acceptable
<1>4. CASE Expired(o)
  <2>1. offers'[o].expires = offers[o].expires
    <3>1. PICK state \in {"pending"} \cup Outcomes : offers'[o] = [offers[o] EXCEPT !.state = state]
      BY <1>1, OfferIdentity
    <3>2. QED
      BY <1>1, <3>1 DEF Offer
  <2>2. offers[o].expires \in Nat /\ now \in Nat /\ now' \in Nat /\ now <= now'
    BY <1>1, ClockStep DEF Offer, TypeInv, TypeOK
  <2>3. offers'[o].expires <= now'
    BY <1>4, <2>1, <2>2 DEF Expired
  <2>4. QED
    BY <2>3 DEF Acceptable, Expired
<1>5. QED
  BY <1>2, <1>3, <1>4 DEF Acceptable

\* An unresolved offer that cannot be accepted never can be again: no restored
\* role, saved phrase, entry status or owner brings it back.
THEOREM LostOfferStaysLost == Spec => NoRevival
<1>1. AgingInv /\ [Next]_vars =>
        [\A o \in OfferIds : Unresolved(o) /\ ~Acceptable(o) => ~Acceptable(o)']_vars
  BY NoRevivalStep
<1>2. QED
  BY <1>1, AgingInvariant, PTL DEF Spec, NoRevival

------------------------------------------------------------------------------
(* Accounts that rows name stay, and the CHECK constraints hold. *)

\* Where the owner of an entry comes from.
OwnerFrom(l) ==
  \/ listings'[l].owner = listings[l].owner /\ listings'[l].label = listings[l].label
  \/ listings'[l].owner = Nobody
  \/ /\ ~listings'[l].label
     /\ UNCHANGED accounts
     /\ \/ accounts[listings'[l].owner].exists
        \/ \E o \in OfferIds : offers[o] \in Offer /\ listings'[l].owner = offers[o].recipient

\* A new owner exists at that step or is the recipient of an offer.
LEMMA OwnerMoves ==
  ASSUME TypeInv, [Next]_vars, NEW l \in Listings
  PROVE  OwnerFrom(l)
<1> USE DEF TypeInv
<1>1. listings[l] \in Listing
  BY DEF TypeOK
<1>2. CASE listings'[l] = listings[l]
  BY <1>2 DEF OwnerFrom
<1>3. ASSUME ListingStep PROVE OwnerFrom(l)
  <2>1. PICK k \in Listings :
          \/ \E owner \in Holder : Submit(k, owner)
          \/ EditContent(k)
          \/ Attest(k)
          \/ \E status \in Statuses : SetStatus(k, status)
          \/ DeleteListing(k)
    BY <1>3 DEF ListingStep
  <2>2. CASE k # l
    BY <1>2, <2>1, <2>2 DEF Submit, EditContent, Attest, SetStatus, DeleteListing, WriteListing, TypeOK
  <2>3. ASSUME NEW owner \in Holder, Submit(l, owner)
        PROVE  OwnerFrom(l)
    <3>1. listings'[l].owner = owner /\ listings'[l].label = FALSE
      BY <2>3 DEF Submit, NoListing, TypeOK
    <3>2. QED
      BY <2>3, <3>1, ListingFrame DEF Submit, Writable, OwnerFrom
  <2>4. ASSUME NEW row \in Listing, row.owner = listings[l].owner, row.label = listings[l].label,
               WriteListing(l, row)
        PROVE  OwnerFrom(l)
    <3>1. listings'[l].owner = row.owner /\ listings'[l].label = row.label
      BY <2>4 DEF WriteListing, TypeOK, Listing
    <3>2. QED
      BY <2>4, <3>1 DEF OwnerFrom
  <2>5. CASE k = l /\ EditContent(l)
    BY <1>1, <2>4, <2>5 DEF EditContent, Listing
  <2>6. CASE k = l /\ Attest(l)
    BY <1>1, <2>4, <2>6 DEF Attest, Listing
  <2>7. CASE k = l /\ \E status \in Statuses : SetStatus(l, status)
    BY <1>1, <2>4, <2>7 DEF SetStatus, Listing
  <2>8. CASE k = l /\ DeleteListing(l)
    BY <2>8 DEF DeleteListing, NoListing, TypeOK, OwnerFrom
  <2>9. QED
    BY <2>1, <2>2, <2>3, <2>5, <2>6, <2>7, <2>8
<1>4. ASSUME NEW r \in Requests, CommitStep(r)
      PROVE  OwnerFrom(l)
  <2>1. ASSUME NEW k \in Listings, NEW owner \in Holder, NEW label \in BOOLEAN,
               listings' = [listings EXCEPT ![k] = Reassigned(@, owner, label)]
        PROVE  listings'[l] = listings[l] \/ (listings'[l].owner = owner /\ listings'[l].label = label)
    <3>1. CASE k # l
      BY <2>1, <3>1 DEF TypeOK
    <3>2. CASE k = l
      <4>1. listings'[l] = Reassigned(listings[l], owner, label)
        BY <2>1, <3>2 DEF TypeOK
      <4>2. QED
        BY <1>1, <4>1 DEF Reassigned, Listing
    <3>3. QED
      BY <3>1, <3>2
  <2>2. CASE UNCHANGED listings
    BY <1>2, <2>2
  <2>3. CASE /\ requests[r].listing \in Listings
             /\ \E label \in BOOLEAN :
                  listings' = [listings EXCEPT ![requests[r].listing] = Reassigned(@, Nobody, label)]
    BY <1>2, <2>1, <2>3 DEF OwnerFrom, Holder
  <2>4. CASE /\ requests[r].offer \in OfferIds /\ offers[requests[r].offer] \in Offer
             /\ listings' = [listings EXCEPT ![offers[requests[r].offer].listing] =
                               Reassigned(@, offers[requests[r].offer].recipient, FALSE)]
    <3>1. offers[requests[r].offer].listing \in Listings /\ offers[requests[r].offer].recipient \in Holder
      BY <2>4 DEF Offer, Holder
    <3>2. QED
      BY <1>2, <1>4, <2>1, <2>4, <3>1, CommitFrame DEF OwnerFrom
  <2>5. QED
    BY <1>4, <2>2, <2>3, <2>4, CommitListings
<1>5. CASE ~ \E r \in Requests : CommitStep(r)
  BY <1>2, <1>3, <1>5, OtherSteps, RequestFrame DEF vars, Tick, WriteRow
<1>6. QED
  BY <1>4, <1>5

\* A row of an entry that is not live names no account.
GoneUnowned == \A l \in Listings : listings[l].phase # "live" => listings[l].owner = Nobody

\* A deletion clears the owner, and nothing sets it afterwards.
LEMMA GoneUnownedStep ==
  ASSUME TypeInv, GoneUnowned, [Next]_vars
  PROVE  GoneUnowned'
<1> SUFFICES ASSUME NEW l \in Listings, listings'[l].phase # "live"
             PROVE  listings'[l].owner = Nobody
  BY DEF GoneUnowned
<1>1. CASE listings'[l] = listings[l]
  BY <1>1 DEF GoneUnowned
<1>2. ASSUME NEW k \in Listings, NEW row \in Listing, EntryMove(k, row)
      PROVE  listings'[l] = listings[l] \/ listings'[l].owner = Nobody
  BY <1>2 DEF EntryMove, TypeInv, TypeOK
<1>3. QED
  BY <1>1, <1>2, EntryChanges

\* The accounts that an offer names.
Parties(row) == {row.proposer, row.recipient, row.prior}

\* An offer that a step makes names accounts that exist, and its recipient is
\* not the owner it is made against.
LEMMA NewParties ==
  ASSUME TypeInv, Carried, NoDanglingAccount, NEW r \in Requests, NEW o \in OfferIds, CommitNominate(r, o)
  PROVE  /\ \A a \in Parties(NewOffer(r)) \ {Nobody} : accounts[a].exists
         /\ NewOffer(r).recipient # NewOffer(r).prior
<1>1. requests[r].pc = "locked" /\ requests[r].kind = "nominate"
  BY DEF CommitNominate
<1>2. accounts[requests[r].caller].exists /\ accounts[requests[r].recipient].exists
  BY <1>1 DEF Carried, CarriedIn, FoundIn
<1>3. requests[r].listing \in Listings
  BY <1>1, Active DEF TypeInv, Request
<1>4. listings[requests[r].listing].owner # Nobody => accounts[listings[requests[r].listing].owner].exists
  BY <1>3 DEF NoDanglingAccount
<1>5. listings[requests[r].listing].owner # requests[r].recipient
  BY DEF CommitNominate, Nominable
<1>6. QED
  BY <1>2, <1>4, <1>5 DEF Parties, NewOffer

\* An offer after a step is new or has the parties it had.
LEMMA PartiesKept ==
  ASSUME TypeInv, [Next]_vars, NEW o \in OfferIds, offers'[o] # NoOffer
  PROVE  \/ /\ offers[o] \in Offer
            /\ offers'[o].proposer = offers[o].proposer
            /\ offers'[o].recipient = offers[o].recipient
            /\ offers'[o].prior = offers[o].prior
         \/ \E r \in Requests : CommitStep(r) /\ CommitNominate(r, o) /\ offers'[o] = NewOffer(r)
<1> USE DEF TypeInv
<1>1. CASE offers[o] \in Offer
  <2>1. PICK state \in {"pending"} \cup Outcomes : offers'[o] = [offers[o] EXCEPT !.state = state]
    BY <1>1, OfferIdentity
  <2>2. QED
    BY <1>1, <2>1 DEF Offer
<1>2. CASE offers[o] = NoOffer
  <2>1. PICK r \in Requests : CommitStep(r)
    BY <1>2, OtherSteps
  <2>2. QED
    BY <1>2, <2>1, OfferMoves, Distinct
<1>3. QED
  BY <1>1, <1>2 DEF TypeOK

\* An account that an entry or an offer names outlives the step.
LEMMA NamedStay ==
  ASSUME TypeInv, Carried, GoneUnowned, NoDanglingAccount, [Next]_vars
  PROVE  /\ \A l \in Listings : listings[l].owner # Nobody => accounts'[listings[l].owner].exists
         /\ \A o \in OfferIds : offers[o] # NoOffer =>
              \A a \in Parties(offers[o]) \ {Nobody} : accounts'[a].exists
<1> DEFINE Named == {a \in Accounts : \/ \E l \in Listings : listings[l].owner = a
                                      \/ \E o \in OfferIds : offers[o] # NoOffer /\ a \in Parties(offers[o])}
<1>1. \A a \in Named : accounts[a].exists
  BY OwnershipAssumption DEF NoDanglingAccount, Parties
<1>2. ASSUME NEW a \in Named PROVE accounts'[a].exists
  <2>1. CASE UNCHANGED accounts
    BY <1>1, <2>1
  <2>2. ASSUME NEW b \in Accounts, NEW row \in AccountRow, AccountMove(b, row)
        PROVE  accounts'[a].exists
    <3>1. CASE a # b
      BY <1>1, <2>2, <3>1 DEF AccountMove, WriteRow, TypeInv, TypeOK
    <3>2. CASE a = b
      <4>1. accounts'[a] = row
        BY <2>2, <3>2 DEF AccountMove, WriteRow, TypeInv, TypeOK
      <4>2. References(a)
        BY <1>2, OwnershipAssumption DEF References, Parties, GoneUnowned, Live
      <4>3. accounts[a] \in AccountRow
        BY DEF TypeInv, TypeOK
      <4>4. QED
        BY <1>1, <2>2, <3>2, <4>1, <4>2, <4>3 DEF AccountMove, PhraseSaved, AccountRow
    <3>3. QED
      BY <3>1, <3>2
  <2>3. QED
    BY <2>1, <2>2, AccountChanges
<1>3. \A l \in Listings : listings[l].owner \in Accounts \cup {Nobody}
  BY DEF TypeInv, TypeOK, Listing, Holder
<1>4. \A o \in OfferIds : offers[o] # NoOffer => Parties(offers[o]) \subseteq Accounts \cup {Nobody}
  BY DEF TypeInv, TypeOK, Offer, Holder, Parties
<1>5. QED
  BY <1>2, <1>3, <1>4

\* No step leaves a name without an account.
LEMMA NoDanglingStep ==
  ASSUME TypeInv, Carried, GoneUnowned, NoDanglingAccount, [Next]_vars
  PROVE  NoDanglingAccount'
<1>1. ASSUME NEW l \in Listings, listings'[l].owner # Nobody
      PROVE  accounts'[listings'[l].owner].exists
  <2>1. ASSUME NEW o \in OfferIds, offers[o] \in Offer
        PROVE  accounts'[offers[o].recipient].exists
    BY <2>1, NamedStay, Distinct, OwnershipAssumption DEF Parties, Offer
  <2>2. QED
    BY <1>1, <2>1, NamedStay, OwnerMoves DEF OwnerFrom
<1>2. ASSUME NEW o \in OfferIds, offers'[o] # NoOffer,
             NEW a \in {offers'[o].proposer, offers'[o].recipient, offers'[o].prior} \ {Nobody}
      PROVE  accounts'[a].exists
  <2>1. CASE \E r \in Requests : CommitStep(r) /\ CommitNominate(r, o) /\ offers'[o] = NewOffer(r)
    BY <1>2, <2>1, NewParties, CommitFrame DEF Parties
  <2>2. CASE /\ offers[o] \in Offer
             /\ offers'[o].proposer = offers[o].proposer
             /\ offers'[o].recipient = offers[o].recipient
             /\ offers'[o].prior = offers[o].prior
    BY <1>2, <2>2, NamedStay, Distinct DEF Parties
  <2>3. QED
    BY <1>2, <2>1, <2>2, PartiesKept
<1>3. QED
  BY <1>1, <1>2 DEF NoDanglingAccount

\* Every account that a live entry or an offer names still exists, whatever
\* accounts are deleted while nominations are in flight.
THEOREM NamedAccountsExist == Spec => []NoDanglingAccount
<1> DEFINE Inv == TypeInv /\ Carried /\ GoneUnowned /\ NoDanglingAccount
<1>1. Init => Inv
  BY TypeInit DEF Init, Carried, Idle, GoneUnowned, NoDanglingAccount, NoListing
<1>2. Inv /\ [Next]_vars => Inv'
  BY TypeStep, CarriedStep, GoneUnownedStep, NoDanglingStep
<1>3. QED
  BY <1>1, <1>2, PTL DEF Spec

\* Every step keeps the constraints of the tables.
LEMMA ChecksStep ==
  ASSUME TypeInv, Carried, NoDanglingAccount, ChecksHold, [Next]_vars
  PROVE  ChecksHold'
<1>1. ASSUME NEW l \in Listings, listings'[l].label
      PROVE  listings'[l].owner = Nobody
  BY <1>1, OwnerMoves DEF OwnerFrom, ChecksHold
<1>2. ASSUME NEW o \in OfferIds, offers'[o] # NoOffer
      PROVE  offers'[o].recipient # offers'[o].prior
  BY <1>2, PartiesKept, NewParties, Distinct DEF ChecksHold
<1>3. QED
  BY <1>1, <1>2 DEF ChecksHold

\* The CHECK constraints on private labels and on the parties of an offer are
\* never the ones that refuse a write.
THEOREM ChecksNeverFire == Spec => []ChecksHold
<1> DEFINE Inv == TypeInv /\ Carried /\ GoneUnowned /\ NoDanglingAccount /\ ChecksHold
<1>1. Init => Inv
  BY TypeInit DEF Init, Carried, Idle, GoneUnowned, NoDanglingAccount, NoListing, ChecksHold
<1>2. Inv /\ [Next]_vars => Inv'
  BY TypeStep, CarriedStep, GoneUnownedStep, NoDanglingStep, ChecksStep
<1>3. QED
  BY <1>1, <1>2, PTL DEF Spec

------------------------------------------------------------------------------
(* Hand-overs. *)

\* An offer becomes accepted only by the commit that hands its entry over.
LEMMA AcceptedBy ==
  ASSUME TypeInv, NEW r \in Requests, CommitStep(r), NEW o \in OfferIds, offers[o] \in Offer,
         offers[o].state # "accepted", offers'[o].state = "accepted"
  PROVE  /\ Acceptable(o)
         /\ listings' = [listings EXCEPT ![offers[o].listing] =
                           Reassigned(@, offers[o].recipient, FALSE)]
         /\ \A p \in OfferIds \ {o} : offers'[p] = offers[p]
<1>1. ASSUME NEW p \in OfferIds, NEW actor, NEW state, NEW cause, Resolve(p, actor, state, cause)
      PROVE  p = o /\ state = "accepted"
  BY <1>1 DEF Resolve, TypeInv, TypeOK, Offer
<1>2. ASSUME NEW p \in OfferIds, CommitNominate(r, p)
      PROVE  FALSE
  <2>1. o # p
    BY <1>2, Distinct DEF CommitNominate
  <2>2. offers'[o] = offers[o] \/ offers'[o] = [offers[o] EXCEPT !.state = "expired"]
    BY <1>2, <2>1 DEF CommitNominate
  <2>3. QED
    BY <2>2 DEF Offer
<1>3. ~UNCHANGED offers
  OBVIOUS
<1>4. \A kind \in Decisions : Deciding(r, kind) => requests[r].offer \in OfferIds
  BY DEF Deciding, TypeInv, RequestsLinked, Linked
<1>5. \E verified \in BOOLEAN : CommitAccept(r, verified)
  <2>1. ASSUME NEW p \in OfferIds, NEW actor, NEW state, NEW cause,
               state # "accepted", Resolve(p, actor, state, cause)
        PROVE  FALSE
    BY <1>1, <2>1
  <2>2. QED
    BY <2>1, <1>2, <1>3, <1>4 DEF CommitStep, RefuseNominate, CommitNoAccount, RefuseNoAccount, DecideResolved,
       DecideExpired, AcceptRevoked, AcceptUnverified, CommitDecline, CommitCancel, Fail, Decisions
<1>6. Deciding(r, "accept") /\ Resolve(requests[r].offer, requests[r].caller, "accepted", "")
  BY <1>5 DEF CommitAccept
<1>7. requests[r].offer = o
  BY <1>1, <1>4, <1>6 DEF Decisions
<1>8. offers[o].recipient = requests[r].caller
  BY <1>6, <1>7 DEF Deciding, Decisions, TypeInv, RequestsLinked, Linked
<1>9. QED
  BY <1>5, <1>6, <1>7, <1>8 DEF CommitAccept, Resolve, TypeInv, TypeOK

\* A live entry has moved past every version it was handed over at.
LEMMA PassedStep ==
  ASSUME AgingInv, [Next]_vars, NEW o \in OfferIds, offers[o] \in Offer,
         Live(offers[o].listing) => offers[o].version < listings[offers[o].listing].version,
         listings'[offers[o].listing].phase = "live"
  PROVE  offers[o].version < listings'[offers[o].listing].version
<1> DEFINE l == offers[o].listing
<1> USE DEF AgingInv
<1>1. l \in Listings /\ offers[o].version \in Nat /\ listings[l] \in Listing
  BY DEF Offer, TypeInv, TypeOK
<1>2. listings[l].phase # "new"
  BY Distinct DEF Aging, EntryAges
<1>3. CASE listings'[l] = listings[l]
  BY <1>3 DEF Live
<1>4. ASSUME NEW k \in Listings, NEW row \in Listing, EntryMove(k, row)
      PROVE  listings'[l] = listings[l] \/ (k = l /\ listings'[l] = row)
  BY <1>1, <1>4 DEF EntryMove, TypeInv, TypeOK
<1>5. ASSUME NEW row \in Listing, EntryMove(l, row), listings'[l] = row
      PROVE  offers[o].version < listings'[l].version
  BY <1>1, <1>2, <1>5 DEF EntryMove, Listing, Live
<1>6. QED
  BY <1>1, <1>3, <1>4, <1>5, EntryChanges

\* An acceptance moves the version, so no second one finds it.
LEMMA AcceptedStep ==
  ASSUME AgingInv, AcceptedOncePerVersion, [Next]_vars
  PROVE  AcceptedOncePerVersion'
<1> USE DEF AgingInv
<1>1. ASSUME NEW o \in OfferIds, offers'[o].state = "accepted"
      PROVE  /\ offers[o] \in Offer
             /\ offers'[o].listing = offers[o].listing
             /\ offers'[o].version = offers[o].version
  <2>1. offers'[o] # NoOffer
    BY <1>1 DEF NoOffer
  <2>2. ASSUME NEW r \in Requests, offers'[o] = NewOffer(r) PROVE FALSE
    BY <1>1, <2>2 DEF NewOffer
  <2>3. offers[o] \in Offer
    BY <2>1, <2>2, PartiesKept
  <2>4. PICK state \in {"pending"} \cup Outcomes : offers'[o] = [offers[o] EXCEPT !.state = state]
    BY <2>3, OfferIdentity
  <2>5. QED
    BY <2>3, <2>4 DEF Offer
<1>2. ASSUME NEW o \in OfferIds, offers'[o].state = "accepted", offers[o].state # "accepted"
      PROVE  /\ offers[o].version = listings[offers[o].listing].version
             /\ Live(offers[o].listing)
             /\ listings'[offers[o].listing].version = listings[offers[o].listing].version + 1
             /\ \A p \in OfferIds \ {o} : offers'[p] = offers[p]
  <2>1. PICK r \in Requests : CommitStep(r)
    BY <1>2, OtherSteps DEF TypeInv
  <2>2. /\ Acceptable(o)
        /\ listings' = [listings EXCEPT ![offers[o].listing] =
                          Reassigned(@, offers[o].recipient, FALSE)]
        /\ \A p \in OfferIds \ {o} : offers'[p] = offers[p]
    BY <1>1, <1>2, <2>1, AcceptedBy
  <2>3. offers[o].listing \in Listings /\ listings[offers[o].listing] \in Listing
    BY <1>1, <1>2 DEF Offer, TypeInv, TypeOK
  <2>4. listings'[offers[o].listing] = Reassigned(listings[offers[o].listing], offers[o].recipient, FALSE)
    BY <2>2, <2>3 DEF TypeInv, TypeOK
  <2>5. listings'[offers[o].listing].version = listings[offers[o].listing].version + 1
    BY <2>3, <2>4 DEF Reassigned, Listing
  <2>6. QED
    BY <2>2, <2>5 DEF Acceptable, SameEntry, Live
<1>3. ASSUME NEW o \in OfferIds, offers'[o].state = "accepted", listings'[offers'[o].listing].phase = "live"
      PROVE  offers'[o].version < listings'[offers'[o].listing].version
  <2>1. CASE offers[o].state = "accepted"
    BY <1>1, <1>3, <2>1, PassedStep DEF AcceptedOncePerVersion
  <2>2. CASE offers[o].state # "accepted"
    <3>1. listings[offers[o].listing].version \in Nat
      BY <1>1, <1>3 DEF Offer, Listing, TypeInv, TypeOK
    <3>2. QED
      BY <1>1, <1>2, <1>3, <2>2, <3>1
  <2>3. QED
    BY <2>1, <2>2
<1>4. ASSUME NEW o \in OfferIds, NEW p \in OfferIds \ {o},
             offers'[o].state = "accepted", offers'[p].state = "accepted",
             offers'[p].listing = offers'[o].listing,
             offers'[p].version = offers'[o].version
      PROVE  FALSE
  <2>1. /\ offers[p].listing = offers[o].listing
        /\ offers[p].version = offers[o].version
        /\ offers[p].version \in Nat
    BY <1>1, <1>4 DEF Offer
  <2>2. CASE offers[o].state = "accepted" /\ offers[p].state = "accepted"
    BY <2>1, <2>2 DEF AcceptedOncePerVersion
  <2>3. CASE offers[o].state # "accepted"
    <3>1. offers[p].state = "accepted" /\ Live(offers[p].listing)
      BY <1>2, <1>4, <2>1, <2>3
    <3>2. offers[p].version < listings[offers[p].listing].version
      BY <3>1 DEF AcceptedOncePerVersion
    <3>3. QED
      BY <1>2, <1>4, <2>1, <2>3, <3>2
  <2>4. CASE offers[p].state # "accepted"
    <3>1. offers[o].state = "accepted" /\ Live(offers[o].listing)
      BY <1>2, <1>4, <2>1, <2>4
    <3>2. offers[o].version < listings[offers[o].listing].version
      BY <3>1 DEF AcceptedOncePerVersion
    <3>3. QED
      BY <1>2, <1>4, <2>1, <2>4, <3>2
  <2>5. QED
    BY <2>2, <2>3, <2>4
<1>5. QED
  BY <1>3, <1>4 DEF AcceptedOncePerVersion, Live

\* No revision of an entry is handed over twice.
THEOREM AcceptedOnce == Spec => []AcceptedOncePerVersion
<1>1. Init => AcceptedOncePerVersion
  BY DEF Init, AcceptedOncePerVersion, NoOffer
<1>2. QED
  BY <1>1, AgingInvariant, AcceptedStep, PTL DEF Spec

------------------------------------------------------------------------------
(***************************************************************************)
(* The handlers of OwnershipTransfer implement OwnershipConsent: what they *)
(* do to the tables is, entry by entry, an appearance, a proposal, a lapse *)
(* of proposals, a hand-over to the account the standing proposal names,   *)
(* or a release, and nothing else.                                         *)
(***************************************************************************)

\* The offer o stands for the entry l.
Stands(o, l) == offers[o] \in Offer /\ Acceptable(o) /\ offers[o].listing = l

StandingExact == \A l \in Listings :
  /\ Standing(l) \in OfferIds \cup {Nobody}
  /\ \A o \in OfferIds : Standing(l) = o <=> Stands(o, l)

\* The choice in Standing is determined: there is at most one pending offer.
LEMMA StandingIs == TypeInv /\ OnePending => StandingExact
<1> SUFFICES ASSUME TypeInv, OnePending, NEW l \in Listings
             PROVE  /\ Standing(l) \in OfferIds \cup {Nobody}
                    /\ \A o \in OfferIds : Standing(l) = o <=> Stands(o, l)
  BY DEF StandingExact
<1> DEFINE S == {o \in OfferIds : offers[o] # NoOffer /\ Acceptable(o) /\ offers[o].listing = l}
<1>1. \A o \in OfferIds : o \in S <=> Stands(o, l)
  BY Distinct DEF Stands, TypeInv, TypeOK
<1>2. \A o, p \in S : o = p
  BY DEF OnePending, Acceptable
<1>3. Standing(l) = IF S = {} THEN Nobody ELSE CHOOSE o \in S : TRUE
  BY DEF Standing
<1>4. Nobody \notin OfferIds
  BY OwnershipAssumption
<1> HIDE DEF S
<1>5. CASE S = {}
  BY <1>1, <1>3, <1>4, <1>5
<1>6. CASE S # {}
  <2>1. Standing(l) \in S
    BY <1>3, <1>6
  <2>2. S \subseteq OfferIds
    BY DEF S
  <2>3. QED
    BY <1>1, <1>2, <2>1, <2>2
<1>7. QED
  BY <1>5, <1>6

RefineInv == AgingInv /\ OnePending

\* The invariants the refinement uses hold before and after a step.
LEMMA RefineStep ==
  ASSUME RefineInv, [Next]_vars
  PROVE  RefineInv' /\ StandingExact /\ StandingExact'
<1>1. AgingInv'
  BY TypeStep, CarriedStep, AgingStep DEF RefineInv, AgingInv
<1>2. OnePending'
  BY OnePendingStep DEF RefineInv, AgingInv
<1>3. StandingExact
  BY StandingIs DEF RefineInv, AgingInv
<1>4. (TypeInv /\ OnePending => StandingExact)'
  BY StandingIs, PTL
<1>5. QED
  BY <1>1, <1>2, <1>3, <1>4 DEF RefineInv, AgingInv

\* Offers that exist keep their recipient, and stand only if they stood.
LEMMA StandsBack ==
  ASSUME RefineInv, [Next]_vars, NEW o \in OfferIds, offers[o] # NoOffer
  PROVE  /\ offers'[o] # NoOffer /\ offers'[o].recipient = offers[o].recipient
         /\ \A l \in Listings : Stands(o, l)' => Stands(o, l)
<1> USE DEF RefineInv, AgingInv
<1>1. offers[o] \in Offer
  BY DEF TypeInv, TypeOK
<1>2. PICK state \in {"pending"} \cup Outcomes : offers'[o] = [offers[o] EXCEPT !.state = state]
  BY <1>1, OfferIdentity
<1>3. offers'[o] # NoOffer
  BY <1>1, Distinct, OfferIdentity
<1>4. offers'[o].recipient = offers[o].recipient /\ offers'[o].listing = offers[o].listing
  BY <1>1, <1>2 DEF Offer
<1>5. offers'[o].state = "pending" => Unresolved(o)
  <2>1. CASE \E r \in Requests : CommitStep(r)
    BY <1>3, <2>1, OfferMoves DEF Unresolved, CommitNominate
  <2>2. CASE ~ \E r \in Requests : CommitStep(r)
    BY <2>2, OtherSteps DEF TypeInv, Unresolved
  <2>3. QED
    BY <2>1, <2>2
<1>6. Acceptable(o)' => Acceptable(o)
  <2>1. Acceptable(o)' => offers'[o].state = "pending"
    BY DEF Acceptable, Unresolved
  <2>2. Unresolved(o) /\ ~Acceptable(o) => ~Acceptable(o)'
    BY NoRevivalStep
  <2>3. QED
    BY <1>5, <2>1, <2>2
<1>7. QED
  BY <1>1, <1>3, <1>4, <1>6 DEF Stands

\* A step that makes no offer: no proposal appears, and none begins to stand.
LEMMA NothingProposed ==
  ASSUME RefineInv, [Next]_vars, \A o \in OfferIds : offers[o] = NoOffer => offers'[o] = NoOffer
  PROVE  /\ \A o \in OfferIds : (offers'[o] = NoOffer <=> offers[o] = NoOffer)
                                /\ (offers[o] # NoOffer => offers'[o].recipient = offers[o].recipient)
         /\ \A l \in Listings : Standing(l)' = Standing(l) \/ Standing(l)' = Nobody
<1>1. \A o \in OfferIds : (offers'[o] = NoOffer <=> offers[o] = NoOffer)
                          /\ (offers[o] # NoOffer => offers'[o].recipient = offers[o].recipient)
  BY StandsBack
<1>2. ASSUME NEW l \in Listings, NEW o \in OfferIds, Stands(o, l)'
      PROVE  Stands(o, l)
  BY <1>1, <1>2, StandsBack, Distinct DEF Stands
<1>3. ASSUME NEW l \in Listings
      PROVE  Standing(l)' = Standing(l) \/ Standing(l)' = Nobody
  BY <1>2, RefineStep DEF StandingExact
<1>4. QED
  BY <1>1, <1>3

\* Such a step that keeps owners and submissions lapses proposals, or stutters.
LEMMA LapseStep ==
  ASSUME RefineInv, [Next]_vars, \A o \in OfferIds : offers[o] = NoOffer => offers'[o] = NoOffer,
         \A l \in Listings : /\ listings'[l].owner = listings[l].owner
                             /\ listings'[l].phase = "new" <=> listings[l].phase = "new"
  PROVE  Consent!ConsentNext
<1> DEFINE S == {l \in Listings : Standing(l)' = Nobody}
<1>1. S \in SUBSET Listings
  OBVIOUS
<1>2. \A l \in Listings : Standing(l)' = IF l \in S THEN Nobody ELSE Standing(l)
  BY NothingProposed
<1>3. [o \in OfferIds |-> IF offers'[o] = NoOffer THEN Nobody ELSE offers'[o].recipient]
      = [o \in OfferIds |-> IF offers[o] = NoOffer THEN Nobody ELSE offers[o].recipient]
  BY NothingProposed
<1> HIDE DEF S
<1>4. Consent!Lapse(S)
  BY <1>2, <1>3 DEF Consent!Lapse
<1>5. QED
  BY <1>1, <1>4 DEF Consent!ConsentNext

\* What stands for an entry rests on that entry, its offers, the accounts and
\* the clock.
LEMMA OtherEntry ==
  ASSUME RefineInv, [Next]_vars, UNCHANGED <<accounts, now>>,
         NEW l \in Listings, NEW k \in Listings, k # l, listings'[k] = listings[k],
         \A o \in OfferIds : offers'[o] = offers[o] \/ offers'[o].listing = l
  PROVE  Standing(k)' = Standing(k)
<1>1. ASSUME NEW o \in OfferIds PROVE Stands(o, k)' <=> Stands(o, k)
  <2>1. CASE offers'[o] = offers[o]
    <3>1. offers[o].listing = k => (SameEntry(o)' <=> SameEntry(o))
      BY <2>1 DEF SameEntry
    <3>2. SameProposer(o)' <=> SameProposer(o)
      BY <2>1 DEF SameProposer
    <3>3. QED
      BY <2>1, <3>1, <3>2 DEF Stands, Acceptable, Unresolved, Expired
  <2>2. CASE offers'[o] # offers[o] /\ offers'[o].listing = l
    <3>1. ~Stands(o, k)'
      BY <2>2 DEF Stands
    <3>2. ~Stands(o, k)
      <4>1. SUFFICES ASSUME Stands(o, k) PROVE FALSE
        OBVIOUS
      <4>2. offers[o] \in Offer /\ offers[o].listing = k
        BY <4>1 DEF Stands
      <4>3. PICK state \in {"pending"} \cup Outcomes : offers'[o] = [offers[o] EXCEPT !.state = state]
        BY <4>2, OfferIdentity DEF RefineInv, AgingInv
      <4>4. QED
        BY <2>2, <4>2, <4>3 DEF Offer
    <3>3. QED
      BY <3>1, <3>2
  <2>3. QED
    BY <2>1, <2>2
<1>2. QED
  BY <1>1, RefineStep DEF StandingExact

\* An entry that loses its account with all offers as they were.
LEMMA ReleaseStep ==
  ASSUME RefineInv, [Next]_vars, UNCHANGED <<accounts, now, offers>>,
         NEW l \in Listings, Live(l), NEW row \in Listing,
         listings' = [listings EXCEPT ![l] = row], row.owner = Nobody, row.phase # "new",
         row.phase = "live" => row.version = listings[l].version + 1
  PROVE  Consent!ConsentNext
<1>1. listings'[l] = row /\ \A k \in Listings \ {l} : listings'[k] = listings[k]
  BY DEF RefineInv, AgingInv, TypeInv, TypeOK
<1>2. \A k \in Listings \ {l} : Standing(k)' = Standing(k)
  BY <1>1, OtherEntry
<1>3. Standing(l)' = Nobody
  <2>1. ASSUME NEW o \in OfferIds, Stands(o, l)' PROVE FALSE
    <3>1. Stands(o, l) /\ listings[l] \in Listing /\ offers[o] \in Offer
      BY <2>1, StandsBack, Distinct DEF Stands, RefineInv, AgingInv, TypeInv, TypeOK
    <3>2. offers'[o] = offers[o]
      OBVIOUS
    <3>3. row.version = offers[o].version /\ row.phase = "live"
      BY <1>1, <2>1, <3>2 DEF Stands, Acceptable, SameEntry
    <3>4. listings[l].version = offers[o].version
      BY <3>1 DEF Stands, Acceptable, SameEntry
    <3>5. QED
      BY <3>1, <3>3, <3>4 DEF Listing
  <2>2. QED
    BY <2>1, RefineStep DEF StandingExact
<1>4. Consent!Release(l)
  <2>1. {k \in Listings : listings'[k].phase # "new"} = {k \in Listings : listings[k].phase # "new"}
    BY <1>1 DEF Live
  <2>2. [k \in Listings |-> listings'[k].owner] = [k \in Listings |-> IF k = l THEN Nobody ELSE listings[k].owner]
    BY <1>1
  <2>3. [k \in Listings |-> Standing(k)'] = [k \in Listings |-> IF k = l THEN Nobody ELSE Standing(k)]
    BY <1>2, <1>3
  <2>4. [o \in OfferIds |-> IF offers'[o] = NoOffer THEN Nobody ELSE offers'[o].recipient]
        = [o \in OfferIds |-> IF offers[o] = NoOffer THEN Nobody ELSE offers[o].recipient]
    OBVIOUS
  <2>5. QED
    BY <2>1, <2>2, <2>3, <2>4 DEF Consent!Release
<1>5. QED
  BY <1>4 DEF Consent!ConsentNext

\* An accepted offer hands its entry over to the account it names.
LEMMA HandOverStep ==
  ASSUME RefineInv, [Next]_vars, UNCHANGED <<accounts, now>>,
         NEW o \in OfferIds, NEW l \in Listings, Stands(o, l), NEW row,
         listings' = [listings EXCEPT ![l] = row],
         row.owner = offers[o].recipient, row.phase = "live",
         offers'[o].state = "accepted", offers'[o].listing = l,
         \A p \in OfferIds \ {o} : offers'[p] = offers[p]
  PROVE  Consent!ConsentNext
<1>1. listings'[l] = row /\ \A k \in Listings \ {l} : listings'[k] = listings[k]
  BY DEF RefineInv, AgingInv, TypeInv, TypeOK
<1>2. \A k \in Listings \ {l} : Standing(k)' = Standing(k)
  BY <1>1, OtherEntry
<1>3. Standing(l) = o
  BY RefineStep DEF StandingExact
<1>4. \A p \in OfferIds : offers[p] = NoOffer => offers'[p] = NoOffer
  BY Distinct DEF Stands
<1>5. Standing(l)' = Nobody
  <2>1. ~Stands(o, l)'
    BY DEF Stands, Acceptable, Unresolved
  <2>2. Standing(l)' # o
    BY <2>1, RefineStep DEF StandingExact
  <2>3. Standing(l)' = Standing(l) \/ Standing(l)' = Nobody
    BY <1>4, NothingProposed
  <2>4. QED
    BY <1>3, <2>2, <2>3
<1>6. o # Nobody /\ offers[o] # NoOffer
  BY Distinct, OwnershipAssumption DEF Stands
<1>7. Consent!HandOver(l)
  <2>1. {k \in Listings : listings'[k].phase # "new"} = {k \in Listings : listings[k].phase # "new"}
    BY <1>1 DEF Stands, Acceptable, SameEntry
  <2>2. [k \in Listings |-> listings'[k].owner]
        = [k \in Listings |-> IF k = l THEN offers[o].recipient ELSE listings[k].owner]
    BY <1>1
  <2>3. [k \in Listings |-> Standing(k)'] = [k \in Listings |-> IF k = l THEN Nobody ELSE Standing(k)]
    BY <1>2, <1>5
  <2>4. [p \in OfferIds |-> IF offers'[p] = NoOffer THEN Nobody ELSE offers'[p].recipient]
        = [p \in OfferIds |-> IF offers[p] = NoOffer THEN Nobody ELSE offers[p].recipient]
    BY <1>4, NothingProposed
  <2>5. QED
    BY <1>3, <1>6, <2>1, <2>2, <2>3, <2>4 DEF Consent!HandOver
<1>8. QED
  BY <1>7 DEF Consent!ConsentNext


\* An entry that is submitted appears, and nothing stands for it.
LEMMA AppearStep ==
  ASSUME RefineInv, [Next]_vars, NEW l \in Listings, NEW a \in Holder, Submit(l, a)
  PROVE  Consent!ConsentNext
<1>1. /\ listings[l].phase = "new" /\ UNCHANGED <<accounts, now, offers>>
      /\ listings'[l].owner = a /\ listings'[l].phase = "live"
      /\ \A k \in Listings \ {l} : listings'[k] = listings[k]
  BY DEF Submit, NoListing, RefineInv, AgingInv, TypeInv, TypeOK
<1>2. \A k \in Listings \ {l} : Standing(k)' = Standing(k)
  BY <1>1, OtherEntry
<1>3. \A o \in OfferIds : ~Stands(o, l)
  BY <1>1 DEF Stands, Acceptable, SameEntry
<1>4. \A o \in OfferIds : ~Stands(o, l)'
  <2>1. \A o \in OfferIds : Stands(o, l)' => offers[o] # NoOffer
    BY <1>1, Distinct DEF Stands
  <2>2. QED
    BY <1>3, <2>1, StandsBack
<1>5. Standing(l) = Nobody /\ Standing(l)' = Nobody
  BY <1>3, <1>4, RefineStep DEF StandingExact
<1>6. Consent!Appear(l, a)
  <2>1. {k \in Listings : listings'[k].phase # "new"}
        = {k \in Listings : listings[k].phase # "new"} \cup {l}
    BY <1>1
  <2>2. [k \in Listings |-> listings'[k].owner]
        = [[k \in Listings |-> listings[k].owner] EXCEPT ![l] = a]
    BY <1>1
  <2>3. [k \in Listings |-> Standing(k)'] = [k \in Listings |-> Standing(k)]
    BY <1>2, <1>5
  <2>4. [o \in OfferIds |-> IF offers'[o] = NoOffer THEN Nobody ELSE offers'[o].recipient]
        = [o \in OfferIds |-> IF offers[o] = NoOffer THEN Nobody ELSE offers[o].recipient]
    BY <1>1
  <2>5. QED
    BY <1>1, <2>1, <2>2, <2>3, <2>4 DEF Consent!Appear
<1>7. QED
  BY <1>6 DEF Consent!ConsentNext, Holder

\* A nomination that commits finds nothing standing, and its offer stands.
LEMMA NominationStands ==
  ASSUME RefineInv, [Next]_vars, NEW r \in Requests, NEW o \in OfferIds, CommitNominate(r, o),
         NEW l \in Listings, l = requests[r].listing
  PROVE  (\A p \in OfferIds : ~Stands(p, l)) /\ Stands(o, l)'
<1> DEFINE q == requests[r]
<1> USE DEF RefineInv, AgingInv
<1>1. q.pc = "locked" /\ q.kind = "nominate" /\ Nominable(q) /\ UNCHANGED <<accounts, listings, now>>
  BY DEF CommitNominate
<1>2. q \in Request
  BY <1>1, Active DEF TypeInv
<1>3. \A p \in OfferIds : ~Stands(p, l)
  BY <1>1 DEF Nominable, PendingOn, Stands, Acceptable
<1>4. offers'[o] = NewOffer(r)
  <2>2. offers[o] = NoOffer
    BY DEF CommitNominate
  <2>3. QED
    BY <2>2 DEF CommitNominate, NewOffer, Nominable, PendingOn, Unresolved
<1>5. offers'[o] \in Offer
  BY <1>4, NewOfferTyping
<1>6. SameProposer(o)'
  <2>1. Staff(accounts[q.caller])
    BY <1>1 DEF Carried, CarriedIn
  <2>2. QED
    BY <1>1, <1>4, <2>1 DEF SameProposer, NewOffer
<1>7. SameEntry(o)'
  BY <1>1, <1>4 DEF SameEntry, NewOffer, Nominable, Live
<1>8. Unresolved(o)' /\ ~Expired(o)'
  <2>1. offers'[o].state = "pending" /\ offers'[o].expires = now + Lifetime
    BY <1>4 DEF NewOffer
  <2>2. QED
    BY <1>1, <2>1, OwnershipAssumption DEF Unresolved, Expired, TypeInv, TypeOK
<1>9. offers'[o].listing = l
  BY <1>4 DEF NewOffer
<1>10. QED
  BY <1>3, <1>5, <1>6, <1>7, <1>8, <1>9 DEF Stands, Acceptable


\* A nomination proposes its recipient.
LEMMA ProposeStep ==
  ASSUME RefineInv, [Next]_vars, NEW r \in Requests, NEW o \in OfferIds, CommitNominate(r, o)
  PROVE  Consent!ConsentNext
<1> DEFINE q == requests[r]
<1>1. q.pc = "locked" /\ q.kind = "nominate" /\ Nominable(q) /\ UNCHANGED <<accounts, listings, now>>
  BY DEF CommitNominate
<1>2. PICK l \in Listings, a \in Accounts : l = q.listing /\ a = q.recipient
  BY <1>1, Active DEF RefineInv, AgingInv, TypeInv, RequestsLinked, Linked, Request
<1>3. offers[o] = NoOffer /\ offers'[o].recipient = a
  BY <1>2 DEF CommitNominate
<1>4. \A p \in OfferIds \ {o} : offers'[p] = offers[p] \/ offers'[p] = [offers[p] EXCEPT !.state = "expired"]
  BY DEF CommitNominate
<1>5. \A p \in OfferIds \ {o} : /\ offers'[p] = NoOffer <=> offers[p] = NoOffer
                                /\ offers[p] # NoOffer => offers'[p].recipient = offers[p].recipient
  <2>1. SUFFICES ASSUME NEW p \in OfferIds \ {o}
                 PROVE  /\ offers'[p] = NoOffer <=> offers[p] = NoOffer
                        /\ offers[p] # NoOffer => offers'[p].recipient = offers[p].recipient
    OBVIOUS
  <2>2. CASE p \in PendingOn(q.listing)
    BY <2>2, StandsBack, Distinct DEF PendingOn, Unresolved, NoOffer
  <2>3. CASE p \notin PendingOn(q.listing)
    BY <2>3 DEF CommitNominate
  <2>4. QED
    BY <2>2, <2>3
<1>6. \A p \in OfferIds : offers'[p] = offers[p] \/ offers'[p].listing = l
  <2>1. SUFFICES ASSUME NEW p \in OfferIds, p # o, offers'[p] # offers[p] PROVE offers'[p].listing = l
    BY <1>2 DEF CommitNominate
  <2>2. p \in PendingOn(l) /\ offers'[p] = [offers[p] EXCEPT !.state = "expired"]
    BY <1>2, <2>1 DEF CommitNominate
  <2>3. offers[p] \in Offer /\ offers[p].listing = l
    BY <2>2 DEF PendingOn, Unresolved, NoOffer, RefineInv, AgingInv, TypeInv, TypeOK
  <2>4. QED
    BY <2>2, <2>3 DEF Offer
<1>7. \A k \in Listings \ {l} : Standing(k)' = Standing(k)
  BY <1>1, <1>6, OtherEntry
<1>8. Standing(l) = Nobody /\ Standing(l)' = o
  BY <1>2, NominationStands, RefineStep DEF StandingExact
<1>9. o # Nobody /\ a # Nobody /\ offers'[o] # NoOffer
  BY <1>2, <1>8, OwnershipAssumption, NominationStands, Distinct DEF Stands
<1>10. Consent!Propose(l, o, a)
  <2>1. [k \in Listings |-> Standing(k)'] = [[k \in Listings |-> Standing(k)] EXCEPT ![l] = o]
    BY <1>7, <1>8
  <2>2. [p \in OfferIds |-> IF offers'[p] = NoOffer THEN Nobody ELSE offers'[p].recipient]
        = [[p \in OfferIds |-> IF offers[p] = NoOffer THEN Nobody ELSE offers[p].recipient] EXCEPT ![o] = a]
    BY <1>3, <1>5, <1>9
  <2>3. listings[l].owner # a
    BY <1>1, <1>2 DEF Nominable
  <2>4. QED
    BY <1>1, <1>3, <1>8, <2>1, <2>2, <2>3 DEF Consent!Propose
<1>11. QED
  BY <1>10 DEF Consent!ConsentNext


\* Commits: a nomination proposes, "no account" releases, an accepted offer
\* hands over, and every other answer lapses proposals or changes nothing.
LEMMA CommitImplements ==
  ASSUME RefineInv, [Next]_vars, NEW r \in Requests, CommitStep(r)
  PROVE  Consent!ConsentNext
<1> USE DEF RefineInv, AgingInv
<1>1. UNCHANGED <<accounts, now>>
  BY CommitFrame
<1>2. CASE \E o \in OfferIds : CommitNominate(r, o)
  BY <1>2, ProposeStep
<1>3. ASSUME NEW label \in BOOLEAN, NEW l \in Listings, Live(l),
             listings' = [listings EXCEPT ![l] = Reassigned(@, Nobody, label)],
             UNCHANGED offers
      PROVE  Consent!ConsentNext
  <2> DEFINE row == Reassigned(listings[l], Nobody, label)
  <2>1. listings[l] \in Listing /\ Nobody \in Holder
    BY DEF TypeInv, TypeOK, Holder
  <2>2. row \in Listing
    BY <2>1, ReassignedTyping
  <2>3. row.owner = Nobody /\ row.phase # "new" /\ row.version = listings[l].version + 1
    BY <1>3, <2>1 DEF Reassigned, Listing, Live
  <2>4. listings' = [listings EXCEPT ![l] = row]
    BY <1>3
  <2> HIDE DEF row
  <2>5. QED
    BY <1>1, <1>3, <2>2, <2>3, <2>4, ReleaseStep
<1>4. ASSUME NEW o \in OfferIds, NEW l \in Listings, Stands(o, l),
             listings' = [listings EXCEPT ![l] = Reassigned(@, offers[o].recipient, FALSE)],
             Resolve(o, offers[o].recipient, "accepted", "")
      PROVE  Consent!ConsentNext
  <2> DEFINE row == Reassigned(listings[l], offers[o].recipient, FALSE)
  <2>1. listings[l] \in Listing /\ offers[o] \in Offer /\ offers[o].listing = l /\ listings[l].phase = "live"
    BY <1>4 DEF Stands, Acceptable, SameEntry, TypeInv, TypeOK
  <2>2. row.owner = offers[o].recipient /\ row.phase = "live"
    BY <2>1 DEF Reassigned, Listing
  <2>3. listings' = [listings EXCEPT ![l] = row]
    BY <1>4
  <2>4. /\ offers'[o].state = "accepted" /\ offers'[o].listing = l
        /\ \A p \in OfferIds \ {o} : offers'[p] = offers[p]
    BY <1>4, <2>1 DEF Resolve, Offer, TypeInv, TypeOK
  <2> HIDE DEF row
  <2>5. QED
    BY <1>1, <1>4, <2>2, <2>3, <2>4, HandOverStep
<1>5. CASE UNCHANGED listings /\ ~ \E o \in OfferIds : CommitNominate(r, o)
  <2>1. \A o \in OfferIds : offers[o] = NoOffer => offers'[o] = NoOffer
    <3>1. ASSUME NEW o \in OfferIds, offers[o] = NoOffer PROVE offers'[o] = NoOffer
      <4>1. ~Unresolved(o)
        BY <3>1 DEF Unresolved, NoOffer
      <4>2. offers'[o] = offers[o]
        BY <1>5, <4>1, OfferMoves
      <4>3. QED
        BY <3>1, <4>2
    <3>2. QED
      BY <3>1
  <2>2. QED
    BY <1>5, <2>1, LapseStep
<1>6. CASE requests[r].kind = "no-account" /\ ~ UNCHANGED listings
  BY <1>3, <1>6, CommitListings DEF Deciding
<1>7. CASE requests[r].kind # "no-account" /\ ~ UNCHANGED listings
  <2> DEFINE o == requests[r].offer
  <2>1. /\ o \in OfferIds /\ offers[o] \in Offer /\ Acceptable(o)
        /\ listings' = [listings EXCEPT ![offers[o].listing] =
                          Reassigned(@, offers[o].recipient, FALSE)]
        /\ Resolve(o, offers[o].recipient, "accepted", "")
    BY <1>7, CommitListings
  <2>2. offers[o].listing \in Listings /\ Stands(o, offers[o].listing)
    BY <2>1 DEF Stands, Offer
  <2> HIDE DEF o
  <2>3. QED
    BY <1>4, <2>1, <2>2
<1>8. QED
  BY <1>2, <1>5, <1>6, <1>7

\* Entry handlers: a submission appears, a deletion releases, and an edit, a
\* confirmation or a new status keeps the owner.
LEMMA ListingImplements ==
  ASSUME RefineInv, [Next]_vars, ListingStep
  PROVE  Consent!ConsentNext
<1> USE DEF RefineInv, AgingInv
<1>1. UNCHANGED <<accounts, offers, now>>
  BY ListingFrame
<1>2. PICK l \in Listings :
        \/ \E owner \in Holder : Submit(l, owner)
        \/ EditContent(l)
        \/ Attest(l)
        \/ \E status \in Statuses : SetStatus(l, status)
        \/ DeleteListing(l)
  BY DEF ListingStep
<1>3. listings[l] \in Listing
  BY DEF TypeInv, TypeOK
<1>4. CASE \E owner \in Holder : Submit(l, owner)
  BY <1>4, AppearStep
<1>5. CASE DeleteListing(l)
  <2> DEFINE row == [NoListing EXCEPT !.phase = "deleted"]
  <2>1. row \in Listing /\ row.owner = Nobody /\ row.phase = "deleted"
    BY OwnershipAssumption DEF NoListing, Listing, Holder, Statuses
  <2>2. Live(l) /\ listings' = [listings EXCEPT ![l] = row]
    BY <1>5 DEF DeleteListing
  <2> HIDE DEF row
  <2>3. QED
    BY <1>1, <2>1, <2>2, ReleaseStep
<1>6. CASE EditContent(l) \/ Attest(l) \/ \E status \in Statuses : SetStatus(l, status)
  <2>1. \A k \in Listings \ {l} : listings'[k] = listings[k]
    BY <1>6 DEF EditContent, Attest, SetStatus, WriteListing, TypeInv, TypeOK
  <2>2. listings'[l].owner = listings[l].owner /\ listings'[l].phase = listings[l].phase
    <3>1. CASE EditContent(l)
      BY <1>3, <3>1 DEF EditContent, WriteListing, Listing, TypeInv, TypeOK
    <3>2. CASE Attest(l)
      BY <1>3, <3>2 DEF Attest, WriteListing, Listing, TypeInv, TypeOK
    <3>3. ASSUME NEW status \in Statuses, SetStatus(l, status)
          PROVE  listings'[l].owner = listings[l].owner /\ listings'[l].phase = listings[l].phase
      BY <1>3, <3>3 DEF SetStatus, WriteListing, Listing, TypeInv, TypeOK
    <3>4. QED
      BY <1>6, <3>1, <3>2, <3>3
  <2>3. \A k \in Listings : /\ listings'[k].owner = listings[k].owner
                            /\ listings'[k].phase = "new" <=> listings[k].phase = "new"
    BY <2>1, <2>2
  <2>4. QED
    BY <1>1, <2>3, LapseStep
<1>7. QED
  BY <1>2, <1>4, <1>5, <1>6

\* Every step of the handlers, of the other actors and of the clock is a step
\* that OwnershipConsent allows.
LEMMA ConsentStep ==
  ASSUME RefineInv, [Next]_vars
  PROVE  Consent!ConsentNext
<1>1. CASE \E r \in Requests : CommitStep(r)
  BY <1>1, CommitImplements
<1>2. CASE ListingStep
  BY <1>2, ListingImplements
<1>3. CASE ~ListingStep /\ ~ \E r \in Requests : CommitStep(r)
  <2>1. UNCHANGED <<offers, listings>>
    BY <1>3, OtherSteps, RequestFrame DEF RefineInv, AgingInv, TypeInv, vars, Tick, WriteRow
  <2>2. QED
    BY <2>1, LapseStep
<1>4. QED
  BY <1>1, <1>2, <1>3

\* Nothing stands and nothing exists at the start.
LEMMA ConsentStart == Init => Consent!ConsentInit
<1> SUFFICES ASSUME Init PROVE Consent!ConsentInit
  OBVIOUS
<1>1. \A o \in OfferIds : offers[o] = NoOffer
  BY DEF Init
<1>2. \A l \in Listings : listings[l].phase = "new" /\ listings[l].owner = Nobody
  BY DEF Init, NoListing
<1>3. ASSUME NEW l \in Listings PROVE Standing(l) = Nobody
  BY <1>1 DEF Standing
<1>4. QED
  BY <1>1, <1>2, <1>3 DEF Consent!ConsentInit

\* The ownership handlers, with their sessions, locks, versions, expiry and
\* every interleaving, implement OwnershipConsent.
THEOREM HandlersImplementConsent == Spec => ImplementsConsent
<1>1. RefineInv /\ [Next]_vars => [Consent!ConsentNext]_(Consent!consentVars)
  BY ConsentStep
<1>2. Spec => []RefineInv
  BY AgingInvariant, OnePendingOffer, PTL DEF RefineInv
<1>3. QED
  BY <1>1, <1>2, ConsentStart, PTL DEF Spec, ImplementsConsent, Consent!ConsentSpec
==============================================================================
