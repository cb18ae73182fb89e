-------------------------- MODULE OwnershipTransfer --------------------------
(***************************************************************************)
(* Maintenance ownership of directory entries: staff nominate an account,  *)
(* the account accepts or declines, staff cancel, and staff may record     *)
(* that an entry has no account (server/routes/ownership.ts).              *)
(*                                                                         *)
(* A request is three steps, because three things happen at three times:   *)
(*   Begin   middleware loads the account and its session version, and the *)
(*           handler makes its unlocked reads;                             *)
(*   Lock    lockAccounts takes SHARE locks on the account rows and checks *)
(*           the session version and, for staff, the role again;           *)
(*   Commit  the entry and offer rows are locked, checked and written.     *)
(* Whatever happens between two steps of one request is another request,   *)
(* an account handler, an entry handler or the passing of time.  A request *)
(* in its "locked" phase holds its SHARE locks: nobody updates those       *)
(* account rows until it ends.                                             *)
(***************************************************************************)
EXTENDS AccountRows, Sequences

CONSTANTS
  Accounts,        \* account ids
  Listings,        \* entry ids
  OfferIds,        \* ids of ownership_transfers rows
  Requests,        \* ownership requests in flight at one time
  Nobody,          \* SQL NULL for an account id
  Lifetime,        \* an offer's seven days, in units of the clock
  PasswordNeeded,  \* staffAuthMode() is not "session"
  FirstStatus,     \* submissionPolicy()
  StaffAtStart,    \* accounts that are editors in the initial state
  MaxSession,      \* bound: session_version, for each account
  MaxRevision,     \* bound: version of an entry
  MaxClock         \* bound: the clock

Statuses == {"published", "pending_review", "archived"}

ASSUME OwnershipAssumption ==
  /\ Nobody \notin Accounts /\ Nobody \notin OfferIds
  /\ Lifetime \in Nat \ {0}
  /\ PasswordNeeded \in BOOLEAN
  /\ FirstStatus \in Statuses
  /\ StaffAtStart \subseteq Accounts
  /\ MaxSession \in [Accounts -> Nat]
  /\ MaxRevision \in Nat /\ MaxClock \in Nat

VARIABLES
  accounts,   \* rows of accounts
  listings,   \* rows of listings
  offers,     \* rows of ownership_transfers
  trail,      \* rows of ownership_audit, by offer and in order
  requests,   \* requests in flight
  now         \* clock_timestamp()

vars == <<accounts, listings, offers, trail, requests, now>>

------------------------------------------------------------------------------
Holder == Accounts \cup {Nobody}

\* phase: not submitted yet, a live row, or deleted for good.
Listing == [phase   : {"new", "live", "deleted"},
            owner   : Holder,
            label   : BOOLEAN,      \* external_owner_label is not null
            version : Nat,
            status  : Statuses,
            badges  : BOOLEAN]      \* some confirmation timestamp is set

NoListing == [phase |-> "new", owner |-> Nobody, label |-> FALSE,
              version |-> 0, status |-> FirstStatus, badges |-> FALSE]

Outcomes == {"accepted", "declined", "cancelled", "expired", "revoked"}

Offer == [state     : {"pending"} \cup Outcomes,
          listing   : Listings,
          proposer  : Accounts,
          role      : Roles,
          session   : Nat,
          recipient : Accounts,
          prior     : Holder,
          version   : Nat,
          status    : Statuses,
          expires   : Nat]

\* The id is not used yet.
NoOffer == [state |-> "none"]

AuditRow == [action : {"proposed"} \cup Outcomes,
             actor  : Holder,
             cause  : {"", "expired", "proposer_changed", "entry_changed"}]

Kinds == {"nominate", "no-account", "accept", "decline", "cancel"}

\* session is req.session.version as the middleware saw it.  An idle request
\* has only its pc; fields that a kind does not use are NULL.
Request == [pc : {"begun", "locked"}, kind : Kinds, caller : Accounts, session : Nat,
            held : SUBSET Accounts, listing : Listings, version : Nat,
            recipient : Holder, prior : Holder, offer : OfferIds \cup {Nobody}]
Idle == [pc |-> "idle"]

------------------------------------------------------------------------------
(* A definition with a suffix, as in PendingOn_IgnoresExpired, is a wrong      *)
(* variant of the definition below it; no specification uses it.               *)

Unresolved(o) == offers[o].state = "pending"
Expired(o) == offers[o].expires <= now
PendingOn_IgnoresExpired(l) ==
  {o \in OfferIds : Unresolved(o) /\ ~Expired(o) /\ offers[o].listing = l}
PendingOn(l) == {o \in OfferIds : Unresolved(o) /\ offers[o].listing = l}
Live(l) == listings[l].phase = "live"

ShareLocked_Never(a) == FALSE
\* Some request keeps a SHARE lock on the row of account a.
ShareLocked(a) == \E r \in Requests : requests[r].pc = "locked" /\ a \in requests[r].held

\* The row of an account that a handler may lock FOR UPDATE.
Writable(a) == accounts[a].exists /\ ~ShareLocked(a)

Reply(r) == requests' = [requests EXCEPT ![r] = Idle]

------------------------------------------------------------------------------
(* Time and the other handlers, each one transaction. *)

Tick == /\ now < MaxClock
        /\ now' = now + 1
        /\ UNCHANGED <<accounts, listings, offers, trail, requests>>

WriteRow(a, row) ==
  /\ Writable(a)
  /\ accounts' = [accounts EXCEPT ![a] = row]
  /\ UNCHANGED <<listings, offers, trail, requests, now>>

\* The bound does not hold back a deletion.
WriteAccount(a, row) == row.version <= MaxSession[a] /\ WriteRow(a, row)

RecoverCredentials(a) == WriteAccount(a, Recovered(accounts[a]))
RotateCredentials(a) == WriteAccount(a, Rotated(accounts[a]))
RevokeSessions(a) == WriteAccount(a, SignedOut(accounts[a]))
SavePhrase(a) == WriteAccount(a, PhraseSaved(accounts[a]))
AssignRole(a, role) == /\ MayAssign(accounts[a], role)
                       /\ WriteAccount(a, RoleAssigned(accounts[a], role))
GrantAdministrator(a) == /\ MayAdminister(accounts[a])
                         /\ WriteAccount(a, Administered(accounts[a]))

\* What DELETE /admin/users/:id counts before it deletes a row.
References(a) ==
  \/ \E l \in Listings : Live(l) /\ listings[l].owner = a
  \/ \E o \in OfferIds : /\ offers[o] # NoOffer
                         /\ a \in {offers[o].proposer, offers[o].recipient, offers[o].prior}

\* The foreign key of ownership_audit.actor_id, which the handler does not
\* count: the DELETE fails and the transaction rolls back.
AuditActor(a) == \E o \in OfferIds : \E i \in DOMAIN trail[o] : trail[o][i].actor = a

DeleteAccount(a) ==
  /\ accounts[a].role # "administrator"
  /\ ~References(a)
  /\ ~AuditActor(a)
  /\ WriteRow(a, [accounts[a] EXCEPT !.exists = FALSE])

\* An entry is submitted, with the signed-in account as owner or anonymously.
Submit(l, owner) ==
  /\ listings[l].phase = "new"
  /\ owner # Nobody => Writable(owner)
  /\ listings' = [listings EXCEPT ![l] = [NoListing EXCEPT !.phase   = "live",
                                                          !.owner   = owner,
                                                          !.version = 1]]
  /\ UNCHANGED <<accounts, offers, trail, requests, now>>

WriteListing(l, row) ==
  /\ Live(l)
  /\ listings[l].version < MaxRevision
  /\ listings' = [listings EXCEPT ![l] = [row EXCEPT !.version = listings[l].version + 1]]
  /\ UNCHANGED <<accounts, offers, trail, requests, now>>

\* Edit, restore, service patch, import, tag rename: the trigger clears badges.
EditContent(l) == WriteListing(l, [listings[l] EXCEPT !.badges = FALSE])
\* The confirm and review actions.
Attest(l) == WriteListing(l, [listings[l] EXCEPT !.badges = TRUE])
\* The publish and hide actions.
SetStatus(l, status) == /\ status \in {"published", "archived"}
                        /\ WriteListing(l, [listings[l] EXCEPT !.status = status])

DeleteListing(l) ==
  /\ Live(l)
  /\ listings' = [listings EXCEPT ![l] = [NoListing EXCEPT !.phase = "deleted"]]
  /\ UNCHANGED <<accounts, offers, trail, requests, now>>

------------------------------------------------------------------------------
(* Begin: middleware, assertStaff and the unlocked reads.  The reads are    *)
(* taken with the session: if the account changes between the two, Lock     *)
(* ends the request whichever came first.                                   *)

Begin(r, req) ==
  /\ requests[r] = Idle
  /\ accounts[req.caller].exists
  /\ req.kind \in {"nominate", "no-account", "cancel"} => Staff(accounts[req.caller])
  /\ requests' = [requests EXCEPT ![r] =
       [pc |-> "begun", kind |-> req.kind, caller |-> req.caller,
        session |-> accounts[req.caller].version, held |-> {},
        listing |-> req.listing, version |-> req.version,
        recipient |-> req.recipient, prior |-> req.prior, offer |-> req.offer]]
  /\ UNCHANGED <<accounts, listings, offers, trail, now>>

\* The nominee is found by username (a name that finds nobody ends in 404);
\* the owner is read without a lock, NULL for a missing entry.
BeginNominate(r, c, l, version, recipient) ==
  /\ accounts[recipient].exists
  /\ Begin(r, [kind |-> "nominate", caller |-> c, listing |-> l, version |-> version,
               recipient |-> recipient, offer |-> Nobody,
               prior |-> IF Live(l) THEN listings[l].owner ELSE Nobody])

BeginNoAccount(r, c, l, version) ==
  Begin(r, [kind |-> "no-account", caller |-> c, listing |-> l, version |-> version,
            recipient |-> Nobody, prior |-> Nobody, offer |-> Nobody])

\* The offer's identity (entry, proposer, recipient) never changes, so reading
\* it early reads the same; only its recipient may accept or decline.
BeginDecision(r, kind, c, o) ==
  /\ kind \in {"accept", "decline", "cancel"}
  /\ offers[o] # NoOffer
  /\ kind # "cancel" => offers[o].recipient = c
  /\ Begin(r, [kind |-> kind, caller |-> c, listing |-> offers[o].listing, version |-> 0,
               recipient |-> offers[o].recipient, prior |-> Nobody, offer |-> o])

------------------------------------------------------------------------------
(* Lock: lockAccounts, then currentStaff for the staff handlers. *)

Wanted(req) ==
  {req.caller} \cup
    CASE req.kind = "nominate"                       -> {req.recipient, req.prior}
      [] req.kind = "no-account"                     -> {}
      [] req.kind \in {"accept", "decline", "cancel"} -> {offers[req.offer].proposer}

\* The rows that SELECT ... FOR SHARE finds.
Found(req) == {a \in Wanted(req) \ {Nobody} : accounts[a].exists}

SessionCurrent(req) ==
  accounts[req.caller].exists /\ accounts[req.caller].version = req.session

MayLock_TrustsMiddleware(req) ==
  req.kind = "nominate" => req.recipient \in Found(req)
MayLock(req) ==
  /\ SessionCurrent(req)
  /\ req.kind \in {"nominate", "no-account", "cancel"} => Staff(accounts[req.caller])
  /\ req.kind = "nominate" => req.recipient \in Found(req)

\* 401, 403 or 404 when it may not: the transaction rolls back.
LockAccounts(r) ==
  /\ requests[r].pc = "begun"
  /\ IF MayLock(requests[r])
     THEN requests' = [requests EXCEPT ![r].pc = "locked", ![r].held = Found(requests[r])]
     ELSE Reply(r)
  /\ UNCHANGED <<accounts, listings, offers, trail, now>>

\* Any error before COMMIT: verification that ran out, a lost connection, a
\* stopped server.  PostgreSQL drops the locks and the writes.
Rollback(r) ==
  /\ requests[r].pc # "idle"
  /\ Reply(r)
  /\ UNCHANGED <<accounts, listings, offers, trail, now>>

------------------------------------------------------------------------------
(* Commit: entry lock, offer lock, checks, writes. *)

Entry(action, actor, cause) == [action |-> action, actor |-> actor, cause |-> cause]

\* resolve(): one terminal state and one audit row.
Resolve(o, actor, state, cause) ==
  /\ offers' = [offers EXCEPT ![o].state = state]
  /\ trail' = [trail EXCEPT ![o] = Append(@, Entry(state, actor, cause))]

\* The UPDATE of an entry's owner; the trigger gives the new version.
Reassigned_KeepsVersion(row, owner, label) ==
  [row EXCEPT !.owner = owner, !.label = label, !.badges = FALSE]
Reassigned_KeepsLabel(row, owner, label) ==
  [row EXCEPT !.owner = owner, !.label = row.label \/ label, !.badges = FALSE, !.version = @ + 1]
Reassigned(row, owner, label) ==
  [row EXCEPT !.owner = owner, !.label = label, !.badges = FALSE, !.version = @ + 1]

Fail(r) == Reply(r) /\ UNCHANGED <<accounts, listings, offers, trail, now>>

Nominable(req) ==
  LET l == req.listing IN
  /\ Live(l)
  /\ listings[l].version = req.version
  /\ listings[l].owner = req.prior
  /\ listings[l].owner # req.recipient
  /\ \A o \in PendingOn(l) : Expired(o)

\* The new offer takes o; offers of the entry that are pending have expired
\* (Nominable), and are resolved first.
CommitNominate(r, o) ==
  LET req == requests[r]
      l == req.listing
  IN /\ req.pc = "locked" /\ req.kind = "nominate"
     /\ offers[o] = NoOffer
     /\ Nominable(req)
     /\ offers' = [p \in OfferIds |->
          IF p = o
          THEN [state |-> "pending", listing |-> l, proposer |-> req.caller,
                role |-> accounts[req.caller].role, session |-> accounts[req.caller].version,
                recipient |-> req.recipient, prior |-> listings[l].owner,
                version |-> listings[l].version, status |-> listings[l].status,
                expires |-> now + Lifetime]
          ELSE IF p \in PendingOn(l) THEN [offers[p] EXCEPT !.state = "expired"]
          ELSE offers[p]]
     /\ trail' = [p \in OfferIds |->
          IF p = o THEN Append(trail[p], Entry("proposed", req.caller, ""))
          ELSE IF p \in PendingOn(l)
          THEN Append(trail[p], Entry("expired", Nobody, "expired"))
          ELSE trail[p]]
     /\ Reply(r)
     /\ UNCHANGED <<accounts, listings, now>>

RefuseNominate(r) ==
  /\ requests[r].pc = "locked" /\ requests[r].kind = "nominate"
  /\ ~Nominable(requests[r])
  /\ Fail(r)

Releasable(req) ==
  /\ Live(req.listing)
  /\ listings[req.listing].version = req.version
  /\ \A o \in PendingOn(req.listing) : Expired(o)

\* An offer that is pending but expired stays pending.
CommitNoAccount(r, label) ==
  LET req == requests[r]
      l == req.listing
  IN /\ req.pc = "locked" /\ req.kind = "no-account"
     /\ Releasable(req)
     /\ listings[l].version < MaxRevision
     /\ listings' = [listings EXCEPT ![l] = Reassigned(@, Nobody, label)]
     /\ Reply(r)
     /\ UNCHANGED <<accounts, offers, trail, now>>

RefuseNoAccount(r) ==
  /\ requests[r].pc = "locked" /\ requests[r].kind = "no-account"
  /\ ~Releasable(requests[r])
  /\ Fail(r)

\* The proposer is as it was when it made the offer, and still staff.
SameProposer(o) ==
  LET p == accounts[offers[o].proposer] IN
  /\ Staff(p)
  /\ p.role = offers[o].role
  /\ p.version = offers[o].session

\* The entry is as it was when the offer was made.
SameEntry(o) ==
  LET l == listings[offers[o].listing] IN
  /\ l.phase = "live"
  /\ l.owner = offers[o].prior
  /\ l.version = offers[o].version
  /\ l.status = offers[o].status

Deciding(r, kind) == requests[r].pc = "locked" /\ requests[r].kind = kind

\* "This assignment is already resolved."
DecideResolved(r) ==
  /\ \E kind \in {"accept", "decline", "cancel"} : Deciding(r, kind)
  /\ ~Unresolved(requests[r].offer)
  /\ Fail(r)

\* The offer has expired: recorded, whatever was asked.
DecideExpired(r) ==
  LET o == requests[r].offer IN
  /\ \E kind \in {"accept", "decline", "cancel"} : Deciding(r, kind)
  /\ Unresolved(o) /\ Expired(o)
  /\ Resolve(o, Nobody, "expired", "expired")
  /\ Reply(r)
  /\ UNCHANGED <<accounts, listings, now>>

\* Staff authority or the entry changed: acceptance revokes the offer.
AcceptRevoked(r) ==
  LET o == requests[r].offer IN
  /\ Deciding(r, "accept")
  /\ Unresolved(o) /\ ~Expired(o)
  /\ \/ ~SameProposer(o) /\ Resolve(o, Nobody, "revoked", "proposer_changed")
     \/ /\ SameProposer(o) /\ ~SameEntry(o)
        /\ Resolve(o, Nobody, "revoked", "entry_changed")
  /\ Reply(r)
  /\ UNCHANGED <<accounts, listings, now>>

Acceptable(o) == Unresolved(o) /\ ~Expired(o) /\ SameProposer(o) /\ SameEntry(o)

\* verified: recentlyVerified(passwordAuthenticatedAt).
CommitAccept(r, verified) ==
  LET o == requests[r].offer
      l == offers[o].listing
  IN /\ Deciding(r, "accept")
     /\ Acceptable(o)
     /\ PasswordNeeded => verified
     /\ listings[l].version < MaxRevision
     /\ listings' = [listings EXCEPT ![l] = Reassigned(@, requests[r].caller, FALSE)]
     /\ Resolve(o, requests[r].caller, "accepted", "")
     /\ Reply(r)
     /\ UNCHANGED <<accounts, now>>

\* 403: the offer stays pending.
AcceptUnverified(r) ==
  /\ Deciding(r, "accept")
  /\ Acceptable(requests[r].offer)
  /\ PasswordNeeded
  /\ Fail(r)

CommitDecline_NoRecheck(r) ==
  LET o == requests[r].offer IN
  /\ Deciding(r, "decline")
  /\ Resolve(o, requests[r].caller, "declined", "")
  /\ Reply(r)
  /\ UNCHANGED <<accounts, listings, now>>
CommitDecline(r) ==
  LET o == requests[r].offer IN
  /\ Deciding(r, "decline")
  /\ Unresolved(o) /\ ~Expired(o)
  /\ Resolve(o, requests[r].caller, "declined", "")
  /\ Reply(r)
  /\ UNCHANGED <<accounts, listings, now>>

CommitCancel(r) ==
  LET o == requests[r].offer IN
  /\ Deciding(r, "cancel")
  /\ Unresolved(o) /\ ~Expired(o)
  /\ Resolve(o, requests[r].caller, "cancelled", "")
  /\ Reply(r)
  /\ UNCHANGED <<accounts, listings, now>>

------------------------------------------------------------------------------
\* Every account has confirmed its recovery phrase; some are editors.
StartRow(a) == IF a \in StaffAtStart
               THEN [FreshRow EXCEPT !.role = "editor", !.saved = TRUE]
               ELSE [FreshRow EXCEPT !.saved = TRUE]

Init ==
  /\ accounts = [a \in Accounts |-> StartRow(a)]
  /\ listings = [l \in Listings |-> NoListing]
  /\ offers = [o \in OfferIds |-> NoOffer]
  /\ trail = [o \in OfferIds |-> <<>>]
  /\ requests = [r \in Requests |-> Idle]
  /\ now = 0

AccountStep ==
  \E a \in Accounts :
    \/ RecoverCredentials(a)
    \/ RotateCredentials(a)
    \/ RevokeSessions(a)
    \/ SavePhrase(a)
    \/ \E role \in Roles : AssignRole(a, role)
    \/ GrantAdministrator(a)
    \/ DeleteAccount(a)

ListingStep ==
  \E l \in Listings :
    \/ \E owner \in Holder : Submit(l, owner)
    \/ EditContent(l)
    \/ Attest(l)
    \/ \E status \in Statuses : SetStatus(l, status)
    \/ DeleteListing(l)

BeginStep(r) ==
  \E c \in Accounts :
    \/ \E l \in Listings, version \in 1..MaxRevision :
         \/ \E recipient \in Accounts : BeginNominate(r, c, l, version, recipient)
         \/ BeginNoAccount(r, c, l, version)
    \/ \E kind \in Kinds, o \in OfferIds : BeginDecision(r, kind, c, o)

CommitStep(r) ==
  \/ \E o \in OfferIds : CommitNominate(r, o)
  \/ RefuseNominate(r)
  \/ \E label \in BOOLEAN : CommitNoAccount(r, label)
  \/ RefuseNoAccount(r)
  \/ DecideResolved(r)
  \/ DecideExpired(r)
  \/ AcceptRevoked(r)
  \/ \E verified \in BOOLEAN : CommitAccept(r, verified)
  \/ AcceptUnverified(r)
  \/ CommitDecline(r)
  \/ CommitCancel(r)

RequestStep(r) == BeginStep(r) \/ LockAccounts(r) \/ Rollback(r) \/ CommitStep(r)

Next == Tick \/ AccountStep \/ ListingStep \/ \E r \in Requests : RequestStep(r)

Spec == Init /\ [][Next]_vars

------------------------------------------------------------------------------
(* Properties. *)

\* Every table holds rows of its shape.
TypeOK ==
  /\ accounts \in [Accounts -> AccountRow]
  /\ listings \in [Listings -> Listing]
  /\ offers \in [OfferIds -> Offer \cup {NoOffer}]
  /\ trail \in [OfferIds -> Seq(AuditRow)]
  /\ requests \in [Requests -> Request \cup {Idle}]
  /\ now \in Nat

\* An entry has at most one pending offer, so the unique index
\* ownership_one_pending never turns a checked nomination into an error.
OnePending == \A o, p \in OfferIds :
  /\ Unresolved(o) /\ Unresolved(p)
  /\ offers[o].listing = offers[p].listing
  => o = p

\* The private audit of an offer is its proposal by the proposer, and exactly
\* one outcome once it is resolved: by the recipient if it is accepted or
\* declined, by an account if cancelled, by nobody if expired or revoked.
TrailTellsOutcome == \A o \in OfferIds :
  LET opening == Entry("proposed", offers[o].proposer, "") IN
  IF offers[o] = NoOffer THEN trail[o] = <<>>
  ELSE IF Unresolved(o) THEN trail[o] = <<opening>>
  ELSE \E actor \in Holder, cause \in {"", "expired", "proposer_changed", "entry_changed"} :
         /\ trail[o] = <<opening, Entry(offers[o].state, actor, cause)>>
         /\ offers[o].state \in {"accepted", "declined"} => actor = offers[o].recipient
         /\ offers[o].state = "cancelled" => actor # Nobody
         /\ offers[o].state \in {"expired", "revoked"} => actor = Nobody

\* Every account a live entry or an offer names still exists: the counts and
\* the row lock of the account deletion, and the SHARE locks of a nomination
\* in flight, keep every foreign key satisfied.
NoDanglingAccount ==
  /\ \A l \in Listings : listings[l].owner # Nobody => accounts[listings[l].owner].exists
  /\ \A o \in OfferIds : offers[o] # NoOffer =>
       \A a \in {offers[o].proposer, offers[o].recipient, offers[o].prior} \ {Nobody} :
         accounts[a].exists

\* A private manager label never coexists with an owner, and no offer names
\* the owner it was made against: the CHECK constraints never fire.
ChecksHold ==
  /\ \A l \in Listings : listings[l].label => listings[l].owner = Nobody
  /\ \A o \in OfferIds : offers[o] # NoOffer => offers[o].recipient # offers[o].prior

\* One revision of an entry is handed over at most once: no two accepted offers
\* were made against the same version, and the entry has moved past each.
AcceptedOncePerVersion == \A o \in OfferIds :
  offers[o].state = "accepted" =>
    /\ \A p \in OfferIds \ {o} :
         /\ offers[p].state = "accepted"
         /\ offers[p].listing = offers[o].listing
         => offers[p].version # offers[o].version
    /\ Live(offers[o].listing) => offers[o].version < listings[offers[o].listing].version

\* An offer that could not be accepted at one time can never be accepted later:
\* no restored role, saved phrase, status or owner brings it back.
NoRevival == [][\A o \in OfferIds : Unresolved(o) /\ ~Acceptable(o) => ~Acceptable(o)']_vars

\* What lockAccounts and currentStaff found and checked is still so when the
\* request commits: the rows it wanted, its session, its staff authority and
\* the nominee's existence.
LocksCarry == \A r \in Requests : requests[r].pc = "locked" =>
  MayLock(requests[r]) /\ requests[r].held = Found(requests[r])

\* The request that ends in this step held the locks of a staff account that
\* is staff, under the same session, at the moment the step commits.
EndsAsStaff(kind) == \E r \in Requests :
  /\ Deciding(r, kind) /\ requests'[r] = Idle
  /\ SessionCurrent(requests[r]) /\ Staff(accounts[requests[r].caller])

\* Offers appear, offers are cancelled and a live entry loses its owner only
\* by authority that is current at the commit, although roles, suspension and
\* the saved phrase were checked earlier: the SHARE locks carry the check over.
StaffAtCommit == [][
  /\ \A o \in OfferIds :
       /\ offers[o] = NoOffer /\ offers'[o] # NoOffer => EndsAsStaff("nominate")
       /\ offers[o] # NoOffer /\ offers[o].state # "cancelled" /\ offers'[o].state = "cancelled"
          => EndsAsStaff("cancel")
  /\ \A l \in Listings :
       Live(l) /\ Live(l)' /\ listings[l].owner # Nobody /\ listings'[l].owner = Nobody
       => EndsAsStaff("no-account")]_vars

\* The handlers keep the promise of OwnershipConsent: what stands for an entry
\* is its offer that could be accepted now.
Standing(l) ==
  LET S == {o \in OfferIds : offers[o] # NoOffer /\ Acceptable(o) /\ offers[o].listing = l}
  IN IF S = {} THEN Nobody ELSE CHOOSE o \in S : TRUE

Consent == INSTANCE OwnershipConsent WITH
  owner     <- [l \in Listings |-> listings[l].owner],
  submitted <- {l \in Listings : listings[l].phase # "new"},
  standing  <- [l \in Listings |-> Standing(l)],
  named     <- [o \in OfferIds |-> IF offers[o] = NoOffer THEN Nobody ELSE offers[o].recipient]

ImplementsConsent == Consent!ConsentSpec
==============================================================================
