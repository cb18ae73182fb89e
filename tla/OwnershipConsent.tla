--------------------------- MODULE OwnershipConsent ---------------------------
(***************************************************************************)
(* What the ownership handlers promise, with no sessions, locks, versions, *)
(* clocks or audit rows: an entry is handed to an account only while a     *)
(* proposal that names that account stands for the entry; at most one      *)
(* proposal stands for an entry; and a proposal that no longer stands      *)
(* never stands again.                                                     *)
(***************************************************************************)
CONSTANTS Accounts, Listings, OfferIds, Nobody

VARIABLES
  owner,      \* the maintaining account of each entry, or Nobody
  submitted,  \* entries that exist or have existed
  standing,   \* the standing proposal of each entry, or Nobody
  named       \* the account each proposal names, Nobody for an unused id

consentVars == <<owner, submitted, standing, named>>

ConsentInit ==
  /\ owner = [l \in Listings |-> Nobody]
  /\ submitted = {}
  /\ standing = [l \in Listings |-> Nobody]
  /\ named = [o \in OfferIds |-> Nobody]

\* An entry appears, with its submitter as owner or with none.
Appear(l, a) ==
  /\ l \notin submitted
  /\ submitted' = submitted \cup {l}
  /\ owner' = [owner EXCEPT ![l] = a]
  /\ UNCHANGED <<standing, named>>

\* A fresh proposal to an account that does not own the entry.
Propose(l, o, a) ==
  /\ named[o] = Nobody
  /\ standing[l] = Nobody
  /\ owner[l] # a
  /\ named' = [named EXCEPT ![o] = a]
  /\ standing' = [standing EXCEPT ![l] = o]
  /\ UNCHANGED <<owner, submitted>>

\* Any standing proposals stop standing: declined, cancelled, expired, or the
\* entry or its proposer changed.
Lapse(S) ==
  /\ standing' = [l \in Listings |-> IF l \in S THEN Nobody ELSE standing[l]]
  /\ UNCHANGED <<owner, submitted, named>>

\* The named account becomes the owner.
HandOver(l) ==
  /\ standing[l] # Nobody
  /\ owner' = [owner EXCEPT ![l] = named[standing[l]]]
  /\ standing' = [standing EXCEPT ![l] = Nobody]
  /\ UNCHANGED <<submitted, named>>

\* The entry loses its account, by a staff record or by deletion.
Release(l) ==
  /\ owner' = [owner EXCEPT ![l] = Nobody]
  /\ standing' = [standing EXCEPT ![l] = Nobody]
  /\ UNCHANGED <<submitted, named>>

ConsentNext ==
  \/ \E l \in Listings, a \in Accounts \cup {Nobody} : Appear(l, a)
  \/ \E l \in Listings, o \in OfferIds, a \in Accounts : Propose(l, o, a)
  \/ \E S \in SUBSET Listings : Lapse(S)
  \/ \E l \in Listings : HandOver(l) \/ Release(l)

ConsentSpec == ConsentInit /\ [][ConsentNext]_consentVars
===============================================================================
