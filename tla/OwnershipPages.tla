--------------------------- MODULE OwnershipPages ---------------------------
(***************************************************************************)
(* Where people decide about the owner of an entry: the dialog in which    *)
(* staff assign one (OwnershipAssignment.tsx), the inbox of the account    *)
(* that is asked (OwnershipPage.tsx), what both read of the server, and    *)
(* their requests.  OwnershipTransfer has the requests in their steps and  *)
(* with the authority of the proposer; here each is one action, and what   *)
(* matters is the age of what a page shows.                                *)
(***************************************************************************)
EXTENDS Naturals, Sequences

CONSTANTS
  People,      \* accounts
  Unowned,
  MaxOwnings,  \* bound: version of the entry
  MaxOffers    \* bound: assignments

ASSUME OwnershipPagesAssumption ==
  /\ Unowned \notin People
  /\ MaxOwnings \in Nat \ {0} /\ MaxOffers \in Nat

VARIABLES
  entry,    \* version and owner of the entry
  offers,   \* rows of ownership_transfers
  sheet,    \* the staff's dialog
  inboxes,  \* each account's page of assignments
  posts     \* the request under way of the dialog and of each inbox

assignVars == <<entry, offers, sheet, inboxes, posts>>

Owner == People \cup {Unowned}
Ids == 0..MaxOffers  \* 0 stands for no offer
\* seen is history: the owner that the staff's dialog showed.
Offer == [to : People, version : Nat, prior : Owner, seen : Owner, pending : BOOLEAN]

\* The answer of GET /ownership/listings/:id, with the pending offer's id.
Assignment == [version : Nat, owner : Owner, pending : Ids]
NoAssignment == [version |-> 0]

\* version is a property of the dialog: the entry as its page has loaded it.
Sheet == [open : BOOLEAN, version : Nat, data : Assignment \cup {NoAssignment}]

\* What a page asks for; shown is what the dialog showed then.
Post == [kind : {"propose", "no-account"}, to : Owner, shown : Assignment, version : Nat]
        \cup [kind : {"cancel", "accept", "decline"}, offer : Ids]
NoPost == [kind |-> "none"]

Desks == People \cup {Unowned}  \* Unowned stands for the dialog here

AssignTypeOK ==
  /\ entry \in [version : 1..MaxOwnings, owner : Owner]
  /\ offers \in Seq(Offer) /\ Len(offers) <= MaxOffers
  /\ sheet \in Sheet
  /\ inboxes \in [People -> [shown : SUBSET Ids, consent : SUBSET Ids]]
  /\ posts \in [Desks -> Post \cup {NoPost}]

AssignInit ==
  /\ entry = [version |-> 1, owner |-> Unowned]
  /\ offers = <<>>
  /\ sheet = [open |-> FALSE, version |-> 0, data |-> NoAssignment]
  /\ inboxes = [p \in People |-> [shown |-> {}, consent |-> {}]]
  /\ posts = [d \in Desks |-> NoPost]

------------------------------------------------------------------------------
(* What the pages read *)

Outstanding == {i \in DOMAIN offers : offers[i].pending}

\* The edit page refetches the entry; the query of the dialog has the version
\* in its key, so there is no answer for a new one yet.
LoadEntry ==
  /\ sheet' = [sheet EXCEPT !.version = entry.version,
                            !.data = IF sheet.version = entry.version THEN @ ELSE NoAssignment]
  /\ UNCHANGED <<entry, offers, inboxes, posts>>

LoadAssignment ==
  /\ sheet.open
  /\ sheet' = [sheet EXCEPT !.data = [version |-> entry.version, owner |-> entry.owner,
       pending |-> IF Outstanding = {} THEN 0 ELSE CHOOSE i \in Outstanding : TRUE]]
  /\ UNCHANGED <<entry, offers, inboxes, posts>>

\* The answers of the last minute are kept for the next opening.
OpenSheet ==
  /\ ~sheet.open /\ sheet.version # 0
  /\ sheet' = [sheet EXCEPT !.open = TRUE]
  /\ UNCHANGED <<entry, offers, inboxes, posts>>

CloseSheet ==
  /\ sheet.open /\ posts[Unowned] = NoPost
  /\ sheet' = [sheet EXCEPT !.open = FALSE]
  /\ UNCHANGED <<entry, offers, inboxes, posts>>

\* GET /ownership/inbox, at the interval and after each response; ticked boxes
\* stay ticked.
LoadInbox(p) ==
  /\ inboxes' = [inboxes EXCEPT ![p].shown = {i \in Outstanding : offers[i].to = p}]
  /\ UNCHANGED <<entry, offers, sheet, posts>>

Tick(p, i) ==
  /\ posts[p] = NoPost /\ i \in inboxes[p].shown
  /\ inboxes' = [inboxes EXCEPT ![p].consent =
       IF i \in @ THEN @ \ {i} ELSE @ \cup {i}]
  /\ UNCHANGED <<entry, offers, sheet, posts>>

TurnPage(p) ==
  /\ inboxes' = [inboxes EXCEPT ![p].consent = {}]
  /\ UNCHANGED <<entry, offers, sheet, posts>>

------------------------------------------------------------------------------
(* What the pages send *)

Asked(d, post) ==
  /\ posts[d] = NoPost
  /\ posts' = [posts EXCEPT ![d] = post]
  /\ UNCHANGED <<entry, offers, sheet, inboxes>>

\* The form is there when no offer is pending, and sends nothing when the
\* answer is about another version than the page's.
FormReady ==
  /\ sheet.open /\ sheet.data # NoAssignment
  /\ sheet.data.pending = 0 /\ sheet.data.version = sheet.version

\* The present owner is not offered among the candidates.
AskAccount(p) ==
  /\ FormReady /\ p # sheet.data.owner
  /\ Asked(Unowned, [kind |-> "propose", to |-> p, shown |-> sheet.data, version |-> sheet.version])

\* Whoever sends this has confirmed that the owner it shows loses the entry.
AskNoAccount ==
  /\ FormReady
  /\ Asked(Unowned, [kind |-> "no-account", to |-> Unowned, shown |-> sheet.data,
                     version |-> sheet.version])

AskCancel ==
  /\ sheet.open /\ sheet.data # NoAssignment /\ sheet.data.pending # 0
  /\ Asked(Unowned, [kind |-> "cancel", offer |-> sheet.data.pending])

AskAccept(p, i) ==
  /\ i \in inboxes[p].shown \cap inboxes[p].consent
  /\ Asked(p, [kind |-> "accept", offer |-> i])

AskDecline(p, i) ==
  /\ i \in inboxes[p].shown
  /\ Asked(p, [kind |-> "decline", offer |-> i])

------------------------------------------------------------------------------
(* The server.  Every answer ends in a refetch, which is an action above.  A *)
(* definition with a suffix, as in SameVersion_Any, is a wrong variant of    *)
(* the definition below it; no specification uses it.                        *)

Is(d, kind) == posts[d].kind = kind
Done(d) == posts' = [posts EXCEPT ![d] = NoPost]
Settled(i) == [offers EXCEPT ![i].pending = FALSE]

SameVersion_Any(version) == TRUE
SameVersion(version) == entry.version = version

MayAssign(post) == SameVersion(post.version) /\ Outstanding = {}

Propose ==
  LET post == posts[Unowned] IN
  /\ Is(Unowned, "propose") /\ MayAssign(post)
  /\ entry.owner # post.to /\ Len(offers) < MaxOffers
  /\ offers' = Append(offers, [to |-> post.to, version |-> entry.version,
                               prior |-> entry.owner, seen |-> post.shown.owner, pending |-> TRUE])
  /\ Done(Unowned)
  /\ UNCHANGED <<entry, sheet, inboxes>>

\* An UPDATE of the row: the trigger counts the version.
Owned(owner) ==
  /\ entry.version < MaxOwnings
  /\ entry' = [version |-> entry.version + 1, owner |-> owner]

NoAccount ==
  /\ Is(Unowned, "no-account") /\ MayAssign(posts[Unowned])
  /\ Owned(Unowned)
  /\ Done(Unowned)
  /\ UNCHANGED <<offers, sheet, inboxes>>

Unchanged(offer) == SameVersion(offer.version) /\ entry.owner = offer.prior

\* A success also unticks every box.
Accept(p) ==
  LET i == posts[p].offer IN
  /\ Is(p, "accept") /\ offers[i].pending /\ Unchanged(offers[i])
  /\ Owned(p)
  /\ offers' = Settled(i)
  /\ inboxes' = [inboxes EXCEPT ![p].consent = {}]
  /\ Done(p)
  /\ UNCHANGED sheet

\* A cancellation, a refusal by the recipient, or an acceptance that comes
\* after the entry or the proposer's authority changed; this module does not
\* follow the authority, so it may have.
Settle(d) ==
  LET i == posts[d].offer IN
  /\ posts[d].kind \in {"cancel", "accept", "decline"} /\ offers[i].pending
  /\ offers' = Settled(i)
  /\ inboxes' = IF Is(d, "decline") THEN [inboxes EXCEPT ![d].consent = {}] ELSE inboxes
  /\ Done(d)
  /\ UNCHANGED <<entry, sheet>>

Refused(d) ==
  /\ \/ posts[d].kind \in {"cancel", "accept", "decline"} /\ ~offers[posts[d].offer].pending
     \/ posts[d].kind \in {"propose", "no-account"} /\ ~MayAssign(posts[d])
  /\ Done(d)
  /\ UNCHANGED <<entry, offers, sheet, inboxes>>

\* Seven days pass, or staff cancel elsewhere.
Lapse(i) ==
  /\ i \in Outstanding
  /\ offers' = Settled(i)
  /\ UNCHANGED <<entry, sheet, inboxes, posts>>

\* An edit, or an assignment that other staff made.
ChangedElsewhere(owner) ==
  /\ Owned(owner)
  /\ UNCHANGED <<offers, sheet, inboxes, posts>>

------------------------------------------------------------------------------
InboxStep(p) ==
  \/ LoadInbox(p) \/ TurnPage(p) \/ Accept(p)
  \/ \E i \in 1..MaxOffers : Tick(p, i) \/ AskAccept(p, i) \/ AskDecline(p, i)

AssignNext ==
  \/ LoadEntry \/ LoadAssignment \/ OpenSheet \/ CloseSheet
  \/ \E p \in People : AskAccount(p) \/ InboxStep(p)
  \/ AskNoAccount \/ AskCancel \/ Propose \/ NoAccount
  \/ \E d \in Desks : Settle(d) \/ Refused(d)
  \/ \E i \in 1..MaxOffers : Lapse(i)
  \/ \E owner \in Owner : ChangedElsewhere(owner)

AssignSpec == AssignInit /\ [][AssignNext]_assignVars

------------------------------------------------------------------------------
(* Properties *)

\* Whatever changes between what a page shows and what its request does, an
\* account loses an entry only if staff saw it as the owner when they decided:
\* when they confirmed "No account", or proposed the one that then accepted.
OwnershipAsShown ==
  [][/\ NoAccount => posts[Unowned].shown.owner = entry.owner
     /\ \A p \in People : Accept(p) => offers[posts[p].offer].seen = entry.owner]_assignVars
=============================================================================
