--------------------------- MODULE ListingLifecycle ---------------------------
(***************************************************************************)
(* Directory entries from submission to deletion: edits, confirmation and  *)
(* review, publication, restore, service patches, imports, enrichment and  *)
(* renames in the tag catalog, with the two triggers of the listings table *)
(* (server/routes/listings.ts, db/migrations/018 and 019).                 *)
(*                                                                         *)
(* Whoever changes an entry first loads it and then sends what it made of  *)
(* it, with the version it loaded.  Each request is one transaction under  *)
(* the entry's row lock, so a request is one action; between the load and  *)
(* the request anybody else may act.  Refusals change nothing.             *)
(*                                                                         *)
(* The content of an entry is its facts and one descriptor of the tag      *)
(* catalog, which every entry carries.                                     *)
(***************************************************************************)
EXTENDS Naturals, Sequences

CONSTANTS
  Entries,      \* entry ids
  Users,        \* accounts
  Editors,      \* accounts that may act as staff
  Agent,        \* a service account's program, or the host's research file
  Facts,        \* everything an entry says apart from its descriptor
  Names,        \* names that the one tag definition has or had
  Lists,        \* lists of reference sources
  Nothing,      \* SQL NULL, the empty list, a missing field
  FirstStatus,  \* submissionPolicy()
  FirstName,    \* the name of the tag definition in the initial state
  MaxRevision   \* bound: version of an entry

Statuses == {"published", "pending_review", "archived"}

ASSUME ListingAssumption ==
  /\ Editors \subseteq Users
  /\ Agent \notin Users
  /\ Nothing \notin Entries \cup Users \cup {Agent} \cup Facts \cup Lists
  /\ FirstStatus \in Statuses
  /\ FirstName \in Names
  /\ MaxRevision \in Nat

VARIABLES
  listings,   \* rows of listings
  revisions,  \* rows of listing_revisions, by entry and in order of version
  tagName,    \* the current name of the tag definition
  views       \* the entry each client has loaded

vars == <<listings, revisions, tagName, views>>

Clients == Users \cup {Agent}

\* The confirmation or review of an entry: who gave it, and, as history, the
\* content that this user had loaded.
Badge == [by : Users, facts : Facts, tag : Names]
NoBadge == [by |-> Nothing]

\* sources is reference_sources; about is history: the facts that whoever sent
\* the list had in mind.
Row == [phase    : {"live"},
        imported : BOOLEAN,             \* source_key is the document's
        owner    : Users \cup {Nothing},
        version  : Nat,
        status   : Statuses,
        facts    : Facts,
        tag      : Names,
        sources  : Lists \cup {Nothing},
        about    : Facts,
        self     : Badge \cup {NoBadge},  \* self_confirmed_at
        review   : Badge \cup {NoBadge},  \* editor_reviewed_at
        local    : BOOLEAN]             \* locally_edited

NotYet == [phase |-> "new"]
Deleted == [phase |-> "deleted"]

\* after_data, as far as a restore reads it, and whether action is source-import.
Revision == [facts : Facts, imported : BOOLEAN]

View == [entry : Entries, version : Nat, owner : Users \cup {Nothing},
         status : Statuses, facts : Facts, tag : Names]
NoView == [entry |-> Nothing]

Live(e) == listings[e].phase = "live"

------------------------------------------------------------------------------
(* The triggers.  A definition with a suffix, as in Stamped_SameVersion, is a *)
(* wrong variant of the definition below it; no specification uses it.        *)

SameContent(old, new) == new.facts = old.facts /\ new.tag = old.tag

\* When a content change leaves the list of sources in place: enrichment, a
\* list that differs from the stored one, a change of the catalog alone.
KeepsSources_Always(old, new, action) == TRUE
KeepsSources(old, new, action) ==
  \/ SameContent(old, new)
  \/ action = "source-enrichment"
  \/ new.sources # old.sources
  \/ action = "tag-renamed" /\ new.facts = old.facts

Stamped_SameVersion(old, new, action) ==
  IF SameContent(old, new) THEN new
  ELSE [new EXCEPT !.version = @ + 1, !.self = NoBadge, !.review = NoBadge,
                   !.sources = IF KeepsSources(old, new, action) THEN @ ELSE Nothing,
                   !.about = IF KeepsSources(old, new, action) THEN @ ELSE new.facts]
\* listing_version, before every UPDATE.
Stamped(old, new, action) ==
  [new EXCEPT !.version = @ + 1,
              !.self    = IF SameContent(old, new) THEN @ ELSE NoBadge,
              !.review  = IF SameContent(old, new) THEN @ ELSE NoBadge,
              !.sources = IF KeepsSources(old, new, action) THEN @ ELSE Nothing,
              !.about   = IF KeepsSources(old, new, action) THEN @ ELSE new.facts]

\* audit_listing, after every INSERT and UPDATE.
Recorded(e, row, action) ==
  Append(revisions[e], [facts |-> row.facts, imported |-> (action = "source-import")])

Insert(e, row, action) ==
  /\ listings[e] = NotYet
  /\ listings' = [listings EXCEPT ![e] = row]
  /\ revisions' = [revisions EXCEPT ![e] = Recorded(e, row, action)]
  /\ UNCHANGED <<tagName, views>>

Update(e, new, action) ==
  /\ Live(e)
  /\ listings[e].version < MaxRevision
  /\ listings' = [listings EXCEPT ![e] = Stamped(listings[e], new, action)]
  /\ revisions' = [revisions EXCEPT ![e] = Recorded(e, new, action)]
  /\ UNCHANGED <<tagName, views>>

------------------------------------------------------------------------------
(* Loading and the checks of a request. *)

Editable(c, e) == c \in Users /\ (listings[e].owner = c \/ c \in Editors)

\* The pages, the service API's GET, or the copying of id, name and version
\* into a research file.
Open(c, e) ==
  /\ Live(e)
  /\ listings[e].status = "published" \/ Editable(c, e)
  /\ LET row == listings[e] IN
     views' = [views EXCEPT ![c] = [entry |-> e, version |-> row.version, owner |-> row.owner,
                                    status |-> row.status, facts |-> row.facts, tag |-> row.tag]]
  /\ UNCHANGED <<listings, revisions, tagName>>

SawCurrent_Anything(c, e) == Live(e) /\ views[c].entry = e
\* The version of the request is the version of the locked row.
SawCurrent(c, e) ==
  /\ Live(e) /\ views[c].entry = e
  /\ views[c].version = listings[e].version

LockedEntry(c, e) == SawCurrent(c, e) /\ Editable(c, e)

\* What a person's or a program's new content makes of the row; canonicalTags
\* replaces a former name of the descriptor by the current one.
Updated(row, facts, sources, about) ==
  [row EXCEPT !.facts = facts, !.tag = tagName, !.sources = sources, !.about = about,
              !.local = TRUE]

------------------------------------------------------------------------------
(* Requests. *)

NewRow(facts) ==
  [phase |-> "live", imported |-> FALSE, owner |-> Nothing, version |-> 1,
   status |-> FirstStatus, facts |-> facts, tag |-> tagName, sources |-> Nothing,
   about |-> facts, self |-> NoBadge, review |-> NoBadge, local |-> FALSE]

Submit(e, owner, facts) ==
  Insert(e, [NewRow(facts) EXCEPT !.owner = owner], "create")

ServiceCreate(e, facts, sources) ==
  Insert(e, [NewRow(facts) EXCEPT !.sources = sources], "service.listing.created")

Edit(c, e, facts) ==
  /\ LockedEntry(c, e)
  /\ Update(e, Updated(listings[e], facts, listings[e].sources, listings[e].about), "edit")

Attestation(c) == [by |-> c, facts |-> views[c].facts, tag |-> views[c].tag]

Confirm(c, e) ==
  /\ LockedEntry(c, e)
  /\ listings[e].owner = c
  /\ Update(e, [listings[e] EXCEPT !.self = Attestation(c), !.local = TRUE], "confirm")

Review_NotLocal(c, e) ==
  /\ LockedEntry(c, e)
  /\ c \in Editors
  /\ Update(e, [listings[e] EXCEPT !.review = Attestation(c)], "review")
Review(c, e) ==
  /\ LockedEntry(c, e)
  /\ c \in Editors
  /\ Update(e, [listings[e] EXCEPT !.review = Attestation(c), !.local = TRUE], "review")

Publish(c, e) ==
  /\ LockedEntry(c, e)
  /\ c \in Editors
  /\ Update(e, [listings[e] EXCEPT !.status = "published", !.local = TRUE], "publish")

Hide(c, e) ==
  /\ LockedEntry(c, e)
  /\ Update(e, [listings[e] EXCEPT !.status = "archived", !.local = TRUE], "hide")

\* The name is typed again, but no version is sent.
Delete(c, e) ==
  /\ Live(e) /\ Editable(c, e)
  /\ listings' = [listings EXCEPT ![e] = Deleted]
  /\ UNCHANGED <<revisions, tagName, views>>

\* The content of revision k, under today's name of its descriptor.
Restore(c, e, k) ==
  /\ LockedEntry(c, e)
  /\ c \in Editors
  /\ k \in DOMAIN revisions[e]
  /\ LET old == revisions[e][k].facts IN
     Update(e, [Updated(listings[e], old, Nothing, old) EXCEPT !.self = NoBadge,
                                                              !.review = NoBadge],
            "restore")

\* The fields a program leaves out are those of the locked row; it had the
\* row it loaded in mind.
Patched(e, facts) == IF facts = Nothing THEN listings[e].facts ELSE facts
Meant(facts) == IF facts = Nothing THEN views[Agent].facts ELSE facts

\* sent: changes has the key referenceSources.
ServicePatch(e, facts, sent, sources) ==
  /\ SawCurrent(Agent, e)
  /\ facts # Nothing \/ sent
  /\ Update(e, IF sent THEN Updated(listings[e], Patched(e, facts), sources, Meant(facts))
               ELSE Updated(listings[e], Patched(e, facts), listings[e].sources, listings[e].about),
            "service.listing.updated")

Enrich(e, facts, sources) ==
  /\ SawCurrent(Agent, e)
  /\ Update(e, Updated(listings[e], Patched(e, facts), sources, Meant(facts)), "source-enrichment")

\* The document has one item.  A first import publishes it; a later one
\* replaces a row that nobody touched, if something differs.
ImportNew(e, facts) ==
  /\ \A f \in Entries : Live(f) => ~listings[f].imported
  /\ Insert(e, [NewRow(facts) EXCEPT !.imported = TRUE, !.status = "published"], "source-import")

ImportAgain(e, facts) ==
  /\ Live(e) /\ listings[e].imported /\ ~listings[e].local
  /\ ~SameContent(listings[e], [facts |-> facts, tag |-> tagName])
  /\ Update(e, [listings[e] EXCEPT !.facts = facts, !.tag = tagName], "source-import")

\* An accepted assignment, or a record that the entry has no account.
Reassign(e, owner) ==
  /\ Live(e)
  /\ owner = Nothing \/ listings[e].owner # owner
  /\ Update(e, [listings[e] EXCEPT !.owner = owner, !.self = NoBadge, !.review = NoBadge,
                                   !.local = TRUE], "ownership")

\* The tag definition gets another name; every entry that carries it follows.
RenameTag(name) ==
  LET follows(e) == [listings[e] EXCEPT !.tag = name, !.local = TRUE] IN
  /\ name # tagName
  /\ \A e \in Entries : Live(e) => listings[e].version < MaxRevision
  /\ tagName' = name
  /\ listings' = [e \in Entries |->
       IF Live(e) THEN Stamped(listings[e], follows(e), "tag-renamed") ELSE listings[e]]
  /\ revisions' = [e \in Entries |->
       IF Live(e) THEN Recorded(e, follows(e), "tag-renamed") ELSE revisions[e]]
  /\ UNCHANGED views

------------------------------------------------------------------------------
Init ==
  /\ listings = [e \in Entries |-> NotYet]
  /\ revisions = [e \in Entries |-> <<>>]
  /\ tagName = FirstName
  /\ views = [c \in Clients |-> NoView]

UserStep(c, e) ==
  \/ \E facts \in Facts : Edit(c, e, facts)
  \/ Confirm(c, e)
  \/ Review(c, e)
  \/ Publish(c, e)
  \/ Hide(c, e)
  \/ Delete(c, e)
  \/ \E k \in 1..MaxRevision : Restore(c, e, k)

AgentStep(e) ==
  \E facts \in Facts \cup {Nothing} :
    \/ \E sources \in Lists \cup {Nothing}, sent \in BOOLEAN : ServicePatch(e, facts, sent, sources)
    \/ \E sources \in Lists : Enrich(e, facts, sources)

EntryStep(e) ==
  \/ \E owner \in Users \cup {Nothing}, facts \in Facts : Submit(e, owner, facts)
  \/ \E facts \in Facts, sources \in Lists \cup {Nothing} : ServiceCreate(e, facts, sources)
  \/ \E facts \in Facts : ImportNew(e, facts) \/ ImportAgain(e, facts)
  \/ \E owner \in Users \cup {Nothing} : Reassign(e, owner)
  \/ AgentStep(e)
  \/ \E c \in Users : UserStep(c, e)
  \/ \E c \in Clients : Open(c, e)

Next == (\E e \in Entries : EntryStep(e)) \/ \E name \in Names : RenameTag(name)

Spec == Init /\ [][Next]_vars

------------------------------------------------------------------------------
(* Properties. *)

\* Rows, revisions and loaded pages have their shapes, and a row has one
\* revision for each of its versions.
TypeOK ==
  /\ listings \in [Entries -> Row \cup {NotYet, Deleted}]
  /\ revisions \in [Entries -> Seq(Revision)]
  /\ \A e \in Entries : Live(e) => Len(revisions[e]) = listings[e].version
  /\ tagName \in Names
  /\ views \in [Clients -> View \cup {NoView}]

\* A version names one state of an entry: a client whose version is still the
\* entry's sees its content, owner and status as they are, whichever handler,
\* import, rename or transfer came between.
VersionNamesState == \A c \in Clients, e \in Entries :
  SawCurrent(c, e) => /\ views[c].facts = listings[e].facts /\ views[c].tag = listings[e].tag
                      /\ views[c].owner = listings[e].owner /\ views[c].status = listings[e].status

\* A badge stands for the content that the attester saw, and the owner's
\* confirmation is the present owner's.
BadgesVouch == \A e \in Entries : Live(e) =>
  LET row == listings[e] IN
  /\ row.self # NoBadge => SameContent(row, row.self) /\ row.self.by = row.owner
  /\ row.review # NoBadge => SameContent(row, row.review)

\* The sources that an entry shows were recorded for the facts it shows.
SourcesDescribe == \A e \in Entries :
  Live(e) /\ listings[e].sources # Nothing => listings[e].about = listings[e].facts

\* No import changes an entry after anybody else did.
ImportsComeFirst == \A e \in Entries : \A i, j \in DOMAIN revisions[e] :
  i < j /\ revisions[e][j].imported => revisions[e][i].imported

\* A source list that a program sends with its patch is the entry's list
\* afterwards.
SentSourcesKept == [][\A e \in Entries, facts \in Facts \cup {Nothing}, sources \in Lists :
  ServicePatch(e, facts, TRUE, sources) => listings'[e].sources = sources]_vars

\* An entry of the document that was deleted for good does not come back.
DeletedStaysGone == [][\A e \in Entries, facts \in Facts : ImportNew(e, facts) =>
  \A f \in Entries : listings[f] = Deleted => ~revisions[f][1].imported]_vars
===============================================================================
