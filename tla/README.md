# Porcupine Directory in TLA+

A formal model of Porcupine Directory: a public directory of community entries
with accounts, staff, maintained entries, a tag catalog, a service API and two
polled sources, on Node and PostgreSQL, and of the pages of its client that
change something. The modules are translated from the code under `server/`,
`db/`, `shared/` and `src/`. TLC checks small instances; TLAPS proves the listed
theorems for every value of the constants.

## The system

| component | state | operations | what makes it correct |
|---|---|---|---|
| ownership transfers (`server/routes/ownership.ts`) | `ownership_transfers`, `ownership_audit`, owner and version of `listings` | nominate, accept, decline, cancel, record "no account", expire | an entry changes hands only from the owner an offer named to the account it named; one pending offer; each offer has one outcome; staff authority is current at the commit |
| accounts, sessions, authority (`security.ts`, `routes/auth.ts`, `credentials.ts`, `routes/accounts.ts`, `admin-cli.ts`, `setup-account.ts`) | `accounts`, `sessions`, `account_setup` | sign-up, activate, login, reauthenticate, recover, rotate, revoke, confirm phrase, role, rename, delete | a usable session was earned with the current password; suspension ends only by an administrator; the phrase on the screen works |
| e-mail recovery (`routes/email.ts`) | `recovery_emails` | set-up, verify, request, recover, remove | only a code that was mailed to the verified address recovers, once; a recovery ends every access from before it |
| passkeys (`routes/auth.ts`) | `passkeys`, `auth_challenges` | register, sign in | none survives a recovery. Off by default |
| listings (`routes/listings.ts`, trigger of migration 019) | `listings`, `listing_revisions`, `listing_submission_idempotency` | submit, edit, confirm, review, publish, hide, delete, restore, service patch | optimistic versions, badges and source lists describe the content they are shown with; a retried submission is one entry |
| entry images (`routes/listings.ts`, `service-listings.ts`) | `entry_images` | upload, update, remove | twelve active images, one card image; a save that reports success sent what the page showed when the entry was written |
| moderation (`routes/moderation.ts`) | `moderation_reports` and their audit | report, resolve | one decision, on the entry and the report that were read |
| tag catalog (`tags.ts`, `routes/tags.ts`) | `tag_definitions`, `tag_names`, `tag_suggestions`, `account_saved_tags` | create, rename, merge, retire, suggest, review, follow | every name leads to one live tag; merges form no chains; entries carry present names |
| service API (`service-listings.ts`, `service-accounts.ts`) | `service_accounts`, `service_request_dedup` | create, patch, images, by token and idempotency key | a retried write happens once; a revoked token stops |
| event synchronisation (`event-sync.ts`), publications (`publications.ts`) | `source_syncs`, `events`, `publication_feeds`, session advisory locks | tick, claim, fetch, save, record failure | one runner, kept snapshot on failure, every source is polled again |
| import and enrichment | `listings` | import, enrich | a local edit is never overwritten |
| rate limits | `rate_buckets` | count | at most the maximum per window |
| browser client (`src/pages`, `src/components`, `src/state`) | what a page has loaded, a form, a dialog, requests under way, local choices | load, refetch, fill, preview, confirm, upload, sign in and out | what a page sends is what it showed, and what it decides concerns what it showed; nothing of one account reaches another |
| migrations, pool, deployment scripts, previews, Lightning addresses | | | not modelled: sequential, or network input and output and parsing |

Components meet in the database. A page decides on answers of different age,
which a refetch replaces at any moment, and one press of a button may be many
requests. A handler is middleware that reads the session
and the account, then a transaction that locks rows and checks again; sessions
are rows that name a `session_version`; the version column of `listings` is
bumped by a trigger whatever handler writes; the tag catalog, edits and imports
share advisory lock 4350010. What is hard is therefore what happens between
reads and locks, locks in different orders, time that passes before somebody
looks, retried and lost replies, and long sequences of legal requests.
`PROJECT.json` lists these hazards at their lines with the properties that
cover them.

## Modules

| module | models | state and actions |
|---|---|---|
| `AccountRows` | one row of `accounts` | no state: what each UPDATE of the server does to a row (`Recovered`, `Rotated`, `SignedOut`, `PhraseSaved`, `RoleAssigned`, `Administered`) and who is `Staff` |
| `OwnershipTransfer` | `routes/ownership.ts` with everything that interferes with it | rows of accounts, listings, offers and audit, requests in flight, the clock. A request is `Begin*` (middleware and unlocked reads), `LockAccounts` (SHARE locks, session and role rechecked), and one of the `Commit*`, `Refuse*`, `Decide*`, `Accept*` actions (entry lock, checks, writes, COMMIT), or `Rollback` |
| `OwnershipConsent` | what those handlers promise | owner, standing proposal and named account; `Appear`, `Propose`, `Lapse`, `HandOver`, `Release` |
| `AccountSecurity` | `security.ts`, `routes/auth.ts`, `routes/accounts.ts` for one account | its row, generations of password and phrase, the invitation, one session and one screen for each device, requests in flight (`loaded`, then the transaction, then `opening` until `beginSession`) |
| `ListingLifecycle` | `routes/listings.ts`, the patch of `service-listings.ts`, `directory-import.ts`, `server/enrichment.ts`, renames in `tags.ts`, the triggers of migrations 018 and 019 | rows of `listings` and `listing_revisions`, the current name of the tag, the entry each client has loaded. Clients load, then send what they made of it with the version they loaded |
| `SessionRuns` | what `syncEventSource` and `syncPublications` share | who holds the session lock, whether that session has lost its client, the step and connection of each run; `Crash`, `Disconnect`, `Reap`, `Restart`, `TryLock`, fetches, `Abandon`, `Release` |
| `EventSync` | `event-sync.ts` on top of `SessionRuns` | `source_syncs`, `events`, the first covered day; `Claim`, `NotDue`, `Fetch`, `Save`, `RecordFailure` |
| `PublicationSync` | `publications.ts` on top of `SessionRuns` | the row of `publication_feeds` and the same actions in that file's order |
| `PolledFeed` | what both pollers promise | how many readings were made and which one is shown |
| `ServiceWrites` | `service-accounts.ts`, `service-token-cli.ts`, the protocol of `idempotent` in `routes/service-listings.ts` | `service_accounts`, `service_request_dedup` with rows that are inserted and not committed, the version of an entry, requests in flight |
| `OwnershipPages` | `OwnershipAssignment.tsx`, `OwnershipPage.tsx` and what they read | version and owner of an entry, offers, the staff's dialog, inboxes, the request under way of each; loads, ticks, confirmations, and each request as one action |
| `LostAccess` | `routes/email.ts`, the passkeys of `routes/auth.ts`, `EmailSettings.tsx` | version of the credentials, the row of `recovery_emails`, messages, passkeys, sessions and sign-ins between transaction and session |
| `EntryPages` | the edit, history and activity pages, the dialogs for reasons and deletion, `lockedEntry` | revisions, the version each query of a tab returned last, what each dialog waits for, requests on their way |
| `EntryWizard` | `EntryCreationWizard.tsx` | answers, the step, and what the form holds of each step |
| `EntrySubmission` | `SubmitPage.tsx`, `POST /listings` with its keys, uploads | the page with its refs, requests that may arrive late or never, `listing_submission_idempotency`, entries with their pictures |
| `EntryImages` | `EditListingPage.tsx`, `EntryImages.tsx`, `ListingForm.tsx`, the image handlers | rows of `entry_images`; whether the page is there, with the version it loaded, its drafts, removals and pending files; the save, which outlives its page, from the dialog for a reason to the last image request |
| `Moderation` | `routes/moderation.ts`, `ReviewQueuePage.tsx`, `ReportIssue.tsx` | entry, reports, audit, staff rows, the queue page of each editor with its notes, calls between their three locks |
| `TagCatalog` | `tags.ts`, `routes/tags.ts`, `TagsPage.tsx` | definitions, names, tags of entries, suggestions, each editor's page |
| `NameRedirects` | what the catalog promises about names | `Appear` and `Join` of names that lead to one tag |
| `SavedTags`, `Visitors` | `SavedTagsProvider.tsx`, the saved tags of `routes/accounts.ts` | the browser's cookie, rows of `account_saved_tags`, one tab with its local choices, cached lists and running merges |
| `MCOwnership`, `MCSecurity`, `MCListing` | small instances for TLC | symmetry sets, bounds of each account's version |
| `MCCatalog`, `MCDesk`, `MCBrowser`, `MCSync` | small instances of several components each | `running` (or `reader`) names the component that moves; a calendar of two events |
| `OwnershipProofs`, `AccountProofs`, `ListingProofs`, `TagProofs` | theorems about `OwnershipTransfer`, `AccountSecurity`, `ListingLifecycle`, `TagCatalog` | |
| `SyncProofs`, `DeskProofs`, `BrowserProofs` | theorems about the components of `MCSync`, `MCDesk`, `MCBrowser` | |
| `PagesProofs` | theorems about `EntryPages` and `OwnershipPages` | |

`OwnershipTransfer` and `AccountSecurity` are two views of the accounts table
that share `AccountRows`: the first has several accounts whose rows change in
one step each, the second has one account and every step of its requests. In the
same way `OwnershipTransfer` sees an entry as a version, a status, an owner and
one badge, `ListingLifecycle` as its content, and `ServiceWrites` as a version.
`OwnershipPages` and `EntryPages` look at the same handlers from the page: a
request is one action there, and the age of what the page shows is what matters.

`MCCatalog` has `ListingLifecycle`, `TagCatalog`, `EntryPages` and
`OwnershipPages`; `MCDesk` has `Moderation`, `ServiceWrites`, `LostAccess` and
`SavedTags`; `MCBrowser` has `EntryWizard`, `EntrySubmission` and `EntryImages`;
`MCSync` has `EventSync` and `PublicationSync`. The components of such a module
share no variable, so interleaving them shows nothing: a behaviour runs one of
them, chosen at its start, and a run explores the sum of their states and not
the product. Constants with the same role get the same values.

## Abstractions

In general. Strings, times of day and identifiers are members of small sets. A
transaction that locks the rows it reads before it writes them is one step,
because nobody sees what it has written before COMMIT; a read without a lock is
a step of its own. Reads that change nothing, and refusals, are left out. What
a page may have lost or not heard yet is an argument of the action (`told`). A
definition with a suffix (`Current_Always`) is a wrong variant of the definition
below it: TLC must find the property broken when it replaces that definition,
which shows that the property depends on the line of code.

Ownership. A request in its locked phase keeps its SHARE locks, and actions that
update one of those rows wait. The clock counts units of an offer's lifetime.
Only the `session` and `password_recent` staff modes are modelled.

Accounts. A password or a phrase is a generation, and a hash matches when
generations are equal. The age of a session is one of: within 5 minutes, within
15, older. The administrators who act on the account are always authorised. The
codes of an invitation and of e-mail recovery are always right when they are
used; whether the address is verified is the constant `EmailRecovery`. Their
life is in `LostAccess`, where credentials are a version, a code is the number
of its message, and a code that expired is one that nobody enters. Whether the
answer of an authenticator is genuine is the WebAuthn library's decision.

Entries. The content of an entry is its facts and one descriptor of the tag
catalog, which all entries carry. `Agent` is a service account's program or the
host's research file, both of which load only published entries; the document
and the research file hold one item each. A badge records the content its author
had loaded, and `about` the facts that the sender of a list of sources had in
mind: both are history, compared with the row by the properties and read by no
action. Images, sessions and idempotency keys belong to other components.

Pages. `EntryPages` keeps the name of an entry, because the deletion dialog
compares it, and tells the rest of its content apart by the version. A tab has
one request under way; in the run all tabs share one request id. The server may
execute a request after the tab gave up waiting (`GiveUp`). `OwnershipPages`
leaves the authority of staff to `OwnershipTransfer`: a request that is refused
for want of it is one that is lost. Accounts are chosen by identity and not by
a username that may pass to another account.
Where a form offers only some of what its handler takes, the disjuncts of the
next-state relation are grouped by page: `SignIn` and `Security` (accounts),
`EmailSettings`, `RecoverForm` and `PasskeyPrompts` (lost access), and
`ScopesToChoose` for the form that creates a service account.

Submission and images. A field of the wizard is blank, good or bad for
`submissionSchema`. `next()` asks for the name, the summary and the links only:
other fields may reach the last step invalid, those of questions that a later
answer hid as well. Those are sent unseen when they are valid; when they are not,
Publish does nothing, and shows no message on that step. Submitting the form with
the Enter key is left out.

On the edit page a picture has an id that its row will get, and its description
is long enough for a card image or not; the other fields are changed or not
changed, and the version loaded is the entry's or not. A save is the PUT, then
`imageEditorRef.current?.saveChanges` (`EditListingPage.tsx:88`) of the image editor
that is mounted when the answer arrives, then request after request. Before that
answer the page may be left, may show only an error, or may be refetched, which
mounts the form anew when the version changed (`:219`). The choices made before are
then gone: no image request is sent, and the save succeeds. After an image request
that failed the page holds its drafts with a version that no PUT accepts; the
refetch that brings the new version mounts the form anew and drops them. A picture
whose answer was lost stays pending on the page although its row exists. What is
changed on the page while image requests run reaches none of them and is left out.

Moderation. Resolved and dismissed are one status, `closed`, and a note is the
moment at which it was typed: the key of the form it was typed into.

Tags. A request of the catalog is one action, because each takes advisory lock
4350010 first. A version says whether a definition changed since a page showed
it. Names differ by more than capitals, and a rejected suggestion frees its
place. In `SavedTags` a merge has the tags that were not answered yet, and a
request acts for the cookie's account, which other tabs change.

Pollers. All pages of one fetch are one reading, and the transaction that saves
it is one step. An occurrence's key fixes its day. A run whose connection broke
does not notice during a fetch: it may still be reading while another run holds
the lock, but its next query throws, so it cannot save. A process that ends
takes each of its runs with it, which is a `Crash` of each. The connection that
`publications.ts` fails to return when the unlocking query throws is outside the
model.

Service writes. A transaction that has inserted a key and not committed makes
others with that key wait (the primary key) and holds FOR KEY SHARE on the
account (the foreign key), which deletion and rotation wait for and revocation
does not. A reply that is lost is `End` of an answered request. What an edit
does to the entry, apart from its version, is in `ListingLifecycle`.

## Runs

| run | instance | checks |
|---|---|---|
| `OwnershipEntry` | an editor and a user, one entry, two offers, one request; three revisions, one clock unit (an offer's lifetime) | `OnePending`, `ChecksHold`, `AcceptedOncePerVersion` |
| `OwnershipRace` | two requests at once, one offer, one update of the editor's row and none of the user's, deletion of either, two revisions | `TrailTellsOutcome`, `NoDanglingAccount`, `NoRevival`, `StaffAtCommit`, `ImplementsConsent` |
| `Security` | an account that signs up or was invited, two devices, two requests in flight, two generations of secrets, three versions | `SessionsProvePassword`, `ShownPhraseWorks`, `StaffActsCurrent`, `SuspensionLasts` |
| `SecurityRecipient` | two devices, four versions, no e-mail recovery | `RecipientsSaved`, violated: see below |
| `Catalog`, entries | one entry, an owner, an editor, a program; four revisions, two contents, two names of the tag, two lists of sources | `VersionNamesState`, `BadgesVouch`, `SourcesDescribe`, `ImportsComeFirst` |
| `Catalog`, tags | three names, one of a platform, three ids, one entry with two tags, one suggestion, one editor's page | `NamesResolve`, `EntriesCurrent`, `LinksKeep`, `ImplementsRedirects` |
| `Catalog`, pages | one tab, one request, four revisions, two names | `DecidedOnShown` |
| `Catalog`, owners | two accounts, three versions of the entry, two offers | `OwnershipAsShown` |
| `ListingSources` | as the entries of `Catalog` | `SentSourcesKept`, violated |
| `ListingReturns` | two entries, two revisions, submissions published at once | `DeletedStaysGone`, violated |
| `StaleSaves` | one tab, two requests, three revisions | `StaleSavesRefused`, violated |
| `Sync` | two replicas and a forced caller; two events with an occurrence each, coverage that moves by a day, two readings, one interruption; or the publisher's feed with three replicas | `CoverageHonest`, `ImplementsPolledFeed`, `PublicationsAdvance`, `PollersRetry` |
| `Browser`, wizard | a catalog of two tags | `TypesOK`, `ReviewTellsTruth` |
| `Browser`, submission | two accounts, two forms, one picture, two entries, two keys, one change of form or account, two uploads | `TypesOK`, `SubmittedOnce`, `SubmittedAsShown` |
| `Browser`, images | three images, two active at most, two while the page is open or saves, an editor of all entries, who owns this one or not | `TypesOK`, `OneCard`, `SavedAsShown` |
| `Desk`, moderation | two editors, one report, two calls, two versions of the entry, one change of authority | `TypesOK`, `DecidedAsRead` |
| `Desk`, services | two accounts of one name, three tokens, one key of each account, two requests, three versions of the entry | `TypesOK`, `OncePerKey`, `AnswersAreTrue`, `TokensStayDead` |
| `Desk`, access | two addresses, one passkey, three codes, two versions of the credentials | `TypesOK`, `RecoveryEndsAccess`, `OnlyVerifiedRecovers` |
| `Desk`, tags | two accounts, two tags of which an account may follow one, two merges at a time | `TypesOK`, `KeptUntilSaved` |
| `SavedChoices` | one account, two tags, two merges at a time | `ChoicesPreserved`, violated |

The type invariants of the remaining components are theorems as well
(`TypeCorrect`, `SecurityTypes`, `ListingTypes`, `CatalogTypes`, `SyncTypes`,
`PagesTypesKept`, `AssignTypesKept`), but for that of `PublicationSync`, which
is part of the invariant behind `TitlesAdvance`.

Bounds. Every counter the code lets grow is bounded by a constant that guards
the action that grows it: `MaxSession` (`session_version`), `MaxRevision` and
`MaxVersion` (version of an entry), `MaxClock`, `MaxSecret`, `MaxFetches`,
`MaxInterruptions`, `MaxDay`, `MaxToken`, `MaxRevisions`, `MaxOwnings`,
`MaxOffers`, `MaxEntryVersion`, `MaxChanges`, `MaxCodes`, `MaxCredentials`,
`MaxMerges`, `MaxKeys`, `MaxRounds`, `MaxUploads`. `MaxRows` bounds the pictures
there are while the edit page is open or its save runs. `MaxActive`, `MaxTags`,
`MaxSaved` and `MaxPasskeys` are limits of the code itself, made small so that
they are reached. Two of anything is where interference
starts: two offers give an offer that expired and its successor, two requests
give every pair of handlers in flight, two devices give a lost screen, one
change of the staff member's row gives a stale check, three revisions give an
entry that moved and moved back, and four give one that was loaded, changed
twice by others and written by whoever loaded it. For the pollers two readings
are an old and a new one, an interruption leaves a run for another to take
over, and a day's move of the coverage leaves an occurrence behind. When the
readings are used up, fetches can still fail, so polling goes on. Two requests
with one key are a write and its repetition, or a key that is used for something
else, and three tokens an account that was rotated and another of its name.
Three images under a limit of two are one too many (the third is made while the
page is closed, or refused); two tags under a limit of
one refuse part of a merge; three names of tags make a chain of two renames or
merges; three codes are one that was replaced, the one that replaced it, and one
for another purpose. One tab suffices for pages, because what other people do is
`ChangeElsewhere`, which needs no page.

Deadlock is checked in `Sync`: the pollers never stop. It is not checked in the
other runs: every bounded counter may be used up, every request may be refused,
an account or an entry may be deleted, and a wizard ends when it was saved, so a
state without a next step is a normal end of an instance.

## Fairness

Liveness is stated of the pollers only, under `Fairness` of `MCSync`, which asks
of the running poller what `FairSpec` asks in its own module:

- weak fairness of `Hour`: time passes;
- of `TryLock` and `Restart` for scheduled runners: each replica's timer fires
  every minute (`event-sync.ts:198`, `publications.ts:124`), and the container
  has `restart: unless-stopped` (`compose.yaml`);
- of the steps of a run: a query is answered or throws, and a fetch ends within
  its budget, by success or failure (180 seconds for events, 15 for publications);
- of `Reap`: PostgreSQL ends the session of a lost client.

Nothing is assumed about the command line and the administrator's button, about
whether a fetch succeeds, or about interruptions, which `MaxInterruptions`
bounds: a process that is killed before every claim polls nothing. The other
handlers promise nothing that must happen. An offer that nobody touches, for
example, stays pending after it expired, which `CommitNoAccount` shows and the
next nomination clears.

## Where code and documents differ

`SecurityRecipient` disagrees with `docs/accounts-and-trust.md:50`, which says of
editors that recipients must save their recovery phrase. The confirmation of a
phrase (`routes/auth.ts:176`) is an UPDATE by account id alone: it does not
recheck the session under a lock and does not say which phrase it confirms. In
the trace a confirmation passes the middleware, the account is recovered from a
second device and gets a new phrase with `recovery_saved=false`, the UPDATE
then sets it to true, and the grant of the editor role accepts the account
although nobody confirmed the phrase that works.

`ListingSources` disagrees with migration 019, whose first line promises to
preserve references supplied by an explicit source-backed update. Its trigger
takes a list that equals the stored one for a list that was not supplied. A
program that changes a fact and sends the same list again, because it still
supports the entry, has it replaced by the empty list.

`ListingReturns` disagrees with the dialog of a deletion
(`components/DeleteListingDialog.tsx:106`), which says that the entry is
permanently removed. The row that was deleted was also what kept the import
away; the next import of the document finds no previous row and publishes the
item again.

`StaleSaves` disagrees with `docs/accounts-and-trust.md:78`, which says that
optimistic version checks reject stale edits. The edit page takes the content
from the form and the version from the query when the request starts
(`EditListingPage.tsx:83`), and asks an editor who does not own the entry for a
reason in between. A refetch under that dialog, as after a reconnect, gives the
request a version whose content the form does not have. `DecidedOnShown` is what
does hold: without the dialog for reasons, and for restores and deletions, the
request carries the version of what was shown.

`SavedChoices` disagrees with the comment of the effect that merges locally
chosen tags into an account (`SavedTagsProvider.tsx:71`), "preserving every
choice". The effect asks whether the account is still the same, not whether the
merge is: after signing out and in again the first of two merges clears the
choices of both. `KeptUntilSaved` is what does hold, with one merge at a time.

## Proofs

Every safety property and action property that a passing run checks is also a
theorem, as are both refinements of the pollers, that of the ownership handlers
and that of the tag catalog. TLC shows a property on one small instance, the
theorem for every value of the constants that the assumptions of its component
allow.

The assumptions are the ones named in the modules. They say that bounds are
numbers, that stand-ins such as `Nobody`, `None`, `Nothing` and `Unowned` are not
among the things they stand in for, and that initial values are of their kind. A
bound of a counter that starts at 1 is at least 1 (`MaxVersion`,
`MaxEntryVersion`, `MaxCredentials`, `MaxRevisions`, `MaxOwnings`). Beyond that,
`CatalogAssumption` has `MaxTags` at least 1 (it is 12 in `shared/contracts.ts:84`) and
finitely many names of tags, because entries count their tags; `NoneAssumption`
of `ServiceWrites` says that no request or answer is `None`. TLC evaluates them
all on the values of the runs.

The theorems speak of the component's own specification. Where components run
beside each other in an MC module the types are proved of the composition
(`DeskTypes`, `BrowserTypes`), and the titles of the feed (`TitlesAdvance`). Each
proof has the same outline: an inductive invariant that holds at the start, one
lemma for each group of actions that keeps it, and one that draws the property
from it or from it and a step. What the invariant adds to the property is the
interesting part:

1. `OwnershipProofs`, types and audit. `TypeCorrect`: types, together with
   `RequestsLinked` (a request that decides an offer names a row that exists),
   because locks are taken on the offer's proposer. `OnePendingOffer`: preserved
   because `CommitNominate` finds every pending offer of the entry expired and
   resolves it in the same step. `AuditTellsOutcome`: by induction on steps, with
   the typing; a step either leaves the audit of an offer alone or appends what
   the offer's new state says.
2. `OwnershipProofs`, authority. `LocksCarryThrough`: no step changes a row that a
   locked request holds (every account write is guarded by `Writable`), hence
   what `MayLock` found stays true; `StaffAuthorityAtCommit` follows for the
   three staff handlers.
3. `OwnershipProofs`, ageing. `AgingInvariant` is the strengthening the rest needs:
   session and entry versions only grow and every offer refers to versions not
   above the current ones, so a mismatch is for ever (`LostOfferStaysLost`), an
   accepted offer's version is in the past (`AcceptedOnce`), and offers differ
   from their owners (`ChecksNeverFire`). `NamedAccountsExist` needs `LocksCarry`:
   a nominee who was read early exists at the INSERT only because of the SHARE lock.
4. `OwnershipProofs`, refinement. `HandlersImplementConsent`: the standing proposal
   of an entry is the offer that could be accepted now, unique by `OnePending`; each
   action maps to `Propose`, `HandOver`, `Release`, `Appear` or `Lapse`, and a
   change of an account or of the clock is a `Lapse` because nothing revives.
5. `AccountProofs`. The properties speak of what is usable now; the invariant
   has to speak of everything that might be. Each session, each request and each
   screen carries a version, and either the row's version has overtaken it or it
   carries the present generation of the secrets (`GoodSession`, `GoodRequest`,
   `GoodScreen`, with `GoodRow` about the row that does not exist yet). A step
   that changes a secret raises the version, so the first alternative takes over
   for all that was there before. `SessionsAreEarned`, `PhrasesWork`,
   `StaffHaveAuthority` and `SuspensionsLast` follow.
6. `ListingProofs`. The invariant `Sound` is stated of one entry. Lemmas say
   what the triggers make of a proper UPDATE (one that raises the version by one
   and appends one revision), and one step for each handler shows that its UPDATE
   is proper and that the badges and sources of the new row are those of its
   content. Loaded pages need it too: a page of the current version shows the
   current row (`VersionsNameStates`), which is why a confirmation that is sent
   with that version stands for what its author saw (`BadgesAreTrue`).
7. `TagProofs`. The invariant is the types, the two properties, and that an
   approved suggestion became a definition. What carries the proof is one relation
   between the catalog before and after a step (`Follows`): for one definition and
   its successor, every name, every id and every tag of an entry that led to the
   first now leads to the second, and the rest stays. Each action satisfies it,
   renames and creations with a definition that succeeds itself; `LinksAreKept`
   and `CatalogImplementsRedirects` (a step is an `Appear` or a `Join` of names)
   read off it. That a rename never gives an entry too many tags is a lemma about
   images of finite sets.
8. `SyncProofs`. The lock is held by every live run, so there is one live
   run; its reading is therefore newer than the saved one (`ReadingsOrdered`),
   and what it saves advances the calendar (`ReadingsAdvance`). `CoverageHonest`
   is inductive with the types, because `Save` alone touches events. The feed of
   publications is another user of the same lock: `RowStep` and `RunsStep` say
   what any step of a run that reads nothing does to the lock and to the readings,
   whatever a reading is, and `FeedStep` adds what is its own (`TitlesAdvance`).
9. `DeskProofs`, services. A row of the key table that is not committed belongs to
   the one request that works on it (`ClaimsHeld`), a key has an answer exactly if
   it has written (`AnswersKept`), and what was answered is the key's answer
   (`AnswersGiven`). `KeysWriteOnce` and `AnswersStayTrue` follow; `DeadTokensStayDead`
   is a property of each step by itself.
10. `DeskProofs`, access. A recovery raises the version of the credentials, so
   whatever is found later is younger than the last one (`AccessesNew`), and a code
   that the account remembers is the last that was mailed for its purpose, to the
   address that was meant, since then (`CodesMatch`).
11. `DeskProofs`, moderation. What a call has read stays as it is for as long as it
   holds the rows: the account from its first check on, the report from the second,
   the entry from the third (`CallsKept`); notes are typed for what the form shows
   (`PagesKept`), and only one call gets past the lock of a report.
12. `DeskProofs`, followed tags. While a tab merges local choices into an account,
   each of them was saved for some account or is on the rest of one merge
   (`TabKept`), which is why a single merge forgets nothing.
13. `BrowserProofs`, wizard. Steps that were walked past were answered
   as far as `next()` asks (`WalkedPast`), and the form says of the intent what its
   button wrote (`IntentSent`), whatever was revised afterwards.
14. `BrowserProofs`, submission. Each round of the page has one key and no key is
   used in two (`KeysOfRounds`), each answer names an entry of its own with the form
   that was sent (`AnswersNameEntries`), the key of the page belongs to what its
   fingerprint says (`KeyOfPage`), and what the page was told is true (`PageTold`).
   Requests that arrive late are in the first two, so none makes a second entry.
15. `BrowserProofs`, images. The table's active images are few and one is the card
   (`CardKept`), what the page shows or removes has a row and what is pending has none
   (`RowsKept`), and while nobody else writes the page has one card at most, and shows
   the table as long as its version is the entry's or its own PUT was just answered
   (`PageKept`). While image requests run, every
   image without an outstanding one is already as the page showed it when the PUT was
   answered (`AsWanted`, in `SaveKept`), so that the end of the requests is the end of
   the difference. `CardsAreOne` counts finite sets.
16. `PagesProofs`. No query, tab or dialog is ahead of the entry, and a request on its
   way carries the version that its decision was based on, unless a reason was asked
   for in between, or the name that was typed (`LettersTell`);
   `PagesDecideOnShown` compares it with the guard of the handler. For ownership: what
   the dialog was told is true of the version it was told of (`True`, kept by steps
   that leave the entry alone, and by those that change it because they raise the
   version), so an offer replaces the owner that staff saw (`OffersSeen`), and
   `OwnersLoseAsShown` follows from the two version checks.

Only model-checked: the liveness property `PollersRetry`, which needs fairness.
Liveness under fairness, ENABLED and what a recursive definition computes for
every input are out of the prover's reach and stay with TLC. The five properties
that the code violates are, of course, not theorems; next to each is a property that
holds and is one, except for `RecipientsSaved` and `DeletedStaysGone`.

## Not modelled

- Transactions that wait for each other in a circle. Service patches take the
  entry before advisory lock 4350010, other handlers after it, and
  administration takes two accounts unsorted (`routes/listings.ts:426`,
  `routes/accounts.ts:170`). The database ends one of them: it writes nothing and
  its client gets an error, which each module has as a request that was refused
  or lost. Nothing promises that it never happens.
- Rate limits: one atomic upsert, and a refusal like any other.
- Saved entries, profiles and aliases: one row each, written by one statement.
- Search, filters, sorting, previews, place names, recurrence rules and the
  parsing of feeds and pages: pure functions over text.
- Lightning addresses, mail transport, migrations, the pool and deployment:
  network and start-up.
- The administrators' pages of accounts and service accounts: forms whose
  requests are in `AccountSecurity` and `ServiceWrites`.

## Plan

Every property of the passing runs that the prover can express is a theorem.
What would say more about the code is, in this order:

1. Theorems about what the violated properties leave: `RecipientsSaved` while no
   confirmation is under way during a recovery, and `DeletedStaysGone` for entries
   that no import knows.
2. `RunningIsInterrupted` for publications has no counterpart, because no state
   "running" is kept; that a failed check never changes the titles is part of
   `TitlesAdvance`, that the row's status tells the last outcome is not stated.
3. The remaining theorems of the compositions: that each component's properties
   hold of `MCDesk`, `MCBrowser` and `MCCatalog` too, where the others stand still.
