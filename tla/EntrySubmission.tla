--------------------------- MODULE EntrySubmission ---------------------------
(***************************************************************************)
(* Adding an entry: the page (src/pages/SubmitPage.tsx), POST /listings    *)
(* with its idempotency keys (server/routes/listings.ts) and the pictures  *)
(* that the page uploads afterwards.                                       *)
(*                                                                         *)
(* The browser is signed in as session, which other tabs change; the page  *)
(* shows the account that it heard of last.  A request carries the         *)
(* session it was sent with and is one transaction.  It may be executed    *)
(* long after the page was told that it failed, or never.                  *)
(***************************************************************************)
EXTENDS Naturals, FiniteSets, Visitors

CONSTANTS
  Forms,      \* what a visitor may have entered
  Pictures,   \* what a visitor may have chosen
  Entries,    \* ids of entries
  MaxKeys,    \* bound: keys that the page makes
  MaxRounds,  \* bound: changes of the form or of the shown account
  MaxUploads  \* bound: uploads of one picture

ASSUME SubmissionAssumption ==
  /\ MaxKeys \in Nat /\ MaxRounds \in Nat /\ MaxUploads \in Nat

VARIABLES
  session,    \* who the browser is signed in as
  page,
  sent,       \* submissions that the server has not received
  answered,   \* rows of listing_submission_idempotency
  submitted   \* rows of listings, with the pictures of entry_images

submissionVars == <<session, page, sent, answered, submitted>>

Keys == 1..MaxKeys
NoEntry == [missing |-> TRUE]

\* The body of a request; round is history: it counts the changes of the form
\* and of the shown account.
Body == [form : Forms, expected : Visitors, round : 0..MaxRounds]
Request == [key : Keys, body : Body, as : Visitors]

\* key and fingerprint are the refs of the page; pressed and rest are the
\* pictures of the running save, and those that it still has to upload.
Page ==
  [form : Forms, pictures : SUBSET Pictures, user : Visitors, round : 0..MaxRounds,
   key : Keys \cup {0}, fingerprint : Body \cup {NoEntry},
   phase : {"editing", "creating", "uploading", "done"},
   pressed : SUBSET Pictures, entry : Entries \cup {NoEntry}, rest : SUBSET Pictures]

\* shown and round are history: what the page showed when this was sent.
Submitted == [form : Forms, owner : Visitors, shown : Visitors, round : 0..MaxRounds,
              pictures : [Pictures -> 0..MaxUploads]]

\* request_hash and response.
Answer == [form : Forms, expected : Visitors, account : Visitors, entry : Entries]

SubmissionTypeOK ==
  /\ session \in Visitors
  /\ page \in Page
  /\ sent \subseteq Request
  /\ answered \in [Keys -> Answer \cup {NoEntry}]
  /\ submitted \in [Entries -> Submitted \cup {NoEntry}]

SubmissionInit ==
  /\ session \in Visitors
  /\ page \in [form : Forms, pictures : {{}}, user : {session}, round : {0},
               key : {0}, fingerprint : {NoEntry}, phase : {"editing"},
               pressed : {{}}, entry : {NoEntry}, rest : {{}}]
  /\ sent = {}
  /\ answered = [k \in Keys |-> NoEntry]
  /\ submitted = [e \in Entries |-> NoEntry]

------------------------------------------------------------------------------
(* The browser.  A definition with a suffix, as in KeyFor_EachTime, is a wrong *)
(* variant of the definition below it; no specification uses it.               *)

\* Signing in or out in another tab.
ChangeSession(v) ==
  /\ v # session
  /\ session' = v
  /\ UNCHANGED <<page, sent, answered, submitted>>

\* The session query is refetched every minute and on focus.
Refetch ==
  /\ page.user # session /\ page.round < MaxRounds
  /\ page' = [page EXCEPT !.user = session, !.round = @ + 1]
  /\ UNCHANGED <<session, sent, answered, submitted>>

EditForm(f) ==
  /\ page.phase = "editing" /\ f # page.form /\ page.round < MaxRounds
  /\ page' = [page EXCEPT !.form = f, !.round = @ + 1]
  /\ UNCHANGED <<session, sent, answered, submitted>>

\* ImageDraftPicker stays open while the entry is saved.
ChoosePictures(pictures) ==
  /\ page.phase # "done" /\ page.user # Nobody /\ pictures # page.pictures
  /\ page' = [page EXCEPT !.pictures = pictures]
  /\ UNCHANGED <<session, sent, answered, submitted>>

\* The fingerprint is the text of the body, which has no round.
SameBody(a, b) == b # NoEntry /\ a.form = b.form /\ a.expected = b.expected

KeyFor_EachTime(body) == page.key + 1
\* A key is kept while the body is the one it was made for.
KeyFor(body) == IF SameBody(body, page.fingerprint) THEN page.key ELSE page.key + 1

Press ==
  LET body == [form |-> page.form, expected |-> page.user, round |-> page.round]
      key == KeyFor(body)
      pictures == IF page.user = Nobody THEN {} ELSE page.pictures
  IN
  /\ page.phase = "editing" /\ key \in Keys
  /\ page' = [page EXCEPT !.phase = "creating", !.key = key, !.fingerprint = body,
                          !.pressed = pictures]
  /\ sent' = sent \cup {[key |-> key, body |-> body, as |-> session]}
  /\ UNCHANGED <<session, answered, submitted>>

\* A refusal, a lost connection or a lost answer ends the save.
GiveUp ==
  /\ page.phase \in {"creating", "uploading"}
  /\ page' = [page EXCEPT !.phase = "editing", !.entry = NoEntry, !.rest = {}]
  /\ UNCHANGED <<session, sent, answered, submitted>>

\* The page hears that the entry exists.
Uploading(entry) ==
  [page EXCEPT !.phase = IF page.pressed = {} THEN "done" ELSE "uploading",
               !.entry = entry, !.rest = page.pressed]

------------------------------------------------------------------------------
(* The server *)

\* A refused request leaves no trace: it is never received.
MaySubmit_Unasked(r) == TRUE
MaySubmit(r) == r.body.expected = r.as

SameHash(r, answer) ==
  answer.form = r.body.form /\ answer.expected = r.body.expected /\ answer.account = r.as

\* The entry that the answer to r names.
Recorded(r, e) ==
  /\ answered[r.key] = NoEntry /\ submitted[e] = NoEntry
  /\ answered' = [answered EXCEPT ![r.key] =
       [form |-> r.body.form, expected |-> r.body.expected, account |-> r.as, entry |-> e]]
  /\ submitted' = [submitted EXCEPT ![e] =
       [form |-> r.body.form, owner |-> r.as, shown |-> r.body.expected,
        round |-> r.body.round, pictures |-> [p \in Pictures |-> 0]]]

Repeated(r, e) ==
  /\ answered[r.key] # NoEntry /\ SameHash(r, answered[r.key])
  /\ e = answered[r.key].entry
  /\ UNCHANGED <<answered, submitted>>

\* POST /listings, and whether the answer reaches the page.
Receive(r, e, told) ==
  /\ r \in sent
  /\ MaySubmit(r)
  /\ Recorded(r, e) \/ Repeated(r, e)
  /\ sent' = sent \ {r}
  /\ told => page.phase = "creating" /\ page.key = r.key
  /\ page' = IF told THEN Uploading(e) ELSE page
  /\ UNCHANGED session

\* POST /listings/:id/images by the owner; the answer may be lost.
Upload(p, told) ==
  /\ page.phase = "uploading" /\ p \in page.rest
  /\ session # Nobody /\ submitted[page.entry].owner = session
  /\ submitted[page.entry].pictures[p] < MaxUploads
  /\ submitted' = [submitted EXCEPT ![page.entry].pictures[p] = @ + 1]
  /\ page' = IF ~told THEN [page EXCEPT !.phase = "editing", !.entry = NoEntry, !.rest = {}]
             ELSE [page EXCEPT !.rest = @ \ {p},
                               !.phase = IF page.rest = {p} THEN "done" ELSE @]
  /\ UNCHANGED <<session, sent, answered>>

SubmissionNext ==
  \/ \E v \in Visitors : ChangeSession(v)
  \/ Refetch
  \/ \E f \in Forms : EditForm(f)
  \/ \E pictures \in SUBSET Pictures : ChoosePictures(pictures)
  \/ Press
  \/ GiveUp
  \/ \E r \in sent, e \in Entries, told \in BOOLEAN : Receive(r, e, told)
  \/ \E p \in Pictures, told \in BOOLEAN : Upload(p, told)

SubmissionSpec == SubmissionInit /\ [][SubmissionNext]_submissionVars

------------------------------------------------------------------------------
(* Properties *)

\* Pressing again and again, with answers lost and requests overtaking each
\* other, makes one entry as long as the form and the account stay the same
\* (migration 024: "makes retries of the same submission safe").
SubmittedOnce ==
  \A e, f \in Entries :
    submitted[e] # NoEntry /\ submitted[f] # NoEntry /\ submitted[e].round = submitted[f].round
      => e = f

\* "A stale tab must never silently turn an account-owned submission anonymous,
\* or assign it to a different account" (routes/listings.ts:952); and when the
\* page reports success, its entry has what the form held and every picture
\* that was chosen when the button was pressed, whatever failed before.
SubmittedAsShown ==
  /\ \A e \in Entries : submitted[e] # NoEntry => submitted[e].owner = submitted[e].shown
  /\ page.phase = "done" =>
       LET entry == submitted[page.entry] IN
       /\ entry.form = page.form
       /\ \A p \in page.pressed : entry.pictures[p] > 0
=============================================================================
