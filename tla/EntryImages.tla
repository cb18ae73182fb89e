----------------------------- MODULE EntryImages -----------------------------
(***************************************************************************)
(* The images of an entry: the page on which one of its editors changes    *)
(* the entry and its images (src/pages/EditListingPage.tsx,                *)
(* src/components/ListingForm.tsx and EntryImages.tsx) and the handlers of *)
(* server/routes/listings.ts and service-listings.ts.                      *)
(*                                                                         *)
(* Each request is one transaction that locks the entry.  One save of the  *)
(* page is many requests: the entry first, then image by image, while      *)
(* other editors and programs send theirs; any of them may fail.  A save   *)
(* goes on when its page is left, or replaced by one with the entry as it  *)
(* is by then; what it sends of the images is what it finds on the page    *)
(* when the entry is written.  The other fields of the entry are the       *)
(* subject of EntryPages: here the form is only changed or not, and the    *)
(* entry has a new version or not.                                         *)
(***************************************************************************)
EXTENDS Naturals, FiniteSets

CONSTANTS
  Images,     \* ids; the page's pictures bear the id they will get
  Staff,      \* whether the page's user is an editor of all entries
  MaxActive   \* most images of an entry: 12

ASSUME ImagesAssumption == Staff \in BOOLEAN /\ MaxActive \in Nat

VARIABLES
  images,  \* rows of entry_images
  owned,   \* whether the page's user owns the entry
  editor,  \* the page
  save,    \* its mutation "update"
  alone    \* history: since the page was opened nobody else wrote, and no save sent
           \* an image request after the page had been renewed under it

imagesVars == <<images, owned, editor, save, alone>>

\* described says that alt_text has the three characters a card image needs.
Draft == [described : BOOLEAN, shareable : BOOLEAN]
Row == [described : BOOLEAN, shareable : BOOLEAN, isLead : BOOLEAN]
NoRow == [missing |-> TRUE]
Removed == [deleted |-> TRUE]
NoDraft == [unchanged |-> TRUE]

Drafts == [Images -> Draft \cup {NoDraft}]
Unused == [i \in Images |-> NoDraft]

\* current says that the version the page loaded is still the entry's; asks is
\* reasonRequired; changed is formDirty.
Editor ==
  [open : BOOLEAN, current : BOOLEAN, asks : BOOLEAN, changed : BOOLEAN,
   shown : Drafts, drafts : Drafts, removed : SUBSET Images, pending : Drafts]

\* A save: its reason is asked for, its PUT is under way, the entry is written,
\* the image requests are sent, or success was reported.  current says that the
\* version in the PUT is the entry's; patch, delete and upload are the requests
\* left.  want is history: the images as they shall be, unknown once anybody
\* else wrote.
SavePhases == {"none", "asking", "saving", "stored", "images", "saved"}
Unknown == [others |-> TRUE]
Update ==
  [phase : SavePhases, current : BOOLEAN, reasoned : BOOLEAN,
   patch : Drafts, delete : SUBSET Images, upload : Drafts, want : Drafts \cup {Unknown}]

Set(f) == {i \in DOMAIN f : f[i] # NoDraft}
Active(rows) == {i \in Images : rows[i] \notin {NoRow, Removed}}

ImagesTypeOK ==
  /\ images \in [Images -> Row \cup {NoRow, Removed}]
  /\ owned \in BOOLEAN /\ alone \in BOOLEAN
  /\ editor \in Editor
  /\ save \in Update

Closed ==
  [open |-> FALSE, current |-> FALSE, asks |-> FALSE, changed |-> FALSE,
   shown |-> Unused, drafts |-> Unused, removed |-> {}, pending |-> Unused]
NoSave ==
  [phase |-> "none", current |-> FALSE, reasoned |-> FALSE,
   patch |-> Unused, delete |-> {}, upload |-> Unused, want |-> Unknown]

ImagesInit ==
  /\ images = [i \in Images |-> NoRow]
  /\ owned = TRUE
  /\ editor = Closed
  /\ save = NoSave
  /\ alone = TRUE

------------------------------------------------------------------------------
(* The handlers.  A definition with a suffix, as in Unstarred_Nothing, is a   *)
(* wrong variant of the definition below it; no specification uses it.        *)

Unstarred_Nothing(rows, keep) == rows
\* All active images but one lose is_lead and shareable.
Unstarred(rows, keep) ==
  [i \in Images |->
     IF i \in Active(rows) \ keep THEN [rows[i] EXCEPT !.shareable = FALSE, !.isLead = FALSE]
     ELSE rows[i]]

RowOf(draft) ==
  [described |-> draft.described, shareable |-> draft.shareable, isLead |-> draft.shareable]

Describes(draft) == draft.shareable => draft.described

\* insertListingImage.
Inserted(i, draft) ==
  /\ images[i] = NoRow /\ Describes(draft)
  /\ Cardinality(Active(images)) < MaxActive
  /\ images' = [IF draft.shareable THEN Unstarred(images, {}) ELSE images
                  EXCEPT ![i] = RowOf(draft)]

\* updateListingImageMetadata and PATCH /:id/images/:imageId.
Patched(i, draft) ==
  /\ i \in Active(images) /\ Describes(draft)
  /\ images' = [IF draft.shareable THEN Unstarred(images, {i}) ELSE images
                  EXCEPT ![i] = RowOf(draft)]

\* DELETE /:id/images/:imageId keeps the row, which nothing reads.
Deleted(i) ==
  /\ i \in Active(images)
  /\ images' = [images EXCEPT ![i] = Removed]

\* authorizedImageListing and requireChangeReason; the same of PUT /:id.
MayWrite == owned \/ (Staff /\ save.reasoned)

------------------------------------------------------------------------------
(* The page *)

Shown(rows) ==
  [i \in Images |-> IF i \in Active(rows)
     THEN [described |-> rows[i].described, shareable |-> rows[i].shareable] ELSE NoDraft]

\* The page with the entry as it is.
Loaded(asks) ==
  [Closed EXCEPT !.open = TRUE, !.current = TRUE, !.asks = asks, !.shown = Shown(images)]

\* A page opened anew while a save of another runs is one of the others below.
Open ==
  /\ save.phase \in {"none", "saved"}
  /\ owned \/ Staff
  /\ editor' = Loaded(~owned) /\ save' = NoSave
  /\ alone' = TRUE
  /\ UNCHANGED <<images, owned>>

\* The queries of the page are refetched, as after a lost connection.  The form,
\* and the image editor in it, is mounted anew for a new version, and after a
\* refetch that failed had taken it from the page.
RefetchEntry(again, asks) ==
  /\ editor.open
  /\ owned \/ Staff
  /\ asks \in {editor.asks, ~owned}
  /\ editor' = IF again \/ ~editor.current THEN Loaded(asks)
               ELSE [editor EXCEPT !.shown = Shown(images), !.asks = asks]
  /\ UNCHANGED <<images, owned, save, alone>>

\* The page is left, or its query fails and only the error is shown.
Leave ==
  /\ editor.open
  /\ editor' = Closed
  /\ save' = IF save.phase = "asking" THEN NoSave ELSE save
  /\ UNCHANGED <<images, owned, alone>>

Pending == Set(editor.pending)

\* Until the image requests are sent the page can be changed.  What is changed
\* while they are reaches none of them and is left out.
Edit(new) ==
  /\ editor.open /\ save.phase \in {"none", "saving", "stored"}
  /\ editor' = new
  /\ UNCHANGED <<images, owned, save, alone>>

\* While a save runs this reaches no request.
ChangeForm(changed) == save.phase = "none" /\ Edit([editor EXCEPT !.changed = changed])

ChooseFile(i, described) ==
  /\ images[i] = NoRow /\ editor.pending[i] = NoDraft
  /\ Cardinality(Set(editor.shown)) + Cardinality(Pending) < MaxActive
  /\ Edit([editor EXCEPT !.pending[i] = [described |-> described, shareable |-> FALSE]])

DropFile(i) ==
  i \in Pending /\ Edit([editor EXCEPT !.pending[i] = NoDraft])

DraftFor(i) == IF editor.drafts[i] # NoDraft THEN editor.drafts[i] ELSE editor.shown[i]
\* A draft like the original is none.
Drafted(i, draft) == IF draft = editor.shown[i] THEN NoDraft ELSE draft

Visible == Set(editor.shown) \ editor.removed

Describe(i, described) ==
  \/ /\ i \in Visible
     /\ Edit([editor EXCEPT !.drafts[i] =
                Drafted(i, [DraftFor(i) EXCEPT !.described = described])])
  \/ /\ i \in Pending
     /\ Edit([editor EXCEPT !.pending[i].described = described])

\* setCommunityCard: choosing one image unchooses all others.
Starring(i, selected) ==
  LET now(j, was) == IF selected THEN j = i ELSE IF j = i THEN FALSE ELSE was IN
  [editor EXCEPT
    !.drafts = [j \in Images |-> IF j \notin Set(editor.shown) THEN editor.drafts[j]
                  ELSE Drafted(j, [DraftFor(j) EXCEPT !.shareable = now(j, @)])],
    !.pending = [j \in Images |-> IF j \notin Pending THEN editor.pending[j]
                  ELSE [editor.pending[j] EXCEPT !.shareable = now(j, @)]]]

Star(i, selected) ==
  /\ i \in Visible \cup Pending
  /\ Edit(Starring(i, selected))

RemoveSaved(i) ==
  /\ i \in Visible
  /\ Edit([editor EXCEPT !.removed = @ \cup {i}, !.drafts[i] = NoDraft])

ImageDirty == Pending # {} \/ Set(editor.drafts) # {} \/ editor.removed # {}

Save ==
  /\ editor.open /\ save.phase = "none"
  /\ editor.changed \/ ImageDirty
  /\ save' = IF editor.asks THEN [NoSave EXCEPT !.phase = "asking"]
             ELSE [NoSave EXCEPT !.phase = "saving", !.current = editor.current]
  /\ UNCHANGED <<images, owned, editor, alone>>

\* The version is the one loaded when the dialog is closed.
GiveReason ==
  /\ save.phase = "asking"
  /\ save' = [NoSave EXCEPT !.phase = "saving", !.current = editor.current, !.reasoned = TRUE]
  /\ UNCHANGED <<images, owned, editor, alone>>

CancelReason ==
  /\ save.phase = "asking"
  /\ save' = NoSave
  /\ UNCHANGED <<images, owned, editor, alone>>

\* PUT /listings/:id.
PutEntry ==
  /\ save.phase = "saving" /\ save.current /\ MayWrite
  /\ save' = [save EXCEPT !.phase = "stored", !.current = FALSE]
  /\ editor' = [editor EXCEPT !.current = FALSE]
  /\ UNCHANGED <<images, owned, alone>>

Wanted ==
  IF editor.open
  THEN [i \in Images |-> IF i \in Visible THEN DraftFor(i) ELSE editor.pending[i]]
  ELSE Shown(images)

\* The answer of the PUT: saveChanges of the image editor that is there by now,
\* or of none.
CollectImages ==
  /\ save.phase = "stored"
  /\ save' = [save EXCEPT
       !.phase = "images",
       !.patch = [i \in Images |-> IF i \in Visible THEN editor.drafts[i] ELSE NoDraft],
       !.delete = editor.removed, !.upload = editor.pending,
       !.want = IF alone THEN Wanted ELSE Unknown]
  /\ UNCHANGED <<images, owned, editor, alone>>

Failed_Swallowed == [save EXCEPT !.phase = IF @ = "images" THEN "saved" ELSE "none"]
Failed == NoSave

\* An image request, and whether the page hears that it succeeded.
Requested(told, left) ==
  /\ save.phase = "images" /\ MayWrite
  /\ save' = IF told THEN left ELSE Failed
  /\ alone' = (alone /\ ~editor.current)
  /\ UNCHANGED owned

\* First the images that are no card, then the card, the removals, and the
\* new pictures; within a group the model leaves the order open.
SendPatch(i, told) ==
  /\ i \in Set(save.patch)
  /\ save.patch[i].shareable => \A j \in Set(save.patch) : save.patch[j].shareable
  /\ Patched(i, save.patch[i])
  /\ Requested(told, [save EXCEPT !.patch[i] = NoDraft])
  /\ UNCHANGED editor

SendDelete(i, told) ==
  /\ save.patch = Unused /\ i \in save.delete
  /\ Deleted(i)
  /\ Requested(told, [save EXCEPT !.delete = @ \ {i}])
  /\ UNCHANGED editor

\* No picture of the page will get this id.
Free(i) == editor.pending[i] = NoDraft /\ save.upload[i] = NoDraft

\* A picture that arrived is no longer pending.  One that arrived unheard of
\* stays, and a second request would make a second image: its row is another.
SendUpload(i, row, told) ==
  /\ save.patch = Unused /\ save.delete = {} /\ i \in Set(save.upload)
  /\ IF told THEN row = i ELSE Free(row)
  /\ Inserted(row, save.upload[i])
  /\ Requested(told, [save EXCEPT !.upload[i] = NoDraft])
  /\ editor' = IF told THEN [editor EXCEPT !.pending[i] = NoDraft] ELSE editor

\* A refusal or a lost connection.  What the page holds stays, but for a version
\* that is no longer the entry's: until a refetch no further PUT is accepted.
Fail ==
  /\ save.phase \in {"saving", "stored", "images"}
  /\ save' = Failed
  /\ UNCHANGED <<images, owned, editor, alone>>

\* Success, and the page is left for the entry's.
Finish ==
  /\ save.phase = "images"
  /\ save.patch = Unused /\ save.delete = {} /\ save.upload = Unused
  /\ save' = [save EXCEPT !.phase = "saved"]
  /\ editor' = Closed
  /\ UNCHANGED <<images, owned, alone>>

------------------------------------------------------------------------------
(* Everybody else *)

Others ==
  /\ alone' = FALSE /\ save' = [save EXCEPT !.want = Unknown]
  /\ UNCHANGED <<owned, editor>>

OthersInsert(i, draft) == Free(i) /\ Inserted(i, draft) /\ Others
OthersPatch(i, draft) == Patched(i, draft) /\ Others
OthersDelete(i) == Deleted(i) /\ Others

\* A new version of the entry.
Outdated ==
  /\ editor' = [editor EXCEPT !.current = FALSE]
  /\ save' = [save EXCEPT !.current = FALSE, !.want = Unknown]
  /\ alone' = FALSE

OthersEdit == Outdated /\ UNCHANGED <<images, owned>>

\* A transfer of the ownership, which is a change of the entry as well.
Transfer == owned' = ~owned /\ Outdated /\ UNCHANGED images

ImagesNext ==
  \/ Open \/ Leave \/ Save \/ GiveReason \/ CancelReason
  \/ PutEntry \/ CollectImages \/ Fail \/ Finish \/ OthersEdit \/ Transfer
  \/ \E again, asks \in BOOLEAN : RefetchEntry(again, asks)
  \/ \E changed \in BOOLEAN : ChangeForm(changed)
  \/ \E i \in Images : DropFile(i) \/ RemoveSaved(i) \/ OthersDelete(i)
  \/ \E i \in Images, b \in BOOLEAN :
       \/ ChooseFile(i, b) \/ Describe(i, b) \/ Star(i, b)
       \/ SendPatch(i, b) \/ SendDelete(i, b)
       \/ \E row \in Images : SendUpload(i, row, b)
  \/ \E i \in Images, draft \in Draft : OthersInsert(i, draft) \/ OthersPatch(i, draft)

ImagesSpec == ImagesInit /\ [][ImagesNext]_imagesVars

------------------------------------------------------------------------------
(* Properties *)

\* "Only one image per entry can be selected" (EntryImages.tsx:57), in the table
\* whoever uploads, chooses and removes at the same time, and on the page as long
\* as nobody else does; the image is a described one; and an entry has no more
\* than MaxActive images.
Starred == {i \in Visible : DraftFor(i).shareable}
             \cup {i \in Pending : editor.pending[i].shareable}

OneCard ==
  /\ Cardinality(Active(images)) <= MaxActive
  /\ \A i \in Active(images) :
       /\ images[i].isLead = images[i].shareable
       /\ images[i].isLead => images[i].described
       /\ \A j \in Active(images) : images[i].isLead /\ images[j].isLead => i = j
  /\ alone => \A i, j \in Starred : i = j

\* When a save reports success and nobody else wrote since the page was opened,
\* the images are what the page showed when the answer of the PUT came: each kept
\* image with its draft, no removed one, all new ones.  If the page was left or
\* renewed by a refetch before that, the choices made on the old page are no longer
\* there, and the images are as they were (EditListingPage.tsx:88 and :219).
SavedAsShown ==
  save.phase = "saved" /\ save.want # Unknown => Shown(images) = save.want
=============================================================================
