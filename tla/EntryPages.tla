----------------------------- MODULE EntryPages -----------------------------
(***************************************************************************)
(* The pages on which people change an entry (the edit page with its       *)
(* dialog for reasons, the revision history, the staff's activity page and *)
(* the dialog that deletes) and what the server does with their requests.  *)
(*                                                                         *)
(* A page decides with what its last query returned, which the cache keeps *)
(* when the page is left and which a refetch replaces at any moment.  Of   *)
(* the content of an entry the model keeps its name; the rest is told      *)
(* apart by the version.                                                   *)
(***************************************************************************)
EXTENDS Naturals, Sequences

CONSTANTS
  EntryNames, FirstEntryName,
  Tabs,        \* browser tabs, each of one signed-in person
  Letters,     \* ids of requests
  Absent,
  MaxRevisions \* bound: revisions of the entry

ASSUME PagesAssumption ==
  /\ FirstEntryName \in EntryNames
  /\ Absent \notin EntryNames \cup Letters
  /\ MaxRevisions \in Nat \ {0}

VARIABLES
  saved,   \* the name in each revision of the entry
  gone,    \* the entry was deleted
  caches,  \* the version that each query of a tab returned last
  tabs,
  letters  \* requests on their way

pagesVars == <<saved, gone, caches, tabs, letters>>

Latest == Len(saved)
Versions == 0..MaxRevisions

\* The queries of each page; 0 says that there is no answer.
QueriesOf == [edit |-> {"entry"}, history |-> {"entry", "history"},
              activity |-> {"activity"}, elsewhere |-> {}]
Queries == {"entry", "history", "activity"}

\* What somebody decided: base is the revision that the form was filled from,
\* or that the dialog compared with.
Decision == [kind : {"save", "act", "restore", "delete"}, name : EntryNames \cup {Absent},
             base : Versions, target : Versions]
NoDecision == [kind |-> "none"]

\* target and over belong to the dialogs that restore, waiting to the one that
\* asks for a reason; asks is reasonRequired, of who does not own the entry.
Tab == [page : DOMAIN QueriesOf, asks : BOOLEAN, target : Versions, over : Versions,
        waiting : Decision \cup {NoDecision}, letter : Letters \cup {Absent}]
OpenedOn(page, asks) == [page |-> page, asks |-> asks, target |-> 0, over |-> 0,
                         waiting |-> NoDecision, letter |-> Absent]

Letter == [what : Decision, asked : BOOLEAN, version : Versions,
           state : {"sent", "done", "refused"}]
NoLetter == [state |-> "none"]

PagesTypeOK ==
  /\ saved \in Seq(EntryNames) /\ Latest \in 1..MaxRevisions
  /\ gone \in BOOLEAN
  /\ caches \in [Tabs -> [Queries -> Versions]]
  /\ tabs \in [Tabs -> Tab]
  /\ letters \in [Letters -> Letter \cup {NoLetter}]

PagesInit ==
  /\ saved = <<FirstEntryName>>
  /\ gone = FALSE
  /\ caches = [t \in Tabs |-> [q \in Queries |-> 0]]
  /\ tabs = [t \in Tabs |-> OpenedOn("elsewhere", FALSE)]
  /\ letters = [l \in Letters |-> NoLetter]

------------------------------------------------------------------------------
(* Pages and their queries.  A definition with a suffix, as in               *)
(* RestoreOver_Listed, is a wrong variant of the definition below it; no     *)
(* specification uses it.                                                    *)

On(t, page) == tabs[t].page = page
Shown(t) == caches[t]["entry"]
Idle(t) == tabs[t].letter = Absent

Visit(t, page, asks) ==
  /\ asks => page = "edit"
  /\ tabs' = [tabs EXCEPT ![t] = OpenedOn(page, asks)]
  /\ UNCHANGED <<saved, gone, caches, letters>>

\* The first load, a remount after a minute, a reconnect, the interval of the
\* activity page, or the refresh after a success.  Revisions outlive the entry.
Load(t, q) ==
  /\ q \in QueriesOf[tabs[t].page]
  /\ caches' = [caches EXCEPT ![t][q] = IF gone /\ q # "history" THEN 0 ELSE Latest]
  /\ UNCHANGED <<saved, gone, tabs, letters>>

\* mutate: the page waits for the answer to this request.
Sent(t, decision, asked, version, page) ==
  \E l \in Letters :
    /\ letters[l] = NoLetter
    /\ letters' = [letters EXCEPT ![l] = [what |-> decision, asked |-> asked,
                                          version |-> version, state |-> "sent"]]
    /\ tabs' = [tabs EXCEPT ![t] = [page EXCEPT !.letter = l]]

------------------------------------------------------------------------------
(* The edit page *)

Ready(t) == On(t, "edit") /\ Idle(t) /\ Shown(t) # 0 /\ tabs[t].waiting = NoDecision

\* save and runAction: whoever does not own the entry is asked for a reason.
Decide(t, decision) ==
  /\ Ready(t)
  /\ IF tabs[t].asks
     THEN tabs' = [tabs EXCEPT ![t].waiting = decision] /\ UNCHANGED letters
     ELSE Sent(t, decision, FALSE, Shown(t), tabs[t])
  /\ UNCHANGED <<saved, gone, caches>>

SaveForm(t, name) ==
  Decide(t, [kind |-> "save", name |-> name, base |-> Shown(t), target |-> 0])

\* Confirm, review, publish or hide; and confirming that this is meant.
Act(t) == Decide(t, [kind |-> "act", name |-> Absent, base |-> Shown(t), target |-> 0])

\* continueWithReason: the request reads the version when it starts.
Continue(t) ==
  /\ On(t, "edit") /\ Idle(t) /\ Shown(t) # 0 /\ tabs[t].waiting # NoDecision
  /\ Sent(t, tabs[t].waiting, TRUE, Shown(t), [tabs[t] EXCEPT !.waiting = NoDecision])
  /\ UNCHANGED <<saved, gone, caches>>

Cancel(t) ==
  /\ tabs[t].waiting # NoDecision /\ Idle(t)
  /\ tabs' = [tabs EXCEPT ![t].waiting = NoDecision]
  /\ UNCHANGED <<saved, gone, caches, letters>>

\* DeleteListingDialog: the name that the page shows is typed; no version is sent.
TypeName(t) ==
  /\ Ready(t)
  /\ Sent(t, [kind |-> "delete", name |-> saved[Shown(t)], base |-> Shown(t), target |-> 0],
          FALSE, 0, tabs[t])
  /\ UNCHANGED <<saved, gone, caches>>

------------------------------------------------------------------------------
(* The pages that restore *)

Previewed(t, k, over) ==
  /\ Idle(t)
  /\ tabs' = [tabs EXCEPT ![t].target = k, ![t].over = over]
  /\ UNCHANGED <<saved, gone, caches, letters>>

\* The history page compares a revision with the entry as its query has it.
PreviewHere(t, k) ==
  /\ On(t, "history") /\ tabs[t].target = 0
  /\ Shown(t) # 0 /\ k \in 1..caches[t]["history"] /\ k # Shown(t)
  /\ Previewed(t, k, 0)

\* The activity page keeps the item, with the entry as it was when listed.
PreviewActivity(t, k) ==
  /\ On(t, "activity") /\ tabs[t].target = 0
  /\ k \in 1..(caches[t]["activity"] - 1)
  /\ Previewed(t, k, caches[t]["activity"])

Dismiss(t) == tabs[t].target # 0 /\ Previewed(t, 0, 0)

RestoreOver_Listed(t) == IF On(t, "history") THEN Shown(t) ELSE caches[t]["activity"]
\* The version that the request names.
RestoreOver(t) == IF On(t, "history") THEN Shown(t) ELSE tabs[t].over

\* The revision that the dialog shows as the current one.
Compared(t) == IF On(t, "history") THEN Shown(t) ELSE tabs[t].over

ConfirmRestore(t) ==
  /\ Idle(t) /\ tabs[t].target # 0 /\ RestoreOver(t) # 0
  /\ Sent(t, [kind |-> "restore", name |-> Absent, base |-> Compared(t), target |-> tabs[t].target],
          FALSE, RestoreOver(t), tabs[t])
  /\ UNCHANGED <<saved, gone, caches>>

------------------------------------------------------------------------------
(* The server, and its answers *)

\* A page that was left does not hear the answer.
Answered(l, state) ==
  letters' = [letters EXCEPT ![l] = IF \E t \in Tabs : tabs[t].letter = l
                                    THEN [@ EXCEPT !.state = state] ELSE NoLetter]

Waits(l) == letters[l].state = "sent"
Changing(l) == Waits(l) /\ letters[l].what.kind # "delete"

\* lockedEntry.
UnchangedSince(version) == ~gone /\ version = Latest

NameAfter(what) ==
  CASE what.kind = "save" -> what.name
    [] what.kind = "act" -> saved[Latest]
    [] what.kind = "restore" -> saved[what.target]

Change(l) ==
  /\ Changing(l) /\ UnchangedSince(letters[l].version) /\ Latest < MaxRevisions
  /\ saved' = Append(saved, NameAfter(letters[l].what))
  /\ Answered(l, "done")
  /\ UNCHANGED <<gone, caches, tabs>>

Confirmed(what) == what.name = saved[Latest]

Remove(l) ==
  /\ Waits(l) /\ letters[l].what.kind = "delete"
  /\ ~gone /\ Confirmed(letters[l].what)
  /\ gone' = TRUE
  /\ Answered(l, "done")
  /\ UNCHANGED <<saved, caches, tabs>>

Refuse(l) ==
  /\ Waits(l)
  /\ IF Changing(l) THEN ~UnchangedSince(letters[l].version)
     ELSE gone \/ ~Confirmed(letters[l].what)
  /\ Answered(l, "refused")
  /\ UNCHANGED <<saved, gone, caches, tabs>>

\* A success closes the dialog or leaves the page; a refusal leaves them open.
Hear(t) ==
  LET l == tabs[t].letter IN
  /\ ~Idle(t) /\ ~Waits(l)
  /\ tabs' = [tabs EXCEPT ![t] =
       IF letters[l].state = "refused" THEN [@ EXCEPT !.letter = Absent]
       ELSE IF letters[l].what.kind \in {"save", "delete"} THEN OpenedOn("elsewhere", FALSE)
       ELSE OpenedOn(@.page, @.asks)]
  /\ letters' = [letters EXCEPT ![l] = NoLetter]
  /\ UNCHANGED <<saved, gone, caches>>

\* The answer is lost: the page shows an error, as after a refusal.
GiveUp(t) ==
  LET l == tabs[t].letter IN
  /\ ~Idle(t)
  /\ tabs' = [tabs EXCEPT ![t].letter = Absent]
  /\ letters' = IF Waits(l) THEN letters ELSE [letters EXCEPT ![l] = NoLetter]
  /\ UNCHANGED <<saved, gone, caches>>

\* A service account, the import or the catalog changes the entry.  An image
\* gives it no new version.
ChangeElsewhere(name) ==
  /\ ~gone /\ Latest < MaxRevisions
  /\ saved' = Append(saved, name)
  /\ UNCHANGED <<gone, caches, tabs, letters>>

------------------------------------------------------------------------------
TabStep(t) ==
  \/ \E page \in DOMAIN QueriesOf, asks \in BOOLEAN : Visit(t, page, asks)
  \/ \E q \in Queries : Load(t, q)
  \/ \E name \in EntryNames : SaveForm(t, name)
  \/ Act(t) \/ Continue(t) \/ Cancel(t) \/ TypeName(t)
  \/ \E k \in 1..MaxRevisions : PreviewHere(t, k) \/ PreviewActivity(t, k)
  \/ Dismiss(t) \/ ConfirmRestore(t) \/ Hear(t) \/ GiveUp(t)

PagesNext ==
  \/ \E t \in Tabs : TabStep(t)
  \/ \E l \in Letters : Change(l) \/ Remove(l) \/ Refuse(l)
  \/ \E name \in EntryNames : ChangeElsewhere(name)

PagesSpec == PagesInit /\ [][PagesNext]_pagesVars

------------------------------------------------------------------------------
(* Properties *)

\* Whoever changes an entry without being asked for a reason, or restores it on
\* either page, replaces the revision that the form was filled from or the
\* dialog compared with; and an entry is deleted under the name that was typed.
DecidedOnShown ==
  [][\A l \in Letters :
       /\ Change(l) /\ ~letters[l].asked => letters[l].what.base = Latest
       /\ Remove(l) => saved[letters[l].what.base] = saved[Latest]]_pagesVars

\* "Optimistic version checks reject stale edits/restores (409)"
\* (docs/accounts-and-trust.md:78): a save replaces the revision that its form
\* was filled from.
StaleSavesRefused ==
  [][\A l \in Letters : Change(l) /\ letters[l].what.kind = "save" =>
       letters[l].what.base = Latest]_pagesVars
=============================================================================
