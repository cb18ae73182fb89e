------------------------------ MODULE SavedTags ------------------------------
(***************************************************************************)
(* The tags that a visitor follows (src/state/SavedTagsProvider.tsx,       *)
(* src/state/AuthProvider.tsx, server/routes/accounts.ts).                 *)
(*                                                                         *)
(* One tab of a browser.  Signed out, it keeps the choices itself; when it *)
(* learns of an account it puts them there one request per tag.  A request *)
(* acts for the account of the browser's cookie, which other tabs change,  *)
(* and not for the one that this tab shows.  Other devices change the same *)
(* account.                                                                *)
(***************************************************************************)
EXTENDS Naturals, FiniteSets, Visitors

CONSTANTS
  Tags,       \* ids of tags
  MaxSaved,   \* tags that an account may save: 100 in the code
  MaxMerges   \* bound: merges that run at a time

ASSUME SavedAssumption == MaxSaved \in Nat /\ MaxMerges \in Nat

VARIABLES
  cookie,   \* the account that the browser is signed in to
  saved,    \* rows of account_saved_tags
  retired,  \* tags that were retired or merged
  tab,
  held      \* history: tags that some account has had

savedVars == <<cookie, saved, retired, tab, held>>

Unread == [unread |-> TRUE]

\* local is localIds; lists are the cached answers of GET /saved-tags by the
\* account in their key; merging is migrationUser; a merge has an account and
\* the tags whose PUT has not been answered.
Merge == [user : Accounts, rest : SUBSET Tags]
Tab == [user : Visitors, local : SUBSET Tags, lists : [Accounts -> (SUBSET Tags) \cup {{Unread}}],
        merging : Visitors, merges : SUBSET Merge]

SavedTypeOK ==
  /\ cookie \in Visitors
  /\ saved \in [Accounts -> SUBSET Tags]
  /\ \A a \in Accounts : Cardinality(saved[a]) <= MaxSaved
  /\ retired \subseteq Tags
  /\ tab \in Tab
  /\ held \subseteq Tags

NoLists == [a \in Accounts |-> {Unread}]

SavedInit ==
  /\ cookie = Nobody
  /\ saved = [a \in Accounts |-> {}]
  /\ retired = {}
  /\ tab = [user |-> Nobody, local |-> {}, lists |-> NoLists, merging |-> Nobody, merges |-> {}]
  /\ held = {}

------------------------------------------------------------------------------
(* The server *)

Mine == IF cookie = Nobody THEN {} ELSE saved[cookie]

\* What GET /saved-tags lists for the cookie's account.
Listed == Mine \ retired

\* PUT /saved-tags/:id
MayPut(t) ==
  /\ cookie # Nobody /\ t \notin retired
  /\ t \in saved[cookie] \/ Cardinality(saved[cookie]) < MaxSaved

Put(t) ==
  /\ saved' = [saved EXCEPT ![cookie] = @ \cup {t}]
  /\ held' = held \cup {t}

\* DELETE /saved-tags/:id
Dropped(a, t) ==
  /\ saved' = [saved EXCEPT ![a] = @ \ {t}]
  /\ UNCHANGED held

------------------------------------------------------------------------------
(* The tab.  A definition with a suffix is a wrong variant of the definition  *)
(* below it; no specification uses it.                                        *)

Read(a) == tab.lists[a] # {Unread}

\* The effect, which runs when the account, its list or the choices change.
After(new) ==
  LET u == new.user IN
  IF u = Nobody THEN [new EXCEPT !.merging = Nobody]
  ELSE IF new.lists[u] = {Unread} \/ new.merging = u THEN new
  ELSE IF new.local \subseteq new.lists[u] THEN [new EXCEPT !.merging = u, !.local = {}]
  ELSE [new EXCEPT !.merging = u,
                   !.merges = @ \cup {[user |-> u, rest |-> new.local \ new.lists[u]]}]

Becomes(new) == tab' = new /\ Cardinality(new.merges) <= MaxMerges

Migrating == \E merge \in tab.merges : merge.user = tab.user /\ tab.merging = tab.user

Busy == tab.user # Nobody /\ (~Read(tab.user) \/ Migrating)

Ids == IF tab.user = Nobody THEN tab.local
       ELSE tab.local \cup (IF Read(tab.user) THEN tab.lists[tab.user] ELSE {})

\* toggle, signed out.
ToggleLocal(t) ==
  /\ tab.user = Nobody
  /\ tab' = After([tab EXCEPT !.local = IF t \in Ids THEN @ \ {t} ELSE @ \cup {t}])
  /\ UNCHANGED <<cookie, saved, retired, held>>

\* toggle, signed in.  The tab stays busy until its list was read again, and
\* when the answer is lost the list is left as it was.
ToggleSaved(t, told) ==
  /\ tab.user # Nobody /\ ~Busy /\ cookie # Nobody
  /\ IF t \in Ids THEN Dropped(cookie, t) ELSE MayPut(t) /\ Put(t)
  /\ Becomes(IF told THEN After([tab EXCEPT !.lists[tab.user] = saved'[cookie] \ retired])
             ELSE tab)
  /\ UNCHANGED <<cookie, retired>>

\* The list is fetched, on focus or after a change; again: a failed fetch had
\* set the error that the effect also depends on.
ReadList(again) ==
  LET new == [tab EXCEPT !.lists[tab.user] = Listed] IN
  /\ tab.user # Nobody /\ cookie # Nobody
  /\ Becomes(IF again \/ new # tab THEN After(new) ELSE new)
  /\ UNCHANGED <<cookie, saved, retired, held>>

Merging(merge) == merge \in tab.merges /\ merge.rest # {}

Rest(merge, t) == (tab.merges \ {merge}) \cup {[merge EXCEPT !.rest = @ \ {t}]}

MergeTag(merge, t) ==
  /\ Merging(merge) /\ t \in merge.rest /\ MayPut(t)
  /\ Put(t)
  /\ tab' = [tab EXCEPT !.merges = Rest(merge, t)]
  /\ UNCHANGED <<cookie, retired>>

\* One refusal or lost answer ends the merge, and its choices stay here.  Its
\* other requests may still arrive, like those of another device.
FailedMerge_Ignored(merge, t) == [tab EXCEPT !.merges = Rest(merge, t)]
FailedMerge(merge, t) ==
  [tab EXCEPT !.merges = @ \ {merge},
              !.merging = IF @ = merge.user THEN Nobody ELSE @]

FailMerge(merge) ==
  /\ Merging(merge)
  /\ \E t \in merge.rest :
       /\ tab' = FailedMerge(merge, t)
       \* the tag may have been saved although the answer was lost
       /\ (MayPut(t) /\ Put(t)) \/ UNCHANGED <<saved, held>>
  /\ UNCHANGED <<cookie, retired>>

\* The choices are forgotten unless the account changed meanwhile.
FinishMerge(merge) ==
  /\ merge \in tab.merges /\ merge.rest = {}
  /\ tab' = [tab EXCEPT !.merges = @ \ {merge},
                        !.local = IF tab.merging = merge.user THEN {} ELSE @]
  /\ UNCHANGED <<cookie, saved, retired, held>>

------------------------------------------------------------------------------
(* The session *)

\* Signing in or out, here or in another tab.
ChangeCookie(v) ==
  /\ v # cookie
  /\ cookie' = v
  /\ UNCHANGED <<saved, retired, tab, held>>

\* The pages of this tab forget every private answer.
RefreshSession ==
  /\ Becomes(After([tab EXCEPT !.user = cookie, !.lists = NoLists]))
  /\ UNCHANGED <<cookie, saved, retired, held>>

\* The session is fetched every minute, and on focus; private answers stay.
NoticeSession ==
  /\ tab.user # cookie
  /\ Becomes(After([tab EXCEPT !.user = cookie]))
  /\ UNCHANGED <<cookie, saved, retired, held>>

\* localStorage survives; the requests of a merge do not.
Reload ==
  /\ tab' = [tab EXCEPT !.user = cookie, !.lists = NoLists, !.merging = Nobody, !.merges = {}]
  /\ UNCHANGED <<cookie, saved, retired, held>>

\* Cached answers nobody shows are dropped after five minutes.
Forget(a) ==
  /\ a # tab.user /\ Read(a)
  /\ tab' = [tab EXCEPT !.lists[a] = {Unread}]
  /\ UNCHANGED <<cookie, saved, retired, held>>

\* Another device of the same person.
SaveElsewhere(a, t) ==
  /\ t \notin saved[a] /\ t \notin retired /\ Cardinality(saved[a]) < MaxSaved
  /\ saved' = [saved EXCEPT ![a] = @ \cup {t}]
  /\ held' = held \cup {t}
  /\ UNCHANGED <<cookie, retired, tab>>

DropElsewhere(a, t) ==
  /\ t \in saved[a] /\ Dropped(a, t)
  /\ UNCHANGED <<cookie, retired, tab>>

RetireTag(t) ==
  /\ t \notin retired
  /\ retired' = retired \cup {t}
  /\ UNCHANGED <<cookie, saved, tab, held>>

SavedNext ==
  \/ \E t \in Tags : ToggleLocal(t) \/ RetireTag(t)
  \/ \E t \in Tags, told \in BOOLEAN : ToggleSaved(t, told)
  \/ \E again \in BOOLEAN : ReadList(again)
  \/ \E merge \in tab.merges :
       \/ \E t \in merge.rest : MergeTag(merge, t)
       \/ FailMerge(merge)
       \/ FinishMerge(merge)
  \/ \E v \in Visitors : ChangeCookie(v)
  \/ RefreshSession
  \/ NoticeSession
  \/ Reload
  \/ \E a \in Accounts :
       \/ Forget(a)
       \/ \E t \in Tags : SaveElsewhere(a, t) \/ DropElsewhere(a, t)

SavedSpec == SavedInit /\ [][SavedNext]_savedVars

------------------------------------------------------------------------------
(* Properties *)

\* Signed in, the tab forgets a choice only when some account has had it:
\* whatever fails, is refused or is retired, and whoever signs in meanwhile,
\* the rest of a merge is kept for the next one.  Two merges of one account at
\* a time are the exception: the first to finish forgets the other's choices.
KeptUntilSaved ==
  [][(tab'.user # Nobody /\ Cardinality({m \in tab.merges : m.user = tab.merging}) <= 1)
       => tab.local \ tab'.local \subseteq held']_savedVars

\* The effect's comment (SavedTagsProvider.tsx:73) promises it without the
\* exception: "preserving every choice".
ChoicesPreserved == [][tab'.user # Nobody => tab.local \ tab'.local \subseteq held']_savedVars
==============================================================================
