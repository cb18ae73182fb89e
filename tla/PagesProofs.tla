----------------------------- MODULE PagesProofs -----------------------------
(***************************************************************************)
(* Theorems about EntryPages and OwnershipPages, for any values of their   *)
(* constants: whatever the pages show and however late their requests      *)
(* arrive, nobody decides about what was not shown.                        *)
(***************************************************************************)
EXTENDS EntryPages, OwnershipPages, SequenceTheorems, TLAPS

------------------------------------------------------------------------------
(* EntryPages.  No query, dialog or request is ahead of the entry, and a       *)
(* request carries the version that its decision is based on, unless a reason  *)
(* was asked for in between; the request that deletes carries the name.        *)

CachesBehind == \A t \in Tabs, q \in Queries : caches[t][q] <= Latest

Behind(tab) ==
  /\ tab.target <= Latest /\ tab.over <= Latest
  /\ tab.waiting # NoDecision =>
       /\ tab.waiting.kind \in {"save", "act"}
       /\ tab.waiting.kind = "save" => tab.waiting.name \in EntryNames

Tells(letter) ==
  /\ letter.what.kind = "save" => letter.what.name \in EntryNames
  /\ letter.what.kind = "restore" => letter.what.target \in 1..Latest
  /\ letter.what.kind = "delete" =>
       letter.what.base \in 1..Latest /\ letter.what.name = saved[letter.what.base]
  /\ letter.what.kind # "delete" /\ ~letter.asked => letter.version = letter.what.base

TabsBehind == \A t \in Tabs : Behind(tabs[t])
LettersTell == \A l \in Letters : letters[l] # NoLetter => Tells(letters[l])

PagesInv == PagesTypeOK /\ CachesBehind /\ TabsBehind /\ LettersTell

LEMMA NothingDecided ==
  /\ NoDecision \notin Decision /\ NoLetter \notin Letter /\ Absent \notin Letters
  /\ NoDecision.kind = "none" /\ NoLetter.state = "none"
<1>1. /\ "name" \notin DOMAIN NoDecision /\ "what" \notin DOMAIN NoLetter
      /\ \A d \in Decision : "name" \in DOMAIN d
      /\ \A l \in Letter : "what" \in DOMAIN l
  BY DEF NoDecision, NoLetter, Decision, Letter
<1>2. NoDecision.kind = "none" /\ NoLetter.state = "none"
  BY DEF NoDecision, NoLetter
<1>3. QED
  BY <1>1, <1>2, PagesAssumption

LEMMA PagesTypes ==
  ASSUME PagesTypeOK
  PROVE  /\ saved \in Seq(EntryNames) /\ Latest \in 1..MaxRevisions /\ Latest \in Nat
         /\ Latest = Len(saved) /\ MaxRevisions \in Nat /\ Latest \in Versions /\ 0 \in Versions
         /\ \A k \in 1..Latest : saved[k] \in EntryNames /\ k \in Versions
         /\ \A t \in Tabs : tabs[t] \in Tab /\ caches[t] \in [Queries -> Versions]
         /\ \A l \in Letters : letters[l] \in Letter \cup {NoLetter}
<1>1. saved \in Seq(EntryNames) /\ Latest \in 1..MaxRevisions /\ MaxRevisions \in Nat
  BY PagesAssumption DEF PagesTypeOK
<1>2. Latest \in Nat /\ Latest = Len(saved) /\ Latest \in Versions /\ 0 \in Versions
  BY <1>1 DEF Latest, Versions
<1>3. \A k \in 1..Latest : saved[k] \in EntryNames /\ k \in Versions
  BY <1>1, <1>2 DEF Versions
<1>4. QED
  BY <1>1, <1>2, <1>3 DEF PagesTypeOK

\* A new tab, as it is when a page is opened.
LEMMA OpenedBehind ==
  ASSUME PagesTypeOK, NEW page \in DOMAIN QueriesOf, NEW asks \in BOOLEAN
  PROVE  OpenedOn(page, asks) \in Tab /\ Behind(OpenedOn(page, asks))
<1>1. Latest \in Nat /\ 0 \in Versions
  BY PagesTypes
<1>2. OpenedOn(page, asks) \in Tab
  BY <1>1 DEF OpenedOn, Tab
<1>3. /\ OpenedOn(page, asks).target = 0 /\ OpenedOn(page, asks).over = 0
      /\ OpenedOn(page, asks).waiting = NoDecision
  BY DEF OpenedOn
<1>4. QED
  BY <1>1, <1>2, <1>3 DEF Behind

LEMMA PagesInvInit == PagesInit => PagesInv
<1> SUFFICES ASSUME PagesInit PROVE PagesInv
  OBVIOUS
<1>1. saved = <<FirstEntryName>> /\ FirstEntryName \in EntryNames
  BY PagesAssumption DEF PagesInit
<1>2. saved \in Seq(EntryNames) /\ Latest = 1 /\ Latest \in 1..MaxRevisions
  BY <1>1, PagesAssumption DEF Latest
<1>3. "elsewhere" \in DOMAIN QueriesOf /\ FALSE \in BOOLEAN
  BY DEF QueriesOf
<1>4. 0 \in Versions
  BY PagesAssumption DEF Versions
<1>5. OpenedOn("elsewhere", FALSE) \in Tab
  BY <1>3, <1>4 DEF OpenedOn, Tab
<1>6. PagesTypeOK
  BY <1>2, <1>4, <1>5 DEF PagesInit, PagesTypeOK
<1>7. Behind(OpenedOn("elsewhere", FALSE))
  BY <1>3, <1>6, OpenedBehind
<1>8. CachesBehind /\ TabsBehind /\ LettersTell
  <2>1. CachesBehind
    BY <1>2 DEF PagesInit, CachesBehind
  <2>2. TabsBehind
    BY <1>7 DEF PagesInit, TabsBehind
  <2>3. LettersTell
    BY DEF PagesInit, LettersTell
  <2>4. QED
    BY <2>1, <2>2, <2>3
<1>9. QED
  BY <1>6, <1>8 DEF PagesInv

\* What one tab, its queries and the requests may become while the entry stays.
LEMMA TabKeeps ==
  ASSUME PagesInv, UNCHANGED <<saved, gone>>,
         NEW t \in Tabs, NEW tab \in Tab, Behind(tab), tabs' = [tabs EXCEPT ![t] = tab],
         caches' \in [Tabs -> [Queries -> Versions]],
         \A u \in Tabs, q \in Queries : caches'[u][q] <= Latest,
         letters' \in [Letters -> Letter \cup {NoLetter}],
         \A l \in Letters : letters'[l] # NoLetter =>
           letters'[l] = letters[l] \/ Tells(letters'[l])
  PROVE  PagesInv'
<1>1. tabs' \in [Tabs -> Tab]
  BY DEF PagesInv, PagesTypeOK
<1>2. Latest' = Latest
  BY DEF Latest
<1>3. PagesTypeOK'
  BY <1>1, <1>2 DEF PagesInv, PagesTypeOK
<1>4. CachesBehind'
  BY <1>2 DEF CachesBehind
<1>5. TabsBehind'
  <2>1. \A u \in Tabs : tabs'[u] = IF u = t THEN tab ELSE tabs[u]
    BY DEF PagesInv, PagesTypeOK
  <2>2. \A u \in Tabs : Behind(tabs'[u])
    BY <2>1 DEF PagesInv, TabsBehind
  <2>3. QED
    BY <1>2, <2>2 DEF TabsBehind, Behind
<1>6. LettersTell'
  <2>1. \A l \in Letters : letters'[l] # NoLetter => Tells(letters'[l])
    BY DEF PagesInv, LettersTell
  <2>2. QED
    BY <1>2, <2>1 DEF LettersTell, Tells
<1>7. QED
  BY <1>3, <1>4, <1>5, <1>6 DEF PagesInv

\* The request of a page that had the version of its decision.
LEMMA SentKeeps ==
  ASSUME PagesInv, UNCHANGED <<saved, gone, caches>>,
         NEW t \in Tabs, NEW decision \in Decision, NEW asked \in BOOLEAN, NEW version \in Versions,
         NEW page \in Tab, Behind(page), Sent(t, decision, asked, version, page),
         decision.kind = "save" => decision.name \in EntryNames,
         decision.kind = "restore" => decision.target \in 1..Latest,
         decision.kind = "delete" =>
           decision.base \in 1..Latest /\ decision.name = saved[decision.base],
         decision.kind # "delete" /\ ~asked => version = decision.base
  PROVE  PagesInv'
<1> DEFINE letter == [what |-> decision, asked |-> asked, version |-> version, state |-> "sent"]
<1>1. PICK l \in Letters : /\ letters[l] = NoLetter
                           /\ letters' = [letters EXCEPT ![l] = letter]
                           /\ tabs' = [tabs EXCEPT ![t] = [page EXCEPT !.letter = l]]
  BY DEF Sent
<1>2. /\ letter \in Letter /\ letter.what = decision /\ letter.asked = asked
      /\ letter.version = version
  BY DEF Letter
<1> HIDE DEF letter
<1>3. Tells(letter)
  BY <1>2 DEF Tells
<1> DEFINE tab == [page EXCEPT !.letter = l]
<1>4. /\ tab \in Tab /\ tab.target = page.target /\ tab.over = page.over
      /\ tab.waiting = page.waiting
  BY <1>1, Zenon DEF Tab
<1>5. tabs' = [tabs EXCEPT ![t] = tab]
  BY <1>1
<1> HIDE DEF tab
<1>6. Behind(tab)
  BY <1>4 DEF Behind
<1>7. /\ letters' \in [Letters -> Letter \cup {NoLetter}]
      /\ \A k \in Letters : letters'[k] = letters[k] \/ letters'[k] = letter
  BY <1>1, <1>2 DEF PagesInv, PagesTypeOK
<1>8. /\ caches' \in [Tabs -> [Queries -> Versions]]
      /\ \A u \in Tabs, q \in Queries : caches'[u][q] <= Latest
  BY DEF PagesInv, PagesTypeOK, CachesBehind
<1>9. QED
  BY <1>3, <1>4, <1>5, <1>6, <1>7, <1>8, TabKeeps

\* A tab that sends nothing, and whose request may have been answered.
LEMMA AloneKeeps ==
  ASSUME PagesInv, UNCHANGED <<saved, gone, caches>>,
         NEW t \in Tabs, NEW tab \in Tab, Behind(tab), tabs' = [tabs EXCEPT ![t] = tab],
         letters' = letters \/ \E l : letters' = [letters EXCEPT ![l] = NoLetter]
  PROVE  PagesInv'
<1>1. /\ letters' \in [Letters -> Letter \cup {NoLetter}]
      /\ \A k \in Letters : letters'[k] = letters[k] \/ letters'[k] = NoLetter
  BY DEF PagesInv, PagesTypeOK
<1>2. /\ caches' \in [Tabs -> [Queries -> Versions]]
      /\ \A u \in Tabs, q \in Queries : caches'[u][q] <= Latest
  BY DEF PagesInv, PagesTypeOK, CachesBehind
<1>3. QED
  BY <1>1, <1>2, TabKeeps

LEMMA LoadKeeps ==
  ASSUME PagesInv, NEW t \in Tabs, NEW q \in Queries, Load(t, q) PROVE PagesInv'
<1> DEFINE answer == IF gone /\ q # "history" THEN 0 ELSE Latest
<1>1. caches' = [caches EXCEPT ![t][q] = answer] /\ UNCHANGED <<saved, gone, tabs, letters>>
  BY DEF Load
<1>2. answer \in Versions /\ answer <= Latest
  BY PagesTypes DEF PagesInv
<1> HIDE DEF answer
<1>3. caches \in [Tabs -> [Queries -> Versions]]
  BY DEF PagesInv, PagesTypeOK
<1>4. caches' \in [Tabs -> [Queries -> Versions]]
  BY <1>1, <1>2, <1>3
<1>5. \A u \in Tabs, r \in Queries : caches'[u][r] = caches[u][r] \/ caches'[u][r] = answer
  BY <1>1, <1>3
<1>6. \A u \in Tabs, r \in Queries : caches'[u][r] <= Latest
  BY <1>2, <1>5 DEF PagesInv, CachesBehind
<1>7. tabs' = [tabs EXCEPT ![t] = tabs[t]] /\ tabs[t] \in Tab /\ Behind(tabs[t])
  BY <1>1 DEF PagesInv, PagesTypeOK, TabsBehind
<1>8. QED
  BY <1>1, <1>4, <1>6, <1>7, TabKeeps DEF PagesInv, PagesTypeOK

\* The edit page: a save, or another action, of the version that it shows.
LEMMA DecideKeeps ==
  ASSUME PagesInv, NEW t \in Tabs, NEW decision \in Decision, Decide(t, decision),
         decision.kind \in {"save", "act"}, decision.base = Shown(t),
         decision.kind = "save" => decision.name \in EntryNames
  PROVE  PagesInv'
<1>1. tabs[t] \in Tab /\ Behind(tabs[t]) /\ UNCHANGED <<saved, gone, caches>>
  BY DEF PagesInv, PagesTypeOK, TabsBehind, Decide
<1>2. Shown(t) \in Versions
  BY PagesTypes DEF PagesInv, Shown, Queries
<1>3. CASE tabs[t].asks
  <2> DEFINE tab == [tabs[t] EXCEPT !.waiting = decision]
  <2>1. tabs' = [tabs EXCEPT ![t].waiting = decision] /\ UNCHANGED letters
    BY <1>3 DEF Decide
  <2>2. tabs' = [tabs EXCEPT ![t] = tab]
    BY <2>1, Zenon
  <2>3. /\ tab \in Tab /\ tab.target = tabs[t].target /\ tab.over = tabs[t].over
        /\ tab.waiting = decision
    BY <1>1, Zenon DEF Tab
  <2> HIDE DEF tab
  <2>4. Behind(tab)
    BY <1>1, <2>3 DEF Behind
  <2>5. QED
    BY <1>1, <2>1, <2>2, <2>3, <2>4, AloneKeeps
<1>4. CASE ~tabs[t].asks
  <2>1. Sent(t, decision, FALSE, Shown(t), tabs[t]) /\ FALSE \in BOOLEAN
    BY <1>4 DEF Decide
  <2>2. QED
    BY <1>1, <1>2, <2>1, SentKeeps
<1>5. QED
  BY <1>3, <1>4

LEMMA SaveFormKeeps ==
  ASSUME PagesInv, NEW t \in Tabs, NEW name \in EntryNames, SaveForm(t, name)
  PROVE  PagesInv'
<1> DEFINE decision == [kind |-> "save", name |-> name, base |-> Shown(t), target |-> 0]
<1>1. Shown(t) \in Versions /\ 0 \in Versions
  BY PagesTypes DEF PagesInv, Shown, Queries
<1>2. /\ decision \in Decision /\ decision.kind = "save" /\ decision.name = name
      /\ decision.base = Shown(t)
  BY <1>1 DEF Decision
<1>3. Decide(t, decision)
  BY DEF SaveForm
<1> HIDE DEF decision
<1>4. QED
  BY <1>2, <1>3, DecideKeeps

LEMMA ActKeeps == ASSUME PagesInv, NEW t \in Tabs, Act(t) PROVE PagesInv'
<1> DEFINE decision == [kind |-> "act", name |-> Absent, base |-> Shown(t), target |-> 0]
<1>1. Shown(t) \in Versions /\ 0 \in Versions
  BY PagesTypes DEF PagesInv, Shown, Queries
<1>2. decision \in Decision /\ decision.kind = "act" /\ decision.base = Shown(t)
  BY <1>1 DEF Decision
<1>3. Decide(t, decision)
  BY DEF Act
<1> HIDE DEF decision
<1>4. QED
  BY <1>2, <1>3, DecideKeeps

LEMMA ContinueKeeps == ASSUME PagesInv, NEW t \in Tabs, Continue(t) PROVE PagesInv'
<1> DEFINE tab == [tabs[t] EXCEPT !.waiting = NoDecision]
<1>1. /\ tabs[t].waiting # NoDecision /\ Sent(t, tabs[t].waiting, TRUE, Shown(t), tab)
      /\ UNCHANGED <<saved, gone, caches>>
  BY DEF Continue
<1>2. tabs[t] \in Tab /\ Behind(tabs[t]) /\ Shown(t) \in Versions /\ TRUE \in BOOLEAN
  BY PagesTypes DEF PagesInv, TabsBehind, Shown, Queries
<1>3. tabs[t].waiting \in Decision
  BY <1>1, <1>2 DEF Tab
<1>4. /\ tab \in Tab /\ tab.target = tabs[t].target /\ tab.over = tabs[t].over
      /\ tab.waiting = NoDecision
  BY <1>2, Zenon DEF Tab
<1> HIDE DEF tab
<1>5. Behind(tab)
  BY <1>2, <1>4 DEF Behind
<1>6. /\ tabs[t].waiting.kind \in {"save", "act"}
      /\ tabs[t].waiting.kind = "save" => tabs[t].waiting.name \in EntryNames
  BY <1>1, <1>2 DEF Behind
<1>7. QED
  BY <1>1, <1>2, <1>3, <1>4, <1>5, <1>6, SentKeeps

LEMMA TypeNameKeeps == ASSUME PagesInv, NEW t \in Tabs, TypeName(t) PROVE PagesInv'
<1> DEFINE decision == [kind |-> "delete", name |-> saved[Shown(t)], base |-> Shown(t), target |-> 0]
<1>1. /\ Shown(t) \in Versions /\ Shown(t) <= Latest /\ 0 \in Versions /\ Shown(t) # 0
  BY PagesTypes DEF PagesInv, CachesBehind, Shown, Queries, TypeName, Ready
<1>2. Shown(t) \in 1..Latest
  BY <1>1, PagesTypes DEF PagesInv, Versions
<1>3. saved[Shown(t)] \in EntryNames
  BY <1>2, PagesTypes DEF PagesInv
<1>4. /\ decision \in Decision /\ decision.kind = "delete"
      /\ decision.name = saved[decision.base] /\ decision.base = Shown(t)
  BY <1>1, <1>3 DEF Decision
<1>5. /\ Sent(t, decision, FALSE, 0, tabs[t]) /\ UNCHANGED <<saved, gone, caches>>
  BY DEF TypeName
<1>6. tabs[t] \in Tab /\ Behind(tabs[t]) /\ FALSE \in BOOLEAN
  BY DEF PagesInv, PagesTypeOK, TabsBehind
<1> HIDE DEF decision
<1>7. QED
  BY <1>1, <1>2, <1>4, <1>5, <1>6, SentKeeps

LEMMA PreviewedKeeps ==
  ASSUME PagesInv, NEW t \in Tabs, NEW k \in Versions, NEW over \in Versions,
         k <= Latest, over <= Latest, Previewed(t, k, over)
  PROVE  PagesInv'
<1> DEFINE tab == [tabs[t] EXCEPT !.target = k, !.over = over]
<1>1. /\ tabs' = [tabs EXCEPT ![t].target = k, ![t].over = over]
      /\ UNCHANGED <<saved, gone, caches, letters>>
  BY DEF Previewed
<1>2. tabs \in [Tabs -> Tab] /\ tabs[t] \in Tab /\ Behind(tabs[t])
  BY DEF PagesInv, PagesTypeOK, TabsBehind
<1>3. tabs' = [tabs EXCEPT ![t] = tab]
  BY <1>1, <1>2, Zenon
<1>4. /\ tab \in Tab /\ tab.target = k /\ tab.over = over /\ tab.waiting = tabs[t].waiting
  BY <1>2, Zenon DEF Tab
<1> HIDE DEF tab
<1>5. Behind(tab)
  BY <1>2, <1>4 DEF Behind
<1>6. QED
  BY <1>1, <1>3, <1>4, <1>5, AloneKeeps

LEMMA PreviewKeeps ==
  ASSUME PagesInv, NEW t \in Tabs, NEW k \in 1..MaxRevisions,
         PreviewHere(t, k) \/ PreviewActivity(t, k)
  PROVE  PagesInv'
<1>1. /\ \A q \in Queries : caches[t][q] \in Versions /\ caches[t][q] <= Latest
      /\ "history" \in Queries /\ "activity" \in Queries /\ 0 \in Versions /\ Latest \in Nat
      /\ MaxRevisions \in Nat
  BY PagesTypes DEF PagesInv, CachesBehind, Queries
<1>2. k \in Versions /\ 0 <= Latest
  BY <1>1 DEF Versions
<1>3. CASE PreviewHere(t, k)
  <2>1. k <= Latest
    BY <1>1, <1>3 DEF PreviewHere, Versions
  <2>2. QED
    BY <1>1, <1>2, <1>3, <2>1, PreviewedKeeps DEF PreviewHere
<1>4. CASE PreviewActivity(t, k)
  <2>1. k <= Latest
    BY <1>1, <1>4 DEF PreviewActivity, Versions
  <2>2. QED
    BY <1>1, <1>2, <1>4, <2>1, PreviewedKeeps DEF PreviewActivity
<1>5. QED
  BY <1>3, <1>4

LEMMA ConfirmRestoreKeeps ==
  ASSUME PagesInv, NEW t \in Tabs, ConfirmRestore(t) PROVE PagesInv'
<1> DEFINE decision == [kind |-> "restore", name |-> Absent, base |-> Compared(t),
                        target |-> tabs[t].target]
<1>1. /\ tabs[t].target # 0 /\ Sent(t, decision, FALSE, RestoreOver(t), tabs[t])
      /\ UNCHANGED <<saved, gone, caches>>
  BY DEF ConfirmRestore
<1>2. /\ tabs[t] \in Tab /\ Behind(tabs[t]) /\ FALSE \in BOOLEAN /\ Shown(t) \in Versions
  BY PagesTypes DEF PagesInv, TabsBehind, Shown, Queries
<1>3. /\ tabs[t].target \in Versions /\ tabs[t].over \in Versions
  BY <1>2 DEF Tab
<1>4. tabs[t].target \in 1..Latest
  BY <1>1, <1>2, <1>3, PagesTypes DEF Behind, Versions, PagesInv
<1>5. Compared(t) \in Versions /\ RestoreOver(t) = Compared(t)
  BY <1>2, <1>3 DEF Compared, RestoreOver
<1>6. /\ decision \in Decision /\ decision.kind = "restore" /\ decision.base = Compared(t)
      /\ decision.target = tabs[t].target
  BY <1>3, <1>5 DEF Decision
<1> HIDE DEF decision
<1>7. QED
  BY <1>1, <1>2, <1>4, <1>5, <1>6, SentKeeps

\* The entry in a new revision, or gone; each request is as it was, answered
\* or forgotten.
LEMMA EntryKeeps ==
  ASSUME PagesInv, UNCHANGED <<caches, tabs>>, gone' \in BOOLEAN,
         \/ saved' = saved
         \/ Latest < MaxRevisions /\ \E name \in EntryNames : saved' = Append(saved, name),
         letters' \in [Letters -> Letter \cup {NoLetter}],
         \A l \in Letters : letters'[l] # NoLetter =>
           /\ letters[l] # NoLetter /\ letters'[l].what = letters[l].what
           /\ letters'[l].version = letters[l].version /\ letters'[l].asked = letters[l].asked
  PROVE  PagesInv'
<1>1. /\ saved \in Seq(EntryNames) /\ Latest \in 1..MaxRevisions /\ Latest = Len(saved)
      /\ Latest \in Nat /\ MaxRevisions \in Nat
  BY PagesTypes DEF PagesInv
<1>2. /\ saved' \in Seq(EntryNames) /\ Latest' \in 1..MaxRevisions /\ Latest <= Latest'
      /\ \A k \in 1..Latest : k \in 1..Latest' /\ saved'[k] = saved[k]
  <2>1. CASE saved' = saved
    BY <1>1, <2>1 DEF Latest
  <2>2. ASSUME NEW name \in EntryNames, saved' = Append(saved, name), Latest < MaxRevisions
        PROVE  /\ saved' \in Seq(EntryNames) /\ Latest' \in 1..MaxRevisions /\ Latest <= Latest'
               /\ \A k \in 1..Latest : k \in 1..Latest' /\ saved'[k] = saved[k]
    <3>1. /\ saved' \in Seq(EntryNames) /\ Len(saved') = Len(saved) + 1
          /\ \A k \in 1..Len(saved) : saved'[k] = saved[k]
      BY <1>1, <2>2, AppendProperties
    <3>2. Latest' = Latest + 1
      BY <1>1, <3>1 DEF Latest
    <3>3. QED
      BY <1>1, <2>2, <3>1, <3>2
  <2>3. QED
    BY <2>1, <2>2
<1>3. PagesTypeOK'
  BY <1>2 DEF PagesInv, PagesTypeOK
<1>4. CachesBehind'
  <2>1. \A t \in Tabs, q \in Queries : caches[t][q] \in Nat /\ caches[t][q] <= Latest
    BY PagesTypes DEF PagesInv, CachesBehind, Versions
  <2>2. QED
    BY <1>1, <1>2, <2>1 DEF CachesBehind
<1>5. TabsBehind'
  <2>1. \A t \in Tabs : /\ tabs[t].target \in Nat /\ tabs[t].over \in Nat /\ Behind(tabs[t])
    BY PagesTypes DEF PagesInv, TabsBehind, Tab, Versions
  <2>2. \A t \in Tabs : (Behind(tabs[t]))'
    BY <1>1, <1>2, <2>1 DEF Behind
  <2>3. QED
    BY <2>2 DEF TabsBehind
<1>6. LettersTell'
  <2>1. ASSUME NEW l \in Letters, letters'[l] # NoLetter PROVE (Tells(letters[l]))'
    <3>1. Tells(letters[l])
      BY <2>1 DEF PagesInv, LettersTell
    <3>2. QED
      BY <1>2, <2>1, <3>1 DEF Tells
  <2>2. QED
    BY <2>1 DEF LettersTell
<1>7. QED
  BY <1>3, <1>4, <1>5, <1>6 DEF PagesInv

LEMMA AnsweredKeeps ==
  ASSUME PagesInv, NEW l \in Letters, Waits(l), NEW state \in {"done", "refused"},
         Answered(l, state)
  PROVE  /\ letters' \in [Letters -> Letter \cup {NoLetter}]
         /\ \A k \in Letters : letters'[k] # NoLetter =>
              /\ letters[k] # NoLetter /\ letters'[k].what = letters[k].what
              /\ letters'[k].version = letters[k].version /\ letters'[k].asked = letters[k].asked
<1> DEFINE answered == [letters[l] EXCEPT !.state = state]
<1>1. letters \in [Letters -> Letter \cup {NoLetter}]
  BY DEF PagesInv, PagesTypeOK
<1>2. letters[l] \in Letter /\ letters[l] # NoLetter
  BY <1>1, NothingDecided DEF Waits
<1>3. /\ answered \in Letter /\ answered.what = letters[l].what
      /\ answered.version = letters[l].version /\ answered.asked = letters[l].asked
  <2>1. state \in {"sent", "done", "refused"}
    OBVIOUS
  <2>2. QED
    BY <1>2, <2>1, Zenon DEF Letter
<1>4. \/ letters' = [letters EXCEPT ![l] = answered]
      \/ letters' = [letters EXCEPT ![l] = NoLetter]
  BY DEF Answered
<1> HIDE DEF answered
<1>5. QED
  BY <1>1, <1>2, <1>3, <1>4

LEMMA ChangeKeeps == ASSUME PagesInv, NEW l \in Letters, Change(l) PROVE PagesInv'
<1>1. /\ Waits(l) /\ letters[l].what.kind # "delete" /\ Latest < MaxRevisions
      /\ saved' = Append(saved, NameAfter(letters[l].what)) /\ Answered(l, "done")
      /\ UNCHANGED <<gone, caches, tabs>>
  BY DEF Change, Changing
<1>2. letters[l] \in Letter /\ letters[l] # NoLetter
  BY <1>1, PagesTypes, NothingDecided DEF PagesInv, Waits
<1>3. letters[l].what.kind \in {"save", "act", "restore"}
  BY <1>1, <1>2 DEF Letter, Decision
<1>4. NameAfter(letters[l].what) \in EntryNames
  <2>1. /\ letters[l].what.kind = "save" => letters[l].what.name \in EntryNames
        /\ letters[l].what.kind = "restore" => letters[l].what.target \in 1..Latest
    BY <1>2 DEF PagesInv, LettersTell, Tells
  <2>2. Latest \in 1..Latest /\ \A k \in 1..Latest : saved[k] \in EntryNames
    BY PagesTypes DEF PagesInv
  <2>3. QED
    BY <1>3, <2>1, <2>2 DEF NameAfter
<1>5. /\ letters' \in [Letters -> Letter \cup {NoLetter}]
      /\ \A k \in Letters : letters'[k] # NoLetter =>
           /\ letters[k] # NoLetter /\ letters'[k].what = letters[k].what
           /\ letters'[k].version = letters[k].version /\ letters'[k].asked = letters[k].asked
  BY <1>1, AnsweredKeeps
<1>6. gone' \in BOOLEAN
  BY <1>1 DEF PagesInv, PagesTypeOK
<1>7. QED
  BY <1>1, <1>4, <1>5, <1>6, EntryKeeps

LEMMA AnswerKeeps ==
  ASSUME PagesInv, NEW l \in Letters, Remove(l) \/ Refuse(l) PROVE PagesInv'
<1>1. /\ Waits(l) /\ \E state \in {"done", "refused"} : Answered(l, state)
      /\ gone' \in BOOLEAN /\ UNCHANGED <<saved, caches, tabs>>
  BY DEF Remove, Refuse, PagesInv, PagesTypeOK
<1>2. /\ letters' \in [Letters -> Letter \cup {NoLetter}]
      /\ \A k \in Letters : letters'[k] # NoLetter =>
           /\ letters[k] # NoLetter /\ letters'[k].what = letters[k].what
           /\ letters'[k].version = letters[k].version /\ letters'[k].asked = letters[k].asked
  BY <1>1, AnsweredKeeps
<1>3. QED
  BY <1>1, <1>2, EntryKeeps

LEMMA ElsewhereKeeps ==
  ASSUME PagesInv, NEW name \in EntryNames, ChangeElsewhere(name) PROVE PagesInv'
<1>1. /\ Latest < MaxRevisions /\ saved' = Append(saved, name)
      /\ UNCHANGED <<gone, caches, tabs, letters>>
  BY DEF ChangeElsewhere
<1>2. letters \in [Letters -> Letter \cup {NoLetter}] /\ gone \in BOOLEAN
  BY DEF PagesInv, PagesTypeOK
<1>3. QED
  BY <1>1, <1>2, EntryKeeps

LEMMA EndKeeps ==
  ASSUME PagesInv, NEW t \in Tabs, Hear(t) \/ GiveUp(t) \/ Cancel(t) PROVE PagesInv'
<1>1. /\ tabs \in [Tabs -> Tab] /\ tabs[t] \in Tab /\ Behind(tabs[t])
  BY DEF PagesInv, PagesTypeOK, TabsBehind
<1> DEFINE silent == [tabs[t] EXCEPT !.letter = Absent]
           calm == [tabs[t] EXCEPT !.waiting = NoDecision]
<1>2. /\ silent \in Tab /\ silent.target = tabs[t].target /\ silent.over = tabs[t].over
      /\ silent.waiting = tabs[t].waiting
      /\ calm \in Tab /\ calm.target = tabs[t].target /\ calm.over = tabs[t].over
      /\ calm.waiting = NoDecision
  BY <1>1, Zenon DEF Tab
<1>3. CASE Hear(t)
  <2> DEFINE tab == IF letters[tabs[t].letter].state = "refused" THEN silent
                    ELSE IF letters[tabs[t].letter].what.kind \in {"save", "delete"}
                         THEN OpenedOn("elsewhere", FALSE)
                         ELSE OpenedOn(tabs[t].page, tabs[t].asks)
  <2>1. /\ tabs' = [tabs EXCEPT ![t] = tab]
        /\ letters' = [letters EXCEPT ![tabs[t].letter] = NoLetter]
        /\ UNCHANGED <<saved, gone, caches>>
    BY <1>3 DEF Hear
  <2> HIDE DEF silent, calm
  <2>2. tabs[t].page \in DOMAIN QueriesOf /\ tabs[t].asks \in BOOLEAN
    BY <1>1 DEF Tab
  <2>3. "elsewhere" \in DOMAIN QueriesOf /\ FALSE \in BOOLEAN
    BY DEF QueriesOf
  <2>4. /\ OpenedOn("elsewhere", FALSE) \in Tab /\ Behind(OpenedOn("elsewhere", FALSE))
        /\ OpenedOn(tabs[t].page, tabs[t].asks) \in Tab
        /\ Behind(OpenedOn(tabs[t].page, tabs[t].asks))
    BY <2>2, <2>3, OpenedBehind DEF PagesInv
  <2>5. Behind(silent)
    BY <1>1, <1>2 DEF Behind
  <2>6. tab \in Tab /\ Behind(tab)
    BY <1>2, <2>4, <2>5
  <2> HIDE DEF tab
  <2>7. QED
    BY <2>1, <2>6, AloneKeeps
<1>4. CASE GiveUp(t)
  <2>1. /\ tabs' = [tabs EXCEPT ![t].letter = Absent] /\ UNCHANGED <<saved, gone, caches>>
        /\ letters' = letters \/ \E l : letters' = [letters EXCEPT ![l] = NoLetter]
    BY <1>4 DEF GiveUp
  <2>2. tabs' = [tabs EXCEPT ![t] = silent]
    BY <2>1, Zenon
  <2> HIDE DEF silent, calm
  <2>3. Behind(silent)
    BY <1>1, <1>2 DEF Behind
  <2>4. QED
    BY <1>2, <2>1, <2>2, <2>3, AloneKeeps
<1>5. CASE Cancel(t)
  <2>1. /\ tabs' = [tabs EXCEPT ![t].waiting = NoDecision]
        /\ UNCHANGED <<saved, gone, caches, letters>>
    BY <1>5 DEF Cancel
  <2>2. tabs' = [tabs EXCEPT ![t] = calm]
    BY <2>1, Zenon
  <2> HIDE DEF silent, calm
  <2>3. Behind(calm)
    BY <1>1, <1>2 DEF Behind
  <2>4. QED
    BY <1>2, <2>1, <2>2, <2>3, AloneKeeps
<1>6. QED
  BY <1>3, <1>4, <1>5

LEMMA PagesInvStep == PagesInv /\ [PagesNext]_pagesVars => PagesInv'
<1> SUFFICES ASSUME PagesInv, [PagesNext]_pagesVars PROVE PagesInv'
  OBVIOUS
<1>1. ASSUME NEW t \in Tabs, NEW page \in DOMAIN QueriesOf, NEW asks \in BOOLEAN,
             Visit(t, page, asks)
      PROVE  PagesInv'
  <2>1. /\ tabs' = [tabs EXCEPT ![t] = OpenedOn(page, asks)]
        /\ UNCHANGED <<saved, gone, caches, letters>>
    BY <1>1 DEF Visit
  <2>2. OpenedOn(page, asks) \in Tab /\ Behind(OpenedOn(page, asks))
    BY OpenedBehind DEF PagesInv
  <2>3. QED
    BY <2>1, <2>2, AloneKeeps
<1>2. ASSUME NEW t \in Tabs, Dismiss(t) PROVE PagesInv'
  <2>1. Previewed(t, 0, 0) /\ 0 \in Versions /\ 0 <= Latest
    BY <1>2, PagesTypes DEF Dismiss, PagesInv
  <2>2. QED
    BY <2>1, PreviewedKeeps
<1>3. ASSUME NEW t \in Tabs, TabStep(t) PROVE PagesInv'
  BY <1>1, <1>2, <1>3, LoadKeeps, SaveFormKeeps, ActKeeps, ContinueKeeps, TypeNameKeeps,
     PreviewKeeps, ConfirmRestoreKeeps, EndKeeps DEF TabStep
<1>4. CASE UNCHANGED pagesVars
  <2>1. UNCHANGED <<saved, gone, caches, tabs, letters>>
    BY <1>4 DEF pagesVars
  <2>2. letters' \in [Letters -> Letter \cup {NoLetter}] /\ gone' \in BOOLEAN
    BY <2>1 DEF PagesInv, PagesTypeOK
  <2>3. QED
    BY <2>1, <2>2, EntryKeeps
<1>5. QED
  BY <1>3, <1>4, ChangeKeeps, AnswerKeeps, ElsewhereKeeps DEF PagesNext

LEMMA PagesInvDecides ==
  ASSUME PagesInv, NEW l \in Letters
  PROVE  /\ Change(l) /\ ~letters[l].asked => letters[l].what.base = Latest
         /\ Remove(l) => saved[letters[l].what.base] = saved[Latest]
<1>1. Waits(l) => letters[l] # NoLetter
  BY NothingDecided DEF Waits
<1>2. letters[l] # NoLetter => Tells(letters[l])
  BY DEF PagesInv, LettersTell
<1>3. ASSUME Change(l), ~letters[l].asked PROVE letters[l].what.base = Latest
  BY <1>1, <1>2, <1>3 DEF Change, Changing, UnchangedSince, Tells
<1>4. ASSUME Remove(l) PROVE saved[letters[l].what.base] = saved[Latest]
  BY <1>1, <1>2, <1>4 DEF Remove, Confirmed, Tells
<1>5. QED
  BY <1>3, <1>4

\* What tabs, queries and requests hold is of its kind.
THEOREM PagesTypesKept == PagesSpec => []PagesTypeOK
<1>1. PagesInv => PagesTypeOK
  BY DEF PagesInv
<1>2. QED
  BY <1>1, PagesInvInit, PagesInvStep, PTL DEF PagesSpec

\* Of any number of tabs and requests, whoever is not asked for a reason changes
\* or restores the revision that the page showed, and an entry is deleted under
\* the name that was typed (lockedEntry, DeleteListingDialog).
THEOREM PagesDecideOnShown == PagesSpec => DecidedOnShown
<1>1. PagesInv =>
        \A l \in Letters :
          /\ Change(l) /\ ~letters[l].asked => letters[l].what.base = Latest
          /\ Remove(l) => saved[letters[l].what.base] = saved[Latest]
  BY PagesInvDecides
<1>2. QED
  BY <1>1, PagesInvInit, PagesInvStep, PTL DEF PagesSpec, DecidedOnShown

------------------------------------------------------------------------------
(* OwnershipPages.  Whoever read the present version read the present owner,   *)
(* and an offer replaces the owner that staff saw.                             *)

\* What the dialog was told is true of the version that it was told of.
True(told) ==
  /\ told.version <= entry.version
  /\ told.version = entry.version => told.owner = entry.owner
  /\ told.pending \in 0..Len(offers)

SheetTrue == sheet.data # NoAssignment => True(sheet.data)

PostTrue(d, post) ==
  /\ post.kind \in {"propose", "no-account"} =>
       /\ d = Unowned
       /\ True(post.shown) /\ post.shown.version = post.version
       /\ post.kind = "propose" => post.to \in People
  /\ post.kind \in {"cancel", "accept", "decline"} => post.offer \in 1..Len(offers)
  /\ post.kind \in {"accept", "decline"} => d \in People

PostsTrue == \A d \in Desks : PostTrue(d, posts[d])
OffersSeen == \A i \in 1..Len(offers) : offers[i].seen = offers[i].prior
InboxesKnown == \A p \in People : inboxes[p].shown \subseteq 1..Len(offers)

AssignInv == AssignTypeOK /\ SheetTrue /\ PostsTrue /\ OffersSeen /\ InboxesKnown

LEMMA NothingAssigned ==
  /\ NoAssignment \notin Assignment /\ NoAssignment.version = 0
  /\ NoPost \notin Post /\ NoPost.kind = "none" /\ Unowned \notin People
<1>1. /\ "owner" \notin DOMAIN NoAssignment
      /\ \A a \in Assignment : "owner" \in DOMAIN a
  BY DEF NoAssignment, Assignment
<1>2. \A p \in Post : p.kind \in {"propose", "no-account", "cancel", "accept", "decline"}
  BY DEF Post
<1>3. NoAssignment.version = 0 /\ NoPost.kind = "none"
  BY DEF NoAssignment, NoPost
<1>4. QED
  BY <1>1, <1>2, <1>3, OwnershipPagesAssumption

LEMMA AssignTypes ==
  ASSUME AssignTypeOK
  PROVE  /\ entry \in [version : 1..MaxOwnings, owner : Owner]
         /\ entry.version \in 1..MaxOwnings /\ entry.version \in Nat /\ entry.owner \in Owner
         /\ offers \in Seq(Offer) /\ Len(offers) \in Nat /\ Len(offers) <= MaxOffers
         /\ MaxOffers \in Nat /\ MaxOwnings \in Nat
         /\ \A i \in 1..Len(offers) : offers[i] \in Offer /\ i \in Ids
         /\ sheet \in Sheet /\ sheet.version \in Nat
         /\ sheet.data \in Assignment \cup {NoAssignment}
         /\ \A p \in People : inboxes[p].shown \in SUBSET Ids /\ inboxes[p].consent \in SUBSET Ids
         /\ \A d \in Desks : posts[d] \in Post \cup {NoPost}
<1>1. /\ entry \in [version : 1..MaxOwnings, owner : Owner]
      /\ offers \in Seq(Offer) /\ Len(offers) <= MaxOffers /\ sheet \in Sheet
      /\ inboxes \in [People -> [shown : SUBSET Ids, consent : SUBSET Ids]]
      /\ posts \in [Desks -> Post \cup {NoPost}]
      /\ MaxOffers \in Nat /\ MaxOwnings \in Nat
  BY OwnershipPagesAssumption DEF AssignTypeOK
<1>2. entry.version \in 1..MaxOwnings /\ entry.version \in Nat /\ entry.owner \in Owner
  BY <1>1
<1>3. Len(offers) \in Nat /\ \A i \in 1..Len(offers) : offers[i] \in Offer /\ i \in Ids
  BY <1>1 DEF Ids
<1>4. sheet.version \in Nat /\ sheet.data \in Assignment \cup {NoAssignment}
  BY <1>1 DEF Sheet
<1>5. \A p \in People : inboxes[p].shown \in SUBSET Ids /\ inboxes[p].consent \in SUBSET Ids
  BY <1>1
<1>6. QED
  BY <1>1, <1>2, <1>3, <1>4, <1>5

LEMMA AssignInvInit == AssignInit => AssignInv
<1> SUFFICES ASSUME AssignInit PROVE AssignInv
  OBVIOUS
<1>1. /\ entry = [version |-> 1, owner |-> Unowned] /\ offers = <<>>
      /\ sheet = [open |-> FALSE, version |-> 0, data |-> NoAssignment]
      /\ inboxes = [p \in People |-> [shown |-> {}, consent |-> {}]]
      /\ posts = [d \in Desks |-> NoPost]
  BY DEF AssignInit
<1>2. offers \in Seq(Offer) /\ Len(offers) = 0 /\ Len(offers) <= MaxOffers
  BY <1>1, OwnershipPagesAssumption
<1>3. entry \in [version : 1..MaxOwnings, owner : Owner]
  BY <1>1, OwnershipPagesAssumption DEF Owner
<1>4. sheet \in Sheet /\ sheet.data = NoAssignment
  BY <1>1 DEF Sheet
<1>5. inboxes \in [People -> [shown : SUBSET Ids, consent : SUBSET Ids]]
  BY <1>1
<1>6. AssignTypeOK
  BY <1>1, <1>2, <1>3, <1>4, <1>5 DEF AssignTypeOK
<1>7. SheetTrue /\ OffersSeen
  BY <1>2, <1>4 DEF SheetTrue, OffersSeen
<1>8. PostsTrue
  BY <1>1, NothingAssigned DEF PostsTrue, PostTrue
<1>9. InboxesKnown
  BY <1>1 DEF InboxesKnown
<1>10. QED
  BY <1>6, <1>7, <1>8, <1>9 DEF AssignInv

\* While the entry stays and no offer goes, what was true of them still is.
LEMMA TrueKept ==
  ASSUME AssignTypeOK, entry' = entry, Len(offers') \in Nat, Len(offers) <= Len(offers'),
         NEW told, True(told)
  PROVE  (True(told))'
<1>1. told.pending \in 0..Len(offers')
  BY AssignTypes DEF True
<1>2. QED
  BY <1>1 DEF True

\* A change of the entry makes what was told a thing of the past.
LEMMA TruePast ==
  ASSUME AssignTypeOK, entry'.version = entry.version + 1, Len(offers') = Len(offers),
         NEW told, told.version \in Nat, True(told)
  PROVE  (True(told))'
<1>1. told.version <= entry.version /\ entry.version \in Nat
  BY AssignTypes DEF True
<1>2. told.version <= entry'.version /\ told.version # entry'.version
  BY <1>1
<1>3. QED
  BY <1>2 DEF True

\* What the dialog, the inboxes and the requests may become while the entry and
\* the offers stay.
LEMMA ReadersKeep ==
  ASSUME AssignInv, UNCHANGED <<entry, offers>>,
         sheet' \in Sheet, sheet'.data # NoAssignment => True(sheet'.data),
         inboxes' \in [People -> [shown : SUBSET Ids, consent : SUBSET Ids]],
         \A p \in People : inboxes'[p].shown \subseteq 1..Len(offers),
         posts' \in [Desks -> Post \cup {NoPost}],
         \A d \in Desks : posts'[d] = posts[d] \/ posts'[d] = NoPost
                            \/ PostTrue(d, posts'[d])
  PROVE  AssignInv'
<1>1. AssignTypeOK'
  BY DEF AssignInv, AssignTypeOK
<1>2. SheetTrue'
  BY DEF SheetTrue, True
<1>3. PostsTrue'
  <2>1. \A d \in Desks : PostTrue(d, NoPost)
    BY NothingAssigned DEF PostTrue
  <2>2. \A d \in Desks : PostTrue(d, posts'[d])
    BY <2>1 DEF AssignInv, PostsTrue
  <2>3. QED
    BY <2>2 DEF PostsTrue, PostTrue, True
<1>4. OffersSeen' /\ InboxesKnown'
  BY DEF AssignInv, OffersSeen, InboxesKnown
<1>5. QED
  BY <1>1, <1>2, <1>3, <1>4 DEF AssignInv

LEMMA SheetKeeps ==
  ASSUME AssignInv, LoadEntry \/ LoadAssignment \/ OpenSheet \/ CloseSheet PROVE AssignInv'
<1>1. /\ sheet \in Sheet /\ sheet.data \in Assignment \cup {NoAssignment}
      /\ entry.version \in Nat /\ entry.owner \in Owner /\ offers \in Seq(Offer)
      /\ Len(offers) \in Nat
  BY AssignTypes DEF AssignInv
<1>2. sheet.data # NoAssignment => True(sheet.data)
  BY DEF AssignInv, SheetTrue
<1>3. /\ UNCHANGED <<entry, offers, inboxes, posts>>
      /\ sheet' \in Sheet /\ (sheet'.data # NoAssignment => True(sheet'.data))
  <2>1. CASE LoadEntry
    <3> DEFINE data == IF sheet.version = entry.version THEN sheet.data ELSE NoAssignment
               new == [sheet EXCEPT !.version = entry.version, !.data = data]
    <3>1. sheet' = new /\ UNCHANGED <<entry, offers, inboxes, posts>>
      BY <2>1 DEF LoadEntry
    <3>2. data \in Assignment \cup {NoAssignment} /\ (data # NoAssignment => True(data))
      BY <1>1, <1>2
    <3> HIDE DEF data
    <3>3. new \in Sheet /\ new.data = data
      BY <1>1, <3>2, Zenon DEF Sheet
    <3> HIDE DEF new
    <3>4. QED
      BY <3>1, <3>2, <3>3
  <2>2. CASE LoadAssignment
    <3> DEFINE pending == IF Outstanding = {} THEN 0 ELSE CHOOSE i \in Outstanding : TRUE
               data == [version |-> entry.version, owner |-> entry.owner, pending |-> pending]
               new == [sheet EXCEPT !.data = data]
    <3>1. sheet' = new /\ UNCHANGED <<entry, offers, inboxes, posts>>
      BY <2>2 DEF LoadAssignment
    <3>2. pending \in 0..Len(offers) /\ pending \in Ids
      <4>1. Outstanding \subseteq 1..Len(offers)
        BY <1>1 DEF Outstanding
      <4>2. Outstanding # {} => (CHOOSE i \in Outstanding : TRUE) \in Outstanding
        OBVIOUS
      <4>3. pending = 0 \/ pending \in Outstanding
        BY <4>2
      <4> HIDE DEF pending
      <4>4. 0 \in 0..Len(offers) /\ 1..Len(offers) \subseteq 0..Len(offers)
        BY <1>1
      <4>5. pending \in 0..Len(offers)
        BY <4>1, <4>3, <4>4
      <4>6. QED
        BY <1>1, <4>5, AssignTypes DEF Ids, AssignInv
    <3> HIDE DEF pending
    <3>3. data \in Assignment /\ True(data)
      BY <1>1, <3>2 DEF Assignment, True
    <3> HIDE DEF data
    <3>4. new \in Sheet /\ new.data = data
      BY <1>1, <3>3, Zenon DEF Sheet
    <3> HIDE DEF new
    <3>5. QED
      BY <3>1, <3>3, <3>4
  <2>3. CASE OpenSheet \/ CloseSheet
    <3>1. PICK open \in BOOLEAN : sheet' = [sheet EXCEPT !.open = open]
      BY <2>3 DEF OpenSheet, CloseSheet
    <3> DEFINE new == [sheet EXCEPT !.open = open]
    <3>2. new \in Sheet /\ new.data = sheet.data
      BY <1>1, Zenon DEF Sheet
    <3> HIDE DEF new
    <3>3. QED
      BY <1>2, <2>3, <3>1, <3>2 DEF OpenSheet, CloseSheet, new
  <2>4. QED
    BY <2>1, <2>2, <2>3
<1>4. /\ inboxes' \in [People -> [shown : SUBSET Ids, consent : SUBSET Ids]]
      /\ \A p \in People : inboxes'[p].shown \subseteq 1..Len(offers)
      /\ posts' \in [Desks -> Post \cup {NoPost}]
  BY <1>3 DEF AssignInv, AssignTypeOK, InboxesKnown
<1>5. QED
  BY <1>3, <1>4, ReadersKeep

LEMMA InboxKeeps ==
  ASSUME AssignInv, NEW p \in People,
         LoadInbox(p) \/ TurnPage(p) \/ \E i \in 1..MaxOffers : Tick(p, i)
  PROVE  AssignInv'
<1>1. /\ inboxes \in [People -> [shown : SUBSET Ids, consent : SUBSET Ids]]
      /\ posts \in [Desks -> Post \cup {NoPost}] /\ sheet \in Sheet
      /\ offers \in Seq(Offer) /\ Len(offers) \in Nat /\ Len(offers) <= MaxOffers
      /\ MaxOffers \in Nat
  BY AssignTypes DEF AssignInv, AssignTypeOK
<1>2. inboxes[p].shown \in SUBSET Ids /\ inboxes[p].consent \in SUBSET Ids
  BY <1>1
<1>3. 1..MaxOffers \subseteq Ids /\ {} \in SUBSET Ids
  BY <1>1 DEF Ids
<1>4. /\ UNCHANGED <<entry, offers, sheet, posts>>
      /\ \E box \in [shown : SUBSET Ids, consent : SUBSET Ids] :
           /\ inboxes' = [inboxes EXCEPT ![p] = box]
           /\ box.shown \subseteq 1..Len(offers)
  <2>1. CASE LoadInbox(p)
    <3> DEFINE shown == {j \in Outstanding : offers[j].to = p}
               box == [inboxes[p] EXCEPT !.shown = shown]
    <3>1. /\ inboxes' = [inboxes EXCEPT ![p].shown = shown]
          /\ UNCHANGED <<entry, offers, sheet, posts>>
      BY <2>1 DEF LoadInbox
    <3>2. shown \subseteq 1..Len(offers) /\ shown \in SUBSET Ids
      BY <1>1 DEF Outstanding, Ids
    <3> HIDE DEF shown
    <3>3. inboxes' = [inboxes EXCEPT ![p] = box]
      BY <3>1, Zenon
    <3>4. box \in [shown : SUBSET Ids, consent : SUBSET Ids] /\ box.shown = shown
      BY <1>1, <3>2, Zenon
    <3> HIDE DEF box
    <3>5. QED
      BY <3>1, <3>2, <3>3, <3>4
  <2>2. CASE TurnPage(p) \/ \E i \in 1..MaxOffers : Tick(p, i)
    <3>1. /\ UNCHANGED <<entry, offers, sheet, posts>>
          /\ \E consent \in SUBSET Ids : inboxes' = [inboxes EXCEPT ![p].consent = consent]
      <4>1. CASE TurnPage(p)
        BY <1>3, <4>1 DEF TurnPage
      <4>2. ASSUME NEW i \in 1..MaxOffers, Tick(p, i)
            PROVE  /\ UNCHANGED <<entry, offers, sheet, posts>>
                   /\ \E consent \in SUBSET Ids :
                        inboxes' = [inboxes EXCEPT ![p].consent = consent]
        <5> DEFINE was == inboxes[p].consent
                   consent == IF i \in was THEN was \ {i} ELSE was \cup {i}
        <5>1. inboxes' = [inboxes EXCEPT ![p].consent = consent]
          BY <4>2, Zenon DEF Tick
        <5>2. consent \in SUBSET Ids
          BY <1>2, <1>3
        <5> HIDE DEF consent
        <5>3. QED
          BY <4>2, <5>1, <5>2 DEF Tick
      <4>3. QED
        BY <2>2, <4>1, <4>2
    <3>2. PICK consent \in SUBSET Ids : inboxes' = [inboxes EXCEPT ![p].consent = consent]
      BY <3>1
    <3> DEFINE box == [inboxes[p] EXCEPT !.consent = consent]
    <3>3. inboxes' = [inboxes EXCEPT ![p] = box]
      BY <3>2, Zenon
    <3>4. /\ box \in [shown : SUBSET Ids, consent : SUBSET Ids]
          /\ box.shown = inboxes[p].shown
      BY <1>1, Zenon
    <3> HIDE DEF box
    <3>5. box.shown \subseteq 1..Len(offers)
      BY <3>4 DEF AssignInv, InboxesKnown
    <3>6. QED
      BY <3>1, <3>3, <3>4, <3>5
  <2>3. QED
    BY <2>1, <2>2
<1>5. PICK box \in [shown : SUBSET Ids, consent : SUBSET Ids] :
        /\ inboxes' = [inboxes EXCEPT ![p] = box]
        /\ box.shown \subseteq 1..Len(offers)
  BY <1>4
<1>6. /\ inboxes' \in [People -> [shown : SUBSET Ids, consent : SUBSET Ids]]
      /\ \A q \in People : inboxes'[q] = IF q = p THEN box ELSE inboxes[q]
  BY <1>1, <1>5
<1>7. \A q \in People : inboxes'[q].shown \subseteq 1..Len(offers)
  BY <1>5, <1>6 DEF AssignInv, InboxesKnown
<1>8. sheet' = sheet /\ posts' = posts /\ (sheet.data # NoAssignment => True(sheet.data))
  BY <1>4 DEF AssignInv, SheetTrue
<1>9. QED
  BY <1>1, <1>4, <1>6, <1>7, <1>8, ReadersKeep

LEMMA AskedKeeps ==
  ASSUME AssignInv, NEW d \in Desks, NEW post \in Post, Asked(d, post), PostTrue(d, post)
  PROVE  AssignInv'
<1>1. /\ posts' = [posts EXCEPT ![d] = post] /\ UNCHANGED <<entry, offers, sheet, inboxes>>
  BY DEF Asked
<1>2. /\ posts' \in [Desks -> Post \cup {NoPost}]
      /\ \A e \in Desks : posts'[e] = posts[e] \/ (e = d /\ posts'[e] = post)
  BY <1>1 DEF AssignInv, AssignTypeOK
<1>3. /\ sheet' \in Sheet /\ (sheet'.data # NoAssignment => True(sheet'.data))
      /\ inboxes' \in [People -> [shown : SUBSET Ids, consent : SUBSET Ids]]
      /\ \A p \in People : inboxes'[p].shown \subseteq 1..Len(offers)
  BY <1>1 DEF AssignInv, AssignTypeOK, SheetTrue, InboxesKnown
<1>4. QED
  BY <1>1, <1>2, <1>3, ReadersKeep

LEMMA AskKeeps ==
  ASSUME AssignInv,
         \/ AskNoAccount \/ AskCancel
         \/ \E p \in People : AskAccount(p)
         \/ \E p \in People, i \in 1..MaxOffers : AskAccept(p, i) \/ AskDecline(p, i)
  PROVE  AssignInv'
<1>1. /\ sheet.data \in Assignment \cup {NoAssignment} /\ sheet.version \in Nat
      /\ Unowned \in Desks /\ \A p \in People : p \in Desks /\ p \in Owner
      /\ Unowned \in Owner
  BY AssignTypes DEF AssignInv, Desks, Owner
<1>2. sheet.data # NoAssignment => True(sheet.data) /\ sheet.data \in Assignment
  BY <1>1 DEF AssignInv, SheetTrue
<1>3. CASE \E p \in People : AskAccount(p)
  <2>1. PICK p \in People : AskAccount(p)
    BY <1>3
  <2> DEFINE post == [kind |-> "propose", to |-> p, shown |-> sheet.data, version |-> sheet.version]
  <2>2. Asked(Unowned, post) /\ FormReady
    BY <2>1 DEF AskAccount
  <2>3. post \in Post
    BY <1>1, <1>2, <2>2 DEF Post, FormReady
  <2>4. PostTrue(Unowned, post)
    BY <1>2, <2>2 DEF PostTrue, FormReady
  <2> HIDE DEF post
  <2>5. QED
    BY <1>1, <2>2, <2>3, <2>4, AskedKeeps
<1>4. CASE AskNoAccount
  <2> DEFINE post == [kind |-> "no-account", to |-> Unowned, shown |-> sheet.data,
                      version |-> sheet.version]
  <2>1. Asked(Unowned, post) /\ FormReady
    BY <1>4 DEF AskNoAccount
  <2>2. post \in Post
    BY <1>1, <1>2, <2>1 DEF Post, FormReady
  <2>3. PostTrue(Unowned, post)
    BY <1>2, <2>1 DEF PostTrue, FormReady
  <2> HIDE DEF post
  <2>4. QED
    BY <1>1, <2>1, <2>2, <2>3, AskedKeeps
<1>5. CASE AskCancel
  <2> DEFINE post == [kind |-> "cancel", offer |-> sheet.data.pending]
  <2>1. Asked(Unowned, post) /\ sheet.data # NoAssignment /\ sheet.data.pending # 0
    BY <1>5 DEF AskCancel
  <2>2. sheet.data.pending \in Ids /\ sheet.data.pending \in 0..Len(offers)
    BY <1>2, <2>1 DEF Assignment, True
  <2>3. sheet.data.pending \in 1..Len(offers)
    BY <2>1, <2>2, AssignTypes DEF AssignInv
  <2>4. post \in Post
    BY <2>2 DEF Post
  <2>5. PostTrue(Unowned, post)
    BY <2>3 DEF PostTrue
  <2> HIDE DEF post
  <2>6. QED
    BY <1>1, <2>1, <2>4, <2>5, AskedKeeps
<1>6. CASE \E p \in People, i \in 1..MaxOffers : AskAccept(p, i) \/ AskDecline(p, i)
  <2>1. PICK p \in People, i \in 1..MaxOffers : AskAccept(p, i) \/ AskDecline(p, i)
    BY <1>6
  <2>2. i \in inboxes[p].shown /\ i \in 1..Len(offers) /\ i \in Ids
    BY <2>1, AssignTypes DEF AskAccept, AskDecline, AssignInv, InboxesKnown
  <2>3. PICK kind \in {"accept", "decline"} : Asked(p, [kind |-> kind, offer |-> i])
    BY <2>1 DEF AskAccept, AskDecline
  <2> DEFINE post == [kind |-> kind, offer |-> i]
  <2>4. post \in Post
    BY <2>2 DEF Post
  <2>5. PostTrue(p, post)
    BY <2>2 DEF PostTrue
  <2> HIDE DEF post
  <2>6. p \in Desks /\ Asked(p, post)
    BY <1>1, <2>3 DEF post
  <2>7. QED
    BY <2>4, <2>5, <2>6, AskedKeeps
<1>7. QED
  BY <1>3, <1>4, <1>5, <1>6

\* What the server may make of the entry and of the offers: the entry stays or
\* gets a new version, and an offer is added, or one is settled.
LEMMA ServerKeeps ==
  ASSUME AssignInv, sheet' = sheet,
         entry' = entry \/ \E owner \in Owner : Owned(owner),
         entry' = entry \/ Len(offers') = Len(offers),
         offers' \in Seq(Offer), Len(offers') \in Len(offers)..MaxOffers,
         \A i \in 1..Len(offers') : offers'[i].seen = offers'[i].prior,
         inboxes' \in [People -> [shown : SUBSET Ids, consent : SUBSET Ids]],
         \A p \in People : inboxes'[p].shown = inboxes[p].shown,
         posts' \in [Desks -> Post \cup {NoPost}],
         \A d \in Desks : posts'[d] = posts[d] \/ posts'[d] = NoPost
  PROVE  AssignInv'
<1>1. /\ entry \in [version : 1..MaxOwnings, owner : Owner] /\ entry.version \in Nat
      /\ Len(offers) \in Nat /\ MaxOffers \in Nat /\ MaxOwnings \in Nat
      /\ sheet.data \in Assignment \cup {NoAssignment} /\ entry.version \in 1..MaxOwnings
  BY AssignTypes DEF AssignInv
<1>2. Len(offers') \in Nat /\ Len(offers) <= Len(offers')
  BY <1>1
<1>3. \/ entry' = entry
      \/ /\ entry'.version = entry.version + 1 /\ Len(offers') = Len(offers)
         /\ entry' \in [version : 1..MaxOwnings, owner : Owner]
  BY <1>1 DEF Owned
<1>4. AssignTypeOK'
  BY <1>1, <1>3 DEF AssignInv, AssignTypeOK
<1>5. ASSUME NEW told, told.version \in Nat, True(told) PROVE (True(told))'
  BY <1>2, <1>3, <1>5, TrueKept, TruePast DEF AssignInv
<1>6. SheetTrue'
  <2>1. sheet.data # NoAssignment => True(sheet.data) /\ sheet.data.version \in Nat
    BY <1>1 DEF AssignInv, SheetTrue, Assignment
  <2>2. QED
    BY <1>5, <2>1 DEF SheetTrue
<1>7. PostsTrue'
  <2>1. ASSUME NEW d \in Desks, posts'[d] = posts[d] PROVE (PostTrue(d, posts[d]))'
    <3>1. PostTrue(d, posts[d]) /\ posts[d] \in Post \cup {NoPost}
      BY AssignTypes DEF AssignInv, PostsTrue
    <3>2. posts[d].kind \in {"propose", "no-account"} => posts[d].shown.version \in Nat
      BY <3>1, NothingAssigned DEF Post, Assignment
    <3>3. posts[d].kind \in {"propose", "no-account"} => (True(posts[d].shown))'
      <4>1. ASSUME NEW told, told = posts[d].shown,
                   posts[d].kind \in {"propose", "no-account"}
            PROVE  (True(told))'
        BY <1>5, <3>1, <3>2, <4>1 DEF PostTrue
      <4>2. QED
        BY <2>1, <4>1
    <3>4. posts[d].kind \in {"cancel", "accept", "decline"} => posts[d].offer \in 1..Len(offers')
      BY <1>1, <1>2, <3>1 DEF PostTrue
    <3>5. QED
      BY <2>1, <3>1, <3>3, <3>4 DEF PostTrue
  <2>2. ASSUME NEW d \in Desks, posts'[d] = NoPost PROVE (PostTrue(d, posts[d]))'
    BY <2>2, NothingAssigned DEF PostTrue
  <2>3. QED
    BY <2>1, <2>2 DEF PostsTrue
<1>8. OffersSeen'
  BY DEF OffersSeen
<1>9. InboxesKnown'
  <2>1. \A p \in People : inboxes[p].shown \subseteq 1..Len(offers)
    BY DEF AssignInv, InboxesKnown
  <2>2. 1..Len(offers) \subseteq 1..Len(offers')
    BY <1>1, <1>2
  <2>3. QED
    BY <2>1, <2>2 DEF InboxesKnown
<1>10. QED
  BY <1>4, <1>6, <1>7, <1>8, <1>9 DEF AssignInv

\* An offer that is settled names what it named.
LEMMA SettledOffers ==
  ASSUME AssignInv, NEW i \in 1..Len(offers)
  PROVE  /\ Settled(i) \in Seq(Offer) /\ Len(Settled(i)) = Len(offers)
         /\ \A j \in 1..Len(Settled(i)) : Settled(i)[j].seen = Settled(i)[j].prior
<1> DEFINE settled == [offers[i] EXCEPT !.pending = FALSE]
<1>1. offers \in Seq(Offer) /\ offers[i] \in Offer /\ FALSE \in BOOLEAN
  BY AssignTypes DEF AssignInv
<1>2. Settled(i) = [offers EXCEPT ![i] = settled]
  BY Zenon DEF Settled
<1>3. settled \in Offer /\ settled.seen = offers[i].seen /\ settled.prior = offers[i].prior
  BY <1>1, Zenon DEF Offer
<1> HIDE DEF settled
<1>4. /\ Settled(i) \in Seq(Offer) /\ Len(Settled(i)) = Len(offers)
      /\ \A j \in 1..Len(offers) : Settled(i)[j] = IF j = i THEN settled ELSE offers[j]
  BY <1>1, <1>2, <1>3
<1>5. QED
  BY <1>3, <1>4 DEF AssignInv, OffersSeen

LEMMA PostGone ==
  ASSUME AssignTypeOK, NEW d \in Desks, Done(d)
  PROVE  /\ posts' \in [Desks -> Post \cup {NoPost}]
         /\ \A e \in Desks : posts'[e] = posts[e] \/ posts'[e] = NoPost
BY DEF AssignTypeOK, Done

\* The boxes of an account are unticked; what it shows stays.
LEMMA BoxesUnticked ==
  ASSUME AssignTypeOK, NEW p \in People, inboxes' = [inboxes EXCEPT ![p].consent = {}]
  PROVE  /\ inboxes' \in [People -> [shown : SUBSET Ids, consent : SUBSET Ids]]
         /\ \A q \in People : inboxes'[q].shown = inboxes[q].shown
<1> DEFINE box == [inboxes[p] EXCEPT !.consent = {}]
<1>1. inboxes \in [People -> [shown : SUBSET Ids, consent : SUBSET Ids]] /\ {} \in SUBSET Ids
  BY DEF AssignTypeOK
<1>2. inboxes' = [inboxes EXCEPT ![p] = box]
  BY Zenon
<1>3. inboxes[p] \in [shown : SUBSET Ids, consent : SUBSET Ids]
  BY <1>1
<1>4. box \in [shown : SUBSET Ids, consent : SUBSET Ids] /\ box.shown = inboxes[p].shown
  BY <1>1, <1>3, Zenon
<1> HIDE DEF box
<1>5. QED
  BY <1>1, <1>2, <1>4

\* What a request asks for that the server acts on.
LEMMA PostKnown ==
  ASSUME AssignInv, NEW d \in Desks
  PROVE  /\ posts[d].kind # "none" => posts[d] \in Post /\ PostTrue(d, posts[d])
         /\ posts[d].kind \in {"cancel", "accept", "decline"} =>
              posts[d].offer \in 1..Len(offers)
<1>1. posts[d] \in Post \cup {NoPost} /\ PostTrue(d, posts[d])
  BY AssignTypes DEF AssignInv, PostsTrue
<1>2. QED
  BY <1>1, NothingAssigned DEF PostTrue

\* A proposal is made of the version that the dialog showed, so of its owner.
LEMMA ProposeKeeps == ASSUME AssignInv, Propose PROVE AssignInv'
<1> DEFINE post == posts[Unowned]
           offer == [to |-> post.to, version |-> entry.version, prior |-> entry.owner,
                     seen |-> post.shown.owner, pending |-> TRUE]
<1>1. /\ post.kind = "propose" /\ entry.version = post.version /\ Len(offers) < MaxOffers
      /\ offers' = Append(offers, offer) /\ Done(Unowned)
      /\ UNCHANGED <<entry, sheet, inboxes>>
  BY DEF Propose, Is, MayAssign, SameVersion
<1>2. Unowned \in Desks
  BY DEF Desks
<1>3. post \in Post /\ PostTrue(Unowned, post)
  BY <1>1, <1>2, PostKnown
<1>4. post.to \in People /\ post.shown.owner = entry.owner
  BY <1>1, <1>3 DEF PostTrue, True
<1>5. offer \in Offer /\ offer.seen = offer.prior
  BY <1>4, AssignTypes DEF AssignInv, Offer
<1> HIDE DEF offer, post
<1>6. /\ offers \in Seq(Offer) /\ Len(offers) \in Nat /\ MaxOffers \in Nat
      /\ \A i \in 1..Len(offers) : offers[i].seen = offers[i].prior
  BY AssignTypes DEF AssignInv, OffersSeen
<1>7. /\ offers' \in Seq(Offer) /\ Len(offers') = Len(offers) + 1
      /\ offers'[Len(offers) + 1] = offer
      /\ \A i \in 1..Len(offers) : offers'[i] = offers[i]
  BY <1>1, <1>5, <1>6, AppendProperties
<1>8. \A i \in 1..Len(offers') : offers'[i].seen = offers'[i].prior
  <2>1. ASSUME NEW i \in 1..Len(offers') PROVE i \in 1..Len(offers) \/ i = Len(offers) + 1
    BY <1>6, <1>7
  <2>2. QED
    BY <1>5, <1>6, <1>7, <2>1
<1>9. Len(offers') \in Len(offers)..MaxOffers
  BY <1>1, <1>6, <1>7
<1>10. AssignTypeOK
  BY DEF AssignInv
<1>11. /\ posts' \in [Desks -> Post \cup {NoPost}]
       /\ \A d \in Desks : posts'[d] = posts[d] \/ posts'[d] = NoPost
  BY <1>1, <1>2, <1>10, PostGone
<1>12. inboxes' \in [People -> [shown : SUBSET Ids, consent : SUBSET Ids]]
  BY <1>1, <1>10 DEF AssignTypeOK
<1>13. QED
  BY <1>1, <1>7, <1>8, <1>9, <1>11, <1>12, ServerKeeps

LEMMA OwnedKeeps ==
  ASSUME AssignInv, NoAccount \/ \E owner \in Owner : ChangedElsewhere(owner)
  PROVE  AssignInv'
<1>1. /\ \E owner \in Owner : Owned(owner)
      /\ UNCHANGED <<offers, sheet, inboxes>>
      /\ Done(Unowned) \/ posts' = posts
  BY DEF NoAccount, ChangedElsewhere, Owner
<1>2. AssignTypeOK /\ Unowned \in Desks
  BY DEF AssignInv, Desks
<1>3. /\ posts' \in [Desks -> Post \cup {NoPost}]
      /\ \A d \in Desks : posts'[d] = posts[d] \/ posts'[d] = NoPost
  BY <1>1, <1>2, PostGone DEF AssignTypeOK
<1>4. /\ offers' \in Seq(Offer) /\ Len(offers') = Len(offers)
      /\ Len(offers') \in Len(offers)..MaxOffers
      /\ \A i \in 1..Len(offers') : offers'[i].seen = offers'[i].prior
  BY <1>1, AssignTypes DEF AssignInv, OffersSeen
<1>5. inboxes' \in [People -> [shown : SUBSET Ids, consent : SUBSET Ids]]
  BY <1>1, <1>2 DEF AssignTypeOK
<1>6. QED
  BY <1>1, <1>3, <1>4, <1>5, ServerKeeps

LEMMA SettlesOne ==
  ASSUME AssignInv, sheet' = sheet,
         entry' = entry \/ \E owner \in Owner : Owned(owner),
         NEW i \in 1..Len(offers), offers' = Settled(i),
         inboxes' = inboxes \/ \E p \in People : inboxes' = [inboxes EXCEPT ![p].consent = {}],
         posts' = posts \/ \E d \in Desks : Done(d)
  PROVE  AssignInv'
<1>1. AssignTypeOK
  BY DEF AssignInv
<1>2. /\ offers' \in Seq(Offer) /\ Len(offers') = Len(offers)
      /\ \A j \in 1..Len(offers') : offers'[j].seen = offers'[j].prior
  BY SettledOffers
<1>3. Len(offers') \in Len(offers)..MaxOffers
  BY <1>1, <1>2, AssignTypes
<1>4. /\ inboxes' \in [People -> [shown : SUBSET Ids, consent : SUBSET Ids]]
      /\ \A p \in People : inboxes'[p].shown = inboxes[p].shown
  BY <1>1, BoxesUnticked DEF AssignTypeOK
<1>5. /\ posts' \in [Desks -> Post \cup {NoPost}]
      /\ \A d \in Desks : posts'[d] = posts[d] \/ posts'[d] = NoPost
  BY <1>1, PostGone DEF AssignTypeOK
<1>6. QED
  BY <1>2, <1>3, <1>4, <1>5, ServerKeeps

LEMMA SettledKeeps ==
  ASSUME AssignInv,
         \/ \E p \in People : Accept(p)
         \/ \E d \in Desks : Settle(d)
         \/ \E i \in Outstanding : Lapse(i)
  PROVE  AssignInv'
<1>1. ASSUME NEW p \in People, Accept(p) PROVE AssignInv'
  <2>1. p \in Desks /\ p \in Owner
    BY DEF Desks, Owner
  <2>2. posts[p].offer \in 1..Len(offers)
    BY <1>1, <2>1, PostKnown DEF Accept, Is
  <2>3. QED
    BY <1>1, <2>1, <2>2, SettlesOne DEF Accept
<1>2. ASSUME NEW d \in Desks, Settle(d) PROVE AssignInv'
  <2>1. posts[d].offer \in 1..Len(offers)
    BY <1>2, PostKnown DEF Settle
  <2>2. Is(d, "decline") => d \in People
    BY PostKnown DEF Is, PostTrue
  <2>3. QED
    BY <1>2, <2>1, <2>2, SettlesOne DEF Settle
<1>3. ASSUME NEW i \in Outstanding, Lapse(i) PROVE AssignInv'
  <2>1. i \in 1..Len(offers)
    BY DEF AssignInv, AssignTypeOK, Outstanding
  <2>2. QED
    BY <1>3, <2>1, SettlesOne DEF Lapse
<1>4. QED
  BY <1>1, <1>2, <1>3

LEMMA NothingKeeps ==
  ASSUME AssignInv, UNCHANGED assignVars \/ \E d \in Desks : Refused(d) PROVE AssignInv'
<1>1. /\ UNCHANGED <<entry, offers, sheet, inboxes>>
      /\ posts' = posts \/ \E d \in Desks : Done(d)
  BY DEF Refused, assignVars
<1>2. AssignTypeOK
  BY DEF AssignInv
<1>3. /\ posts' \in [Desks -> Post \cup {NoPost}]
      /\ \A d \in Desks : posts'[d] = posts[d] \/ posts'[d] = NoPost
  BY <1>1, <1>2, PostGone DEF AssignTypeOK
<1>4. /\ sheet' \in Sheet /\ (sheet'.data # NoAssignment => True(sheet'.data))
      /\ inboxes' \in [People -> [shown : SUBSET Ids, consent : SUBSET Ids]]
      /\ \A p \in People : inboxes'[p].shown \subseteq 1..Len(offers)
  BY <1>1 DEF AssignInv, AssignTypeOK, SheetTrue, InboxesKnown
<1>5. QED
  BY <1>1, <1>3, <1>4, ReadersKeep

LEMMA AssignInvStep == AssignInv /\ [AssignNext]_assignVars => AssignInv'
<1> SUFFICES ASSUME AssignInv, [AssignNext]_assignVars PROVE AssignInv'
  OBVIOUS
<1>1. CASE LoadEntry \/ LoadAssignment \/ OpenSheet \/ CloseSheet
  BY <1>1, SheetKeeps
<1>2. ASSUME NEW p \in People, LoadInbox(p) \/ TurnPage(p) PROVE AssignInv'
  BY <1>2, InboxKeeps
<1>3. ASSUME NEW p \in People, NEW i \in 1..MaxOffers,
             Tick(p, i) \/ AskAccept(p, i) \/ AskDecline(p, i)
      PROVE  AssignInv'
  BY <1>3, InboxKeeps, AskKeeps
<1>4. ASSUME NEW p \in People, AskAccount(p) \/ InboxStep(p) PROVE AssignInv'
  BY <1>2, <1>3, <1>4, AskKeeps, SettledKeeps DEF InboxStep
<1>5. CASE AskNoAccount \/ AskCancel
  BY <1>5, AskKeeps
<1>6. ASSUME NEW i \in 1..MaxOffers, Lapse(i) PROVE AssignInv'
  BY <1>6, SettledKeeps DEF Lapse
<1>7. QED
  BY <1>1, <1>4, <1>5, <1>6, ProposeKeeps, OwnedKeeps, SettledKeeps, NothingKeeps
     DEF AssignNext

LEMMA AssignInvDecides ==
  ASSUME AssignInv
  PROVE  /\ NoAccount => posts[Unowned].shown.owner = entry.owner
         /\ \A p \in People : Accept(p) => offers[posts[p].offer].seen = entry.owner
<1>1. Unowned \in Desks /\ \A p \in People : p \in Desks
  BY DEF Desks
<1>2. ASSUME NoAccount PROVE posts[Unowned].shown.owner = entry.owner
  <2>1. posts[Unowned].kind = "no-account" /\ entry.version = posts[Unowned].version
    BY <1>2 DEF NoAccount, Is, MayAssign, SameVersion
  <2>2. PostTrue(Unowned, posts[Unowned])
    BY <1>1, <2>1, PostKnown
  <2>3. QED
    BY <2>1, <2>2 DEF PostTrue, True
<1>3. ASSUME NEW p \in People, Accept(p) PROVE offers[posts[p].offer].seen = entry.owner
  <2>1. posts[p].offer \in 1..Len(offers)
    BY <1>1, <1>3, PostKnown DEF Accept, Is
  <2>2. entry.owner = offers[posts[p].offer].prior
    BY <1>3 DEF Accept, Unchanged
  <2>3. QED
    BY <2>1, <2>2 DEF AssignInv, OffersSeen
<1>4. QED
  BY <1>2, <1>3

\* What the dialog, the inboxes and their requests hold is of its kind.
THEOREM AssignTypesKept == AssignSpec => []AssignTypeOK
<1>1. AssignInv => AssignTypeOK
  BY DEF AssignInv
<1>2. QED
  BY <1>1, AssignInvInit, AssignInvStep, PTL DEF AssignSpec

\* However old what the dialog and the inboxes show, an account loses an entry
\* only by the decision of staff who saw it as the owner (OwnershipAssignment.tsx
\* and OwnershipPage.tsx send, with each request, what they showed).
THEOREM OwnersLoseAsShown == AssignSpec => OwnershipAsShown
<1>1. AssignInv /\ [AssignNext]_assignVars =>
        [/\ NoAccount => posts[Unowned].shown.owner = entry.owner
         /\ \A p \in People : Accept(p) => offers[posts[p].offer].seen = entry.owner]_assignVars
  BY AssignInvDecides
<1>2. QED
  BY <1>1, AssignInvInit, AssignInvStep, PTL DEF AssignSpec, OwnershipAsShown
==============================================================================
