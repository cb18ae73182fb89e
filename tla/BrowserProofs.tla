---------------------------- MODULE BrowserProofs ----------------------------
(***************************************************************************)
(* Theorems about EntryWizard, EntrySubmission and EntryImages, for any    *)
(* values of their constants, and about the instance that runs them side   *)
(* by side.                                                                *)
(***************************************************************************)
EXTENDS MCBrowser, FiniteSetTheorems, SequenceTheorems, TLAPS

------------------------------------------------------------------------------
(* EntryWizard.  What the visitor has walked past was answered, and the form   *)
(* says of the intent what its button wrote.                                   *)

\* How many steps the first answer adds before "Basics".
Extra == IF intent = "proposed" THEN 1 ELSE 0

WalkedPast ==
  /\ step > 1 => intent # Unanswered
  /\ step > 2 => focus # Unanswered
  /\ intent = "proposed" /\ step > 3 =>
       organizer # Unanswered /\ values.seekingOrganizer = (organizer = "no")
  /\ step > 3 + Extra => values.named = "good"
  /\ step > 4 + Extra => values.connections # "bad"

IntentSent ==
  /\ values.lifecycle = IF intent = Unanswered THEN "unknown" ELSE intent
  /\ intent # "proposed" => ~values.seekingOrganizer

WizardInv == WizardTypeOK /\ WalkedPast /\ IntentSent

\* The steps, one by one.
StepsByIntent ==
  /\ intent = "proposed" =>
       /\ Len(Steps) = 7
       /\ Steps[1] = "Start" /\ Steps[2] = "Type" /\ Steps[3] = "Organizer" /\ Steps[4] = "Basics"
       /\ Steps[5] = "Links" /\ Steps[6] = "Participation" /\ Steps[7] = "Review"
  /\ intent # "proposed" =>
       /\ Len(Steps) = 6
       /\ Steps[1] = "Start" /\ Steps[2] = "Type" /\ Steps[3] = "Basics"
       /\ Steps[4] = "Links" /\ Steps[5] = "Participation" /\ Steps[6] = "Review"
LEMMA StepNames == StepsByIntent
<1>1. ASSUME intent = "proposed"
      PROVE  Steps = <<"Start", "Type">> \o <<"Organizer">>
                       \o <<"Basics", "Links", "Participation", "Review">>
  BY <1>1 DEF Steps
<1>2. ASSUME intent # "proposed"
      PROVE  Steps = <<"Start", "Type">> \o <<>>
                       \o <<"Basics", "Links", "Participation", "Review">>
  BY <1>2 DEF Steps
<1>3. QED
  BY <1>1, <1>2 DEF StepsByIntent

\* Where each question is asked.
LEMMA StepPlaces ==
  ASSUME WizardTypeOK
  PROVE  /\ Current = "Start" <=> step = 1
         /\ Current = "Type" <=> step = 2
         /\ Current = "Organizer" <=> intent = "proposed" /\ step = 3
         /\ Current = "Basics" <=> step = 3 + Extra
         /\ Current = "Links" <=> step = 4 + Extra
         /\ Current = "Participation" <=> step = 5 + Extra
         /\ Current = "Review" <=> step = 6 + Extra
         /\ Len(Steps) = 6 + Extra /\ step \in 1..(6 + Extra) /\ Extra \in {0, 1}
<1>1. CASE intent = "proposed"
  <2>1. Extra = 1 /\ Len(Steps) = 7 /\ step \in 1..7
    BY <1>1, StepNames DEF WizardTypeOK, Extra, StepsByIntent
  <2>2. QED
    BY <1>1, <2>1, StepNames DEF Current, StepsByIntent
<1>2. CASE intent # "proposed"
  <2>1. Extra = 0 /\ Len(Steps) = 6 /\ step \in 1..6
    BY <1>2, StepNames DEF WizardTypeOK, Extra, StepsByIntent
  <2>2. QED
    BY <1>2, <2>1, StepNames DEF Current, StepsByIntent
<1>3. QED
  BY <1>1, <1>2

LEMMA WizardInvInit == WizardInit => WizardInv
<1> SUFFICES ASSUME WizardInit PROVE WizardInv
  OBVIOUS
<1>1. step \in 1..Len(Steps)
  BY StepNames DEF WizardInit, Unanswered, StepsByIntent
<1>2. values \in Form
  BY DEF WizardInit, Form, Fields
<1>3. WizardTypeOK
  BY <1>1, <1>2 DEF WizardInit, WizardTypeOK
<1>4. WalkedPast /\ IntentSent
  BY DEF WizardInit, WalkedPast, IntentSent, Extra, Unanswered
<1>5. QED
  BY <1>3, <1>4 DEF WizardInv

LEMMA WizardInvStep == WizardInv /\ [WizardNext]_wizardVars => WizardInv'
<1> SUFFICES ASSUME WizardInv, [WizardNext]_wizardVars PROVE WizardInv'
  OBVIOUS
<1>1. /\ Current = "Start" <=> step = 1
      /\ Current = "Type" <=> step = 2
      /\ Current = "Organizer" <=> intent = "proposed" /\ step = 3
      /\ Current = "Basics" <=> step = 3 + Extra
      /\ Current = "Links" <=> step = 4 + Extra
      /\ Current = "Participation" <=> step = 5 + Extra
      /\ Current = "Review" <=> step = 6 + Extra
      /\ Len(Steps) = 6 + Extra /\ step \in 1..(6 + Extra) /\ Extra \in {0, 1}
  BY StepPlaces DEF WizardInv
<1>2. Extra' \in {0, 1} /\ (Len(Steps))' = 6 + Extra'
  <2>1. StepsByIntent'
    BY StepNames, PTL
  <2>2. QED
    BY <2>1 DEF Extra, StepsByIntent
<1>3. /\ intent \in Intents \cup {Unanswered} /\ focus \in Focuses \cup {Unanswered}
      /\ organizer \in {"yes", "no", Unanswered} /\ step \in Nat
      /\ values \in Form /\ progress \in {"open", "saving", "saved"}
  BY <1>1 DEF WizardInv, WizardTypeOK
<1>4. ASSUME /\ intent' \in Intents \cup {Unanswered} /\ focus' \in Focuses \cup {Unanswered}
             /\ organizer' \in {"yes", "no", Unanswered} /\ step' \in 1..(6 + Extra')
             /\ values' \in Form /\ progress' \in {"open", "saving", "saved"}
      PROVE  WizardTypeOK'
  BY <1>2, <1>4 DEF WizardTypeOK
\* What the form may have been changed to.
<1>5. ASSUME NEW form, form \in Form, Fill(form),
             form.lifecycle = values.lifecycle, form.seekingOrganizer = values.seekingOrganizer,
             \/ form.named = values.named \/ step <= 3 + Extra,
             \/ form.connections = values.connections \/ step <= 4 + Extra
      PROVE  WizardInv'
  <2>1. WizardTypeOK'
    BY <1>1, <1>3, <1>4, <1>5 DEF Fill, Extra
  <2>2. WalkedPast'
    BY <1>1, <1>3, <1>5 DEF Fill, Extra, WizardInv, WalkedPast
  <2>3. IntentSent'
    BY <1>3, <1>5 DEF Fill, WizardInv, IntentSent
  <2>4. QED
    BY <2>1, <2>2, <2>3 DEF WizardInv
<1>6. ASSUME NEW i \in Intents, ChooseIntent(i) PROVE WizardInv'
  <2>1. /\ [values EXCEPT !.lifecycle = i, !.seekingOrganizer = FALSE] \in Form
        /\ [values EXCEPT !.lifecycle = i, !.seekingOrganizer = FALSE].lifecycle = i
        /\ ~[values EXCEPT !.lifecycle = i, !.seekingOrganizer = FALSE].seekingOrganizer
    BY <1>3, <1>6, Zenon DEF Form
  <2>2. values' \in Form /\ values'.lifecycle = i /\ ~values'.seekingOrganizer
    BY <1>6, <2>1 DEF ChooseIntent, chooseIntent
  <2>3. step = 1 /\ step' = 1 /\ i # Unanswered
    BY <1>1, <1>6 DEF ChooseIntent, At, Intents, Unanswered
  <2>4. WizardTypeOK'
    <3>1. step' \in 1..(6 + Extra')
      BY <2>3 DEF Extra
    <3>2. intent' \in Intents \cup {Unanswered} /\ focus' \in Focuses \cup {Unanswered}
      BY <1>3, <1>6 DEF ChooseIntent
    <3>3. organizer' \in {"yes", "no", Unanswered} /\ progress' \in {"open", "saving", "saved"}
      BY <1>3, <1>6 DEF ChooseIntent
    <3>4. QED
      BY <1>4, <2>2, <3>1, <3>2, <3>3
  <2>5. WalkedPast' /\ IntentSent'
    <3>1. WalkedPast'
      BY <2>3 DEF WalkedPast, Extra
    <3>2. intent' = i
      BY <1>6 DEF ChooseIntent
    <3>3. IntentSent'
      BY <2>2, <2>3, <3>2 DEF IntentSent
    <3>4. QED
      BY <3>1, <3>3
  <2>6. QED
    BY <2>4, <2>5 DEF WizardInv
<1>7. ASSUME NEW f \in Focuses, NEW known \in {{}, Catalog}, ChooseFocus(f, known) PROVE WizardInv'
  <2> DEFINE more == {tag \in known : f \in DOMAIN suggestedTag /\ tag = suggestedTag[f]}
  <2>1. values.tags \cup more \in SUBSET Catalog
    BY <1>3 DEF Form
  <2>2. values' = [values EXCEPT !.tags = @ \cup more]
    BY <1>7 DEF ChooseFocus, chooseFocus
  <2> HIDE DEF more
  <2>3. /\ values' \in Form /\ values'.lifecycle = values.lifecycle
        /\ values'.seekingOrganizer = values.seekingOrganizer
        /\ values'.named = values.named /\ values'.connections = values.connections
    BY <1>3, <2>1, <2>2, Zenon DEF Form
  <2>4. step = 2 /\ step' = 2 /\ f # Unanswered
    BY <1>1, <1>7 DEF ChooseFocus, At, Focuses, Unanswered
  <2>5. WizardTypeOK'
    BY <1>2, <1>3, <1>4, <1>7, <2>3, <2>4 DEF ChooseFocus, Extra
  <2>6. WalkedPast' /\ IntentSent'
    BY <1>2, <1>7, <2>3, <2>4 DEF ChooseFocus, WizardInv, WalkedPast, IntentSent, Extra
  <2>7. QED
    BY <2>5, <2>6 DEF WizardInv
<1>8. ASSUME NEW answer \in {"yes", "no"}, AnswerOrganizer(answer) PROVE WizardInv'
  <2>1. step = 3 /\ step' = 3 /\ intent = "proposed"
    BY <1>1, <1>8 DEF AnswerOrganizer, At
  <2>2. WizardTypeOK'
    BY <1>2, <1>3, <1>4, <1>8, <2>1 DEF AnswerOrganizer, Extra
  <2>3. WalkedPast' /\ IntentSent'
    BY <1>2, <1>8, <2>1 DEF AnswerOrganizer, WizardInv, WalkedPast, IntentSent, Extra
  <2>4. QED
    BY <2>2, <2>3 DEF WizardInv
<1>9. ASSUME NEW f \in {"good", "bad"}, FillNamed(f) PROVE WizardInv'
  <2> DEFINE form == [values EXCEPT !.named = f]
  <2>1. f \in Fields
    BY DEF Fields
  <2>2. /\ form \in Form /\ form.lifecycle = values.lifecycle
        /\ form.seekingOrganizer = values.seekingOrganizer
        /\ form.connections = values.connections
    BY <1>3, <2>1, Zenon DEF Form
  <2>3. step <= 3 + Extra /\ Fill(form)
    BY <1>1, <1>9 DEF FillNamed, At
  <2> HIDE DEF form
  <2>4. QED
    BY <1>5, <2>2, <2>3
<1>10. ASSUME NEW f \in Fields, FillLinks(f) PROVE WizardInv'
  <2> DEFINE form == [values EXCEPT !.connections = f]
  <2>1. /\ form \in Form /\ form.lifecycle = values.lifecycle
        /\ form.seekingOrganizer = values.seekingOrganizer
        /\ form.named = values.named
    BY <1>3, Zenon DEF Form
  <2>2. step <= 4 + Extra /\ Fill(form)
    BY <1>1, <1>10 DEF FillLinks, At
  <2> HIDE DEF form
  <2>3. QED
    BY <1>5, <2>1, <2>2
<1>11. ASSUME NEW f \in Fields, FillParticipation(f) PROVE WizardInv'
  <2> DEFINE form == [values EXCEPT !.participation = f]
  <2>1. /\ form \in Form /\ form.lifecycle = values.lifecycle
        /\ form.seekingOrganizer = values.seekingOrganizer
        /\ form.named = values.named /\ form.connections = values.connections
    BY <1>3, Zenon DEF Form
  <2>2. Fill(form)
    BY <1>11 DEF FillParticipation
  <2> HIDE DEF form
  <2>3. QED
    BY <1>5, <2>1, <2>2
<1>12. ASSUME NEW f \in Fields, FillContact(f) PROVE WizardInv'
  <2> DEFINE form == [values EXCEPT !.contact = f]
  <2>1. /\ form \in Form /\ form.lifecycle = values.lifecycle
        /\ form.seekingOrganizer = values.seekingOrganizer
        /\ form.named = values.named /\ form.connections = values.connections
    BY <1>3, Zenon DEF Form
  <2>2. Fill(form)
    BY <1>12 DEF FillContact
  <2> HIDE DEF form
  <2>3. QED
    BY <1>5, <2>1, <2>2
<1>13. ASSUME NEW tags \in SUBSET Catalog, FillTags(tags) PROVE WizardInv'
  <2> DEFINE form == [values EXCEPT !.tags = tags]
  <2>1. /\ form \in Form /\ form.lifecycle = values.lifecycle
        /\ form.seekingOrganizer = values.seekingOrganizer
        /\ form.named = values.named /\ form.connections = values.connections
    BY <1>3, Zenon DEF Form
  <2>2. Fill(form)
    BY <1>13 DEF FillTags
  <2> HIDE DEF form
  <2>3. QED
    BY <1>5, <2>1, <2>2
<1>14. ASSUME NEW f \in Fields, FillDetails(f) PROVE WizardInv'
  <2> DEFINE form == [values EXCEPT !.details = f]
  <2>1. /\ form \in Form /\ form.lifecycle = values.lifecycle
        /\ form.seekingOrganizer = values.seekingOrganizer
        /\ form.named = values.named /\ form.connections = values.connections
    BY <1>3, Zenon DEF Form
  <2>2. Fill(form)
    BY <1>14 DEF FillDetails
  <2> HIDE DEF form
  <2>3. QED
    BY <1>5, <2>1, <2>2
<1>15. CASE Forward
  <2> DEFINE settled == [values EXCEPT !.seekingOrganizer = (organizer = "no"),
                                       !.lifecycle = "proposed"]
  <2>1. /\ settled \in Form /\ settled.lifecycle = "proposed"
        /\ settled.seekingOrganizer = (organizer = "no")
        /\ settled.named = values.named /\ settled.connections = values.connections
    <3>1. (organizer = "no") \in BOOLEAN /\ "proposed" \in {"unknown"} \cup Intents
      BY DEF Intents
    <3>2. QED
      BY <1>3, <3>1, Zenon DEF Form
  <2>2. /\ values' = IF Current # "Organizer" THEN values ELSE settled
        /\ step' = step + 1 /\ step # 6 + Extra /\ MayLeave
        /\ UNCHANGED <<intent, focus, organizer, progress>>
    BY <1>1, <1>15 DEF Forward
  <2> HIDE DEF settled
  <2>3. WizardTypeOK'
    <3>1. step' \in 1..(6 + Extra') /\ values' \in Form
      BY <1>1, <1>3, <2>1, <2>2 DEF Extra
    <3>2. QED
      BY <1>3, <1>4, <2>2, <3>1
  <2>4. WalkedPast'
    BY <1>1, <1>3, <2>1, <2>2 DEF WizardInv, WalkedPast, MayLeave, Extra
  <2>5. IntentSent'
    BY <1>1, <1>3, <2>1, <2>2 DEF WizardInv, IntentSent, Unanswered
  <2>6. QED
    BY <2>3, <2>4, <2>5 DEF WizardInv
<1>16. CASE Back
  <2>1. WizardTypeOK'
    BY <1>1, <1>2, <1>3, <1>4, <1>16 DEF Back, Extra
  <2>2. WalkedPast' /\ IntentSent'
    BY <1>1, <1>3, <1>16 DEF Back, WizardInv, WalkedPast, IntentSent, Extra
  <2>3. QED
    BY <2>1, <2>2 DEF WizardInv
<1>17. ASSUME \/ Publish \/ \E outcome \in {"open", "saved"} : Published(outcome)
              \/ UNCHANGED wizardVars
       PROVE  WizardInv'
  <2>1. /\ UNCHANGED <<intent, focus, organizer, step, values>>
        /\ progress' \in {"open", "saving", "saved"}
    BY <1>3, <1>17 DEF Publish, Published, wizardVars
  <2>2. WizardTypeOK'
    BY <1>1, <1>2, <1>3, <1>4, <2>1 DEF Extra
  <2>3. WalkedPast' /\ IntentSent'
    BY <2>1 DEF WizardInv, WalkedPast, IntentSent, Extra
  <2>4. QED
    BY <2>2, <2>3 DEF WizardInv
<1>18. QED
  BY <1>6, <1>7, <1>8, <1>9, <1>10, <1>11, <1>12, <1>13, <1>14, <1>15, <1>16, <1>17 DEF WizardNext

\* What the last step shows of the visitor's answers: the status is that of the
\* buttons of the first and third steps, an entry that exists seeks no
\* organizer, the first steps were answered and what next() asked for is right.
LEMMA WizardInvTells == WizardInv => ReviewTellsTruth
<1> SUFFICES ASSUME WizardInv, Current = "Review" PROVE ReviewTellsTruth
  BY DEF ReviewTellsTruth
<1>1. step = 6 + Extra /\ Extra \in {0, 1}
  BY StepPlaces DEF WizardInv
<1>2. /\ focus # Unanswered /\ values.named = "good" /\ values.connections # "bad"
      /\ intent \in Intents
      /\ intent = "proposed" => values.seekingOrganizer = (organizer = "no")
  BY <1>1 DEF WizardInv, WizardTypeOK, WalkedPast, Extra
<1>3. values.lifecycle = intent /\ (intent # "proposed" => ~values.seekingOrganizer)
  BY <1>2 DEF WizardInv, IntentSent, Intents, Unanswered
<1>4. ShownStatus = SentStatus
  BY <1>2, <1>3 DEF ShownStatus, SentStatus, Intents
<1>5. QED
  BY <1>2, <1>3, <1>4 DEF ReviewTellsTruth, Intents

\* The wizard by itself: its answers, step and form have values of their kind,
THEOREM WizardTypes == WizardSpec => []WizardTypeOK
<1>1. WizardInv => WizardTypeOK
  BY DEF WizardInv
<1>2. QED
  BY <1>1, WizardInvInit, WizardInvStep, PTL DEF WizardSpec

\* and the status that its last step shows is the one Publish sends, under a name
\* and summary that are accepted (EntryCreationWizard.tsx:651 and :208).
THEOREM LastStepTellsTruth == WizardSpec => []ReviewTellsTruth
<1>1. QED
  BY WizardInvInit, WizardInvStep, WizardInvTells, PTL DEF WizardSpec

------------------------------------------------------------------------------
(* EntrySubmission. *)

\* Key k was sent in round n.
UsedIn(k, n) ==
  \/ \E r \in sent : r.key = k /\ r.body.round = n
  \/ answered[k] # NoEntry /\ submitted[answered[k].entry].round = n

\* Each round has one key, and no key is newer than the page's.
KeysOfRounds ==
  /\ \A k, l \in Keys, n \in 0..MaxRounds : UsedIn(k, n) /\ UsedIn(l, n) => k = l
  /\ \A k \in Keys, n \in 0..MaxRounds : UsedIn(k, n) =>
       /\ k <= page.key /\ n <= page.round
       /\ n = page.round =>
            /\ k = page.key
            /\ page.fingerprint = [form |-> page.form, expected |-> page.user, round |-> n]

\* Each answer names an entry of its own, which has what was sent.
AnswersNameEntries ==
  /\ \A k \in Keys : answered[k] # NoEntry =>
       /\ submitted[answered[k].entry] # NoEntry
       /\ answered[k].form = submitted[answered[k].entry].form
  /\ \A k, l \in Keys : answered[k] # NoEntry /\ answered[l] # NoEntry
       /\ answered[k].entry = answered[l].entry => k = l
  /\ \A e \in Entries : submitted[e] # NoEntry =>
       /\ submitted[e].owner = submitted[e].shown
       /\ \E k \in Keys : answered[k] # NoEntry /\ answered[k].entry = e

\* The page's key is for what its fingerprint says, and so for its form while
\* a save runs.
KeyOfPage ==
  /\ \A r \in sent : r.key = page.key =>
       page.fingerprint # NoEntry /\ r.body.form = page.fingerprint.form
  /\ page.phase # "editing" => page.fingerprint # NoEntry /\ page.fingerprint.form = page.form

\* The entry that the page is told of has its form, and the pictures that are
\* not on its rest.
PageTold ==
  page.phase \in {"uploading", "done"} =>
    /\ page.entry \in Entries /\ submitted[page.entry] # NoEntry
    /\ submitted[page.entry].form = page.form
    /\ \A p \in page.pressed \ page.rest : submitted[page.entry].pictures[p] > 0
    /\ page.phase = "done" => page.rest = {}

SubmissionInv ==
  SubmissionTypeOK /\ KeysOfRounds /\ AnswersNameEntries /\ KeyOfPage /\ PageTold

\* A value that is not there is none of the records.
LEMMA NothingEntered == NoEntry \notin Body /\ NoEntry \notin Answer /\ NoEntry \notin Submitted
<1>1. /\ "missing" \in DOMAIN NoEntry
      /\ \A b \in Body : "missing" \notin DOMAIN b
      /\ \A a \in Answer : "missing" \notin DOMAIN a
      /\ \A s \in Submitted : "missing" \notin DOMAIN s
  BY DEF NoEntry, Body, Answer, Submitted
<1>2. QED
  BY <1>1

LEMMA SubmissionInvInit == SubmissionInit => SubmissionInv
<1> SUFFICES ASSUME SubmissionInit PROVE SubmissionInv
  OBVIOUS
<1>1. /\ 0 \in 0..MaxRounds /\ {} \in SUBSET Pictures /\ session \in Visitors
      /\ sent = {} /\ answered = [k \in Keys |-> NoEntry]
      /\ submitted = [e \in Entries |-> NoEntry]
  BY SubmissionAssumption DEF SubmissionInit
<1>2. page.phase = "editing"
  BY DEF SubmissionInit
<1>3. page \in Page
  BY <1>1, Zenon DEF SubmissionInit, Page
<1>4. SubmissionTypeOK
  BY <1>1, <1>3 DEF SubmissionTypeOK
<1>5. \A k \in Keys, n \in 0..MaxRounds : ~UsedIn(k, n)
  BY <1>1 DEF UsedIn
<1>6. KeysOfRounds /\ AnswersNameEntries
  BY <1>1, <1>5 DEF KeysOfRounds, AnswersNameEntries
<1>7. KeyOfPage /\ PageTold
  BY <1>1, <1>2 DEF KeyOfPage, PageTold
<1>8. QED
  BY <1>4, <1>6, <1>7 DEF SubmissionInv

\* The page's fields.
LEMMA PageFields ==
  ASSUME SubmissionTypeOK
  PROVE  /\ page \in Page
         /\ page.form \in Forms /\ page.pictures \in SUBSET Pictures /\ page.user \in Visitors
         /\ page.round \in 0..MaxRounds /\ page.key \in Keys \cup {0}
         /\ page.fingerprint \in Body \cup {NoEntry}
         /\ page.phase \in {"editing", "creating", "uploading", "done"}
         /\ page.pressed \in SUBSET Pictures /\ page.entry \in Entries \cup {NoEntry}
         /\ page.rest \in SUBSET Pictures
         /\ page.round \in Nat /\ page.key \in Nat
<1>1. page \in Page
  BY DEF SubmissionTypeOK
<1>2. page.round \in 0..MaxRounds /\ page.key \in Keys \cup {0}
  BY <1>1 DEF Page
<1>3. page.round \in Nat /\ page.key \in Nat
  BY <1>2 DEF Keys
<1>4. QED
  BY <1>1, <1>2, <1>3 DEF Page

\* A page that is not told of an entry, with no new request and no new row.
LEMMA PageAlone ==
  ASSUME SubmissionInv, page' \in Page, session' \in Visitors,
         UNCHANGED <<sent, answered, submitted>>,
         page'.key = page.key, page'.fingerprint = page.fingerprint,
         page'.phase = page.phase \/ page'.phase = "editing",
         \/ page'.form = page.form /\ page'.user = page.user /\ page'.round = page.round
         \/ page'.round = page.round + 1
              /\ (page'.form = page.form \/ page'.phase = "editing"),
         page'.phase = page.phase =>
           page'.entry = page.entry /\ page'.pressed = page.pressed /\ page'.rest = page.rest
  PROVE  SubmissionInv'
<1>1. SubmissionTypeOK'
  BY DEF SubmissionInv, SubmissionTypeOK
<1>2. KeysOfRounds'
  <2>1. page.round \in Nat /\ page.key \in Nat
    BY PageFields DEF SubmissionInv
  <2>2. \A k \in Keys, n \in 0..MaxRounds : (UsedIn(k, n))' <=> UsedIn(k, n)
    BY DEF UsedIn
  <2>3. \A n \in 0..MaxRounds : n \in Nat
    OBVIOUS
  <2>4. ASSUME NEW k \in Keys, NEW n \in 0..MaxRounds, (UsedIn(k, n))'
        PROVE  /\ k <= page'.key /\ n <= page'.round
               /\ n = page'.round =>
                    /\ k = page'.key
                    /\ page'.fingerprint = [form |-> page'.form, expected |-> page'.user, round |-> n]
    <3>1. /\ k <= page.key /\ n <= page.round
          /\ n = page.round =>
               /\ k = page.key
               /\ page.fingerprint = [form |-> page.form, expected |-> page.user, round |-> n]
      BY <2>2, <2>4 DEF SubmissionInv, KeysOfRounds
    <3>2. CASE page'.round = page.round + 1
      BY <2>1, <2>3, <3>1, <3>2
    <3>3. CASE page'.form = page.form /\ page'.user = page.user /\ page'.round = page.round
      BY <3>1, <3>3
    <3>4. QED
      BY <3>2, <3>3
  <2>5. ASSUME NEW k \in Keys, NEW l \in Keys, NEW n \in 0..MaxRounds,
               (UsedIn(k, n))', (UsedIn(l, n))'
        PROVE  k = l
    BY <2>2, <2>5 DEF SubmissionInv, KeysOfRounds
  <2>6. QED
    BY <2>4, <2>5 DEF KeysOfRounds
<1>3. AnswersNameEntries'
  BY DEF SubmissionInv, AnswersNameEntries
<1>4. KeyOfPage'
  BY DEF SubmissionInv, KeyOfPage
<1>5. PageTold'
  BY DEF SubmissionInv, PageTold
<1>6. QED
  BY <1>1, <1>2, <1>3, <1>4, <1>5 DEF SubmissionInv

LEMMA PressKeeps == ASSUME SubmissionInv, Press PROVE SubmissionInv'
<1> DEFINE body == [form |-> page.form, expected |-> page.user, round |-> page.round]
           key == KeyFor(body)
           request == [key |-> key, body |-> body, as |-> session]
           pressed == IF page.user = Nobody THEN {} ELSE page.pictures
           new == [page EXCEPT !.phase = "creating", !.key = key, !.fingerprint = body,
                               !.pressed = pressed]
<1>1. /\ page \in Page /\ page.form \in Forms /\ page.pictures \in SUBSET Pictures
      /\ page.user \in Visitors /\ page.round \in 0..MaxRounds
      /\ page.fingerprint \in Body \cup {NoEntry} /\ page.round \in Nat /\ page.key \in Nat
  BY PageFields DEF SubmissionInv
<1>2. /\ key \in Keys /\ page' = new /\ sent' = sent \cup {request}
      /\ UNCHANGED <<session, answered, submitted>>
  BY DEF Press
<1>3. body \in Body /\ body # NoEntry /\ body.form = page.form /\ body.round = page.round
  BY <1>1, NothingEntered DEF Body
<1>4. request \in Request /\ request.key = key /\ request.body = body
  BY <1>2, <1>3 DEF Request, SubmissionInv, SubmissionTypeOK
<1>5. \/ key = page.key /\ page.fingerprint # NoEntry /\ body.form = page.fingerprint.form
      \/ key = page.key + 1 /\ page.fingerprint # body
  BY <1>3 DEF KeyFor, SameBody
<1>6. /\ page' \in Page /\ page'.phase = "creating" /\ page'.key = key
      /\ page'.fingerprint = body /\ page'.form = page.form /\ page'.user = page.user
      /\ page'.round = page.round
  <2>1. pressed \in SUBSET Pictures
    BY <1>1
  <2> HIDE DEF body, key, pressed
  <2>2. QED
    BY <1>1, <1>2, <1>3, <2>1, Zenon DEF Page
<1>7. page.fingerprint = [form |-> page.form, expected |-> page.user, round |-> page.round]
        => key = page.key
  BY <1>5
<1>8. page'.fingerprint = [form |-> page'.form, expected |-> page'.user, round |-> page'.round]
  BY <1>6
<1> HIDE DEF body, key, request, pressed, new
<1>9. SubmissionTypeOK'
  BY <1>2, <1>4, <1>6 DEF SubmissionInv, SubmissionTypeOK
<1>10. KeysOfRounds'
  <2>1. ASSUME NEW k \in Keys, NEW n \in 0..MaxRounds
        PROVE  (UsedIn(k, n))' <=> UsedIn(k, n) \/ (k = key /\ n = page.round)
    BY <1>2, <1>3, <1>4 DEF UsedIn
  <2>2. ASSUME NEW k \in Keys, NEW n \in 0..MaxRounds, UsedIn(k, n)
        PROVE  /\ k <= page.key /\ n <= page.round
               /\ n = page.round => k = page.key /\ key = page.key
    BY <1>7, <2>2 DEF SubmissionInv, KeysOfRounds
  <2>3. ASSUME NEW k \in Keys, NEW l \in Keys, NEW n \in 0..MaxRounds,
               (UsedIn(k, n))', (UsedIn(l, n))'
        PROVE  k = l
    BY <2>1, <2>2, <2>3 DEF SubmissionInv, KeysOfRounds
  <2>4. ASSUME NEW k \in Keys, NEW n \in 0..MaxRounds, (UsedIn(k, n))'
        PROVE  /\ k <= page'.key /\ n <= page'.round
               /\ n = page'.round =>
                    /\ k = page'.key
                    /\ page'.fingerprint = [form |-> page'.form, expected |-> page'.user, round |-> n]
    <3>1. k \in Nat /\ n \in Nat
      BY DEF Keys
    <3>2. UsedIn(k, n) \/ (k = key /\ n = page.round)
      BY <2>1, <2>4
    <3>3. key >= page.key /\ key \in Nat
      BY <1>1, <1>5
    <3>4. QED
      BY <1>1, <1>6, <1>8, <2>2, <3>1, <3>2, <3>3
  <2>5. QED
    BY <2>3, <2>4 DEF KeysOfRounds
<1>11. AnswersNameEntries'
  BY <1>2 DEF SubmissionInv, AnswersNameEntries
<1>12. KeyOfPage'
  <2>1. ASSUME NEW r \in sent, r.key = key PROVE r.body.form = body.form
    <3>1. r.key \in Keys /\ r.body.round \in 0..MaxRounds
      BY DEF SubmissionInv, SubmissionTypeOK, Request, Body
    <3>2. UsedIn(r.key, r.body.round)
      BY DEF UsedIn
    <3>3. r.key <= page.key
      BY <3>1, <3>2 DEF SubmissionInv, KeysOfRounds
    <3>4. key = page.key /\ body.form = page.fingerprint.form
      BY <1>1, <1>5, <2>1, <3>3
    <3>5. QED
      BY <2>1, <3>4 DEF SubmissionInv, KeyOfPage
  <2>2. QED
    BY <1>2, <1>3, <1>4, <1>6, <2>1 DEF KeyOfPage
<1>13. PageTold'
  BY <1>6 DEF PageTold
<1>14. QED
  BY <1>9, <1>10, <1>11, <1>12, <1>13 DEF SubmissionInv

\* Nothing that is sent or shown knows of a request or answer which is new.
LEMMA ReceiveKeeps ==
  ASSUME SubmissionInv, NEW r \in sent, NEW e \in Entries, NEW told \in BOOLEAN,
         Receive(r, e, told)
  PROVE  SubmissionInv'
<1> DEFINE answer == [form |-> r.body.form, expected |-> r.body.expected, account |-> r.as,
                      entry |-> e]
           entered == [form |-> r.body.form, owner |-> r.as, shown |-> r.body.expected,
                       round |-> r.body.round, pictures |-> [p \in Pictures |-> 0]]
<1>1. /\ page \in Page /\ page.pressed \in SUBSET Pictures
      /\ page.phase \in {"editing", "creating", "uploading", "done"}
      /\ sent \subseteq Request /\ session \in Visitors
      /\ answered \in [Keys -> Answer \cup {NoEntry}]
      /\ submitted \in [Entries -> Submitted \cup {NoEntry}]
  BY PageFields DEF SubmissionInv, SubmissionTypeOK
<1>2. /\ r \in Request /\ r.key \in Keys /\ r.as \in Visitors /\ r.body.form \in Forms
      /\ r.body.expected \in Visitors /\ r.body.round \in 0..MaxRounds
  BY <1>1 DEF Request, Body
<1>3. /\ r.body.expected = r.as /\ (Recorded(r, e) \/ Repeated(r, e))
      /\ sent' = sent \ {r} /\ session' = session
      /\ told => page.phase = "creating" /\ page.key = r.key
      /\ page' = IF told THEN Uploading(e) ELSE page
  BY DEF Receive, MaySubmit
<1>4. answer \in Answer /\ answer # NoEntry /\ answer.entry = e /\ answer.form = r.body.form
  BY <1>2, NothingEntered DEF Answer
<1>5. /\ entered \in Submitted /\ entered # NoEntry /\ entered.form = r.body.form
      /\ entered.owner = entered.shown /\ entered.round = r.body.round
  <2>1. [p \in Pictures |-> 0] \in [Pictures -> 0..MaxUploads]
    BY SubmissionAssumption
  <2>2. entered \in Submitted
    BY <1>2, <2>1 DEF Submitted
  <2>3. QED
    BY <1>3, <2>2, NothingEntered
<1>6. /\ page' \in Page /\ page'.form = page.form /\ page'.user = page.user
      /\ page'.round = page.round /\ page'.key = page.key
      /\ page'.fingerprint = page.fingerprint /\ page'.pressed = page.pressed
      /\ told => /\ page'.entry = e /\ page'.rest = page.pressed
                 /\ page'.phase \in {"uploading", "done"}
                 /\ page'.phase = "done" => page.pressed = {}
  <2>1. CASE told
    <3> DEFINE phase == IF page.pressed = {} THEN "done" ELSE "uploading"
               new == [page EXCEPT !.phase = phase, !.entry = e, !.rest = page.pressed]
    <3>1. /\ phase \in {"editing", "creating", "uploading", "done"}
          /\ phase \in {"uploading", "done"} /\ (phase = "done" => page.pressed = {})
      OBVIOUS
    <3>2. page' = new
      BY <1>3, <2>1 DEF Uploading
    <3> HIDE DEF phase
    <3>3. /\ new \in Page /\ new.form = page.form /\ new.user = page.user
          /\ new.round = page.round /\ new.key = page.key
          /\ new.fingerprint = page.fingerprint /\ new.pressed = page.pressed
          /\ new.entry = e /\ new.rest = page.pressed /\ new.phase = phase
      BY <1>1, <3>1, Zenon DEF Page
    <3> HIDE DEF new
    <3>4. QED
      BY <3>1, <3>2, <3>3
  <2>2. CASE ~told
    BY <1>1, <1>3, <2>2
  <2>3. QED
    BY <2>1, <2>2
<1> HIDE DEF answer, entered
\* The two rows, or none.
<1>7. \/ /\ answered[r.key] = NoEntry /\ submitted[e] = NoEntry
         /\ answered' = [answered EXCEPT ![r.key] = answer]
         /\ submitted' = [submitted EXCEPT ![e] = entered]
      \/ /\ answered[r.key] # NoEntry /\ answered[r.key].form = r.body.form
         /\ e = answered[r.key].entry /\ UNCHANGED <<answered, submitted>>
  BY <1>3 DEF Recorded, Repeated, SameHash, answer, entered
<1>8. /\ answered' \in [Keys -> Answer \cup {NoEntry}]
      /\ submitted' \in [Entries -> Submitted \cup {NoEntry}]
  BY <1>1, <1>4, <1>5, <1>7
<1>9. SubmissionTypeOK'
  BY <1>1, <1>3, <1>6, <1>8 DEF SubmissionTypeOK
\* An entry that exists keeps what it is, and an answer too.
<1>10. /\ \A f \in Entries : submitted[f] # NoEntry => submitted'[f] = submitted[f]
       /\ \A k \in Keys : answered[k] # NoEntry => answered'[k] = answered[k]
       /\ \A f \in Entries : submitted'[f] # NoEntry =>
            submitted'[f] = submitted[f] \/ (f = e /\ submitted'[f] = entered
                                               /\ submitted[e] = NoEntry)
       /\ \A k \in Keys : answered'[k] # NoEntry =>
            answered'[k] = answered[k] \/ (k = r.key /\ answered'[k] = answer
                                             /\ submitted[e] = NoEntry
                                             /\ submitted'[e] = entered)
  BY <1>1, <1>2, <1>7
<1>11. \A k \in Keys : answered[k] # NoEntry => answered[k].entry \in Entries
  BY <1>1 DEF Answer
<1>12. ASSUME NEW k \in Keys, NEW n \in 0..MaxRounds, (UsedIn(k, n))' PROVE UsedIn(k, n)
  <2>1. CASE \E q \in sent' : q.key = k /\ q.body.round = n
    BY <1>3, <2>1 DEF UsedIn
  <2>2. CASE answered'[k] # NoEntry /\ submitted'[answered'[k].entry].round = n
    <3>1. CASE answered'[k] = answered[k]
      <4>1. submitted[answered[k].entry] # NoEntry /\ answered[k].entry \in Entries
        BY <1>11, <2>2, <3>1 DEF SubmissionInv, AnswersNameEntries
      <4>2. submitted'[answered[k].entry] = submitted[answered[k].entry]
        BY <1>10, <4>1
      <4>3. QED
        BY <2>2, <3>1, <4>2 DEF UsedIn
    <3>2. CASE k = r.key /\ answered'[k] = answer /\ submitted'[e] = entered
      BY <1>4, <1>5, <2>2, <3>2 DEF UsedIn
    <3>3. QED
      BY <1>10, <2>2, <3>1, <3>2
  <2>3. QED
    BY <1>12, <2>1, <2>2 DEF UsedIn
<1>13. KeysOfRounds'
  BY <1>6, <1>12 DEF SubmissionInv, KeysOfRounds
<1>14. AnswersNameEntries'
  <2>1. ASSUME NEW k \in Keys, answered'[k] # NoEntry
        PROVE  /\ submitted'[answered'[k].entry] # NoEntry
               /\ answered'[k].form = submitted'[answered'[k].entry].form
    <3>1. CASE answered'[k] = answered[k]
      <4>1. /\ submitted[answered[k].entry] # NoEntry /\ answered[k].entry \in Entries
            /\ answered[k].form = submitted[answered[k].entry].form
        BY <1>11, <2>1, <3>1 DEF SubmissionInv, AnswersNameEntries
      <4>2. submitted'[answered[k].entry] = submitted[answered[k].entry]
        BY <1>10, <4>1
      <4>3. QED
        BY <3>1, <4>1, <4>2
    <3>2. CASE k = r.key /\ answered'[k] = answer /\ submitted'[e] = entered
      BY <1>4, <1>5, <3>2
    <3>3. QED
      BY <1>10, <2>1, <3>1, <3>2
  <2>2. ASSUME NEW k \in Keys, NEW l \in Keys, answered'[k] # NoEntry, answered'[l] # NoEntry,
               answered'[k].entry = answered'[l].entry
        PROVE  k = l
    <3>1. \A m \in Keys : answered[m] # NoEntry => submitted[answered[m].entry] # NoEntry
      BY DEF SubmissionInv, AnswersNameEntries
    <3>2. CASE answered'[k] = answered[k] /\ answered'[l] = answered[l]
      BY <2>2, <3>2 DEF SubmissionInv, AnswersNameEntries
    <3>3. CASE answered'[k] # answered[k] /\ answered'[l] = answered[l]
      BY <1>4, <1>10, <2>2, <3>1, <3>3
    <3>4. CASE answered'[k] = answered[k] /\ answered'[l] # answered[l]
      BY <1>4, <1>10, <2>2, <3>1, <3>4
    <3>5. CASE answered'[k] # answered[k] /\ answered'[l] # answered[l]
      BY <1>10, <2>2, <3>5
    <3>6. QED
      BY <3>2, <3>3, <3>4, <3>5
  <2>3. ASSUME NEW f \in Entries, submitted'[f] # NoEntry
        PROVE  /\ submitted'[f].owner = submitted'[f].shown
               /\ \E k \in Keys : answered'[k] # NoEntry /\ answered'[k].entry = f
    <3>1. CASE submitted'[f] = submitted[f]
      <4>1. submitted[f].owner = submitted[f].shown
        BY <2>3, <3>1 DEF SubmissionInv, AnswersNameEntries
      <4>2. PICK k \in Keys : answered[k] # NoEntry /\ answered[k].entry = f
        BY <2>3, <3>1 DEF SubmissionInv, AnswersNameEntries
      <4>3. answered'[k] # NoEntry /\ answered'[k].entry = f
        BY <1>10, <4>2
      <4>4. QED
        BY <3>1, <4>1, <4>3
    <3>2. CASE f = e /\ submitted'[f] = entered /\ submitted[e] = NoEntry
      <4>1. answered'[r.key] = answer
        <5>1. answered' = [answered EXCEPT ![r.key] = answer]
          BY <1>7, <2>3, <3>2
        <5>2. QED
          BY <1>1, <1>2, <5>1
      <4>2. QED
        BY <1>2, <1>4, <1>5, <3>2, <4>1
    <3>3. QED
      BY <1>10, <2>3, <3>1, <3>2
  <2>4. QED
    BY <2>1, <2>2, <2>3 DEF AnswersNameEntries
<1>15. KeyOfPage'
  BY <1>3, <1>6 DEF SubmissionInv, KeyOfPage
<1>16. PageTold'
  <2>1. CASE told
    <3>1. r.body.form = page.form
      BY <1>3, <2>1 DEF SubmissionInv, KeyOfPage
    <3>2. submitted'[e] # NoEntry /\ submitted'[e].form = r.body.form
      <4>1. CASE submitted' = [submitted EXCEPT ![e] = entered]
        BY <1>1, <1>5, <4>1
      <4>2. CASE /\ answered[r.key] # NoEntry /\ answered[r.key].form = r.body.form
                 /\ e = answered[r.key].entry /\ submitted' = submitted
        BY <1>2, <4>2 DEF SubmissionInv, AnswersNameEntries
      <4>3. QED
        BY <1>7, <4>1, <4>2
    <3>3. page'.pressed \ page'.rest = {} /\ (page'.phase = "done" => page'.rest = {})
      BY <1>6, <2>1
    <3>4. QED
      BY <1>6, <2>1, <3>1, <3>2, <3>3 DEF PageTold
  <2>2. CASE ~told
    <3>1. page' = page
      BY <1>3, <2>2
    <3>2. QED
      BY <1>10, <3>1 DEF SubmissionInv, PageTold
  <2>3. QED
    BY <2>1, <2>2
<1>17. QED
  BY <1>9, <1>13, <1>14, <1>15, <1>16 DEF SubmissionInv

LEMMA UploadKeeps ==
  ASSUME SubmissionInv, NEW p \in Pictures, NEW told \in BOOLEAN, Upload(p, told)
  PROVE  SubmissionInv'
<1> DEFINE e == page.entry
           row == submitted[e]
           more == [row EXCEPT !.pictures[p] = @ + 1]
<1>1. /\ page \in Page /\ page.rest \in SUBSET Pictures /\ page.pressed \in SUBSET Pictures
      /\ sent \subseteq Request /\ session \in Visitors
      /\ answered \in [Keys -> Answer \cup {NoEntry}]
      /\ submitted \in [Entries -> Submitted \cup {NoEntry}]
  BY PageFields DEF SubmissionInv, SubmissionTypeOK
<1>2. /\ page.phase = "uploading" /\ p \in page.rest
      /\ row.pictures[p] < MaxUploads
      /\ submitted' = [submitted EXCEPT ![e].pictures[p] = @ + 1]
      /\ page' = IF ~told THEN [page EXCEPT !.phase = "editing", !.entry = NoEntry, !.rest = {}]
                 ELSE [page EXCEPT !.rest = @ \ {p},
                                   !.phase = IF page.rest = {p} THEN "done" ELSE @]
      /\ UNCHANGED <<session, sent, answered>>
  BY DEF Upload
<1>3. /\ e \in Entries /\ row # NoEntry /\ row \in Submitted /\ row.form = page.form
      /\ \A q \in page.pressed \ page.rest : row.pictures[q] > 0
  BY <1>1, <1>2 DEF SubmissionInv, PageTold
<1>4. row.pictures \in [Pictures -> 0..MaxUploads] /\ row.pictures[p] \in 0..MaxUploads
  BY <1>3 DEF Submitted
<1>5. /\ more \in Submitted /\ more.form = row.form /\ more.owner = row.owner
      /\ more.shown = row.shown /\ more.round = row.round
      /\ more.pictures = [row.pictures EXCEPT ![p] = @ + 1]
  <2>1. [row.pictures EXCEPT ![p] = @ + 1] \in [Pictures -> 0..MaxUploads]
    BY <1>2, <1>4, SubmissionAssumption
  <2> DEFINE pictures == [row.pictures EXCEPT ![p] = @ + 1]
             changed == [row EXCEPT !.pictures = pictures]
  <2>2. more = changed
    BY Zenon
  <2> HIDE DEF pictures
  <2>3. /\ changed \in Submitted /\ changed.form = row.form /\ changed.owner = row.owner
        /\ changed.shown = row.shown /\ changed.round = row.round
        /\ changed.pictures = pictures
    BY <1>3, <2>1, Zenon DEF Submitted, pictures
  <2> HIDE DEF changed, more
  <2>4. QED
    BY <2>2, <2>3 DEF pictures
<1>6. submitted' = [submitted EXCEPT ![e] = more]
  BY <1>2, Zenon
<1>7. more # NoEntry
  BY <1>5, NothingEntered
<1>8. /\ more.pictures[p] > 0
      /\ \A q \in Pictures : row.pictures[q] > 0 => more.pictures[q] > 0
  BY <1>4, <1>5
<1>9. /\ page' \in Page /\ page'.form = page.form /\ page'.user = page.user
      /\ page'.round = page.round /\ page'.key = page.key
      /\ page'.fingerprint = page.fingerprint /\ page'.pressed = page.pressed
      /\ \/ page'.phase = "editing"
         \/ /\ page'.phase \in {"uploading", "done"} /\ page'.entry = e
            /\ page'.rest = page.rest \ {p} /\ (page'.phase = "done" => page.rest = {p})
  <2>1. CASE told
    <3> DEFINE phase == IF page.rest = {p} THEN "done" ELSE page.phase
               left == page.rest \ {p}
               new == [page EXCEPT !.rest = left, !.phase = phase]
    <3>1. /\ phase \in {"editing", "creating", "uploading", "done"} /\ left \in SUBSET Pictures
          /\ phase \in {"uploading", "done"} /\ (phase = "done" => page.rest = {p})
      BY <1>1, <1>2
    <3>2. page' = new
      BY <1>2, <2>1
    <3> HIDE DEF phase, left
    <3>3. /\ new \in Page /\ new.form = page.form /\ new.user = page.user
          /\ new.round = page.round /\ new.key = page.key
          /\ new.fingerprint = page.fingerprint /\ new.pressed = page.pressed
          /\ new.entry = page.entry /\ new.rest = left /\ new.phase = phase
      BY <1>1, <3>1, Zenon DEF Page
    <3> HIDE DEF new
    <3>4. QED
      BY <3>1, <3>2, <3>3 DEF left
  <2>2. CASE ~told
    <3> DEFINE new == [page EXCEPT !.phase = "editing", !.entry = NoEntry, !.rest = {}]
    <3>1. /\ new \in Page /\ new.form = page.form /\ new.user = page.user
          /\ new.round = page.round /\ new.key = page.key
          /\ new.fingerprint = page.fingerprint /\ new.pressed = page.pressed
          /\ new.phase = "editing"
      BY <1>1, Zenon DEF Page
    <3>2. page' = new
      BY <1>2, <2>2
    <3> HIDE DEF new
    <3>3. QED
      BY <3>1, <3>2
  <2>3. QED
    BY <2>1, <2>2
<1> HIDE DEF more
\* Only the pictures of one entry are other ones.
<1>10. /\ submitted'[e] = more /\ submitted[e] = row
       /\ \A f \in Entries : f # e => submitted'[f] = submitted[f]
  BY <1>1, <1>3, <1>6
<1>11. SubmissionTypeOK'
  <2>1. submitted' \in [Entries -> Submitted \cup {NoEntry}]
    BY <1>1, <1>5, <1>6
  <2>2. QED
    BY <1>1, <1>2, <1>9, <2>1 DEF SubmissionTypeOK
<1>12. /\ \A f \in Entries :
            /\ submitted'[f] # NoEntry <=> submitted[f] # NoEntry
            /\ submitted[f] # NoEntry =>
                 /\ submitted'[f].form = submitted[f].form
                 /\ submitted'[f].round = submitted[f].round
                 /\ submitted'[f].owner = submitted[f].owner
                 /\ submitted'[f].shown = submitted[f].shown
  BY <1>3, <1>5, <1>7, <1>10
<1>13. \A k \in Keys : answered[k] # NoEntry =>
         answered[k].entry \in Entries /\ submitted[answered[k].entry] # NoEntry
  BY <1>1 DEF Answer, SubmissionInv, AnswersNameEntries
<1>14. KeysOfRounds'
  <2>1. \A k \in Keys, n \in 0..MaxRounds : (UsedIn(k, n))' <=> UsedIn(k, n)
    BY <1>2, <1>12, <1>13 DEF UsedIn
  <2>2. QED
    BY <1>9, <2>1 DEF SubmissionInv, KeysOfRounds
<1>15. AnswersNameEntries'
  BY <1>2, <1>12, <1>13 DEF SubmissionInv, AnswersNameEntries
<1>16. KeyOfPage'
  BY <1>2, <1>9 DEF SubmissionInv, KeyOfPage
<1>17. PageTold'
  <2>1. CASE page'.phase = "editing"
    BY <2>1 DEF PageTold
  <2>2. CASE /\ page'.phase \in {"uploading", "done"} /\ page'.entry = e
             /\ page'.rest = page.rest \ {p} /\ (page'.phase = "done" => page.rest = {p})
    <3>1. \A q \in page'.pressed \ page'.rest : more.pictures[q] > 0
      BY <1>1, <1>3, <1>8, <1>9, <2>2
    <3>2. page'.phase = "done" => page'.rest = {}
      BY <2>2
    <3>3. QED
      BY <1>3, <1>5, <1>7, <1>9, <1>10, <2>2, <3>1, <3>2 DEF PageTold
  <2>3. QED
    BY <1>9, <2>1, <2>2
<1>18. QED
  BY <1>11, <1>14, <1>15, <1>16, <1>17 DEF SubmissionInv

LEMMA SubmissionInvStep == SubmissionInv /\ [SubmissionNext]_submissionVars => SubmissionInv'
<1> SUFFICES ASSUME SubmissionInv, [SubmissionNext]_submissionVars PROVE SubmissionInv'
  OBVIOUS
<1>1. /\ page \in Page /\ page.form \in Forms /\ page.pictures \in SUBSET Pictures
      /\ page.round \in 0..MaxRounds /\ page.round \in Nat /\ session \in Visitors
  BY PageFields DEF SubmissionInv, SubmissionTypeOK
<1>2. ASSUME NEW v \in Visitors, ChangeSession(v) PROVE SubmissionInv'
  BY <1>1, <1>2, PageAlone DEF ChangeSession
<1>3. CASE Refetch
  <2> DEFINE round == page.round + 1
             new == [page EXCEPT !.user = session, !.round = round]
  <2>1. page' = new /\ UNCHANGED <<session, sent, answered, submitted>>
    BY <1>3 DEF Refetch
  <2>2. round \in 0..MaxRounds /\ round = page.round + 1
    BY <1>1, <1>3, SubmissionAssumption DEF Refetch
  <2> HIDE DEF round
  <2>3. /\ new \in Page /\ new.form = page.form /\ new.round = round /\ new.key = page.key
        /\ new.fingerprint = page.fingerprint /\ new.phase = page.phase
        /\ new.entry = page.entry /\ new.pressed = page.pressed /\ new.rest = page.rest
    BY <1>1, <2>2, Zenon DEF Page
  <2> HIDE DEF new
  <2>4. QED
    BY <1>1, <2>1, <2>2, <2>3, PageAlone
<1>4. ASSUME NEW f \in Forms, EditForm(f) PROVE SubmissionInv'
  <2> DEFINE round == page.round + 1
             new == [page EXCEPT !.form = f, !.round = round]
  <2>1. /\ page' = new /\ UNCHANGED <<session, sent, answered, submitted>>
        /\ page.phase = "editing"
    BY <1>4 DEF EditForm
  <2>2. round \in 0..MaxRounds /\ round = page.round + 1
    BY <1>1, <1>4, SubmissionAssumption DEF EditForm
  <2> HIDE DEF round
  <2>3. /\ new \in Page /\ new.round = round /\ new.key = page.key
        /\ new.fingerprint = page.fingerprint /\ new.phase = page.phase
        /\ new.entry = page.entry /\ new.pressed = page.pressed /\ new.rest = page.rest
    BY <1>1, <2>2, Zenon DEF Page
  <2> HIDE DEF new
  <2>4. QED
    BY <1>1, <2>1, <2>2, <2>3, PageAlone
<1>5. ASSUME NEW pictures \in SUBSET Pictures, ChoosePictures(pictures) PROVE SubmissionInv'
  <2> DEFINE new == [page EXCEPT !.pictures = pictures]
  <2>1. page' = new /\ UNCHANGED <<session, sent, answered, submitted>>
    BY <1>5 DEF ChoosePictures
  <2>2. /\ new \in Page /\ new.form = page.form /\ new.user = page.user
        /\ new.round = page.round /\ new.key = page.key
        /\ new.fingerprint = page.fingerprint /\ new.phase = page.phase
        /\ new.entry = page.entry /\ new.pressed = page.pressed /\ new.rest = page.rest
    BY <1>1, Zenon DEF Page
  <2> HIDE DEF new
  <2>3. QED
    BY <1>1, <2>1, <2>2, PageAlone
<1>6. CASE GiveUp
  <2> DEFINE new == [page EXCEPT !.phase = "editing", !.entry = NoEntry, !.rest = {}]
  <2>1. /\ page' = new /\ UNCHANGED <<session, sent, answered, submitted>>
        /\ page.phase # "editing"
    BY <1>6 DEF GiveUp
  <2>2. /\ new \in Page /\ new.form = page.form /\ new.user = page.user
        /\ new.round = page.round /\ new.key = page.key
        /\ new.fingerprint = page.fingerprint /\ new.phase = "editing"
    BY <1>1, Zenon DEF Page
  <2> HIDE DEF new
  <2>3. QED
    BY <1>1, <2>1, <2>2, PageAlone
<1>7. CASE UNCHANGED submissionVars
  BY <1>1, <1>7, PageAlone DEF submissionVars
<1>8. QED
  BY <1>2, <1>3, <1>4, <1>5, <1>6, <1>7, PressKeeps, ReceiveKeeps, UploadKeeps DEF SubmissionNext

LEMMA SubmissionInvTells == SubmissionInv => SubmittedOnce /\ SubmittedAsShown
<1> SUFFICES ASSUME SubmissionInv PROVE SubmittedOnce /\ SubmittedAsShown
  OBVIOUS
<1>1. ASSUME NEW e \in Entries, NEW f \in Entries, submitted[e] # NoEntry, submitted[f] # NoEntry,
             submitted[e].round = submitted[f].round
      PROVE  e = f
  <2>1. PICK k \in Keys : answered[k] # NoEntry /\ answered[k].entry = e
    BY <1>1 DEF SubmissionInv, AnswersNameEntries
  <2>2. PICK l \in Keys : answered[l] # NoEntry /\ answered[l].entry = f
    BY <1>1 DEF SubmissionInv, AnswersNameEntries
  <2>3. submitted[e].round \in 0..MaxRounds
    BY <1>1 DEF SubmissionInv, SubmissionTypeOK, Submitted
  <2>4. UsedIn(k, submitted[e].round) /\ UsedIn(l, submitted[e].round)
    BY <1>1, <2>1, <2>2 DEF UsedIn
  <2>5. k = l
    BY <2>3, <2>4 DEF SubmissionInv, KeysOfRounds
  <2>6. QED
    BY <2>1, <2>2, <2>5
<1>2. \A e \in Entries : submitted[e] # NoEntry => submitted[e].owner = submitted[e].shown
  BY DEF SubmissionInv, AnswersNameEntries
<1>3. ASSUME page.phase = "done"
      PROVE  /\ submitted[page.entry].form = page.form
             /\ \A p \in page.pressed : submitted[page.entry].pictures[p] > 0
  BY <1>3 DEF SubmissionInv, PageTold
<1>4. SubmittedOnce
  BY <1>1 DEF SubmittedOnce
<1>5. SubmittedAsShown
  BY <1>2, <1>3 DEF SubmittedAsShown
<1>6. QED
  BY <1>4, <1>5

\* The submission by itself: what the page, its requests and the tables hold
\* is of its kind,
THEOREM SubmissionTypes == SubmissionSpec => []SubmissionTypeOK
<1>1. SubmissionInv => SubmissionTypeOK
  BY DEF SubmissionInv
<1>2. QED
  BY <1>1, SubmissionInvInit, SubmissionInvStep, PTL DEF SubmissionSpec

\* repeated presses make one entry as long as form and account stay the same,
THEOREM OneEntryPerRound == SubmissionSpec => []SubmittedOnce
<1>1. QED
  BY SubmissionInvInit, SubmissionInvStep, SubmissionInvTells, PTL DEF SubmissionSpec

\* and an entry belongs to the account that the page showed, and has what the
\* page reports (routes/listings.ts:952).
THEOREM EntriesAsShown == SubmissionSpec => []SubmittedAsShown
<1>1. QED
  BY SubmissionInvInit, SubmissionInvStep, SubmissionInvTells, PTL DEF SubmissionSpec

------------------------------------------------------------------------------
(* EntryImages. *)

\* The table: the card is one described image, of no more than MaxActive.
CardKept ==
  /\ IsFiniteSet(Active(images)) /\ Cardinality(Active(images)) <= MaxActive
  /\ \A i \in Active(images) :
       /\ images[i].isLead = images[i].shareable
       /\ images[i].isLead => images[i].described
       /\ \A j \in Active(images) : images[i].isLead /\ images[j].isLead => i = j

\* What the page shows and removes has had a row; a new picture has none yet.
RowsKept ==
  /\ \A i \in Set(editor.shown) \cup editor.removed : images[i] # NoRow
  /\ \A i \in Set(editor.pending) \cup Set(save.upload) : images[i] = NoRow

\* The page: it has one card as long as nobody else writes, and shows the table
\* until its own image requests are sent; a page with the version that its PUT
\* has keeps it until the PUT arrives.
PageKept ==
  /\ ~editor.open => editor = Closed
  /\ alone => \A i, j \in Starred : i = j
  /\ alone /\ (editor.current \/ (editor.open /\ save.phase = "stored")) =>
       Shown(images) = editor.shown
  /\ save.phase = "saving" /\ save.current /\ editor.open => editor.current

\* An image is as wanted or has a request left that makes it so, and one card is
\* wanted at most: no request undoes what another one did.
AsWanted ==
  /\ \A i \in Images :
       /\ i \in Set(save.patch) => save.patch[i] = save.want[i]
       /\ i \in Set(save.upload) => save.upload[i] = save.want[i]
       /\ i \in save.delete => save.want[i] = NoDraft
       /\ i \notin Set(save.patch) \cup Set(save.upload) \cup save.delete =>
            Shown(images)[i] = save.want[i]
  /\ \A i, j \in Set(save.want) :
       save.want[i].shareable /\ save.want[j].shareable => i = j

SaveKept ==
  /\ save.phase # "images" =>
       save.patch = Unused /\ save.delete = {} /\ save.upload = Unused
  /\ save.phase \notin {"images", "saved"} => save.want = Unknown
  /\ save.want # Unknown => AsWanted

ImagesInv == ImagesTypeOK /\ CardKept /\ RowsKept /\ PageKept /\ SaveKept

\* A value that is not there is neither a row nor a draft.
LEMMA NothingDrawn ==
  /\ NoRow \notin Row /\ Removed \notin Row /\ NoRow # Removed
  /\ NoDraft \notin Draft
<1>1. /\ "missing" \in DOMAIN NoRow /\ "deleted" \in DOMAIN Removed
      /\ "missing" \notin DOMAIN Removed /\ "unchanged" \in DOMAIN NoDraft
      /\ \A r \in Row : "missing" \notin DOMAIN r /\ "deleted" \notin DOMAIN r
      /\ \A d \in Draft : "unchanged" \notin DOMAIN d
  BY DEF NoRow, Removed, NoDraft, Row, Draft
<1>2. QED
  BY <1>1

\* A draft is its two fields.
LEMMA DraftFields ==
  ASSUME NEW d \in Draft
  PROVE  /\ d.described \in BOOLEAN /\ d.shareable \in BOOLEAN
         /\ [described |-> d.described, shareable |-> d.shareable] = d
         /\ \A b \in BOOLEAN : /\ [d EXCEPT !.shareable = b] \in Draft
                               /\ [d EXCEPT !.shareable = b].shareable = b
                               /\ [d EXCEPT !.described = b] \in Draft
                               /\ [d EXCEPT !.described = b].shareable = d.shareable
<1>1. d.described \in BOOLEAN /\ d.shareable \in BOOLEAN
  BY DEF Draft
<1>2. [described |-> d.described, shareable |-> d.shareable] = d
  BY DEF Draft
<1>3. ASSUME NEW b \in BOOLEAN
      PROVE  /\ [d EXCEPT !.shareable = b] \in Draft /\ [d EXCEPT !.shareable = b].shareable = b
             /\ [d EXCEPT !.described = b] \in Draft
             /\ [d EXCEPT !.described = b].shareable = d.shareable
  BY DEF Draft
<1>4. QED
  BY <1>1, <1>2, <1>3

\* A row that is no longer the card.
Plain(row) == [row EXCEPT !.shareable = FALSE, !.isLead = FALSE]

LEMMA RowFields ==
  ASSUME NEW r \in Row
  PROVE  /\ r.described \in BOOLEAN /\ r.shareable \in BOOLEAN /\ r.isLead \in BOOLEAN
         /\ Plain(r) \in Row /\ Plain(r).described = r.described
         /\ Plain(r).shareable = FALSE /\ Plain(r).isLead = FALSE
<1>1. r.described \in BOOLEAN /\ r.shareable \in BOOLEAN /\ r.isLead \in BOOLEAN
  BY DEF Row
<1>2. FALSE \in BOOLEAN
  OBVIOUS
<1>3. /\ Plain(r) \in Row /\ Plain(r).described = r.described
      /\ Plain(r).shareable = FALSE /\ Plain(r).isLead = FALSE
  BY <1>2, Zenon DEF Row, Plain
<1>4. QED
  BY <1>1, <1>3

\* The active rows of a table, and what the page shows of them.
LEMMA ActiveRows ==
  ASSUME NEW rows \in [Images -> Row \cup {NoRow, Removed}]
  PROVE  /\ Active(rows) \subseteq Images
         /\ \A i \in Images : i \in Active(rows) <=> rows[i] \in Row
         /\ \A i \in Images : i \in Active(rows) =>
              /\ Shown(rows)[i] \in Draft
              /\ Shown(rows)[i].described = rows[i].described
              /\ Shown(rows)[i].shareable = rows[i].shareable
         /\ \A i \in Images : i \notin Active(rows) => Shown(rows)[i] = NoDraft
         /\ \A i \in Images : Shown(rows)[i] # NoDraft <=> i \in Active(rows)
         /\ Shown(rows) \in [Images -> Draft \cup {NoDraft}]
<1>1. Active(rows) \subseteq Images
  BY DEF Active
<1>2. \A i \in Images : i \in Active(rows) <=> rows[i] \in Row
  BY NothingDrawn DEF Active
<1>3. \A i \in Images : i \in Active(rows) =>
        Shown(rows)[i] = [described |-> rows[i].described, shareable |-> rows[i].shareable]
  BY DEF Shown
<1>4. \A i \in Images : i \in Active(rows) =>
        /\ Shown(rows)[i] \in Draft
        /\ Shown(rows)[i].described = rows[i].described
        /\ Shown(rows)[i].shareable = rows[i].shareable
  <2>1. ASSUME NEW i \in Images, i \in Active(rows)
        PROVE  /\ Shown(rows)[i] \in Draft
               /\ Shown(rows)[i].described = rows[i].described
               /\ Shown(rows)[i].shareable = rows[i].shareable
    <3>1. rows[i].described \in BOOLEAN /\ rows[i].shareable \in BOOLEAN
      BY <1>2, <2>1, RowFields
    <3>2. Shown(rows)[i] = [described |-> rows[i].described, shareable |-> rows[i].shareable]
      BY <1>3, <2>1
    <3>3. QED
      BY <3>1, <3>2 DEF Draft
  <2>2. QED
    BY <2>1
<1>5. \A i \in Images : i \notin Active(rows) => Shown(rows)[i] = NoDraft
  BY DEF Shown
<1>6. Shown(rows) \in [Images -> Draft \cup {NoDraft}]
  <2>1. Shown(rows) = [i \in Images |-> Shown(rows)[i]]
    BY DEF Shown
  <2>2. QED
    BY <1>4, <1>5, <2>1
<1>7. QED
  BY <1>1, <1>2, <1>4, <1>5, <1>6, NothingDrawn

\* What a picture that arrives or is changed does to the table.
Written(i, draft) ==
  /\ images' \in [Images -> Row \cup {NoRow, Removed}]
  /\ images'[i] = RowOf(draft)
  /\ \A j \in Images \ {i} :
       images'[j] = IF draft.shareable /\ j \in Active(images)
                    THEN Plain(images[j])
                    ELSE images[j]

LEMMA RowWritten ==
  ASSUME ImagesTypeOK, NEW i \in Images, NEW draft \in Draft,
         Inserted(i, draft) \/ Patched(i, draft)
  PROVE  Written(i, draft)
<1>1. images \in [Images -> Row \cup {NoRow, Removed}]
  BY DEF ImagesTypeOK
<1>2. ASSUME NEW keep, keep \subseteq {i}
      PROVE  LET rows == IF draft.shareable THEN Unstarred(images, keep) ELSE images IN
             /\ rows \in [Images -> Row \cup {NoRow, Removed}]
             /\ \A j \in Images \ {i} :
                  rows[j] = IF draft.shareable /\ j \in Active(images)
                            THEN Plain(images[j])
                            ELSE images[j]
  <2>1. \A j \in Active(images) : Plain(images[j]) \in Row
    BY <1>1, ActiveRows, RowFields
  <2>2. Unstarred(images, keep) =
          [j \in Images |-> IF j \in Active(images) \ keep THEN Plain(images[j]) ELSE images[j]]
    BY DEF Unstarred, Plain
  <2>3. Unstarred(images, keep) \in [Images -> Row \cup {NoRow, Removed}]
    BY <1>1, <2>1, <2>2
  <2>4. \A j \in Images \ {i} :
          Unstarred(images, keep)[j] = IF j \in Active(images) THEN Plain(images[j]) ELSE images[j]
    BY <1>2, <2>2
  <2>5. QED
    BY <1>1, <2>3, <2>4
<1>3. RowOf(draft) \in Row
  BY DraftFields DEF RowOf, Row
<1>4. CASE Inserted(i, draft)
  <2> DEFINE rows == IF draft.shareable THEN Unstarred(images, {}) ELSE images
  <2>1. /\ rows \in [Images -> Row \cup {NoRow, Removed}]
        /\ \A j \in Images \ {i} :
             rows[j] = IF draft.shareable /\ j \in Active(images)
                       THEN Plain(images[j])
                       ELSE images[j]
    BY <1>2
  <2>2. images' = [rows EXCEPT ![i] = RowOf(draft)]
    BY <1>4 DEF Inserted
  <2> HIDE DEF rows
  <2>3. QED
    BY <1>3, <2>1, <2>2 DEF Written
<1>5. CASE Patched(i, draft)
  <2> DEFINE rows == IF draft.shareable THEN Unstarred(images, {i}) ELSE images
  <2>1. /\ rows \in [Images -> Row \cup {NoRow, Removed}]
        /\ \A j \in Images \ {i} :
             rows[j] = IF draft.shareable /\ j \in Active(images)
                       THEN Plain(images[j])
                       ELSE images[j]
    BY <1>2
  <2>2. images' = [rows EXCEPT ![i] = RowOf(draft)]
    BY <1>5 DEF Patched
  <2> HIDE DEF rows
  <2>3. QED
    BY <1>3, <2>1, <2>2 DEF Written
<1>6. QED
  BY <1>4, <1>5

\* Of a written table: the active rows, and what the page would show.
LEMMA WrittenShown ==
  ASSUME ImagesTypeOK, NEW i \in Images, NEW draft \in Draft, Written(i, draft)
  PROVE  /\ Active(images') = Active(images) \cup {i}
         /\ Shown(images')[i] = draft
         /\ \A j \in Images : images[j] # NoRow => images'[j] # NoRow
         /\ images'[i] # NoRow
         /\ \A j \in Images \ {i} :
              (Shown(images)[j] # NoDraft => ~(Shown(images)[j].shareable /\ draft.shareable))
                => Shown(images')[j] = Shown(images)[j]
<1>1. /\ images \in [Images -> Row \cup {NoRow, Removed}]
      /\ images' \in [Images -> Row \cup {NoRow, Removed}]
  BY DEF ImagesTypeOK, Written
<1>2. RowOf(draft) \in Row /\ images'[i] = RowOf(draft)
  BY DraftFields DEF RowOf, Row, Written
<1>3. \A j \in Images \ {i} : images'[j] \in Row <=> images[j] \in Row
  <2>1. ASSUME NEW j \in Images \ {i} PROVE images'[j] \in Row <=> images[j] \in Row
    <3>1. images'[j] = images[j] \/ (j \in Active(images) /\ images'[j] = Plain(images[j]))
      BY DEF Written
    <3>2. j \in Active(images) => images[j] \in Row /\ Plain(images[j]) \in Row
      BY <1>1, ActiveRows, RowFields
    <3>3. QED
      BY <3>1, <3>2
  <2>2. QED
    BY <2>1
<1>4. Active(images') = Active(images) \cup {i}
  BY <1>1, <1>2, <1>3, ActiveRows
<1>5. Shown(images')[i] = draft
  <2>1. Shown(images')[i] = [described |-> images'[i].described, shareable |-> images'[i].shareable]
    BY <1>4 DEF Shown
  <2>2. images'[i].described = draft.described /\ images'[i].shareable = draft.shareable
    BY <1>2 DEF RowOf
  <2>3. QED
    BY <2>1, <2>2, DraftFields
<1>6. \A j \in Images \ {i} : images[j] # NoRow => images'[j] # NoRow
  BY <1>1, <1>3, NothingDrawn, ActiveRows DEF Written
<1>7. ASSUME NEW j \in Images \ {i},
             Shown(images)[j] # NoDraft => ~(Shown(images)[j].shareable /\ draft.shareable)
      PROVE  Shown(images')[j] = Shown(images)[j]
  <2>1. CASE j \in Active(images)
    <3>1. images[j] \in Row /\ ~(images[j].shareable /\ draft.shareable)
      BY <1>1, <1>7, <2>1, ActiveRows
    <3>2. images'[j].described = images[j].described /\ images'[j].shareable = images[j].shareable
      BY <2>1, <3>1, RowFields DEF Written
    <3>3. j \in Active(images')
      BY <1>4, <2>1
    <3>4. QED
      BY <2>1, <3>2, <3>3 DEF Shown
  <2>2. CASE j \notin Active(images)
    BY <1>1, <1>4, <2>2, ActiveRows
  <2>3. QED
    BY <2>1, <2>2
<1>8. QED
  BY <1>2, <1>4, <1>5, <1>6, <1>7, NothingDrawn

\* A written table has one card, of a described image.
LEMMA WrittenCard ==
  ASSUME ImagesTypeOK, CardKept, NEW i \in Images, NEW draft \in Draft, Written(i, draft),
         Describes(draft),
         i \in Active(images) \/ Cardinality(Active(images)) < MaxActive
  PROVE  CardKept'
<1>1. /\ images \in [Images -> Row \cup {NoRow, Removed}]
      /\ Active(images') = Active(images) \cup {i}
  BY WrittenShown DEF ImagesTypeOK
<1>2. IsFiniteSet(Active(images))
  BY DEF CardKept
<1>3. /\ IsFiniteSet(Active(images) \cup {i})
      /\ Cardinality(Active(images) \cup {i}) =
           IF i \in Active(images) THEN Cardinality(Active(images))
           ELSE Cardinality(Active(images)) + 1
  BY <1>2, FS_AddElement
<1>4. Cardinality(Active(images)) \in Nat
  BY <1>2, FS_CardinalityType
<1>5. Cardinality(Active(images) \cup {i}) <= MaxActive
  BY <1>3, <1>4, ImagesAssumption DEF CardKept
<1>6. /\ images'[i].isLead = draft.shareable /\ images'[i].shareable = draft.shareable
      /\ images'[i].described = draft.described
  BY DEF Written, RowOf
<1>7. ASSUME NEW j \in Active(images), j # i
      PROVE  /\ images'[j].isLead = images'[j].shareable
             /\ images'[j].isLead =>
                  images[j].isLead /\ images'[j].described /\ ~draft.shareable
  <2>1. images[j] \in Row /\ j \in Images
    BY <1>1, ActiveRows
  <2>2. /\ images[j].isLead = images[j].shareable
        /\ images[j].isLead => images[j].described
    BY DEF CardKept
  <2>3. CASE draft.shareable
    <3>1. images'[j] = Plain(images[j])
      BY <1>7, <2>1, <2>3 DEF Written
    <3>2. images'[j].isLead = FALSE /\ images'[j].shareable = FALSE
      BY <2>1, <3>1, RowFields
    <3>3. QED
      BY <3>2
  <2>4. CASE ~draft.shareable
    <3>1. images'[j] = images[j]
      BY <1>7, <2>1, <2>4 DEF Written
    <3>2. QED
      BY <2>2, <2>4, <3>1
  <2>5. QED
    BY <2>3, <2>4
<1>8. ASSUME NEW j \in Active(images'), NEW k \in Active(images'),
             images'[j].isLead, images'[k].isLead
      PROVE  j = k
  <2>1. CASE j = i \/ k = i
    BY <1>1, <1>6, <1>7, <1>8, <2>1
  <2>2. CASE j # i /\ k # i
    <3>1. j \in Active(images) /\ k \in Active(images) /\ images[j].isLead /\ images[k].isLead
      BY <1>1, <1>7, <1>8, <2>2
    <3>2. QED
      BY <3>1 DEF CardKept
  <2>3. QED
    BY <2>1, <2>2
<1>9. \A j \in Active(images') :
        images'[j].isLead = images'[j].shareable /\ (images'[j].isLead => images'[j].described)
  BY <1>1, <1>6, <1>7 DEF Describes
<1>10. QED
  BY <1>1, <1>3, <1>5, <1>8, <1>9 DEF CardKept

\* The images for which a function has a draft.
LEMMA SetOf ==
  ASSUME NEW f \in Drafts
  PROVE  /\ Set(f) \subseteq Images
         /\ \A i \in Images : i \in Set(f) <=> f[i] # NoDraft
         /\ \A i \in Images : i \in Set(f) <=> f[i] \in Draft
  BY NothingDrawn DEF Set, Drafts

LEMMA EditorFields ==
  ASSUME ImagesTypeOK
  PROVE  /\ editor \in Editor
         /\ editor.open \in BOOLEAN /\ editor.current \in BOOLEAN
         /\ editor.asks \in BOOLEAN /\ editor.changed \in BOOLEAN
         /\ editor.shown \in Drafts /\ editor.drafts \in Drafts
         /\ editor.removed \in SUBSET Images /\ editor.pending \in Drafts
  BY DEF ImagesTypeOK, Editor

LEMMA SaveFields ==
  ASSUME ImagesTypeOK
  PROVE  /\ save \in Update
         /\ save.phase \in SavePhases /\ save.current \in BOOLEAN /\ save.reasoned \in BOOLEAN
         /\ save.patch \in Drafts /\ save.delete \in SUBSET Images /\ save.upload \in Drafts
         /\ save.want \in Drafts \cup {Unknown}
  BY DEF ImagesTypeOK, Update

\* No page and no save.
LEMMA NothingOpen ==
  /\ Unused \in Drafts /\ Set(Unused) = {} /\ \A i \in Images : Unused[i] = NoDraft
  /\ Closed \in Editor /\ Closed.open = FALSE /\ Closed.current = FALSE
  /\ Closed.shown = Unused /\ Closed.drafts = Unused /\ Closed.removed = {}
  /\ Closed.pending = Unused
  /\ NoSave \in Update /\ NoSave.phase = "none" /\ NoSave.current = FALSE
  /\ NoSave.patch = Unused /\ NoSave.delete = {} /\ NoSave.upload = Unused
  /\ NoSave.want = Unknown
<1>1. Unused \in Drafts /\ Set(Unused) = {} /\ \A i \in Images : Unused[i] = NoDraft
  BY DEF Unused, Set, Drafts
<1>2. Closed \in Editor
  BY <1>1 DEF Closed, Editor
<1>3. NoSave \in Update
  BY <1>1 DEF NoSave, Update, SavePhases
<1>4. QED
  BY <1>1, <1>2, <1>3 DEF Closed, NoSave

\* A removed row is none, and the page does not show it.
LEMMA DeletedShown ==
  ASSUME ImagesTypeOK, CardKept, NEW i \in Images, Deleted(i)
  PROVE  /\ images' \in [Images -> Row \cup {NoRow, Removed}] /\ CardKept'
         /\ \A j \in Images : images[j] # NoRow => images'[j] # NoRow
         /\ Shown(images')[i] = NoDraft
         /\ \A j \in Images \ {i} : Shown(images')[j] = Shown(images)[j]
<1>1. /\ images \in [Images -> Row \cup {NoRow, Removed}]
      /\ images' = [images EXCEPT ![i] = Removed]
  BY DEF ImagesTypeOK, Deleted
<1>2. images' \in [Images -> Row \cup {NoRow, Removed}]
  BY <1>1
<1>3. Active(images') = Active(images) \ {i}
  BY <1>1 DEF Active
<1>4. /\ IsFiniteSet(Active(images)) /\ Cardinality(Active(images)) <= MaxActive
  BY DEF CardKept
<1>5. /\ IsFiniteSet(Active(images) \ {i})
      /\ Cardinality(Active(images) \ {i}) =
           IF i \in Active(images) THEN Cardinality(Active(images)) - 1
           ELSE Cardinality(Active(images))
  BY <1>4, FS_RemoveElement
<1>6. Cardinality(Active(images)) \in Nat
  BY <1>4, FS_CardinalityType
<1>7. Cardinality(Active(images')) <= MaxActive
  BY <1>3, <1>4, <1>5, <1>6, ImagesAssumption
<1>8. \A j \in Active(images') : j \in Active(images) /\ images'[j] = images[j]
  BY <1>1, <1>3 DEF Active
<1>9. CardKept'
  BY <1>3, <1>5, <1>7, <1>8 DEF CardKept
<1>10. \A j \in Images : images[j] # NoRow => images'[j] # NoRow
  BY <1>1, NothingDrawn
<1>11. /\ Shown(images')[i] = NoDraft
       /\ \A j \in Images \ {i} : Shown(images')[j] = Shown(images)[j]
  BY <1>1, <1>3 DEF Shown
<1>12. QED
  BY <1>2, <1>9, <1>10, <1>11

LEMMA ImagesInvInit == ImagesInit => ImagesInv
<1> SUFFICES ASSUME ImagesInit PROVE ImagesInv
  OBVIOUS
<1>1. /\ images = [i \in Images |-> NoRow] /\ owned = TRUE /\ alone = TRUE
      /\ editor = Closed /\ save = NoSave
  BY DEF ImagesInit
<1>2. ImagesTypeOK
  BY <1>1, NothingOpen DEF ImagesTypeOK
<1>3. Active(images) = {}
  BY <1>1 DEF Active
<1>4. CardKept
  BY <1>3, FS_EmptySet, ImagesAssumption DEF CardKept
<1>5. RowsKept
  BY <1>1, NothingOpen DEF RowsKept
<1>6. Starred = {}
  BY <1>1, NothingOpen DEF Starred, Visible, Pending
<1>7. PageKept
  BY <1>1, <1>6, NothingOpen DEF PageKept
<1>8. SaveKept
  BY <1>1, NothingOpen DEF SaveKept
<1>9. QED
  BY <1>2, <1>4, <1>5, <1>7, <1>8 DEF ImagesInv

\* A change on the page.
LEMMA EditKeeps ==
  ASSUME ImagesInv, editor.open, UNCHANGED <<images, owned, save, alone>>,
         editor' \in Editor, editor'.open = TRUE, editor'.current = editor.current,
         editor'.shown = editor.shown,
         \A i \in editor'.removed : images[i] # NoRow,
         \A i \in Set(editor'.pending) : images[i] = NoRow,
         alone => \A i, j \in Starred' : i = j
  PROVE  ImagesInv'
<1>1. ImagesTypeOK' /\ CardKept'
  BY DEF ImagesInv, ImagesTypeOK, CardKept
<1>2. RowsKept'
  BY DEF ImagesInv, RowsKept
<1>3. PageKept'
  BY DEF ImagesInv, PageKept
<1>4. SaveKept'
  BY DEF ImagesInv, SaveKept, AsWanted
<1>5. QED
  BY <1>1, <1>2, <1>3, <1>4 DEF ImagesInv

LEMMA ChangeFormKeeps ==
  ASSUME ImagesInv, NEW changed \in BOOLEAN, ChangeForm(changed) PROVE ImagesInv'
<1> DEFINE new == [editor EXCEPT !.changed = changed]
<1>1. /\ editor.open /\ editor' = new /\ UNCHANGED <<images, owned, save, alone>>
  BY DEF ChangeForm, Edit
<1>2. editor \in Editor
  BY EditorFields DEF ImagesInv
<1>3. /\ new \in Editor /\ new.open = editor.open /\ new.shown = editor.shown
      /\ new.current = editor.current /\ new.drafts = editor.drafts
      /\ new.removed = editor.removed /\ new.pending = editor.pending
  BY <1>2, Zenon DEF Editor
<1> HIDE DEF new
<1>4. Starred' = Starred
  BY <1>1, <1>3 DEF Starred, Visible, DraftFor, Pending
<1>5. editor.open = TRUE
  BY <1>1, EditorFields DEF ImagesInv
<1>6. QED
  BY <1>1, <1>3, <1>4, <1>5, EditKeeps DEF ImagesInv, RowsKept, PageKept

LEMMA ChooseFileKeeps ==
  ASSUME ImagesInv, NEW i \in Images, NEW described \in BOOLEAN, ChooseFile(i, described)
  PROVE  ImagesInv'
<1> DEFINE draft == [described |-> described, shareable |-> FALSE]
           pending == [editor.pending EXCEPT ![i] = draft]
           new == [editor EXCEPT !.pending = pending]
<1>1. /\ editor.open /\ images[i] = NoRow /\ editor.pending[i] = NoDraft
      /\ editor' = [editor EXCEPT !.pending[i] = draft]
      /\ UNCHANGED <<images, owned, save, alone>>
  BY DEF ChooseFile, Edit
<1>2. /\ editor \in Editor /\ editor.open = TRUE
      /\ editor.pending \in Drafts /\ editor.shown \in Drafts
  BY <1>1, EditorFields DEF ImagesInv
<1>3. draft \in Draft /\ draft # NoDraft /\ ~draft.shareable
  <2>1. draft \in Draft
    BY DEF Draft
  <2>2. draft.shareable = FALSE
    OBVIOUS
  <2> HIDE DEF draft
  <2>3. QED
    BY <2>1, <2>2, NothingDrawn
<1>4. editor' = new
  BY <1>1, Zenon
<1>5. pending \in Drafts /\ Set(pending) = Set(editor.pending) \cup {i}
  BY <1>2, <1>3 DEF Set, Drafts
<1>6. pending[i] = draft /\ \A j \in Images \ {i} : pending[j] = editor.pending[j]
  BY <1>2 DEF Drafts
<1> HIDE DEF draft, pending
<1>7. /\ new \in Editor /\ new.open = editor.open /\ new.shown = editor.shown
      /\ new.current = editor.current /\ new.drafts = editor.drafts
      /\ new.removed = editor.removed /\ new.pending = pending
  BY <1>2, <1>5, Zenon DEF Editor
<1> HIDE DEF new
<1>8. Starred' \subseteq Starred
  <2>1. \A j : (DraftFor(j))' = DraftFor(j)
    BY <1>4, <1>7 DEF DraftFor
  <2>2. Visible' = Visible
    BY <1>4, <1>7 DEF Visible
  <2>3. Pending' = Pending \cup {i}
    BY <1>4, <1>5, <1>7 DEF Pending
  <2>4. \A j \in Pending' : editor'.pending[j].shareable =>
          j \in Pending /\ editor.pending[j].shareable
    <3>1. Pending \subseteq Images
      BY <1>2, SetOf DEF Pending
    <3>2. QED
      BY <1>3, <1>4, <1>6, <1>7, <2>3, <3>1
  <2>5. QED
    BY <2>1, <2>2, <2>4 DEF Starred
<1>9. QED
  BY <1>1, <1>2, <1>4, <1>5, <1>7, <1>8, EditKeeps DEF ImagesInv, RowsKept, PageKept

LEMMA DropFileKeeps ==
  ASSUME ImagesInv, NEW i \in Images, DropFile(i) PROVE ImagesInv'
<1> DEFINE pending == [editor.pending EXCEPT ![i] = NoDraft]
           new == [editor EXCEPT !.pending = pending]
<1>1. /\ editor.open /\ editor' = [editor EXCEPT !.pending[i] = NoDraft]
      /\ UNCHANGED <<images, owned, save, alone>>
  BY DEF DropFile, Edit
<1>2. /\ editor \in Editor /\ editor.open = TRUE /\ editor.pending \in Drafts
  BY <1>1, EditorFields DEF ImagesInv
<1>3. editor' = new
  BY <1>1, Zenon
<1>4. /\ pending \in Drafts /\ Set(pending) = Set(editor.pending) \ {i}
      /\ \A j \in Images \ {i} : pending[j] = editor.pending[j]
  BY <1>2 DEF Set, Drafts
<1> HIDE DEF pending
<1>5. /\ new \in Editor /\ new.open = editor.open /\ new.shown = editor.shown
      /\ new.current = editor.current /\ new.drafts = editor.drafts
      /\ new.removed = editor.removed /\ new.pending = pending
  BY <1>2, <1>4, Zenon DEF Editor
<1> HIDE DEF new
<1>6. Starred' \subseteq Starred
  <2>1. \A j : (DraftFor(j))' = DraftFor(j)
    BY <1>3, <1>5 DEF DraftFor
  <2>2. Visible' = Visible
    BY <1>3, <1>5 DEF Visible
  <2>3. Pending' = Pending \ {i} /\ Pending \subseteq Images
    BY <1>2, <1>3, <1>4, <1>5, SetOf DEF Pending
  <2>4. \A j \in Pending' : editor'.pending[j] = editor.pending[j] /\ j \in Pending
    BY <1>3, <1>4, <1>5, <2>3
  <2>5. QED
    BY <2>1, <2>2, <2>4 DEF Starred
<1>7. QED
  BY <1>1, <1>2, <1>3, <1>4, <1>5, <1>6, EditKeeps DEF ImagesInv, RowsKept, PageKept

\* An image that the page shows has a draft, and what is drafted is what the
\* page then shows.
LEMMA DraftOfShown ==
  ASSUME ImagesTypeOK
  PROVE  /\ \A i \in Set(editor.shown) : DraftFor(i) \in Draft
         /\ \A i \in Images, d \in Draft :
              /\ Drafted(i, d) \in Draft \cup {NoDraft}
              /\ (IF Drafted(i, d) # NoDraft THEN Drafted(i, d) ELSE editor.shown[i]) = d
<1>1. editor.shown \in Drafts /\ editor.drafts \in Drafts
  BY EditorFields
<1>2. \A i \in Set(editor.shown) : DraftFor(i) \in Draft
  BY <1>1, SetOf DEF DraftFor
<1>3. \A i \in Images, d \in Draft :
        /\ Drafted(i, d) \in Draft \cup {NoDraft}
        /\ (IF Drafted(i, d) # NoDraft THEN Drafted(i, d) ELSE editor.shown[i]) = d
  BY NothingDrawn DEF Drafted
<1>4. QED
  BY <1>2, <1>3

LEMMA RemoveSavedKeeps ==
  ASSUME ImagesInv, NEW i \in Images, RemoveSaved(i) PROVE ImagesInv'
<1> DEFINE drafts == [editor.drafts EXCEPT ![i] = NoDraft]
           removed == editor.removed \cup {i}
           new == [editor EXCEPT !.removed = removed, !.drafts = drafts]
<1>1. /\ editor.open /\ i \in Visible
      /\ editor' = [editor EXCEPT !.removed = @ \cup {i}, !.drafts[i] = NoDraft]
      /\ UNCHANGED <<images, owned, save, alone>>
  BY DEF RemoveSaved, Edit
<1>2. /\ editor \in Editor /\ editor.open = TRUE /\ editor.drafts \in Drafts
      /\ editor.removed \in SUBSET Images /\ editor.shown \in Drafts
  BY <1>1, EditorFields DEF ImagesInv
<1>3. editor' = new
  BY <1>1, Zenon
<1>4. drafts \in Drafts /\ \A j \in Images \ {i} : drafts[j] = editor.drafts[j]
  BY <1>2 DEF Drafts
<1>5. removed \in SUBSET Images
  BY <1>2
<1>6. i \in Set(editor.shown)
  BY <1>1 DEF Visible
<1> HIDE DEF drafts
<1>7. /\ new \in Editor /\ new.open = editor.open /\ new.shown = editor.shown
      /\ new.current = editor.current /\ new.drafts = drafts
      /\ new.removed = editor.removed \cup {i} /\ new.pending = editor.pending
  BY <1>2, <1>4, <1>5, Zenon DEF Editor
<1> HIDE DEF new, removed
<1>8. Starred' \subseteq Starred
  <2>1. Visible' = Visible \ {i} /\ Visible \subseteq Images
    BY <1>2, <1>3, <1>7, SetOf DEF Visible
  <2>2. \A j \in Visible' : (DraftFor(j))' = DraftFor(j)
    BY <1>3, <1>4, <1>7, <2>1 DEF DraftFor
  <2>3. Pending' = Pending
    BY <1>3, <1>7 DEF Pending
  <2>4. QED
    BY <1>3, <1>7, <2>1, <2>2, <2>3 DEF Starred
<1>9. /\ \A j \in editor'.removed : images[j] # NoRow
      /\ \A j \in Set(editor'.pending) : images[j] = NoRow
  BY <1>3, <1>6, <1>7 DEF ImagesInv, RowsKept
<1>10. alone => \A j, k \in Starred' : j = k
  BY <1>8 DEF ImagesInv, PageKept
<1>11. QED
  BY <1>1, <1>2, <1>3, <1>7, <1>9, <1>10, EditKeeps

LEMMA DescribeKeeps ==
  ASSUME ImagesInv, NEW i \in Images, NEW described \in BOOLEAN, Describe(i, described)
  PROVE  ImagesInv'
<1>1. /\ editor \in Editor /\ editor.drafts \in Drafts /\ editor.pending \in Drafts
      /\ editor.shown \in Drafts
  BY EditorFields DEF ImagesInv
<1>2. CASE i \in Visible /\ Edit([editor EXCEPT !.drafts[i] =
                Drafted(i, [DraftFor(i) EXCEPT !.described = described])])
  <2> DEFINE d == [DraftFor(i) EXCEPT !.described = described]
             drafts == [editor.drafts EXCEPT ![i] = Drafted(i, d)]
             new == [editor EXCEPT !.drafts = drafts]
  <2>1. i \in Set(editor.shown) /\ DraftFor(i) \in Draft
    BY <1>2, DraftOfShown DEF ImagesInv, Visible
  <2>2. d \in Draft /\ d.shareable = DraftFor(i).shareable
    BY <2>1, DraftFields
  <2>3. /\ editor.open /\ editor' = [editor EXCEPT !.drafts[i] = Drafted(i, d)]
        /\ UNCHANGED <<images, owned, save, alone>>
    BY <1>2 DEF Edit
  <2> HIDE DEF d
  <2>4. editor' = new
    BY <2>3, Zenon
  <2>5. /\ Drafted(i, d) \in Draft \cup {NoDraft}
        /\ (IF Drafted(i, d) # NoDraft THEN Drafted(i, d) ELSE editor.shown[i]) = d
    BY <2>2, DraftOfShown DEF ImagesInv
  <2>6. /\ drafts \in Drafts /\ drafts[i] = Drafted(i, d)
        /\ \A j \in Images \ {i} : drafts[j] = editor.drafts[j]
    BY <1>1, <2>5 DEF Drafts
  <2> HIDE DEF drafts
  <2>7. /\ new \in Editor /\ new.open = editor.open /\ new.shown = editor.shown
        /\ new.current = editor.current /\ new.drafts = drafts
        /\ new.removed = editor.removed /\ new.pending = editor.pending
    BY <1>1, <2>6, Zenon DEF Editor
  <2> HIDE DEF new
  <2>8. Starred' = Starred
    <3>1. Visible' = Visible /\ Visible \subseteq Images
      BY <1>1, <2>4, <2>7, SetOf DEF Visible
    <3>2. \A j \in Visible : (DraftFor(j))'.shareable = DraftFor(j).shareable
      BY <2>2, <2>4, <2>5, <2>6, <2>7, <3>1 DEF DraftFor
    <3>3. Pending' = Pending
      BY <2>4, <2>7 DEF Pending
    <3>4. QED
      BY <2>4, <2>7, <3>1, <3>2, <3>3 DEF Starred
  <2>9. editor.open = TRUE
    BY <2>3, EditorFields DEF ImagesInv
  <2>10. QED
    BY <2>3, <2>4, <2>7, <2>8, <2>9, EditKeeps DEF ImagesInv, RowsKept, PageKept
<1>3. CASE i \in Pending /\ Edit([editor EXCEPT !.pending[i].described = described])
  <2> DEFINE d == [editor.pending[i] EXCEPT !.described = described]
             pending == [editor.pending EXCEPT ![i] = d]
             new == [editor EXCEPT !.pending = pending]
  <2>1. i \in Set(editor.pending) /\ editor.pending[i] \in Draft
    BY <1>1, <1>3, SetOf DEF Pending
  <2>2. d \in Draft /\ d.shareable = editor.pending[i].shareable /\ d # NoDraft
    <3>1. d \in Draft /\ d.shareable = editor.pending[i].shareable
      BY <2>1, DraftFields
    <3> HIDE DEF d
    <3>2. QED
      BY <3>1, NothingDrawn
  <2>3. /\ editor.open /\ editor' = [editor EXCEPT !.pending[i].described = described]
        /\ UNCHANGED <<images, owned, save, alone>>
    BY <1>3 DEF Edit
  <2>4. editor' = new
    BY <2>3, Zenon
  <2> HIDE DEF d
  <2>5. /\ pending \in Drafts /\ pending[i] = d
        /\ Set(pending) = Set(editor.pending)
        /\ \A j \in Images \ {i} : pending[j] = editor.pending[j]
    BY <1>1, <2>1, <2>2 DEF Set, Drafts
  <2> HIDE DEF pending
  <2>6. /\ new \in Editor /\ new.open = editor.open /\ new.shown = editor.shown
        /\ new.current = editor.current /\ new.drafts = editor.drafts
        /\ new.removed = editor.removed /\ new.pending = pending
    BY <1>1, <2>5, Zenon DEF Editor
  <2> HIDE DEF new
  <2>7. Starred' = Starred
    <3>1. Visible' = Visible /\ \A j : (DraftFor(j))' = DraftFor(j)
      BY <2>4, <2>6 DEF Visible, DraftFor
    <3>2. Pending' = Pending /\ Pending \subseteq Images
      BY <1>1, <2>4, <2>5, <2>6, SetOf DEF Pending
    <3>3. \A j \in Pending : editor'.pending[j].shareable = editor.pending[j].shareable
      BY <2>2, <2>4, <2>5, <2>6, <3>2
    <3>4. QED
      BY <3>1, <3>2, <3>3 DEF Starred
  <2>8. editor.open = TRUE
    BY <2>3, EditorFields DEF ImagesInv
  <2>9. QED
    BY <2>3, <2>4, <2>5, <2>6, <2>7, <2>8, EditKeeps DEF ImagesInv, RowsKept, PageKept
<1>4. QED
  BY <1>2, <1>3 DEF Describe

LEMMA StarKeeps ==
  ASSUME ImagesInv, NEW i \in Images, NEW selected \in BOOLEAN, Star(i, selected)
  PROVE  ImagesInv'
<1> DEFINE now(j, was) == IF selected THEN j = i ELSE IF j = i THEN FALSE ELSE was
           starred(d, j) == [d EXCEPT !.shareable = now(j, d.shareable)]
           drafts == [j \in Images |-> IF j \notin Set(editor.shown) THEN editor.drafts[j]
                                       ELSE Drafted(j, starred(DraftFor(j), j))]
           pending == [j \in Images |-> IF j \notin Pending THEN editor.pending[j]
                                        ELSE starred(editor.pending[j], j)]
           new == [editor EXCEPT !.drafts = drafts, !.pending = pending]
<1>1. /\ editor \in Editor /\ editor.drafts \in Drafts /\ editor.pending \in Drafts
      /\ editor.shown \in Drafts
  BY EditorFields DEF ImagesInv
<1>2. /\ editor.open /\ editor' = Starring(i, selected)
      /\ UNCHANGED <<images, owned, save, alone>>
  BY DEF Star, Edit
<1>3. Starring(i, selected) = new
  BY DEF Starring
<1>4. \A d \in Draft, j \in Images :
        starred(d, j) \in Draft /\ starred(d, j).shareable = now(j, d.shareable)
  <2>1. ASSUME NEW d \in Draft, NEW j \in Images
        PROVE  starred(d, j) \in Draft /\ starred(d, j).shareable = now(j, d.shareable)
    <3>1. now(j, d.shareable) \in BOOLEAN
      BY DraftFields
    <3> HIDE DEF now
    <3>2. QED
      BY <3>1, DraftFields
  <2>2. QED
    BY <2>1
<1>5. \A j \in Set(editor.shown) :
        /\ j \in Images /\ DraftFor(j) \in Draft /\ drafts[j] = Drafted(j, starred(DraftFor(j), j))
  BY <1>1, DraftOfShown, SetOf DEF ImagesInv
<1>6. \A j \in Pending :
        /\ j \in Images /\ j \in Set(editor.pending) /\ editor.pending[j] \in Draft
        /\ pending[j] = starred(editor.pending[j], j)
  BY <1>1, SetOf DEF Pending
<1> HIDE DEF starred
<1>7. \A j \in Set(editor.shown) :
        /\ drafts[j] \in Draft \cup {NoDraft}
        /\ (IF drafts[j] # NoDraft THEN drafts[j] ELSE editor.shown[j]) = starred(DraftFor(j), j)
  BY <1>4, <1>5, DraftOfShown DEF ImagesInv
<1>8. drafts \in Drafts
  BY <1>1, <1>7 DEF Drafts
<1>9. pending \in Drafts
  BY <1>1, <1>4, <1>6 DEF Drafts
<1>10. Set(pending) = Set(editor.pending)
  <2>1. \A j \in Images : pending[j] # NoDraft <=> editor.pending[j] # NoDraft
    BY <1>4, <1>6, NothingDrawn
  <2>2. QED
    BY <1>1, <1>9, <2>1, SetOf
<1> HIDE DEF drafts, pending, now
<1>11. /\ new \in Editor /\ new.open = editor.open /\ new.shown = editor.shown
       /\ new.current = editor.current /\ new.drafts = drafts
       /\ new.removed = editor.removed /\ new.pending = pending
  BY <1>1, <1>8, <1>9, Zenon DEF Editor
<1>12. editor' = new
  BY <1>2, <1>3
<1> HIDE DEF new
\* What was chosen after the click.
<1>13. ASSUME NEW j \in Starred'
       PROVE  IF selected THEN j = i ELSE j \in Starred
  <2>1. CASE j \in Visible' /\ (DraftFor(j))'.shareable
    <3>1. j \in Visible /\ j \in Set(editor.shown)
      BY <1>11, <1>12, <2>1 DEF Visible
    <3>2. (DraftFor(j))' = starred(DraftFor(j), j)
      BY <1>7, <1>11, <1>12, <3>1 DEF DraftFor
    <3>3. now(j, DraftFor(j).shareable)
      BY <1>4, <1>5, <2>1, <3>1, <3>2
    <3>4. QED
      BY <3>1, <3>3 DEF now, Starred
  <2>2. CASE j \in Pending' /\ editor'.pending[j].shareable
    <3>1. j \in Pending
      BY <1>10, <1>11, <1>12, <2>2 DEF Pending
    <3>2. now(j, editor.pending[j].shareable)
      BY <1>4, <1>6, <1>11, <1>12, <2>2, <3>1
    <3>3. QED
      BY <3>1, <3>2 DEF now, Starred
  <2>3. QED
    BY <2>1, <2>2 DEF Starred
<1>14. alone => \A j, k \in Starred' : j = k
  BY <1>13 DEF ImagesInv, PageKept
<1>15. editor.open = TRUE
  BY <1>2, EditorFields DEF ImagesInv
<1>16. QED
  BY <1>2, <1>10, <1>11, <1>12, <1>14, <1>15, EditKeeps DEF ImagesInv, RowsKept

\* A page that shows the table has one card: that of the table.
LEMMA ShownCard ==
  ASSUME ImagesTypeOK, CardKept
  PROVE  /\ Shown(images) \in Drafts
         /\ \A i \in Set(Shown(images)) : images[i] # NoRow
         /\ \A i, j \in Set(Shown(images)) :
              Shown(images)[i].shareable /\ Shown(images)[j].shareable => i = j
<1>1. images \in [Images -> Row \cup {NoRow, Removed}]
  BY DEF ImagesTypeOK
<1>2. Shown(images) \in Drafts
  BY <1>1, ActiveRows DEF Drafts
<1>3. \A i \in Set(Shown(images)) :
        /\ i \in Active(images) /\ Shown(images)[i].shareable = images[i].shareable
  BY <1>1, <1>2, ActiveRows, SetOf
<1>4. QED
  BY <1>2, <1>3 DEF CardKept, Active

LEMMA LoadedPage ==
  ASSUME ImagesTypeOK, CardKept, NEW asks \in BOOLEAN
  PROVE  /\ Loaded(asks) \in Editor /\ Loaded(asks).open = TRUE /\ Loaded(asks).current = TRUE
         /\ Loaded(asks).shown = Shown(images) /\ Loaded(asks).drafts = Unused
         /\ Loaded(asks).removed = {} /\ Loaded(asks).pending = Unused
<1> DEFINE shown == Shown(images)
<1>1. Closed \in Editor /\ shown \in Drafts /\ TRUE \in BOOLEAN
  BY NothingOpen, ShownCard
<1> HIDE DEF shown
<1>2. Loaded(asks) =
        [Closed EXCEPT !.open = TRUE, !.current = TRUE, !.asks = asks, !.shown = shown]
  BY DEF Loaded, shown
<1>3. /\ [Closed EXCEPT !.open = TRUE, !.current = TRUE, !.asks = asks, !.shown = shown] \in Editor
      /\ Loaded(asks).open = TRUE /\ Loaded(asks).current = TRUE
      /\ Loaded(asks).shown = shown /\ Loaded(asks).drafts = Closed.drafts
      /\ Loaded(asks).removed = Closed.removed /\ Loaded(asks).pending = Closed.pending
  BY <1>1, <1>2, Zenon DEF Editor
<1>4. QED
  BY <1>2, <1>3, NothingOpen DEF shown

\* A page with the entry as it is, whatever the save is that it is under.
LEMMA LoadedKeeps ==
  ASSUME ImagesTypeOK, CardKept, RowsKept, NEW asks \in BOOLEAN, editor' = Loaded(asks),
         UNCHANGED <<images, owned>>, save' \in Update, alone' \in BOOLEAN,
         save'.upload = save.upload \/ save'.upload = Unused, SaveKept'
  PROVE  ImagesInv'
<1>1. /\ editor' \in Editor /\ editor'.open = TRUE /\ editor'.current = TRUE
      /\ editor'.shown = Shown(images) /\ editor'.drafts = Unused
      /\ editor'.removed = {} /\ editor'.pending = Unused
  BY LoadedPage
<1>2. ImagesTypeOK' /\ CardKept'
  BY <1>1 DEF ImagesTypeOK, CardKept
<1>3. RowsKept'
  BY <1>1, NothingOpen, ShownCard DEF RowsKept
<1>4. \A i \in Starred' : i \in Set(Shown(images)) /\ Shown(images)[i].shareable
  <2>1. Pending' = {}
    BY <1>1, NothingOpen DEF Pending
  <2>2. Visible' = Set(Shown(images))
    BY <1>1 DEF Visible
  <2>3. Shown(images) \in Drafts
    BY ShownCard
  <2>4. \A i \in Visible' : (DraftFor(i))' = Shown(images)[i]
    BY <1>1, <2>2, <2>3, SetOf, NothingOpen DEF DraftFor
  <2>5. QED
    BY <2>1, <2>2, <2>4 DEF Starred
<1>5. PageKept'
  BY <1>1, <1>4, ShownCard DEF PageKept
<1>6. QED
  BY <1>2, <1>3, <1>5 DEF ImagesInv

LEMMA OpenKeeps == ASSUME ImagesInv, Open PROVE ImagesInv'
<1>1. /\ editor' = Loaded(~owned) /\ save' = NoSave /\ alone' = TRUE
      /\ UNCHANGED <<images, owned>>
  BY DEF Open
<1>2. SaveKept'
  BY <1>1, NothingOpen DEF SaveKept
<1>3. (~owned) \in BOOLEAN
  OBVIOUS
<1>4. QED
  BY <1>1, <1>2, <1>3, NothingOpen, LoadedKeeps DEF ImagesInv

LEMMA RefetchEntryKeeps ==
  ASSUME ImagesInv, NEW again \in BOOLEAN, NEW asks \in BOOLEAN, RefetchEntry(again, asks)
  PROVE  ImagesInv'
<1>1. editor.open /\ UNCHANGED <<images, owned, save, alone>>
  BY DEF RefetchEntry
<1>2. ImagesTypeOK /\ CardKept /\ RowsKept /\ PageKept /\ SaveKept
  BY DEF ImagesInv
<1>3. SaveKept'
  BY <1>1, <1>2 DEF SaveKept, AsWanted
<1>4. CASE again \/ ~editor.current
  <2>1. editor' = Loaded(asks)
    BY <1>4 DEF RefetchEntry
  <2>2. save' \in Update /\ alone' \in BOOLEAN
    BY <1>1, <1>2 DEF ImagesTypeOK
  <2>3. QED
    BY <1>1, <1>2, <1>3, <2>1, <2>2, LoadedKeeps
<1>5. CASE ~(again \/ ~editor.current)
  <2> DEFINE shown == Shown(images)
             new == [editor EXCEPT !.shown = shown, !.asks = asks]
  <2>1. editor' = new /\ editor.current
    BY <1>5 DEF RefetchEntry
  <2>2. editor \in Editor /\ shown \in Drafts /\ editor.open = TRUE
    BY <1>1, <1>2, EditorFields, ShownCard
  <2> HIDE DEF shown
  <2>3. /\ new \in Editor /\ new.open = editor.open /\ new.shown = shown
        /\ new.current = editor.current /\ new.drafts = editor.drafts
        /\ new.removed = editor.removed /\ new.pending = editor.pending
    BY <2>2, Zenon DEF Editor
  <2> HIDE DEF new
  <2>4. ImagesTypeOK' /\ CardKept'
    BY <1>1, <1>2, <2>1, <2>3 DEF ImagesTypeOK, CardKept
  <2>5. RowsKept'
    BY <1>1, <1>2, <2>1, <2>3, ShownCard DEF RowsKept, shown
  <2>6. alone => editor'.shown = editor.shown
    BY <1>1, <1>2, <2>1, <2>3 DEF PageKept, shown
  <2>7. alone => Starred' = Starred
    BY <2>1, <2>3, <2>6 DEF Starred, Visible, DraftFor, Pending
  <2>8. PageKept'
    BY <1>1, <1>2, <2>1, <2>2, <2>3, <2>7 DEF PageKept, shown
  <2>9. QED
    BY <1>3, <2>4, <2>5, <2>8 DEF ImagesInv
<1>6. QED
  BY <1>4, <1>5

\* The page is gone, and with it what it showed.
LEMMA ClosedKeeps ==
  ASSUME ImagesTypeOK, CardKept, RowsKept, editor' = Closed,
         UNCHANGED <<images, owned, alone>>, save' \in Update,
         save'.upload = save.upload \/ save'.upload = Unused, SaveKept'
  PROVE  ImagesInv'
<1>1. ImagesTypeOK' /\ CardKept'
  BY NothingOpen DEF ImagesTypeOK, CardKept
<1>2. RowsKept'
  BY NothingOpen DEF RowsKept
<1>3. Starred' = {}
  BY NothingOpen DEF Starred, Visible, Pending
<1>4. PageKept'
  BY <1>3, NothingOpen DEF PageKept
<1>5. QED
  BY <1>1, <1>2, <1>4 DEF ImagesInv

LEMMA LeaveKeeps == ASSUME ImagesInv, Leave PROVE ImagesInv'
<1>1. /\ editor' = Closed /\ UNCHANGED <<images, owned, alone>>
      /\ save' = IF save.phase = "asking" THEN NoSave ELSE save
  BY DEF Leave
<1>2. save' \in Update /\ (save'.upload = save.upload \/ save'.upload = Unused)
  BY <1>1, NothingOpen, SaveFields DEF ImagesInv
<1>3. SaveKept'
  BY <1>1, NothingOpen DEF ImagesInv, SaveKept, AsWanted
<1>4. QED
  BY <1>1, <1>2, <1>3, ClosedKeeps DEF ImagesInv

\* Success.
LEMMA FinishKeeps == ASSUME ImagesInv, Finish PROVE ImagesInv'
<1> DEFINE new == [save EXCEPT !.phase = "saved"]
<1>1. /\ editor' = Closed /\ UNCHANGED <<images, owned, alone>> /\ save' = new
      /\ save.phase = "images"
      /\ save.patch = Unused /\ save.delete = {} /\ save.upload = Unused
  BY DEF Finish
<1>2. save \in Update /\ "saved" \in SavePhases
  BY SaveFields DEF ImagesInv, SavePhases
<1>3. /\ new \in Update /\ new.phase = "saved" /\ new.patch = save.patch
      /\ new.delete = save.delete /\ new.upload = save.upload /\ new.want = save.want
  BY <1>2, Zenon DEF Update
<1> HIDE DEF new
<1>4. SaveKept'
  BY <1>1, <1>3 DEF ImagesInv, SaveKept, AsWanted
<1>5. QED
  BY <1>1, <1>3, <1>4, ClosedKeeps DEF ImagesInv

\* A save that begins, or ends without success: nothing is left to be sent.
LEMMA IdleKeeps ==
  ASSUME ImagesInv, UNCHANGED <<images, owned, editor, alone>>, save' \in Update,
         save'.phase \in {"none", "asking", "saving"},
         save'.patch = Unused, save'.delete = {}, save'.upload = Unused, save'.want = Unknown,
         save'.phase = "saving" /\ save'.current /\ editor.open => editor.current
  PROVE  ImagesInv'
<1>1. ImagesTypeOK' /\ CardKept'
  BY DEF ImagesInv, ImagesTypeOK, CardKept
<1>2. RowsKept'
  BY NothingOpen DEF ImagesInv, RowsKept
<1>3. Starred' = Starred
  BY DEF Starred, Visible, DraftFor, Pending
<1>4. PageKept'
  BY <1>3 DEF ImagesInv, PageKept
<1>5. SaveKept'
  BY DEF SaveKept
<1>6. QED
  BY <1>1, <1>2, <1>4, <1>5 DEF ImagesInv

LEMMA SaveKeeps ==
  ASSUME ImagesInv, Save \/ GiveReason \/ CancelReason \/ Fail PROVE ImagesInv'
<1> DEFINE asking == [NoSave EXCEPT !.phase = "asking"]
           saving == [NoSave EXCEPT !.phase = "saving", !.current = editor.current]
           given == [NoSave EXCEPT !.phase = "saving", !.current = editor.current,
                                   !.reasoned = TRUE]
<1>1. /\ "asking" \in SavePhases /\ "saving" \in SavePhases /\ TRUE \in BOOLEAN
      /\ editor.current \in BOOLEAN /\ NoSave \in Update
  BY EditorFields, NothingOpen DEF ImagesInv, SavePhases
<1>2. /\ asking \in Update /\ asking.phase = "asking" /\ asking.patch = NoSave.patch
      /\ asking.delete = NoSave.delete /\ asking.upload = NoSave.upload
      /\ asking.want = NoSave.want
  BY <1>1, Zenon DEF Update
<1>3. /\ saving \in Update /\ saving.phase = "saving" /\ saving.patch = NoSave.patch
      /\ saving.delete = NoSave.delete /\ saving.upload = NoSave.upload
      /\ saving.want = NoSave.want /\ saving.current = editor.current
  BY <1>1, Zenon DEF Update
<1>4. /\ given \in Update /\ given.phase = "saving" /\ given.patch = NoSave.patch
      /\ given.delete = NoSave.delete /\ given.upload = NoSave.upload
      /\ given.want = NoSave.want /\ given.current = editor.current
  BY <1>1, Zenon DEF Update
<1>5. /\ UNCHANGED <<images, owned, editor, alone>>
      /\ save' = asking \/ save' = saving \/ save' = given \/ save' = NoSave
  BY DEF Save, GiveReason, CancelReason, Fail, Failed
<1> HIDE DEF asking, saving, given
<1>6. QED
  BY <1>1, <1>2, <1>3, <1>4, <1>5, NothingOpen, IdleKeeps

\* A page whose version is no longer the entry's.
LEMMA OutdatedPage ==
  ASSUME ImagesInv, editor' = [editor EXCEPT !.current = FALSE]
  PROVE  /\ editor' \in Editor /\ editor'.current = FALSE /\ editor'.open = editor.open
         /\ editor'.shown = editor.shown /\ editor'.removed = editor.removed
         /\ editor'.pending = editor.pending
         /\ Starred' = Starred /\ (~editor'.open => editor' = Closed)
<1> DEFINE new == [editor EXCEPT !.current = FALSE]
<1>1. editor \in Editor /\ FALSE \in BOOLEAN
  BY EditorFields DEF ImagesInv
<1>2. /\ new \in Editor /\ new.current = FALSE /\ new.open = editor.open
      /\ new.shown = editor.shown /\ new.drafts = editor.drafts
      /\ new.removed = editor.removed /\ new.pending = editor.pending
  BY <1>1, Zenon DEF Editor
<1>3. [Closed EXCEPT !.current = FALSE] = Closed
  BY NothingOpen, Zenon DEF Editor
<1>4. ~editor.open => new = Closed
  BY <1>3 DEF ImagesInv, PageKept
<1> HIDE DEF new
<1>5. editor' = new
  BY DEF new
<1>6. Starred' = Starred
  BY <1>2, <1>5 DEF Starred, Visible, DraftFor, Pending
<1>7. QED
  BY <1>2, <1>4, <1>5, <1>6

LEMMA PutEntryKeeps == ASSUME ImagesInv, PutEntry PROVE ImagesInv'
<1> DEFINE new == [save EXCEPT !.phase = "stored", !.current = FALSE]
<1>1. /\ save.phase = "saving" /\ save.current /\ UNCHANGED <<images, owned, alone>>
      /\ editor' = [editor EXCEPT !.current = FALSE] /\ save' = new
  BY DEF PutEntry
<1>2. save \in Update /\ "stored" \in SavePhases /\ FALSE \in BOOLEAN
  BY SaveFields DEF ImagesInv, SavePhases
<1>3. /\ new \in Update /\ new.phase = "stored" /\ new.patch = save.patch
      /\ new.delete = save.delete /\ new.upload = save.upload /\ new.want = save.want
  BY <1>2, Zenon DEF Update
<1> HIDE DEF new
<1>4. /\ editor' \in Editor /\ editor'.current = FALSE /\ editor'.open = editor.open
      /\ editor'.shown = editor.shown /\ editor'.removed = editor.removed
      /\ editor'.pending = editor.pending
      /\ Starred' = Starred /\ (~editor'.open => editor' = Closed)
  BY <1>1, OutdatedPage
<1>5. ImagesTypeOK' /\ CardKept'
  BY <1>1, <1>3, <1>4 DEF ImagesInv, ImagesTypeOK, CardKept
<1>6. RowsKept'
  BY <1>1, <1>3, <1>4 DEF ImagesInv, RowsKept
<1>7. PageKept'
  BY <1>1, <1>3, <1>4 DEF ImagesInv, PageKept
<1>8. SaveKept'
  BY <1>1, <1>3 DEF ImagesInv, SaveKept
<1>9. QED
  BY <1>5, <1>6, <1>7, <1>8 DEF ImagesInv

\* Somebody else gives the entry a new version.
LEMMA OthersEditKeeps ==
  ASSUME ImagesInv, OthersEdit \/ Transfer PROVE ImagesInv'
<1> DEFINE new == [save EXCEPT !.current = FALSE, !.want = Unknown]
<1>1. /\ images' = images /\ alone' = FALSE /\ owned' \in BOOLEAN
      /\ editor' = [editor EXCEPT !.current = FALSE] /\ save' = new
  BY DEF OthersEdit, Transfer, Outdated, ImagesInv, ImagesTypeOK
<1>2. save \in Update /\ Unknown \in Drafts \cup {Unknown} /\ FALSE \in BOOLEAN
  BY SaveFields DEF ImagesInv
<1>3. /\ new \in Update /\ new.phase = save.phase /\ new.patch = save.patch
      /\ new.delete = save.delete /\ new.upload = save.upload /\ new.want = Unknown
      /\ new.current = FALSE
  BY <1>2, Zenon DEF Update
<1> HIDE DEF new
<1>4. /\ editor' \in Editor /\ editor'.current = FALSE /\ editor'.open = editor.open
      /\ editor'.shown = editor.shown /\ editor'.removed = editor.removed
      /\ editor'.pending = editor.pending
      /\ Starred' = Starred /\ (~editor'.open => editor' = Closed)
  BY <1>1, OutdatedPage
<1>5. ImagesTypeOK' /\ CardKept'
  BY <1>1, <1>3, <1>4 DEF ImagesInv, ImagesTypeOK, CardKept
<1>6. RowsKept'
  BY <1>1, <1>3, <1>4 DEF ImagesInv, RowsKept
<1>7. PageKept'
  BY <1>1, <1>3, <1>4 DEF PageKept
<1>8. SaveKept'
  BY <1>1, <1>3 DEF ImagesInv, SaveKept
<1>9. QED
  BY <1>5, <1>6, <1>7, <1>8 DEF ImagesInv

\* The requests are those that make the table what the page shows, or none if
\* there is no page.
LEMMA CollectImagesKeeps == ASSUME ImagesInv, CollectImages PROVE ImagesInv'
<1> DEFINE patch == [i \in Images |-> IF i \in Visible THEN editor.drafts[i] ELSE NoDraft]
           want == IF alone THEN Wanted ELSE Unknown
           new == [save EXCEPT !.phase = "images", !.patch = patch, !.delete = editor.removed,
                               !.upload = editor.pending, !.want = want]
<1>1. /\ save.phase = "stored" /\ UNCHANGED <<images, owned, editor, alone>> /\ save' = new
  BY DEF CollectImages
<1>2. /\ ImagesTypeOK /\ CardKept /\ RowsKept /\ PageKept
  BY DEF ImagesInv
<1>3. /\ save \in Update /\ "images" \in SavePhases /\ editor.removed \in SUBSET Images
      /\ editor.shown \in Drafts /\ editor.drafts \in Drafts /\ editor.pending \in Drafts
  BY <1>2, SaveFields, EditorFields DEF SavePhases
<1>4. Visible \subseteq Set(editor.shown) /\ Visible \subseteq Images
  BY <1>3, SetOf DEF Visible
<1>5. patch \in Drafts
  BY <1>3 DEF Drafts
<1>6. Wanted \in Drafts
  <2>1. \A i \in Visible : DraftFor(i) \in Draft
    BY <1>2, <1>4, DraftOfShown
  <2>2. QED
    BY <1>2, <1>3, <2>1, ShownCard DEF Wanted, Drafts
<1>7. want \in Drafts \cup {Unknown}
  BY <1>6
<1>8. /\ \A i \in Images : patch[i] = IF i \in Visible THEN editor.drafts[i] ELSE NoDraft
      /\ want # Unknown => alone /\ want = Wanted
  OBVIOUS
<1> HIDE DEF patch, want
<1>9. /\ new \in Update /\ new.phase = "images" /\ new.patch = patch
      /\ new.delete = editor.removed /\ new.upload = editor.pending /\ new.want = want
  BY <1>3, <1>5, <1>7, Zenon DEF Update
<1> HIDE DEF new
<1>10. /\ \A i \in Set(editor.pending) :
            i \in Images /\ i \notin Set(editor.shown) \cup editor.removed
  BY <1>2, <1>3, SetOf DEF RowsKept
<1>11. ASSUME want # Unknown, editor.open
       PROVE  AsWanted'
  <2>1. Shown(images) = editor.shown /\ \A i, j \in Starred : i = j
    BY <1>1, <1>2, <1>8, <1>11 DEF PageKept
  <2>2. \A i \in Images : want[i] = IF i \in Visible THEN DraftFor(i) ELSE editor.pending[i]
    BY <1>8, <1>11 DEF Wanted
  <2>3. ASSUME NEW i \in Images
        PROVE  /\ i \in Set(patch) => patch[i] = want[i]
               /\ i \in Set(editor.pending) => editor.pending[i] = want[i]
               /\ i \in editor.removed => want[i] = NoDraft
               /\ i \notin Set(patch) \cup Set(editor.pending) \cup editor.removed =>
                    Shown(images)[i] = want[i]
    <3>1. i \in Set(patch) => i \in Visible /\ patch[i] = editor.drafts[i] /\ patch[i] # NoDraft
      BY <1>5, <1>8, SetOf
    <3>2. i \in Set(patch) => patch[i] = want[i]
      BY <2>2, <3>1 DEF DraftFor
    <3>3. i \in Set(editor.pending) => i \notin Visible
      BY <1>4, <1>10
    <3>4. i \in editor.removed => i \notin Visible /\ editor.pending[i] = NoDraft
      BY <1>3, <1>10, SetOf DEF Visible
    <3>5. i \in Visible /\ i \notin Set(patch) => DraftFor(i) = editor.shown[i]
      BY <1>5, <1>8, SetOf DEF DraftFor
    <3>6. i \notin Visible /\ i \notin Set(editor.pending) \cup editor.removed =>
            editor.shown[i] = NoDraft /\ editor.pending[i] = NoDraft
      BY <1>3, SetOf DEF Visible
    <3>7. QED
      BY <2>1, <2>2, <3>2, <3>3, <3>4, <3>5, <3>6
  <2>4. \A i \in Set(want) : want[i].shareable => i \in Starred
    <3>1. want \in Drafts
      BY <1>7, <1>11
    <3>2. QED
      BY <1>3, <2>2, <3>1, SetOf DEF Starred, Pending
  <2>5. QED
    BY <1>1, <1>9, <2>1, <2>3, <2>4 DEF AsWanted
<1>12. ASSUME want # Unknown, ~editor.open
       PROVE  AsWanted'
  <2>1. editor = Closed
    BY <1>2, <1>12 DEF PageKept
  <2>2. editor.shown = Unused /\ editor.pending = Unused /\ editor.removed = {}
    BY <2>1, NothingOpen
  <2>3. want = Shown(images)
    BY <1>8, <1>12 DEF Wanted
  <2>4. Visible = {}
    BY <1>4, <2>2, NothingOpen
  <2>5. Set(patch) = {}
    BY <1>5, <1>8, <2>4, SetOf
  <2>6. QED
    BY <1>1, <1>2, <1>9, <2>2, <2>3, <2>5, NothingOpen, ShownCard DEF AsWanted
<1>13. SaveKept'
  BY <1>1, <1>9, <1>11, <1>12 DEF SaveKept
<1>14. ImagesTypeOK' /\ CardKept'
  BY <1>1, <1>2, <1>9 DEF ImagesTypeOK, CardKept
<1>15. RowsKept'
  BY <1>1, <1>2, <1>9 DEF RowsKept
<1>16. Starred' = Starred
  BY <1>1 DEF Starred, Visible, DraftFor, Pending
<1>17. PageKept'
  BY <1>1, <1>2, <1>9, <1>16 DEF PageKept
<1>18. QED
  BY <1>13, <1>14, <1>15, <1>17 DEF ImagesInv

\* A row stays a row, and only the written image becomes one.
LEMMA TableWritten ==
  ASSUME ImagesInv, NEW i \in Images, NEW draft \in Draft,
         Inserted(i, draft) \/ Patched(i, draft)
  PROVE  /\ Written(i, draft) /\ CardKept'
         /\ images' \in [Images -> Row \cup {NoRow, Removed}]
         /\ \A j \in Images : images[j] # NoRow => images'[j] # NoRow
         /\ \A j \in Images \ {i} : images[j] = NoRow => images'[j] = NoRow
<1>1. Written(i, draft)
  BY RowWritten DEF ImagesInv
<1>2. /\ Describes(draft)
      /\ i \in Active(images) \/ Cardinality(Active(images)) < MaxActive
  BY DEF Inserted, Patched
<1>3. CardKept'
  BY <1>1, <1>2, WrittenCard DEF ImagesInv
<1>4. \A j \in Images : images[j] # NoRow => images'[j] # NoRow
  BY <1>1, WrittenShown DEF ImagesInv
<1>5. \A j \in Images \ {i} : images[j] = NoRow => images'[j] = NoRow
  BY <1>1 DEF Written, Active
<1>6. QED
  BY <1>1, <1>3, <1>4, <1>5 DEF Written

\* Somebody else writes an image.
LEMMA OthersKeep ==
  ASSUME ImagesInv, Others, CardKept', images' \in [Images -> Row \cup {NoRow, Removed}],
         \A j \in Images : images[j] # NoRow => images'[j] # NoRow,
         \A j \in Set(editor.pending) \cup Set(save.upload) : images'[j] = NoRow
  PROVE  ImagesInv'
<1> DEFINE new == [save EXCEPT !.want = Unknown]
<1>1. alone' = FALSE /\ UNCHANGED <<owned, editor>> /\ save' = new
  BY DEF Others
<1>2. save \in Update /\ Unknown \in Drafts \cup {Unknown}
  BY SaveFields DEF ImagesInv
<1>3. /\ new \in Update /\ new.phase = save.phase /\ new.current = save.current
      /\ new.patch = save.patch /\ new.delete = save.delete /\ new.upload = save.upload
      /\ new.want = Unknown
  BY <1>2, Zenon DEF Update
<1> HIDE DEF new
<1>4. ImagesTypeOK'
  BY <1>1, <1>3 DEF ImagesInv, ImagesTypeOK
<1>5. editor.shown \in Drafts /\ editor.removed \in SUBSET Images
  BY EditorFields DEF ImagesInv
<1>6. RowsKept'
  BY <1>1, <1>3, <1>5, SetOf DEF ImagesInv, RowsKept
<1>7. PageKept'
  BY <1>1, <1>3 DEF ImagesInv, PageKept
<1>8. SaveKept'
  BY <1>1, <1>3 DEF ImagesInv, SaveKept
<1>9. QED
  BY <1>4, <1>6, <1>7, <1>8 DEF ImagesInv

LEMMA OthersWriteKeeps ==
  ASSUME ImagesInv, NEW i \in Images, NEW draft \in Draft,
         OthersInsert(i, draft) \/ OthersPatch(i, draft)
  PROVE  ImagesInv'
<1>1. Others /\ (Inserted(i, draft) \/ Patched(i, draft))
  BY DEF OthersInsert, OthersPatch
<1>2. /\ CardKept' /\ images' \in [Images -> Row \cup {NoRow, Removed}]
      /\ \A j \in Images : images[j] # NoRow => images'[j] # NoRow
      /\ \A j \in Images \ {i} : images[j] = NoRow => images'[j] = NoRow
  BY <1>1, TableWritten
<1>3. editor.pending \in Drafts /\ save.upload \in Drafts
  BY EditorFields, SaveFields DEF ImagesInv
<1>4. i \notin Set(editor.pending) \cup Set(save.upload)
  <2>1. CASE OthersInsert(i, draft)
    BY <1>3, <2>1, SetOf DEF OthersInsert, Free
  <2>2. CASE OthersPatch(i, draft)
    BY <2>2 DEF OthersPatch, Patched, Active, ImagesInv, RowsKept
  <2>3. QED
    BY <2>1, <2>2
<1>5. \A j \in Set(editor.pending) \cup Set(save.upload) : images'[j] = NoRow
  BY <1>2, <1>3, <1>4, SetOf DEF ImagesInv, RowsKept
<1>6. QED
  BY <1>1, <1>2, <1>5, OthersKeep

\* A row that is removed was one.
LEMMA TableCleared ==
  ASSUME ImagesInv, NEW i \in Images, Deleted(i)
  PROVE  /\ CardKept' /\ images' \in [Images -> Row \cup {NoRow, Removed}]
         /\ \A j \in Images : images[j] # NoRow => images'[j] # NoRow
         /\ \A j \in Set(editor.pending) \cup Set(save.upload) : images'[j] = NoRow
<1>1. /\ CardKept' /\ images' \in [Images -> Row \cup {NoRow, Removed}]
      /\ \A j \in Images : images[j] # NoRow => images'[j] # NoRow
  BY DeletedShown DEF ImagesInv
<1>2. images \in [Images -> Row \cup {NoRow, Removed}]
  BY DEF ImagesInv, ImagesTypeOK
<1>3. images[i] # NoRow /\ \A j \in Images \ {i} : images'[j] = images[j]
  BY <1>2 DEF Deleted, Active
<1>4. editor.pending \in Drafts /\ save.upload \in Drafts
  BY EditorFields, SaveFields DEF ImagesInv
<1>5. QED
  BY <1>1, <1>3, <1>4, SetOf DEF ImagesInv, RowsKept

LEMMA OthersDeleteKeeps ==
  ASSUME ImagesInv, NEW i \in Images, OthersDelete(i) PROVE ImagesInv'
<1>1. Others /\ Deleted(i)
  BY DEF OthersDelete
<1>2. QED
  BY <1>1, TableCleared, OthersKeep

\* An image request: the page keeps its own, and shows no longer the table.
LEMMA RequestKeeps ==
  ASSUME ImagesInv, save.phase = "images", CardKept',
         images' \in [Images -> Row \cup {NoRow, Removed}],
         \A j \in Images : images[j] # NoRow => images'[j] # NoRow,
         \A j \in Set(editor'.pending) \cup Set(save'.upload) : images'[j] = NoRow,
         editor' \in Editor, editor'.open = editor.open, editor'.current = editor.current,
         editor'.shown = editor.shown, editor'.removed = editor.removed,
         ~editor.open => editor' = Closed, Starred' \subseteq Starred,
         save' \in Update, save'.phase \in {"none", "images"}, SaveKept',
         owned' = owned, alone' = (alone /\ ~editor.current)
  PROVE  ImagesInv'
<1>1. alone \in BOOLEAN /\ editor.current \in BOOLEAN
  BY EditorFields DEF ImagesInv, ImagesTypeOK
<1>2. alone' \in BOOLEAN /\ (alone' => alone /\ ~editor.current)
  BY <1>1
<1>3. ImagesTypeOK'
  BY <1>2 DEF ImagesInv, ImagesTypeOK
<1>4. editor.shown \in Drafts /\ editor.removed \in SUBSET Images
  BY EditorFields DEF ImagesInv
<1>5. RowsKept'
  BY <1>4, SetOf DEF ImagesInv, RowsKept
<1>6. PageKept'
  BY <1>2 DEF ImagesInv, PageKept
<1>7. QED
  BY <1>3, <1>5, <1>6 DEF ImagesInv

\* What a request that succeeded leaves to be sent.
Left(i, patch, delete, upload) ==
  /\ save' \in Update /\ save'.phase = "images" /\ save'.want = save.want
  /\ save'.patch = patch /\ save'.delete = delete /\ save'.upload = upload
  /\ \A j \in Images \ {i} :
       /\ patch[j] = save.patch[j] /\ upload[j] = save.upload[j]
       /\ j \in delete <=> j \in save.delete
  /\ patch[i] = NoDraft /\ upload[i] = NoDraft /\ i \notin delete

\* It made its image as wanted, and undid no other.
LEMMA RequestAsWanted ==
  ASSUME ImagesInv, NEW i \in Images, NEW patch \in Drafts, NEW delete \in SUBSET Images,
         NEW upload \in Drafts, Left(i, patch, delete, upload), save.phase = "images",
         save.want # Unknown =>
           /\ Shown(images')[i] = save.want[i]
           /\ \A j \in Images \ {i} :
                j \notin Set(save.patch) \cup Set(save.upload) \cup save.delete =>
                  Shown(images')[j] = Shown(images)[j]
  PROVE  SaveKept'
<1>1. /\ save'.phase = "images" /\ save'.want = save.want
      /\ save'.patch = patch /\ save'.delete = delete /\ save'.upload = upload
      /\ \A j \in Images \ {i} :
           /\ patch[j] = save.patch[j] /\ upload[j] = save.upload[j]
           /\ j \in delete <=> j \in save.delete
      /\ patch[i] = NoDraft /\ upload[i] = NoDraft /\ i \notin delete
  BY DEF Left
<1>2. /\ save.patch \in Drafts /\ save.upload \in Drafts /\ save.delete \in SUBSET Images
      /\ \A j \in Images : /\ j \in Set(save.patch) <=> save.patch[j] # NoDraft
                           /\ j \in Set(save.upload) <=> save.upload[j] # NoDraft
                           /\ j \in Set(patch) <=> patch[j] # NoDraft
                           /\ j \in Set(upload) <=> upload[j] # NoDraft
  BY SaveFields, SetOf DEF ImagesInv
<1>3. ASSUME save.want # Unknown
      PROVE  AsWanted'
  <2>1. AsWanted
    BY <1>3 DEF ImagesInv, SaveKept
  <2>2. ASSUME NEW j \in Images
        PROVE  /\ j \in Set(patch) => patch[j] = save.want[j]
               /\ j \in Set(upload) => upload[j] = save.want[j]
               /\ j \in delete => save.want[j] = NoDraft
               /\ j \notin Set(patch) \cup Set(upload) \cup delete =>
                    Shown(images')[j] = save.want[j]
    <3>1. CASE j = i
      BY <1>1, <1>2, <1>3, <3>1
    <3>2. CASE j # i
      BY <1>1, <1>2, <1>3, <2>1, <3>2 DEF AsWanted
    <3>3. QED
      BY <3>1, <3>2
  <2>3. QED
    BY <1>1, <2>1, <2>2 DEF AsWanted
<1>4. QED
  BY <1>1, <1>3 DEF SaveKept

\* A row written as wanted changes no other one that is.
LEMMA WrittenAsWanted ==
  ASSUME ImagesInv, NEW i \in Images, NEW draft \in Draft, Written(i, draft),
         save.want # Unknown, draft = save.want[i]
  PROVE  /\ Shown(images')[i] = save.want[i]
         /\ \A j \in Images \ {i} :
              j \notin Set(save.patch) \cup Set(save.upload) \cup save.delete =>
                Shown(images')[j] = Shown(images)[j]
<1>1. save.want \in Drafts
  BY SaveFields DEF ImagesInv
<1>2. i \in Set(save.want)
  BY <1>1, NothingDrawn, SetOf
<1>3. ASSUME NEW j \in Images \ {i},
             j \notin Set(save.patch) \cup Set(save.upload) \cup save.delete
      PROVE  Shown(images')[j] = Shown(images)[j]
  <2>1. Shown(images)[j] = save.want[j]
    BY <1>3 DEF ImagesInv, SaveKept, AsWanted
  <2>2. Shown(images)[j] # NoDraft => j \in Set(save.want)
    BY <1>1, <2>1, SetOf
  <2>3. Shown(images)[j] # NoDraft => ~(Shown(images)[j].shareable /\ draft.shareable)
    BY <1>2, <1>3, <2>1, <2>2 DEF ImagesInv, SaveKept, AsWanted
  <2>4. QED
    BY <2>3, WrittenShown DEF ImagesInv
<1>4. QED
  BY <1>3, WrittenShown DEF ImagesInv

\* A request whose answer does not come ends the save.
LEMMA FailedKept ==
  ASSUME save' = Failed
  PROVE  save' \in Update /\ save'.phase = "none" /\ Set(save'.upload) = {} /\ SaveKept'
  BY NothingOpen DEF Failed, SaveKept

\* The page is as it was.
LEMMA PageUnchanged ==
  ASSUME ImagesInv, UNCHANGED editor
  PROVE  /\ editor' \in Editor /\ (~editor.open => editor' = Closed) /\ Starred' = Starred
<1>1. Starred' = Starred
  BY DEF Starred, Visible, DraftFor, Pending
<1>2. QED
  BY <1>1 DEF ImagesInv, ImagesTypeOK, PageKept

LEMMA SendPatchKeeps ==
  ASSUME ImagesInv, NEW i \in Images, NEW told \in BOOLEAN, SendPatch(i, told)
  PROVE  ImagesInv'
<1> DEFINE patch == [save.patch EXCEPT ![i] = NoDraft]
           left == [save EXCEPT !.patch = patch]
<1>1. /\ save.phase = "images" /\ i \in Set(save.patch) /\ Patched(i, save.patch[i])
      /\ save' = IF told THEN [save EXCEPT !.patch[i] = NoDraft] ELSE Failed
      /\ UNCHANGED <<owned, editor>> /\ alone' = (alone /\ ~editor.current)
  BY DEF SendPatch, Requested
<1>2. /\ save \in Update /\ save.patch \in Drafts /\ save.upload \in Drafts
      /\ save.delete \in SUBSET Images
  BY SaveFields DEF ImagesInv
<1>3. save.patch[i] \in Draft
  BY <1>1, <1>2, SetOf
<1>4. /\ Written(i, save.patch[i]) /\ CardKept'
      /\ images' \in [Images -> Row \cup {NoRow, Removed}]
      /\ \A j \in Images : images[j] # NoRow => images'[j] # NoRow
      /\ \A j \in Images \ {i} : images[j] = NoRow => images'[j] = NoRow
  BY <1>1, <1>3, TableWritten
<1>5. images[i] # NoRow
  BY <1>1 DEF Patched, Active
<1>6. editor.pending \in Drafts
  BY EditorFields DEF ImagesInv
<1>7. \A j \in Set(editor.pending) \cup Set(save.upload) : images'[j] = NoRow
  BY <1>2, <1>4, <1>5, <1>6, SetOf DEF ImagesInv, RowsKept
<1>8. CASE told
  <2>1. save' = left
    BY <1>1, <1>8, Zenon
  <2>2. /\ patch \in Drafts /\ patch[i] = NoDraft
        /\ \A j \in Images \ {i} : patch[j] = save.patch[j]
    BY <1>2 DEF Drafts
  <2> HIDE DEF patch
  <2>3. /\ left \in Update /\ left.phase = save.phase /\ left.want = save.want
        /\ left.patch = patch /\ left.delete = save.delete /\ left.upload = save.upload
    BY <1>2, <2>2, Zenon DEF Update
  <2> HIDE DEF left
  <2>4. save.want # Unknown => save.patch[i] = save.want[i]
    BY <1>1 DEF ImagesInv, SaveKept, AsWanted
  <2>5. save.upload[i] = NoDraft
    BY <1>2, <1>5, SetOf DEF ImagesInv, RowsKept
  <2>6. CASE i \notin save.delete
    <3>1. Left(i, patch, save.delete, save.upload)
      BY <1>1, <2>1, <2>2, <2>3, <2>5, <2>6 DEF Left
    <3>2. SaveKept'
      BY <1>1, <1>2, <1>3, <1>4, <2>2, <2>4, <3>1, RequestAsWanted, WrittenAsWanted
    <3>3. QED
      BY <1>1, <1>4, <1>7, <2>1, <2>3, <3>2, PageUnchanged, RequestKeeps
  \* A draft of a removed image is not sent (EntryImages.tsx:420).
  <2>7. CASE i \in save.delete
    <3>1. save.want = Unknown
      BY <1>3, <2>4, <2>7, NothingDrawn DEF ImagesInv, SaveKept, AsWanted
    <3>2. SaveKept'
      BY <1>1, <2>1, <2>3, <3>1 DEF SaveKept
    <3>3. QED
      BY <1>1, <1>4, <1>7, <2>1, <2>3, <3>2, PageUnchanged, RequestKeeps
  <2>8. QED
    BY <2>6, <2>7
<1>9. CASE ~told
  <2>1. save' = Failed
    BY <1>1, <1>9
  <2>2. /\ save' \in Update /\ save'.phase = "none" /\ Set(save'.upload) = {} /\ SaveKept'
    BY <2>1, FailedKept
  <2>3. QED
    BY <1>1, <1>4, <1>7, <2>2, PageUnchanged, RequestKeeps
<1>10. QED
  BY <1>8, <1>9

LEMMA SendDeleteKeeps ==
  ASSUME ImagesInv, NEW i \in Images, NEW told \in BOOLEAN, SendDelete(i, told)
  PROVE  ImagesInv'
<1> DEFINE delete == save.delete \ {i}
           left == [save EXCEPT !.delete = delete]
<1>1. /\ save.phase = "images" /\ save.patch = Unused /\ i \in save.delete /\ Deleted(i)
      /\ save' = IF told THEN left ELSE Failed
      /\ UNCHANGED <<owned, editor>> /\ alone' = (alone /\ ~editor.current)
  BY DEF SendDelete, Requested
<1>2. /\ save \in Update /\ save.patch \in Drafts /\ save.upload \in Drafts
      /\ save.delete \in SUBSET Images
  BY SaveFields DEF ImagesInv
<1>3. /\ CardKept' /\ images' \in [Images -> Row \cup {NoRow, Removed}]
      /\ \A j \in Images : images[j] # NoRow => images'[j] # NoRow
      /\ \A j \in Set(editor.pending) \cup Set(save.upload) : images'[j] = NoRow
  BY <1>1, TableCleared
<1>4. /\ Shown(images')[i] = NoDraft
      /\ \A j \in Images \ {i} : Shown(images')[j] = Shown(images)[j]
  BY <1>1, DeletedShown DEF ImagesInv
<1>5. images[i] # NoRow
  BY <1>1 DEF Deleted, Active
<1>6. CASE told
  <2>1. save' = left
    BY <1>1, <1>6
  <2>2. delete \in SUBSET Images /\ i \notin delete
        /\ \A j \in Images \ {i} : j \in delete <=> j \in save.delete
    BY <1>2
  <2> HIDE DEF delete
  <2>3. /\ left \in Update /\ left.phase = save.phase /\ left.want = save.want
        /\ left.patch = save.patch /\ left.delete = delete /\ left.upload = save.upload
    BY <1>2, <2>2, Zenon DEF Update
  <2> HIDE DEF left
  <2>4. save.want # Unknown => save.want[i] = NoDraft
    BY <1>1 DEF ImagesInv, SaveKept, AsWanted
  <2>5. save.upload[i] = NoDraft /\ save.patch[i] = NoDraft
    BY <1>1, <1>2, <1>5, SetOf, NothingOpen DEF ImagesInv, RowsKept
  <2>6. Left(i, save.patch, delete, save.upload)
    BY <1>1, <2>1, <2>2, <2>3, <2>5 DEF Left
  <2>7. SaveKept'
    BY <1>1, <1>2, <1>4, <2>2, <2>4, <2>6, RequestAsWanted
  <2>8. QED
    BY <1>1, <1>3, <2>1, <2>3, <2>7, PageUnchanged, RequestKeeps
<1>7. CASE ~told
  <2>1. save' = Failed
    BY <1>1, <1>7
  <2>2. /\ save' \in Update /\ save'.phase = "none" /\ Set(save'.upload) = {} /\ SaveKept'
    BY <2>1, FailedKept
  <2>3. QED
    BY <1>1, <1>3, <2>2, PageUnchanged, RequestKeeps
<1>8. QED
  BY <1>6, <1>7

\* A picture that arrived is no longer among those of the page.
LEMMA ArrivedPage ==
  ASSUME ImagesInv, NEW i \in Images, editor' = [editor EXCEPT !.pending[i] = NoDraft]
  PROVE  /\ editor' \in Editor /\ editor'.open = editor.open
         /\ editor'.current = editor.current
         /\ editor'.shown = editor.shown /\ editor'.removed = editor.removed
         /\ editor'.pending \in Drafts /\ Set(editor'.pending) = Set(editor.pending) \ {i}
         /\ Starred' \subseteq Starred /\ (~editor.open => editor' = Closed)
<1> DEFINE pending == [editor.pending EXCEPT ![i] = NoDraft]
           new == [editor EXCEPT !.pending = pending]
<1>1. editor \in Editor /\ editor.pending \in Drafts
  BY EditorFields DEF ImagesInv
<1>2. editor' = new
  BY Zenon
<1>3. /\ pending \in Drafts /\ Set(pending) = Set(editor.pending) \ {i}
      /\ \A j \in Images \ {i} : pending[j] = editor.pending[j]
  BY <1>1 DEF Set, Drafts
<1>4. ~editor.open => new = Closed
  <2>1. [Unused EXCEPT ![i] = NoDraft] = Unused
    BY DEF Unused
  <2>2. [Closed EXCEPT !.pending = Closed.pending] = Closed
    BY NothingOpen, Zenon DEF Editor
  <2>3. ~editor.open => editor = Closed
    BY DEF ImagesInv, PageKept
  <2>4. QED
    BY <2>1, <2>2, <2>3, NothingOpen
<1> HIDE DEF pending
<1>5. /\ new \in Editor /\ new.open = editor.open /\ new.shown = editor.shown
      /\ new.current = editor.current /\ new.drafts = editor.drafts
      /\ new.removed = editor.removed /\ new.pending = pending
  BY <1>1, <1>3, Zenon DEF Editor
<1> HIDE DEF new
<1>6. Starred' \subseteq Starred
  <2>1. \A j : (DraftFor(j))' = DraftFor(j)
    BY <1>2, <1>5 DEF DraftFor
  <2>2. Visible' = Visible
    BY <1>2, <1>5 DEF Visible
  <2>3. Pending' = Pending \ {i} /\ Pending \subseteq Images
    BY <1>1, <1>2, <1>3, <1>5, SetOf DEF Pending
  <2>4. \A j \in Pending' : editor'.pending[j] = editor.pending[j] /\ j \in Pending
    BY <1>2, <1>3, <1>5, <2>3
  <2>5. QED
    BY <2>1, <2>2, <2>4 DEF Starred
<1>7. QED
  BY <1>2, <1>3, <1>4, <1>5, <1>6

LEMMA SendUploadKeeps ==
  ASSUME ImagesInv, NEW i \in Images, NEW row \in Images, NEW told \in BOOLEAN,
         SendUpload(i, row, told)
  PROVE  ImagesInv'
<1> DEFINE upload == [save.upload EXCEPT ![i] = NoDraft]
           left == [save EXCEPT !.upload = upload]
<1>1. /\ save.phase = "images" /\ save.patch = Unused /\ save.delete = {}
      /\ i \in Set(save.upload) /\ Inserted(row, save.upload[i])
      /\ IF told THEN row = i ELSE Free(row)
      /\ save' = IF told THEN [save EXCEPT !.upload[i] = NoDraft] ELSE Failed
      /\ editor' = IF told THEN [editor EXCEPT !.pending[i] = NoDraft] ELSE editor
      /\ owned' = owned /\ alone' = (alone /\ ~editor.current)
  BY DEF SendUpload, Requested
<1>2. /\ save \in Update /\ save.upload \in Drafts /\ editor.pending \in Drafts
  BY SaveFields, EditorFields DEF ImagesInv
<1>3. save.upload[i] \in Draft
  BY <1>1, <1>2, SetOf
<1>4. /\ Written(row, save.upload[i]) /\ CardKept'
      /\ images' \in [Images -> Row \cup {NoRow, Removed}]
      /\ \A j \in Images : images[j] # NoRow => images'[j] # NoRow
      /\ \A j \in Images \ {row} : images[j] = NoRow => images'[j] = NoRow
  BY <1>1, <1>3, TableWritten
<1>5. CASE told
  <2>1. row = i /\ save' = left
    BY <1>1, <1>5, Zenon
  <2>2. /\ upload \in Drafts /\ upload[i] = NoDraft
        /\ Set(upload) = Set(save.upload) \ {i}
        /\ \A j \in Images \ {i} : upload[j] = save.upload[j]
    BY <1>2 DEF Drafts, Set
  <2> HIDE DEF upload
  <2>3. /\ left \in Update /\ left.phase = save.phase /\ left.want = save.want
        /\ left.patch = save.patch /\ left.delete = save.delete /\ left.upload = upload
    BY <1>2, <2>2, Zenon DEF Update
  <2> HIDE DEF left
  <2>4. save.want # Unknown => save.upload[i] = save.want[i]
    BY <1>1 DEF ImagesInv, SaveKept, AsWanted
  <2>5. Left(i, Unused, {}, upload)
    BY <1>1, <2>1, <2>2, <2>3, NothingOpen DEF Left
  <2>6. SaveKept'
    BY <1>1, <1>3, <1>4, <2>1, <2>2, <2>4, <2>5, NothingOpen, RequestAsWanted, WrittenAsWanted
  <2>7. editor' = [editor EXCEPT !.pending[i] = NoDraft]
    BY <1>1, <1>5
  <2>8. /\ editor' \in Editor /\ editor'.open = editor.open
        /\ editor'.current = editor.current
        /\ editor'.shown = editor.shown /\ editor'.removed = editor.removed
        /\ Set(editor'.pending) = Set(editor.pending) \ {i}
        /\ Starred' \subseteq Starred /\ (~editor.open => editor' = Closed)
    BY <2>7, ArrivedPage
  <2>9. \A j \in Set(editor'.pending) \cup Set(save'.upload) : images'[j] = NoRow
    BY <1>2, <1>4, <2>1, <2>2, <2>3, <2>8, SetOf DEF ImagesInv, RowsKept
  <2>10. save' \in Update /\ save'.phase \in {"none", "images"}
    BY <1>1, <2>1, <2>3
  <2>11. QED
    BY <1>1, <1>4, <2>6, <2>8, <2>9, <2>10, RequestKeeps
<1>6. CASE ~told
  <2>1. save' = Failed /\ editor' = editor /\ Free(row)
    BY <1>1, <1>6
  <2>2. /\ save' \in Update /\ save'.phase = "none" /\ Set(save'.upload) = {} /\ SaveKept'
    BY <2>1, FailedKept
  <2>3. \A j \in Set(editor'.pending) \cup Set(save'.upload) : images'[j] = NoRow
    BY <1>2, <1>4, <2>1, <2>2, SetOf DEF Free, ImagesInv, RowsKept
  <2>4. QED
    BY <1>1, <1>4, <2>1, <2>2, <2>3, PageUnchanged, RequestKeeps
<1>7. QED
  BY <1>5, <1>6

LEMMA ImagesInvStep == ImagesInv /\ [ImagesNext]_imagesVars => ImagesInv'
<1> SUFFICES ASSUME ImagesInv, [ImagesNext]_imagesVars PROVE ImagesInv'
  OBVIOUS
<1>1. CASE UNCHANGED imagesVars
  <2>1. UNCHANGED <<images, owned, editor, save, alone>>
    BY <1>1 DEF imagesVars
  <2>2. Starred' = Starred
    BY <2>1 DEF Starred, Visible, DraftFor, Pending
  <2>3. QED
    BY <2>1, <2>2
       DEF ImagesInv, ImagesTypeOK, CardKept, RowsKept, PageKept, SaveKept, AsWanted
<1>2. CASE Open \/ Leave \/ Finish
  BY <1>2, OpenKeeps, LeaveKeeps, FinishKeeps
<1>3. CASE Save \/ GiveReason \/ CancelReason \/ Fail
  BY <1>3, SaveKeeps
<1>4. CASE PutEntry \/ CollectImages
  BY <1>4, PutEntryKeeps, CollectImagesKeeps
<1>5. CASE OthersEdit \/ Transfer
  BY <1>5, OthersEditKeeps
<1>6. CASE \E again, asks \in BOOLEAN : RefetchEntry(again, asks)
  BY <1>6, RefetchEntryKeeps
<1>7. CASE \E changed \in BOOLEAN : ChangeForm(changed)
  BY <1>7, ChangeFormKeeps
<1>8. CASE \E i \in Images : DropFile(i) \/ RemoveSaved(i) \/ OthersDelete(i)
  BY <1>8, DropFileKeeps, RemoveSavedKeeps, OthersDeleteKeeps
<1>9. CASE \E i \in Images, b \in BOOLEAN :
              \/ ChooseFile(i, b) \/ Describe(i, b) \/ Star(i, b)
              \/ SendPatch(i, b) \/ SendDelete(i, b)
              \/ \E row \in Images : SendUpload(i, row, b)
  BY <1>9, ChooseFileKeeps, DescribeKeeps, StarKeeps, SendPatchKeeps, SendDeleteKeeps,
     SendUploadKeeps
<1>10. CASE \E i \in Images, draft \in Draft : OthersInsert(i, draft) \/ OthersPatch(i, draft)
  BY <1>10, OthersWriteKeeps
<1>11. QED
  BY <1>1, <1>2, <1>3, <1>4, <1>5, <1>6, <1>7, <1>8, <1>9, <1>10 DEF ImagesNext

LEMMA ImagesInvTells == ImagesInv => OneCard /\ SavedAsShown
<1> SUFFICES ASSUME ImagesInv PROVE OneCard /\ SavedAsShown
  OBVIOUS
<1>1. OneCard
  BY DEF OneCard, ImagesInv, CardKept, PageKept
<1>2. ASSUME save.phase = "saved", save.want # Unknown
      PROVE  Shown(images) = save.want
  <2>1. /\ save.patch = Unused /\ save.delete = {} /\ save.upload = Unused /\ AsWanted
    BY <1>2 DEF ImagesInv, SaveKept
  <2>2. \A i \in Images : Shown(images)[i] = save.want[i]
    BY <2>1, NothingOpen DEF AsWanted
  <2>3. Shown(images) \in Drafts /\ save.want \in Drafts
    BY <1>2, SaveFields, ShownCard DEF ImagesInv
  <2>4. QED
    BY <2>2, <2>3 DEF Drafts
<1>3. QED
  BY <1>1, <1>2 DEF SavedAsShown

\* The images by themselves: the table, the page and its save are of their kind,
THEOREM ImagesTypes == ImagesSpec => []ImagesTypeOK
<1>1. ImagesInv => ImagesTypeOK
  BY DEF ImagesInv
<1>2. QED
  BY <1>1, ImagesInvInit, ImagesInvStep, PTL DEF ImagesSpec

\* one described image at most is the card of no more images than allowed, and
\* on a page one is as long as nobody else writes (EntryImages.tsx:57),
THEOREM CardsAreOne == ImagesSpec => []OneCard
<1>1. QED
  BY ImagesInvInit, ImagesInvStep, ImagesInvTells, PTL DEF ImagesSpec

\* and a save reports success when the images are those that the page showed
\* when the answer of the PUT came; if the page was gone or new by then, what had
\* been chosen on it is not among them (EditListingPage.tsx:88 and :219).
THEOREM SavesAsShown == ImagesSpec => []SavedAsShown
<1>1. QED
  BY ImagesInvInit, ImagesInvStep, ImagesInvTells, PTL DEF ImagesSpec

------------------------------------------------------------------------------
(* Side by side. *)

\* The three pages of the instance have values of their kind, whichever runs.
THEOREM BrowserTypes == Spec => []TypesOK
<1> DEFINE Inv == WizardInv /\ SubmissionInv /\ ImagesInv
<1>1. Init => Inv
  BY WizardInvInit, SubmissionInvInit, ImagesInvInit DEF Init
<1>2. Inv /\ [Next]_<<running, wizardVars, submissionVars, imagesVars>> => Inv'
  <2> SUFFICES ASSUME Inv, [Next]_<<running, wizardVars, submissionVars, imagesVars>>
               PROVE  Inv'
    OBVIOUS
  <2>1. /\ [WizardNext]_wizardVars /\ [SubmissionNext]_submissionVars
        /\ [ImagesNext]_imagesVars
    BY DEF Next
  <2>2. QED
    BY <2>1, WizardInvStep, SubmissionInvStep, ImagesInvStep
<1>3. Inv => TypesOK
  BY DEF TypesOK, WizardInv, SubmissionInv, ImagesInv
<1>4. QED
  BY <1>1, <1>2, <1>3, PTL DEF Spec
==============================================================================
