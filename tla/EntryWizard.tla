----------------------------- MODULE EntryWizard -----------------------------
(***************************************************************************)
(* The questions by which a visitor adds an entry                          *)
(* (src/components/EntryCreationWizard.tsx).                               *)
(*                                                                         *)
(* The visitor walks forwards and backwards through steps whose number     *)
(* depends on the first answer.  What a step asked stays in the form when  *)
(* the step is left, and whether or not a later answer hides it.  Of the   *)
(* fields of a step the model keeps whether submissionSchema accepts them. *)
(***************************************************************************)
EXTENDS Naturals, Sequences

CONSTANT
  Catalog  \* names of usable tags, once the catalog is loaded

VARIABLES
  intent, focus, organizer, step,
  values,     \* the form
  progress    \* "open", "saving" or "saved"

wizardVars == <<intent, focus, organizer, step, values, progress>>

Unanswered == "unanswered"
Intents == {"existing", "proposed"}
Focuses == {"business", "organization", "community", "resource"}
suggestedTag == [business |-> "Business", organization |-> "Nonprofit"]
Fields == {"blank", "good", "bad"}

\* named is what a step must have right before it is left, details the rest of
\* "Basics": the description and the location.
Form == [named : Fields, details : Fields, connections : Fields, participation : Fields,
         contact : Fields,
         tags : SUBSET Catalog,
         lifecycle : {"unknown"} \cup Intents, seekingOrganizer : BOOLEAN]

Steps ==
  <<"Start", "Type">>
    \o (IF intent = "proposed" THEN <<"Organizer">> ELSE <<>>)
    \o <<"Basics", "Links", "Participation", "Review">>
Current == Steps[step]

WizardTypeOK ==
  /\ intent \in Intents \cup {Unanswered}
  /\ focus \in Focuses \cup {Unanswered}
  /\ organizer \in {"yes", "no", Unanswered}
  /\ step \in 1..Len(Steps)
  /\ values \in Form
  /\ progress \in {"open", "saving", "saved"}

WizardInit ==
  /\ intent = Unanswered /\ focus = Unanswered /\ organizer = Unanswered
  /\ step = 1
  /\ values = [named |-> "blank", details |-> "blank", connections |-> "blank",
               participation |-> "blank", contact |-> "blank", tags |-> {},
               lifecycle |-> "unknown", seekingOrganizer |-> FALSE]
  /\ progress = "open"

\* A definition with a suffix, as in At_Anywhere, is a wrong variant of the
\* definition below it; no specification uses it.
At_Anywhere(name) == progress = "open"
At(name) == progress = "open" /\ Current = name

chooseIntent_KeepsStatus(i) == [values EXCEPT !.seekingOrganizer = FALSE]
chooseIntent(i) == [values EXCEPT !.lifecycle = i, !.seekingOrganizer = FALSE]

ChooseIntent(i) ==
  /\ At("Start")
  /\ intent' = i
  /\ organizer' = Unanswered
  /\ values' = chooseIntent(i)
  /\ UNCHANGED <<focus, step, progress>>

\* The tag of a former choice stays.  known is the catalog as far as loaded.
chooseFocus(f, known) ==
  [values EXCEPT !.tags = @ \cup {tag \in known : f \in DOMAIN suggestedTag /\ tag = suggestedTag[f]}]

ChooseFocus(f, known) ==
  /\ At("Type")
  /\ focus' = f
  /\ values' = chooseFocus(f, known)
  /\ UNCHANGED <<intent, organizer, step, progress>>

AnswerOrganizer(answer) ==
  /\ At("Organizer")
  /\ organizer' = answer
  /\ UNCHANGED <<intent, focus, step, values, progress>>

Fill(form) ==
  /\ values' = form
  /\ UNCHANGED <<intent, focus, organizer, step, progress>>

FillNamed(f) == At("Basics") /\ Fill([values EXCEPT !.named = f])
FillDetails(f) == At("Basics") /\ Fill([values EXCEPT !.details = f])
\* Adding a link, typing, choosing a type or a label, removing a link.
FillLinks(f) == At("Links") /\ Fill([values EXCEPT !.connections = f])

HasPublicContact == focus \in {"business", "organization"}

FillParticipation(f) == At("Participation") /\ Fill([values EXCEPT !.participation = f])
FillTags(tags) == At("Participation") /\ Fill([values EXCEPT !.tags = tags])
FillContact(f) ==
  At("Participation") /\ HasPublicContact /\ Fill([values EXCEPT !.contact = f])

\* What next() asks of the step it leaves: of the fields, only the name, the
\* summary and the links.
MayLeave ==
  /\ Current = "Start" => intent # Unanswered
  /\ Current = "Type" => focus # Unanswered
  /\ Current = "Organizer" => organizer # Unanswered
  /\ Current = "Basics" => values.named = "good"
  /\ Current = "Links" => values.connections # "bad"

Forward ==
  /\ progress = "open" /\ Current # "Review"
  /\ MayLeave
  /\ step' = step + 1
  /\ values' = IF Current # "Organizer" THEN values
       ELSE [values EXCEPT !.seekingOrganizer = (organizer = "no"), !.lifecycle = "proposed"]
  /\ UNCHANGED <<intent, focus, organizer, progress>>

Back ==
  /\ progress = "open" /\ step > 1
  /\ step' = step - 1
  /\ UNCHANGED <<intent, focus, organizer, values, progress>>

\* handleSubmit checks every field, those of hidden questions as well; the last
\* step shows no message about them.
Valid ==
  /\ values.named = "good"
  /\ "bad" \notin {values.details, values.connections, values.participation, values.contact}

Publish ==
  /\ At("Review") /\ Valid
  /\ progress' = "saving"
  /\ UNCHANGED <<intent, focus, organizer, step, values>>

\* The end of the submission, see EntrySubmission.
Published(outcome) ==
  /\ progress = "saving"
  /\ progress' = outcome
  /\ UNCHANGED <<intent, focus, organizer, step, values>>

WizardNext ==
  \/ \E i \in Intents : ChooseIntent(i)
  \/ \E f \in Focuses, known \in {{}, Catalog} : ChooseFocus(f, known)
  \/ \E answer \in {"yes", "no"} : AnswerOrganizer(answer)
  \/ \E f \in {"good", "bad"} : FillNamed(f)
  \/ \E f \in Fields : FillDetails(f) \/ FillLinks(f) \/ FillParticipation(f) \/ FillContact(f)
  \/ \E tags \in SUBSET Catalog : FillTags(tags)
  \/ Forward \/ Back
  \/ Publish
  \/ \E outcome \in {"open", "saved"} : Published(outcome)

WizardSpec == WizardInit /\ [][WizardNext]_wizardVars

------------------------------------------------------------------------------
(* Properties *)

\* However the visitor went back and forth and changed answers, the Status
\* that the last step shows (EntryCreationWizard.tsx:651) is the one that is
\* sent; the questions of the first steps were answered, the name and the summary
\* it shows are accepted, and no link is wrong.  Nothing is said of the fields
\* that next() passes over, or that a later answer hid.
ShownStatus ==
  IF intent # "proposed" THEN "existing"
  ELSE IF organizer = "no" THEN "seeking an organizer" ELSE "with an organizer"

SentStatus ==
  IF values.lifecycle # "proposed" THEN values.lifecycle
  ELSE IF values.seekingOrganizer THEN "seeking an organizer" ELSE "with an organizer"

ReviewTellsTruth ==
  Current = "Review" =>
    /\ ShownStatus = SentStatus
    /\ values.lifecycle = "existing" => ~values.seekingOrganizer
    /\ focus # Unanswered
    /\ values.named = "good" /\ values.connections # "bad"
=============================================================================
