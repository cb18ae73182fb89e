------------------------------ MODULE MCBrowser ------------------------------
(***************************************************************************)
(* A small instance of three pages: the questions of an entry, its         *)
(* submission and its images.  They share no state, so a behaviour runs    *)
(* one of them while the others stand still.                               *)
(***************************************************************************)
EXTENDS EntryWizard, EntrySubmission, EntryImages, TLC

CONSTANT MaxRows  \* most pictures, removed and chosen ones included, while the page is open

VARIABLE running

Init ==
  /\ running \in {"wizard", "submission", "images"}
  /\ WizardInit /\ SubmissionInit /\ ImagesInit
  /\ running # "submission" =>
       session = Nobody /\ page.form = CHOOSE f \in Forms : TRUE

\* A picture more comes only while the page is closed: one that the limit refuses.
Room ==
  editor.open \/ save.phase \in {"saving", "stored", "images"} =>
    Cardinality({i \in Images : images[i] # NoRow \/ editor.pending[i] # NoDraft}) <= MaxRows

Next ==
  /\ UNCHANGED running
  /\ \/ running = "wizard" /\ WizardNext /\ UNCHANGED <<submissionVars, imagesVars>>
     \/ running = "submission" /\ SubmissionNext /\ UNCHANGED <<wizardVars, imagesVars>>
     \/ running = "images" /\ ImagesNext /\ Room' /\ UNCHANGED <<wizardVars, submissionVars>>

Spec == Init /\ [][Next]_<<running, wizardVars, submissionVars, imagesVars>>

\* Every variable of the three modules has a value its code can give it.
TypesOK == WizardTypeOK /\ SubmissionTypeOK /\ ImagesTypeOK

Symmetry == Permutations(Images) \cup Permutations(Entries)
==============================================================================
