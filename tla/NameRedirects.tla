--------------------------- MODULE NameRedirects ---------------------------
(* What the tag catalog promises of names: a name that leads to a tag always  *)
(* leads to one, and names that lead to the same tag always will.  Tags are   *)
(* added, and one can be redirected into another; nothing comes apart.        *)
EXTENDS Naturals

CONSTANTS Names, Tags, None

VARIABLE leads  \* the tag that each name leads to, or None

TypeOK == leads \in [Names -> Tags \cup {None}]

Init == TypeOK

Add(t, names) ==
  /\ \A n \in names : leads[n] \in {None, t}
  /\ leads' = [n \in Names |-> IF n \in names THEN t ELSE leads[n]]

Redirect(t, target) ==
  leads' = [n \in Names |-> IF leads[n] = t THEN target ELSE leads[n]]

Next == \E t \in Tags :
  \/ \E names \in SUBSET Names : Add(t, names)
  \/ \E target \in Tags : Redirect(t, target)

Spec == Init /\ [][Next]_leads
=============================================================================
