------------------------------- MODULE MCDesk -------------------------------
(***************************************************************************)
(* A small instance of four components: the resolution of reports, the     *)
(* writes of service accounts, the ways back into an account and the tags  *)
(* that it follows.  They share no state, so a behaviour runs one of them  *)
(* while the others stand still.                                           *)
(***************************************************************************)
EXTENDS Moderation, ServiceWrites, LostAccess, SavedTags, TLC

VARIABLE running

Init ==
  /\ running \in {"moderation", "services", "access", "tags"}
  /\ ModerationInit /\ ServiceInit /\ AccessInit /\ SavedInit

Next ==
  /\ UNCHANGED running
  /\ \/ running = "moderation" /\ ModerationNext /\ UNCHANGED <<serviceVars, accessVars, savedVars>>
     \/ running = "services" /\ ServiceNext /\ UNCHANGED <<moderationVars, accessVars, savedVars>>
     \/ running = "access" /\ AccessNext /\ UNCHANGED <<moderationVars, serviceVars, savedVars>>
     \/ running = "tags" /\ SavedNext /\ UNCHANGED <<moderationVars, serviceVars, accessVars>>

Spec == Init /\ [][Next]_<<running, moderationVars, serviceVars, accessVars, savedVars>>

\* Every variable of the four modules has a value its code can give it.
TypesOK == ModerationTypeOK /\ ServiceTypeOK /\ AccessTypeOK /\ SavedTypeOK

\* Services, Editors, Addresses and Tags are given the same values, and so are
\* Requests, Calls and Accounts: each serves one component.
Symmetry == Permutations(Services) \cup Permutations(Requests)
=============================================================================
