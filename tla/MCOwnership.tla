----------------------------- MODULE MCOwnership -----------------------------
(* Small instances of OwnershipTransfer for TLC: an editor and two users. *)
EXTENDS OwnershipTransfer, TLC

CONSTANTS ed, ann, bob

Symmetry == Permutations(OfferIds) \cup Permutations(Requests)

\* The editor's account row is updated at most this many times, the users' rows
\* no more than their version allows.  Any row may be deleted.
EditorChanges(n) == [a \in Accounts |-> IF a = ed THEN 1 + n ELSE 1]
NoChange == EditorChanges(0)
\* The editor's row is updated once, and no user's row is.
UsersKept == [a \in Accounts |-> IF a = ed THEN 2 ELSE 0]
==============================================================================
