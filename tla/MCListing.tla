------------------------------ MODULE MCListing ------------------------------
(* Small instances of ListingLifecycle for TLC: an owner and an editor. *)
EXTENDS ListingLifecycle, TLC

CONSTANTS ann, ed

Symmetry == Permutations(Entries) \cup Permutations(Facts) \cup Permutations(Lists)
==============================================================================
