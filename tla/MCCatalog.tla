----------------------------- MODULE MCCatalog -----------------------------
(***************************************************************************)
(* A small instance of four components: the life of an entry, the catalog  *)
(* of tags, the pages that change an entry and those that assign its       *)
(* owner.  They share no state, so a behaviour runs one of them while the  *)
(* others stand still.                                                     *)
(***************************************************************************)
EXTENDS ListingLifecycle, TagCatalog, EntryPages, OwnershipPages, TLC

CONSTANTS ann, ed

VARIABLE running

MCInit ==
  /\ running \in {"entries", "tags", "pages", "owners"}
  /\ Init /\ CatalogInit /\ PagesInit /\ AssignInit

MCNext ==
  /\ UNCHANGED running
  /\ \/ running = "entries" /\ Next /\ UNCHANGED <<catalogVars, pagesVars, assignVars>>
     \/ running = "tags" /\ CatalogNext /\ UNCHANGED <<vars, pagesVars, assignVars>>
     \/ running = "pages" /\ PagesNext /\ UNCHANGED <<vars, catalogVars, assignVars>>
     \/ running = "owners" /\ AssignNext /\ UNCHANGED <<vars, catalogVars, pagesVars>>

MCSpec == MCInit /\ [][MCNext]_<<running, vars, catalogVars, pagesVars, assignVars>>

\* People are given the values of Facts: each serves one component.
Symmetry == Permutations(Facts) \cup Permutations(Lists)
=============================================================================
