------------------------------ MODULE Visitors ------------------------------
(* Who a browser may be signed in as, for the modules about its pages.       *)

CONSTANTS
  Accounts,
  Nobody     \* not signed in

ASSUME VisitorsAssumption == Nobody \notin Accounts

Visitors == Accounts \cup {Nobody}
=============================================================================
