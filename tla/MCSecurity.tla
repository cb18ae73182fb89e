------------------------------ MODULE MCSecurity ------------------------------
(* Small instances of AccountSecurity for TLC. *)
EXTENDS AccountSecurity, TLC

Symmetry == Permutations(Devices) \cup Permutations(Requests)
==============================================================================
