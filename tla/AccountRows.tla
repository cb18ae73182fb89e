----------------------------- MODULE AccountRows -----------------------------
(***************************************************************************)
(* The row of the accounts table as the rest of the system reads it, and   *)
(* what each UPDATE statement of the server does to one row.  There is no  *)
(* state here: the modules that keep accounts apply these functions.       *)
(* A definition with a suffix, as in Rotated_SameVersion, is a wrong       *)
(* variant of the definition below it; no specification uses it.           *)
(***************************************************************************)
EXTENDS Naturals

Roles == {"user", "editor", "administrator"}

\* exists is FALSE before the row is inserted and after it is deleted; a uuid
\* is never given to a second row.
AccountRow == [exists    : BOOLEAN,
               role      : Roles,
               suspended : BOOLEAN,
               saved     : BOOLEAN,
               version   : Nat]

\* What a sign-up inserts.
FreshRow == [exists |-> TRUE, role |-> "user", suspended |-> FALSE,
             saved |-> FALSE, version |-> 1]

\* The row may act as staff: role, suspension and saved recovery phrase.
Staff(row) == row.exists /\ row.role # "user" /\ ~row.suspended /\ row.saved

\* Phrase or e-mail recovery: new secrets, staff access suspended.
Recovered(row) == [row EXCEPT !.saved     = FALSE,
                              !.version   = @ + 1,
                              !.suspended = (row.role # "user")]

Rotated_SameVersion(row) == [row EXCEPT !.saved = FALSE]
\* Signed-in replacement of the password and the phrase.
Rotated(row) == [row EXCEPT !.saved = FALSE, !.version = @ + 1]

\* Sign out everywhere; also an administrator's change of the private names.
SignedOut(row) == [row EXCEPT !.version = @ + 1]

PhraseSaved_Unsuspends(row) == [row EXCEPT !.saved = TRUE, !.suspended = FALSE]
\* The account confirms that it kept its recovery phrase: no new version.
PhraseSaved(row) == [row EXCEPT !.saved = TRUE]

\* An administrator gives a role (never to or from administrator).
MayAssign(row, role) == /\ role \in {"user", "editor"}
                        /\ row.role # "administrator"
                        /\ role = "editor" => row.saved
RoleAssigned(row, role) == [row EXCEPT !.role      = role,
                                       !.suspended = FALSE,
                                       !.version   = @ + 1]

\* The host console grants or restores administrator.
MayAdminister(row) == row.saved
Administered(row) == [row EXCEPT !.role      = "administrator",
                                 !.suspended = FALSE,
                                 !.version   = @ + 1]

==============================================================================
