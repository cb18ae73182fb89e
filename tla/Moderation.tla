----------------------------- MODULE Moderation -----------------------------
(***************************************************************************)
(* Reports about one entry and their private resolution                    *)
(* (server/routes/moderation.ts, src/components/ReportIssue.tsx,           *)
(* src/pages/ReviewQueuePage.tsx).                                         *)
(*                                                                         *)
(* The page of a staff member shows a snapshot and keeps a note for every  *)
(* report on it.  Resolving is one transaction that locks three rows in    *)
(* turn, and other transactions run between those steps.                   *)
(***************************************************************************)
EXTENDS Naturals, FiniteSets

CONSTANTS
  Editors,          \* accounts that have held a staff role
  Reports,          \* ids of reports
  Calls,            \* calls of POST /reports/:id/resolve
  MaxEntryVersion,  \* bound: edits of the entry
  MaxChanges        \* bound: changes of an account's authority

ASSUME ModerationAssumption == MaxEntryVersion \in Nat \ {0} /\ MaxChanges \in Nat

VARIABLES
  reported,   \* the entry
  reports,    \* rows of moderation_reports
  decisions,  \* rows of moderation_report_audit
  editors,    \* rows of accounts
  queue,      \* the review queue page of each editor
  calls

moderationVars == <<reported, reports, decisions, editors, queue, calls>>

Absent == [none |-> TRUE]
Sent == [answered |-> TRUE]
Versions == 1..MaxEntryVersion

Entry == [version : Versions, status : {"published", "archived", "deleted"}]
\* closed stands for resolved and dismissed.
Report == [status : {"open", "closed"}, version : {1, 2}]
\* What a Resolution form was mounted for: its key.
Key == [report : {1, 2}, entry : Versions]
Decision == [report : Reports, version : {2, 3}, actor : Editors, entry : Versions]
\* staff stands for a staff role without suspension and with a saved phrase.
Account == [staff : BOOLEAN, session : 0..MaxChanges]
\* shown gives the version of the reports on the page; note is when the text
\* in a form was typed, and sent marks a form whose answer was a success.
Queue == [session : 0..MaxChanges, entry : {0} \cup Versions, shown : [Reports -> 0..2],
          note : [Reports -> Key \cup {Absent, Sent}]]
\* typed is history: when the note was typed.  heard: the page still waits.
Call == [by : Editors, session : 0..MaxChanges, report : Reports, version : {1, 2},
         entry : Versions, typed : Key, heard : BOOLEAN,
         stage : {"sent", "authorised", "claimed", "checked"}]

ModerationTypeOK ==
  /\ reported \in Entry
  /\ reports \in [Reports -> Report \cup {Absent}]
  /\ decisions \subseteq Decision
  /\ editors \in [Editors -> Account]
  /\ queue \in [Editors -> Queue]
  /\ calls \in [Calls -> Call \cup {Absent}]

Closed == [r \in Reports |-> 0]
Blank == [r \in Reports |-> Absent]

ModerationInit ==
  /\ reported = [version |-> 1, status |-> "published"]
  /\ reports = [r \in Reports |-> Absent]
  /\ decisions = {}
  /\ editors = [a \in Editors |-> [staff |-> TRUE, session |-> 0]]
  /\ queue = [a \in Editors |-> [session |-> 0, entry |-> 0, shown |-> Closed, note |-> Blank]]
  /\ calls = [c \in Calls |-> Absent]

Running(stages) == {c \in Calls : calls[c] # Absent /\ calls[c].stage \in stages}
\* The account rows, the reports and the entry that running transactions hold.
LockedAccounts == {calls[c].by : c \in Running({"authorised", "claimed", "checked"})}
LockedReports == {calls[c].report : c \in Running({"claimed", "checked"})}
EntryLocked == Running({"checked"}) # {}

------------------------------------------------------------------------------
(* Readers, owners and administrators.  A definition with a suffix is a wrong *)
(* variant of the definition below it; no specification uses it.              *)

\* POST /reports: a hidden or missing entry gets the same receipt and no row.
FileReport(r) ==
  /\ reports[r] = Absent /\ reported.status = "published"
  /\ reports' = [reports EXCEPT ![r] = [status |-> "open", version |-> 1]]
  /\ UNCHANGED <<reported, decisions, editors, queue, calls>>

MayChange == reported.status # "deleted" /\ ~EntryLocked

\* An edit, hiding and restoring each raise the version.
ChangeEntry(status) ==
  /\ MayChange /\ reported.version < MaxEntryVersion
  /\ reported' = [version |-> reported.version + 1, status |-> status]
  /\ UNCHANGED <<reports, decisions, editors, queue, calls>>

\* The reports stay (migration 025).
DeleteEntry ==
  /\ MayChange
  /\ reported' = [reported EXCEPT !.status = "deleted"]
  /\ UNCHANGED <<reports, decisions, editors, queue, calls>>

\* A new role, a suspension, or the end of every session of the account.
ChangeAuthority(a, staff) ==
  /\ a \notin LockedAccounts /\ editors[a].session < MaxChanges
  /\ editors' = [editors EXCEPT ![a] = [staff |-> staff, session |-> @.session + 1]]
  /\ UNCHANGED <<reported, reports, decisions, queue, calls>>

------------------------------------------------------------------------------
(* The review queue page *)

Authorised(a) == editors[a].staff /\ editors[a].session = queue[a].session

Open == {r \in Reports : reports[r] # Absent /\ reports[r].status = "open"}

\* GET /queue with the filter "reported" has the entry, archived or not.
InQueue == reported.status # "deleted" /\ Open # {}

KeyOf(page, r) == [report |-> page.shown[r], entry |-> page.entry]

Remounted_ByReport(old, new, r) == new.shown[r] # old.shown[r]
\* key={`${report.id}:${report.version}:${listing.version}`}
Remounted(old, new, r) == new.shown[r] = 0 \/ KeyOf(new, r) # KeyOf(old, r)

Refreshed(a) ==
  LET new == [queue[a] EXCEPT !.entry = reported.version,
                !.shown = [r \in Reports |-> IF r \in Open THEN reports[r].version ELSE 0]]
  IN [new EXCEPT !.note = [r \in Reports |-> IF Remounted(queue[a], new, r) THEN Absent ELSE @[r]]]

\* GET /entries/:id/reports, one snapshot of the entry and its open reports;
\* selected in the queue, reloaded, or refetched by the query client.
ReadReports(a) ==
  /\ Authorised(a) /\ reported.status # "deleted"
  /\ queue[a].entry = 0 => InQueue
  /\ queue' = [queue EXCEPT ![a] = Refreshed(a)]
  /\ UNCHANGED <<reported, reports, decisions, editors, calls>>

Leaves(a, session) ==
  /\ queue' = [queue EXCEPT ![a] =
       [session |-> session, entry |-> 0, shown |-> Closed, note |-> Blank]]
  /\ calls' = [c \in Calls |-> IF calls[c] = Absent \/ calls[c].by # a THEN calls[c]
                              ELSE [calls[c] EXCEPT !.heard = FALSE]]
  /\ UNCHANGED <<reported, reports, decisions, editors>>

CloseReports(a) == queue[a].entry # 0 /\ Leaves(a, queue[a].session)

SignInAgain(a) == queue[a].session # editors[a].session /\ Leaves(a, editors[a].session)

Waits(a, r) ==
  \E c \in Calls : calls[c] # Absent /\ calls[c].heard /\ calls[c].by = a /\ calls[c].report = r

WriteNote(a, r) ==
  /\ queue[a].shown[r] # 0 /\ queue[a].note[r] = Absent
  /\ queue' = [queue EXCEPT ![a].note[r] = KeyOf(queue[a], r)]
  /\ UNCHANGED <<reported, reports, decisions, editors, calls>>

SendDecision(a, r, c) ==
  /\ calls[c] = Absent /\ ~Waits(a, r)
  /\ queue[a].shown[r] # 0 /\ queue[a].note[r] \notin {Absent, Sent}
  /\ calls' = [calls EXCEPT ![c] =
       [by |-> a, session |-> queue[a].session, report |-> r, version |-> queue[a].shown[r],
        entry |-> queue[a].entry, typed |-> queue[a].note[r],
        heard |-> TRUE, stage |-> "sent"]]
  /\ UNCHANGED <<reported, reports, decisions, editors, queue>>

\* The page is told of a failure while the server goes on.
GiveUpDecision(c) ==
  /\ calls[c] # Absent /\ calls[c].heard
  /\ calls' = [calls EXCEPT ![c].heard = FALSE]
  /\ UNCHANGED <<reported, reports, decisions, editors, queue>>

------------------------------------------------------------------------------
(* POST /reports/:id/resolve *)

Moves(c, stage) ==
  /\ calls' = [calls EXCEPT ![c].stage = stage]
  /\ UNCHANGED <<reported, reports, decisions, editors, queue>>

MayDecide(call) == editors[call.by].session = call.session /\ editors[call.by].staff

\* The account, FOR SHARE.
Authorise(c) ==
  /\ c \in Running({"sent"}) /\ MayDecide(calls[c])
  /\ Moves(c, "authorised")

\* The report, FOR UPDATE.
Claim(c) ==
  /\ c \in Running({"authorised"}) /\ calls[c].report \notin LockedReports
  /\ Moves(c, "claimed")

SameReport(call) ==
  reports[call.report].version = call.version /\ reports[call.report].status = "open"
SameEntry(call) == reported.status # "deleted" /\ reported.version = call.entry

AsSeen(call) == SameReport(call) /\ SameEntry(call)

\* The entry, FOR SHARE.
Check(c) ==
  /\ c \in Running({"claimed"}) /\ AsSeen(calls[c])
  /\ Moves(c, "checked")

DecisionOf(call) ==
  [report |-> call.report, version |-> call.version + 1, actor |-> call.by,
   entry |-> call.entry]

Resolved(call) ==
  [reports EXCEPT ![call.report] = [status |-> "closed", version |-> @.version + 1]]

Decide(c) ==
  LET call == calls[c] IN
  /\ c \in Running({"checked"})
  /\ \A d \in decisions : d.report = call.report => d.version # call.version + 1
  /\ reports' = Resolved(call)
  /\ decisions' = decisions \cup {DecisionOf(call)}
  /\ calls' = [calls EXCEPT ![c] = Absent]
  /\ queue' = IF call.heard /\ queue[call.by].note[call.report] # Absent
              THEN [queue EXCEPT ![call.by].note[call.report] = Sent] ELSE queue
  /\ UNCHANGED <<reported, editors>>

\* A refusal, a failure and a crash leave no trace; the form keeps its note.
Abort(c) ==
  /\ calls[c] # Absent
  /\ calls' = [calls EXCEPT ![c] = Absent]
  /\ UNCHANGED <<reported, reports, decisions, editors, queue>>

ModerationNext ==
  \/ \E r \in Reports : FileReport(r)
  \/ \E status \in {"published", "archived"} : ChangeEntry(status)
  \/ DeleteEntry
  \/ \E a \in Editors :
       \/ \E staff \in BOOLEAN : ChangeAuthority(a, staff)
       \/ ReadReports(a)
       \/ CloseReports(a)
       \/ SignInAgain(a)
       \/ \E r \in Reports :
            \/ WriteNote(a, r)
            \/ \E c \in Calls : SendDecision(a, r, c)
  \/ \E c \in Calls : GiveUpDecision(c) \/ Authorise(c) \/ Claim(c) \/ Check(c) \/ Decide(c) \/ Abort(c)

ModerationSpec == ModerationInit /\ [][ModerationNext]_moderationVars
------------------------------------------------------------------------------
(* Properties *)

\* A report is decided while it is open, on the entry and the report that its
\* decider had on the page when the note was typed, and by an account that is
\* staff and signed in when the decision commits (docs/item4-moderation.md:18,20).
\* "Resolution and its private audit record commit together": the report is
\* closed with its only record, however many calls try to close it.
DecidedAsRead ==
  [][\A d \in decisions' \ decisions :
       \E c \in Calls :
         /\ calls[c] # Absent /\ calls'[c] = Absent
         /\ calls[c].by = d.actor /\ calls[c].report = d.report
         /\ reports[d.report].status = "open" /\ reported.status # "deleted"
         /\ calls[c].typed = [report |-> reports[d.report].version, entry |-> reported.version]
         /\ editors[d.actor] = [staff |-> TRUE, session |-> calls[c].session]
         /\ reports'[d.report] = [status |-> "closed", version |-> d.version]
         /\ \A e \in decisions : e.report # d.report]_moderationVars
=============================================================================
