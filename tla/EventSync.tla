------------------------------ MODULE EventSync ------------------------------
(* The hourly import of an event calendar (server/event-sync.ts).  The timers  *)
(* of the application replicas, the administrator's button and the command     *)
(* line run syncEventSource for one source: it records that it is running,     *)
(* reads the source, and saves what it read in one transaction.                *)
EXTENDS SessionRuns

CONSTANTS Series,       \* events of the source
          Occurrences,  \* their dates: the rows of events
          SeriesOf, DayOf, \* the event and the day of an occurrence
          Reach,        \* how many days after its first day a reading covers
          MaxDay        \* bound on the first covered day

ASSUME SyncAssumption ==
  /\ SeriesOf \in [Occurrences -> Series]
  /\ DayOf \in [Occurrences -> Nat]
  /\ Reach \in Nat
  /\ MaxDay \in Nat

VARIABLES today,   \* the first day that a reading would cover
          events,  \* table events: for each occurrence its last reading
          syncs    \* the row of source_syncs

tables == <<today, events, syncs>>
vars == <<runVars, tables>>

Covered(from) == {o \in Occurrences : DayOf[o] \in from..from + Reach}

(* A reading: its number, the first day it covers, the occurrences it lists and *)
(* the events whose recurrence rule it could not understand.                    *)
Snapshot == [fetch : 1..MaxFetches, from : 0..MaxDay,
             listed : SUBSET Occurrences, skipped : SUBSET Series]

(* seen is the reading that last listed the occurrence, 0 while there is no row *)
EventRow == [seen : 0..MaxFetches, hidden : BOOLEAN]

Statuses == {"not_run", "running", "ok", "partial", "error"}

(* due: an hour has passed since last_started_at.  saved is the reading that    *)
(* last_successful_at, item_count, skipped_diagnostics and coverage describe.   *)
SyncRow == [status : Statuses, due : BOOLEAN, saved : Snapshot \cup {NoReading}]

TypeOK ==
  /\ RunsOK(Snapshot)
  /\ today \in 0..MaxDay
  /\ events \in [Occurrences -> EventRow]
  /\ syncs \in SyncRow

Init ==
  /\ RunsInit
  /\ today = 0
  /\ events = [o \in Occurrences |-> [seen |-> 0, hidden |-> FALSE]]
  /\ syncs = [status |-> "not_run", due |-> TRUE, saved |-> NoReading]

Hour ==
  /\ ~syncs.due
  /\ syncs' = [syncs EXCEPT !.due = TRUE]
  /\ UNCHANGED <<runVars, today, events>>

NextDay ==
  /\ today < MaxDay
  /\ today' = today + 1
  /\ UNCHANGED <<runVars, events, syncs>>

--------------------------------------------------------------------------------
(* syncEventSource *)

MustRun(r) == r \notin Scheduled \/ syncs.status = "running" \/ syncs.due

Claim_Unstamped(r) ==
  /\ LiveAt(r, "locked")
  /\ MustRun(r)
  /\ syncs' = [syncs EXCEPT !.status = "running"]
  /\ To(r, "claimed")
  /\ UNCHANGED <<today, events>>

Claim(r) ==
  /\ LiveAt(r, "locked")
  /\ MustRun(r)
  /\ syncs' = [syncs EXCEPT !.status = "running", !.due = FALSE]
  /\ To(r, "claimed")
  /\ UNCHANGED <<today, events>>

NotDue(r) ==
  /\ LiveAt(r, "locked")
  /\ ~MustRun(r)
  /\ To(r, "closing")
  /\ UNCHANGED tables

(* The adapter reads the source.  An event that it cannot expand is skipped    *)
(* and lists no occurrence; the others list those within the covered days.     *)
Fetch(r) ==
  /\ \E skipped \in SUBSET Series :
     \E listed \in SUBSET {o \in Covered(today) : SeriesOf[o] \notin skipped} :
       FetchAs(r, [fetch |-> fetches + 1, from |-> today,
                   listed |-> listed, skipped |-> skipped])
  /\ UNCHANGED tables

Saved_StaysHidden(reading) ==
  [o \in Occurrences |->
     IF o \in reading.listed THEN [events[o] EXCEPT !.seen = reading.fetch]
     ELSE [events[o] EXCEPT !.hidden =
             @ \/ (o \in Covered(reading.from) /\ SeriesOf[o] \notin reading.skipped)]]

(* saveSnapshot: what is listed is written and shown again; of the rest, what  *)
(* lies in the covered days is hidden unless its event was skipped.  The flag  *)
(* of an occurrence without a row means nothing.                               *)
Saved(reading) ==
  [o \in Occurrences |->
     IF o \in reading.listed THEN [seen |-> reading.fetch, hidden |-> FALSE]
     ELSE [events[o] EXCEPT !.hidden =
             @ \/ (o \in Covered(reading.from) /\ SeriesOf[o] \notin reading.skipped)]]

Save(r) ==
  LET reading == run[r].reading IN
  /\ LiveAt(r, "fetched")
  /\ events' = Saved(reading)
  /\ syncs' = [syncs EXCEPT
       !.status = IF reading.skipped = {} THEN "ok" ELSE "partial",
       !.saved = reading]
  /\ To(r, "closing")
  /\ UNCHANGED today

RecordFailure(r) ==
  /\ LiveAt(r, "failing")
  /\ syncs' = [syncs EXCEPT !.status = "error"]
  /\ To(r, "closing")
  /\ UNCHANGED <<today, events>>

(* What a run does between locking and the return of its connection.           *)
Work(r) ==
  \/ Claim(r) \/ NotDue(r) \/ Fetch(r) \/ Save(r) \/ RecordFailure(r)
  \/ (FetchFails(r) \/ SaveFails(r) \/ Abandon(r) \/ Release(r)) /\ UNCHANGED tables

Next ==
  \/ Hour \/ NextDay
  \/ Reap /\ UNCHANGED tables
  \/ \E r \in Runners :
       \/ (Crash(r) \/ Disconnect(r) \/ Restart(r) \/ TryLock(r)) /\ UNCHANGED tables
       \/ Work(r)

Spec == Init /\ [][Next]_vars

(* Timers fire every minute and a process that ended is restarted; a query is  *)
(* answered or fails, and a fetch has a budget of three minutes; PostgreSQL    *)
(* finds out about a lost client.  Nothing is assumed about the command line   *)
(* and the button, about success of a fetch, or about interruptions.           *)
FairSpec ==
  /\ Spec
  /\ WF_vars(Hour)
  /\ WF_vars(Reap /\ UNCHANGED tables)
  /\ \A r \in Runners : WF_vars(Work(r))
  /\ \A r \in Scheduled : WF_vars((Restart(r) \/ TryLock(r)) /\ UNCHANGED tables)

--------------------------------------------------------------------------------
(* Properties *)

(* What /api/meta says of the last successful reading describes the calendar   *)
(* that visitors see: within the covered days, and apart from events that were *)
(* skipped, exactly the listed occurrences are visible, as that reading gave   *)
(* them (saveSnapshot, event-sync.ts:47, after any failures and restarts).     *)
CoverageHonest ==
  LET saved == syncs.saved IN
  saved.fetch # 0 =>
    \A o \in Covered(saved.from) :
      SeriesOf[o] \notin saved.skipped =>
        IF o \in saved.listed THEN events[o] = [seen |-> saved.fetch, hidden |-> FALSE]
        ELSE events[o].hidden

(* "With the session lock acquired, a persisted 'running' state is an          *)
(* interrupted run" (event-sync.ts:153): whoever decides on that state is the  *)
(* only run that can still write.                                              *)
RunningIsInterrupted ==
  \A r \in Runners :
    LiveAt(r, "locked") /\ syncs.status = "running"
      => \A other \in Runners \ {r} : ~Live(other)

Feed == INSTANCE PolledFeed WITH
          MaxReadings <- MaxFetches, readings <- fetches, shown <- syncs.saved.fetch

(* "One lock covers fetching AND saving" (event-sync.ts:130): what is shown is *)
(* never replaced by an older reading, whoever reads and whoever fails.        *)
ImplementsPolledFeed == Feed!Spec

(* A source that is due is tried again (startEventScheduler, event-sync.ts:198) *)
(* although fetches fail, replicas compete and runs are interrupted.           *)
KeepsPolling == syncs.due ~> ~syncs.due

(* No attempt stays "running": it ends, or the next holder of the lock notices *)
(* that it was interrupted and finishes in its place (event-sync.ts:156).      *)
AttemptsSettle == (syncs.status = "running") ~> (syncs.status # "running")
================================================================================
