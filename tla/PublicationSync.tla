--------------------------- MODULE PublicationSync ---------------------------
(* The hourly reading of the publisher's feed (server/publications.ts).  It    *)
(* differs from the calendar in its order: the hour is claimed by one          *)
(* conditional UPDATE before the feed is read, no state "running" is kept, and *)
(* only timers start it.                                                       *)
EXTENDS SessionRuns

VARIABLE feed  \* the row of publication_feeds

vars == <<runVars, feed>>

(* due: an hour has passed since last_checked_at; shown is the reading whose   *)
(* items the row holds.                                                        *)
FeedRow == [status : {"pending", "ok", "error"}, due : BOOLEAN, shown : 0..MaxFetches]

Readings == [fetch : 1..MaxFetches]

TypeOK == RunsOK(Readings) /\ feed \in FeedRow

Init == RunsInit /\ feed = [status |-> "pending", due |-> TRUE, shown |-> 0]

Hour ==
  /\ ~feed.due
  /\ feed' = [feed EXCEPT !.due = TRUE]
  /\ UNCHANGED runVars

Claim_Unstamped(r) == LiveAt(r, "locked") /\ feed.due /\ To(r, "claimed") /\ UNCHANGED feed

Claim(r) ==
  /\ LiveAt(r, "locked")
  /\ feed.due
  /\ feed' = [feed EXCEPT !.due = FALSE]
  /\ To(r, "claimed")

NotDue(r) == LiveAt(r, "locked") /\ ~feed.due /\ To(r, "closing") /\ UNCHANGED feed

Fetch(r) == FetchAs(r, [fetch |-> fetches + 1]) /\ UNCHANGED feed

Save(r) ==
  /\ LiveAt(r, "fetched")
  /\ feed' = [feed EXCEPT !.status = "ok", !.shown = run[r].reading.fetch]
  /\ To(r, "closing")

RecordFailure_Clears(r) ==
  /\ LiveAt(r, "failing")
  /\ feed' = [feed EXCEPT !.status = "error", !.shown = 0]
  /\ To(r, "closing")

RecordFailure(r) ==
  /\ LiveAt(r, "failing")
  /\ feed' = [feed EXCEPT !.status = "error"]
  /\ To(r, "closing")

Work(r) ==
  \/ Claim(r) \/ NotDue(r) \/ Fetch(r) \/ Save(r) \/ RecordFailure(r)
  \/ (FetchFails(r) \/ SaveFails(r) \/ Abandon(r) \/ Release(r)) /\ UNCHANGED feed

Next ==
  \/ Hour
  \/ Reap /\ UNCHANGED feed
  \/ \E r \in Runners :
       \/ (Crash(r) \/ Disconnect(r) \/ Restart(r) \/ TryLock(r)) /\ UNCHANGED feed
       \/ Work(r)

Spec == Init /\ [][Next]_vars

(* As in EventSync; every runner is a timer.                                   *)
FairSpec ==
  /\ Spec
  /\ WF_vars(Hour)
  /\ WF_vars(Reap /\ UNCHANGED feed)
  /\ \A r \in Runners :
       /\ WF_vars(Work(r))
       /\ WF_vars((Restart(r) \/ TryLock(r)) /\ UNCHANGED feed)

Feed == INSTANCE PolledFeed WITH
          MaxReadings <- MaxFetches, readings <- fetches, shown <- feed.shown

(* "Retain the last successful result" (publications.ts:94): titles are kept   *)
(* on failure and never replaced by an older reading.                          *)
ImplementsPolledFeed == Feed!Spec

(* A failed or interrupted check costs its hour and no more: the feed is tried *)
(* again (publications.ts:124).                                                *)
KeepsPolling == feed.due ~> ~feed.due
================================================================================
