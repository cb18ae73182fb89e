-------------------------------- MODULE MCSync --------------------------------
(* A small instance of the two hourly readings for TLC: the calendar, with an  *)
(* event today and another tomorrow, and the publisher's feed.  Each has a     *)
(* lock and a row of its own, so a behaviour runs one while the other stands   *)
(* still.                                                                      *)
EXTENDS EventSync

CONSTANTS market, talk, market0, talk1

TwoEvents == [o \in Occurrences |-> IF o = talk1 THEN talk ELSE market]
TheirDays == [o \in Occurrences |-> IF o = market0 THEN 0 ELSE 1]

VARIABLES feed, reader

Publications == INSTANCE PublicationSync

both == <<vars, feed, reader>>

BothInit ==
  /\ reader \in {"calendar", "publications"}
  /\ Init
  /\ Publications!Init

BothNext ==
  /\ UNCHANGED reader
  /\ \/ reader = "calendar" /\ Next /\ UNCHANGED feed
     \/ reader = "publications" /\ Publications!Next /\ UNCHANGED tables

\* The fairness of each module; every runner of the feed is a timer.
Fairness ==
  /\ WF_both(Hour /\ UNCHANGED <<feed, reader>>)
  /\ WF_both(Publications!Hour /\ UNCHANGED <<tables, reader>>)
  /\ WF_both(Reap /\ UNCHANGED <<tables, feed, reader>>)
  /\ \A r \in Runners :
       /\ WF_both(reader = "calendar" /\ Work(r) /\ UNCHANGED <<feed, reader>>)
       /\ WF_both(reader = "publications" /\ Publications!Work(r) /\ UNCHANGED <<tables, reader>>)
       /\ WF_both(/\ reader = "publications" \/ r \in Scheduled
                  /\ Restart(r) \/ TryLock(r)
                  /\ UNCHANGED <<tables, feed, reader>>)

BothSpec == BothInit /\ [][BothNext]_both /\ Fairness

(* The same for the titles of the publisher's feed ("retain the last           *)
(* successful result", publications.ts:94): they are kept on failure and never *)
(* replaced by an older reading.                                               *)
PublicationsAdvance == Publications!ImplementsPolledFeed

(* Whichever of the two is due is tried again, although fetches fail, replicas *)
(* compete and runs are interrupted (startEventScheduler, event-sync.ts:198;   *)
(* publications.ts:124), and no attempt stays "running" (event-sync.ts:156).   *)
PollersRetry ==
  /\ reader = "calendar" => KeepsPolling /\ AttemptsSettle
  /\ reader = "publications" => Publications!KeepsPolling
================================================================================
