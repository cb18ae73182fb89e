----------------------------- MODULE SessionRuns -----------------------------
(* Runs that hold a PostgreSQL session lock from their first query to their    *)
(* last: syncEventSource and syncPublications.  They are started by a timer of *)
(* each application replica, or by a caller who insists.  Between any two of   *)
(* its steps the process of a run may die, or its database connection break;   *)
(* the lock is then free as soon as PostgreSQL notices.                        *)
EXTENDS Naturals

CONSTANTS Runners,          \* callers, with one run each at a time
          Scheduled,        \* those that a timer of the server calls
          None,
          MaxFetches,       \* bound on the readings of the source
          MaxInterruptions  \* bound on crashes, shutdowns, broken connections

ASSUME RunsAssumption ==
  /\ Scheduled \subseteq Runners
  /\ None \notin Runners
  /\ MaxFetches \in Nat
  /\ MaxInterruptions \in Nat

VARIABLES lock,      \* whose session holds the advisory lock
          orphaned,  \* that session has lost its client
          run,       \* progress of each runner
          fetches,   \* how many readings of the source have been made
          interruptions

runVars == <<lock, orphaned, run, fetches, interruptions>>

NoReading == [fetch |-> 0]

Steps == {"down", "idle", "locked", "claimed", "fetched", "failing", "closing"}

Run(Readings) ==
  [pc : Steps, connected : BOOLEAN, reading : Readings \cup {NoReading}]

RunsOK(Readings) ==
  /\ lock \in Runners \cup {None}
  /\ orphaned \in BOOLEAN
  /\ run \in [Runners -> Run(Readings)]
  /\ fetches \in 0..MaxFetches
  /\ interruptions \in 0..MaxInterruptions

Idle == [pc |-> "idle", connected |-> TRUE, reading |-> NoReading]
Down == [pc |-> "down", connected |-> TRUE, reading |-> NoReading]

RunsInit ==
  /\ lock = None
  /\ orphaned = FALSE
  /\ run = [r \in Runners |-> Idle]
  /\ fetches = 0
  /\ interruptions = 0

(* A run that has got the lock and has not yet given back its connection.      *)
Working(r) == run[r].pc \in {"locked", "claimed", "fetched", "failing", "closing"}
Live(r) == Working(r) /\ run[r].connected
LiveAt(r, pc) == run[r].pc = pc /\ run[r].connected

To(r, pc) ==
  /\ run' = [run EXCEPT ![r].pc = pc]
  /\ UNCHANGED <<lock, orphaned, fetches, interruptions>>

--------------------------------------------------------------------------------
(* Interruptions *)

Interrupt(r) ==
  /\ interruptions < MaxInterruptions
  /\ interruptions' = interruptions + 1
  /\ orphaned' = (orphaned \/ lock = r)
  /\ UNCHANGED <<lock, fetches>>

(* The process ends: by a crash in any step, or by a shutdown, which waits for *)
(* the current run.                                                            *)
Crash(r) ==
  /\ run[r].pc # "down"
  /\ run' = [run EXCEPT ![r] = Down]
  /\ Interrupt(r)

Disconnect(r) ==
  /\ Live(r)
  /\ run' = [run EXCEPT ![r].connected = FALSE]
  /\ Interrupt(r)

(* PostgreSQL ends a session without a client, and with it the session lock.   *)
Reap ==
  /\ orphaned
  /\ lock' = None
  /\ orphaned' = FALSE
  /\ UNCHANGED <<run, fetches, interruptions>>

Restart(r) ==
  /\ run[r].pc = "down"
  /\ run' = [run EXCEPT ![r] = Idle]
  /\ UNCHANGED <<lock, orphaned, fetches, interruptions>>

--------------------------------------------------------------------------------
(* The steps that both kinds of run share. *)

(* pg_try_advisory_lock.  A call that finds the lock taken returns at once and *)
(* changes nothing.                                                            *)
TryLock(r) ==
  /\ run[r].pc = "idle"
  /\ lock = None
  /\ lock' = r
  /\ run' = [run EXCEPT ![r].pc = "locked"]
  /\ UNCHANGED <<orphaned, fetches, interruptions>>

FetchAs_Unlocked(r, reading) ==
  /\ run[r].pc = "claimed"
  /\ fetches < MaxFetches
  /\ fetches' = fetches + 1
  /\ lock' = IF run[r].connected THEN None ELSE lock
  /\ run' = [run EXCEPT ![r].pc = "fetched", ![r].reading = reading]
  /\ UNCHANGED <<orphaned, interruptions>>

(* The source is read; a connection that broke is not noticed meanwhile.       *)
FetchAs(r, reading) ==
  /\ run[r].pc = "claimed"
  /\ fetches < MaxFetches
  /\ fetches' = fetches + 1
  /\ run' = [run EXCEPT ![r].pc = "fetched", ![r].reading = reading]
  /\ UNCHANGED <<lock, orphaned, interruptions>>

(* The source does not answer, not in time, or not with what is expected; or a *)
(* statement that saves the reading fails.                                     *)
FetchFails(r) == run[r].pc = "claimed" /\ To(r, "failing")
SaveFails(r) == run[r].pc = "fetched" /\ To(r, "failing")

(* A query on a broken connection throws, and only the finally block is left.  *)
Abandon(r) ==
  /\ run[r].pc \in {"locked", "failing"}
  /\ ~run[r].connected
  /\ To(r, "closing")

(* The finally block: unlock and return the connection, or destroy it.         *)
Release(r) ==
  /\ run[r].pc = "closing"
  /\ lock' = IF run[r].connected THEN None ELSE lock
  /\ run' = [run EXCEPT ![r] = Idle]
  /\ UNCHANGED <<orphaned, fetches, interruptions>>
================================================================================
