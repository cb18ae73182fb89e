------------------------------ MODULE SyncProofs ------------------------------
(* Theorems about EventSync and PublicationSync, for every set of runners,      *)
(* every calendar and every bound.  The argument is the lock: a run that is     *)
(* still connected holds it, so there is one such run, and what it read is      *)
(* newer than what is saved.                                                    *)
EXTENDS MCSync, TLAPS

(* A connected run holds the lock, and the lock is not of a lost session.       *)
LockHeld ==
  /\ orphaned => lock # None
  /\ \A r \in Runners : Live(r) => lock = r /\ ~orphaned

(* Readings are numbered in order, and a run that can save has read after the   *)
(* last one that was saved.                                                     *)
ReadingsOrdered ==
  /\ syncs.saved.fetch <= fetches
  /\ \A r \in Runners :
       LiveAt(r, "fetched") => /\ run[r].reading \in Snapshot
                               /\ run[r].reading.fetch > syncs.saved.fetch
                               /\ run[r].reading.fetch <= fetches

Inv == TypeOK /\ LockHeld /\ ReadingsOrdered /\ CoverageHonest

--------------------------------------------------------------------------------
(* Steps that only move one run on: the lock, the readings and the interruptions *)
(* are unchanged.                                                               *)

(* Moving a run on keeps the types of all runs, and its connection and reading. *)
LEMMA MoveOn ==
  ASSUME TypeOK, NEW r \in Runners, NEW pc \in Steps, To(r, pc)
  PROVE  /\ RunsOK(Snapshot)'
         /\ run'[r].pc = pc
         /\ run'[r].connected = run[r].connected
         /\ run'[r].reading = run[r].reading
         /\ \A other \in Runners \ {r} : run'[other] = run[other]
  <1>1. run[r] \in Run(Snapshot) /\ run' = [run EXCEPT ![r].pc = pc]
    BY DEF TypeOK, RunsOK, To
  <1>2. run'[r] = [run[r] EXCEPT !.pc = pc]
    BY <1>1 DEF TypeOK, RunsOK
  <1>3. run'[r] \in Run(Snapshot)
    BY <1>1, <1>2 DEF Run
  <1>4. \A other \in Runners \ {r} : run'[other] = run[other]
    BY <1>1 DEF TypeOK, RunsOK
  <1>5. run' \in [Runners -> Run(Snapshot)]
    BY <1>1, <1>3, <1>4 DEF TypeOK, RunsOK
  <1>6. RunsOK(Snapshot)'
    BY <1>5 DEF TypeOK, RunsOK, To
  <1>7. /\ run'[r].pc = pc
        /\ run'[r].connected = run[r].connected
        /\ run'[r].reading = run[r].reading
    BY <1>1, <1>2 DEF Run
  <1> QED BY <1>4, <1>6, <1>7

(* A step of one working run keeps the lock with those who had it.              *)
LEMMA MoveKeepsLock ==
  ASSUME TypeOK, LockHeld, NEW r \in Runners, NEW pc \in Steps, To(r, pc),
         Working(r)
  PROVE  LockHeld'
  <1>1. /\ run'[r].connected = run[r].connected
        /\ \A other \in Runners \ {r} : run'[other] = run[other]
    BY MoveOn
  <1>2. \A other \in Runners : Live(other)' => Live(other)
    BY <1>1 DEF Live, Working
  <1> QED BY <1>2 DEF LockHeld, To

(* A step that does not lead to "fetched" and saves nothing keeps the order of  *)
(* the readings.                                                                *)
LEMMA MoveKeepsOrder ==
  ASSUME TypeOK, ReadingsOrdered, NEW r \in Runners, NEW pc \in Steps \ {"fetched"},
         To(r, pc), syncs'.saved = syncs.saved
  PROVE  ReadingsOrdered'
  <1>1. /\ run'[r].pc = pc
        /\ \A other \in Runners \ {r} : run'[other] = run[other]
    BY MoveOn
  <1>2. \A other \in Runners : LiveAt(other, "fetched")' =>
          LiveAt(other, "fetched") /\ run'[other] = run[other]
    BY <1>1 DEF LiveAt
  <1> QED BY <1>2 DEF ReadingsOrdered, To

(* An interruption ends the claim of one run and of no other.                   *)
LEMMA InterruptsOne ==
  ASSUME TypeOK, LockHeld, ReadingsOrdered, NEW r \in Runners,
         Interrupt(r), ~Live(r)', UNCHANGED tables,
         run' \in [Runners -> Run(Snapshot)],
         \A other \in Runners \ {r} : run'[other] = run[other]
  PROVE  RunsOK(Snapshot)' /\ LockHeld' /\ ReadingsOrdered'
  <1>1. RunsOK(Snapshot)'
    BY RunsAssumption DEF TypeOK, RunsOK, Interrupt
  <1>2. \A other \in Runners : Live(other)' =>
          other # r /\ Live(other) /\ run'[other] = run[other]
    BY DEF Live, Working
  <1>3. LockHeld'
    BY <1>2, RunsAssumption DEF LockHeld, Interrupt, TypeOK, RunsOK
  <1>4. \A other \in Runners : LiveAt(other, "fetched")' =>
          LiveAt(other, "fetched") /\ run'[other] = run[other]
    BY <1>2 DEF LiveAt, Live, Working
  <1>5. ReadingsOrdered'
    BY <1>4 DEF ReadingsOrdered, Interrupt, tables
  <1> QED BY <1>1, <1>3, <1>5

(* What visitors see stays as the coverage says while neither is written.       *)
LEMMA QuietCoverage ==
  ASSUME CoverageHonest, events' = events, syncs'.saved = syncs.saved
  PROVE  CoverageHonest'
  BY DEF CoverageHonest, Covered

--------------------------------------------------------------------------------

THEOREM InitInv == Init => Inv
  <1> SUFFICES ASSUME Init PROVE Inv
    OBVIOUS
  <1>1. TypeOK
    <2>1. Idle \in Run(Snapshot)
      BY DEF Run, Idle, Steps
    <2>2. RunsOK(Snapshot)
      <3>1. run \in [Runners -> Run(Snapshot)]
        BY <2>1 DEF Init, RunsInit
      <3>2. fetches \in 0..MaxFetches /\ interruptions \in 0..MaxInterruptions
        BY RunsAssumption DEF Init, RunsInit
      <3>3. lock \in Runners \cup {None} /\ orphaned \in BOOLEAN
        BY DEF Init, RunsInit
      <3> QED BY <3>1, <3>2, <3>3 DEF RunsOK
    <2>3. today \in 0..MaxDay /\ events \in [Occurrences -> EventRow]
      BY RunsAssumption, SyncAssumption DEF Init, EventRow
    <2>4. syncs \in SyncRow
      BY DEF Init, SyncRow, Statuses
    <2> QED BY <2>2, <2>3, <2>4 DEF TypeOK
  <1>2. \A r \in Runners : ~Live(r) /\ ~LiveAt(r, "fetched")
    BY DEF Init, RunsInit, Idle, Live, LiveAt, Working
  <1>3. LockHeld /\ ReadingsOrdered
    BY <1>2 DEF Init, RunsInit, LockHeld, ReadingsOrdered, NoReading
  <1>4. CoverageHonest
    BY DEF Init, CoverageHonest, NoReading
  <1> QED BY <1>1, <1>3, <1>4 DEF Inv

(* Each step of the specification keeps the invariant: one step per action.     *)
LEMMA StepInv == Inv /\ [Next]_vars => Inv'
  <1> SUFFICES ASSUME Inv, [Next]_vars PROVE Inv'
    OBVIOUS
  <1> USE DEF Inv
  <1>1. CASE Hour
    <2>1. syncs' \in SyncRow /\ syncs'.saved = syncs.saved
      BY <1>1 DEF Hour, TypeOK, SyncRow
    <2>2. TypeOK'
      BY <1>1, <2>1 DEF Hour, TypeOK, RunsOK, runVars
    <2>3. LockHeld' /\ ReadingsOrdered'
      BY <1>1, <2>1 DEF Hour, LockHeld, ReadingsOrdered, Live, LiveAt, Working, runVars
    <2> QED BY <1>1, <2>1, <2>2, <2>3, QuietCoverage DEF Hour
  <1>2. CASE NextDay
    <2>1. TypeOK'
      BY <1>2, SyncAssumption DEF NextDay, TypeOK, RunsOK, runVars
    <2>2. LockHeld' /\ ReadingsOrdered'
      BY <1>2 DEF NextDay, LockHeld, ReadingsOrdered, Live, LiveAt, Working, runVars
    <2> QED BY <1>2, <2>1, <2>2, QuietCoverage DEF NextDay
  <1>3. CASE Reap /\ UNCHANGED tables
    <2>1. TypeOK'
      BY <1>3 DEF Reap, tables, TypeOK, RunsOK
    <2>2. LockHeld' /\ ReadingsOrdered'
      BY <1>3 DEF Reap, tables, LockHeld, ReadingsOrdered, Live, LiveAt, Working
    <2> QED BY <1>3, <2>1, <2>2, QuietCoverage DEF tables
  <1>4. ASSUME NEW r \in Runners, Crash(r), UNCHANGED tables PROVE Inv'
    <2>1. Down \in Run(Snapshot) /\ Down.pc = "down"
      BY DEF Down, Run, Steps
    <2>2. /\ run' \in [Runners -> Run(Snapshot)]
          /\ run'[r] = Down
          /\ \A other \in Runners \ {r} : run'[other] = run[other]
      BY <1>4, <2>1 DEF Crash, TypeOK, RunsOK
    <2>3. ~Live(r)'
      BY <2>1, <2>2 DEF Live, Working
    <2>4. RunsOK(Snapshot)' /\ LockHeld' /\ ReadingsOrdered'
      BY <1>4, <2>2, <2>3, InterruptsOne DEF Crash
    <2> QED BY <1>4, <2>4, QuietCoverage DEF TypeOK, tables
  <1>5. ASSUME NEW r \in Runners, Disconnect(r), UNCHANGED tables PROVE Inv'
    <2>1. run[r] \in Run(Snapshot)
      BY DEF TypeOK, RunsOK
    <2>2. [run[r] EXCEPT !.connected = FALSE] \in Run(Snapshot)
      BY <2>1, Zenon DEF Run
    <2>3. /\ run'[r] = [run[r] EXCEPT !.connected = FALSE]
          /\ \A other \in Runners \ {r} : run'[other] = run[other]
      BY <1>5 DEF Disconnect, TypeOK, RunsOK
    <2>4. run' \in [Runners -> Run(Snapshot)]
      BY <1>5, <2>2, <2>3 DEF Disconnect, TypeOK, RunsOK
    <2>5. ~Live(r)'
      BY <2>1, <2>3 DEF Live, Run
    <2>6. RunsOK(Snapshot)' /\ LockHeld' /\ ReadingsOrdered'
      BY <1>5, <2>3, <2>4, <2>5, InterruptsOne DEF Disconnect
    <2> QED BY <1>5, <2>6, QuietCoverage DEF TypeOK, tables
  <1>6. ASSUME NEW r \in Runners, Restart(r) \/ Release(r), UNCHANGED tables PROVE Inv'
    <2>1. Idle \in Run(Snapshot) /\ Idle.pc = "idle"
      BY DEF Idle, Run, Steps
    <2>2. /\ run' \in [Runners -> Run(Snapshot)]
          /\ run'[r] = Idle
          /\ \A other \in Runners \ {r} : run'[other] = run[other]
      BY <1>6, <2>1 DEF Restart, Release, TypeOK, RunsOK
    <2>3. \A other \in Runners : Live(other)' =>
            other # r /\ Live(other) /\ run'[other] = run[other]
      BY <2>1, <2>2 DEF Live, Working
    <2>4. lock' = lock \/ (Live(r) /\ lock' = None)
      BY <1>6 DEF Restart, Release, Live, Working
    <2>5. TypeOK'
      BY <1>6, <2>2, <2>4 DEF Restart, Release, TypeOK, RunsOK, tables
    <2>6. LockHeld'
      BY <1>6, <2>3, <2>4, RunsAssumption DEF LockHeld, Restart, Release
    <2>7. \A other \in Runners : LiveAt(other, "fetched")' =>
            LiveAt(other, "fetched") /\ run'[other] = run[other]
      BY <2>3 DEF LiveAt, Live, Working
    <2>8. ReadingsOrdered'
      BY <1>6, <2>7 DEF ReadingsOrdered, Restart, Release, tables
    <2> QED BY <1>6, <2>5, <2>6, <2>8, QuietCoverage DEF tables
  <1>7. ASSUME NEW r \in Runners, TryLock(r), UNCHANGED tables PROVE Inv'
    <2>1. run[r] \in Run(Snapshot) /\ run' = [run EXCEPT ![r].pc = "locked"]
      BY <1>7 DEF TypeOK, RunsOK, TryLock
    <2>2. /\ run'[r] = [run[r] EXCEPT !.pc = "locked"]
          /\ \A other \in Runners \ {r} : run'[other] = run[other]
      BY <2>1 DEF TypeOK, RunsOK
    <2>3. run'[r] \in Run(Snapshot) /\ run'[r].pc = "locked"
      BY <2>1, <2>2 DEF Run, Steps
    <2>4. run' \in [Runners -> Run(Snapshot)]
      BY <2>1, <2>2, <2>3 DEF TypeOK, RunsOK
    <2>5. TypeOK'
      BY <1>7, <2>4 DEF TryLock, TypeOK, RunsOK, tables
    <2>6. \A other \in Runners \ {r} : ~Live(other)'
      BY <1>7, <2>2, RunsAssumption DEF TryLock, LockHeld, Live, Working
    <2>7. LockHeld'
      BY <1>7, <2>6, RunsAssumption DEF TryLock, LockHeld
    <2>8. \A other \in Runners : ~LiveAt(other, "fetched")'
      BY <2>3, <2>6 DEF LiveAt, Live, Working
    <2>9. ReadingsOrdered'
      BY <1>7, <2>8 DEF TryLock, ReadingsOrdered, tables
    <2> QED BY <1>7, <2>5, <2>7, <2>9, QuietCoverage DEF tables
  <1>8. ASSUME NEW r \in Runners, NEW pc \in Steps \ {"fetched"}, To(r, pc), Working(r),
               today' = today, events' = events, syncs' \in SyncRow,
               syncs'.saved = syncs.saved
        PROVE  Inv'
    <2>1. TypeOK'
      BY <1>8, MoveOn DEF TypeOK
    <2>2. LockHeld' /\ ReadingsOrdered'
      BY <1>8, MoveKeepsLock, MoveKeepsOrder
    <2> QED BY <1>8, <2>1, <2>2, QuietCoverage
  <1>9. ASSUME NEW r \in Runners, NotDue(r) PROVE Inv'
    <2>1. Working(r) /\ syncs \in SyncRow
      BY <1>9 DEF NotDue, LiveAt, Working, TypeOK
    <2> QED BY <1>8, <1>9, <2>1 DEF NotDue, tables, Steps
  <1>10. ASSUME NEW r \in Runners, FetchFails(r) \/ SaveFails(r) \/ Abandon(r),
                UNCHANGED tables
         PROVE  Inv'
    <2>1. Working(r) /\ syncs \in SyncRow
      BY <1>10 DEF FetchFails, SaveFails, Abandon, Working, TypeOK
    <2> QED BY <1>8, <1>10, <2>1 DEF FetchFails, SaveFails, Abandon, tables, Steps
  <1>11. ASSUME NEW r \in Runners, Claim(r) \/ RecordFailure(r) PROVE Inv'
    <2>1. Working(r)
      BY <1>11 DEF Claim, RecordFailure, LiveAt, Working
    <2>2. syncs' \in SyncRow /\ syncs'.saved = syncs.saved
      BY <1>11 DEF Claim, RecordFailure, TypeOK, SyncRow, Statuses
    <2> QED BY <1>8, <1>11, <2>1, <2>2 DEF Claim, RecordFailure, Steps
  <1>12. ASSUME NEW r \in Runners, Fetch(r) PROVE Inv'
    <2>1. PICK skipped \in SUBSET Series,
               listed \in SUBSET Covered(today) :
            FetchAs(r, [fetch |-> fetches + 1, from |-> today,
                        listed |-> listed, skipped |-> skipped])
      BY <1>12 DEF Fetch
    <2> DEFINE reading == [fetch |-> fetches + 1, from |-> today,
                           listed |-> listed, skipped |-> skipped]
    <2>2. fetches' = fetches + 1 /\ fetches + 1 \in 1..MaxFetches
      BY <2>1, RunsAssumption DEF FetchAs, TypeOK, RunsOK
    <2>3. reading \in Snapshot /\ reading.fetch = fetches'
      BY <2>2 DEF Snapshot, TypeOK, Covered
    <2> HIDE DEF reading
    <2>4. /\ run[r] \in Run(Snapshot)
          /\ run' = [run EXCEPT ![r].pc = "fetched", ![r].reading = reading]
      BY <2>1 DEF FetchAs, TypeOK, RunsOK, reading
    <2>5. /\ run'[r] = [run[r] EXCEPT !.pc = "fetched", !.reading = reading]
          /\ \A other \in Runners \ {r} : run'[other] = run[other]
      BY <2>4 DEF TypeOK, RunsOK
    <2>6. /\ run'[r] \in Run(Snapshot)
          /\ run'[r].reading = reading
          /\ run'[r].connected = run[r].connected
      <3>1. run[r].connected \in BOOLEAN
        BY <2>4 DEF Run
      <3>2. run'[r] = [pc |-> "fetched", connected |-> run[r].connected, reading |-> reading]
        BY <2>4, <2>5 DEF Run
      <3>3. "fetched" \in Steps /\ reading \in Snapshot \cup {NoReading}
        BY <2>3 DEF Steps
      <3>4. ASSUME NEW pc \in Steps, NEW connected \in BOOLEAN,
                   NEW read \in Snapshot \cup {NoReading}
            PROVE  [pc |-> pc, connected |-> connected, reading |-> read] \in Run(Snapshot)
        BY Zenon DEF Run
      <3>5. run'[r] \in Run(Snapshot)
        BY <3>1, <3>2, <3>3, <3>4
      <3> QED BY <3>2, <3>5
    <2>7. run' \in [Runners -> Run(Snapshot)]
      BY <2>4, <2>5, <2>6 DEF TypeOK, RunsOK
    <2>8. TypeOK'
      BY <1>12, <2>1, <2>2, <2>7 DEF Fetch, FetchAs, TypeOK, RunsOK, tables
    <2>9. \A other \in Runners : Live(other)' => Live(other)
      BY <2>1, <2>5, <2>6 DEF FetchAs, Live, Working
    <2>10. LockHeld'
      BY <2>1, <2>9 DEF FetchAs, LockHeld
    <2>11. ReadingsOrdered'
      <3>1. syncs' = syncs /\ syncs.saved.fetch \in Nat /\ fetches \in Nat
        BY <1>12, RunsAssumption DEF Fetch, tables, TypeOK, RunsOK, SyncRow, Snapshot, NoReading
      <3>2. syncs'.saved.fetch <= fetches'
        BY <2>2, <3>1 DEF ReadingsOrdered
      <3>3. ASSUME NEW other \in Runners, LiveAt(other, "fetched")'
            PROVE  /\ run'[other].reading \in Snapshot
                   /\ run'[other].reading.fetch > syncs'.saved.fetch
                   /\ run'[other].reading.fetch <= fetches'
        <4>1. CASE other = r
          BY <2>2, <2>3, <2>6, <3>1, <4>1 DEF ReadingsOrdered
        <4>2. CASE other # r
          <5>1. run'[other] = run[other] /\ LiveAt(other, "fetched")
            BY <2>5, <3>3, <4>2 DEF LiveAt
          <5>2. run[other].reading.fetch \in Nat
            BY <5>1, RunsAssumption DEF ReadingsOrdered, Snapshot
          <5> QED BY <2>2, <3>1, <5>1, <5>2 DEF ReadingsOrdered
        <4> QED BY <4>1, <4>2
      <3> QED BY <3>2, <3>3 DEF ReadingsOrdered
    <2> QED BY <1>12, <2>8, <2>10, <2>11, QuietCoverage DEF Fetch, tables
  <1>13. ASSUME NEW r \in Runners, Save(r) PROVE Inv'
    <2> DEFINE reading == run[r].reading
    <2>1. reading \in Snapshot /\ reading.fetch <= fetches /\ To(r, "closing")
      BY <1>13 DEF Save, ReadingsOrdered
    <2>2. syncs' \in SyncRow /\ syncs'.saved = reading
      BY <1>13, <2>1 DEF Save, TypeOK, SyncRow, Statuses
    <2>3. events' = Saved(reading)
      BY <1>13 DEF Save
    <2> HIDE DEF reading
    <2>4. reading.fetch \in 1..MaxFetches
      BY <2>1 DEF Snapshot
    <2>5. ASSUME NEW o \in Occurrences
          PROVE  /\ events'[o] \in EventRow
                 /\ o \in reading.listed =>
                      events'[o] = [seen |-> reading.fetch, hidden |-> FALSE]
                 /\ (/\ o \notin reading.listed
                     /\ o \in Covered(reading.from)
                     /\ SeriesOf[o] \notin reading.skipped) => events'[o].hidden
      <3>1. events[o] \in EventRow
        BY DEF TypeOK
      <3>2. CASE o \in reading.listed
        <4>1. events'[o] = [seen |-> reading.fetch, hidden |-> FALSE]
          BY <2>3, <3>2 DEF Saved
        <4> QED BY <2>4, <3>2, <4>1, RunsAssumption DEF EventRow
      <3>3. CASE o \notin reading.listed
        <4> DEFINE gone == /\ o \in Covered(reading.from)
                           /\ SeriesOf[o] \notin reading.skipped
        <4>1. events'[o] = [events[o] EXCEPT !.hidden = @ \/ gone]
          BY <2>3, <3>3 DEF Saved
        <4> HIDE DEF gone
        <4>2. events[o].hidden \in BOOLEAN /\ events[o].seen \in 0..MaxFetches
          BY <3>1 DEF EventRow
        <4>3. /\ events'[o] = [seen |-> events[o].seen, hidden |-> events[o].hidden \/ gone]
              /\ events'[o].hidden = (events[o].hidden \/ gone)
          BY <3>1, <4>1 DEF EventRow
        <4>4. events'[o] \in EventRow
          <5>1. (events[o].hidden \/ gone) \in BOOLEAN
            OBVIOUS
          <5>2. ASSUME NEW seen \in 0..MaxFetches, NEW hidden \in BOOLEAN
                PROVE  [seen |-> seen, hidden |-> hidden] \in EventRow
            BY Zenon DEF EventRow
          <5> QED BY <4>2, <4>3, <5>1, <5>2
        <4> QED BY <3>3, <4>3, <4>4 DEF gone
      <3> QED BY <3>2, <3>3
    <2>6. events' \in [Occurrences -> EventRow]
      BY <2>3, <2>5 DEF Saved
    <2>7. TypeOK'
      BY <1>13, <2>1, <2>2, <2>6, MoveOn DEF Save, Steps, TypeOK
    <2>8. Live(r) /\ Working(r)
      BY <1>13 DEF Save, LiveAt, Live, Working
    <2>9. LockHeld'
      BY <2>1, <2>8, MoveKeepsLock DEF Steps
    <2>10. ReadingsOrdered'
      <3>1. /\ run'[r].pc = "closing"
            /\ \A other \in Runners \ {r} : run'[other] = run[other]
        BY <2>1, MoveOn DEF Steps
      <3>2. \A other \in Runners \ {r} : ~Live(other)
        BY <2>8 DEF LockHeld
      <3>3. \A other \in Runners : ~LiveAt(other, "fetched")'
        BY <3>1, <3>2 DEF LiveAt, Live, Working
      <3> QED BY <2>1, <2>2, <3>3 DEF ReadingsOrdered, To
    <2>11. CoverageHonest'
      <3>1. ASSUME NEW o \in Covered(reading.from), SeriesOf[o] \notin reading.skipped
            PROVE  IF o \in reading.listed
                   THEN events'[o] = [seen |-> reading.fetch, hidden |-> FALSE]
                   ELSE events'[o].hidden
        BY <2>5, <3>1 DEF Covered
      <3> QED BY <2>2, <3>1 DEF CoverageHonest, Covered
    <2> QED BY <2>7, <2>9, <2>10, <2>11
  <1>14. CASE UNCHANGED vars
    <2>1. TypeOK'
      BY <1>14 DEF vars, runVars, tables, TypeOK, RunsOK
    <2>2. LockHeld' /\ ReadingsOrdered'
      BY <1>14 DEF vars, runVars, tables, LockHeld, ReadingsOrdered, Live, LiveAt, Working
    <2> QED BY <1>14, <2>1, <2>2, QuietCoverage DEF vars, tables
  <1> QED
    BY <1>1, <1>2, <1>3, <1>4, <1>5, <1>6, <1>7, <1>9, <1>10, <1>11, <1>12, <1>13,
       <1>14 DEF Next, Work

THEOREM Invariance == Spec => []Inv
  BY InitInv, StepInv, PTL DEF Spec

--------------------------------------------------------------------------------

(* Every reachable state has the declared types.                                *)
THEOREM SyncTypes == Spec => []TypeOK
  BY Invariance, PTL DEF Inv

(* The coverage that /api/meta reports is the calendar that visitors see.       *)
THEOREM CoverageStaysHonest == Spec => []CoverageHonest
  BY Invariance, PTL DEF Inv

(* A run that finds "running" under the lock is alone: the attempt it sees was  *)
(* interrupted.                                                                 *)
THEOREM InterruptedRunsAreOver == Spec => []RunningIsInterrupted
  <1>1. Inv => RunningIsInterrupted
    <2> SUFFICES ASSUME LockHeld, NEW r \in Runners, LiveAt(r, "locked"),
                        NEW other \in Runners \ {r}, Live(other)
                 PROVE  FALSE
      BY DEF Inv, RunningIsInterrupted
    <2>1. Live(r)
      BY DEF Live, LiveAt, Working
    <2> QED BY <2>1 DEF LockHeld
  <1> QED BY <1>1, Invariance, PTL

(* Readings are shown in the order in which they were made, whichever replica,  *)
(* timer or person runs the import and wherever it is interrupted.              *)
THEOREM ReadingsAdvance == Spec => ImplementsPolledFeed
  <1>1. Init => Feed!Init
    BY DEF Init, RunsInit, Feed!Init, NoReading
  <1>2. ASSUME Inv, [Next]_vars PROVE [Feed!Next]_<<fetches, syncs.saved.fetch>>
    <2>1. ASSUME NEW r \in Runners, Save(r) PROVE Feed!Show
      <3>1. /\ run[r].reading \in Snapshot
            /\ run[r].reading.fetch > syncs.saved.fetch
            /\ run[r].reading.fetch <= fetches
        BY <1>2, <2>1 DEF Inv, ReadingsOrdered, Save
      <3>2. syncs'.saved = run[r].reading
        BY <1>2, <2>1 DEF Save, Inv, TypeOK, SyncRow
      <3>3. syncs.saved.fetch \in Nat /\ fetches \in Nat /\ run[r].reading.fetch \in Nat
        BY <1>2, <3>1, RunsAssumption
           DEF Inv, TypeOK, RunsOK, SyncRow, Snapshot, NoReading
      <3> QED BY <2>1, <3>1, <3>2, <3>3 DEF Feed!Show, Save, To
    <2>2. ASSUME NEW r \in Runners, Fetch(r) PROVE Feed!Read
      BY <2>2 DEF Fetch, FetchAs, tables, Feed!Read
    <2>3. ASSUME NEW r \in Runners, Claim(r) \/ RecordFailure(r)
          PROVE  UNCHANGED <<fetches, syncs.saved.fetch>>
      BY <1>2, <2>3 DEF Claim, RecordFailure, To, Inv, TypeOK, SyncRow
    <2>4. CASE Hour
      BY <1>2, <2>4 DEF Hour, runVars, Inv, TypeOK, SyncRow
    <2>5. CASE NextDay \/ (Reap /\ UNCHANGED tables)
      BY <2>5 DEF NextDay, Reap, runVars, tables
    <2>6. ASSUME NEW r \in Runners,
                 Crash(r) \/ Disconnect(r) \/ Restart(r) \/ TryLock(r) \/ FetchFails(r)
                 \/ SaveFails(r) \/ Abandon(r) \/ Release(r), UNCHANGED tables
          PROVE  UNCHANGED <<fetches, syncs.saved.fetch>>
      BY <2>6 DEF Crash, Disconnect, Interrupt, Restart, TryLock, FetchFails, SaveFails,
                  Abandon, Release, To, tables
    <2>7. ASSUME NEW r \in Runners, NotDue(r)
          PROVE  UNCHANGED <<fetches, syncs.saved.fetch>>
      BY <2>7 DEF NotDue, To, tables
    <2>8. CASE UNCHANGED vars
      BY <2>8 DEF vars, runVars, tables
    <2> QED
      BY <1>2, <2>1, <2>2, <2>3, <2>4, <2>5, <2>6, <2>7, <2>8 DEF Next, Work, Feed!Next
  <1> QED BY <1>1, <1>2, Invariance, PTL DEF Spec, ImplementsPolledFeed, Feed!Spec

--------------------------------------------------------------------------------
(* PublicationSync, which shares the runs and the argument: one connected run,  *)
(* and what it read is newer than the titles that the row holds.                *)

FeedOrdered ==
  /\ feed.shown <= fetches
  /\ \A r \in Runners :
       LiveAt(r, "fetched") => /\ run[r].reading \in Publications!Readings
                               /\ run[r].reading.fetch > feed.shown
                               /\ run[r].reading.fetch <= fetches

FeedInv ==
  /\ RunsOK(Publications!Readings) /\ feed \in Publications!FeedRow
  /\ LockHeld /\ FeedOrdered

(* The instance of SessionRuns in Publications is that of the calendar.         *)
LEMMA SameRuns ==
  ASSUME NEW r \in Runners
  PROVE  /\ Publications!Crash(r) => Crash(r)
         /\ Publications!Disconnect(r) => Disconnect(r)
         /\ Publications!Restart(r) => Restart(r)
         /\ Publications!TryLock(r) => TryLock(r)
         /\ Publications!Release(r) => Release(r)
         /\ Publications!Abandon(r) => Abandon(r)
         /\ Publications!FetchFails(r) => FetchFails(r)
         /\ Publications!SaveFails(r) => SaveFails(r)
         /\ Publications!Reap => Reap
         /\ \A pc : /\ Publications!To(r, pc) => To(r, pc)
                    /\ Publications!LiveAt(r, pc) => LiveAt(r, pc)
         /\ \A reading : Publications!FetchAs(r, reading) => FetchAs(r, reading)
  <1>1. /\ \A pc : /\ Publications!To(r, pc) => To(r, pc)
                   /\ Publications!LiveAt(r, pc) => LiveAt(r, pc)
        /\ \A reading : Publications!FetchAs(r, reading) => FetchAs(r, reading)
    BY DEF Publications!To, To, Publications!LiveAt, LiveAt, Publications!FetchAs, FetchAs
  <1>2. /\ Publications!Abandon(r) => Abandon(r)
        /\ Publications!FetchFails(r) => FetchFails(r)
        /\ Publications!SaveFails(r) => SaveFails(r)
    BY <1>1 DEF Publications!Abandon, Abandon, Publications!FetchFails, FetchFails,
                Publications!SaveFails, SaveFails
  <1>3. Publications!Interrupt(r) => Interrupt(r)
    BY DEF Publications!Interrupt, Interrupt
  <1>4. Publications!Idle = Idle /\ Publications!Down = Down
    BY DEF Publications!Idle, Idle, Publications!Down, Down, Publications!NoReading, NoReading
  <1>5. Publications!Live(r) => Live(r)
    BY DEF Publications!Live, Live, Publications!Working, Working
  <1>6. /\ Publications!Crash(r) => Crash(r)
        /\ Publications!Disconnect(r) => Disconnect(r)
    BY <1>3, <1>4, <1>5 DEF Publications!Crash, Crash, Publications!Disconnect, Disconnect
  <1>7. /\ Publications!Restart(r) => Restart(r)
        /\ Publications!TryLock(r) => TryLock(r)
        /\ Publications!Release(r) => Release(r)
        /\ Publications!Reap => Reap
    BY <1>4 DEF Publications!Restart, Restart, Publications!TryLock, TryLock,
                Publications!Release, Release, Publications!Reap, Reap
  <1> QED BY <1>1, <1>2, <1>6, <1>7

(* A step of one run that reads nothing: it ends the run's claim, gives the     *)
(* lock back, takes it while it is free, or leaves it alone.                    *)
LEMMA RowStep ==
  ASSUME NEW R, RunsOK(R), LockHeld, NEW r \in Runners, NEW row \in Run(R),
         run' = [run EXCEPT ![r] = row], row.pc # "fetched" \/ ~row.connected,
         orphaned' = orphaned \/ orphaned' = (orphaned \/ lock = r),
         interruptions' \in 0..MaxInterruptions, fetches' = fetches,
         \/ lock' = lock /\ (row.pc \in {"idle", "down"} \/ ~row.connected)
         \/ lock' = None /\ Live(r) /\ row.pc = "idle" /\ orphaned' = orphaned
         \/ lock' = r /\ lock = None /\ orphaned' = orphaned
         \/ lock' = lock /\ orphaned' = orphaned
              /\ Working(r) /\ row.connected = run[r].connected
  PROVE  /\ RunsOK(R)' /\ LockHeld'
         /\ \A other \in Runners : LiveAt(other, "fetched")' =>
              LiveAt(other, "fetched") /\ run'[other] = run[other]
  <1>1. /\ run \in [Runners -> Run(R)] /\ lock \in Runners \cup {None} /\ orphaned \in BOOLEAN
        /\ fetches \in 0..MaxFetches
    BY DEF RunsOK
  <1>2. /\ run' \in [Runners -> Run(R)] /\ run'[r] = row
        /\ \A other \in Runners \ {r} : run'[other] = run[other]
    BY <1>1
  <1>3. RunsOK(R)'
    BY <1>1, <1>2, RunsAssumption DEF RunsOK
  <1>4. \A other \in Runners \ {r} : Live(other)' => Live(other)
    BY <1>2 DEF Live, Working
  <1>5. (row.pc \in {"idle", "down"} \/ ~row.connected) => ~Live(r)'
    BY <1>2 DEF Live, Working
  <1>6. Working(r) /\ row.connected = run[r].connected => (Live(r)' => Live(r))
    BY <1>2 DEF Live
  <1>7. LockHeld'
    BY <1>1, <1>4, <1>5, <1>6, RunsAssumption DEF LockHeld
  <1>8. \A other \in Runners : LiveAt(other, "fetched")' =>
          LiveAt(other, "fetched") /\ run'[other] = run[other]
    BY <1>2 DEF LiveAt
  <1> QED BY <1>3, <1>7, <1>8

(* The steps that read nothing, whatever the readings are.                      *)
LEMMA RunsStep ==
  ASSUME NEW R, RunsOK(R), LockHeld, NEW r \in Runners,
         \/ Crash(r) \/ Disconnect(r) \/ Restart(r) \/ TryLock(r) \/ Release(r)
         \/ Working(r) /\ \E pc \in Steps \ {"fetched"} : To(r, pc)
  PROVE  /\ RunsOK(R)' /\ LockHeld' /\ fetches' = fetches
         /\ \A other \in Runners : LiveAt(other, "fetched")' =>
              LiveAt(other, "fetched") /\ run'[other] = run[other]
  <1>1. /\ run[r] \in Run(R) /\ interruptions \in 0..MaxInterruptions
        /\ MaxInterruptions \in Nat
    BY RunsAssumption DEF RunsOK
  <1>2. /\ Idle \in Run(R) /\ Down \in Run(R) /\ Idle.pc = "idle" /\ Down.pc = "down"
    BY DEF Idle, Down, Run, Steps
  <1>3. /\ fetches' = fetches /\ interruptions' \in 0..MaxInterruptions
        /\ orphaned' = orphaned \/ orphaned' = (orphaned \/ lock = r)
    BY <1>1 DEF Crash, Disconnect, Interrupt, Restart, TryLock, Release, To
  <1>4. CASE Crash(r)
    BY <1>2, <1>3, <1>4, RowStep DEF Crash, Interrupt
  <1>5. CASE Restart(r)
    BY <1>2, <1>3, <1>5, RowStep DEF Restart
  <1>6. CASE Release(r)
    <2>1. /\ run' = [run EXCEPT ![r] = Idle] /\ orphaned' = orphaned
          /\ lock' = lock \/ (lock' = None /\ Live(r))
      BY <1>6 DEF Release, Live, Working
    <2> QED BY <1>2, <1>3, <2>1, RowStep
  <1>7. CASE Disconnect(r)
    <2> DEFINE row == [run[r] EXCEPT !.connected = FALSE]
    <2>1. row \in Run(R) /\ row.pc = run[r].pc /\ ~row.connected
      BY <1>1, Zenon DEF Run
    <2>2. run' = [run EXCEPT ![r] = row] /\ lock' = lock
      BY <1>7, Zenon DEF Disconnect, Interrupt
    <2> HIDE DEF row
    <2> QED BY <1>3, <2>1, <2>2, RowStep
  <1>8. CASE TryLock(r) \/ (Working(r) /\ \E pc \in Steps \ {"fetched"} : To(r, pc))
    <2>1. PICK pc \in Steps \ {"fetched"} :
            /\ run' = [run EXCEPT ![r].pc = pc] /\ orphaned' = orphaned
            /\ \/ lock' = r /\ lock = None
               \/ lock' = lock /\ Working(r)
      BY <1>8 DEF TryLock, To, Steps
    <2> DEFINE row == [run[r] EXCEPT !.pc = pc]
    <2>2. row \in Run(R) /\ row.connected = run[r].connected /\ row.pc = pc
      BY <1>1, Zenon DEF Run
    <2>3. run' = [run EXCEPT ![r] = row]
      BY <2>1, Zenon
    <2> HIDE DEF row
    <2> QED BY <1>3, <2>1, <2>2, <2>3, RowStep
  <1> QED BY <1>3, <1>4, <1>5, <1>6, <1>7, <1>8

LEMMA FeedInit == Publications!Init => FeedInv
  <1> SUFFICES ASSUME Publications!Init PROVE FeedInv
    OBVIOUS
  <1>1. /\ lock = None /\ orphaned = FALSE /\ fetches = 0 /\ interruptions = 0
        /\ run = [r \in Runners |-> Idle]
        /\ feed = [status |-> "pending", due |-> TRUE, shown |-> 0]
    BY DEF Publications!Init, Publications!RunsInit, Publications!Idle, Idle,
           Publications!NoReading, NoReading
  <1>2. Idle \in Run(Publications!Readings) /\ Idle.pc = "idle"
    BY DEF Idle, Run, Steps
  <1>3. RunsOK(Publications!Readings)
    <2>1. run \in [Runners -> Run(Publications!Readings)]
      BY <1>1, <1>2
    <2>2. fetches \in 0..MaxFetches /\ interruptions \in 0..MaxInterruptions
      BY <1>1, RunsAssumption
    <2> QED BY <1>1, <2>1, <2>2 DEF RunsOK
  <1>4. feed \in Publications!FeedRow
    BY <1>1, RunsAssumption DEF Publications!FeedRow
  <1>5. LockHeld /\ FeedOrdered
    BY <1>1, <1>2 DEF LockHeld, FeedOrdered, Live, LiveAt, Working
  <1> QED BY <1>3, <1>4, <1>5 DEF FeedInv

(* Steps after which the row shows what it showed.                              *)
LEMMA FeedQuiet ==
  ASSUME FeedInv, NEW r \in Runners,
         \/ Crash(r) \/ Disconnect(r) \/ Restart(r) \/ TryLock(r) \/ Release(r)
         \/ Working(r) /\ \E pc \in Steps \ {"fetched"} : To(r, pc),
         feed' \in Publications!FeedRow, feed'.shown = feed.shown
  PROVE  FeedInv' /\ fetches' = fetches
  <1>1. /\ RunsOK(Publications!Readings)' /\ LockHeld' /\ fetches' = fetches
        /\ \A other \in Runners : LiveAt(other, "fetched")' =>
             LiveAt(other, "fetched") /\ run'[other] = run[other]
    BY RunsStep DEF FeedInv
  <1>2. FeedOrdered'
    BY <1>1 DEF FeedInv, FeedOrdered
  <1> QED BY <1>1, <1>2 DEF FeedInv

LEMMA FeedFetch ==
  ASSUME FeedInv, NEW r \in Runners, Publications!Fetch(r)
  PROVE  FeedInv' /\ fetches < MaxFetches /\ fetches' = fetches + 1 /\ feed' = feed
  <1> DEFINE reading == [fetch |-> fetches + 1]
             row == [run[r] EXCEPT !.pc = "fetched", !.reading = reading]
  <1>1. FetchAs(r, reading) /\ feed' = feed
    BY SameRuns DEF Publications!Fetch
  <1>2. /\ run \in [Runners -> Run(Publications!Readings)]
        /\ run[r] \in Run(Publications!Readings)
        /\ fetches \in Nat /\ fetches \in 0..MaxFetches /\ MaxFetches \in Nat
        /\ feed.shown \in Nat
    BY RunsAssumption DEF FeedInv, RunsOK, Publications!FeedRow
  <1>3. /\ run[r].pc = "claimed" /\ fetches < MaxFetches /\ fetches' = fetches + 1
        /\ UNCHANGED <<lock, orphaned, interruptions>>
    BY <1>1 DEF FetchAs
  <1>4. /\ reading \in Publications!Readings \cup {NoReading}
        /\ reading \in Publications!Readings /\ reading.fetch = fetches'
    BY <1>2, <1>3 DEF Publications!Readings
  <1>5. run' = [run EXCEPT ![r] = row]
    BY <1>1, Zenon DEF FetchAs
  <1> HIDE DEF reading
  <1>6. /\ row \in Run(Publications!Readings) /\ row.pc = "fetched"
        /\ row.connected = run[r].connected /\ row.reading = reading
    <2>1. "fetched" \in Steps
      BY DEF Steps
    <2> QED BY <1>2, <1>4, <2>1, Zenon DEF Run
  <1> HIDE DEF row
  <1>7. /\ run' \in [Runners -> Run(Publications!Readings)] /\ run'[r] = row
        /\ \A other \in Runners \ {r} : run'[other] = run[other]
    BY <1>2, <1>5, <1>6
  <1>8. RunsOK(Publications!Readings)'
    BY <1>2, <1>3, <1>7 DEF FeedInv, RunsOK
  <1>9. LockHeld'
    <2>1. \A other \in Runners : Live(other)' => Live(other)
      BY <1>3, <1>6, <1>7 DEF Live, Working
    <2> QED BY <1>3, <2>1 DEF FeedInv, LockHeld
  <1>10. FeedOrdered'
    <2>1. feed'.shown <= fetches'
      BY <1>1, <1>2, <1>3 DEF FeedInv, FeedOrdered
    <2>2. ASSUME NEW other \in Runners, LiveAt(other, "fetched")'
          PROVE  /\ run'[other].reading \in Publications!Readings
                 /\ run'[other].reading.fetch > feed'.shown
                 /\ run'[other].reading.fetch <= fetches'
      <3>1. CASE other = r
        BY <1>1, <1>2, <1>3, <1>4, <1>6, <1>7, <3>1 DEF FeedInv, FeedOrdered
      <3>2. CASE other # r
        <4>1. run'[other] = run[other] /\ LiveAt(other, "fetched")
          BY <1>7, <2>2, <3>2 DEF LiveAt
        <4>2. /\ run[other].reading \in Publications!Readings
              /\ run[other].reading.fetch > feed.shown
              /\ run[other].reading.fetch <= fetches
          BY <4>1 DEF FeedInv, FeedOrdered
        <4>3. run[other].reading.fetch \in Nat
          BY <1>2, <4>2 DEF Publications!Readings
        <4> QED BY <1>1, <1>2, <1>3, <4>1, <4>2, <4>3
      <3> QED BY <3>1, <3>2
    <2> QED BY <2>1, <2>2 DEF FeedOrdered
  <1> QED BY <1>1, <1>3, <1>8, <1>9, <1>10 DEF FeedInv

LEMMA FeedSave ==
  ASSUME FeedInv, NEW r \in Runners, Publications!Save(r)
  PROVE  FeedInv' /\ fetches' = fetches /\ feed'.shown \in feed.shown + 1..fetches
  <1> DEFINE n == run[r].reading.fetch
  <1>1. /\ LiveAt(r, "fetched") /\ To(r, "closing")
        /\ feed' = [feed EXCEPT !.status = "ok", !.shown = n]
    BY SameRuns DEF Publications!Save
  <1>2. /\ run[r].reading \in Publications!Readings /\ n > feed.shown /\ n <= fetches
        /\ feed \in Publications!FeedRow /\ fetches \in Nat
    BY <1>1, RunsAssumption DEF FeedInv, FeedOrdered, RunsOK
  <1>3. n \in 0..MaxFetches /\ n \in Nat /\ feed.shown \in Nat
    BY <1>2, RunsAssumption DEF Publications!Readings, Publications!FeedRow
  <1> HIDE DEF n
  <1>4. feed' \in Publications!FeedRow /\ feed'.shown = n
    <2>1. "ok" \in {"pending", "ok", "error"}
      OBVIOUS
    <2> QED BY <1>1, <1>2, <1>3, <2>1, Zenon DEF Publications!FeedRow
  <1>5. Live(r) /\ Working(r)
    BY <1>1 DEF LiveAt, Live, Working
  <1>6. "closing" \in Steps \ {"fetched"}
    BY DEF Steps
  <1>7. /\ RunsOK(Publications!Readings)' /\ LockHeld' /\ fetches' = fetches
        /\ \A other \in Runners : LiveAt(other, "fetched")' =>
             LiveAt(other, "fetched") /\ run'[other] = run[other]
    BY <1>1, <1>5, <1>6, RunsStep DEF FeedInv
  <1>8. \A other \in Runners : ~LiveAt(other, "fetched")'
    <2>1. \A other \in Runners \ {r} : ~Live(other)
      BY <1>5 DEF FeedInv, LockHeld
    <2>2. run'[r].pc = "closing"
      BY <1>1 DEF To, FeedInv, RunsOK, Run
    <2>3. ~LiveAt(r, "fetched")'
      BY <2>2 DEF LiveAt
    <2> QED BY <1>7, <2>1, <2>3 DEF LiveAt, Live, Working
  <1>9. FeedOrdered'
    BY <1>2, <1>4, <1>7, <1>8 DEF FeedOrdered
  <1>10. feed'.shown \in feed.shown + 1..fetches
    BY <1>2, <1>3, <1>4
  <1> QED BY <1>4, <1>7, <1>9, <1>10 DEF FeedInv

(* Each step of the feed keeps the invariant, and reads, shows or does nothing  *)
(* that a visitor can tell.                                                     *)
LEMMA FeedStep ==
  ASSUME FeedInv, Publications!Next
  PROVE  /\ FeedInv'
         /\ \/ UNCHANGED <<fetches, feed.shown>>
            \/ Publications!Feed!Read \/ Publications!Feed!Show
  <1> DEFINE Quiet == FeedInv' /\ UNCHANGED <<fetches, feed.shown>>
  <1>1. feed \in Publications!FeedRow
    BY DEF FeedInv
  <1>2. CASE Publications!Hour
    <2>1. feed' = [feed EXCEPT !.due = TRUE] /\ UNCHANGED runVars
      BY <1>2 DEF Publications!Hour, Publications!runVars, runVars
    <2>2. feed' \in Publications!FeedRow /\ feed'.shown = feed.shown
      BY <1>1, <2>1 DEF Publications!FeedRow
    <2>3. FeedInv'
      BY <2>1, <2>2 DEF FeedInv, FeedOrdered, LockHeld, RunsOK, Live, LiveAt, Working, runVars
    <2> QED BY <2>1, <2>2, <2>3 DEF runVars
  <1>3. CASE Publications!Reap /\ UNCHANGED feed
    <2>1. /\ orphaned /\ lock' = None /\ orphaned' = FALSE
          /\ UNCHANGED <<run, fetches, interruptions, feed>>
      BY <1>3 DEF Publications!Reap
    <2>2. FeedInv'
      BY <2>1 DEF FeedInv, FeedOrdered, LockHeld, RunsOK, Live, LiveAt, Working
    <2> QED BY <2>1, <2>2
  <1>4. ASSUME NEW r \in Runners,
               \/ Publications!Crash(r) \/ Publications!Disconnect(r)
               \/ Publications!Restart(r) \/ Publications!TryLock(r)
               \/ Publications!Release(r),
               UNCHANGED feed
        PROVE  Quiet
    BY <1>1, <1>4, SameRuns, FeedQuiet
  <1>5. ASSUME NEW r \in Runners,
               \/ Publications!Claim(r) \/ Publications!NotDue(r) \/ Publications!RecordFailure(r)
               \/ /\ \/ Publications!FetchFails(r) \/ Publications!SaveFails(r)
                     \/ Publications!Abandon(r)
                  /\ UNCHANGED feed
        PROVE  Quiet
    <2>1. Working(r) /\ \E pc \in Steps \ {"fetched"} : To(r, pc)
      BY <1>5, SameRuns
         DEF Publications!Claim, Publications!NotDue, Publications!RecordFailure,
             FetchFails, SaveFails, Abandon, LiveAt, Working, Steps
    <2>2. feed' \in Publications!FeedRow /\ feed'.shown = feed.shown
      BY <1>1, <1>5 DEF Publications!Claim, Publications!NotDue, Publications!RecordFailure,
                        Publications!FeedRow
    <2> QED BY <2>1, <2>2, FeedQuiet
  <1>6. ASSUME NEW r \in Runners, Publications!Fetch(r)
        PROVE  FeedInv' /\ Publications!Feed!Read
    BY <1>6, FeedFetch DEF Publications!Feed!Read
  <1>7. ASSUME NEW r \in Runners, Publications!Save(r)
        PROVE  FeedInv' /\ Publications!Feed!Show
    BY <1>7, FeedSave DEF Publications!Feed!Show
  <1> QED
    BY <1>2, <1>3, <1>4, <1>5, <1>6, <1>7 DEF Publications!Next, Publications!Work

(* The titles of the publisher's feed are kept when a check fails and never     *)
(* replaced by older ones, whichever replica checks and wherever it is          *)
(* interrupted (publications.ts:94).                                            *)
THEOREM TitlesAdvance == BothSpec => PublicationsAdvance
  <1> DEFINE TheirInv == reader = "publications" => FeedInv
  <1>1. BothInit => TheirInv /\ Publications!Feed!Init
    BY FeedInit DEF BothInit, Publications!Init, Publications!RunsInit, Publications!Feed!Init
  <1>2. TheirInv /\ [BothNext]_both =>
          TheirInv' /\ [Publications!Feed!Next]_<<fetches, feed.shown>>
    <2> SUFFICES ASSUME TheirInv, [BothNext]_both
                 PROVE  TheirInv' /\ [Publications!Feed!Next]_<<fetches, feed.shown>>
      OBVIOUS
    <2>1. CASE reader = "publications" /\ Publications!Next /\ UNCHANGED <<tables, reader>>
      BY <2>1, FeedStep DEF Publications!Feed!Next
    <2>2. CASE reader = "calendar" /\ Next /\ UNCHANGED <<feed, reader>>
      <3>1. \/ fetches' = fetches
            \/ fetches < MaxFetches /\ fetches' = fetches + 1
        BY <2>2 DEF Next, Work, Hour, NextDay, Reap, Crash, Disconnect, Interrupt, Restart,
           TryLock, Claim, NotDue, Fetch, FetchAs, Save, RecordFailure, FetchFails, SaveFails,
           Abandon, Release, To, runVars
      <3> QED BY <2>2, <3>1 DEF Publications!Feed!Next, Publications!Feed!Read
    <2>3. CASE UNCHANGED both
      <3>1. UNCHANGED <<lock, orphaned, run, fetches, interruptions, feed, reader>>
        BY <2>3 DEF both, vars, runVars
      <3> QED BY <3>1 DEF FeedInv, FeedOrdered, LockHeld, RunsOK, Live, LiveAt, Working
    <2> QED BY <2>1, <2>2, <2>3 DEF BothNext
  <1> QED
    BY <1>1, <1>2, PTL DEF BothSpec, PublicationsAdvance, Publications!ImplementsPolledFeed,
                           Publications!Feed!Spec
==============================================================================
