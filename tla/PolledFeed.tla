------------------------------ MODULE PolledFeed ------------------------------
(* What the two pollers of the server promise their readers: what is shown was *)
(* read from the source once, and is never replaced by something that had been *)
(* read before it.  Readings are numbered in the order in which they are made; *)
(* 0 stands for "nothing yet".                                                 *)
EXTENDS Naturals

CONSTANT MaxReadings

VARIABLES readings, \* how many readings of the source have been made
          shown     \* the reading that visitors see

TypeOK == readings \in 0..MaxReadings /\ shown \in 0..MaxReadings

Init == readings = 0 /\ shown = 0

Read == readings < MaxReadings /\ readings' = readings + 1 /\ UNCHANGED shown

Show == shown' \in shown + 1..readings /\ UNCHANGED readings

Next == Read \/ Show

Spec == Init /\ [][Next]_<<readings, shown>>
================================================================================
