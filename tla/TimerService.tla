---------------------------- MODULE TimerService ----------------------------
(***************************************************************************)
(* What a timer executor promises for the tasks it can hold: each is run   *)
(* in the tick it was handed over for, those of one tick in the order in   *)
(* which they were handed over, and no tick ends before its tasks are run. *)
(* While it serves, it drops none of them.                                 *)
(* Wheels, slots and carries are not visible here.                         *)
(***************************************************************************)
EXTENDS Naturals, Sequences

CONSTANT Tasks

VARIABLES tick,    \* the current tick
          agenda,  \* tick -> the tasks to run in it, where there are any
          done,    \* the tasks that were run
          serving  \* whether there is somebody to run them

vars == <<tick, agenda, done, serving>>

Init == tick = 0 /\ agenda = <<>> /\ done = {} /\ serving = FALSE

Open ==
  /\ ~serving
  /\ serving' = TRUE
  /\ UNCHANGED <<tick, agenda, done>>

Close ==
  /\ serving
  /\ serving' = FALSE
  /\ UNCHANGED <<tick, agenda, done>>

Due(n) == IF n \in DOMAIN agenda THEN agenda[n] ELSE <<>>

Schedule(k, n) ==
  /\ n >= tick
  /\ agenda' = [m \in DOMAIN agenda \cup {n} |->
                  IF m = n THEN Append(Due(n), k) ELSE agenda[m]]
  /\ UNCHANGED <<tick, done, serving>>

Run ==
  /\ serving
  /\ tick \in DOMAIN agenda
  /\ done' = done \cup {Head(agenda[tick])}
  /\ agenda' =
       [m \in IF Len(agenda[tick]) = 1 THEN DOMAIN agenda \ {tick}
              ELSE DOMAIN agenda |->
          IF m = tick THEN Tail(agenda[tick]) ELSE agenda[m]]
  /\ UNCHANGED <<tick, serving>>

Advance ==
  /\ serving
  /\ tick \notin DOMAIN agenda
  /\ tick' = tick + 1
  /\ UNCHANGED <<agenda, done, serving>>

(* After the end of the service; what was not run is dropped.              *)
Clear ==
  /\ ~serving
  /\ agenda' = <<>>
  /\ UNCHANGED <<tick, done, serving>>

(* What is scheduled is on the agenda afterwards, so n need not be sought  *)
(* elsewhere.                                                              *)
Next ==
  \/ \E k \in Tasks, n \in DOMAIN agenda' : Schedule(k, n)
  \/ Open \/ Close \/ Run \/ Advance \/ Clear

Spec == Init /\ [][Next]_vars
=============================================================================
