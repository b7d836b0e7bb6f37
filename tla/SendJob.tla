------------------------------ MODULE SendJob ------------------------------
(***************************************************************************)
(* What a sender client promises, without connections, credit, timers or   *)
(* jobs: it submits at most `goal' messages, reports at most as many       *)
(* confirmations as it submitted, is complete exactly when the last one is *)
(* confirmed, submits and reports nothing from then on, and can stop.      *)
(***************************************************************************)
EXTENDS Integers

CONSTANT Goals

VARIABLES goal, submitted, confirmed, phase

jobVars == <<goal, submitted, confirmed, phase>>

JobInit ==
    /\ goal \in Goals
    /\ submitted = 0
    /\ confirmed = 0
    /\ phase = "working"

Submit ==
    /\ phase = "working"
    /\ submitted < goal
    /\ submitted' = submitted + 1
    /\ UNCHANGED <<goal, confirmed, phase>>

Confirm ==
    /\ phase = "working"
    /\ confirmed < submitted
    /\ confirmed' = confirmed + 1
    /\ phase' = IF confirmed' = goal THEN "complete" ELSE "working"
    /\ UNCHANGED <<goal, submitted>>

Stop ==
    /\ phase \in {"working", "complete"}
    /\ phase' = "stopped"
    /\ UNCHANGED <<goal, submitted, confirmed>>

JobSpec == JobInit /\ [][Submit \/ Confirm \/ Stop]_jobVars
=============================================================================
