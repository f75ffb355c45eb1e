------------------------------ MODULE JobStages ------------------------------
(***************************************************************************)
(* What the analysis workers promise about one analysis job, whoever works *)
(* on it and however often it is taken over: its stages finish one after   *)
(* the other, none is skipped or undone, it succeeds only after the last   *)
(* one, and it never leaves a terminal status (app/worker/README.md).      *)
(***************************************************************************)
EXTENDS Naturals

CONSTANT Last               \* number of checkpoints of the analysis mode

VARIABLES
    status,                 \* PENDING, RUNNING, SUCCEEDED or FAILED
    stage                   \* how many checkpoints have been reached

Init == /\ status = "PENDING"
        /\ stage = 0

Start == /\ status = "PENDING"
         /\ status' = "RUNNING"
         /\ UNCHANGED stage

Advance == /\ status = "RUNNING"
           /\ stage < Last
           /\ stage' = stage + 1
           /\ UNCHANGED status

Succeed == /\ status = "RUNNING"
           /\ stage = Last
           /\ status' = "SUCCEEDED"
           /\ UNCHANGED stage

Fail == /\ status = "RUNNING"
        /\ status' = "FAILED"
        /\ UNCHANGED stage

Next == Start \/ Advance \/ Succeed \/ Fail

Spec == Init /\ [][Next]_<<status, stage>>
=============================================================================
