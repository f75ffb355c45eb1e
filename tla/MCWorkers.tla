----------------------------- MODULE MCWorkers ------------------------------
(***************************************************************************)
(* The worker processes for TLC, five parts each alone: the loop of an     *)
(* analysis worker and one of its jobs, the comparison of a job's          *)
(* character facts, the loop that runs validations and the metered         *)
(* requests of one.  They share no state: a behaviour is one of the five,  *)
(* and the others stay where they start.  No symmetry: the run checks      *)
(* liveness.                                                               *)
(***************************************************************************)
EXTENDS AnalysisJob, WorkerScheduler, CharacterComparison, ValidationRunner, ValidationLedger

VARIABLE part  \* the part of this behaviour

parts == <<vars, scheduler, compare, runner, ledger>>

WorkersInit ==
  /\ part \in {"job", "loop", "character", "runner", "validation"}
  /\ Init /\ SchedulerInit /\ CompareInit /\ RunnerInit /\ LedgerInit
  /\ part # "job" => mode = "CONFIRMED_ONLY" /\ review = "MANUAL"

WorkersNext ==
  /\ \/ /\ part = "job" /\ Next
        /\ UNCHANGED <<scheduler, compare, runner, ledger>>
     \/ /\ part = "loop" /\ SchedulerNext
        /\ UNCHANGED <<vars, compare, runner, ledger>>
     \/ /\ part = "character" /\ CompareNext
        /\ UNCHANGED <<vars, scheduler, runner, ledger>>
     \/ /\ part = "runner" /\ RunnerNext
        /\ UNCHANGED <<vars, scheduler, compare, ledger>>
     \/ /\ part = "validation" /\ LedgerNext
        /\ UNCHANGED <<vars, scheduler, compare, runner>>
  /\ UNCHANGED part

\* The fairness of the job, asked only of behaviours in which it takes part.
JobFairness ==
  /\ \A t \in Tokens : /\ WF_vars(part = "job" /\ Claim(t))
                       /\ WF_vars(part = "job" /\ Step(t))
                       /\ WF_vars(part = "job" /\ ThreadStep(t))
  /\ WF_vars(part = "job" /\ AbandonedLeaseExpires)

WorkersSpec ==
  /\ WorkersInit
  /\ [][WorkersNext]_<<part, parts>>
  /\ JobFairness /\ SchedulerFairness /\ CompareFairness /\ RunnerFairness /\ LedgerFairness

\* A free slot is put to use, a stop request ends either loop however long its jobs
\* run, a job ends or is free to be taken over, a comparison ends however often it is
\* cut, sent back or retried, and a validation that is shut down closes whatever its
\* requests do.
WorkersProgress ==
  /\ FreeSlotClaims /\ StopCloses
  /\ part = "job" => JobSettles
  /\ ComparisonEnds
  /\ RunnerEnds /\ ShutdownEnds

-----------------------------------------------------------------------------
\* Two batches: two statuses and two facts, then a fact that is timed and another.
Fact(k, s, t) == [key |-> k, status |-> s, timed |-> t]
MCBatches == << <<Fact("a", TRUE, FALSE), Fact("b", TRUE, FALSE),
                  Fact("a", FALSE, FALSE), Fact("b", FALSE, TRUE)>>,
                <<Fact("a", FALSE, TRUE), Fact("c", FALSE, FALSE)>> >>
=============================================================================
