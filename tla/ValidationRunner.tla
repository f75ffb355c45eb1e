--------------------------- MODULE ValidationRunner --------------------------
(***************************************************************************)
(* The loop that claims and runs validation jobs                           *)
(* (scripts/run_validation_worker.py, _JobScheduler and run).  At most     *)
(* Concurrency jobs run at once, each in a task of its own, and the next   *)
(* claim is made when one is free.  A failed claim or job only delays the  *)
(* next claim.  A stop request drains the running jobs for a grace period, *)
(* any other end cancels them; then the worker is closed, which ends what  *)
(* is left of them before the HTTP clients are.  The worker may also be    *)
(* closed while the loop runs.                                             *)
(***************************************************************************)
EXTENDS Naturals, FiniteSets

CONSTANTS Inspections,       \* the jobs that are offered
          JobSlots    \* --concurrency

ASSUME RunnerAssumption == IsFiniteSet(Inspections) /\ JobSlots \in Nat \ {0}

VARIABLES
  cycle,     \* where the loop is
  jobs,      \* [Inspections -> state of its task]
  started,    \* _JobScheduler.active: the tasks it knows
  ending,     \* _JobScheduler.closed
  stopping,  \* the stop event
  worker     \* the close task of the worker: "open", "closing" or "closed"
runner == <<cycle, jobs, started, ending, stopping, worker>>

RunnerInit ==
  /\ cycle = "unstarted"
  /\ jobs = [j \in Inspections |-> "offered"]
  /\ started = {} /\ ending = FALSE /\ stopping = FALSE /\ worker = "open"

JobsIn(states) == {j \in Inspections : jobs[j] \in states}
Done == started \intersect JobsIn({"ok", "failed", "cancelled", "fatal"})
StopRequested == ending \/ worker # "open" \/ stopping

\* Their tasks are cancelled; one that has not begun never begins.
CancelAll(js) ==
  jobs' = [j \in Inspections |-> CASE j \in js /\ jobs[j] = "running" -> "unwinding"
                            [] j \in js /\ jobs[j] = "created" -> "cancelled"
                            [] OTHER -> jobs[j]]

-----------------------------------------------------------------------------
\* Claiming

\* The signal handlers are installed and the loop begins.
StartRunner ==
  /\ cycle = "unstarted" /\ cycle' = "top"
  /\ UNCHANGED <<jobs, started, ending, stopping, worker>>

Top ==
  /\ cycle = "top"
  /\ cycle' = IF StopRequested THEN "draining" ELSE "claiming"
  /\ UNCHANGED <<jobs, started, ending, stopping, worker>>

\* The claim is answered, also while the loop is asked to stop: its job starts.
ClaimGranted(j) ==
  /\ cycle = "claiming" /\ jobs[j] = "offered"
  /\ jobs' = [jobs EXCEPT ![j] = "created"] /\ started' = started \union {j}
  /\ cycle' = "slot"
  /\ UNCHANGED <<ending, stopping, worker>>

ClaimEmpty ==
  /\ cycle = "claiming" /\ cycle' = "slot"
  /\ UNCHANGED <<jobs, started, ending, stopping, worker>>

ClaimFails ==
  /\ cycle = "claiming"
  /\ ending' = (worker # "open")
  /\ cycle' = IF ending' THEN "draining" ELSE "slot"
  /\ UNCHANGED <<jobs, started, stopping, worker>>

\* _reap: the outcomes of the tasks that have ended.  One that was cancelled, or
\* raised more than an Exception, ends the loop.
Reaped(then) ==
  IF Done \intersect JobsIn({"cancelled", "fatal"}) # {}
  THEN cycle' = "gathering" /\ started' = {} /\ CancelAll(started) /\ UNCHANGED ending
  ELSE /\ started' = started \ Done
       /\ ending' = (ending \/ (worker # "open" /\ Done \intersect JobsIn({"failed"}) # {}))
       /\ cycle' = then
       /\ UNCHANGED jobs

\* Mutant: one more job than there are slots.
FullButOne(js) == Cardinality(js) > JobSlots

Full(js) == Cardinality(js) >= JobSlots

\* _wait_for_free_slot, woken by the end of a job or by the stop event.
AwaitSlot ==
  /\ cycle = "slot"
  /\ Done # {} \/ ~Full(started) \/ ending \/ stopping
  /\ Reaped(IF Full(started \ Done) /\ ~ending' /\ ~stopping THEN "slot"
            ELSE IF ending' THEN "draining" ELSE "pausing")
  /\ UNCHANGED <<stopping, worker>>

\* _sleep: the jobs that end meanwhile are observed.
PauseReaps ==
  /\ cycle = "pausing" /\ Done # {}
  /\ Reaped("pausing")
  /\ UNCHANGED <<stopping, worker>>

PauseEnds ==
  /\ cycle = "pausing" /\ cycle' = "top"
  /\ UNCHANGED <<jobs, started, ending, stopping, worker>>

-----------------------------------------------------------------------------
\* Ending

DrainReaps ==
  /\ cycle = "draining" /\ Done # {}
  /\ Reaped("draining")
  /\ UNCHANGED <<stopping, worker>>

\* aclose cancels the operations that are left.
Drained ==
  /\ cycle = "draining" /\ started = {}
  /\ cycle' = "closing" /\ worker' = IF worker = "open" THEN "closing" ELSE worker
  /\ UNCHANGED <<jobs, started, ending, stopping>>

\* Mutant: the jobs that exceed the grace are waited for.
GraceIgnored ==
  /\ cycle = "draining" /\ started # {}
  /\ UNCHANGED runner

GraceExpired ==
  /\ cycle = "draining" /\ started # {}
  /\ cycle' = "gathering" /\ started' = {} /\ CancelAll(started)
  /\ UNCHANGED <<ending, stopping, worker>>

\* The task of the loop is cancelled, or the claim it awaits is by the closing
\* worker; a claim that Spring has granted is left to its lease.
LoopCancelled ==
  /\ cycle \in {"claiming", "slot", "pausing", "draining"}
  /\ cycle' = "gathering" /\ started' = {} /\ CancelAll(started)
  /\ UNCHANGED <<ending, stopping, worker>>

\* _cancel_active has awaited the tasks, or is cancelled at that itself.
Gathered ==
  /\ cycle = "gathering" /\ JobsIn({"unwinding"}) = {}
  /\ cycle' = "closing" /\ worker' = IF worker = "open" THEN "closing" ELSE worker
  /\ UNCHANGED <<jobs, started, ending, stopping>>

GatherCancelled ==
  /\ cycle = "gathering" /\ JobsIn({"unwinding"}) # {}
  /\ cycle' = "closing" /\ worker' = IF worker = "open" THEN "closing" ELSE worker
  /\ UNCHANGED <<jobs, started, ending, stopping>>

\* Mutant: the close does not wait for the operations.
CloseUnawaited ==
  /\ worker = "closing"
  /\ worker' = "closed"
  /\ UNCHANGED <<cycle, jobs, started, ending, stopping>>

\* _close has awaited the operations, the claim among them, and closes the client.
WorkerClosed ==
  /\ worker = "closing" /\ cycle # "claiming" /\ JobsIn({"running", "unwinding"}) = {}
  /\ worker' = "closed"
  /\ UNCHANGED <<cycle, jobs, started, ending, stopping>>

\* run closes the clients of the providers and disposes the engines.
RunnerEnded ==
  /\ cycle = "closing" /\ worker = "closed"
  /\ cycle' = "ended"
  /\ UNCHANGED <<jobs, started, ending, stopping, worker>>

-----------------------------------------------------------------------------
\* The jobs and the environment

\* A worker that is closing begins no operation.
JobBegins(j) ==
  /\ jobs[j] = "created"
  /\ jobs' = [jobs EXCEPT ![j] = IF worker = "open" THEN "running" ELSE "failed"]
  /\ UNCHANGED <<cycle, started, ending, stopping, worker>>

JobEnds(j, how) ==
  /\ jobs[j] = "running"
  /\ jobs' = [jobs EXCEPT ![j] = how]
  /\ UNCHANGED <<cycle, started, ending, stopping, worker>>

\* A cancelled job ends as cancelled, unless it was ending anyway.
JobUnwinds(j, how) ==
  /\ jobs[j] = "unwinding"
  /\ jobs' = [jobs EXCEPT ![j] = how]
  /\ UNCHANGED <<cycle, started, ending, stopping, worker>>

StopRunner ==
  /\ cycle \notin {"unstarted", "ended"} /\ ~stopping /\ stopping' = TRUE
  /\ UNCHANGED <<cycle, jobs, started, ending, worker>>

\* Someone else closes the worker, or a job does from inside.
CloseWorker ==
  /\ cycle # "unstarted" /\ worker = "open" /\ worker' = "closing"
  /\ CancelAll(JobsIn({"running"}))
  /\ UNCHANGED <<cycle, started, ending, stopping>>

Endings == {"ok", "failed", "fatal"}
LoopGoesOn ==
  \/ Top \/ AwaitSlot \/ PauseReaps \/ PauseEnds \/ DrainReaps \/ Drained
  \/ Gathered \/ RunnerEnded
ClaimAnswered == ClaimEmpty \/ ClaimFails \/ \E j \in Inspections : ClaimGranted(j)
JobGoesOn(j) == JobBegins(j) \/ \E how \in {"ok", "failed", "cancelled"} : JobUnwinds(j, how)

RunnerNext ==
  \/ StartRunner \/ LoopGoesOn \/ ClaimAnswered \/ GraceExpired \/ LoopCancelled \/ GatherCancelled
  \/ WorkerClosed \/ StopRunner \/ CloseWorker
  \/ \E j \in Inspections : JobGoesOn(j) \/ \E how \in Endings : JobEnds(j, how)

\* A request for a claim times out, the sleep and the grace are finite and cancelled
\* jobs unwind; a running job may hang.
RunnerFairness ==
  /\ WF_runner(LoopGoesOn) /\ WF_runner(ClaimAnswered) /\ WF_runner(GraceExpired)
  /\ WF_runner(WorkerClosed) /\ \A j \in Inspections : WF_runner(JobGoesOn(j))

RunnerSpec == RunnerInit /\ [][RunnerNext]_runner /\ RunnerFairness

-----------------------------------------------------------------------------
\* Properties

\* However claims, failures, stop requests, cancellations and the closing of the
\* worker meet: no more jobs run than there are slots; a job the loop has lost sight
\* of is being cancelled; and when the clients are closed no job is left to use them.
RunnerInv ==
  /\ Cardinality(JobsIn({"created", "running", "unwinding"})) <= JobSlots
  /\ JobsIn({"created", "running"}) \subseteq started
  /\ worker = "closed" => JobsIn({"running", "unwinding"}) = {}

\* A runner that is asked to stop ends, although a job it runs may hang.
RunnerEnds == stopping ~> cycle = "ended"
=============================================================================
