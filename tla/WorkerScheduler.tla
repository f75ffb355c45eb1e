--------------------------- MODULE WorkerScheduler ---------------------------
(***************************************************************************)
(* scripts/run_analysis_worker.py: the loop of one worker process.  It     *)
(* takes a slot, claims one job from Spring while it listens for a stop    *)
(* signal, and runs the job in a task of its own that gives the slot back. *)
(* After a signal it drains for a grace period and cancels the rest, which *)
(* Spring hands out again when their leases lapse.  The container starts   *)
(* the process anew.                                                       *)
(***************************************************************************)
EXTENDS Naturals, FiniteSets

CONSTANTS
    Jobs,           \* the jobs Spring may hand out
    Concurrency,    \* slots of the process
    MaxIterations,  \* --max-iterations; 0 when it is not given
    MaxStarts,      \* how often the process is started
    None            \* no job

ASSUME SchedulerAssumption ==
    /\ Concurrency \in Nat \ {0}
    /\ MaxIterations \in Nat
    /\ MaxStarts \in Nat \ {0}
    /\ None \notin Jobs
    /\ {"nothing", "sent", "empty", "error"} \cap Jobs = {}

\* active_tasks never holds more than Concurrency tasks: that many names do.
Tasks == 1..Concurrency

VARIABLES
    loop,           \* where run_worker_loop is
    claim,          \* the claim under way: its state, then its answer
    slots,          \* value of the semaphore
    active,         \* active_tasks, finished ones included until they are pruned
    task,           \* state and job of each task
    pause,          \* wait_before_next_poll
    attempts,       \* claim_attempts, counted when they are limited
    stop,           \* the stop event
    starts,         \* processes started so far
    queue           \* Spring's view of each job

scheduler == <<loop, claim, slots, active, task, pause, attempts, stop, starts, queue>>

SchedulerTypeOK ==
    /\ loop \in {"polling", "claiming", "waiting", "draining", "cancelling", "closed"}
    /\ claim \in {"nothing", "sent", "empty", "error"} \union Jobs
    /\ slots \in 0..Concurrency
    /\ active \subseteq Tasks
    /\ task \in [Tasks -> [state : {"none", "created", "running", "done"},
                           job : Jobs \union {None}]]
    /\ pause \in BOOLEAN
    /\ attempts \in 0..MaxIterations
    /\ stop \in BOOLEAN
    /\ starts \in 0..MaxStarts
    /\ queue \in [Jobs -> {"waiting", "leased", "ended"}]

Fresh == /\ loop' = "polling"
         /\ claim' = "nothing"
         /\ slots' = Concurrency
         /\ active' = {}
         /\ task' = [t \in Tasks |-> [state |-> "none", job |-> None]]
         /\ pause' = FALSE
         /\ attempts' = 0
         /\ stop' = FALSE

\* No process has been started.
SchedulerInit ==
    /\ loop = "closed"
    /\ claim = "nothing"
    /\ slots = Concurrency
    /\ active = {}
    /\ task = [t \in Tasks |-> [state |-> "none", job |-> None]]
    /\ pause = FALSE
    /\ attempts = 0
    /\ stop = FALSE
    /\ starts = 0
    /\ queue = [j \in Jobs |-> "waiting"]

Live == {t \in Tasks : task[t].state \in {"created", "running"}}
LimitReached == MaxIterations > 0 /\ attempts >= MaxIterations

-----------------------------------------------------------------------------
\* The loop, from one await to the next.

\* A slot is acquired before the claim; the claim runs in a task of its own.
StartClaim ==
    /\ loop = "polling"
    /\ ~stop /\ ~LimitReached
    /\ Cardinality(active) < Concurrency
    /\ slots > 0
    /\ slots' = slots - 1
    /\ attempts' = IF MaxIterations > 0 THEN attempts + 1 ELSE attempts
    /\ loop' = "claiming"
    /\ claim' = "sent"
    /\ UNCHANGED <<active, task, pause, stop, starts, queue>>

\* Spring, external: a waiting job is leased to the caller, there is none, or
\* the call fails, which may lose the answer to an applied claim.
SpringAnswers ==
    /\ claim = "sent"
    /\ \/ \E j \in Jobs :
            /\ queue[j] = "waiting"
            /\ queue' = [queue EXCEPT ![j] = "leased"]
            /\ claim' \in {j, "error"}
       \/ /\ \A j \in Jobs : queue[j] # "waiting"
          /\ claim' = "empty"
          /\ UNCHANGED queue
       \/ /\ claim' = "error"
          /\ UNCHANGED queue
    /\ UNCHANGED <<loop, slots, active, task, pause, attempts, stop, starts>>

\* Mutant: the payload of a claim is run although a stop was requested.
ClaimIgnoringStop ==
    /\ loop = "claiming"
    /\ claim \in Jobs
    /\ \E t \in Tasks \ active :
         /\ task' = [task EXCEPT ![t] = [state |-> "created", job |-> claim]]
         /\ active' = active \union {t}
    /\ loop' = "polling"
    /\ claim' = "nothing"
    /\ UNCHANGED <<slots, pause, attempts, stop, starts, queue>>

\* No await lies between the check of the stop event and create_task.
RunPayload ==
    /\ loop = "claiming"
    /\ ~stop
    /\ claim \in Jobs
    /\ \E t \in Tasks \ active :
         /\ task' = [task EXCEPT ![t] = [state |-> "created", job |-> claim]]
         /\ active' = active \union {t}
    /\ loop' = "polling"
    /\ claim' = "nothing"
    /\ UNCHANGED <<slots, pause, attempts, stop, starts, queue>>

\* Mutant: a failed claim keeps its slot.
FailedClaimKeepsSlot ==
    /\ loop = "claiming"
    /\ ~stop
    /\ claim \in {"empty", "error"}
    /\ slots' = IF claim = "error" THEN slots ELSE slots + 1
    /\ pause' = TRUE
    /\ loop' = "waiting"
    /\ claim' = "nothing"
    /\ UNCHANGED <<active, task, attempts, stop, starts, queue>>

\* Nothing to run: the slot is given back and the loop sleeps, or ends after the
\* last claim it may make.
GiveBack ==
    /\ loop = "claiming"
    /\ ~stop
    /\ claim \in {"empty", "error"}
    /\ slots' = slots + 1
    /\ pause' = TRUE
    /\ loop' = IF LimitReached THEN "draining" ELSE "waiting"
    /\ claim' = "nothing"
    /\ UNCHANGED <<active, task, attempts, stop, starts, queue>>

\* A stop request wins over the claim: it is cancelled if it is under way, and
\* an answer that is already there is dropped with its lease.
DropClaim ==
    /\ loop = "claiming"
    /\ stop
    /\ slots' = slots + 1
    /\ loop' = "draining"
    /\ claim' = "nothing"
    /\ \/ UNCHANGED queue
       \/ /\ claim = "sent"
          /\ \E j \in Jobs : /\ queue[j] = "waiting"
                             /\ queue' = [queue EXCEPT ![j] = "leased"]
    /\ UNCHANGED <<active, task, pause, attempts, stop, starts>>

AllBusy ==
    /\ loop = "polling"
    /\ ~stop /\ ~LimitReached
    /\ Cardinality(active) >= Concurrency
    /\ loop' = "waiting"
    /\ pause' = FALSE
    /\ UNCHANGED <<claim, slots, active, task, attempts, stop, starts, queue>>

Prune == active' = {t \in active : task[t].state # "done"}

\* Mutant: with tasks at work the loop waits for one of them to finish.
ResumeOnDone ==
    /\ loop = "waiting"
    /\ stop \/ (\E t \in active : task[t].state = "done") \/ (pause /\ active = {})
    /\ Prune
    /\ loop' = "polling"
    /\ pause' = FALSE
    /\ UNCHANGED <<claim, slots, task, attempts, stop, starts, queue>>

\* A task has finished, the idle sleep is over, or a stop was requested.
Resume ==
    /\ loop = "waiting"
    /\ stop \/ (\E t \in active : task[t].state = "done") \/ pause
    /\ Prune
    /\ loop' = "polling"
    /\ pause' = FALSE
    /\ UNCHANGED <<claim, slots, task, attempts, stop, starts, queue>>

Leave ==
    /\ loop = "polling"
    /\ stop \/ LimitReached
    /\ loop' = "draining"
    /\ UNCHANGED <<claim, slots, active, task, pause, attempts, stop, starts, queue>>

\* Mutant: the drain has no timeout.
GraceForIdle ==
    /\ loop = "draining"
    /\ Live = {}
    /\ loop' = "cancelling"
    /\ UNCHANGED <<claim, slots, active, task, pause, attempts, stop, starts, queue>>

\* What is left of the grace runs out, measured from the stop request, or from
\* here if there was none; all pending tasks are cancelled.
GraceExpires ==
    /\ loop = "draining"
    /\ Live # {}
    /\ loop' = "cancelling"
    /\ UNCHANGED <<claim, slots, active, task, pause, attempts, stop, starts, queue>>

\* Mutant: cancelled tasks are not awaited.
CloseAtOnce ==
    /\ \/ loop = "draining" /\ Live = {}
       \/ loop = "cancelling"
    /\ loop' = "closed"
    /\ UNCHANGED <<claim, slots, active, task, pause, attempts, stop, starts, queue>>

\* The worker's clients are closed only now (_async_main).
Close ==
    /\ loop \in {"draining", "cancelling"}
    /\ Live = {}
    /\ loop' = "closed"
    /\ UNCHANGED <<claim, slots, active, task, pause, attempts, stop, starts, queue>>

-----------------------------------------------------------------------------
\* The tasks.

BeginJob(t) ==
    /\ loop # "cancelling"
    /\ task[t].state = "created"
    /\ task' = [task EXCEPT ![t].state = "running"]
    /\ UNCHANGED <<loop, claim, slots, active, pause, attempts, stop, starts, queue>>

\* Mutant: only a successful job gives its slot back.
ReleasedOnSuccess(t) ==
    /\ loop # "cancelling"
    /\ task[t].state = "running"
    /\ task' = [task EXCEPT ![t].state = "done"]
    /\ \/ slots' = slots + 1 /\ queue' = [queue EXCEPT ![task[t].job] = "ended"]
       \/ slots' = slots /\ UNCHANGED queue
    /\ UNCHANGED <<loop, claim, active, pause, attempts, stop, starts>>

\* Mutant: the handler of a failure releases the slot, and the finally again.
ReleasedTwice(t) ==
    /\ loop # "cancelling"
    /\ task[t].state = "running"
    /\ task' = [task EXCEPT ![t].state = "done"]
    /\ \/ slots' = slots + 1 /\ queue' = [queue EXCEPT ![task[t].job] = "ended"]
       \/ slots' = slots + 2 /\ UNCHANGED queue
    /\ UNCHANGED <<loop, claim, active, pause, attempts, stop, starts>>

\* The job succeeds or fails, and the slot is released in either case; when the
\* last report is lost Spring keeps the lease until it lapses.
EndJob(t) ==
    /\ loop # "cancelling"
    /\ task[t].state = "running"
    /\ task' = [task EXCEPT ![t].state = "done"]
    /\ slots' = slots + 1
    /\ \/ queue' = [queue EXCEPT ![task[t].job] = "ended"]
       \/ UNCHANGED queue
    /\ UNCHANGED <<loop, claim, active, pause, attempts, stop, starts>>

\* A cancelled job reports nothing.  A task cancelled before its first step
\* never reaches the finally that releases its slot.
CancelledTaskEnds(t) ==
    /\ loop = "cancelling"
    /\ t \in Live
    /\ slots' = IF task[t].state = "running" THEN slots + 1 ELSE slots
    /\ task' = [task EXCEPT ![t].state = "done"]
    /\ UNCHANGED <<loop, claim, active, pause, attempts, stop, starts, queue>>

-----------------------------------------------------------------------------
\* Around the process.

\* SIGTERM or SIGINT: the handler runs between two steps of the event loop.
RequestStop ==
    /\ loop # "closed"
    /\ ~stop
    /\ stop' = TRUE
    /\ UNCHANGED <<loop, claim, slots, active, task, pause, attempts, starts, queue>>

\* The process is killed.
Kill ==
    /\ loop # "closed"
    /\ loop' = "closed"
    /\ claim' = "nothing"
    /\ task' = [t \in Tasks |-> [state |-> "none", job |-> None]]
    /\ active' = {}
    /\ UNCHANGED <<slots, pause, attempts, stop, starts, queue>>

\* The container starts the process, anew after it has ended.
Restart ==
    /\ loop = "closed"
    /\ starts < MaxStarts
    /\ starts' = starts + 1
    /\ Fresh
    /\ UNCHANGED queue

\* A lease nobody renews lapses; the heartbeats of running jobs renew theirs.
LeaseLapses(j) ==
    /\ queue[j] = "leased"
    /\ claim # j
    /\ \A t \in Live : task[t].job # j
    /\ queue' = [queue EXCEPT ![j] = "waiting"]
    /\ UNCHANGED <<loop, claim, slots, active, task, pause, attempts, stop, starts>>

LoopStep == \/ StartClaim \/ RunPayload \/ GiveBack \/ DropClaim \/ AllBusy
            \/ Resume \/ Leave \/ Close
TaskStep(t) == BeginJob(t) \/ EndJob(t) \/ CancelledTaskEnds(t)

SchedulerNext ==
    \/ LoopStep \/ SpringAnswers \/ GraceExpires
    \/ \E t \in Tasks : TaskStep(t)
    \/ RequestStop \/ Kill \/ Restart
    \/ \E j \in Jobs : LeaseLapses(j)

SchedulerSpec == SchedulerInit /\ [][SchedulerNext]_scheduler

\* The event loop runs, claims are answered or time out, the sleep and the
\* grace end, and a cancelled task ends.  A job may run for ever.
SchedulerFairness ==
    /\ WF_scheduler(LoopStep)
    /\ WF_scheduler(SpringAnswers)
    /\ WF_scheduler(GraceExpires)
    /\ \A t \in Tasks : WF_scheduler(BeginJob(t)) /\ WF_scheduler(CancelledTaskEnds(t))



-----------------------------------------------------------------------------
\* Properties

\* Every slot is free, held by the claim under way or held by one task, so that
\* the process works on at most Concurrency jobs and claims none in advance.
SlotsAccounted ==
    loop \in {"polling", "claiming", "waiting", "draining"} =>
      slots + Cardinality(Live) + (IF loop = "claiming" THEN 1 ELSE 0) = Concurrency

\* The loop never waits for a slot while active_tasks says that one is free: it
\* would not notice a stop request there.
SlotAtHand ==
    loop = "polling" /\ Cardinality(active) < Concurrency => slots > 0

\* After a stop request no job is started, not even one just claimed.
StoppedStartsNothing ==
    [][stop /\ stop' => Live' \subseteq Live]_scheduler

\* The worker's HTTP clients and its executor are closed with no job at work.
ClosedIsQuiet == loop = "closed" => Live = {}

\* The state of the loop, in named parts: types, slots that are neither lost nor
\* doubled, a slot at hand wherever the loop would wait for one, and clients
\* that are closed with no job at work (_async_main).
SchedulerInv == SchedulerTypeOK /\ SlotsAccounted /\ SlotAtHand /\ ClosedIsQuiet

\* A free slot is put to use: the loop claims again however long the other jobs
\* run, unless it stops.
FreeSlotClaims ==
    Cardinality(Live) < Concurrency
      ~> loop \in {"claiming", "draining", "cancelling", "closed"}

\* A stop request ends the process although no job ever finishes.
StopCloses == stop ~> loop = "closed"
=============================================================================
