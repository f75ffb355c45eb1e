----------------------------- MODULE AnalysisJob -----------------------------
(***************************************************************************)
(* app/worker/analysis_job_worker.py: one setting-extraction job of one    *)
(* episode, worked on by a series of executions.  Each claim gives an      *)
(* execution a lease token and the checkpoint to resume from; the          *)
(* execution renews the lease with a heartbeat, writes chunks and          *)
(* candidates to the shared database from a thread that cannot be          *)
(* cancelled, and reports each checkpoint to Spring over HTTP.  A lease    *)
(* that lapses lets the next execution in while the old one, or a thread   *)
(* it left behind, may still be at work.                                   *)
(*                                                                         *)
(* Spring's job row is external and modelled from the calls the code makes *)
(* and the documents it is written against.                                *)
(***************************************************************************)
EXTENDS Naturals, FiniteSets

CONSTANTS
    MaxClaims,      \* how often Spring hands the job out
    MaxSource,      \* versions of the episode's text that may appear
    Modes,          \* analysis modes to check, of the two below
    Reviews         \* review modes to check: "AUTOMATIC", "MANUAL"

ASSUME JobAssumption ==
    /\ MaxClaims \in Nat \ {0}
    /\ MaxSource \in Nat \ {0}
    /\ Modes \subseteq {"CONFIRMED_ONLY", "ORDERED_PROVISIONAL"}
    /\ Reviews \subseteq {"AUTOMATIC", "MANUAL"}

Tokens == 1..MaxClaims      \* one lease token per claim, in claim order

VARIABLES
    mode, review,   \* of the claim payload: fixed when the job is created
    job,            \* Spring's row of the job
    source,         \* version of the episode's text
    exec,           \* the execution under each lease token
    thread,         \* the blocking-I/O thread of each execution
    chunks,         \* rows of episode_chunks for this episode
    candidates      \* rows of setting_candidates for this job

vars == <<mode, review, job, source, exec, thread, chunks, candidates>>

Ordered == mode = "ORDERED_PROVISIONAL"

\* The checkpoints as AnalysisJobCheckpointStage orders them.
Rank == [NONE |-> 0, CHUNKS_READY |-> 1, CHARACTER_CANDIDATES_SAVED |-> 2,
         CHARACTER_COMPARISONS_HANDED_OFF |-> 3, CHARACTER_COMPARISONS_FINISHED |-> 4,
         WORLD_CANDIDATES_PUBLISHED |-> 5, WORLD_COMPARISONS_FINISHED |-> 6]
Checkpoints == DOMAIN Rank

\* Mutant: publishing reports a checkpoint that does not exist.
CheckpointRenamed == [chunksReady   |-> "CHUNKS_READY",
                      saved         |-> "CHARACTER_CANDIDATES_SAVED",
                      handedOff     |-> "CHARACTER_COMPARISONS_HANDED_OFF",
                      compared      |-> "CHARACTER_COMPARISONS_FINISHED",
                      publish       |-> "WORLD_CANDIDATES",
                      worldCompared |-> "WORLD_COMPARISONS_FINISHED"]

\* Where an execution is about to report which checkpoint, and what follows.
CheckpointAt == [chunksReady   |-> "CHUNKS_READY",
                 saved         |-> "CHARACTER_CANDIDATES_SAVED",
                 handedOff     |-> "CHARACTER_COMPARISONS_HANDED_OFF",
                 compared      |-> "CHARACTER_COMPARISONS_FINISHED",
                 publish       |-> "WORLD_CANDIDATES_PUBLISHED",
                 worldCompared |-> "WORLD_COMPARISONS_FINISHED"]
\* Mutant: the comparison of the characters is passed over.
FollowingWithoutCompare ==
  [chunksReady |-> "character", saved |-> "world", handedOff |-> "world",
   compared |-> "world", publish |-> "worldCompare", worldCompared |-> "persist"]
Following == [chunksReady |-> "character", saved |-> "compare", handedOff |-> "world",
              compared |-> "world", publish |-> "worldCompare", worldCompared |-> "persist"]

Stages == {"chunks", "character", "compare", "world", "worldCompare"}
Waits == {"chunksWait", "saving"}       \* awaiting the thread
AtWork == {"start", "persist", "complete", "failing"}
            \union Stages \union Waits \union DOMAIN CheckpointAt

ChunkRows == [version : 1..MaxSource, by : Tokens]
CandidateRows == [by : Tokens, from : SUBSET ChunkRows]
Comparison == {"none", "pending", "settled", "failed"}

Positions == AtWork \union {"idle", "ended"}

JobRows == [status : {"PENDING", "RUNNING", "SUCCEEDED", "FAILED"},
            lease : {0} \union Tokens, live : BOOLEAN, checkpoint : Checkpoints,
            characters : Comparison, worlds : Comparison, failedBy : {0} \union Tokens]
Executions == [pc : Positions, resume : Checkpoints, source : 1..MaxSource,
               mine : SUBSET ChunkRows, heart : {"off", "on", "failed"}, stopped : BOOLEAN]
Transactions == [does : {"nothing", "chunks", "candidates"}, began : BOOLEAN,
                 seen : (SUBSET ChunkRows) \union (SUBSET CandidateRows)]

TypeOK ==
    /\ mode \in {"CONFIRMED_ONLY", "ORDERED_PROVISIONAL"}
    /\ review \in {"AUTOMATIC", "MANUAL"}
    /\ job \in JobRows
    /\ source \in 1..MaxSource
    /\ exec \in [Tokens -> Executions]
    /\ thread \in [Tokens -> Transactions]
    /\ chunks \subseteq ChunkRows
    /\ candidates \subseteq CandidateRows

NoThread == [does |-> "nothing", began |-> FALSE, seen |-> {}]

Init == /\ mode \in Modes
        /\ review \in Reviews
        /\ job = [status |-> "PENDING", lease |-> 0, live |-> FALSE, checkpoint |-> "NONE",
                  characters |-> "none", worlds |-> "none", failedBy |-> 0]
        /\ source = 1
        /\ exec = [t \in Tokens |->
                     [pc |-> "idle", resume |-> "NONE", source |-> 1, mine |-> {},
                      heart |-> "off", stopped |-> FALSE]]
        /\ thread = [t \in Tokens |-> NoThread]
        /\ chunks = {}
        /\ candidates = {}

At(t, p) == exec[t].pc = p
Reached(t, c) == Rank[exec[t].resume] >= Rank[c]
Go(t, p) == exec' = [exec EXCEPT ![t].pc = p]
\* Every exception leaves the heartbeat and is then reported to Spring.
Raise(t) == exec' = [exec EXCEPT ![t].pc = "failing", ![t].heart = "off"]

-----------------------------------------------------------------------------
\* Spring.  A call is applied only under the current lease token.
Accepted(t) == job.status = "RUNNING" /\ job.lease = t

\* The change of the job row that the call under way at t asks for.
Effect(t) ==
    LET at == exec[t].pc IN
    IF at \in DOMAIN CheckpointAt
    THEN [job EXCEPT !.checkpoint = CheckpointAt[at],
                     !.characters = IF at = "saved" THEN "pending" ELSE @,
                     !.worlds = IF at = "publish" THEN "pending" ELSE @]
    ELSE IF at = "complete" THEN [job EXCEPT !.status = "SUCCEEDED"]
    ELSE IF at = "failing" THEN [job EXCEPT !.status = "FAILED"]
    ELSE job

\* A call is applied and answered, applied with its answer lost, or refused.
Call(t, next) ==
    \/ Accepted(t) /\ job' = Effect(t) /\ exec' = next
    \/ Accepted(t) /\ job' = Effect(t) /\ Raise(t)
    \/ UNCHANGED job /\ Raise(t)

\* The job is handed out when it waits or its lease has lapsed.  The claim may
\* be lost to its worker: the response does not arrive, or the scheduler was
\* told to stop while the claim was under way.
Claim(t) ==
    /\ At(t, "idle")
    /\ \A u \in Tokens : u < t => ~At(u, "idle")
    /\ job.status = "PENDING" \/ (job.status = "RUNNING" /\ ~job.live)
    /\ job' = [job EXCEPT !.status = "RUNNING", !.lease = t, !.live = TRUE]
    /\ \E p \in {"start", "ended"} :
         exec' = [exec EXCEPT ![t].pc = p, ![t].resume = job.checkpoint,
                              ![t].source = IF Ordered THEN 1 ELSE source]
    /\ UNCHANGED <<mode, review, source, thread, chunks, candidates>>

LeaseExpires == /\ job.live
                /\ job' = [job EXCEPT !.live = FALSE]
                /\ UNCHANGED <<mode, review, source, exec, thread, chunks, candidates>>

\* An author replaces the episode's text.
EditSource == /\ source < MaxSource
              /\ source' = source + 1
              /\ UNCHANGED <<mode, review, job, exec, thread, chunks, candidates>>

-----------------------------------------------------------------------------
\* process_claimed and the stages of _run_analysis_steps.

ReportStart(t) ==
    /\ At(t, "start")
    /\ Call(t, [exec EXCEPT ![t].pc = "chunks", ![t].heart = "on"])
    /\ UNCHANGED <<mode, review, source, thread, chunks, candidates>>

ReportCheckpoint(t) ==
    /\ exec[t].pc \in DOMAIN CheckpointAt
    /\ Call(t, [exec EXCEPT ![t].pc = Following[@]])
    /\ UNCHANGED <<mode, review, source, thread, chunks, candidates>>

\* An unsupported contract, an S3, LLM or embedding error, a refused display
\* update: whatever a stage raises before its own report.
StageFails(t) ==
    /\ exec[t].pc \in {"start"} \union Stages
    /\ Raise(t)
    /\ UNCHANGED <<mode, review, job, source, thread, chunks, candidates>>

\* The comparison endpoints refuse a lease that is no longer the job's.
Refused(t) ==
    /\ exec[t].pc \in {"compare", "worldCompare"}
    /\ ~Accepted(t)
    /\ Raise(t)
    /\ UNCHANGED <<mode, review, job, source, thread, chunks, candidates>>

\* A resumed execution reads the chunks a former one stored, and fails on none.
ReadChunks(t) ==
    /\ At(t, "chunks")
    /\ Reached(t, "CHUNKS_READY")
    /\ IF chunks = {} THEN Raise(t)
       ELSE exec' = [exec EXCEPT ![t].pc = "character", ![t].mine = chunks]
    /\ UNCHANGED <<mode, review, job, source, thread, chunks, candidates>>

Submit(t, task, wait) ==
    /\ Go(t, wait)
    /\ thread' = [thread EXCEPT ![t] = [does |-> task, began |-> FALSE, seen |-> {}]]

ReplaceChunks(t) ==
    /\ At(t, "chunks")
    /\ ~Reached(t, "CHUNKS_READY")
    /\ Submit(t, "chunks", "chunksWait")
    /\ UNCHANGED <<mode, review, job, source, chunks, candidates>>

\* Extraction of characters, world settings and relationships per chunk, then
\* the candidates are handed to the thread in one piece.
ExtractCharacters(t) ==
    /\ At(t, "character")
    /\ ~Reached(t, "CHARACTER_CANDIDATES_SAVED")
    /\ Submit(t, "candidates", "saving")
    /\ UNCHANGED <<mode, review, job, source, chunks, candidates>>

SkipCharacters(t) ==
    /\ At(t, "character")
    /\ Reached(t, "CHARACTER_CANDIDATES_SAVED")
    /\ Go(t, "compare")
    /\ UNCHANGED <<mode, review, job, source, thread, chunks, candidates>>

\* Mutant: every execution reports the hand-over, whatever it resumes from.
HandOffAgain(t) ==
    /\ At(t, "compare")
    /\ ~Ordered
    /\ Go(t, "handedOff")
    /\ UNCHANGED <<mode, review, job, source, thread, chunks, candidates>>

\* Outside the ordered mode other workers compare: the job only says so.
HandOff(t) ==
    /\ At(t, "compare")
    /\ ~Ordered
    /\ Go(t, IF Reached(t, "CHARACTER_COMPARISONS_HANDED_OFF") THEN "world"
                                                               ELSE "handedOff")
    /\ UNCHANGED <<mode, review, job, source, thread, chunks, candidates>>

\* process_all asks for pending candidates only, so that a resumed execution
\* has nothing to compare once they are settled or failed.
Results(state) ==
    IF state = "pending" THEN {"settled", "candidateFailure", "otherFailure"} ELSE {"none"}
Stops(result) ==
    \/ result = "otherFailure"
    \/ result = "candidateFailure" /\ review # "AUTOMATIC"
Settled(state, result) ==
    IF result = "none" THEN state ELSE IF result = "settled" THEN "settled" ELSE "failed"
FailedBy(t, result) == IF Ordered /\ Stops(result) THEN t ELSE job.failedBy

\* Mutant: failed comparisons are counted but stop nothing.
CompareGoingOn(t) ==
    /\ At(t, "compare")
    /\ Ordered
    /\ \E result \in Results(job.characters) :
         /\ Accepted(t)
         /\ job' = [job EXCEPT !.characters = Settled(@, result),
                               !.failedBy = FailedBy(t, result)]
         /\ Go(t, IF Reached(t, "CHARACTER_COMPARISONS_FINISHED") THEN "world"
                                                                  ELSE "compared")
    /\ UNCHANGED <<mode, review, source, thread, chunks, candidates>>

CompareCharacters(t) ==
    /\ At(t, "compare")
    /\ Ordered
    /\ \E result \in Results(job.characters) :
         /\ Accepted(t)
         /\ job' = [job EXCEPT !.characters = Settled(@, result),
                               !.failedBy = FailedBy(t, result)]
         /\ IF Stops(result) THEN Raise(t)
            ELSE Go(t, IF Reached(t, "CHARACTER_COMPARISONS_FINISHED") THEN "world"
                                                                      ELSE "compared")
    /\ UNCHANGED <<mode, review, source, thread, chunks, candidates>>

ExtractWorld(t) ==
    /\ At(t, "world")
    /\ Go(t, IF Reached(t, "WORLD_CANDIDATES_PUBLISHED") THEN "worldCompare" ELSE "publish")
    /\ UNCHANGED <<mode, review, job, source, thread, chunks, candidates>>

SkipWorldComparison(t) ==
    /\ At(t, "worldCompare")
    /\ Reached(t, "WORLD_COMPARISONS_FINISHED")
    /\ ~Ordered
    /\ Go(t, "persist")
    /\ UNCHANGED <<mode, review, job, source, thread, chunks, candidates>>

CompareWorld(t) ==
    /\ At(t, "worldCompare")
    /\ Ordered \/ ~Reached(t, "WORLD_COMPARISONS_FINISHED")
    /\ \E result \in Results(job.worlds) :
         /\ Accepted(t)
         /\ job' = [job EXCEPT !.worlds = Settled(@, result),
                               !.failedBy = FailedBy(t, result)]
         /\ IF Ordered /\ Stops(result) THEN Raise(t)
            ELSE Go(t, IF Reached(t, "WORLD_COMPARISONS_FINISHED") THEN "persist"
                                                                  ELSE "worldCompared")
    /\ UNCHANGED <<mode, review, source, thread, chunks, candidates>>

\* The last progress report is made under the heartbeat, complete after it.
ReportPersisting(t) ==
    /\ At(t, "persist")
    /\ Call(t, [exec EXCEPT ![t].pc = "complete", ![t].heart = "off"])
    /\ UNCHANGED <<mode, review, source, thread, chunks, candidates>>

Complete(t) ==
    /\ At(t, "complete")
    /\ Call(t, [exec EXCEPT ![t].pc = "ended"])
    /\ UNCHANGED <<mode, review, source, thread, chunks, candidates>>

\* A failure of the failure report is only logged.
Fail(t) ==
    /\ At(t, "failing")
    /\ \/ Accepted(t) /\ job' = Effect(t)
       \/ UNCHANGED job
    /\ Go(t, "ended")
    /\ UNCHANGED <<mode, review, source, thread, chunks, candidates>>

-----------------------------------------------------------------------------
\* BlockingIoExecutor: the transactions of the shared database.  A thread
\* whose execution has gone still runs to its end.

Attached(t) == exec[t].pc \in Waits

\* Mutant: only the episode is compared, not the job row.
FenceWithoutJob(t) == source = exec[t].source

\* fence_ordered_candidate_write, evaluated under row locks held to the commit.
Fence(t) ==
    /\ Accepted(t)
    /\ job.live
    /\ Rank[job.checkpoint] <= (IF thread[t].does = "chunks" THEN 0 ELSE 1)
    /\ source = exec[t].source

\* Mutant: nothing is deleted before the new rows are added.
AddedOnly(t, seen, old) ==
    IF thread[t].does = "candidates" THEN old \union {[by |-> t, from |-> exec[t].mine]}
    ELSE IF \E by \in Tokens : seen = {[version |-> exec[t].source, by |-> by]} THEN old
    ELSE old \union {[version |-> exec[t].source, by |-> t]}

\* A replacement keeps rows that hold the same text, else deletes those it has
\* seen and adds its own.
Replaced(t, seen, old) ==
    IF thread[t].does = "candidates"
    THEN (old \ seen) \union {[by |-> t, from |-> exec[t].mine]}
    ELSE IF \E by \in Tokens : seen = {[version |-> exec[t].source, by |-> by]} THEN old
    ELSE (old \ seen) \union {[version |-> exec[t].source, by |-> t]}

Commit(t, seen) ==
    /\ IF thread[t].does = "chunks"
       THEN /\ chunks' = Replaced(t, seen, chunks)
            /\ UNCHANGED candidates
       ELSE /\ candidates' = Replaced(t, seen, candidates)
            /\ UNCHANGED chunks
    /\ thread' = [thread EXCEPT ![t] = NoThread]
    /\ IF ~Attached(t) THEN UNCHANGED exec
       ELSE IF thread[t].does = "candidates" THEN Go(t, "saved")
       ELSE exec' = [exec EXCEPT ![t].pc = "chunksReady", ![t].mine = chunks']
    /\ UNCHANGED <<mode, review, job, source>>

WriteFenced(t) ==
    /\ Ordered
    /\ thread[t].does # "nothing"
    /\ Fence(t)
    /\ Commit(t, IF thread[t].does = "chunks" THEN chunks ELSE candidates)

\* A refusal of the fence, an S3 or a database error undoes the transaction.
RollBack(t) ==
    /\ thread[t].does # "nothing"
    /\ thread' = [thread EXCEPT ![t] = NoThread]
    /\ IF Attached(t) THEN Raise(t) ELSE UNCHANGED exec
    /\ UNCHANGED <<mode, review, job, source, chunks, candidates>>

\* Without the fence the statements of two transactions may interleave: each
\* deletes the committed rows it sees and none that the other is inserting.
BeginUnfenced(t) ==
    /\ ~Ordered
    /\ thread[t].does # "nothing"
    /\ ~thread[t].began
    /\ thread' = [thread EXCEPT ![t].began = TRUE,
                                ![t].seen =
                                  IF thread[t].does = "chunks" THEN chunks ELSE candidates]
    /\ UNCHANGED <<mode, review, job, source, exec, chunks, candidates>>

CommitUnfenced(t) ==
    /\ thread[t].does # "nothing"
    /\ thread[t].began
    /\ Commit(t, thread[t].seen)

-----------------------------------------------------------------------------
\* WorkerLeaseHeartbeat, cancellation and crashes.

RenewLease(t) ==
    /\ exec[t].heart = "on"
    /\ Accepted(t)
    /\ ~job.live
    /\ job' = [job EXCEPT !.live = TRUE]
    /\ UNCHANGED <<mode, review, source, exec, thread, chunks, candidates>>

\* A call that was under way may have been applied.
StopExecution(t, heart) ==
    /\ exec' = [exec EXCEPT ![t].pc = "ended", ![t].heart = heart, ![t].stopped = TRUE]
    /\ job' \in {job} \union (IF Accepted(t) THEN {Effect(t)} ELSE {})

\* Mutant: the heartbeat notes its error and does not cancel its owner.
HeartbeatFailsAlone(t) ==
    /\ exec[t].heart = "on"
    /\ exec' = [exec EXCEPT ![t].heart = "failed", ![t].stopped = TRUE]
    /\ UNCHANGED <<mode, review, job, source, thread, chunks, candidates>>

\* The retries are used up, or Spring no longer knows the lease.
HeartbeatFails(t) ==
    /\ exec[t].heart = "on"
    /\ StopExecution(t, "failed")
    /\ UNCHANGED <<mode, review, source, thread, chunks, candidates>>

\* Mutant: the heartbeat outlives the cancelled execution.
CancelKeepsHeartbeat(t) ==
    /\ exec[t].pc \in AtWork
    /\ StopExecution(t, exec[t].heart)
    /\ UNCHANGED <<mode, review, source, thread, chunks, candidates>>

\* The scheduler cancels the task after the shutdown grace.  CancelledError is
\* not an Exception: nothing is reported, and the thread is left behind.
CancelExecution(t) ==
    /\ exec[t].pc \in AtWork
    /\ StopExecution(t, "off")
    /\ UNCHANGED <<mode, review, source, thread, chunks, candidates>>

\* The process dies: its transaction is rolled back.
Crash(t) ==
    /\ exec[t].pc \in AtWork \/ thread[t].does # "nothing"
    /\ IF exec[t].pc \in AtWork THEN StopExecution(t, "off") ELSE UNCHANGED <<exec, job>>
    /\ thread' = [thread EXCEPT ![t] = NoThread]
    /\ UNCHANGED <<mode, review, source, chunks, candidates>>

-----------------------------------------------------------------------------
Step(t) ==
    \/ ReportStart(t) \/ ReportCheckpoint(t) \/ ReportPersisting(t)
    \/ Complete(t) \/ Fail(t)
    \/ ReadChunks(t) \/ ReplaceChunks(t) \/ ExtractCharacters(t) \/ SkipCharacters(t)
    \/ HandOff(t) \/ CompareCharacters(t) \/ ExtractWorld(t) \/ Refused(t)
    \/ SkipWorldComparison(t) \/ CompareWorld(t)

ThreadStep(t) ==
    WriteFenced(t) \/ RollBack(t) \/ BeginUnfenced(t) \/ CommitUnfenced(t)

Stopped(t) == HeartbeatFails(t) \/ CancelExecution(t) \/ Crash(t)

Next == \/ \E t \in Tokens : \/ Claim(t) \/ Step(t) \/ StageFails(t)
                             \/ ThreadStep(t) \/ RenewLease(t) \/ Stopped(t)
        \/ LeaseExpires
        \/ EditSource

Spec == Init /\ [][Next]_vars

AbandonedLeaseExpires ==
    /\ job.live
    /\ exec[job.lease].heart # "on"
    /\ LeaseExpires

\* Workers keep polling, their event loops and threads keep running, and a
\* lease nobody renews lapses.  Nothing forces an error, a cancellation or a
\* late renewal.
Fairness == /\ \A t \in Tokens : WF_vars(Claim(t)) /\ WF_vars(Step(t)) /\ WF_vars(ThreadStep(t))
            /\ WF_vars(AbandonedLeaseExpires)

FairSpec == Spec /\ Fairness

-----------------------------------------------------------------------------
\* Properties

\* How many checkpoints a job has passed; the two ways to leave the character
\* comparison count as one.
StageNo == [NONE |-> 0, CHUNKS_READY |-> 1, CHARACTER_CANDIDATES_SAVED |-> 2,
            CHARACTER_COMPARISONS_HANDED_OFF |-> 3, CHARACTER_COMPARISONS_FINISHED |-> 3,
            WORLD_CANDIDATES_PUBLISHED |-> 4, WORLD_COMPARISONS_FINISHED |-> 5]

\* How many checkpoints an execution has passed, resumed ones not counted.
Passed(p) ==
    IF p \in {"start", "chunks", "chunksWait", "chunksReady"} THEN 0
    ELSE IF p \in {"character", "saving", "saved"} THEN 1
    ELSE IF p \in {"compare", "handedOff", "compared"} THEN 2
    ELSE IF p \in {"world", "publish"} THEN 3
    ELSE IF p \in {"worldCompare", "worldCompared"} THEN 4 ELSE 5
Larger(a, b) == IF a >= b THEN a ELSE b

\* The execution under the job's lease and the job's row agree: the checkpoint
\* is the one it resumed from or the last it passed, whichever is later, and it
\* never works towards a checkpoint that lies behind the row.  Who awaits a
\* thread awaits the task it submitted.
StageInvOf(t) ==
    /\ exec[t].pc = "chunksWait" => thread[t].does = "chunks"
    /\ exec[t].pc = "saving" => thread[t].does = "candidates"
    /\ Accepted(t) /\ exec[t].pc \in AtWork \ {"failing"} =>
         /\ StageNo[job.checkpoint] = Larger(StageNo[exec[t].resume], Passed(exec[t].pc))
         /\ exec[t].pc \in Waits \union DOMAIN CheckpointAt =>
              StageNo[exec[t].resume] <= Passed(exec[t].pc) + 1
StageInv == \A t \in Tokens : StageInvOf(t)

\* The job implements the stage contract whatever executions do: checkpoints
\* come one at a time and in order, none is skipped when a job is resumed, and
\* it succeeds after the last (app/worker/README.md, "checkpoint").
Contract == INSTANCE JobStages WITH Last <- 5, status <- job.status,
                                    stage <- StageNo[job.checkpoint]
ImplementsStages == Contract!Spec

\* Once an ordered job has reported its candidates as saved, no thread changes
\* them or the chunks they were taken from (ordered_analysis_fence.py).
SavedRowsFrozen ==
    [][Ordered /\ Rank[job.checkpoint] >= 2 => UNCHANGED <<chunks, candidates>>]_vars

\* However often a job is run again, the candidates it ends with are those of
\* one run: they are replaced and not stored twice
\* (setting_candidate_service.py, replace_candidates_for_analysis_job).
NoDuplicateCandidates ==
    job.status = "SUCCEEDED" => \A c, d \in candidates : c.by = d.by

\* The fence of an ordered job keeps that promise even for threads that outlive
\* their execution (ordered_analysis_fence.py).
OrderedKeepsOneRun == Ordered => NoDuplicateCandidates

\* An ordered job passes from one domain to the next with every comparison
\* terminal, and never in the run that recorded a failure it must stop at.
ComparedBeforeNextDomain ==
    Ordered =>
      /\ StageNo[job.checkpoint] >= 3 => job.characters \in {"settled", "failed"}
      /\ StageNo[job.checkpoint] >= 5 => job.worlds \in {"settled", "failed"}
      /\ job.failedBy # 0 => exec[job.failedBy].pc \in {"failing", "ended"}

\* The job is never ended by an execution that was cancelled, that crashed or
\* that lost its heartbeat before: such a job is left to its lease.
StoppedWorkerStaysSilent ==
    [][job.status = "RUNNING" /\ job'.status # "RUNNING" => ~exec[job.lease].stopped]_vars

\* A job ends, or its claims are used up and no lease is held on it: no dead or
\* cancelled execution keeps a job from being taken over.
JobSettles == <>(\/ job.status \in {"SUCCEEDED", "FAILED"}
                 \/ ~job.live /\ \A t \in Tokens : At(t, "ended"))
=============================================================================
