------------------------ MODULE CharacterComparison -------------------------
(***************************************************************************)
(* The comparison of a job's character facts with the facts that already   *)
(* stand (app/analysis/character_fact_comparison_pipeline.py and           *)
(* app/worker/character_fact_comparison_worker.py).  The job claims its    *)
(* batches one after the other.  A batch is read with a context token, cut *)
(* into the segments that fit a request, compared segment by segment on    *)
(* the projection of what was decided before, and saved as a whole; a save *)
(* whose token is stale starts the batch again.  An answer that is invalid *)
(* as a whole may still hold decisions that are independent of the invalid *)
(* ones: those are kept and the others asked for one at a time.            *)
(***************************************************************************)
EXTENDS Naturals, Sequences

CONSTANTS Batches,            \* <<batch, ...>>, a batch a sequence of candidates
          MaxContextAttempts  \* max_context_attempts

\* A candidate has the key of the fact it is about.  The decision on a STATUS
\* may rename the key or end other statuses; a timed one may move the narrative
\* time.
Candidate == [key : STRING, status : BOOLEAN, timed : BOOLEAN]

ASSUME BatchesAssumption == Batches \in Seq(Seq(Candidate) \ {<<>>})
ASSUME AttemptsAssumption == MaxContextAttempts \in Nat \ {0}

VARIABLES
  step,     \* where the job is
  handling, \* analysis_context is None, given, given with continue_on_candidate_failure
  batch,    \* the claimed batch
  attempt,  \* the attempt at the batch
  token,    \* the context token that was read is still the character's
  run,      \* execute_character_fact_comparison_batch: its local state
  failure,  \* the exception that is handled
  totals,   \* completed_count and failed_count
  saved,    \* backend: [batch -> what became of it]
  outcome   \* the job for the backend, or for the analysis job that called

compare == <<step, handling, batch, attempt, token, run, failure, totals, saved, outcome>>

Handlings == {"plain", "ordered", "deferring"}

\* The failures that leave a comparison: a candidate's own (provider, answer), a
\* token count, the quota, and every other one (the backend, the lease, a
\* provider account).
Failures == {"candidate", "count", "quota", "other"}

NoRun == [cursor |-> 0, ends |-> {}, len |-> 0, kept |-> <<>>, at |-> 0,
          decided |-> <<>>, failed |-> <<>>, current |-> FALSE]
Unsaved == [st |-> "pending", current |-> FALSE, decided |-> <<>>, failed |-> <<>>]

CompareInit ==
  /\ step = "idle" /\ handling = "plain"
  /\ batch = 0 /\ attempt = 0 /\ token = FALSE
  /\ run = NoRun /\ failure = "none"
  /\ totals = [done |-> 0, failed |-> 0]
  /\ saved = [b \in DOMAIN Batches |-> Unsaved]
  /\ outcome = "running"

-----------------------------------------------------------------------------
\* Projection.  A decision d on candidate d.ref was made on the decisions d.seen
\* of its slot.

\* The slot of a fact is its type and key; the statuses are one slot.
Slot(c) == IF Batches[batch][c].status THEN <<>> ELSE <<Batches[batch][c].key>>
Size == Len(Batches[batch])

Refs(s) == {s[i] : i \in DOMAIN s}
DecidedRefs == {d.ref : d \in Refs(run.decided)}

\* What stands in the slot of a candidate.
Standing(c) == {r \in DecidedRefs : Slot(r) = Slot(c)}

Decided(c, seen) == [ref |-> c, seen |-> seen]

\* The decisions of a segment, each made on those before it in the same answer too.
StandingInAnswer(c) == Standing(c) \union {r \in run.cursor + 1..c - 1 : Slot(r) = Slot(c)}

SegmentDecisions(len) ==
  [i \in 1..len |-> Decided(run.cursor + i, StandingInAnswer(run.cursor + i))]

-----------------------------------------------------------------------------
\* execute_character_fact_comparison_batch

\* segment_ends without the ends that are behind the cursor.  They ascend, and the
\* first of them limits the next segment.
OpenEnds == {e \in run.ends : e > run.cursor}
Limited(len) == \A e \in OpenEnds : run.cursor + len <= e

Comparing == step = "segment" /\ run.cursor < Size

Advance(n, failed) ==
  run' = [run EXCEPT !.cursor = @ + n, !.ends = OpenEnds, !.failed = @ \o failed]

Rest(first) == [i \in 1..Size + 1 - first |-> first + i - 1]

\* Not even one candidate fits the request.  What all requests share may be too
\* large already (_mandatory_context_fits), and then no later one fits either.
TooLarge(shared) ==
  /\ Comparing
  /\ LET affected == IF shared THEN Rest(run.cursor + 1) ELSE <<run.cursor + 1>>
     IN Advance(Len(affected), affected)
  /\ UNCHANGED <<step, handling, batch, attempt, token, failure, totals, saved, outcome>>

\* The decisions of the segment are projected in order.
SegmentDecided(len) ==
  /\ Comparing
  /\ run' = [run EXCEPT !.cursor = @ + len, !.ends = OpenEnds,
                        !.decided = @ \o SegmentDecisions(len)]
  /\ UNCHANGED <<step, handling, batch, attempt, token, failure, totals, saved, outcome>>

\* A truncated answer: a single candidate fails, the halves of more are retried.
Halved(len) ==
  IF len = 1
  THEN Advance(1, <<run.cursor + 1>>)
  ELSE run' = [run EXCEPT !.ends = {run.cursor + len \div 2, run.cursor + len} \union OpenEnds]

SegmentTruncated(len) ==
  /\ Comparing
  /\ Halved(len)
  /\ UNCHANGED <<step, handling, batch, attempt, token, failure, totals, saved, outcome>>

\* Mutant: a status that failed only makes decisions on its own key uncertain.
IndependentOfKeys(len, valid) ==
  [i \in 1..len |->
     /\ i \in valid
     /\ \A j \in 1..i - 1 :
          j \in valid \/ Batches[batch][run.cursor + j].key # Batches[batch][run.cursor + i].key]

\* _independent_ordered_decisions: a row is kept when it is valid and no invalid
\* row before it makes it uncertain.  A row that is not looked at because of its
\* key makes nothing uncertain of its own.
Independent(len, valid) ==
  LET row(i) == Batches[batch][run.cursor + i]
      sameKey(j, i) == row(j).key = row(i).key /\ row(j).status = row(i).status
      tried(j) == ~ \E k \in 1..j - 1 : k \notin valid /\ sameKey(k, j)
  IN [i \in 1..len |->
        /\ i \in valid
        /\ ~ \E j \in 1..i - 1 :
               /\ j \notin valid
               /\ sameKey(j, i) \/ (tried(j) /\ (row(j).status \/ row(j).timed))]

\* An invalid answer: a single candidate fails; of more, what is independent is
\* kept in ordered analysis and the others are asked for one at a time.
SegmentInvalid(len, valid) ==
  /\ Comparing
  /\ IF len = 1
     THEN Advance(1, <<run.cursor + 1>>) /\ UNCHANGED step
     ELSE /\ run' = [run EXCEPT !.len = len, !.at = 1, !.ends = OpenEnds,
                                !.kept = IF handling = "plain" THEN [i \in 1..len |-> FALSE]
                                         ELSE Independent(len, valid)]
          /\ step' = "singles"
  /\ UNCHANGED <<handling, batch, attempt, token, failure, totals, saved, outcome>>

\* Any other failure leaves the batch.
SegmentRaises(kind) ==
  /\ Comparing
  /\ failure' = kind /\ step' = "failBatch"
  /\ UNCHANGED <<handling, batch, attempt, token, run, totals, saved, outcome>>

-----------------------------------------------------------------------------
\* The candidates of an invalid segment, one at a time.

Single == run.cursor + run.at
Singles == step = "singles" /\ run.at <= run.len

NextSingle == [run EXCEPT !.at = @ + 1]

\* A decision that was kept was made on the decisions of its own answer.
Keep ==
  /\ Singles /\ run.kept[run.at]
  /\ run' = [NextSingle EXCEPT !.decided = Append(@, SegmentDecisions(run.len)[run.at])]
  /\ UNCHANGED <<step, handling, batch, attempt, token, failure, totals, saved, outcome>>

Asked == Singles /\ ~run.kept[run.at]

SingleDecided ==
  /\ Asked
  /\ run' = [NextSingle EXCEPT !.decided = Append(@, Decided(Single, Standing(Single)))]
  /\ UNCHANGED <<step, handling, batch, attempt, token, failure, totals, saved, outcome>>

SingleFailed ==
  /\ Asked
  /\ run' = [NextSingle EXCEPT !.failed = Append(@, Single)]
  /\ UNCHANGED <<step, handling, batch, attempt, token, failure, totals, saved, outcome>>

\* Mutant: the failure of what all requests share is one candidate's.
OverflowForgotten ==
  /\ Asked
  /\ run' = [run EXCEPT !.cursor = Size, !.failed = Append(@, Single)]
  /\ step' = "segment"
  /\ UNCHANGED <<handling, batch, attempt, token, failure, totals, saved, outcome>>

\* What all requests share has become too large: the rest of the batch fails.
SingleOverflows ==
  /\ Asked
  /\ run' = [run EXCEPT !.cursor = Size, !.failed = @ \o Rest(Single)]
  /\ step' = "segment"
  /\ UNCHANGED <<handling, batch, attempt, token, failure, totals, saved, outcome>>

\* Only a failure of the candidate is isolated.
SingleRaises(kind) ==
  /\ Asked /\ kind # "candidate"
  /\ failure' = kind /\ step' = "failBatch"
  /\ UNCHANGED <<handling, batch, attempt, token, run, totals, saved, outcome>>

SinglesDone ==
  /\ step = "singles" /\ run.at > run.len
  /\ run' = [run EXCEPT !.cursor = @ + run.len, !.len = 0, !.at = 0, !.kept = <<>>]
  /\ step' = "segment"
  /\ UNCHANGED <<handling, batch, attempt, token, failure, totals, saved, outcome>>

-----------------------------------------------------------------------------
\* CharacterFactComparisonPipeline

Start ==
  /\ step = "idle"
  /\ handling' \in Handlings
  /\ step' = "claim"
  /\ UNCHANGED <<batch, attempt, token, run, failure, totals, saved, outcome>>

Pending == {b \in DOMAIN Batches : saved[b].st = "pending"}

\* The next batch of the job; without one the job is reported.
ClaimBatch ==
  /\ step = "claim"
  /\ IF Pending = {}
     THEN step' = "report" /\ UNCHANGED <<batch, attempt>>
     ELSE /\ batch' \in {b \in Pending : \A other \in Pending : b <= other}
          /\ attempt' = 0 /\ step' = "context"
  /\ UNCHANGED <<handling, token, run, failure, totals, saved, outcome>>

\* A call of the job that the backend refuses, or a heartbeat that lost the lease.
JobRaises ==
  /\ step \in {"claim", "report"}
  /\ failure' = "other" /\ step' = "failing"
  /\ UNCHANGED <<handling, batch, attempt, token, run, totals, saved, outcome>>

\* Mutant: a stale batch is saved again with a new token.
ReadTokenOnly ==
  /\ step = "context"
  /\ attempt' = attempt + 1 /\ token' = TRUE
  /\ run' = IF attempt = 0 THEN [NoRun EXCEPT !.current = TRUE] ELSE run
  /\ step' = "segment"
  /\ UNCHANGED <<handling, batch, failure, totals, saved, outcome>>

\* Each attempt reads the batch anew and starts with an empty projection.
ReadContext ==
  /\ step = "context"
  /\ attempt' = attempt + 1 /\ token' = TRUE
  /\ run' = [NoRun EXCEPT !.current = TRUE]
  /\ step' = "segment"
  /\ UNCHANGED <<handling, batch, failure, totals, saved, outcome>>

ReadContextRaises ==
  /\ step = "context"
  /\ attempt' = attempt + 1
  /\ failure' = "other" /\ step' = "failBatch"
  /\ UNCHANGED <<handling, batch, token, run, totals, saved, outcome>>

\* _validate_batch_completion_coverage
Covered ==
  LET refs == [i \in DOMAIN run.decided |-> run.decided[i].ref] \o run.failed
  IN Len(refs) = Size /\ Refs(refs) = 1..Size

Compared == step = "segment" /\ run.cursor >= Size

ChecksCoverage ==
  /\ Compared
  /\ IF Covered THEN step' = "save" /\ UNCHANGED failure
     ELSE step' = "failBatch" /\ failure' = "candidate"
  /\ UNCHANGED <<handling, batch, attempt, token, run, totals, saved, outcome>>

\* What the backend keeps; current is for the properties.
Result == [st |-> "saved", current |-> run.current, decided |-> run.decided,
           failed |-> run.failed]

\* The save is accepted.  One failed candidate ends ordered analysis unless the
\* failures are deferred.
Saved ==
  /\ step = "save" /\ token
  /\ saved' = [saved EXCEPT ![batch] = Result]
  /\ totals' = [done |-> totals.done + Len(run.decided), failed |-> totals.failed + Len(run.failed)]
  /\ step' = IF handling = "ordered" /\ run.failed # <<>> THEN "failing" ELSE "claim"
  /\ run' = NoRun
  /\ UNCHANGED <<handling, batch, attempt, token, failure, outcome>>

\* The save is accepted and its answer lost, or it is refused or lost.
SaveRaises(applied) ==
  /\ step = "save"
  /\ applied => token
  /\ saved' = IF applied THEN [saved EXCEPT ![batch] = Result] ELSE saved
  /\ failure' = "other" /\ step' = "failBatch"
  /\ UNCHANGED <<handling, batch, attempt, token, run, totals, outcome>>

\* Mutant: the attempts are counted anew for each context.
SaveRetried ==
  /\ step = "save" /\ ~token
  /\ attempt' = 0 /\ step' = "context"
  /\ UNCHANGED <<handling, batch, token, run, failure, totals, saved, outcome>>

\* The character has changed (409): the batch is compared again, a few times.
SaveStale ==
  /\ step = "save" /\ ~token
  /\ IF attempt = MaxContextAttempts
     THEN failure' = "other" /\ step' = "failBatch"
     ELSE step' = "context" /\ UNCHANGED failure
  /\ UNCHANGED <<handling, batch, attempt, token, run, totals, saved, outcome>>

\* What ends the job with the batch.
EndsJob ==
  \/ failure \in {"quota", "count"}
  \/ handling # "plain" /\ ~(handling = "deferring" /\ failure = "candidate")

\* The batch is reported as failed; when that raises too, so does the job.
FailBatch(applied, answered) ==
  /\ step = "failBatch"
  /\ applied => saved[batch].st = "pending"
  /\ answered => applied
  /\ saved' = IF applied THEN [saved EXCEPT ![batch].st = "failed"] ELSE saved
  /\ totals' = [totals EXCEPT !.failed = @ + IF answered /\ failure # "quota" THEN Size ELSE 0]
  /\ step' = IF answered /\ ~EndsJob THEN "claim" ELSE "failing"
  /\ run' = NoRun
  /\ UNCHANGED <<handling, batch, attempt, token, failure, outcome>>

-----------------------------------------------------------------------------
\* CharacterFactComparisonWorker.process_claimed.  With failures deferred it is
\* the analysis job that called, and it takes the totals.

\* Mutant: the job is completed whatever failed.
ReportsAll(answered) ==
  /\ step = "report"
  /\ step' = IF answered THEN "done" ELSE "failing"
  /\ outcome' = IF handling = "deferring" THEN "returned" ELSE "completed"
  /\ UNCHANGED <<handling, batch, attempt, token, run, failure, totals, saved>>

\* The job is completed, with its answer lost or not; with a failed candidate or
\* batch it fails.
Reports(answered) ==
  /\ step = "report"
  /\ IF handling = "deferring"
     THEN step' = "done" /\ outcome' = "returned"
     ELSE IF totals.failed > 0
          THEN step' = "failing" /\ UNCHANGED outcome
          ELSE /\ step' = IF answered THEN "done" ELSE "failing"
               /\ outcome' = "completed"
  /\ UNCHANGED <<handling, batch, attempt, token, run, failure, totals, saved>>

\* The job is reported as failed, which may be lost; a completed job stays so.
Fails(applied) ==
  /\ step = "failing"
  /\ step' = "done"
  /\ outcome' = IF applied /\ outcome = "running" THEN "failed" ELSE outcome
  /\ UNCHANGED <<handling, batch, attempt, token, run, failure, totals, saved>>

\* Another job, or the author, changes the character.
Edit ==
  /\ token' = FALSE /\ run' = [run EXCEPT !.current = FALSE]
  /\ UNCHANGED <<step, handling, batch, attempt, failure, totals, saved, outcome>>

-----------------------------------------------------------------------------
Segment ==
  \/ \E shared \in BOOLEAN : TooLarge(shared)
  \/ \E len \in 1..Size - run.cursor :
       /\ Limited(len)
       /\ \/ SegmentDecided(len)
          \/ SegmentTruncated(len)
          \/ \E valid \in SUBSET (1..len) : SegmentInvalid(len, valid)
  \/ \E kind \in Failures : SegmentRaises(kind) \/ SingleRaises(kind)
  \/ Keep \/ SingleDecided \/ SingleFailed \/ SingleOverflows \/ SinglesDone

Job ==
  \/ ClaimBatch \/ JobRaises \/ ReadContext \/ ReadContextRaises
  \/ (step \in {"segment", "singles"} /\ Segment)
  \/ ChecksCoverage \/ Saved \/ SaveStale
  \/ \E applied \in BOOLEAN :
       \/ SaveRaises(applied) \/ Fails(applied) \/ Reports(applied)
       \/ \E answered \in BOOLEAN : FailBatch(applied, answered)

CompareNext == Start \/ Job \/ Edit
CompareSpec == CompareInit /\ [][CompareNext]_compare

\* The event loop resumes the job and every call of it ends.
CompareFairness == WF_compare(Job)
FairCompareSpec == CompareSpec /\ CompareFairness

-----------------------------------------------------------------------------
\* Properties

CompareTypeOK ==
  /\ step \in {"idle", "claim", "context", "segment", "singles", "save", "failBatch", "report",
               "failing", "done"}
  /\ handling \in Handlings
  /\ batch \in 0..Len(Batches) /\ attempt \in 0..MaxContextAttempts
  /\ token \in BOOLEAN
  /\ failure \in Failures \union {"none"}
  /\ outcome \in {"running", "completed", "failed", "returned"}

\* Every decision was made on the decisions that stand in its slot when it is
\* projected: none on a decision that was rejected and made again, or failed.
BuiltOnWhatStands ==
  \A k \in DOMAIN run.decided :
    run.decided[k].seen =
      {run.decided[j].ref : j \in {i \in 1..k - 1 :
                                     Slot(run.decided[i].ref) = Slot(run.decided[k].ref)}}

\* However a batch was cut, halved, retried and failed, each of its candidates is
\* decided or failed once, in the order of the source, and a save that is accepted
\* holds decisions that were all made on the character as it stands.
SavedAsCompared ==
  /\ Compared => Covered
  /\ \A b \in DOMAIN Batches :
       saved[b].st = "saved" =>
         /\ saved[b].current
         /\ \A i, j \in DOMAIN saved[b].decided :
              i < j => saved[b].decided[i].ref < saved[b].decided[j].ref
         /\ Len(saved[b].decided) + Len(saved[b].failed) = Len(Batches[b])

\* A job is completed only when all its candidates are decided and saved, whatever
\* failed in between and however its answers were lost; one that returns its totals
\* to the analysis job has left no batch open.
CompletedMeansAllSaved ==
  /\ outcome = "completed" =>
       \A b \in DOMAIN Batches : saved[b].st = "saved" /\ saved[b].failed = <<>>
  /\ outcome = "returned" => Pending = {}

\* What was saved, and what is reported of it.
SavedInv == SavedAsCompared /\ CompletedMeansAllSaved

\* A job that has started ends: halving, single retries and stale contexts are
\* bounded, even when the character changes all the time.
ComparisonEnds == step # "idle" ~> step = "done"
=============================================================================
