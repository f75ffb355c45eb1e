---------------------------- MODULE ValidationRun ----------------------------
(* One episode validation job and the executions that work on it            *)
(* (app/worker/episode_validation_worker.py, app/validation/service.py,     *)
(* planning.py, typo.py, checkpoint.py, client.py). An execution runs two   *)
(* branches at once: SETTING plans every segment in parallel, merges the    *)
(* plan and judges the questions a few at a time; TYPO checks its segments  *)
(* one after the other. Each result is published to Spring as soon as it is *)
(* valid, so that a later execution of the job resumes from it; when both   *)
(* branches have ended, complete reports the job's failure code.            *)
(*                                                                          *)
(* A publication is an HTTP request: it may be applied after its sender     *)
(* gave up or was cancelled, and its answer may be lost. What a model call  *)
(* or a read answers is a choice; token metering is the module              *)
(* TokenMetering. Codes are reduced to what the worker tells apart: CLEAN,  *)
(* QUESTIONS (only questions were left), FAILED, and STOP for the codes     *)
(* that both branches share and for unexpected errors.                      *)
EXTENDS Naturals, FiniteSets

CONSTANTS
  NumSegments,       \* planner segments of the target
  NumQuestions,      \* questions of the merged plan
  NumTypos,          \* segments of the typo branch
  JudgeConcurrency,  \* judges at work at the same time
  MaxClaims,         \* bound: executions of the job
  Overlap            \* bound: may one be claimed while an earlier one still runs?

ASSUME SizesAssumption ==
  /\ NumSegments \in Nat \ {0} /\ NumQuestions \in Nat /\ NumTypos \in Nat
  /\ JudgeConcurrency \in Nat \ {0} /\ MaxClaims \in Nat \ {0}
  /\ Overlap \in BOOLEAN

Runs == 1..MaxClaims
Segments == {<<"PLANNER", s>> : s \in 1..NumSegments}
Plan == <<"PLAN", 1>>
Questions == {<<"DECIDE", q>> : q \in 1..NumQuestions}
Typos == {<<"TYPO", t>> : t \in 1..NumTypos}
Items == Segments \union {Plan} \union Questions \union Typos
Branches == {"SETTING", "TYPO"}

AtWork == {"CALLING", "PUBLISHING", "FAILING"}
Codes == {"CLEAN", "QUESTIONS", "FAILED"}

VARIABLES
  holder,    \* Spring: the execution that holds the lease, 0 if none does
  claims,    \* Spring: executions claimed so far
  stored,    \* Spring: items published as valid
  left,      \* Spring: questions published as INCOMPLETE
  report,    \* Spring: OPEN, or the code the job was completed with
  sent,      \* requests <<execution, kind, item or code>> on their way to Spring
  answers,   \* answers <<request, admitted>> on their way back
  run,       \* the state of each execution
  gate,      \* is the execution's gate open?
  setting,   \* the stage of its SETTING branch
  typo,      \* the position of its TYPO branch, 0 before the text is read
  work,      \* what it does with each item
  halt,      \* the failure that stopped the dispatch of judges, or NONE
  slip,      \* the first failure of the TYPO branch, or CLEAN
  result,    \* the result of each branch, NONE while it runs
  failure    \* the code the worker has collected

spring == <<holder, claims, stored, left, report>>
wire == <<sent, answers>>
local == <<setting, typo, work, halt, slip, result, failure>>
vars == <<spring, wire, run, gate, local>>

Init ==
  /\ holder = 0 /\ claims = 0 /\ stored = {} /\ left = {} /\ report = "OPEN"
  /\ sent = {} /\ answers = {}
  /\ run = [e \in Runs |-> "IDLE"]
  /\ gate = [e \in Runs |-> TRUE]
  /\ setting = [e \in Runs |-> "INPUT"]
  /\ typo = [e \in Runs |-> 0]
  /\ work = [e \in Runs |-> [i \in Items |-> "IDLE"]]
  /\ halt = [e \in Runs |-> "NONE"]
  /\ slip = [e \in Runs |-> "CLEAN"]
  /\ result = [e \in Runs |-> [b \in Branches |-> "NONE"]]
  /\ failure = [e \in Runs |-> "CLEAN"]

-----------------------------------------------------------------------------
(* Spring's side. *)

\* The lease and the scope of the request are those of the job.
Admitted(m) == holder = m[1] /\ report = "OPEN"

\* Is the sender still waiting for the answer to m?
Awaited(m) ==
  CASE m[2] = "SAVE" -> work[m[1]][m[3]] = "PUBLISHING"
    [] m[2] = "FAIL" -> work[m[1]][m[3]] = "FAILING"
    [] m[2] = "COMPLETE" -> run[m[1]] = "COMPLETING"

\* Spring handles a request, at any time after it was sent. An INCOMPLETE unit
\* replaces whatever is stored for its question: the worker is not helped here.
Apply(m) ==
  /\ m \in sent
  /\ sent' = sent \ {m}
  /\ answers' = IF Awaited(m) THEN answers \union {<<m, Admitted(m)>>} ELSE answers
  /\ IF ~Admitted(m) THEN UNCHANGED spring
     ELSE /\ stored' = CASE m[2] = "SAVE" -> stored \union {m[3]}
                         [] m[2] = "FAIL" -> stored \ {m[3]}
                         [] OTHER -> stored
          /\ left' = CASE m[2] = "SAVE" -> left \ {m[3]}
                       [] m[2] = "FAIL" -> left \union {m[3]}
                       [] OTHER -> left
          /\ IF m[2] = "COMPLETE" THEN report' = m[3] /\ holder' = 0
             ELSE UNCHANGED <<report, holder>>
          /\ UNCHANGED claims
  /\ UNCHANGED <<run, gate, local>>

\* A request that nobody awaits and Spring can only refuse is dropped.
LeaseExpires ==
  /\ holder # 0
  /\ holder' = 0
  /\ sent' = {m \in sent : Awaited(m)}
  /\ UNCHANGED <<claims, stored, left, report, answers, run, gate, local>>

\* claim_next: the job gets its next execution.
Claim ==
  /\ holder = 0 /\ report = "OPEN" /\ claims < MaxClaims
  /\ Overlap \/ \A e \in Runs : run[e] \in {"IDLE", "ENDED"}
  /\ claims' = claims + 1
  /\ holder' = claims'
  /\ run' = [run EXCEPT ![claims'] = "LOADING"]
  /\ UNCHANGED <<stored, left, report, wire, gate, local>>

-----------------------------------------------------------------------------
(* The worker's side: helpers. *)

\* The branches run from the loaded checkpoint to the finally block, which stops
\* the gate and cancels them: from there on they can send nothing.
Alive(e) == run[e] \in {"RUNNING", "COMPLETING"}
At(e, i) == work[e][i]
Does(e, i, state) == work' = [work EXCEPT ![e][i] = state]
Waiting(e, b) == Alive(e) /\ result[e][b] = "NONE"
Ends(e, b, r) == result' = [result EXCEPT ![e][b] = r]
Judging(e) == {q \in Questions : At(e, q) \in AtWork}

\* ExecutionGate.require: with the gate stopped, the code is EXECUTION_STOPPED.
Code(e, code) == IF gate[e] THEN code ELSE "STOP"

\* The failure of item i ends in the branch it belongs to: a segment is recorded
\* for the end of the planning, a judge stops the dispatch, a typo segment is skipped.
Fails(e, i, code) ==
  /\ Does(e, i, IF code = "STOP" THEN "STOP" ELSE "FAILED")
  /\ IF i \in Questions /\ halt[e] = "NONE" THEN halt' = [halt EXCEPT ![e] = code]
     ELSE UNCHANGED halt
  /\ IF i \in Typos
     THEN /\ slip' = [slip EXCEPT ![e] = IF @ = "CLEAN" THEN code ELSE @]
          /\ typo' = [typo EXCEPT ![e] = @ + 1]
     ELSE UNCHANGED <<slip, typo>>
  /\ IF i = Plan THEN Ends(e, "SETTING", code) ELSE UNCHANGED result
  /\ UNCHANGED <<setting, failure>>

\* ValidationCheckpoint._publish of item i, refused at once when the gate is stopped.
Publish(e, kind, i) ==
  IF gate[e] THEN /\ Does(e, i, IF kind = "FAIL" THEN "FAILING" ELSE "PUBLISHING")
                  /\ sent' = sent \union {<<e, kind, i>>}
                  /\ UNCHANGED <<setting, typo, halt, slip, result, failure>>
             ELSE Fails(e, i, "STOP") /\ UNCHANGED sent

Forget(m) == answers' = {a \in answers : a[1] # m}

-----------------------------------------------------------------------------
(* The SETTING branch. *)

\* Input, target and subjects are read; every segment that has no stage yet is
\* given to the planner, all at once.
ReadInput(e) ==
  /\ Waiting(e, "SETTING") /\ setting[e] = "INPUT"
  /\ setting' = [setting EXCEPT ![e] = "PLANNING"]
  /\ work' = [work EXCEPT ![e] =
       [i \in Items |-> IF i \in Segments /\ @[i] = "IDLE" THEN "CALLING" ELSE @[i]]]
  /\ UNCHANGED <<spring, wire, run, gate, typo, halt, slip, result, failure>>

\* The model has answered: a segment's questions, or a question's decision.
Called(e, i) ==
  /\ Alive(e) /\ At(e, i) = "CALLING"
  /\ Publish(e, "SAVE", i)
  /\ UNCHANGED <<spring, answers, run, gate>>

\* The call failed, or the answer was not valid.
CallFails(e, i, code) ==
  /\ Alive(e) /\ At(e, i) = "CALLING"
  /\ Fails(e, i, Code(e, code))
  /\ UNCHANGED <<spring, wire, run, gate>>

\* A failure of this question alone: it is published as INCOMPLETE.
QuestionFails(e, i) ==
  /\ Alive(e) /\ i \in Questions /\ At(e, i) = "CALLING"
  /\ Publish(e, "FAIL", i)
  /\ UNCHANGED <<spring, answers, run, gate>>

\* Mutant: a failed planner segment does not keep the plan from being merged.
PlannedPartly(e) == \A s \in Segments : At(e, s) \in {"SAVED", "FAILED"}
Planned(e) == \A s \in Segments : At(e, s) = "SAVED"

\* plan: once every segment has ended, the first failure in their order is
\* raised; otherwise the plan is merged, unless Spring has it.
PlanEnds(e) ==
  /\ Waiting(e, "SETTING") /\ setting[e] = "PLANNING" /\ At(e, Plan) = "IDLE"
  /\ \A s \in Segments : At(e, s) \notin AtWork
  /\ IF Planned(e) THEN Publish(e, "SAVE", Plan)
     ELSE LET first == CHOOSE n \in 1..NumSegments :
                /\ At(e, <<"PLANNER", n>>) # "SAVED"
                /\ \A k \in 1..(n - 1) : At(e, <<"PLANNER", k>>) = "SAVED"
          IN /\ Ends(e, "SETTING", At(e, <<"PLANNER", first>>))
             /\ UNCHANGED <<sent, setting, typo, work, halt, slip, failure>>
  /\ UNCHANGED <<spring, answers, run, gate>>

\* The plan is there; the index fill is awaited, the settings are read, and the
\* questions that Spring has no decision for are queued.
StartJudging(e) ==
  /\ Waiting(e, "SETTING") /\ setting[e] = "PLANNING"
  /\ Planned(e) /\ At(e, Plan) = "SAVED"
  /\ setting' = [setting EXCEPT ![e] = "JUDGING"]
  /\ UNCHANGED <<spring, wire, run, gate, typo, work, halt, slip, result, failure>>

\* Mutant: the dispatcher does not look at the failure that stopped it.
DispatchOn(e) == TRUE
Dispatching(e) == halt[e] = "NONE"

\* _judge_all: the next question in order gets a free slot.
StartJudge(e) ==
  /\ Waiting(e, "SETTING") /\ setting[e] = "JUDGING"
  /\ Cardinality(Judging(e)) < JudgeConcurrency /\ Dispatching(e)
  /\ \E q \in 1..NumQuestions :
       /\ At(e, <<"DECIDE", q>>) = "IDLE"
       /\ \A k \in 1..(q - 1) : At(e, <<"DECIDE", k>>) # "IDLE"
       /\ Does(e, <<"DECIDE", q>>, "CALLING")
  /\ UNCHANGED <<spring, wire, run, gate, setting, typo, halt, slip, result, failure>>

\* Mutant: the stopped dispatcher waits for a turn of every question.
JudgedAll(e) == Judging(e) = {} /\ \A q \in Questions : At(e, q) # "IDLE"
\* Mutant: the judges at work are not waited for.
JudgedInPart(e) == halt[e] # "NONE" \/ \A q \in Questions : At(e, q) # "IDLE"
Judged(e) == /\ Judging(e) = {}
             /\ halt[e] # "NONE" \/ \A q \in Questions : At(e, q) # "IDLE"

JudgedCode(e) == IF halt[e] # "NONE" THEN halt[e]
                 ELSE IF \E q \in Questions : At(e, q) = "LEFT" THEN "QUESTIONS"
                 ELSE "CLEAN"

JudgingEnds(e) ==
  /\ Waiting(e, "SETTING") /\ setting[e] = "JUDGING" /\ Judged(e)
  /\ Ends(e, "SETTING", JudgedCode(e))
  /\ UNCHANGED <<spring, wire, run, gate, setting, typo, work, halt, slip, failure>>

\* A read, the server's grid, the index fill or the readiness fails for the run.
ReadFails(e, code) ==
  /\ Waiting(e, "SETTING")
  /\ \/ setting[e] = "INPUT"
     \/ setting[e] = "PLANNING" /\ Planned(e) /\ At(e, Plan) \in {"IDLE", "SAVED"}
  /\ Ends(e, "SETTING", Code(e, code))
  /\ UNCHANGED <<spring, wire, run, gate, setting, typo, work, halt, slip, failure>>

-----------------------------------------------------------------------------
(* The TYPO branch: check_typos. *)

Checking(e) == <<"TYPO", typo[e]>>

ReadTypoInput(e) ==
  /\ Waiting(e, "TYPO") /\ typo[e] = 0
  /\ typo' = [typo EXCEPT ![e] = 1]
  /\ UNCHANGED <<spring, wire, run, gate, setting, work, halt, slip, result, failure>>

\* A segment that Spring has is taken over; any other is checked and published.
CheckTypos(e) ==
  /\ Waiting(e, "TYPO") /\ typo[e] \in 1..NumTypos
  /\ \/ /\ At(e, Checking(e)) = "SAVED"
        /\ typo' = [typo EXCEPT ![e] = @ + 1]
        /\ UNCHANGED <<sent, setting, work, halt, slip, result, failure>>
     \/ /\ At(e, Checking(e)) = "IDLE"
        /\ Publish(e, "SAVE", Checking(e))
  /\ UNCHANGED <<spring, answers, run, gate>>

\* Mutant: the segment after a failed one is passed over.
TypoFailsTwice(e, last) ==
  /\ Waiting(e, "TYPO") /\ typo[e] \in 1..NumTypos
  /\ At(e, Checking(e)) \in {"IDLE", "SAVED"}
  /\ slip' = [slip EXCEPT ![e] = IF @ = "CLEAN" THEN Code(e, "FAILED") ELSE @]
  /\ typo' = [typo EXCEPT ![e] = @ + 2]
  /\ UNCHANGED <<spring, wire, run, gate, setting, work, halt, result, failure>>

\* The segment is left out; a rejected request or a spent budget ends the loop.
TypoFails(e, last) ==
  /\ Waiting(e, "TYPO") /\ typo[e] \in 1..NumTypos
  /\ At(e, Checking(e)) \in {"IDLE", "SAVED"}
  /\ slip' = [slip EXCEPT ![e] = IF @ = "CLEAN" THEN Code(e, "FAILED") ELSE @]
  /\ typo' = [typo EXCEPT ![e] = IF last THEN NumTypos + 1 ELSE @ + 1]
  /\ UNCHANGED <<spring, wire, run, gate, setting, work, halt, result, failure>>

\* The sources are validated once more; a failure here outranks the segments'.
TypoEnds(e) ==
  /\ Waiting(e, "TYPO") /\ typo[e] = NumTypos + 1
  /\ Ends(e, "TYPO", slip[e])
  /\ UNCHANGED <<spring, wire, run, gate, setting, typo, work, halt, slip, failure>>

TypoReadFails(e, code) ==
  /\ Waiting(e, "TYPO") /\ typo[e] \in {0, NumTypos + 1}
  /\ Ends(e, "TYPO", Code(e, code))
  /\ UNCHANGED <<spring, wire, run, gate, setting, typo, work, halt, slip, failure>>

-----------------------------------------------------------------------------
(* Answers of Spring, timeouts and the heartbeat. *)

\* The answer to a publication: stored, or refused for want of the lease, which
\* stops the gate.
PublicationAnswered(e, m, ok) ==
  /\ m[1] = e /\ m[2] # "COMPLETE" /\ <<m, ok>> \in answers /\ Alive(e)
  /\ Forget(m)
  /\ IF ok THEN /\ Does(e, m[3], IF m[2] = "FAIL" THEN "LEFT" ELSE "SAVED")
                /\ typo' = IF m[3] \in Typos THEN [typo EXCEPT ![e] = @ + 1] ELSE typo
                /\ UNCHANGED <<gate, setting, halt, slip, result, failure>>
     ELSE /\ gate' = [gate EXCEPT ![e] = FALSE]
          /\ Fails(e, m[3], "FAILED")
  /\ UNCHANGED <<spring, sent, run>>

\* Mutant: a decision whose publication failed is published as INCOMPLETE.
LeavesUndecided(e, i) ==
  /\ Alive(e) /\ At(e, i) = "PUBLISHING" /\ Forget(<<e, "SAVE", i>>)
  /\ IF i \in Questions THEN Publish(e, "FAIL", i)
     ELSE Fails(e, i, "FAILED") /\ UNCHANGED sent
  /\ UNCHANGED <<spring, run, gate>>

\* The sender of a publication gives up waiting, whatever becomes of the request.
GivesUp(e, i) ==
  /\ Alive(e) /\ At(e, i) \in {"PUBLISHING", "FAILING"}
  /\ Forget(<<e, IF At(e, i) = "FAILING" THEN "FAIL" ELSE "SAVE", i>>)
  /\ Fails(e, i, "FAILED")
  /\ UNCHANGED <<spring, sent, run, gate>>

\* Any failed heartbeat stops the gate: there is no second try.
HeartbeatFails(e) ==
  /\ Alive(e) /\ gate[e]
  /\ gate' = [gate EXCEPT ![e] = FALSE]
  /\ UNCHANGED <<spring, wire, run, local>>

-----------------------------------------------------------------------------
(* _process_claimed and the end of an execution. *)

\* Mutant: the typo segments that Spring has are checked again.
LoadedAnew(e) == [i \in Items |-> IF i \in stored \ Typos THEN "SAVED" ELSE "IDLE"]
Loaded(e) == [i \in Items |-> IF i \in stored THEN "SAVED" ELSE "IDLE"]

\* GET checkpoint: what is stored need not be done again; both branches start.
LoadCheckpoint(e) ==
  /\ run[e] = "LOADING"
  /\ IF holder = e /\ report = "OPEN"
     THEN /\ run' = [run EXCEPT ![e] = "RUNNING"]
          /\ work' = [work EXCEPT ![e] = Loaded(e)]
     ELSE run' = [run EXCEPT ![e] = "ENDED"] /\ UNCHANGED work
  /\ UNCHANGED <<spring, wire, gate, setting, typo, halt, slip, result, failure>>

\* The request for the checkpoint fails, or the worker is closed meanwhile.
LoadFails(e) ==
  /\ run[e] = "LOADING"
  /\ run' = [run EXCEPT ![e] = "ENDED"]
  /\ UNCHANGED <<spring, wire, gate, local>>

Stops(e) == /\ gate' = [gate EXCEPT ![e] = FALSE]
            /\ run' = [run EXCEPT ![e] = "STOPPING"]

\* Mutant: the code of the branch that ended last is reported.
LastCode(old, new) == new
\* A branch that failed outranks one that only left questions, in either order.
Outranking(old, new) == IF old = "CLEAN" \/ (old = "QUESTIONS" /\ new # "CLEAN")
                        THEN new ELSE old

\* The main task looks at the branches that ended. A code that both share ends
\* the execution; the last branch is followed by complete.
BranchesEnd(e) ==
  /\ run[e] = "RUNNING" /\ gate[e]
  /\ \/ /\ \E b \in Branches : result[e][b] = "STOP"
        /\ Stops(e) /\ UNCHANGED <<sent, failure>>
     \/ /\ \A b \in Branches : result[e][b] \in Codes
        /\ \E b, c \in Branches :
             /\ b # c
             /\ failure' = [failure EXCEPT ![e] =
                  Outranking(Outranking("CLEAN", result[e][b]), result[e][c])]
        /\ sent' = sent \union {<<e, "COMPLETE", failure'[e]>>}
        /\ run' = [run EXCEPT ![e] = "COMPLETING"] /\ UNCHANGED gate
  /\ UNCHANGED <<spring, answers, setting, typo, work, halt, slip, result>>

\* The main task wakes up on the stopped gate.
GateStops(e) ==
  /\ run[e] = "RUNNING" /\ ~gate[e]
  /\ Stops(e)
  /\ UNCHANGED <<spring, wire, local>>

\* complete was answered or given up; or the worker is closed or the task
\* cancelled: the finally block stops the gate and cancels what still runs.
Finishes(e) ==
  /\ run[e] = "COMPLETING"
  /\ \E a \in answers : a[1][1] = e /\ a[1][2] = "COMPLETE" /\ answers' = answers \ {a}
  /\ Stops(e)
  /\ UNCHANGED <<spring, sent, local>>

Cancelled(e) ==
  /\ Alive(e)
  /\ answers' = {a \in answers : ~(a[1][1] = e /\ a[1][2] = "COMPLETE")}
  /\ Stops(e)
  /\ UNCHANGED <<spring, sent, local>>

\* The branches are cancelled, the ledger is drained: nothing of it is left but
\* the requests that Spring may still apply.
Gone(e) ==
  /\ run' = [run EXCEPT ![e] = "ENDED"]
  /\ gate' = [gate EXCEPT ![e] = FALSE]
  /\ answers' = {a \in answers : a[1][1] # e}
  /\ setting' = [setting EXCEPT ![e] = "INPUT"]
  /\ typo' = [typo EXCEPT ![e] = 0]
  /\ work' = [work EXCEPT ![e] = [i \in Items |-> "IDLE"]]
  /\ halt' = [halt EXCEPT ![e] = "NONE"]
  /\ slip' = [slip EXCEPT ![e] = "CLEAN"]
  /\ result' = [result EXCEPT ![e] = [b \in Branches |-> "NONE"]]
  /\ failure' = [failure EXCEPT ![e] = "CLEAN"]
  /\ sent' = {m \in sent : m[1] # e \/ Admitted(m)}
  /\ UNCHANGED spring

Drained(e) == run[e] = "STOPPING" /\ Gone(e)

\* The process dies; its requests may still reach Spring.
Crash(e) == run[e] \in {"LOADING", "RUNNING", "COMPLETING", "STOPPING"} /\ Gone(e)

-----------------------------------------------------------------------------
\* What an execution does when nothing fails: every wait in it is bounded by
\* the budget's seconds or by the HTTP timeout.
Progress(e) ==
  \/ ReadInput(e) \/ PlanEnds(e) \/ StartJudging(e) \/ StartJudge(e) \/ JudgingEnds(e)
  \/ \E i \in Items : Called(e, i)
  \/ ReadTypoInput(e) \/ CheckTypos(e) \/ TypoEnds(e)
  \/ \E a \in answers : PublicationAnswered(e, a[1], a[2])
  \/ LoadCheckpoint(e) \/ BranchesEnd(e) \/ GateStops(e) \/ Finishes(e)
  \/ Drained(e)

Failures(e) ==
  \/ \E code \in {"FAILED", "STOP"} :
       \/ \E i \in Items : CallFails(e, i, code)
       \/ ReadFails(e, code) \/ TypoReadFails(e, code)
  \/ \E i \in Items : QuestionFails(e, i) \/ GivesUp(e, i)
  \/ \E last \in BOOLEAN : TypoFails(e, last)
  \/ HeartbeatFails(e) \/ LoadFails(e) \/ Cancelled(e) \/ Crash(e)

Next ==
  \/ Claim \/ LeaseExpires
  \/ \E m \in sent : Apply(m)
  \/ \E e \in Runs : Progress(e) \/ Failures(e)

Spec == Init /\ [][Next]_vars

\* HTTP requests are handled, and the tasks of the event loop go on.
Fairness == /\ WF_vars(\E m \in sent : Apply(m))
            /\ \A e \in Runs : WF_vars(Progress(e))
FairSpec == Spec /\ Fairness

-----------------------------------------------------------------------------
Requests == (Runs \X {"SAVE"} \X Items) \union (Runs \X {"FAIL"} \X Questions)
              \union (Runs \X {"COMPLETE"} \X Codes)
ItemStates == {"IDLE", "SAVED", "LEFT", "FAILED", "STOP"} \union AtWork

TypeOK ==
  /\ holder \in 0..claims /\ claims \in 0..MaxClaims
  /\ stored \subseteq Items /\ left \subseteq Questions
  /\ report \in {"OPEN"} \union Codes
  /\ sent \subseteq Requests /\ answers \subseteq Requests \X BOOLEAN
  /\ run \in [Runs -> {"IDLE", "LOADING", "RUNNING", "COMPLETING", "STOPPING", "ENDED"}]
  /\ gate \in [Runs -> BOOLEAN]
  /\ setting \in [Runs -> {"INPUT", "PLANNING", "JUDGING"}]
  /\ typo \in [Runs -> 0..(NumTypos + 1)]
  /\ work \in [Runs -> [Items -> ItemStates]]
  /\ halt \in [Runs -> {"NONE", "FAILED", "STOP"}]
  /\ slip \in [Runs -> {"CLEAN", "FAILED", "STOP"}]
  /\ result \in [Runs -> [Branches -> {"NONE", "STOP"} \union Codes]]
  /\ failure \in [Runs -> Codes]

\* A job that is completed without a failure code has all of it done, in
\* whichever executions: every segment planned, every question decided, every
\* typo segment checked (service.py _result: never report a silent gap as done).
CleanMeansComplete == report = "CLEAN" => stored = Items

\* A job reported to have only left questions has nothing else missing, and it
\* does have such a question (episode_validation_worker.py, the code of a branch
\* that stopped outranks it).
QuestionsMeansTried ==
  report = "QUESTIONS" => /\ left # {}
                          /\ stored = Items \ left

\* What a completed job reports is what was done, whichever executions did it.
ReportIsTrue == TypeOK /\ CleanMeansComplete /\ QuestionsMeansTried

\* What Spring has is not published again by the execution that works on the
\* job now: a resumed execution neither repeats nor replaces an earlier one's
\* work (app/validation/README.md: the stored stages are not called again).
NothingPublishedTwice ==
  \A m \in sent : m[2] = "SAVE" /\ Admitted(m) => m[3] \notin stored

\* A published decision stays: no later publication turns it into an
\* INCOMPLETE question (checkpoint.py, fail).
DecisionsStay == [][Questions \intersect stored \subseteq stored']_vars

\* An execution sends nothing once its gate is stopped or complete is on its
\* way: no judge or segment outlives its branch (docs/validation-execution-v1.md:
\* both children stop publishing).  After a failure that stops the dispatch, judges
\* already at work end and publish, but no further question is begun (service.py,
\* _judge_all).
StoppedIsQuiet ==
  [][/\ \A m \in sent' \ sent : run[m[1]] = "RUNNING" /\ gate[m[1]]
     /\ \A e \in Runs : halt[e] # "NONE" => \A q \in Questions :
          At(e, q) = "IDLE" => work'[e][q] \in {"IDLE", "SAVED"}]_vars

\* Every execution comes to an end, its branches, its complete and its drain
\* included, whether or not it keeps its lease.
RunsEnd == \A e \in Runs : (run[e] # "IDLE") ~> (run[e] = "ENDED")
=============================================================================
