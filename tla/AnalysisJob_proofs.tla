------------------------- MODULE AnalysisJob_proofs -------------------------
(***************************************************************************)
(* AnalysisJob for any number of claims and source versions: its types,    *)
(* StageInv as an inductive invariant, and from it that every step maps to *)
(* a step of JobStages or to a stutter.  Then what stopped executions and  *)
(* left-behind threads cannot do, and that an ordered job compares before  *)
(* it goes on to the next domain.                                          *)
(***************************************************************************)
EXTENDS AnalysisJob, TLAPS

\* The tables of checkpoints, as facts the steps can use without them.
LEMMA CheckpointFacts ==
  /\ \A c \in Checkpoints : StageNo[c] \in 0..5 /\ Rank[c] \in 0..6
  /\ StageNo["NONE"] = 0 /\ "NONE" \in Checkpoints
  /\ \A c, d \in Checkpoints : /\ Rank[c] >= Rank[d] => StageNo[c] >= StageNo[d]
                               /\ ~(Rank[c] >= Rank[d]) => StageNo[c] <= StageNo[d]
BY DEF Checkpoints, StageNo, Rank

\* What is reported at a position is the next checkpoint, and the position that
\* follows has passed it.
LEMMA ReportFacts ==
  /\ \A p \in DOMAIN CheckpointAt :
       /\ CheckpointAt[p] \in Checkpoints
       /\ StageNo[CheckpointAt[p]] = Passed(p) + 1
       /\ Following[p] \in AtWork \ (Waits \union DOMAIN CheckpointAt \union {"failing"})
       /\ Passed(Following[p]) = Passed(p) + 1
  /\ DOMAIN CheckpointAt = {"chunksReady", "saved", "handedOff", "compared", "publish",
                            "worldCompared"}
  /\ \A p : Passed(p) \in 0..5
BY DEF CheckpointAt, Following, Checkpoints, StageNo, Rank, Passed, AtWork, Waits, Stages

-----------------------------------------------------------------------------
\* Types

\* A step of an execution writes well-typed rows.
LEMMA ExecutionTypes ==
  ASSUME TypeOK, NEW t \in Tokens, NEW p \in Positions
  PROVE  /\ [exec EXCEPT ![t].pc = p] \in [Tokens -> Executions]
         /\ \A h \in {"off", "on", "failed"} :
              [exec EXCEPT ![t].pc = p, ![t].heart = h] \in [Tokens -> Executions]
         /\ \A m \in SUBSET ChunkRows :
              [exec EXCEPT ![t].pc = p, ![t].mine = m] \in [Tokens -> Executions]
BY DEF TypeOK, Executions

\* A stopped execution stays well typed.
LEMMA StoppedTypes ==
  ASSUME NEW executions \in [Tokens -> Executions], NEW t \in Tokens
  PROVE  [executions EXCEPT ![t].stopped = TRUE] \in [Tokens -> Executions]
BY DEF Executions

\* So do Spring's changes of the job row, which leave the lease alone.
LEMMA JobTypes ==
  ASSUME TypeOK, NEW t \in Tokens
  PROVE  /\ Effect(t) \in JobRows
         /\ Effect(t).lease = job.lease /\ Effect(t).live = job.live
         /\ \A s \in Comparison : \A r :
              Settled(s, r) \in Comparison /\ FailedBy(t, r) \in {0} \union Tokens
BY ReportFacts DEF TypeOK, JobRows, Effect, Comparison, FailedBy, Settled

\* The positions a step goes to.
LEMMA PositionFacts ==
  /\ AtWork \subseteq Positions /\ {"idle", "ended"} \subseteq Positions
  /\ {"start", "persist", "complete", "failing", "chunks", "character", "compare",
      "world", "worldCompare", "chunksWait", "saving", "chunksReady", "saved",
      "handedOff", "compared", "publish", "worldCompared"} = AtWork
BY ReportFacts DEF Positions, AtWork, Stages, Waits

\* The ways an execution moves on write well-typed executions.
LEMMA StepTypes ==
  ASSUME TypeOK, NEW t \in Tokens
  PROVE  /\ \A p \in AtWork \union {"ended"} : Go(t, p) => exec' \in [Tokens -> Executions]
         /\ Raise(t) => exec' \in [Tokens -> Executions]
         /\ UNCHANGED exec => exec' \in [Tokens -> Executions]
<1>1. \A p \in AtWork \union {"ended"} : Go(t, p) => exec' \in [Tokens -> Executions]
  <2>1. ASSUME NEW p \in AtWork \union {"ended"}
        PROVE  [exec EXCEPT ![t].pc = p] \in [Tokens -> Executions]
    <3>1. p \in Positions BY PositionFacts
    <3> QED BY <3>1, ExecutionTypes
  <2> QED BY <2>1 DEF Go
<1>2. Raise(t) => exec' \in [Tokens -> Executions]
  <2>1. "failing" \in Positions BY PositionFacts
  <2>2. [exec EXCEPT ![t].pc = "failing", ![t].heart = "off"] \in [Tokens -> Executions]
    BY <2>1, ExecutionTypes
  <2> QED BY <2>2 DEF Raise
<1> QED BY <1>1, <1>2 DEF TypeOK

\* The initial state is well typed.
LEMMA TypeInit == Init => TypeOK
BY CheckpointFacts, PositionFacts, JobAssumption
   DEF Init, TypeOK, JobRows, Executions, Transactions, NoThread, Comparison, Tokens

\* Whatever a call comes to, it writes well-typed rows.
LEMMA CallTypes ==
  ASSUME TypeOK, NEW t \in Tokens, NEW next \in [Tokens -> Executions], Call(t, next)
  PROVE  job' \in JobRows /\ exec' \in [Tokens -> Executions]
<1>1. [exec EXCEPT ![t].pc = "failing", ![t].heart = "off"] \in [Tokens -> Executions]
  BY ExecutionTypes, PositionFacts
<1> QED BY <1>1, JobTypes DEF Call, Raise, TypeOK

\* Every step, of an execution, a thread or Spring, writes well-typed state.
LEMMA TypeStep == ASSUME TypeOK, Next PROVE TypeOK'
<1>1. ASSUME NEW t \in Tokens, Claim(t) PROVE TypeOK'
  <2>1. job' \in JobRows BY <1>1 DEF Claim, TypeOK, JobRows
  <2>2. exec' \in [Tokens -> Executions]
    <3>1. job.checkpoint \in Checkpoints /\ 1 \in 1..MaxSource /\ source \in 1..MaxSource
      BY JobAssumption DEF TypeOK, JobRows
    <3>2. PICK p \in {"start", "ended"} :
            exec' = [exec EXCEPT ![t].pc = p, ![t].resume = job.checkpoint,
                                 ![t].source = IF Ordered THEN 1 ELSE source]
      BY <1>1 DEF Claim
    <3>3. p \in Positions BY <3>2, PositionFacts
    <3>4. (IF Ordered THEN 1 ELSE source) \in 1..MaxSource BY <3>1
    <3>5. ASSUME NEW v \in 1..MaxSource
          PROVE  [exec EXCEPT ![t].pc = p, ![t].resume = job.checkpoint, ![t].source = v]
                    \in [Tokens -> Executions]
      BY <3>1, <3>3 DEF TypeOK, Executions
    <3> QED BY <3>2, <3>4, <3>5
  <2> QED BY <1>1, <2>1, <2>2 DEF Claim, TypeOK
<1>2. ASSUME NEW t \in Tokens, Step(t) PROVE TypeOK'
  <2>0. /\ \A p \in AtWork \union {"ended"} : Go(t, p) => exec' \in [Tokens -> Executions]
        /\ Raise(t) => exec' \in [Tokens -> Executions]
    BY StepTypes
  <2>1. CASE ReportStart(t)
    BY <2>1, ExecutionTypes, PositionFacts, CallTypes DEF ReportStart, TypeOK
  <2>2. CASE ReportCheckpoint(t)
    <3>1. [exec EXCEPT ![t].pc = Following[@]] \in [Tokens -> Executions]
      BY <2>2, ReportFacts, ExecutionTypes, PositionFacts DEF ReportCheckpoint, TypeOK
    <3> QED BY <2>2, <3>1, CallTypes DEF ReportCheckpoint, TypeOK
  <2>3. CASE ReportPersisting(t)
    BY <2>3, ExecutionTypes, PositionFacts, CallTypes DEF ReportPersisting, TypeOK
  <2>4. CASE Complete(t)
    BY <2>4, ExecutionTypes, PositionFacts, CallTypes DEF Complete, TypeOK
  <2>5. CASE Fail(t)
    <3>1. exec' \in [Tokens -> Executions] BY <2>0, <2>5 DEF Fail
    <3>2. job' \in JobRows BY <2>5, JobTypes DEF Fail, TypeOK
    <3> QED BY <2>5, <3>1, <3>2 DEF Fail, TypeOK
  <2>6. CASE ReadChunks(t)
    <3>1. [exec EXCEPT ![t].pc = "character", ![t].mine = chunks] \in [Tokens -> Executions]
      BY ExecutionTypes, PositionFacts DEF TypeOK
    <3> QED BY <2>0, <2>6, <3>1 DEF ReadChunks, TypeOK
  <2>7. ASSUME NEW task \in {"chunks", "candidates"}, NEW wait \in AtWork,
               Submit(t, task, wait)
        PROVE  exec' \in [Tokens -> Executions] /\ thread' \in [Tokens -> Transactions]
    <3>1. [does |-> task, began |-> FALSE, seen |-> {}] \in Transactions
      BY DEF Transactions
    <3> QED BY <2>0, <2>7, <3>1 DEF Submit, TypeOK
  <2>8. CASE ReplaceChunks(t) BY <2>7, <2>8, PositionFacts DEF ReplaceChunks, TypeOK
  <2>9. CASE ExtractCharacters(t)
    BY <2>7, <2>9, PositionFacts DEF ExtractCharacters, TypeOK
  <2>10. CASE SkipCharacters(t) BY <2>0, <2>10, PositionFacts DEF SkipCharacters, TypeOK
  <2>11. CASE HandOff(t)
    <3>1. exec' \in [Tokens -> Executions] BY <2>0, <2>11, PositionFacts DEF HandOff
    <3> QED BY <2>11, <3>1 DEF HandOff, TypeOK
  <2>12. CASE CompareCharacters(t)
    <3>1. exec' \in [Tokens -> Executions]
      BY <2>0, <2>12, PositionFacts DEF CompareCharacters
    <3>2. job' \in JobRows
      <4>1. PICK result : job' = [job EXCEPT !.characters = Settled(@, result),
                                             !.failedBy = FailedBy(t, result)]
        BY <2>12 DEF CompareCharacters
      <4> QED BY <4>1, JobTypes DEF TypeOK, JobRows
    <3> QED BY <2>12, <3>1, <3>2 DEF CompareCharacters, TypeOK
  <2>13. CASE ExtractWorld(t)
    <3>1. exec' \in [Tokens -> Executions] BY <2>0, <2>13, PositionFacts DEF ExtractWorld
    <3> QED BY <2>13, <3>1 DEF ExtractWorld, TypeOK
  <2>14. CASE Refused(t) BY <2>0, <2>14 DEF Refused, TypeOK
  <2>15. CASE SkipWorldComparison(t)
    BY <2>0, <2>15, PositionFacts DEF SkipWorldComparison, TypeOK
  <2>16. CASE CompareWorld(t)
    <3>1. exec' \in [Tokens -> Executions]
      BY <2>0, <2>16, PositionFacts DEF CompareWorld
    <3>2. job' \in JobRows
      <4>1. PICK result : job' = [job EXCEPT !.worlds = Settled(@, result),
                                             !.failedBy = FailedBy(t, result)]
        BY <2>16 DEF CompareWorld
      <4> QED BY <4>1, JobTypes DEF TypeOK, JobRows
    <3> QED BY <2>16, <3>1, <3>2 DEF CompareWorld, TypeOK
  <2> QED BY <1>2, <2>1, <2>2, <2>3, <2>4, <2>5, <2>6, <2>8, <2>9, <2>10,
             <2>11, <2>12, <2>13, <2>14, <2>15, <2>16 DEF Step
<1>3. ASSUME NEW t \in Tokens, StageFails(t) PROVE TypeOK'
  BY <1>3, ExecutionTypes, PositionFacts DEF StageFails, Raise, TypeOK
<1>4. ASSUME NEW t \in Tokens, ThreadStep(t) PROVE TypeOK'
  <2>0. /\ {} \in SUBSET ChunkRows
        /\ NoThread \in Transactions
        /\ [thread EXCEPT ![t] = NoThread] \in [Tokens -> Transactions]
    BY DEF NoThread, Transactions, TypeOK
  <2>1. ASSUME NEW seen, Commit(t, seen), thread[t].does # "nothing" PROVE TypeOK'
    <3>1. /\ thread[t].does # "candidates" => Replaced(t, seen, chunks) \subseteq ChunkRows
          /\ thread[t].does = "candidates" =>
               Replaced(t, seen, candidates) \subseteq CandidateRows
      BY DEF Replaced, ChunkRows, CandidateRows, TypeOK, Executions
    <3>2. thread[t].does \in {"chunks", "candidates"}
      BY <2>1 DEF TypeOK, Transactions
    <3>3. chunks' \subseteq ChunkRows
      BY <2>1, <3>1, <3>2 DEF Commit, TypeOK
    <3>4. candidates' \subseteq CandidateRows
      BY <2>1, <3>1, <3>2 DEF Commit, TypeOK
    <3>5. exec' \in [Tokens -> Executions]
      <4>1. \A m \in SUBSET ChunkRows :
              [exec EXCEPT ![t].pc = "chunksReady", ![t].mine = m] \in [Tokens -> Executions]
        BY ExecutionTypes, PositionFacts
      <4>2. CASE ~Attached(t) BY <2>1, <4>2 DEF Commit, TypeOK
      <4>3. CASE Attached(t) /\ thread[t].does = "candidates"
        BY <2>1, <4>3, StepTypes, PositionFacts DEF Commit
      <4>4. CASE Attached(t) /\ thread[t].does # "candidates"
        BY <2>1, <3>3, <4>1, <4>4 DEF Commit
      <4> QED BY <4>2, <4>3, <4>4
    <3> QED BY <2>0, <2>1, <3>3, <3>4, <3>5 DEF Commit, TypeOK
  <2>2. CASE WriteFenced(t) BY <2>1, <2>2 DEF WriteFenced
  <2>3. CASE RollBack(t)
    <3>1. exec' \in [Tokens -> Executions] BY <2>3, StepTypes DEF RollBack
    <3> QED BY <2>0, <2>3, <3>1 DEF RollBack, TypeOK
  <2>4. CASE BeginUnfenced(t)
    <3>1. (IF thread[t].does = "chunks" THEN chunks ELSE candidates)
             \in (SUBSET ChunkRows) \union (SUBSET CandidateRows)
      <4>1. chunks \in SUBSET ChunkRows /\ candidates \in SUBSET CandidateRows
        BY DEF TypeOK
      <4> QED BY <4>1
    <3>2. thread' \in [Tokens -> Transactions]
      <4>1. ASSUME NEW s \in (SUBSET ChunkRows) \union (SUBSET CandidateRows)
            PROVE  [thread EXCEPT ![t].began = TRUE, ![t].seen = s] \in [Tokens -> Transactions]
        BY DEF TypeOK, Transactions
      <4> QED BY <2>4, <3>1, <4>1 DEF BeginUnfenced
    <3> QED BY <2>4, <3>2 DEF BeginUnfenced, TypeOK
  <2>5. CASE CommitUnfenced(t) BY <2>1, <2>5 DEF CommitUnfenced
  <2> QED BY <1>4, <2>2, <2>3, <2>4, <2>5 DEF ThreadStep
<1>5. ASSUME NEW t \in Tokens, RenewLease(t) PROVE TypeOK'
  BY <1>5 DEF RenewLease, TypeOK, JobRows
<1>6. ASSUME NEW t \in Tokens, Stopped(t) PROVE TypeOK'
  <2>1. NoThread \in Transactions
    <3>1. {} \in SUBSET ChunkRows OBVIOUS
    <3> QED BY <3>1 DEF NoThread, Transactions
  <2>2. ASSUME NEW h \in {"off", "on", "failed"}, StopExecution(t, h)
        PROVE  exec' \in [Tokens -> Executions] /\ job' \in JobRows
    <3>1. [exec EXCEPT ![t].pc = "ended", ![t].heart = h] \in [Tokens -> Executions]
      BY ExecutionTypes, PositionFacts
    <3>2. [[exec EXCEPT ![t].pc = "ended", ![t].heart = h]
             EXCEPT ![t].stopped = TRUE] \in [Tokens -> Executions]
      BY <3>1, StoppedTypes
    <3>3. exec' \in [Tokens -> Executions]
      BY <2>2, <3>2 DEF StopExecution, TypeOK, Executions
    <3>4. job' \in JobRows BY <2>2, JobTypes DEF StopExecution, TypeOK
    <3> QED BY <3>3, <3>4
  <2> QED BY <1>6, <2>1, <2>2 DEF Stopped, HeartbeatFails, CancelExecution, Crash, TypeOK
<1>7. CASE LeaseExpires BY <1>7 DEF LeaseExpires, TypeOK, JobRows
<1>8. CASE EditSource BY <1>8, JobAssumption DEF EditSource, TypeOK
<1> QED BY Next, <1>1, <1>2, <1>3, <1>4, <1>5, <1>6, <1>7, <1>8 DEF Next

\* The type invariant holds of every behaviour: every row the workers and
\* their threads leave behind is one the code can write.
THEOREM TypeCorrect == Spec => []TypeOK
<1>1. TypeOK /\ [Next]_vars => TypeOK'
  BY TypeStep DEF vars, TypeOK, JobRows, Executions
<1> QED BY TypeInit, <1>1, PTL DEF Spec

-----------------------------------------------------------------------------
\* Stages

Actions(t) == \/ Claim(t) \/ Step(t) \/ StageFails(t)
              \/ ThreadStep(t) \/ RenewLease(t) \/ Stopped(t)

SameStage == /\ job'.status = job.status
             /\ job'.lease = job.lease
             /\ job'.checkpoint = job.checkpoint

\* What a step of t leaves alone, and how it may change the job row.
LEMMA CallKeeps ==
  ASSUME TypeOK, NEW t \in Tokens, NEW next, Call(t, next),
         NEW u \in Tokens, u # t, next[u] = exec[u]
  PROVE  /\ exec'[u] = exec[u]
         /\ SameStage \/ job'.lease = t
BY JobTypes DEF Call, Raise, SameStage, Accepted, TypeOK

\* A step of one execution leaves the others and their threads alone.
LEMMA StepKeeps ==
  ASSUME TypeOK, NEW t \in Tokens, Step(t), NEW u \in Tokens, u # t
  PROVE  /\ exec'[u] = exec[u]
         /\ thread'[u] = thread[u]
         /\ SameStage \/ job'.lease = t
<1>1. CASE ReportStart(t)
  <2> DEFINE e == [exec EXCEPT ![t].pc = "chunks", ![t].heart = "on"]
  <2>1. Call(t, e) /\ thread' = thread BY <1>1 DEF ReportStart
  <2>2. e[u] = exec[u] BY DEF TypeOK
  <2> HIDE DEF e
  <2> QED BY <2>1, <2>2, CallKeeps
<1>2. CASE ReportCheckpoint(t)
  <2> DEFINE e == [exec EXCEPT ![t].pc = Following[@]]
  <2>1. Call(t, e) /\ thread' = thread BY <1>2 DEF ReportCheckpoint
  <2>2. e[u] = exec[u] BY DEF TypeOK
  <2> HIDE DEF e
  <2> QED BY <2>1, <2>2, CallKeeps
<1>3. CASE ReportPersisting(t)
  <2> DEFINE e == [exec EXCEPT ![t].pc = "complete", ![t].heart = "off"]
  <2>1. Call(t, e) /\ thread' = thread BY <1>3 DEF ReportPersisting
  <2>2. e[u] = exec[u] BY DEF TypeOK
  <2> HIDE DEF e
  <2> QED BY <2>1, <2>2, CallKeeps
<1>4. CASE Complete(t)
  <2> DEFINE e == [exec EXCEPT ![t].pc = "ended"]
  <2>1. Call(t, e) /\ thread' = thread BY <1>4 DEF Complete
  <2>2. e[u] = exec[u] BY DEF TypeOK
  <2> HIDE DEF e
  <2> QED BY <2>1, <2>2, CallKeeps
<1>5. CASE Fail(t) BY <1>5, JobTypes DEF Fail, Go, Accepted, SameStage, TypeOK
<1>6. CASE ReadChunks(t) BY <1>6 DEF ReadChunks, Raise, SameStage, TypeOK
<1>7. CASE ReplaceChunks(t) BY <1>7 DEF ReplaceChunks, Submit, Go, SameStage, TypeOK
<1>8. CASE ExtractCharacters(t)
  BY <1>8 DEF ExtractCharacters, Submit, Go, SameStage, TypeOK
<1>9. CASE SkipCharacters(t) BY <1>9 DEF SkipCharacters, Go, SameStage, TypeOK
<1>10. CASE HandOff(t) BY <1>10 DEF HandOff, Go, SameStage, TypeOK
<1>11. CASE CompareCharacters(t)
  BY <1>11 DEF CompareCharacters, Go, Raise, SameStage, TypeOK, JobRows
<1>12. CASE ExtractWorld(t) BY <1>12 DEF ExtractWorld, Go, SameStage, TypeOK
<1>13. CASE Refused(t) BY <1>13 DEF Refused, Raise, SameStage, TypeOK
<1>14. CASE SkipWorldComparison(t)
  BY <1>14 DEF SkipWorldComparison, Go, SameStage, TypeOK
<1>15. CASE CompareWorld(t)
  BY <1>15 DEF CompareWorld, Go, Raise, SameStage, TypeOK, JobRows
<1> QED BY <1>1, <1>2, <1>3, <1>4, <1>5, <1>6, <1>7, <1>8, <1>9, <1>10, <1>11,
           <1>12, <1>13, <1>14, <1>15 DEF Step

\* So does the stop of an execution by its heartbeat, its scheduler or a crash.
LEMMA StopKeeps ==
  ASSUME TypeOK, NEW t \in Tokens, NEW h, StopExecution(t, h)
  PROVE  /\ \A u \in Tokens : u # t => exec'[u] = exec[u]
         /\ SameStage \/ job'.lease = t
BY JobTypes DEF StopExecution, Accepted, SameStage, TypeOK

\* What one execution or its thread does leaves the others alone, and Spring's stage
\* is only moved under the lease of the one that moved.
LEMMA OthersKept ==
  ASSUME TypeOK, NEW t \in Tokens, Actions(t), NEW u \in Tokens, u # t
  PROVE  /\ exec'[u] = exec[u]
         /\ thread'[u] = thread[u]
         /\ SameStage \/ job'.lease = t
<1>1. CASE Claim(t) BY <1>1 DEF Claim, TypeOK, JobRows
<1>2. CASE Step(t) BY <1>2, StepKeeps
<1>3. CASE StageFails(t) BY <1>3 DEF StageFails, Raise, SameStage, TypeOK
<1>4. ASSUME NEW seen, Commit(t, seen)
      PROVE  exec'[u] = exec[u] /\ thread'[u] = thread[u] /\ SameStage
  BY <1>4 DEF Commit, Go, SameStage, TypeOK
<1>5. CASE WriteFenced(t) BY <1>4, <1>5 DEF WriteFenced
<1>6. CASE CommitUnfenced(t) BY <1>4, <1>6 DEF CommitUnfenced
<1>7. CASE RollBack(t) BY <1>7 DEF RollBack, Raise, SameStage, TypeOK
<1>8. CASE BeginUnfenced(t) BY <1>8 DEF BeginUnfenced, SameStage, TypeOK
<1>9. CASE RenewLease(t) BY <1>9 DEF RenewLease, SameStage, TypeOK, JobRows
<1>10. CASE HeartbeatFails(t) BY <1>10, StopKeeps DEF HeartbeatFails
<1>11. CASE CancelExecution(t) BY <1>11, StopKeeps DEF CancelExecution
<1>12. CASE Crash(t) BY <1>12, StopKeeps DEF Crash, SameStage, TypeOK
<1> QED BY <1>1, <1>2, <1>3, <1>5, <1>6, <1>7, <1>8, <1>9, <1>10, <1>11, <1>12
        DEF Actions, ThreadStep, Stopped

\* A position that changes nothing about t, or changes the row under another
\* lease, keeps t's part of the invariant.
LEMMA Frame ==
  ASSUME NEW u \in Tokens, StageInvOf(u), exec'[u] = exec[u],
         thread'[u].does = thread[u].does, SameStage \/ job'.lease # u
  PROVE  StageInvOf(u)'
BY DEF StageInvOf, Accepted, SameStage

\* Moving from one position to the next.
LEMMA Moved ==
  ASSUME TypeOK, NEW t \in Tokens, StageInvOf(t),
         exec[t].pc \in AtWork \ {"failing"}, exec'[t].pc \notin Waits,
         exec'[t].resume = exec[t].resume, SameStage,
         Larger(StageNo[exec[t].resume], Passed(exec[t].pc))
            = Larger(StageNo[exec[t].resume], Passed(exec'[t].pc)),
         exec'[t].pc \in DOMAIN CheckpointAt =>
            StageNo[exec[t].resume] <= Passed(exec'[t].pc) + 1
  PROVE  StageInvOf(t)'
BY DEF StageInvOf, Accepted, SameStage, Waits

\* An execution that raises or ends is no longer at work on a stage.
LEMMA Over ==
  ASSUME NEW t \in Tokens, exec'[t].pc \in {"failing", "ended"}
  PROVE  StageInvOf(t)'
BY PositionFacts DEF StageInvOf, Waits

\* An execution that raises has nothing left to keep in step.
LEMMA RaiseOver ==
  ASSUME TypeOK, NEW t \in Tokens, Raise(t)
  PROVE  StageInvOf(t)'
<1>1. exec'[t].pc = "failing" BY DEF Raise, TypeOK, Executions
<1> QED BY <1>1, Over

\* A call keeps the invariant when its success does.
LEMMA CallStage ==
  ASSUME TypeOK, NEW t \in Tokens, NEW next, Call(t, next),
         Accepted(t) /\ job' = Effect(t) /\ exec' = next => StageInvOf(t)'
  PROVE  StageInvOf(t)'
BY RaiseOver DEF Call

\* Apart from reports, calls leave the stage alone.
LEMMA EffectFacts ==
  ASSUME TypeOK, NEW t \in Tokens
  PROVE  /\ exec[t].pc \in {"start", "persist"} => Effect(t) = job
         /\ exec[t].pc \in DOMAIN CheckpointAt =>
              Effect(t).checkpoint = CheckpointAt[exec[t].pc]
BY ReportFacts DEF Effect, TypeOK, JobRows

\* A step of an execution keeps it in step with Spring's stage.
LEMMA StepStage ==
  ASSUME TypeOK, NEW t \in Tokens, StageInvOf(t), Step(t)
  PROVE  StageInvOf(t)'
<1> DEFINE r == StageNo[exec[t].resume]
<1>0. /\ r \in 0..5
      /\ \A c \in Checkpoints : /\ Reached(t, c) => r >= StageNo[c]
                                /\ ~Reached(t, c) => r <= StageNo[c]
  <2>1. exec[t].resume \in Checkpoints BY DEF TypeOK, Executions
  <2> QED BY <2>1, CheckpointFacts DEF Reached
<1>t. /\ {"CHUNKS_READY", "CHARACTER_CANDIDATES_SAVED", "CHARACTER_COMPARISONS_HANDED_OFF",
         "CHARACTER_COMPARISONS_FINISHED", "WORLD_CANDIDATES_PUBLISHED",
         "WORLD_COMPARISONS_FINISHED"} \subseteq Checkpoints
      /\ StageNo["CHUNKS_READY"] = 1 /\ StageNo["CHARACTER_CANDIDATES_SAVED"] = 2
      /\ StageNo["CHARACTER_COMPARISONS_HANDED_OFF"] = 3
      /\ StageNo["CHARACTER_COMPARISONS_FINISHED"] = 3
      /\ StageNo["WORLD_CANDIDATES_PUBLISHED"] = 4
      /\ StageNo["WORLD_COMPARISONS_FINISHED"] = 5
  BY DEF StageNo, Checkpoints, Rank
<1>m. ASSUME NEW p \in AtWork \ Waits, exec[t].pc \in AtWork \ {"failing"}, SameStage,
             Go(t, p), Larger(r, Passed(exec[t].pc)) = Larger(r, Passed(p)),
             p \in DOMAIN CheckpointAt => r <= Passed(p) + 1
      PROVE  StageInvOf(t)'
  <2>1. exec'[t].pc = p /\ exec'[t].resume = exec[t].resume
    BY <1>m DEF Go, TypeOK, Executions
  <2> QED BY <1>m, <2>1, Moved
<1>1. CASE ReportStart(t)
  <2> DEFINE e == [exec EXCEPT ![t].pc = "chunks", ![t].heart = "on"]
  <2>1. e[t].pc = "chunks" /\ e[t].resume = exec[t].resume BY DEF TypeOK, Executions
  <2>2. exec[t].pc = "start" /\ Call(t, e) BY <1>1 DEF ReportStart, At
  <2> HIDE DEF e
  <2>3. ASSUME job' = Effect(t), exec' = e PROVE StageInvOf(t)'
    <3>1. SameStage BY <2>2, <2>3, EffectFacts DEF SameStage
    <3>2. Passed("start") = 0 /\ Passed("chunks") = 0 BY DEF Passed
    <3> QED BY <2>1, <2>2, <2>3, <3>1, <3>2, Moved, PositionFacts, ReportFacts DEF Waits
  <2> QED BY <2>2, <2>3, CallStage
<1>2. CASE ReportCheckpoint(t)
  <2> DEFINE p == exec[t].pc
  <2> DEFINE e == [exec EXCEPT ![t].pc = Following[@]]
  <2>1. p \in DOMAIN CheckpointAt /\ Call(t, e) BY <1>2 DEF ReportCheckpoint
  <2>2. e[t].pc = Following[p] /\ e[t].resume = exec[t].resume BY DEF TypeOK, Executions
  <2> HIDE DEF e
  <2>3. ASSUME Accepted(t), job' = Effect(t), exec' = e PROVE StageInvOf(t)'
    <3>1. r <= Passed(p) + 1
      BY <2>1, <2>3, PositionFacts, ReportFacts DEF StageInvOf
    <3>2. StageNo[job'.checkpoint] = Passed(p) + 1 /\ Passed(Following[p]) = Passed(p) + 1
      BY <2>1, <2>3, EffectFacts, ReportFacts
    <3>3. Following[p] \in AtWork \ (Waits \union DOMAIN CheckpointAt \union {"failing"})
      BY <2>1, ReportFacts
    <3>4. Larger(r, Passed(p) + 1) = Passed(p) + 1
      BY <1>0, <3>1, ReportFacts DEF Larger
    <3> QED BY <2>2, <2>3, <3>2, <3>3, <3>4 DEF StageInvOf, Waits
  <2> QED BY <2>1, <2>3, CallStage
<1>3. CASE ReportPersisting(t)
  <2> DEFINE e == [exec EXCEPT ![t].pc = "complete", ![t].heart = "off"]
  <2>1. e[t].pc = "complete" /\ e[t].resume = exec[t].resume BY DEF TypeOK, Executions
  <2>2. exec[t].pc = "persist" /\ Call(t, e) BY <1>3 DEF ReportPersisting, At
  <2> HIDE DEF e
  <2>3. ASSUME job' = Effect(t), exec' = e PROVE StageInvOf(t)'
    <3>1. SameStage BY <2>2, <2>3, EffectFacts DEF SameStage
    <3>2. Passed("persist") = 5 /\ Passed("complete") = 5 BY DEF Passed
    <3> QED BY <2>1, <2>2, <2>3, <3>1, <3>2, Moved, PositionFacts, ReportFacts DEF Waits
  <2> QED BY <2>2, <2>3, CallStage
<1>4. CASE Complete(t)
  <2> DEFINE e == [exec EXCEPT ![t].pc = "ended"]
  <2>1. e[t].pc = "ended" BY DEF TypeOK, Executions
  <2>2. Call(t, e) BY <1>4 DEF Complete
  <2> HIDE DEF e
  <2> QED BY <2>1, <2>2, Over, CallStage
<1>5. CASE Fail(t)
  <2>1. exec'[t].pc = "ended" BY <1>5 DEF Fail, Go, TypeOK
  <2> QED BY <2>1, Over
<1>6. CASE ReadChunks(t)
  <2>1. CASE Raise(t) BY <2>1, RaiseOver
  <2>2. CASE exec' = [exec EXCEPT ![t].pc = "character", ![t].mine = chunks]
    <3>1. exec'[t].pc = "character" /\ exec'[t].resume = exec[t].resume
      BY <2>2 DEF TypeOK, Executions
    <3>2. exec[t].pc = "chunks" /\ SameStage /\ r >= 1
      BY <1>0, <1>t, <1>6 DEF ReadChunks, At, SameStage
    <3>3. Passed("chunks") = 0 /\ Passed("character") = 1 BY DEF Passed
    <3>4. Larger(r, 0) = Larger(r, 1) BY <1>0, <3>2 DEF Larger
    <3> QED BY <3>1, <3>2, <3>3, <3>4, Moved, PositionFacts, ReportFacts DEF Waits
  <2> QED BY <1>6, <2>1, <2>2 DEF ReadChunks
<1>7. ASSUME NEW p \in {"chunksWait", "saving"}, NEW task, exec[t].pc \in AtWork \ {"failing"},
             Submit(t, task, p), job' = job, r <= Passed(p) + 1,
             Passed(exec[t].pc) = Passed(p),
             task = IF p = "chunksWait" THEN "chunks" ELSE "candidates"
      PROVE  StageInvOf(t)'
  <2>1. exec'[t].pc = p /\ exec'[t].resume = exec[t].resume /\ thread'[t].does = task
    BY <1>7 DEF Submit, Go, TypeOK, Executions
  <2> QED BY <1>7, <2>1, ReportFacts DEF StageInvOf, Accepted
<1>8. CASE ReplaceChunks(t)
  <2>1. exec[t].pc = "chunks" /\ r <= 1 BY <1>0, <1>t, <1>8 DEF ReplaceChunks, At
  <2>2. Passed("chunks") = 0 /\ Passed("chunksWait") = 0 BY DEF Passed
  <2> QED BY <1>7, <1>8, <2>1, <2>2, PositionFacts DEF ReplaceChunks
<1>9. CASE ExtractCharacters(t)
  <2>1. exec[t].pc = "character" /\ r <= 2 BY <1>0, <1>t, <1>9 DEF ExtractCharacters, At
  <2>2. Passed("character") = 1 /\ Passed("saving") = 1 BY DEF Passed
  <2> QED BY <1>7, <1>9, <2>1, <2>2, PositionFacts DEF ExtractCharacters
<1>10. CASE SkipCharacters(t)
  <2>1. exec[t].pc = "character" /\ r >= 2 /\ SameStage /\ Go(t, "compare")
    BY <1>0, <1>t, <1>10 DEF SkipCharacters, At, SameStage
  <2>2. Passed("character") = 1 /\ Passed("compare") = 2 BY DEF Passed
  <2>3. Larger(r, 1) = Larger(r, 2) BY <1>0, <2>1 DEF Larger
  <2> QED BY <1>m, <2>1, <2>2, <2>3, PositionFacts, ReportFacts DEF Waits
<1>11. ASSUME NEW o, NEW p \in AtWork \ Waits, NEW q \in DOMAIN CheckpointAt,
              exec[t].pc = o, o \in AtWork \ {"failing"}, SameStage, Passed(q) = Passed(o),
              p \notin DOMAIN CheckpointAt, Passed(p) = Passed(o) + 1,
              \/ Go(t, p) /\ r >= Passed(o) + 1
              \/ Go(t, q) /\ r <= Passed(o) + 1
       PROVE  StageInvOf(t)'
  <2>1. Passed(o) \in 0..5 BY ReportFacts
  <2>2. q \in AtWork \ Waits BY ReportFacts, PositionFacts DEF Waits
  <2>3. CASE Go(t, p) /\ r >= Passed(o) + 1
    <3>1. Larger(r, Passed(o)) = Larger(r, Passed(p)) BY <1>0, <1>11, <2>1, <2>3 DEF Larger
    <3> QED BY <1>m, <1>11, <2>3, <3>1
  <2>4. CASE Go(t, q) /\ r <= Passed(o) + 1 BY <1>m, <1>11, <2>2, <2>4
  <2> QED BY <1>11, <2>3, <2>4
<1>p. /\ Passed("compare") = 2 /\ Passed("handedOff") = 2 /\ Passed("compared") = 2
      /\ Passed("world") = 3 /\ Passed("publish") = 3
      /\ Passed("worldCompare") = 4 /\ Passed("worldCompared") = 4 /\ Passed("persist") = 5
  BY DEF Passed
<1>q. /\ {"compare", "world", "worldCompare", "persist"}
            \subseteq AtWork \ (Waits \union DOMAIN CheckpointAt \union {"failing"})
      /\ {"handedOff", "compared", "publish", "worldCompared"} \subseteq DOMAIN CheckpointAt
  BY PositionFacts, ReportFacts DEF Waits
<1>12. CASE HandOff(t)
  <2>1. exec[t].pc = "compare" /\ SameStage BY <1>12 DEF HandOff, At, SameStage
  <2>2. \/ Go(t, "world") /\ r >= 3
        \/ Go(t, "handedOff") /\ r <= 3
    BY <1>0, <1>t, <1>12 DEF HandOff
  <2> QED BY <1>11, <1>p, <1>q, <2>1, <2>2
<1>13. CASE CompareCharacters(t)
  <2>1. exec[t].pc = "compare" /\ SameStage
    BY <1>13 DEF CompareCharacters, At, SameStage, TypeOK, JobRows
  <2>2. \/ Raise(t)
        \/ Go(t, "world") /\ r >= 3
        \/ Go(t, "compared") /\ r <= 3
    BY <1>0, <1>t, <1>13 DEF CompareCharacters
  <2>3. CASE Raise(t) BY <2>3, RaiseOver
  <2> QED BY <1>11, <1>p, <1>q, <2>1, <2>2, <2>3
<1>14. CASE ExtractWorld(t)
  <2>1. exec[t].pc = "world" /\ SameStage BY <1>14 DEF ExtractWorld, At, SameStage
  <2>2. \/ Go(t, "worldCompare") /\ r >= 4
        \/ Go(t, "publish") /\ r <= 4
    BY <1>0, <1>t, <1>14 DEF ExtractWorld
  <2> QED BY <1>11, <1>p, <1>q, <2>1, <2>2
<1>15. CASE Refused(t) BY <1>15, RaiseOver DEF Refused
<1>16. CASE SkipWorldComparison(t)
  <2>1. exec[t].pc = "worldCompare" /\ SameStage /\ Go(t, "persist") /\ r >= 5
    BY <1>0, <1>t, <1>16 DEF SkipWorldComparison, At, SameStage
  <2> QED BY <1>11, <1>p, <1>q, <2>1
<1>17. CASE CompareWorld(t)
  <2>1. exec[t].pc = "worldCompare" /\ SameStage
    BY <1>17 DEF CompareWorld, At, SameStage, TypeOK, JobRows
  <2>2. \/ Raise(t)
        \/ Go(t, "persist") /\ r >= 5
        \/ Go(t, "worldCompared") /\ r <= 5
    BY <1>0, <1>t, <1>17 DEF CompareWorld
  <2>3. CASE Raise(t) BY <2>3, RaiseOver
  <2> QED BY <1>11, <1>p, <1>q, <2>1, <2>2, <2>3
<1> QED BY <1>1, <1>2, <1>3, <1>4, <1>5, <1>6, <1>8, <1>9, <1>10, <1>12, <1>13, <1>14,
           <1>15, <1>16, <1>17 DEF Step

\* The commit of an execution's thread keeps it in step with Spring's stage.
LEMMA CommitStage ==
  ASSUME TypeOK, NEW t \in Tokens, StageInvOf(t), NEW seen, Commit(t, seen),
         thread[t].does # "nothing"
  PROVE  StageInvOf(t)'
<1>0. Passed("chunksWait") = 0 /\ Passed("chunksReady") = 0
      /\ Passed("saving") = 1 /\ Passed("saved") = 1
  BY DEF Passed
<1>1. CASE ~Attached(t)
  BY <1>1, PositionFacts DEF Commit, Attached, StageInvOf, Waits, Accepted
<1>2. CASE Attached(t)
  <2>1. PICK p \in {"chunksReady", "saved"} :
          /\ exec'[t].pc = p /\ Passed(p) = Passed(exec[t].pc)
          /\ exec'[t].resume = exec[t].resume
    <3>1. \/ exec[t].pc = "chunksWait" /\ thread[t].does = "chunks"
          \/ exec[t].pc = "saving" /\ thread[t].does = "candidates"
      BY <1>2 DEF Attached, StageInvOf, Waits
    <3> QED BY <1>0, <1>2, <3>1 DEF Commit, Go, TypeOK, Executions
  <2>2. exec[t].pc \in Waits /\ SameStage
    BY <1>2 DEF Commit, Attached, SameStage
  <2> QED BY <2>1, <2>2, PositionFacts DEF StageInvOf, Accepted, SameStage, Waits
<1> QED BY <1>1, <1>2

\* Every step of an execution, of its thread or of its heartbeat keeps what
\* StageInv says of that execution.
LEMMA OwnStage ==
  ASSUME TypeOK, NEW t \in Tokens, StageInvOf(t), Actions(t)
  PROVE  StageInvOf(t)'
<1>1. CASE Claim(t)
  <2>1. PICK p \in {"start", "ended"} :
          /\ exec'[t].pc = p /\ exec'[t].resume = job.checkpoint
          /\ job'.checkpoint = job.checkpoint
    BY <1>1 DEF Claim, TypeOK, Executions, JobRows
  <2>2. CASE p = "ended" BY <2>1, <2>2, Over
  <2>3. CASE p = "start"
    <3>1. Larger(StageNo[job.checkpoint], Passed("start")) = StageNo[job.checkpoint]
      BY CheckpointFacts DEF Larger, Passed, TypeOK, JobRows
    <3> QED BY <2>1, <2>3, <3>1, PositionFacts, ReportFacts DEF StageInvOf, Waits
  <2> QED BY <2>1, <2>2, <2>3
<1>2. CASE Step(t) BY <1>2, StepStage
<1>3. CASE StageFails(t) BY <1>3, RaiseOver DEF StageFails
<1>4. CASE WriteFenced(t) BY <1>4, CommitStage DEF WriteFenced
<1>5. CASE CommitUnfenced(t) BY <1>5, CommitStage DEF CommitUnfenced
<1>6. CASE RollBack(t)
  <2>1. CASE Attached(t) BY <1>6, <2>1, RaiseOver DEF RollBack
  <2>2. CASE ~Attached(t)
    BY <1>6, <2>2 DEF RollBack, Attached, StageInvOf, Waits, Accepted
  <2> QED BY <2>1, <2>2
<1>7. CASE BeginUnfenced(t)
  <2>1. thread'[t].does = thread[t].does BY <1>7 DEF BeginUnfenced, TypeOK, Transactions
  <2> QED BY <1>7, <2>1, Frame DEF BeginUnfenced, SameStage
<1>8. CASE RenewLease(t)
  <2>1. SameStage BY <1>8 DEF RenewLease, SameStage, TypeOK, JobRows
  <2> QED BY <1>8, <2>1, Frame DEF RenewLease
<1>9. ASSUME NEW h, StopExecution(t, h) PROVE StageInvOf(t)'
  <2>1. exec'[t].pc = "ended" BY <1>9 DEF StopExecution, TypeOK, Executions
  <2> QED BY <2>1, Over
<1>10. CASE HeartbeatFails(t) BY <1>9, <1>10 DEF HeartbeatFails
<1>11. CASE CancelExecution(t) BY <1>9, <1>11 DEF CancelExecution
<1>12. CASE Crash(t)
  <2>1. CASE exec[t].pc \in AtWork BY <1>9, <1>12, <2>1 DEF Crash
  <2>2. CASE exec[t].pc \notin AtWork
    BY <1>12, <2>2, PositionFacts DEF Crash, StageInvOf
  <2> QED BY <2>1, <2>2
<1> QED BY <1>1, <1>2, <1>3, <1>4, <1>5, <1>6, <1>7, <1>8, <1>10, <1>11, <1>12
        DEF Actions, ThreadStep, Stopped

\* Every step keeps all executions in step with Spring's stage.
LEMMA StageStep == ASSUME TypeOK, StageInv, Next PROVE StageInv'
<1> SUFFICES ASSUME NEW u \in Tokens PROVE StageInvOf(u)' BY DEF StageInv
<1>0. StageInvOf(u) BY DEF StageInv
<1>1. ASSUME NEW t \in Tokens, Actions(t) PROVE StageInvOf(u)'
  <2>1. CASE u = t BY <1>0, <1>1, <2>1, OwnStage
  <2>2. CASE u # t
    <3>1. exec'[u] = exec[u] /\ thread'[u] = thread[u] /\ (SameStage \/ job'.lease = t)
      BY <1>1, <2>2, OthersKept
    <3> QED BY <1>0, <2>2, <3>1, Frame
  <2> QED BY <2>1, <2>2
<1>2. CASE LeaseExpires
  <2>1. SameStage BY <1>2 DEF LeaseExpires, SameStage, TypeOK, JobRows
  <2> QED BY <1>0, <1>2, <2>1, Frame DEF LeaseExpires
<1>3. CASE EditSource BY <1>0, <1>3, Frame DEF EditSource, SameStage
<1> QED BY <1>1, <1>2, <1>3 DEF Next, Actions

\* Of every behaviour: the execution that holds the lease and the job's row
\* agree on how far the job has come (see StageInv).
THEOREM StagesAgree == Spec => []StageInv
<1>1. Init => StageInv
  BY PositionFacts DEF Init, StageInv, StageInvOf, Accepted, Waits
<1>2. TypeOK /\ StageInv /\ [Next]_vars => StageInv'
  <2>1. ASSUME UNCHANGED vars, StageInv PROVE StageInv'
    BY <2>1 DEF vars, StageInv, StageInvOf, Accepted
  <2> QED BY <2>1, StageStep
<1> QED BY <1>1, <1>2, TypeCorrect, PTL DEF Spec

-----------------------------------------------------------------------------
\* Refinement

\* Only a claim and the calls made under the current lease change the row.
LEMMA JobStep ==
  ASSUME TypeOK, NEW t \in Tokens, Actions(t)
  PROVE  \/ SameStage
         \/ Accepted(t) /\ job' = Effect(t)
         \/ Claim(t)
<1>1. ASSUME NEW next, Call(t, next)
      PROVE  SameStage \/ (Accepted(t) /\ job' = Effect(t))
  BY <1>1 DEF Call, SameStage
<1>2. CASE ReportStart(t) BY <1>1, <1>2 DEF ReportStart
<1>3. CASE ReportCheckpoint(t) BY <1>1, <1>3 DEF ReportCheckpoint
<1>4. CASE ReportPersisting(t) BY <1>1, <1>4 DEF ReportPersisting
<1>5. CASE Complete(t) BY <1>1, <1>5 DEF Complete
<1>6. CASE Fail(t) BY <1>6 DEF Fail, SameStage
<1>7. CASE \/ ReadChunks(t) \/ ReplaceChunks(t) \/ ExtractCharacters(t)
           \/ SkipCharacters(t) \/ HandOff(t) \/ ExtractWorld(t) \/ Refused(t)
           \/ SkipWorldComparison(t)
  BY <1>7 DEF ReadChunks, ReplaceChunks, ExtractCharacters, SkipCharacters, HandOff,
     ExtractWorld, Refused, SkipWorldComparison, SameStage
<1>8. CASE CompareCharacters(t) \/ CompareWorld(t)
  BY <1>8 DEF CompareCharacters, CompareWorld, SameStage, TypeOK, JobRows
<1>9. CASE StageFails(t) BY <1>9 DEF StageFails, SameStage
<1>10. CASE ThreadStep(t)
  BY <1>10 DEF ThreadStep, WriteFenced, CommitUnfenced, RollBack, BeginUnfenced, Commit,
     SameStage
<1>11. CASE RenewLease(t) BY <1>11 DEF RenewLease, SameStage, TypeOK, JobRows
<1>12. CASE Stopped(t)
  BY <1>12 DEF Stopped, HeartbeatFails, CancelExecution, Crash, StopExecution, SameStage
<1> QED BY <1>2, <1>3, <1>4, <1>5, <1>6, <1>7, <1>8, <1>9, <1>10, <1>11, <1>12
        DEF Actions, Step

\* A call applied to the row is a step of the contract or changes nothing in it.
LEMMA EffectRefines ==
  ASSUME TypeOK, NEW t \in Tokens, StageInvOf(t), Accepted(t), job' = Effect(t)
  PROVE  Contract!Next \/ UNCHANGED <<job.status, StageNo[job.checkpoint]>>
<1> DEFINE p == exec[t].pc
<1>0. /\ StageNo[job.checkpoint] \in 0..5 /\ StageNo[exec[t].resume] \in 0..5
      /\ Passed(p) \in 0..5 /\ job.status = "RUNNING"
  BY CheckpointFacts, ReportFacts DEF TypeOK, JobRows, Executions, Accepted
<1>1. p # "complete" /\ p # "failing" => job'.status = job.status
  BY ReportFacts DEF Effect, TypeOK, JobRows
<1>2. p \notin DOMAIN CheckpointAt => job'.checkpoint = job.checkpoint
  BY DEF Effect, TypeOK, JobRows
<1>3. CASE p \in DOMAIN CheckpointAt
  <2>1. StageNo[job.checkpoint] = Larger(StageNo[exec[t].resume], Passed(p))
        /\ StageNo[exec[t].resume] <= Passed(p) + 1
    BY <1>3, PositionFacts, ReportFacts DEF StageInvOf
  <2>2. job'.checkpoint = CheckpointAt[p] /\ StageNo[CheckpointAt[p]] = Passed(p) + 1
    BY <1>3, EffectFacts, ReportFacts
  <2>3. p # "complete" /\ p # "failing" BY <1>3, ReportFacts
  <2>4. Passed(p) + 1 \in 0..5 BY <1>3, <2>2, ReportFacts, CheckpointFacts
  <2>5. StageNo[job.checkpoint] \in {Passed(p), Passed(p) + 1}
    BY <1>0, <2>1 DEF Larger
  <2> QED BY <1>0, <1>1, <2>2, <2>3, <2>4, <2>5 DEF Contract!Next, Contract!Advance
<1>4. CASE p = "complete"
  <2>1. StageNo[job.checkpoint] = Larger(StageNo[exec[t].resume], Passed(p))
    BY <1>4, PositionFacts DEF StageInvOf
  <2>2. Passed(p) = 5 BY <1>4 DEF Passed
  <2>3. job'.status = "SUCCEEDED" /\ job'.checkpoint = job.checkpoint
    BY <1>4, ReportFacts DEF Effect, TypeOK, JobRows
  <2> QED BY <1>0, <2>1, <2>2, <2>3 DEF Larger, Contract!Next, Contract!Succeed
<1>5. CASE p = "failing"
  <2>1. job'.status = "FAILED" /\ job'.checkpoint = job.checkpoint
    BY <1>5, ReportFacts DEF Effect, TypeOK, JobRows
  <2> QED BY <1>0, <2>1 DEF Contract!Next, Contract!Fail
<1> QED BY <1>1, <1>2, <1>3, <1>4, <1>5

\* Every job implements the stage contract: whatever executions take it over,
\* lose answers or are left behind, its checkpoints come one by one and in
\* order, and it succeeds only after the last.
THEOREM StagesRefine == Spec => ImplementsStages
<1>1. Init => Contract!Init BY DEF Init, Contract!Init, StageNo
<1>2. TypeOK /\ StageInv /\ [Next]_vars
        => [Contract!Next]_<<job.status, StageNo[job.checkpoint]>>
  <2> SUFFICES ASSUME TypeOK, StageInv, [Next]_vars
               PROVE  Contract!Next \/ UNCHANGED <<job.status, StageNo[job.checkpoint]>>
    OBVIOUS
  <2>1. CASE UNCHANGED vars BY <2>1 DEF vars
  <2>2. ASSUME NEW t \in Tokens, Actions(t)
        PROVE  Contract!Next \/ UNCHANGED <<job.status, StageNo[job.checkpoint]>>
    <3>1. CASE SameStage BY <3>1 DEF SameStage
    <3>2. CASE Accepted(t) /\ job' = Effect(t) BY <3>2, EffectRefines DEF StageInv
    <3>3. CASE Claim(t)
      BY <3>3 DEF Claim, TypeOK, JobRows, Contract!Next, Contract!Start
    <3> QED BY <2>2, <3>1, <3>2, <3>3, JobStep
  <2>3. CASE LeaseExpires BY <2>3 DEF LeaseExpires, TypeOK, JobRows
  <2>4. CASE EditSource BY <2>4 DEF EditSource
  <2> QED BY <2>1, <2>2, <2>3, <2>4 DEF Next, Actions
<1> QED BY <1>1, <1>2, TypeCorrect, StagesAgree, PTL DEF Spec, ImplementsStages, Contract!Spec

-----------------------------------------------------------------------------
\* Silence

\* What was stopped has ended, whether by its heartbeat, its scheduler or a crash.
StoppedHasEnded == \A t \in Tokens : exec[t].stopped => exec[t].pc = "ended"

\* No step brings a stopped execution back.
LEMMA StoppedStep == ASSUME TypeOK, StoppedHasEnded, Next PROVE StoppedHasEnded'
<1> SUFFICES ASSUME NEW u \in Tokens, exec'[u].stopped PROVE exec'[u].pc = "ended"
  BY DEF StoppedHasEnded
<1>0. exec[u].stopped => exec[u].pc = "ended" BY DEF StoppedHasEnded
<1>1. ASSUME NEW t \in Tokens, Actions(t) PROVE exec'[u].pc = "ended"
  <2>0. CASE exec'[u] = exec[u] BY <1>0, <2>0
  <2>1. CASE u # t BY <1>1, <2>0, <2>1, OthersKept
  <2>2. CASE u = t /\ (exec'[t].pc = "ended" \/ (exec'[t].stopped = exec[t].stopped
                                                /\ exec[t].pc # "ended"))
    BY <1>0, <2>2
  <2>3. ASSUME exec[t].pc # "ended", Raise(t)
        PROVE  exec'[t].stopped = exec[t].stopped
    BY <2>3 DEF Raise, TypeOK, Executions
  <2>4. ASSUME NEW p, Go(t, p) PROVE exec'[t].stopped = exec[t].stopped
    BY <2>4 DEF Go, TypeOK, Executions
  <2>5. CASE Claim(t)
    BY <2>0, <2>1, <2>2, <2>5 DEF Claim, At, TypeOK, Executions
  <2>6. CASE Step(t)
    <3>1. exec[t].pc \in AtWork
      <4>1. CASE ReportCheckpoint(t) BY <4>1, PositionFacts, ReportFacts DEF ReportCheckpoint
      <4>2. CASE \/ ReportStart(t) \/ ReportPersisting(t) \/ Complete(t) \/ Fail(t)
                 \/ ReadChunks(t) \/ ReplaceChunks(t) \/ ExtractCharacters(t)
                 \/ SkipCharacters(t)
        BY <4>2, PositionFacts DEF At, ReportStart, ReportPersisting, Complete, Fail,
           ReadChunks, ReplaceChunks, ExtractCharacters, SkipCharacters
      <4>3. CASE \/ HandOff(t) \/ CompareCharacters(t) \/ ExtractWorld(t) \/ Refused(t)
                 \/ SkipWorldComparison(t) \/ CompareWorld(t)
        BY <4>3, PositionFacts DEF At, HandOff, CompareCharacters, ExtractWorld, Refused,
           SkipWorldComparison, CompareWorld
      <4> QED BY <2>6, <4>1, <4>2, <4>3 DEF Step
    <3>2. exec[t].pc # "ended" BY <3>1, PositionFacts
    <3>3. exec'[t].stopped = exec[t].stopped
      <4>1. CASE \/ ReportStart(t) \/ ReportCheckpoint(t) \/ ReportPersisting(t) \/ Complete(t)
        BY <2>3, <3>2, <4>1 DEF ReportStart, ReportCheckpoint, ReportPersisting, Complete,
           Call, TypeOK, Executions
      <4>2. CASE \/ Fail(t) \/ SkipCharacters(t) \/ HandOff(t) \/ ExtractWorld(t)
                 \/ SkipWorldComparison(t) \/ ReplaceChunks(t) \/ ExtractCharacters(t)
        BY <2>4, <4>2 DEF Fail, SkipCharacters, HandOff, ExtractWorld, SkipWorldComparison,
           ReplaceChunks, ExtractCharacters, Submit
      <4>3. CASE \/ ReadChunks(t) \/ Refused(t)
        BY <2>3, <3>2, <4>3 DEF ReadChunks, Refused, TypeOK, Executions
      <4>4. CASE \/ CompareCharacters(t) \/ CompareWorld(t)
        BY <2>3, <2>4, <3>2, <4>4 DEF CompareCharacters, CompareWorld
      <4> QED BY <2>6, <4>1, <4>2, <4>3, <4>4 DEF Step
    <3> QED BY <2>1, <2>2, <3>2, <3>3
  <2>7. CASE StageFails(t)
    <3>1. exec[t].pc # "ended" BY <2>7, PositionFacts DEF StageFails, Stages
    <3> QED BY <2>1, <2>2, <2>3, <2>7, <3>1 DEF StageFails
  <2>8. CASE ThreadStep(t)
    <3>1. ASSUME exec[t].pc \in Waits PROVE exec[t].pc # "ended" BY <3>1 DEF Waits
    <3>2. ASSUME NEW seen, Commit(t, seen) PROVE exec'[u].pc = "ended"
      <4>1. CASE ~Attached(t) BY <2>0, <3>2, <4>1 DEF Commit
      <4>2. CASE Attached(t)
        <5>1. exec'[t].stopped = exec[t].stopped
          BY <2>4, <3>2, <4>2 DEF Commit, TypeOK, Executions
        <5> QED BY <2>1, <2>2, <3>1, <4>2, <5>1 DEF Attached
      <4> QED BY <4>1, <4>2
    <3>3. CASE WriteFenced(t) BY <3>2, <3>3 DEF WriteFenced
    <3>4. CASE CommitUnfenced(t) BY <3>2, <3>4 DEF CommitUnfenced
    <3>5. CASE RollBack(t) /\ Attached(t)
      BY <2>1, <2>2, <2>3, <3>1, <3>5 DEF RollBack, Attached
    <3>6. CASE RollBack(t) /\ ~Attached(t) BY <2>0, <3>6 DEF RollBack
    <3>7. CASE BeginUnfenced(t) BY <2>0, <3>7 DEF BeginUnfenced
    <3> QED BY <2>8, <3>3, <3>4, <3>5, <3>6, <3>7 DEF ThreadStep
  <2>9. CASE RenewLease(t) BY <2>0, <2>9 DEF RenewLease
  <2>10. ASSUME NEW h, StopExecution(t, h) PROVE exec'[u].pc = "ended"
    <3>1. exec'[t].pc = "ended" BY <2>10 DEF StopExecution, TypeOK, Executions
    <3> QED BY <2>1, <2>2, <3>1
  <2>11. CASE Stopped(t)
    BY <2>0, <2>10, <2>11 DEF Stopped, HeartbeatFails, CancelExecution, Crash
  <2> QED BY <1>1, <2>5, <2>6, <2>7, <2>8, <2>9, <2>11 DEF Actions
<1>2. CASE LeaseExpires BY <1>0, <1>2 DEF LeaseExpires
<1>3. CASE EditSource BY <1>0, <1>3 DEF EditSource
<1> QED BY <1>1, <1>2, <1>3 DEF Next, Actions

\* An execution that was cancelled, crashed or lost its heartbeat never ends the
\* job later: only a call of an execution still at work changes the status.
THEOREM StoppedStaysSilent == Spec => StoppedWorkerStaysSilent
<1>1. Init => StoppedHasEnded BY DEF Init, StoppedHasEnded
<1>2. TypeOK /\ StoppedHasEnded /\ [Next]_vars => StoppedHasEnded'
  <2>1. ASSUME UNCHANGED vars, StoppedHasEnded PROVE StoppedHasEnded'
    BY <2>1 DEF vars, StoppedHasEnded
  <2> QED BY <2>1, StoppedStep
<1>3. TypeOK /\ StoppedHasEnded /\ [Next]_vars =>
        [job.status = "RUNNING" /\ job'.status # "RUNNING" => ~exec[job.lease].stopped]_vars
  <2> SUFFICES ASSUME TypeOK, StoppedHasEnded, [Next]_vars,
                      job.status = "RUNNING", job'.status # "RUNNING"
               PROVE  ~exec[job.lease].stopped
    OBVIOUS
  <2>1. CASE UNCHANGED vars BY <2>1 DEF vars
  <2>2. ASSUME NEW t \in Tokens, Actions(t) PROVE ~exec[job.lease].stopped
    <3>1. Accepted(t) /\ job' = Effect(t)
      BY <2>2, JobStep DEF SameStage, Claim, TypeOK, JobRows
    <3>2. exec[t].pc # "ended"
      BY <3>1, ReportFacts DEF Effect
    <3> QED BY <3>1, <3>2 DEF StoppedHasEnded, Accepted
  <2>3. CASE LeaseExpires BY <2>3 DEF LeaseExpires, TypeOK, JobRows
  <2>4. CASE EditSource BY <2>4 DEF EditSource
  <2> QED BY <2>1, <2>2, <2>3, <2>4 DEF Next, Actions
<1> QED BY <1>1, <1>2, <1>3, TypeCorrect, PTL DEF Spec, StoppedWorkerStaysSilent

-----------------------------------------------------------------------------
\* The fence

\* An ordered job's threads write in one piece, under the fence.
NothingBegun == Ordered => \A t \in Tokens : ~thread[t].began

\* A job that is ordered never stores the rows of two runs.
OneReplacement == Ordered => \A c, d \in candidates : c = d

\* Under the fence, a step neither leaves a replacement half done nor mixes two runs, and
\* changes no row that was reported as saved.
LEMMA FenceStep ==
  ASSUME TypeOK, Ordered, NothingBegun, OneReplacement, Next
  PROVE  /\ Ordered' /\ NothingBegun' /\ OneReplacement'
         /\ Rank[job.checkpoint] >= 2 => UNCHANGED <<chunks, candidates>>
<1>1. ASSUME UNCHANGED <<mode, chunks, candidates>>,
             \A u \in Tokens : thread'[u].began => thread[u].began
      PROVE  /\ Ordered' /\ NothingBegun' /\ OneReplacement'
             /\ Rank[job.checkpoint] >= 2 => UNCHANGED <<chunks, candidates>>
  BY <1>1 DEF Ordered, NothingBegun, OneReplacement
<1>2. ASSUME NEW t \in Tokens, NEW s \in Transactions, thread' = [thread EXCEPT ![t] = s],
             ~s.began
      PROVE  \A u \in Tokens : thread'[u].began => thread[u].began
  BY <1>2 DEF TypeOK
<1>3. ~NoThread.began /\ NoThread \in Transactions
  <2>1. {} \in SUBSET ChunkRows OBVIOUS
  <2> QED BY <2>1 DEF NoThread, Transactions
<1>4. ASSUME NEW t \in Tokens, NEW task \in {"chunks", "candidates"}
      PROVE  /\ [does |-> task, began |-> FALSE, seen |-> {}] \in Transactions
             /\ ~[does |-> task, began |-> FALSE, seen |-> {}].began
  <2>1. {} \in SUBSET ChunkRows OBVIOUS
  <2> QED BY <2>1 DEF Transactions
<1>5. ASSUME NEW t \in Tokens, WriteFenced(t)
      PROVE  /\ Ordered' /\ NothingBegun' /\ OneReplacement'
             /\ Rank[job.checkpoint] >= 2 => UNCHANGED <<chunks, candidates>>
  <2> DEFINE seen == IF thread[t].does = "chunks" THEN chunks ELSE candidates
  <2>1. Commit(t, seen) /\ Rank[job.checkpoint] <= 1
    <3>1. Rank[job.checkpoint] \in 0..6 BY CheckpointFacts DEF TypeOK, JobRows
    <3> QED BY <1>5, <3>1 DEF WriteFenced, Fence
  <2>2. Rank[job.checkpoint] \in 0..6 BY CheckpointFacts DEF TypeOK, JobRows
  <2>3. Ordered' /\ NothingBegun'
    <3>1. \A u \in Tokens : thread'[u].began => thread[u].began
      BY <1>2, <1>3, <2>1 DEF Commit
    <3> QED BY <2>1, <3>1 DEF Commit, Ordered, NothingBegun
  <2>4. OneReplacement'
    <3>1. CASE thread[t].does = "chunks"
      BY <2>1, <2>3, <3>1 DEF Commit, OneReplacement
    <3>2. CASE thread[t].does = "candidates"
      <4>1. candidates' = {[by |-> t, from |-> exec[t].mine]}
        BY <2>1, <3>2 DEF Commit, Replaced
      <4> QED BY <4>1 DEF OneReplacement
    <3>3. thread[t].does \in {"chunks", "candidates"}
      BY <1>5 DEF WriteFenced, TypeOK, Transactions
    <3> QED BY <3>1, <3>2, <3>3
  <2> QED BY <2>1, <2>2, <2>3, <2>4
<1>7. ASSUME NEW t \in Tokens, Actions(t), ~WriteFenced(t)
      PROVE  /\ UNCHANGED <<mode, chunks, candidates>>
             /\ \A u \in Tokens : thread'[u].began => thread[u].began
  <2>1. ~CommitUnfenced(t) /\ ~BeginUnfenced(t)
    BY DEF CommitUnfenced, BeginUnfenced, NothingBegun
  <2>2. CASE Claim(t) BY <2>2 DEF Claim
  <2>3. CASE Step(t)
    <3>1. CASE ReplaceChunks(t) \/ ExtractCharacters(t)
      BY <1>2, <1>4, <3>1 DEF ReplaceChunks, ExtractCharacters, Submit
    <3>2. CASE ~(ReplaceChunks(t) \/ ExtractCharacters(t))
      BY <2>3, <3>2 DEF Step, ReportStart, ReportCheckpoint, ReportPersisting, Complete,
         Fail, ReadChunks, SkipCharacters, HandOff, CompareCharacters, ExtractWorld,
         Refused, SkipWorldComparison, CompareWorld
    <3> QED BY <3>1, <3>2
  <2>4. CASE StageFails(t) BY <2>4 DEF StageFails
  <2>5. CASE ThreadStep(t) BY <1>2, <1>3, <1>7, <2>1, <2>5 DEF ThreadStep, RollBack
  <2>6. CASE RenewLease(t) BY <2>6 DEF RenewLease
  <2>7. CASE Stopped(t)
    BY <1>2, <1>3, <2>7 DEF Stopped, HeartbeatFails, CancelExecution, Crash
  <2> QED BY <1>7, <2>2, <2>3, <2>4, <2>5, <2>6, <2>7 DEF Actions
<1>8. CASE LeaseExpires BY <1>1, <1>8 DEF LeaseExpires
<1>9. CASE EditSource BY <1>1, <1>9 DEF EditSource
<1> QED BY <1>1, <1>5, <1>7, <1>8, <1>9 DEF Next, Actions

FenceInv == Ordered => NothingBegun /\ OneReplacement

\* So the rows of an ordered job are those of one run at all times.
LEMMA FenceInvariant ==
  /\ Init => FenceInv
  /\ TypeOK /\ FenceInv /\ [Next]_vars => FenceInv'
<1>1. Init => FenceInv BY DEF Init, FenceInv, NothingBegun, OneReplacement, NoThread
<1>2. ASSUME TypeOK, FenceInv, [Next]_vars PROVE FenceInv'
  <2>1. CASE UNCHANGED vars
    BY <1>2, <2>1 DEF vars, FenceInv, NothingBegun, OneReplacement, Ordered
  <2>2. CASE Next /\ Ordered BY <1>2, <2>2, FenceStep DEF FenceInv
  <2>3. CASE Next /\ ~Ordered
    <3>1. mode' = mode
      BY <2>3 DEF Next, Claim, Step, StageFails, ThreadStep, RenewLease, Stopped,
         LeaseExpires, EditSource, ReportStart, ReportCheckpoint, ReportPersisting, Complete,
         Fail, ReadChunks, ReplaceChunks, ExtractCharacters, SkipCharacters, HandOff,
         CompareCharacters, ExtractWorld, Refused, SkipWorldComparison, CompareWorld,
         WriteFenced, CommitUnfenced, Commit, RollBack, BeginUnfenced, HeartbeatFails,
         CancelExecution, Crash
    <3> QED BY <2>3, <3>1 DEF FenceInv, Ordered
  <2> QED BY <1>2, <2>1, <2>2, <2>3
<1> QED BY <1>1, <1>2

\* Once an ordered job has reported its candidates as saved, no step of any
\* execution, and no thread an execution left behind, changes them or the chunks
\* they were taken from.
THEOREM SavedRowsStay == Spec => SavedRowsFrozen
<1>1. TypeOK /\ FenceInv /\ [Next]_vars =>
        [Ordered /\ Rank[job.checkpoint] >= 2 => UNCHANGED <<chunks, candidates>>]_vars
  BY FenceStep DEF FenceInv, vars
<1> QED BY <1>1, FenceInvariant, TypeCorrect, PTL DEF Spec, SavedRowsFrozen

\* An ordered job ends with the candidates of one run, however many executions
\* and threads wrote them.
THEOREM CandidatesOfOneRun == Spec => []OrderedKeepsOneRun
<1>1. FenceInv => OrderedKeepsOneRun
  BY DEF FenceInv, OneReplacement, NoDuplicateCandidates, OrderedKeepsOneRun, Ordered
<1> QED BY <1>1, FenceInvariant, TypeCorrect, PTL DEF Spec

-----------------------------------------------------------------------------
\* Comparison

Terminal == {"settled", "failed"}

\* The positions of an execution that has the comparison of the characters, or
\* that of the worlds, behind it.
PassedCharacters == {"handedOff", "compared", "world", "publish", "worldCompare",
                     "worldCompared", "persist", "complete"}
PassedWorlds == {"worldCompared", "persist", "complete"}

\* The row has candidates to compare once they are published, and terminal ones
\* at the checkpoint of the next domain.
RowCompared ==
  /\ StageNo[job.checkpoint] >= 2 => job.characters # "none"
  /\ StageNo[job.checkpoint] >= 3 => job.characters \in Terminal
  /\ StageNo[job.checkpoint] >= 4 => job.worlds # "none"
  /\ StageNo[job.checkpoint] >= 5 => job.worlds \in Terminal

\* So has whoever works under the lease beyond a comparison.
ComparedOf(t) ==
  Accepted(t) => /\ exec[t].pc \in PassedCharacters => job.characters \in Terminal
                 /\ exec[t].pc \in PassedWorlds => job.worlds \in Terminal

FailedOver == \A t \in Tokens : job.failedBy = t => exec[t].pc \in {"failing", "ended"}

ComparedInv == Ordered => /\ RowCompared /\ FailedOver
                          /\ \A t \in Tokens : ComparedOf(t)
\* All of the job row but the liveness of its lease.
SameRow == /\ SameStage
           /\ job'.characters = job.characters
           /\ job'.worlds = job.worlds
           /\ job'.failedBy = job.failedBy

\* The row is changed by a claim, by a call made under the current lease or by a
\* comparison.
LEMMA RowStep ==
  ASSUME TypeOK, NEW t \in Tokens, Actions(t),
         ~CompareCharacters(t), ~CompareWorld(t), ~Claim(t)
  PROVE  SameRow \/ (Accepted(t) /\ job' = Effect(t))
<1>0. ASSUME UNCHANGED job PROVE SameRow BY <1>0 DEF SameRow, SameStage
<1>1. ASSUME NEW next, Call(t, next)
      PROVE  UNCHANGED job \/ (Accepted(t) /\ job' = Effect(t))
  BY <1>1 DEF Call
<1>2. CASE \/ ReportStart(t) \/ ReportCheckpoint(t) \/ ReportPersisting(t) \/ Complete(t)
           \/ Fail(t)
  BY <1>0, <1>1, <1>2 DEF ReportStart, ReportCheckpoint, ReportPersisting, Complete, Fail
<1>3. CASE \/ ReadChunks(t) \/ ReplaceChunks(t) \/ ExtractCharacters(t)
           \/ SkipCharacters(t) \/ HandOff(t) \/ ExtractWorld(t) \/ Refused(t)
           \/ SkipWorldComparison(t) \/ StageFails(t)
  BY <1>0, <1>3 DEF ReadChunks, ReplaceChunks, ExtractCharacters, SkipCharacters, HandOff,
     ExtractWorld, Refused, SkipWorldComparison, StageFails
<1>4. CASE ThreadStep(t)
  BY <1>0, <1>4 DEF ThreadStep, WriteFenced, CommitUnfenced, RollBack, BeginUnfenced, Commit
<1>5. CASE RenewLease(t) BY <1>5 DEF RenewLease, SameRow, SameStage, TypeOK, JobRows
<1>6. CASE Stopped(t)
  BY <1>0, <1>6 DEF Stopped, HeartbeatFails, CancelExecution, Crash, StopExecution
<1> QED BY <1>2, <1>3, <1>4, <1>5, <1>6 DEF Actions, Step

\* Nobody gets past a comparison of an ordered job but by comparing, and who has
\* failed or ended does not go on.
LEMMA PlaceStep ==
  ASSUME TypeOK, Ordered, NEW t \in Tokens, Actions(t),
         ~CompareCharacters(t), ~CompareWorld(t)
  PROVE  /\ exec'[t].pc \in PassedCharacters => exec[t].pc \in PassedCharacters
         /\ exec'[t].pc \in PassedWorlds => exec[t].pc \in PassedWorlds
         /\ exec[t].pc \in {"failing", "ended"} => exec'[t].pc \in {"failing", "ended"}
<1>g. ASSUME NEW p, Go(t, p) PROVE exec'[t].pc = p BY <1>g DEF Go, TypeOK, Executions
<1>r. ASSUME Raise(t) PROVE exec'[t].pc = "failing" BY <1>r DEF Raise, TypeOK, Executions
<1>s. ASSUME NEW h, StopExecution(t, h) PROVE exec'[t].pc = "ended"
  BY <1>s DEF StopExecution, TypeOK, Executions
<1>x. "failing" \notin PassedCharacters \union PassedWorlds
      /\ "ended" \notin PassedCharacters \union PassedWorlds
  BY DEF PassedCharacters, PassedWorlds
<1>0. CASE exec'[t].pc \in {"failing", "ended"} BY <1>0, <1>x
<1>1. CASE Claim(t)
  <2>1. exec[t].pc = "idle" /\ exec'[t].pc \in {"start", "ended"}
    BY <1>1 DEF Claim, At, TypeOK, Executions
  <2> QED BY <2>1 DEF PassedCharacters, PassedWorlds
<1>2. CASE ReportStart(t)
  <2>1. exec[t].pc = "start" /\ (exec'[t].pc = "chunks" \/ Raise(t))
    BY <1>2 DEF ReportStart, Call, At, TypeOK, Executions
  <2> QED BY <1>0, <1>r, <2>1 DEF PassedCharacters, PassedWorlds
<1>3. CASE ReportCheckpoint(t)
  <2>1. /\ exec[t].pc \in DOMAIN CheckpointAt
        /\ exec'[t].pc = Following[exec[t].pc] \/ Raise(t)
    BY <1>3 DEF ReportCheckpoint, Call, TypeOK, Executions
  <2> QED BY <1>0, <1>r, <2>1 DEF PassedCharacters, PassedWorlds, CheckpointAt, Following
<1>4. CASE ReportPersisting(t)
  <2>1. exec[t].pc = "persist" /\ (exec'[t].pc = "complete" \/ Raise(t))
    BY <1>4 DEF ReportPersisting, Call, At, TypeOK, Executions
  <2> QED BY <1>0, <1>r, <2>1 DEF PassedCharacters, PassedWorlds
<1>5. CASE Complete(t)
  <2>1. exec'[t].pc = "ended" \/ Raise(t)
    BY <1>5 DEF Complete, Call, TypeOK, Executions
  <2> QED BY <1>0, <1>r, <2>1
<1>6. CASE Fail(t) BY <1>0, <1>g, <1>6 DEF Fail
<1>7. CASE ReadChunks(t)
  <2>1. exec[t].pc = "chunks" /\ (exec'[t].pc = "character" \/ Raise(t))
    BY <1>7 DEF ReadChunks, At, TypeOK, Executions
  <2> QED BY <1>0, <1>r, <2>1 DEF PassedCharacters, PassedWorlds
<1>8. CASE ReplaceChunks(t) \/ ExtractCharacters(t) \/ SkipCharacters(t)
  <2>1. exec[t].pc \in {"chunks", "character"}
        /\ exec'[t].pc \in {"chunksWait", "saving", "compare"}
    BY <1>g, <1>8 DEF ReplaceChunks, ExtractCharacters, SkipCharacters, Submit, At
  <2> QED BY <2>1 DEF PassedCharacters, PassedWorlds
<1>9. CASE HandOff(t) \/ SkipWorldComparison(t) BY <1>9 DEF HandOff, SkipWorldComparison
<1>10. CASE ExtractWorld(t)
  <2>1. exec[t].pc = "world" /\ exec'[t].pc \in {"worldCompare", "publish"}
    BY <1>g, <1>10 DEF ExtractWorld, At
  <2> QED BY <2>1 DEF PassedCharacters, PassedWorlds
<1>11. CASE Refused(t) \/ StageFails(t) BY <1>0, <1>r, <1>11 DEF Refused, StageFails
<1>12. CASE ThreadStep(t)
  <2>1. ASSUME NEW seen, Commit(t, seen), Attached(t)
        PROVE  exec[t].pc \in Waits /\ exec'[t].pc \in {"saved", "chunksReady"}
    BY <1>g, <2>1 DEF Commit, Attached, TypeOK, Executions
  <2>2. ASSUME NEW seen, Commit(t, seen), ~Attached(t) PROVE exec' = exec
    BY <2>2 DEF Commit
  <2>3. CASE exec' = exec BY <2>3
  <2>4. CASE exec[t].pc \in Waits /\ exec'[t].pc \in {"saved", "chunksReady"}
    BY <2>4 DEF Waits, PassedCharacters, PassedWorlds
  <2>5. CASE RollBack(t) BY <1>0, <1>r, <2>3, <2>5 DEF RollBack
  <2>6. CASE WriteFenced(t) BY <2>1, <2>2, <2>3, <2>4, <2>6 DEF WriteFenced
  <2>7. CASE CommitUnfenced(t) BY <2>1, <2>2, <2>3, <2>4, <2>7 DEF CommitUnfenced
  <2>8. CASE BeginUnfenced(t) BY <2>3, <2>8 DEF BeginUnfenced
  <2> QED BY <1>12, <2>5, <2>6, <2>7, <2>8 DEF ThreadStep
<1>13. CASE RenewLease(t) BY <1>13 DEF RenewLease
<1>14. CASE Stopped(t)
  <2>1. exec' = exec \/ exec'[t].pc = "ended"
    BY <1>s, <1>14 DEF Stopped, HeartbeatFails, CancelExecution, Crash
  <2> QED BY <1>0, <2>1
<1> QED BY <1>1, <1>2, <1>3, <1>4, <1>5, <1>6, <1>7, <1>8, <1>9, <1>10, <1>11, <1>12,
           <1>13, <1>14 DEF Actions, Step

\* A call applied to the row leaves it with the comparisons its checkpoint asks for.
LEMMA EffectCompared ==
  ASSUME TypeOK, NEW t \in Tokens, StageInvOf(t), Accepted(t), RowCompared, ComparedOf(t),
         job' = Effect(t)
  PROVE  /\ RowCompared'
         /\ job'.failedBy = job.failedBy /\ job'.lease = job.lease
         /\ exec[t].pc # "saved" => job'.characters = job.characters
         /\ exec[t].pc # "publish" => job'.worlds = job.worlds
<1> DEFINE p == exec[t].pc
<1>0. /\ StageNo[job.checkpoint] \in 0..5 /\ StageNo[exec[t].resume] \in 0..5
      /\ Passed(p) \in 0..5
  BY CheckpointFacts, ReportFacts DEF TypeOK, JobRows, Executions
<1>1. /\ job'.failedBy = job.failedBy /\ job'.lease = job.lease
      /\ p # "saved" => job'.characters = job.characters
      /\ p # "publish" => job'.worlds = job.worlds
      /\ p \notin DOMAIN CheckpointAt => job'.checkpoint = job.checkpoint
      /\ p = "saved" => job'.characters = "pending"
      /\ p = "publish" => job'.worlds = "pending"
  BY ReportFacts DEF Effect, TypeOK, JobRows
<1>2. CASE p \notin DOMAIN CheckpointAt
  <2>1. p # "saved" /\ p # "publish" BY <1>2, ReportFacts
  <2> QED BY <1>1, <1>2, <2>1 DEF RowCompared
<1>3. CASE p \in DOMAIN CheckpointAt
  <2>1. StageNo[job'.checkpoint] = Passed(p) + 1 BY <1>3, EffectFacts, ReportFacts
  <2>2. StageNo[job.checkpoint] = Larger(StageNo[exec[t].resume], Passed(p))
    BY <1>3, PositionFacts, ReportFacts DEF StageInvOf
  <2>3. StageNo[job.checkpoint] >= Passed(p) BY <1>0, <2>2 DEF Larger
  <2>4. CASE p = "chunksReady"
    <3>1. Passed(p) = 0 BY <2>4 DEF Passed
    <3> QED BY <1>1, <2>1, <3>1 DEF RowCompared
  <2>5. CASE p = "saved"
    <3>1. Passed(p) = 1 BY <2>5 DEF Passed
    <3> QED BY <1>1, <2>1, <2>5, <3>1 DEF RowCompared
  <2>6. CASE p \in {"handedOff", "compared"}
    <3>1. Passed(p) = 2 BY <2>6 DEF Passed
    <3>2. job.characters \in Terminal BY <2>6 DEF ComparedOf, PassedCharacters
    <3> QED BY <1>1, <2>1, <2>6, <3>1, <3>2 DEF RowCompared, Terminal
  <2>7. CASE p = "publish"
    <3>1. Passed(p) = 3 BY <2>7 DEF Passed
    <3>2. job.characters \in Terminal BY <2>7 DEF ComparedOf, PassedCharacters
    <3> QED BY <1>1, <2>1, <2>7, <3>1, <3>2 DEF RowCompared, Terminal
  <2>8. CASE p = "worldCompared"
    <3>1. Passed(p) = 4 BY <2>8 DEF Passed
    <3>2. job.characters \in Terminal /\ job.worlds \in Terminal
      BY <2>8 DEF ComparedOf, PassedCharacters, PassedWorlds
    <3> QED BY <1>1, <2>1, <2>8, <3>1, <3>2 DEF RowCompared, Terminal
  <2> QED BY <1>3, <2>4, <2>5, <2>6, <2>7, <2>8, ReportFacts
<1> QED BY <1>1, <1>2, <1>3
\* A comparison leaves its candidates terminal, and the execution that recorded a
\* failure it must stop at leaves the stages.
LEMMA CompareStep ==
  ASSUME TypeOK, Ordered, NEW t \in Tokens, StageInvOf(t), RowCompared, ComparedOf(t),
         CompareCharacters(t) \/ CompareWorld(t)
  PROVE  /\ Accepted(t) /\ SameStage
         /\ job'.characters \in Terminal
         /\ job'.worlds \in Terminal \/ (/\ job'.worlds = job.worlds
                                         /\ exec'[t].pc \notin PassedWorlds
                                         /\ StageNo[job.checkpoint] < 5)
         /\ exec[t].pc \notin {"failing", "ended"}
         /\ \/ job'.failedBy = job.failedBy
            \/ job'.failedBy = t /\ exec'[t].pc = "failing"
<1>0. /\ StageNo[job.checkpoint] \in 0..5 /\ StageNo[exec[t].resume] \in 0..5
  BY CheckpointFacts DEF TypeOK, JobRows, Executions
<1>r. ASSUME Raise(t) PROVE exec'[t].pc = "failing" BY <1>r DEF Raise, TypeOK, Executions
<1>g. ASSUME NEW p, Go(t, p) PROVE exec'[t].pc = p BY <1>g DEF Go, TypeOK, Executions
<1>t. ASSUME NEW state \in Comparison \ {"none"}, NEW result \in Results(state)
      PROVE  Settled(state, result) \in Terminal
  BY <1>t DEF Results, Settled, Terminal, Comparison
<1>f. ASSUME NEW result
      PROVE  FailedBy(t, result) = IF Stops(result) THEN t ELSE job.failedBy
  BY DEF FailedBy
<1>1. CASE CompareCharacters(t)
  <2>1. PICK result \in Results(job.characters) :
          /\ Accepted(t)
          /\ job' = [job EXCEPT !.characters = Settled(@, result),
                                !.failedBy = FailedBy(t, result)]
          /\ IF Stops(result) THEN Raise(t)
             ELSE Go(t, IF Reached(t, "CHARACTER_COMPARISONS_FINISHED") THEN "world"
                                                                       ELSE "compared")
    BY <1>1 DEF CompareCharacters
  <2>2. exec[t].pc = "compare" BY <1>1 DEF CompareCharacters, At
  <2>3. StageNo[job.checkpoint] >= 2
    <3>1. StageNo[job.checkpoint] = Larger(StageNo[exec[t].resume], 2)
      BY <2>1, <2>2, PositionFacts DEF StageInvOf, Passed
    <3> QED BY <1>0, <3>1 DEF Larger
  <2>4. job.characters \in Comparison \ {"none"}
    BY <2>3 DEF RowCompared, TypeOK, JobRows
  <2>5. /\ job'.characters = Settled(job.characters, result)
        /\ job'.failedBy = FailedBy(t, result)
        /\ SameStage /\ job'.worlds = job.worlds
    BY <2>1 DEF TypeOK, JobRows, SameStage
  <2>6. job'.characters \in Terminal BY <1>t, <2>4, <2>5
  <2>7. exec'[t].pc \in {"failing", "world", "compared"} BY <1>g, <1>r, <2>1
  <2>8. job.worlds \in Terminal \/ StageNo[job.checkpoint] < 5
    BY <1>0 DEF RowCompared
  <2>9. exec'[t].pc \notin PassedWorlds BY <2>7 DEF PassedWorlds
  <2>10. \/ job'.failedBy = job.failedBy
         \/ job'.failedBy = t /\ exec'[t].pc = "failing"
    BY <1>f, <1>r, <2>1, <2>5
  <2> QED BY <2>1, <2>2, <2>5, <2>6, <2>8, <2>9, <2>10
<1>2. CASE CompareWorld(t)
  <2>1. PICK result \in Results(job.worlds) :
          /\ Accepted(t)
          /\ job' = [job EXCEPT !.worlds = Settled(@, result),
                                !.failedBy = FailedBy(t, result)]
          /\ IF Stops(result) THEN Raise(t)
             ELSE Go(t, IF Reached(t, "WORLD_COMPARISONS_FINISHED") THEN "persist"
                                                                   ELSE "worldCompared")
    BY <1>2 DEF CompareWorld
  <2>2. exec[t].pc = "worldCompare" BY <1>2 DEF CompareWorld, At
  <2>3. StageNo[job.checkpoint] >= 4
    <3>1. StageNo[job.checkpoint] = Larger(StageNo[exec[t].resume], 4)
      BY <2>1, <2>2, PositionFacts DEF StageInvOf, Passed
    <3> QED BY <1>0, <3>1 DEF Larger
  <2>4. job.worlds \in Comparison \ {"none"}
    BY <2>3 DEF RowCompared, TypeOK, JobRows
  <2>5. /\ job'.worlds = Settled(job.worlds, result)
        /\ job'.failedBy = FailedBy(t, result)
        /\ SameStage /\ job'.characters = job.characters
    BY <2>1 DEF TypeOK, JobRows, SameStage
  <2>6. job'.worlds \in Terminal BY <1>t, <2>4, <2>5
  <2>7. job.characters \in Terminal
    BY <2>1, <2>2 DEF ComparedOf, PassedCharacters
  <2>10. \/ job'.failedBy = job.failedBy
         \/ job'.failedBy = t /\ exec'[t].pc = "failing"
    BY <1>f, <1>r, <2>1, <2>5
  <2> QED BY <2>1, <2>2, <2>5, <2>6, <2>7, <2>10
<1> QED BY <1>1, <1>2

\* What Spring and the executions agree on about the comparisons survives every
\* step of one execution.
LEMMA ComparedStep ==
  ASSUME TypeOK, StageInv, Ordered, RowCompared, FailedOver,
         \A t \in Tokens : ComparedOf(t),
         NEW t \in Tokens, Actions(t)
  PROVE  RowCompared' /\ FailedOver' /\ \A u \in Tokens : ComparedOf(u)'
<1>0. StageInvOf(t) /\ ComparedOf(t) BY DEF StageInv
<1>1. ASSUME NEW u \in Tokens, u # t PROVE exec'[u] = exec[u] BY <1>1, OthersKept
<1>2. ASSUME NEW u \in Tokens, u # t,
             \/ SameRow
             \/ job'.lease = t
      PROVE  ComparedOf(u)'
  BY <1>1, <1>2 DEF ComparedOf, Accepted, SameRow, SameStage
<1>3. ASSUME \/ job'.failedBy = job.failedBy
             \/ job'.failedBy = t /\ exec'[t].pc = "failing",
             exec[t].pc \in {"failing", "ended"} => exec'[t].pc \in {"failing", "ended"}
      PROVE  FailedOver'
  <2> SUFFICES ASSUME NEW u \in Tokens, job'.failedBy = u
               PROVE  exec'[u].pc \in {"failing", "ended"}
    BY DEF FailedOver
  <2> QED BY <1>1, <1>3 DEF FailedOver
<1>4. CASE CompareCharacters(t) \/ CompareWorld(t)
  <2>1. /\ Accepted(t) /\ SameStage /\ job'.characters \in Terminal
        /\ job'.worlds \in Terminal \/ (/\ job'.worlds = job.worlds
                                        /\ exec'[t].pc \notin PassedWorlds
                                        /\ StageNo[job.checkpoint] < 5)
        /\ exec[t].pc \notin {"failing", "ended"}
        /\ \/ job'.failedBy = job.failedBy
           \/ job'.failedBy = t /\ exec'[t].pc = "failing"
    BY <1>0, <1>4, CompareStep
  <2>2. StageNo[job.checkpoint] \in 0..5 BY CheckpointFacts DEF TypeOK, JobRows
  <2>3. RowCompared'
    BY <2>1, <2>2 DEF RowCompared, SameStage, Terminal
  <2>4. FailedOver' BY <1>3, <2>1
  <2>5. ComparedOf(t)' BY <2>1 DEF ComparedOf
  <2>6. job'.lease = t BY <2>1 DEF Accepted, SameStage
  <2> QED BY <1>2, <2>3, <2>4, <2>5, <2>6
<1>5. CASE ~CompareCharacters(t) /\ ~CompareWorld(t)
  <2>1. /\ exec'[t].pc \in PassedCharacters => exec[t].pc \in PassedCharacters
        /\ exec'[t].pc \in PassedWorlds => exec[t].pc \in PassedWorlds
        /\ exec[t].pc \in {"failing", "ended"} => exec'[t].pc \in {"failing", "ended"}
    BY <1>5, PlaceStep
  <2>2. CASE Claim(t)
    <3>1. /\ exec[t].pc = "idle" /\ job'.lease = t
          /\ job'.checkpoint = job.checkpoint /\ job'.characters = job.characters
          /\ job'.worlds = job.worlds /\ job'.failedBy = job.failedBy
      BY <2>2 DEF Claim, At, TypeOK, JobRows
    <3>2. exec[t].pc \notin PassedCharacters \union PassedWorlds
      BY <3>1 DEF PassedCharacters, PassedWorlds
    <3> QED BY <1>2, <1>3, <2>1, <3>1, <3>2 DEF ComparedOf, RowCompared
  <2>3. CASE SameRow
    <3>1. ComparedOf(t)' BY <1>0, <2>1, <2>3 DEF ComparedOf, Accepted, SameRow, SameStage
    <3> QED BY <1>2, <1>3, <2>1, <2>3, <3>1 DEF RowCompared, SameRow, SameStage
  <2>4. CASE Accepted(t) /\ job' = Effect(t)
    <3>1. /\ RowCompared'
          /\ job'.failedBy = job.failedBy /\ job'.lease = job.lease
          /\ exec[t].pc # "saved" => job'.characters = job.characters
          /\ exec[t].pc # "publish" => job'.worlds = job.worlds
      BY <1>0, <2>4, EffectCompared
    <3>2. "saved" \notin PassedCharacters /\ "publish" \notin PassedWorlds
      BY DEF PassedCharacters, PassedWorlds
    <3>3. ComparedOf(t)' BY <1>0, <2>1, <2>4, <3>1, <3>2 DEF ComparedOf
    <3>4. job'.lease = t BY <2>4, <3>1 DEF Accepted
    <3> QED BY <1>2, <1>3, <2>1, <3>1, <3>3, <3>4
  <2> QED BY <1>5, <2>2, <2>3, <2>4, RowStep
<1> QED BY <1>4, <1>5

\* An ordered job passes from one domain to the next with every comparison
\* terminal, whatever executions take it over, and never in the run that recorded
\* a failure it must stop at.
THEOREM ComparedFirst == Spec => []ComparedBeforeNextDomain
<1>1. Init => ComparedInv
  <2>1. ASSUME Init PROVE StageNo[job.checkpoint] = 0 /\ job.failedBy = 0
    BY <2>1 DEF Init, StageNo
  <2>2. 0 \notin Tokens BY DEF Tokens
  <2>3. ASSUME Init, NEW t \in Tokens PROVE ~Accepted(t) BY <2>3 DEF Init, Accepted
  <2> QED BY <2>1, <2>2, <2>3 DEF ComparedInv, RowCompared, FailedOver, ComparedOf
<1>2. TypeOK /\ StageInv /\ ComparedInv /\ [Next]_vars => ComparedInv'
  <2> SUFFICES ASSUME TypeOK, StageInv, ComparedInv, [Next]_vars, Ordered' PROVE ComparedInv'
    BY DEF ComparedInv
  <2>m. Ordered
    <3>1. mode' = mode
      BY DEF vars, Next, Claim, Step, StageFails, ThreadStep, RenewLease, Stopped,
         LeaseExpires, EditSource, ReportStart, ReportCheckpoint, ReportPersisting, Complete,
         Fail, ReadChunks, ReplaceChunks, ExtractCharacters, SkipCharacters, HandOff,
         CompareCharacters, ExtractWorld, Refused, SkipWorldComparison, CompareWorld,
         WriteFenced, CommitUnfenced, Commit, RollBack, BeginUnfenced, HeartbeatFails,
         CancelExecution, Crash
    <3> QED BY <3>1 DEF Ordered
  <2>i. RowCompared /\ FailedOver /\ \A t \in Tokens : ComparedOf(t)
    BY <2>m DEF ComparedInv
  <2>k. ASSUME exec' = exec, SameRow PROVE ComparedInv'
    BY <2>i, <2>k DEF ComparedInv, RowCompared, FailedOver, ComparedOf, Accepted, SameRow,
       SameStage
  <2>1. CASE UNCHANGED vars BY <2>k, <2>1 DEF vars, SameRow, SameStage
  <2>2. ASSUME NEW t \in Tokens, Actions(t) PROVE ComparedInv'
    BY <2>m, <2>i, <2>2, ComparedStep DEF ComparedInv
  <2>3. CASE LeaseExpires
    BY <2>k, <2>3 DEF LeaseExpires, SameRow, SameStage, TypeOK, JobRows
  <2>4. CASE EditSource BY <2>k, <2>4 DEF EditSource, SameRow, SameStage
  <2> QED BY <2>1, <2>2, <2>3, <2>4 DEF Next, Actions
<1>3. TypeOK /\ ComparedInv => ComparedBeforeNextDomain
  <2> SUFFICES ASSUME TypeOK, ComparedInv, Ordered
               PROVE  /\ StageNo[job.checkpoint] >= 3 => job.characters \in Terminal
                      /\ StageNo[job.checkpoint] >= 5 => job.worlds \in Terminal
                      /\ job.failedBy # 0 => exec[job.failedBy].pc \in {"failing", "ended"}
    BY DEF ComparedBeforeNextDomain, Terminal
  <2>1. job.failedBy \in {0} \union Tokens BY DEF TypeOK, JobRows
  <2> QED BY <2>1 DEF ComparedInv, RowCompared, FailedOver
<1> QED BY <1>1, <1>2, <1>3, TypeCorrect, StagesAgree, PTL DEF Spec
=============================================================================
