-------------------------- MODULE Inspection_proofs --------------------------
(***************************************************************************)
(* What holds of the parts that run a validation, for any number of jobs,  *)
(* slots, requests and questions: the loop that claims the jobs            *)
(* (ValidationRunner), the usage ledger of an execution and its shutdown   *)
(* (ValidationLedger), the judges (QuestionJudging) and the typo branch    *)
(* (TypoBranch).                                                           *)
(***************************************************************************)
EXTENDS ValidationRunner, ValidationLedger, TypoBranch, QuestionJudging,
        FiniteSetTheorems, TLAPS

-----------------------------------------------------------------------------
\* The runner

Active == JobsIn({"created", "running", "unwinding"})
LoopOver == {"gathering", "closing", "ended"}

RunnerTypeOK ==
  /\ cycle \in {"unstarted", "top", "claiming", "slot", "pausing", "draining"} \union LoopOver
  /\ jobs \in [Inspections -> {"offered", "created", "running", "unwinding", "ok", "failed",
                               "cancelled", "fatal"}]
  /\ started \subseteq Inspections /\ ending \in BOOLEAN /\ stopping \in BOOLEAN
  /\ worker \in {"open", "closing", "closed"}

\* The loop knows every job at work until it is over, and a slot is at hand wherever
\* the next claim may follow, unless the loop is about to end.
RunnerIInv ==
  /\ RunnerTypeOK /\ RunnerInv
  /\ cycle \notin LoopOver => Active \subseteq started
  /\ cycle \in LoopOver => started = {}
  /\ Cardinality(started) <= JobSlots
  /\ cycle \in {"unstarted", "claiming"} => Cardinality(started) < JobSlots
  /\ cycle \in {"top", "pausing"} => Cardinality(started) < JobSlots \/ ending \/ stopping

\* Sets of jobs are finite.
LEMMA JobSets ==
  /\ JobSlots \in Nat \ {0}
  /\ \A S \in SUBSET Inspections : IsFiniteSet(S) /\ Cardinality(S) \in Nat
  /\ \A S, T \in SUBSET Inspections : S \subseteq T => Cardinality(S) <= Cardinality(T)
  /\ \A S \in SUBSET Inspections, j \in Inspections :
       Cardinality(S \union {j}) <= Cardinality(S) + 1
  /\ Cardinality({}) = 0
<1>1. \A S \in SUBSET Inspections : IsFiniteSet(S) /\ Cardinality(S) \in Nat
  BY RunnerAssumption, FS_Subset, FS_CardinalityType
<1>2. \A S, T \in SUBSET Inspections : S \subseteq T => Cardinality(S) <= Cardinality(T)
  BY <1>1, FS_Subset
<1>3. \A S \in SUBSET Inspections, j \in Inspections :
        Cardinality(S \union {j}) <= Cardinality(S) + 1
  <2> SUFFICES ASSUME NEW S \in SUBSET Inspections, NEW j \in Inspections
               PROVE  Cardinality(S \union {j}) <= Cardinality(S) + 1
    OBVIOUS
  <2>1. IsFiniteSet(S) /\ Cardinality(S) \in Nat
    BY <1>1
  <2>2. Cardinality(S \cup {j}) = IF j \in S THEN Cardinality(S) ELSE Cardinality(S) + 1
    BY <2>1, FS_AddElement
  <2> QED BY <2>1, <2>2
<1> QED BY <1>1, <1>2, <1>3, RunnerAssumption, FS_EmptySet

\* The cancelled tasks are no longer created or running.
LEMMA CancelledTasks ==
  ASSUME RunnerTypeOK, NEW js \in SUBSET Inspections, CancelAll(js)
  PROVE  /\ jobs' \in [Inspections -> {"offered", "created", "running", "unwinding", "ok",
                                       "failed", "cancelled", "fatal"}]
         /\ JobsIn({"created", "running"})' = JobsIn({"created", "running"}) \ js
         /\ JobsIn({"running", "unwinding"})' \subseteq JobsIn({"running", "unwinding"})
         /\ Active' \subseteq Active
<1>1. \A j \in Inspections :
        jobs'[j] = IF j \in js /\ jobs[j] = "running" THEN "unwinding"
                   ELSE IF j \in js /\ jobs[j] = "created" THEN "cancelled" ELSE jobs[j]
  BY DEF CancelAll
<1>2. jobs' = [j \in Inspections |-> jobs'[j]]
  BY DEF CancelAll
<1> QED BY <1>1, <1>2 DEF RunnerTypeOK, JobsIn, Active

\* The runner's invariant holds at the start.
LEMMA RunnerStarts == RunnerInit => RunnerIInv
<1> SUFFICES ASSUME RunnerInit PROVE RunnerIInv
  OBVIOUS
<1>1. /\ Active = {} /\ JobsIn({"created", "running"}) = {} /\ JobsIn({"running", "unwinding"}) = {}
      /\ jobs \in [Inspections -> {"offered"}]
  BY DEF RunnerInit, JobsIn, Active
<1>2. cycle = "unstarted" /\ started = {} /\ ending = FALSE /\ stopping = FALSE /\ worker = "open"
  BY DEF RunnerInit
<1>3. RunnerTypeOK
  BY <1>1, <1>2 DEF RunnerTypeOK
<1>4. Cardinality(Active) <= JobSlots /\ Cardinality(started) < JobSlots
  BY <1>1, <1>2, JobSets
<1>5. RunnerInv
  BY <1>1, <1>2, <1>4 DEF RunnerInv, Active
<1> QED BY <1>1, <1>2, <1>3, <1>4, <1>5, JobSets DEF RunnerIInv, LoopOver

\* The loop over: its tasks are cancelled and forgotten.
LEMMA LoopOverKeeps ==
  ASSUME RunnerIInv, cycle \notin LoopOver, cycle' = "gathering", started' = {},
         CancelAll(started), ending' \in BOOLEAN, UNCHANGED <<stopping, worker>>
  PROVE  RunnerIInv'
<1>1. /\ jobs' \in [Inspections -> {"offered", "created", "running", "unwinding", "ok",
                                    "failed", "cancelled", "fatal"}]
      /\ JobsIn({"created", "running"})' = JobsIn({"created", "running"}) \ started
      /\ JobsIn({"running", "unwinding"})' \subseteq JobsIn({"running", "unwinding"})
      /\ Active' \subseteq Active
  BY CancelledTasks DEF RunnerIInv, RunnerTypeOK
<1>2. Active \subseteq Inspections /\ Cardinality(Active) <= JobSlots
  BY DEF Active, JobsIn, RunnerIInv, RunnerInv
<1>3. Cardinality(Active') <= JobSlots /\ Cardinality(started') = 0
  BY <1>1, <1>2, JobSets
<1> QED BY <1>1, <1>3, JobSets DEF RunnerIInv, RunnerInv, RunnerTypeOK, LoopOver, Active
\* The outcomes of the tasks that have ended are observed: the loop is over, or goes on
\* without them.
LEMMA ReapKeeps ==
  ASSUME RunnerIInv, NEW then, Reaped(then), UNCHANGED <<stopping, worker>>,
         cycle \in {"slot", "pausing", "draining"},
         then \in {"slot", "pausing", "draining"},
         then = "pausing" => \/ ~Full(started \ Done) \/ ending' \/ stopping
                             \/ cycle = "pausing"
  PROVE  RunnerIInv'
<1>1. CASE Done \intersect JobsIn({"cancelled", "fatal"}) # {}
  <2>1. cycle' = "gathering" /\ started' = {} /\ CancelAll(started) /\ ending' = ending
    BY <1>1 DEF Reaped
  <2>2. cycle \notin LoopOver /\ ending' \in BOOLEAN
    BY <2>1 DEF LoopOver, RunnerIInv, RunnerTypeOK
  <2> QED BY <2>1, <2>2, LoopOverKeeps
<1>2. CASE Done \intersect JobsIn({"cancelled", "fatal"}) = {}
  <2>1. /\ started' = started \ Done /\ cycle' = then /\ jobs' = jobs
        /\ ending' = (ending \/ (worker # "open" /\ Done \intersect JobsIn({"failed"}) # {}))
    BY <1>2 DEF Reaped
  <2>2. /\ started \subseteq Inspections /\ started' \subseteq Inspections
        /\ Cardinality(started') \in Nat /\ Cardinality(started) \in Nat
        /\ Cardinality(started') <= Cardinality(started)
    BY <2>1, JobSets DEF RunnerIInv, RunnerTypeOK
  <2>3. ending' \in BOOLEAN /\ (ending => ending')
    BY <2>1 DEF RunnerIInv, RunnerTypeOK
  <2>4. RunnerTypeOK'
    BY <2>1, <2>2, <2>3 DEF RunnerIInv, RunnerTypeOK
  <2>5. /\ UNCHANGED <<Active, JobsIn({"created", "running"}), JobsIn({"running", "unwinding"})>>
        /\ Active \intersect Done = {} /\ JobsIn({"created", "running"}) \intersect Done = {}
    BY <2>1 DEF Active, JobsIn, Done
  <2>6. RunnerInv'
    BY <2>1, <2>5 DEF RunnerIInv, RunnerInv, Active
  <2>7. Active' \subseteq started'
    BY <2>1, <2>5 DEF RunnerIInv, LoopOver
  <2>8. cycle' = "pausing" => Cardinality(started') < JobSlots \/ ending' \/ stopping'
    BY <2>1, <2>2, <2>3, JobSets DEF RunnerIInv, Full
  <2> QED BY <2>1, <2>2, <2>4, <2>6, <2>7, <2>8, JobSets DEF RunnerIInv, LoopOver
<1> QED BY <1>1, <1>2

\* The loop from claim to claim: it claims only with a slot at hand.
LEMMA RunnerLoopKeeps ==
  ASSUME RunnerIInv,
         \/ StartRunner \/ Top \/ ClaimEmpty \/ ClaimFails \/ PauseEnds \/ StopRunner
         \/ Drained \/ Gathered \/ GatherCancelled \/ RunnerEnded \/ WorkerClosed
  PROVE  RunnerIInv'
<1>1. jobs' = jobs /\ started' = started
  BY DEF StartRunner, Top, ClaimEmpty, ClaimFails, PauseEnds, StopRunner, Drained, Gathered,
         GatherCancelled, RunnerEnded, WorkerClosed
<1>2. RunnerTypeOK'
  BY <1>1 DEF RunnerIInv, RunnerTypeOK, StartRunner, Top, ClaimEmpty, ClaimFails, PauseEnds, StopRunner,
     Drained, Gathered, GatherCancelled, RunnerEnded, WorkerClosed, LoopOver
<1>3. UNCHANGED <<Active, JobsIn({"created", "running"}), JobsIn({"running", "unwinding"})>>
  BY <1>1 DEF Active, JobsIn
<1>4. worker' = "closed" => worker = "closed" \/ JobsIn({"running", "unwinding"}) = {}
  BY DEF StartRunner, Top, ClaimEmpty, ClaimFails, PauseEnds, StopRunner, Drained, Gathered,
         GatherCancelled, RunnerEnded, WorkerClosed
<1>5. RunnerInv'
  BY <1>1, <1>3, <1>4 DEF RunnerIInv, RunnerInv, Active
<1>6. /\ cycle' \notin LoopOver => cycle \notin LoopOver
      /\ cycle' \in LoopOver => started = {}
      /\ cycle' = "unstarted" => cycle = "unstarted"
      /\ cycle' \in {"top", "pausing"} =>
           Cardinality(started) < JobSlots \/ ending' \/ stopping'
      /\ cycle' = "claiming" => Cardinality(started) < JobSlots
  BY DEF RunnerIInv, LoopOver, StopRequested, StartRunner, Top, ClaimEmpty, ClaimFails, PauseEnds,
         StopRunner, Drained, Gathered, GatherCancelled, RunnerEnded, WorkerClosed
<1> QED BY <1>1, <1>2, <1>3, <1>5, <1>6 DEF RunnerIInv

\* A granted claim takes the slot that was at hand.
LEMMA ClaimKeeps ==
  ASSUME RunnerIInv, NEW j \in Inspections, ClaimGranted(j)
  PROVE  RunnerIInv'
<1>1. /\ cycle = "claiming" /\ cycle' = "slot" /\ jobs[j] = "offered"
      /\ jobs' = [jobs EXCEPT ![j] = "created"] /\ started' = started \union {j}
      /\ UNCHANGED <<ending, stopping, worker>>
  BY DEF ClaimGranted
<1>2. RunnerTypeOK'
  BY <1>1 DEF RunnerIInv, RunnerTypeOK
<1>3. Active' = Active \union {j} /\ Active' \subseteq started' /\ started' \subseteq Inspections
  BY <1>1 DEF Active, JobsIn, RunnerIInv, RunnerTypeOK, LoopOver
<1>4. /\ JobsIn({"created", "running"})' = JobsIn({"created", "running"}) \union {j}
      /\ JobsIn({"running", "unwinding"})' = JobsIn({"running", "unwinding"})
  BY <1>1 DEF JobsIn, RunnerIInv, RunnerTypeOK
<1>5. /\ Cardinality(started) < JobSlots /\ Cardinality(started) \in Nat
      /\ Cardinality(started') <= Cardinality(started) + 1 /\ Cardinality(started') \in Nat
      /\ Cardinality(Active') <= Cardinality(started')
      /\ Cardinality(Active') \in Nat
  BY <1>1, <1>3, JobSets DEF RunnerIInv, RunnerTypeOK
<1>6. Cardinality(started') <= JobSlots /\ Cardinality(Active') <= JobSlots
  BY <1>5, JobSets
<1>7. RunnerInv'
  BY <1>1, <1>4, <1>6 DEF RunnerIInv, RunnerInv, Active
<1> QED BY <1>1, <1>2, <1>3, <1>6, <1>7 DEF RunnerIInv, LoopOver

\* A job begins, ends or unwinds, or the worker is closed around it.
LEMMA JobKeeps ==
  ASSUME RunnerIInv,
         \/ CloseWorker
         \/ \E j \in Inspections : \/ JobGoesOn(j) \/ \E how \in Endings : JobEnds(j, how)
  PROVE  RunnerIInv'
<1>1. /\ UNCHANGED <<cycle, started, ending, stopping>>
      /\ worker' = worker \/ (worker = "open" /\ worker' = "closing")
  BY DEF CloseWorker, JobGoesOn, JobBegins, JobUnwinds, JobEnds
<1>2. /\ jobs' \in [Inspections -> {"offered", "created", "running", "unwinding", "ok", "failed",
                                    "cancelled", "fatal"}]
      /\ Active' \subseteq Active
      /\ JobsIn({"created", "running"})' \subseteq JobsIn({"created", "running"})
      /\ worker # "open" =>
           JobsIn({"running", "unwinding"})' \subseteq JobsIn({"running", "unwinding"})
  <2>1. CASE CloseWorker
    <3>1. CancelAll(JobsIn({"running"})) /\ JobsIn({"running"}) \in SUBSET Inspections
      BY <2>1 DEF CloseWorker, JobsIn
    <3> QED BY <3>1, CancelledTasks DEF RunnerIInv
  <2>2. ASSUME NEW j \in Inspections, NEW s \in {"running", "ok", "failed", "cancelled", "fatal"},
               jobs' = [jobs EXCEPT ![j] = s], jobs[j] \in {"created", "running", "unwinding"},
               s = "running" => jobs[j] = "created" /\ worker = "open"
        PROVE  /\ jobs' \in [Inspections -> {"offered", "created", "running", "unwinding", "ok", "failed",
                                             "cancelled", "fatal"}]
               /\ Active' \subseteq Active
               /\ JobsIn({"created", "running"})' \subseteq JobsIn({"created", "running"})
               /\ worker # "open" =>
                    JobsIn({"running", "unwinding"})' \subseteq JobsIn({"running", "unwinding"})
    BY <2>2 DEF RunnerIInv, RunnerTypeOK, JobsIn, Active
  <2>3. ASSUME NEW j \in Inspections, JobGoesOn(j) \/ \E how \in Endings : JobEnds(j, how)
        PROVE  \E s \in {"running", "ok", "failed", "cancelled", "fatal"} :
                 /\ jobs' = [jobs EXCEPT ![j] = s] /\ jobs[j] \in {"created", "running", "unwinding"}
                 /\ s = "running" => jobs[j] = "created" /\ worker = "open"
    BY <2>3 DEF JobGoesOn, JobBegins, JobUnwinds, JobEnds, Endings
  <2> QED BY <2>1, <2>2, <2>3
<1>3. RunnerTypeOK'
  BY <1>1, <1>2 DEF RunnerIInv, RunnerTypeOK
<1>4. Active \subseteq Inspections /\ Cardinality(Active) <= JobSlots /\ Cardinality(Active) \in Nat
  BY JobSets DEF Active, JobsIn, RunnerIInv, RunnerInv
<1>5. Cardinality(Active') <= JobSlots
  <2>1. Active' \in SUBSET Inspections
    BY <1>2, <1>4
  <2> QED BY <1>2, <1>4, <2>1, JobSets
<1>6. RunnerInv'
  BY <1>1, <1>2, <1>5 DEF RunnerIInv, RunnerInv, Active
<1> QED BY <1>1, <1>2, <1>3, <1>6 DEF RunnerIInv

\* However claims, failures, stop requests, cancellations and the closing of the worker
\* meet, no more jobs are at work than there are slots, none of them is lost, and none is
\* left when the clients are closed.
THEOREM RunnerHolds == RunnerSpec => []RunnerInv
<1>1. RunnerInit => RunnerIInv
  BY RunnerStarts
<1>2. RunnerIInv /\ [RunnerNext]_runner => RunnerIInv'
  <2> SUFFICES ASSUME RunnerIInv, [RunnerNext]_runner PROVE RunnerIInv'
    OBVIOUS
  <2>1. CASE UNCHANGED runner
    BY <2>1 DEF runner, RunnerIInv, RunnerTypeOK, RunnerInv, Active, JobsIn
  <2>2. CASE StartRunner \/ Top \/ ClaimEmpty \/ ClaimFails \/ PauseEnds \/ StopRunner
             \/ Drained \/ Gathered \/ GatherCancelled \/ RunnerEnded \/ WorkerClosed
    BY <2>2, RunnerLoopKeeps
  <2>3. CASE \E j \in Inspections : ClaimGranted(j)
    BY <2>3, ClaimKeeps
  <2>4. CASE AwaitSlot
    <3> DEFINE then == IF Full(started \ Done) /\ ~ending' /\ ~stopping THEN "slot"
                       ELSE IF ending' THEN "draining" ELSE "pausing"
    <3>1. Reaped(then) /\ UNCHANGED <<stopping, worker>> /\ cycle = "slot"
      BY <2>4 DEF AwaitSlot
    <3>2. then \in {"slot", "pausing", "draining"}
          /\ (then = "pausing" => ~Full(started \ Done) \/ ending' \/ stopping)
      OBVIOUS
    <3> HIDE DEF then
    <3> QED BY <3>1, <3>2, ReapKeeps
  <2>5. CASE PauseReaps \/ DrainReaps
    BY <2>5, ReapKeeps DEF PauseReaps, DrainReaps
  <2>6. CASE GraceExpired \/ LoopCancelled
    <3>1. /\ cycle \notin LoopOver /\ cycle' = "gathering" /\ started' = {} /\ CancelAll(started)
          /\ UNCHANGED <<ending, stopping, worker>>
      BY <2>6 DEF GraceExpired, LoopCancelled, LoopOver
    <3>2. ending' \in BOOLEAN
      BY <3>1 DEF RunnerIInv, RunnerTypeOK
    <3> QED BY <3>1, <3>2, LoopOverKeeps
  <2>7. CASE \/ CloseWorker
             \/ \E j \in Inspections : \/ JobGoesOn(j) \/ \E how \in Endings : JobEnds(j, how)
    BY <2>7, JobKeeps
  <2> QED BY <2>1, <2>2, <2>3, <2>4, <2>5, <2>6, <2>7 DEF RunnerNext, LoopGoesOn, ClaimAnswered
<1>3. RunnerIInv => RunnerInv
  BY DEF RunnerIInv
<1> QED BY <1>1, <1>2, <1>3, PTL DEF RunnerSpec

-----------------------------------------------------------------------------
\* The ledger of an execution and its shutdown

CloseOver == {"idle", "done", "raised"}
CloseRecords == [kind : {"none", "SETTLE", "UNKNOWN"},
                 st : {"idle", "awaits", "lock", "sent", "done", "raised"},
                 chain : BOOLEAN, quiet : BOOLEAN]

\* A request: its reservation and the post that closes it each have somebody who waits
\* for them, the request's own coroutine or a task that the drain waits for; and an
\* entry that Spring holds open is one the worker knows of, or its answer was lost.
RequestInv(r) ==
  /\ owner[r] \in {"idle", "reserving", "calling"} => close[r].st = "idle" /\ ~close[r].chain
  /\ owner[r] = "idle" => reserve[r] = "none"
  /\ owner[r] = "calling" => reserve[r] = "made"
  /\ owner[r] = "closing" => close[r].st \in {"lock", "sent"} /\ ~close[r].chain
  /\ owner[r] = "ended" /\ ~close[r].chain => close[r].st \in CloseOver
  /\ reserve[r] = "sent" => owner[r] = "reserving" \/ (owner[r] = "ended" /\ close[r].st = "awaits")
  /\ owner[r] = "reserving" => reserve[r] = "sent"
  /\ r \in requests => reserve[r] = "made" /\ r \notin settled
  /\ r \in settled => close[r].st = "done"
  /\ close[r].st # "idle" => close[r].kind \in {"SETTLE", "UNKNOWN"}
  /\ spring[r] = "RESERVED" => reserve[r] = "failed" \/ r \in requests

\* The drain begins when the branches have ended, marks when every post is over, and
\* is over before the HTTP client is closed.
ShutdownInv ==
  /\ kids = "ended" => KidsQuiet
  /\ drain # "none" => kids = "ended"
  /\ drain \in {"marking", "ok", "failed"} => \A r \in Requests : close[r].st \in CloseOver
  /\ marking # {} => drain = "marking"
  /\ marking \intersect settled = {}
  /\ drain = "ok" => requests = {}
  /\ ~listed => drain = "ok"
  /\ closing \in {"kids", "draining", "closed"} => op = "ended"
  /\ closing \in {"draining", "closed"} => kids = "ended" /\ drain # "none"
  /\ closing = "closed" => drain \in {"ok", "failed"}

LedgerIInv == LedgerTypeOK /\ ShutdownInv /\ \A r \in Requests : RequestInv(r)

\* What arrives at Spring changes one entry; a post that closes an entry and is
\* answered leaves it closed.
LEMMA EntryMoves ==
  ASSUME LedgerTypeOK, NEW r \in Requests, NEW kind \in {"RESERVE", "SETTLE", "UNKNOWN"},
         NEW outcome \in Outcomes, Arrives(r, kind, outcome)
  PROVE  /\ outcome \in {"ok", "unanswered", "lost"}
         /\ spring' \in [Requests -> {"absent", "RESERVED", "SETTLED", "UNKNOWN"}]
         /\ \A q \in Requests \ {r} : spring'[q] = spring[q]
         /\ spring'[r] = "RESERVED" => spring[r] = "RESERVED" \/ kind = "RESERVE"
         /\ outcome = "ok" /\ kind # "RESERVE" => spring'[r] # "RESERVED"
<1>1. Entry(r, kind) \in {"absent", "RESERVED", "SETTLED", "UNKNOWN"}
  BY DEF Entry, LedgerTypeOK
<1>2. /\ Entry(r, kind) = "RESERVED" => spring[r] = "RESERVED" \/ kind = "RESERVE"
      /\ kind # "RESERVE" => Entry(r, kind) # "RESERVED"
  BY DEF Entry
<1> QED BY <1>1, <1>2 DEF Arrives, Outcomes, LedgerTypeOK

\* The ledger's invariant holds at the start.
LEMMA LedgerStarts == LedgerInit => LedgerIInv
<1> SUFFICES ASSUME LedgerInit PROVE LedgerIInv
  OBVIOUS
<1>1. LedgerTypeOK
  <2>1. NoClose \in CloseRecords
    BY DEF NoClose, CloseRecords
  <2>2. close \in [Requests -> CloseRecords]
    BY <2>1 DEF LedgerInit
  <2>3. gate \in BOOLEAN /\ asked \in BOOLEAN /\ listed \in BOOLEAN
    BY DEF LedgerInit
  <2>4. cancels \in 0..MaxCancels
    BY CancelsAssumption DEF LedgerInit
  <2> QED BY <2>2, <2>3, <2>4 DEF LedgerInit, LedgerTypeOK, CloseRecords
<1>2. ShutdownInv
  BY DEF LedgerInit, ShutdownInv, KidsQuiet
<1>3. \A r \in Requests : RequestInv(r)
  BY DEF LedgerInit, RequestInv, NoClose, CloseOver
<1> QED BY <1>1, <1>2, <1>3 DEF LedgerIInv

\* A step of one request leaves the others as they are, and the drain, which is not in
\* its last stages then.
LEMMA RequestKeeps ==
  ASSUME LedgerIInv, NEW r \in Requests,
         owner' \in [Requests -> {"idle", "reserving", "calling", "closing", "ended"}],
         reserve' \in [Requests -> {"none", "sent", "made", "failed"}],
         close' \in [Requests -> CloseRecords],
         spring' \in [Requests -> {"absent", "RESERVED", "SETTLED", "UNKNOWN"}],
         requests' \subseteq Requests, settled' \subseteq Requests, gate' \in BOOLEAN,
         UNCHANGED <<drain, marking, execution>>,
         \A q \in Requests \ {r} :
           /\ owner'[q] = owner[q] /\ reserve'[q] = reserve[q] /\ close'[q] = close[q]
           /\ spring'[q] = spring[q] /\ (q \in requests' <=> q \in requests)
           /\ (q \in settled' <=> q \in settled),
         RequestInv(r)',
         close[r].st \notin CloseOver \/ reserve[r] = "sent" \/ owner[r] \notin {"idle", "ended"}
           \/ kids = "running",
         owner'[r] \in {"idle", "ended"} \/ owner[r] \notin {"idle", "ended"} \/ kids = "running"
  PROVE  LedgerIInv'
<1>1. /\ LedgerTypeOK /\ ShutdownInv /\ \A q \in Requests : RequestInv(q)
      /\ UNCHANGED <<drain, marking, kids, op, asked, listed, closing, cancels>>
  BY DEF LedgerIInv, execution
<1>2. LedgerTypeOK'
  BY <1>1 DEF LedgerTypeOK, CloseRecords
<1>3. \A q \in Requests : RequestInv(q)'
  <2>1. \A q \in Requests \ {r} : RequestInv(q)'
    BY <1>1 DEF RequestInv
  <2> QED BY <2>1
<1>4. kids = "ended" => KidsQuiet'
  BY <1>1 DEF ShutdownInv, KidsQuiet
<1>5. drain \notin {"marking", "ok", "failed"}
  <2> SUFFICES ASSUME drain \in {"marking", "ok", "failed"} PROVE FALSE
    OBVIOUS
  <2>1. close[r].st \in CloseOver /\ kids = "ended" /\ owner[r] \in {"idle", "ended"}
    BY <1>1 DEF ShutdownInv, KidsQuiet
  <2>2. reserve[r] # "sent"
    BY <1>1, <2>1 DEF RequestInv, CloseOver
  <2> QED BY <2>1, <2>2
<1>6. ShutdownInv'
  <2>1. marking = {} /\ marking' = {}
    BY <1>1, <1>5 DEF ShutdownInv
  <2> QED BY <1>1, <1>4, <1>5, <2>1 DEF ShutdownInv
<1> QED BY <1>2, <1>3, <1>6 DEF LedgerIInv

\* The parts of a request: its reservation, its call, its close and its cancellation.
LEMMA RequestSteps ==
  ASSUME LedgerIInv, NEW r \in Requests,
         StartReserve(r) \/ RequestStep(r) \/ Provider(r) \/ CancelOwner(r)
  PROVE  LedgerIInv'
<1>1. /\ LedgerTypeOK /\ RequestInv(r) /\ requests \subseteq Requests /\ settled \subseteq Requests
      /\ owner \in [Requests -> {"idle", "reserving", "calling", "closing", "ended"}]
      /\ reserve \in [Requests -> {"none", "sent", "made", "failed"}]
      /\ close \in [Requests -> CloseRecords] /\ close[r] \in CloseRecords
      /\ spring \in [Requests -> {"absent", "RESERVED", "SETTLED", "UNKNOWN"}]
      /\ gate \in BOOLEAN
  BY DEF LedgerIInv, LedgerTypeOK, CloseRecords
<1>2. ASSUME NEW c \in CloseRecords, close' = [close EXCEPT ![r] = c]
      PROVE  /\ close' \in [Requests -> CloseRecords] /\ close'[r] = c
             /\ \A q \in Requests \ {r} : close'[q] = close[q]
  BY <1>1, <1>2
<1>3. CASE StartReserve(r)
  <2>1. /\ owner[r] = "idle" /\ kids = "running" /\ owner' = [owner EXCEPT ![r] = "reserving"]
        /\ reserve' = [reserve EXCEPT ![r] = "sent"]
        /\ UNCHANGED <<close, requests, settled, gate, drain, marking, execution, spring>>
    BY <1>3 DEF StartReserve
  <2>2. RequestInv(r)'
    BY <1>1, <2>1 DEF RequestInv
  <2> QED BY <1>1, <2>1, <2>2, RequestKeeps
<1>4. ASSUME NEW outcome \in Outcomes, ReserveEnds(r, outcome) PROVE LedgerIInv'
  <2>1. /\ reserve[r] = "sent" /\ Arrives(r, "RESERVE", outcome)
        /\ reserve' = [reserve EXCEPT ![r] = IF outcome = "ok" THEN "made" ELSE "failed"]
        /\ requests' = IF outcome = "ok" THEN requests \union {r} ELSE requests
        /\ owner' = [owner EXCEPT ![r] = IF @ # "reserving" THEN @
                                         ELSE IF outcome = "ok" THEN "calling" ELSE "ended"]
        /\ UNCHANGED <<close, settled, drain, marking, execution>>
    BY <1>4 DEF ReserveEnds
  <2>2. gate' \in BOOLEAN
    BY <1>1, <1>4 DEF ReserveEnds
  <2>3. /\ spring' \in [Requests -> {"absent", "RESERVED", "SETTLED", "UNKNOWN"}]
        /\ \A q \in Requests \ {r} : spring'[q] = spring[q]
    BY <1>1, <2>1, EntryMoves
  <2>4. RequestInv(r)'
    BY <1>1, <2>1 DEF RequestInv, CloseOver
  <2>5. owner'[r] \in {"idle", "ended"} \/ owner[r] \notin {"idle", "ended"}
    BY <1>1, <2>1
  <2>6. /\ owner' \in [Requests -> {"idle", "reserving", "calling", "closing", "ended"}]
        /\ reserve' \in [Requests -> {"none", "sent", "made", "failed"}]
        /\ requests' \subseteq Requests
        /\ \A q \in Requests \ {r} : /\ owner'[q] = owner[q] /\ reserve'[q] = reserve[q]
                                     /\ (q \in requests' <=> q \in requests)
    BY <1>1, <2>1
  <2> QED BY <1>1, <2>1, <2>2, <2>3, <2>4, <2>5, <2>6, RequestKeeps
<1>5. CASE Provider(r)
  <2>1. PICK kind \in {"SETTLE", "UNKNOWN"}, quiet \in BOOLEAN : ProviderReturns(r, kind, quiet)
    BY <1>5 DEF Provider
  <2> DEFINE c == [kind |-> kind, st |-> "lock", chain |-> FALSE, quiet |-> quiet]
  <2>2. c \in CloseRecords /\ c.st = "lock" /\ c.chain = FALSE /\ c.kind = kind
    BY DEF CloseRecords
  <2>3. /\ owner[r] = "calling" /\ owner' = [owner EXCEPT ![r] = "closing"]
        /\ close' = [close EXCEPT ![r] = c]
        /\ UNCHANGED <<reserve, requests, settled, gate, drain, marking, execution, spring>>
    BY <2>1 DEF ProviderReturns
  <2> HIDE DEF c
  <2>4. /\ close' \in [Requests -> CloseRecords] /\ close'[r] = c
        /\ \A q \in Requests \ {r} : close'[q] = close[q]
    BY <1>2, <2>2, <2>3
  <2>5. RequestInv(r)'
    BY <1>1, <2>2, <2>3, <2>4 DEF RequestInv
  <2> QED BY <1>1, <2>3, <2>4, <2>5, RequestKeeps
<1>6. CASE CleanUp(r)
  <2> DEFINE c == [close[r] EXCEPT !.st = IF reserve[r] = "made" THEN "lock" ELSE "raised"]
  <2>1. /\ close[r].st = "awaits" /\ reserve[r] # "sent" /\ close' = [close EXCEPT ![r] = c]
        /\ UNCHANGED <<owner, reserve, requests, settled, gate, drain, marking, execution, spring>>
    BY <1>1, <1>6 DEF CleanUp
  <2>2. c \in CloseRecords /\ c.st \in {"lock", "raised"} /\ c.chain = close[r].chain
        /\ c.kind = close[r].kind
    BY <1>1 DEF CloseRecords
  <2> HIDE DEF c
  <2>3. /\ close' \in [Requests -> CloseRecords] /\ close'[r] = c
        /\ \A q \in Requests \ {r} : close'[q] = close[q]
    BY <1>2, <2>1, <2>2
  <2>4. RequestInv(r)'
    BY <1>1, <2>1, <2>2, <2>3 DEF RequestInv, CloseOver
  <2> QED BY <1>1, <2>1, <2>3, <2>4, RequestKeeps DEF CloseOver
<1>7. ASSUME NEW s \in {"sent", "done", "raised"}, close' = [close EXCEPT ![r].st = s],
             close[r].st \in {"lock", "sent"},
             s = "sent" => UNCHANGED owner,
             s # "sent" => Released(r),
             spring' \in [Requests -> {"absent", "RESERVED", "SETTLED", "UNKNOWN"}],
             \A q \in Requests \ {r} : spring'[q] = spring[q],
             requests' = requests \/ requests' = requests \ {r},
             settled' = settled \/ (settled' = settled \union {r} /\ s = "done" /\ requests' = requests \ {r}),
             spring'[r] = "RESERVED" => spring[r] = "RESERVED" /\ requests' = requests,
             UNCHANGED <<reserve, gate, drain, marking, execution>>
      PROVE  LedgerIInv'
  <2> DEFINE c == [close[r] EXCEPT !.st = s]
  <2>1. /\ c \in CloseRecords /\ c.st = s /\ c.chain = close[r].chain /\ c.kind = close[r].kind
        /\ close' = [close EXCEPT ![r] = c]
    BY <1>1, <1>7 DEF CloseRecords
  <2> HIDE DEF c
  <2>2. /\ close' \in [Requests -> CloseRecords] /\ close'[r] = c
        /\ \A q \in Requests \ {r} : close'[q] = close[q]
    BY <1>2, <2>1
  <2>3. /\ owner' \in [Requests -> {"idle", "reserving", "calling", "closing", "ended"}]
        /\ \A q \in Requests \ {r} : owner'[q] = owner[q]
        /\ owner'[r] = IF s # "sent" /\ owner[r] = "closing" THEN "ended" ELSE owner[r]
    BY <1>1, <1>7 DEF Released
  <2>4. RequestInv(r)'
    BY <1>1, <1>7, <2>1, <2>2, <2>3 DEF RequestInv, CloseOver
  <2>5. /\ requests' \subseteq Requests /\ settled' \subseteq Requests /\ gate' \in BOOLEAN
        /\ \A q \in Requests \ {r} : /\ (q \in requests' <=> q \in requests)
                                     /\ (q \in settled' <=> q \in settled)
        /\ reserve' \in [Requests -> {"none", "sent", "made", "failed"}]
        /\ \A q \in Requests \ {r} : reserve'[q] = reserve[q]
    BY <1>1, <1>7
  <2>6. close[r].st \notin CloseOver
        /\ (owner'[r] \in {"idle", "ended"} \/ owner[r] \notin {"idle", "ended"})
    BY <1>7, <2>3 DEF CloseOver
  <2> QED BY <1>1, <1>7, <2>2, <2>3, <2>4, <2>5, <2>6, RequestKeeps
<1>8. CASE Posts(r)
  <2>1. /\ close[r].st = "lock"
        /\ \/ close' = [close EXCEPT ![r].st = "done"] /\ Released(r)
           \/ close' = [close EXCEPT ![r].st = "sent"] /\ UNCHANGED owner
        /\ UNCHANGED <<reserve, requests, settled, gate, drain, marking, execution, spring>>
    BY <1>8 DEF Posts
  <2> QED BY <1>1, <1>7, <2>1
<1>9. ASSUME NEW outcome \in Outcomes, Posted(r, outcome) PROVE LedgerIInv'
  <2> DEFINE s == IF outcome = "ok" \/ close[r].quiet THEN "done" ELSE "raised"
  <2>1. /\ close[r].st = "sent" /\ close' = [close EXCEPT ![r].st = s] /\ Released(r)
        /\ Arrives(r, close[r].kind, outcome)
        /\ settled' = IF outcome = "ok" /\ close[r].kind = "SETTLE" THEN settled \union {r} ELSE settled
        /\ requests' = IF outcome = "ok" THEN requests \ {r} ELSE requests
        /\ UNCHANGED <<reserve, gate, drain, marking, execution>>
    BY <1>9 DEF Posted
  <2>2. s \in {"done", "raised"} /\ (outcome = "ok" => s = "done")
    OBVIOUS
  <2> HIDE DEF s
  <2>3. close[r].kind \in {"SETTLE", "UNKNOWN"}
    BY <1>1, <2>1 DEF RequestInv
  <2>4. /\ spring' \in [Requests -> {"absent", "RESERVED", "SETTLED", "UNKNOWN"}]
        /\ \A q \in Requests \ {r} : spring'[q] = spring[q]
        /\ spring'[r] = "RESERVED" => spring[r] = "RESERVED"
        /\ outcome = "ok" => spring'[r] # "RESERVED"
    BY <1>1, <2>1, <2>3, EntryMoves
  <2> QED BY <1>7, <2>1, <2>2, <2>4
<1>10. CASE CancelOwner(r)
  <2> DEFINE c == Detached(r)
  <2>1. /\ owner[r] \in {"reserving", "calling", "closing"} /\ owner' = [owner EXCEPT ![r] = "ended"]
        /\ close' = [close EXCEPT ![r] = c]
        /\ UNCHANGED <<reserve, requests, settled, gate, drain, marking, execution, spring>>
    BY <1>10 DEF CancelOwner
  <2>2. /\ c \in CloseRecords /\ c.chain = TRUE
        /\ c.st = IF owner[r] = "reserving" THEN "awaits"
                  ELSE IF owner[r] = "calling" THEN "lock" ELSE close[r].st
        /\ c.kind = IF owner[r] = "closing" THEN close[r].kind ELSE "UNKNOWN"
    <3>1. CASE owner[r] = "reserving"
      BY <3>1 DEF Detached, CloseRecords
    <3>2. CASE owner[r] = "calling"
      BY <3>2 DEF Detached, CloseRecords
    <3>3. CASE owner[r] = "closing"
      <4>1. c = [close[r] EXCEPT !.chain = TRUE, !.quiet = FALSE]
        BY <3>3 DEF Detached
      <4> QED BY <1>1, <3>3, <4>1 DEF CloseRecords
    <3> QED BY <2>1, <3>1, <3>2, <3>3
  <2> HIDE DEF c
  <2>3. /\ close' \in [Requests -> CloseRecords] /\ close'[r] = c
        /\ \A q \in Requests \ {r} : close'[q] = close[q]
    BY <1>2, <2>1, <2>2
  <2>4. RequestInv(r)'
    BY <1>1, <2>1, <2>2, <2>3 DEF RequestInv, CloseOver
  <2> QED BY <1>1, <2>1, <2>3, <2>4, RequestKeeps
<1> QED BY <1>3, <1>4, <1>5, <1>6, <1>8, <1>9, <1>10 DEF RequestStep

\* The execution, its branches, the drain and the shutdown move on: as long as no entry
\* changes, the requests are what they were.
LEMMA ShutdownSteps ==
  ASSUME LedgerIInv,
         \/ KidsEnd \/ StopOp \/ CancelOp \/ KidsAwaited \/ OpDrained \/ CloseService \/ Shutdown
         \/ TasksDone \/ DrainEnds
         \/ \E r \in Requests : Mark(r)
  PROVE  LedgerIInv'
<1>1. LedgerTypeOK /\ ShutdownInv /\ \A r \in Requests : RequestInv(r)
  BY DEF LedgerIInv
<1>2. UNCHANGED <<owner, reserve, close, requests, settled, spring>>
  BY DEF request, execution, KidsEnd, StopOp, CancelOp, KidsAwaited, OpDrained, CloseService,
         Shutdown, OpsAwaited, CloseDrains, CloseHttp, TasksDone, DrainEnds, Mark
<1>3. \A r \in Requests : RequestInv(r)'
  BY <1>1, <1>2 DEF RequestInv
<1>4. KidsQuiet' <=> KidsQuiet
  BY <1>2 DEF KidsQuiet
<1>5. ASSUME drain' = drain, marking' = marking,
             op' \in {"running", "stopping", "interrupted", "draining", "ended"},
             op = "ended" => op' = "ended",
             gate' \in BOOLEAN, asked' \in BOOLEAN, cancels' \in 0..MaxCancels,
             CancelKids, listed' = listed,
             closing' = closing \/ (closing = "open" /\ closing' = "ops")
               \/ (closing = "ops" /\ op = "ended" /\ closing' = "kids")
      PROVE  LedgerIInv'
  <2>1. kids' \in {"running", "cancelled", "ended"} /\ (kids' = "ended" <=> kids = "ended")
    BY <1>1, <1>5 DEF CancelKids, LedgerTypeOK
  <2>2. closing' \in {"open", "ops", "kids", "draining", "closed"}
    BY <1>1, <1>5 DEF LedgerTypeOK
  <2>3. LedgerTypeOK'
    BY <1>1, <1>2, <1>5, <2>1, <2>2 DEF LedgerTypeOK
  <2>4. ShutdownInv'
    BY <1>1, <1>2, <1>4, <1>5, <2>1 DEF ShutdownInv
  <2> QED BY <1>3, <2>3, <2>4 DEF LedgerIInv
<1>6. /\ op \in {"running", "stopping", "interrupted", "draining", "ended"}
      /\ gate \in BOOLEAN /\ asked \in BOOLEAN /\ listed \in BOOLEAN /\ cancels \in 0..MaxCancels
      /\ kids \in {"running", "cancelled", "ended"} /\ marking \subseteq Requests
      /\ drain \in {"none", "tasks", "marking", "ok", "failed"}
      /\ closing \in {"open", "ops", "kids", "draining", "closed"}
  BY <1>1 DEF LedgerTypeOK
<1>7. Cancelled => /\ op' \in {"running", "stopping", "interrupted", "draining", "ended"}
                   /\ (op = "ended" => op' = "ended")
                   /\ gate' \in BOOLEAN /\ asked' \in BOOLEAN /\ CancelKids
  BY <1>6 DEF Cancelled
<1>8. CASE StopOp
  BY <1>5, <1>6, <1>8 DEF StopOp
<1>9. CASE CancelOp
  <2>1. Cancelled /\ cancels' = cancels + 1 /\ cancels < MaxCancels
        /\ UNCHANGED <<drain, marking, listed, closing>>
    BY <1>9 DEF CancelOp
  <2>2. cancels' \in 0..MaxCancels
    BY <1>6, <2>1, CancelsAssumption
  <2> QED BY <1>5, <1>7, <2>1, <2>2
<1>10. CASE CloseService
  <2>1. /\ closing = "open" /\ closing' = "ops" /\ UNCHANGED <<drain, marking, listed, cancels>>
        /\ \/ Cancelled
           \/ gate' = (gate \/ listed) /\ CancelKids /\ UNCHANGED <<op, asked>>
    BY <1>10 DEF CloseService
  <2> QED BY <1>5, <1>6, <1>7, <2>1
<1>11. CASE OpsAwaited
  BY <1>5, <1>6, <1>11 DEF OpsAwaited
<1>12. CASE KidsEnd
  <2>1. KidsQuiet /\ kids' = "ended" /\ UNCHANGED <<gate, drain, marking, op, asked, listed, closing, cancels>>
    BY <1>12 DEF KidsEnd
  <2>2. LedgerTypeOK'
    BY <1>1, <1>2, <2>1 DEF LedgerTypeOK
  <2>3. ShutdownInv'
    BY <1>1, <1>2, <1>4, <2>1 DEF ShutdownInv
  <2> QED BY <1>3, <2>2, <2>3 DEF LedgerIInv
<1>13. CASE KidsAwaited \/ OpDrained \/ CloseDrains \/ CloseHttp
  <2>1. UNCHANGED <<gate, marking, kids, asked, cancels>>
    BY <1>13 DEF KidsAwaited, OpDrained, CloseDrains, CloseHttp
  <2>2. /\ op' \in {"running", "stopping", "interrupted", "draining", "ended"}
        /\ listed' \in BOOLEAN
        /\ drain' \in {"none", "tasks", "marking", "ok", "failed"}
        /\ closing' \in {"open", "ops", "kids", "draining", "closed"}
    BY <1>6, <1>13 DEF KidsAwaited, OpDrained, CloseDrains, CloseHttp
  <2>3. LedgerTypeOK'
    BY <1>1, <1>2, <2>1, <2>2 DEF LedgerTypeOK
  <2>4. ShutdownInv'
    <3>1. CASE KidsAwaited
      BY <1>1, <1>2, <1>4, <2>1, <3>1 DEF KidsAwaited, ShutdownInv
    <3>2. CASE OpDrained
      BY <1>1, <1>2, <1>4, <2>1, <3>2 DEF OpDrained, ShutdownInv
    <3>3. CASE CloseDrains
      BY <1>1, <1>2, <1>4, <2>1, <3>3 DEF CloseDrains, ShutdownInv
    <3>4. CASE CloseHttp
      BY <1>1, <1>2, <1>4, <2>1, <3>4 DEF CloseHttp, ShutdownInv
    <3> QED BY <1>13, <3>1, <3>2, <3>3, <3>4
  <2> QED BY <1>3, <2>3, <2>4 DEF LedgerIInv
<1>14. CASE TasksDone
  <2>1. /\ drain = "tasks" /\ \A r \in Chains : close[r].st \in {"done", "raised"}
        /\ drain' \in {"failed", "marking"}
        /\ UNCHANGED <<gate, marking, kids, op, asked, listed, closing, cancels>>
    BY <1>14 DEF TasksDone, execution
  <2>2. \A r \in Requests : close[r].st \in CloseOver
    <3> SUFFICES ASSUME NEW r \in Requests PROVE close[r].st \in CloseOver
      OBVIOUS
    <3>1. owner[r] \in {"idle", "ended"} /\ RequestInv(r)
      BY <1>1, <2>1 DEF ShutdownInv, KidsQuiet
    <3>2. CASE r \in Chains
      BY <2>1, <3>2 DEF CloseOver
    <3>3. CASE r \notin Chains
      BY <1>1, <3>1, <3>3 DEF RequestInv, Chains, CloseOver, LedgerTypeOK
    <3> QED BY <3>2, <3>3
  <2>3. LedgerTypeOK'
    BY <1>1, <1>2, <2>1 DEF LedgerTypeOK
  <2>4. ShutdownInv'
    BY <1>1, <1>2, <1>4, <2>1, <2>2 DEF ShutdownInv
  <2> QED BY <1>3, <2>3, <2>4 DEF LedgerIInv
<1>15. CASE DrainEnds
  <2>1. /\ drain = "marking" /\ marking = {} /\ requests \ settled = {} /\ drain' = "ok"
        /\ UNCHANGED <<gate, marking, kids, op, asked, listed, closing, cancels>>
    BY <1>15 DEF DrainEnds, execution
  <2>2. requests = {}
    BY <1>1, <2>1 DEF RequestInv, LedgerTypeOK
  <2>3. LedgerTypeOK'
    BY <1>1, <1>2, <2>1 DEF LedgerTypeOK
  <2>4. ShutdownInv'
    BY <1>1, <1>2, <1>4, <2>1, <2>2 DEF ShutdownInv
  <2> QED BY <1>3, <2>3, <2>4 DEF LedgerIInv
<1>16. ASSUME NEW r \in Requests, Mark(r) PROVE LedgerIInv'
  <2>1. /\ drain = "marking" /\ r \in requests \ settled /\ marking' = {r}
        /\ UNCHANGED <<gate, drain, kids, op, asked, listed, closing, cancels>>
    BY <1>16 DEF Mark, execution
  <2>2. LedgerTypeOK'
    BY <1>1, <1>2, <2>1 DEF LedgerTypeOK
  <2>3. ShutdownInv'
    BY <1>1, <1>2, <1>4, <2>1 DEF ShutdownInv
  <2> QED BY <1>3, <2>2, <2>3 DEF LedgerIInv
<1> QED BY <1>8, <1>9, <1>10, <1>11, <1>12, <1>13, <1>14, <1>15, <1>16 DEF Shutdown

\* The answer to the UNKNOWN of the drain: Spring holds the entry open no more, or the
\* drain has failed.
LEMMA MarkedKeeps ==
  ASSUME LedgerIInv, NEW r \in Requests, NEW outcome \in Outcomes, Marked(r, outcome)
  PROVE  LedgerIInv'
<1>1. LedgerTypeOK /\ ShutdownInv /\ \A q \in Requests : RequestInv(q)
  BY DEF LedgerIInv
<1>2. /\ r \in marking /\ Arrives(r, "UNKNOWN", outcome) /\ marking' = {}
      /\ requests' = IF outcome = "ok" THEN requests \ {r} ELSE requests
      /\ drain' = IF outcome = "ok" THEN drain ELSE "failed"
      /\ UNCHANGED <<owner, reserve, close, settled, gate, kids, op, asked, listed, closing, cancels>>
  BY DEF Marked, request, execution
<1>3. /\ spring' \in [Requests -> {"absent", "RESERVED", "SETTLED", "UNKNOWN"}]
      /\ \A q \in Requests \ {r} : spring'[q] = spring[q]
      /\ spring'[r] = "RESERVED" => spring[r] = "RESERVED"
      /\ outcome = "ok" => spring'[r] # "RESERVED"
  BY <1>1, <1>2, EntryMoves
<1>4. drain = "marking" /\ marking \subseteq Requests /\ requests \subseteq Requests
  BY <1>1, <1>2 DEF ShutdownInv, LedgerTypeOK
<1>5. LedgerTypeOK'
  BY <1>1, <1>2, <1>3, <1>4 DEF LedgerTypeOK
<1>6. ShutdownInv'
  <2>1. UNCHANGED KidsQuiet
    BY <1>2 DEF KidsQuiet
  <2> QED BY <1>1, <1>2, <1>4, <2>1 DEF ShutdownInv
<1>7. \A q \in Requests : RequestInv(q)'
  <2>1. RequestInv(r)'
    BY <1>1, <1>2, <1>3 DEF RequestInv
  <2>2. \A q \in Requests \ {r} : RequestInv(q)'
    BY <1>1, <1>2, <1>3 DEF RequestInv
  <2> QED BY <2>1, <2>2
<1> QED BY <1>5, <1>6, <1>7 DEF LedgerIInv

\* The invariant holds in every state of an execution.
LEMMA LedgerInvariance == LedgerSpec => []LedgerIInv
<1>1. LedgerIInv /\ [LedgerNext]_ledger => LedgerIInv'
  <2> SUFFICES ASSUME LedgerIInv, [LedgerNext]_ledger PROVE LedgerIInv'
    OBVIOUS
  <2>1. CASE UNCHANGED ledger
    <3>1. UNCHANGED <<owner, reserve, close, requests, settled, gate, drain, marking, kids, op,
                      asked, listed, closing, cancels, spring>>
      BY <2>1 DEF ledger
    <3>2. LedgerTypeOK'
      BY <3>1 DEF LedgerIInv, LedgerTypeOK
    <3>3. ShutdownInv'
      BY <3>1 DEF LedgerIInv, ShutdownInv, KidsQuiet
    <3>4. \A r \in Requests : RequestInv(r)'
      BY <3>1 DEF LedgerIInv, RequestInv
    <3> QED BY <3>2, <3>3, <3>4 DEF LedgerIInv
  <2>2. CASE \E r \in Requests : StartReserve(r) \/ RequestStep(r) \/ Provider(r) \/ CancelOwner(r)
    BY <2>2, RequestSteps
  <2>3. CASE \/ KidsEnd \/ StopOp \/ CancelOp \/ KidsAwaited \/ OpDrained \/ CloseService \/ Shutdown
             \/ TasksDone \/ DrainEnds
             \/ \E r \in Requests : Mark(r)
    BY <2>3, ShutdownSteps
  <2>4. CASE \E r \in Requests : \E outcome \in Outcomes : Marked(r, outcome)
    BY <2>4, MarkedKeeps
  <2> QED BY <2>1, <2>2, <2>3, <2>4 DEF LedgerNext, Drain
<1> QED BY <1>1, LedgerStarts, PTL DEF LedgerSpec

\* However often the execution is cancelled, whichever posts and answers are lost and
\* whenever the worker is closed: the drain has the last word on every request, a usage
\* that was settled is not reported as unknown, and a drain that succeeds leaves no
\* reservation open that the worker knows of.
THEOREM LedgerHolds == LedgerSpec => []LedgerInv
<1>1. LedgerIInv => LedgerInv
  <2> SUFFICES ASSUME LedgerIInv PROVE LastWord /\ DrainedIsAccounted
    BY DEF LedgerInv, LedgerIInv
  <2>1. ShutdownInv /\ \A r \in Requests : RequestInv(r)
    BY DEF LedgerIInv
  <2>2. LastWord
    BY <2>1 DEF LastWord, ShutdownInv, RequestInv, CloseOver
  <2>3. DrainedIsAccounted
    BY <2>1 DEF DrainedIsAccounted, ShutdownInv, RequestInv
  <2> QED BY <2>2, <2>3
<1> QED BY <1>1, LedgerInvariance, PTL

\* The HTTP client is closed when no call, no detached task and no drain of the execution
\* is left that would need it.
THEOREM ClientClosedLast == LedgerSpec => []HttpClosedLast
<1>1. LedgerIInv => HttpClosedLast
  BY DEF LedgerIInv, ShutdownInv, HttpClosedLast, KidsQuiet, CloseOver
<1> QED BY <1>1, LedgerInvariance, PTL

-----------------------------------------------------------------------------
\* The typo branch

TypoRecords ==
  [at : {"idle", "reading", "checking", "publishing"}, next : Nat \ {0},
   view : [Cores -> SUBSET (Spans \union Unchecked)], accepted : SUBSET Spans,
   done : SUBSET Cores, failed : BOOLEAN, found : SUBSET Spans]

TypoTypeOK ==
  /\ segments \in [Cores -> SUBSET (Spans \union Unchecked)]
  /\ \A n \in Cores : segments[n] # Unchecked => segments[n] \subseteq Owned(n)
  /\ typo \in TypoRecords

\* The execution at work: what it has not come to yet stands as it was loaded, and it
\* has accepted exactly what Spring has for the segments it is done with.
LoopInv ==
  /\ typo.at # "idle" => \A n \in Cores : n >= typo.next => typo.view[n] = segments[n]
  /\ typo.at = "publishing" =>
       /\ typo.next \in Cores /\ segments[typo.next] = Unchecked
       /\ typo.found \subseteq Owned(typo.next) /\ Acceptable(typo.found)
  /\ \A n \in typo.done : n < typo.next /\ segments[n] # Unchecked
  /\ ~typo.failed => \A n \in Cores : n < typo.next => n \in typo.done
  /\ \A s : s \in typo.accepted <=> \E n \in typo.done : s \in segments[n]
  /\ Disjoint(typo.accepted)

VerdictInv == TypoInv /\ (verdict.status = "COMPLETED" => typo.at = "idle")

TypoIInv == TypoTypeOK /\ LoopInv /\ VerdictInv

\* What is published is never mistaken for a segment without a batch.
LEMMA BatchIsChecked ==
  /\ NumCores \in Int
  /\ \A n \in Cores : Owned(n) \subseteq Spans /\ \A found \in SUBSET Owned(n) : found # Unchecked
<1>1. NumCores \in Int
  BY TypoAssumption DEF NumCores
<1>2. <<0, 0>> \notin Spans
  BY DEF Spans
<1> QED BY <1>1, <1>2 DEF Owned, Unchecked

\* Suggestions that overlap neither each other nor what is accepted are accepted.
LEMMA DisjointUnion ==
  ASSUME NEW found, NEW accepted, Disjoint(found), Disjoint(accepted),
         found \subseteq Spans, accepted \subseteq Spans,
         \A s \in found, t \in accepted : ~SpansOverlap(s, t)
  PROVE  Disjoint(accepted \union found)
<1>1. \A s, t \in Spans : SpansOverlap(s, t) => SpansOverlap(t, s)
  BY DEF SpansOverlap, Spans
<1> QED BY <1>1 DEF Disjoint

\* An execution that is over leaves its verdict and no trace of itself.
LEMMA IdleKeeps ==
  ASSUME TypoIInv, typo' = Idle, segments' = segments, TypoInv'
  PROVE  TypoIInv'
<1>1. Idle \in TypoRecords /\ Idle.at = "idle" /\ Idle.done = {} /\ Idle.accepted = {}
      /\ Idle.next = 1
  BY DEF Idle, TypoRecords
<1>2. TypoTypeOK'
  BY <1>1 DEF TypoIInv, TypoTypeOK
<1>3. LoopInv'
  BY <1>1 DEF LoopInv, Disjoint, Cores
<1>4. VerdictInv'
  BY <1>1 DEF VerdictInv
<1> QED BY <1>2, <1>3, <1>4 DEF TypoIInv

\* A batch is accepted that Spring has: the loop goes on to the next segment.
LEMMA AcceptedKeeps ==
  ASSUME TypoIInv, UNCHANGED verdict, typo.at \in {"checking", "publishing"}, Current \in Cores,
         NEW found, Accepted(found), Acceptable(found), found \subseteq Owned(Current),
         segments' = [segments EXCEPT ![Current] = found]
  PROVE  TypoIInv'
<1>1. /\ typo \in TypoRecords /\ typo.next \in Cores /\ typo.next \in Nat \ {0}
      /\ typo.view \in [Cores -> SUBSET (Spans \union Unchecked)] /\ typo.accepted \subseteq Spans
      /\ typo.done \subseteq Cores /\ typo.failed \in BOOLEAN
      /\ segments \in [Cores -> SUBSET (Spans \union Unchecked)]
      /\ found \subseteq Spans /\ found # Unchecked
  BY BatchIsChecked DEF TypoIInv, TypoTypeOK, TypoRecords, Current
<1>2. /\ typo' \in TypoRecords
      /\ typo'.at = "checking" /\ typo'.next = typo.next + 1 /\ typo'.view = typo.view
      /\ typo'.accepted = typo.accepted \union found
      /\ typo'.done = typo.done \union {typo.next} /\ typo'.failed = typo.failed
  <2>1. /\ typo.next + 1 \in Nat \ {0} /\ typo.accepted \union found \in SUBSET Spans
        /\ typo.done \union {typo.next} \in SUBSET Cores /\ {} \in SUBSET Spans
    BY <1>1
  <2>2. typo' = [typo EXCEPT !.at = "checking", !.next = typo.next + 1,
                   !.accepted = typo.accepted \union found,
                   !.done = typo.done \union {typo.next}, !.found = {}]
    BY <1>1 DEF Accepted, Sets, TypoRecords, Current
  <2> QED BY <1>1, <2>1, <2>2 DEF TypoRecords
<1>3. /\ segments'[typo.next] = found
      /\ \A n \in Cores : n # typo.next => segments'[n] = segments[n]
      /\ segments' \in [Cores -> SUBSET (Spans \union Unchecked)]
  BY <1>1 DEF Current
<1>4. Cores \subseteq Int
  BY DEF Cores
<1>5. TypoTypeOK'
  BY <1>1, <1>2, <1>3 DEF TypoIInv, TypoTypeOK, Current
<1>6. LoopInv'
  <2>1. Disjoint(typo'.accepted)
    BY <1>1, <1>2, DisjointUnion DEF TypoIInv, LoopInv, Acceptable
  <2>2. \A n \in Cores : n >= typo'.next => typo'.view[n] = segments'[n]
    BY <1>1, <1>2, <1>3, <1>4 DEF TypoIInv, LoopInv
  <2>3. \A n \in typo'.done : n < typo'.next /\ segments'[n] # Unchecked
    <3>1. \A n \in typo.done : n < typo.next /\ segments[n] # Unchecked /\ n \in Int
      BY <1>1, <1>4 DEF TypoIInv, LoopInv
    <3>2. \A n \in typo.done : n < typo.next + 1 /\ segments'[n] # Unchecked
      BY <1>1, <1>3, <3>1
    <3> QED BY <1>1, <1>2, <1>3, <3>2
  <2>4. ~typo'.failed => \A n \in Cores : n < typo'.next => n \in typo'.done
    BY <1>1, <1>2, <1>4 DEF TypoIInv, LoopInv
  <2>5. \A s : s \in typo'.accepted <=> \E n \in typo'.done : s \in segments'[n]
    <3>1. typo.next \notin typo.done
      BY <1>1 DEF TypoIInv, LoopInv
    <3>2. \A s : s \in typo.accepted <=> \E n \in typo.done : s \in segments[n]
      BY DEF TypoIInv, LoopInv
    <3>3. \A n \in typo.done : segments'[n] = segments[n]
      BY <1>1, <1>3, <3>1
    <3> QED BY <1>1, <1>2, <1>3, <3>2, <3>3
  <2> QED BY <1>2, <2>1, <2>2, <2>3, <2>4, <2>5 DEF LoopInv
<1>7. VerdictInv'
  <2>1. verdict.status # "COMPLETED"
    BY DEF TypoIInv, VerdictInv
  <2>2. TypoInv'
    BY <2>1 DEF TypoIInv, VerdictInv, TypoInv
  <2> QED BY <2>1, <2>2 DEF VerdictInv
<1> QED BY <1>5, <1>6, <1>7 DEF TypoIInv

\* A segment that failed is left behind, with whatever Spring may have stored for it.
LEMMA FailedKeeps ==
  ASSUME TypoIInv, NEW last \in BOOLEAN, SegmentFails(last), UNCHANGED verdict,
         typo.at \in {"checking", "publishing"}, Current \in Cores,
         \/ segments' = segments
         \/ /\ typo.at = "publishing"
            /\ segments' = [segments EXCEPT ![Current] = typo.found]
  PROVE  TypoIInv'
<1>1. /\ typo \in TypoRecords /\ typo.next \in Cores /\ typo.next \in Nat \ {0}
      /\ typo.done \subseteq Cores /\ typo.accepted \subseteq Spans /\ typo.found \subseteq Spans
      /\ segments \in [Cores -> SUBSET (Spans \union Unchecked)]
      /\ typo.at = "publishing" => typo.found \subseteq Owned(typo.next)
      /\ NumCores \in Int
  BY BatchIsChecked DEF TypoIInv, TypoTypeOK, TypoRecords, Current, LoopInv
<1>2. NumCores >= typo.next /\ Cores \subseteq Int /\ \A n \in Cores : n <= NumCores
  BY <1>1 DEF Cores
<1>3. /\ typo' \in TypoRecords
      /\ typo'.at = "checking" /\ typo'.view = typo.view /\ typo'.accepted = typo.accepted
      /\ typo'.next > typo.next /\ typo'.next \in Nat
      /\ typo'.done = typo.done /\ typo'.failed = TRUE
  <2>1. NumCores + 1 \in Nat \ {0} /\ NumCores + 1 > typo.next
    BY <1>1, <1>2
  <2> DEFINE to == IF last THEN NumCores + 1 ELSE typo.next + 1
  <2>3. to \in Nat \ {0} /\ to > typo.next
    BY <1>1, <2>1
  <2>4. typo' = [typo EXCEPT !.at = "checking", !.next = to, !.failed = TRUE, !.found = {}]
    BY <1>1 DEF SegmentFails, Sets, TypoRecords
  <2> HIDE DEF to
  <2>2. PICK e \in Nat \ {0} :
          /\ e > typo.next
          /\ typo' = [typo EXCEPT !.at = "checking", !.next = e, !.failed = TRUE, !.found = {}]
    BY <2>3, <2>4
  <2> QED BY <1>1, <2>2 DEF TypoRecords
<1>4. /\ \A n \in Cores : n # typo.next => segments'[n] = segments[n]
      /\ segments' \in [Cores -> SUBSET (Spans \union Unchecked)]
      /\ segments'[typo.next] # Unchecked => segments'[typo.next] \subseteq Owned(typo.next)
  BY <1>1 DEF Current, TypoIInv, TypoTypeOK
<1>5. TypoTypeOK'
  BY <1>1, <1>3, <1>4 DEF TypoIInv, TypoTypeOK
<1>6. LoopInv'
  <2>1. \A n \in typo.done : n # typo.next /\ segments'[n] = segments[n]
    BY <1>1, <1>4 DEF TypoIInv, LoopInv
  <2>2. \A n \in Cores : n >= typo'.next => typo'.view[n] = segments'[n]
    BY <1>1, <1>2, <1>3, <1>4 DEF TypoIInv, LoopInv
  <2>3. \A n \in typo'.done : n < typo'.next /\ segments'[n] # Unchecked
    <3>1. \A n \in typo.done : n < typo.next /\ segments[n] # Unchecked /\ n \in Int
      BY <1>1, <1>2 DEF TypoIInv, LoopInv
    <3>2. \A n \in typo.done : n < typo'.next
      BY <1>1, <1>3, <3>1
    <3> QED BY <1>3, <2>1, <3>1, <3>2
  <2>4. \A s : s \in typo'.accepted <=> \E n \in typo'.done : s \in segments'[n]
    BY <1>3, <2>1 DEF TypoIInv, LoopInv
  <2>5. Disjoint(typo'.accepted)
    BY <1>3 DEF TypoIInv, LoopInv
  <2> QED BY <1>3, <2>2, <2>3, <2>4, <2>5 DEF LoopInv
<1>7. VerdictInv'
  <2>1. verdict.status # "COMPLETED"
    BY DEF TypoIInv, VerdictInv
  <2>2. TypoInv'
    BY <2>1 DEF TypoIInv, VerdictInv, TypoInv
  <2> QED BY <2>1, <2>2 DEF VerdictInv
<1> QED BY <1>5, <1>6, <1>7 DEF TypoIInv

\* An execution begins with what is published, reads, and gets suggestions for the
\* segment it is at.
LEMMA TypoGoesOn ==
  ASSUME TypoIInv, StartTypos \/ ReadTarget \/ Suggest
  PROVE  TypoIInv'
<1>1. /\ typo \in TypoRecords /\ TypoTypeOK /\ LoopInv /\ VerdictInv /\ segments' = segments
      /\ segments \in [Cores -> SUBSET (Spans \union Unchecked)]
  BY DEF TypoIInv, TypoTypeOK, StartTypos, ReadTarget, Suggest, SpringKeeps
<1>2. CASE StartTypos
  <2>1. typo' = [Idle EXCEPT !.at = "reading", !.view = segments] /\ verdict' = NoVerdict
    BY <1>2 DEF StartTypos, Sets
  <2>2. /\ typo' \in TypoRecords /\ typo'.at = "reading" /\ typo'.view = segments
        /\ typo'.done = {} /\ typo'.accepted = {} /\ typo'.next = 1
    <3>1. typo' = [at |-> "reading", next |-> 1, view |-> segments, accepted |-> {},
                   done |-> {}, failed |-> FALSE, found |-> {}]
      BY <2>1 DEF Idle
    <3> QED BY <1>1, <3>1 DEF TypoRecords
  <2>3. TypoTypeOK'
    BY <1>1, <2>2 DEF TypoTypeOK
  <2>4. LoopInv'
    BY <1>1, <2>2 DEF LoopInv, Disjoint, Cores
  <2>5. VerdictInv'
    BY <2>1 DEF VerdictInv, TypoInv, NoVerdict, Disjoint
  <2> QED BY <2>3, <2>4, <2>5 DEF TypoIInv
<1>3. ASSUME NEW at \in {"checking", "publishing"}, NEW found \in SUBSET Spans,
             typo' = [typo EXCEPT !.at = at, !.found = found], verdict' = verdict,
             typo.at # "idle",
             at = "publishing" => /\ typo.next \in Cores /\ segments[typo.next] = Unchecked
                                  /\ found \subseteq Owned(typo.next) /\ Acceptable(found)
      PROVE  TypoIInv'
  <2>1. /\ typo' \in TypoRecords /\ typo'.at = at /\ typo'.found = found
        /\ typo'.view = typo.view /\ typo'.next = typo.next /\ typo'.done = typo.done
        /\ typo'.accepted = typo.accepted /\ typo'.failed = typo.failed
    BY <1>1, <1>3 DEF TypoRecords
  <2>2. TypoTypeOK'
    BY <1>1, <2>1 DEF TypoTypeOK
  <2>3. at = "publishing" => Acceptable(typo.found)'
    BY <1>3, <2>1 DEF Acceptable
  <2>4. LoopInv'
    BY <1>1, <1>3, <2>1, <2>3 DEF LoopInv
  <2>5. VerdictInv'
    <3>1. verdict.status # "COMPLETED"
      BY <1>1, <1>3 DEF VerdictInv
    <3>2. TypoInv'
      BY <1>1, <1>3, <3>1 DEF VerdictInv, TypoInv
    <3> QED BY <1>3, <3>1, <3>2 DEF VerdictInv
  <2> QED BY <2>2, <2>4, <2>5 DEF TypoIInv
<1>4. CASE ReadTarget
  <2>1. /\ typo' = [typo EXCEPT !.at = "checking", !.found = typo.found] /\ verdict' = verdict
        /\ typo.at # "idle" /\ typo.found \in SUBSET Spans
    BY <1>1, <1>4 DEF ReadTarget, Sets, TypoRecords
  <2> QED BY <1>3, <2>1
<1>5. CASE Suggest
  <2>1. /\ typo.at = "checking" /\ typo.next \in Cores /\ typo.view[typo.next] = Unchecked
        /\ verdict' = verdict
    BY <1>5 DEF Suggest, Checking, Current
  <2>2. PICK found \in Suggestions(typo.next) :
          Acceptable(found) /\ typo' = [typo EXCEPT !.at = "publishing", !.found = found]
    BY <1>5 DEF Suggest, Sets, Current
  <2>3. found \in SUBSET Spans /\ found \subseteq Owned(typo.next)
    BY <2>1, <2>2, BatchIsChecked DEF Suggestions
  <2>4. segments[typo.next] = Unchecked
    <3>1. typo.next >= typo.next
      BY <1>1 DEF TypoRecords
    <3> QED BY <1>1, <2>1, <3>1 DEF LoopInv
  <2> QED BY <1>3, <2>1, <2>2, <2>3, <2>4
<1> QED BY <1>2, <1>4, <1>5

\* However suggestions come, from the model or from an earlier execution, and wherever
\* an execution fails or dies: a result is one of segments that were checked, without
\* overlaps, and a complete one is exactly what Spring has.
THEOREM TypoHolds == TypoSpec => []TypoInv
<1>1. TypoInit => TypoIInv
  <2> SUFFICES ASSUME TypoInit PROVE TypoIInv
    OBVIOUS
  <2>1. /\ typo = Idle /\ verdict = NoVerdict /\ segments = [n \in Cores |-> Unchecked]
    BY DEF TypoInit
  <2>2. Idle \in TypoRecords /\ Idle.at = "idle" /\ Idle.done = {} /\ Idle.accepted = {}
        /\ Idle.next = 1
    BY DEF Idle, TypoRecords
  <2>3. TypoTypeOK
    BY <2>1, <2>2 DEF TypoTypeOK
  <2>4. LoopInv
    BY <2>1, <2>2 DEF LoopInv, Disjoint, Cores
  <2>5. VerdictInv
    BY <2>1, <2>2 DEF VerdictInv, TypoInv, NoVerdict, Disjoint
  <2> QED BY <2>3, <2>4, <2>5 DEF TypoIInv
<1>2. TypoIInv /\ [TypoNext]_typing => TypoIInv'
  <2> SUFFICES ASSUME TypoIInv, [TypoNext]_typing PROVE TypoIInv'
    OBVIOUS
  <2>1. /\ typo \in TypoRecords /\ TypoTypeOK /\ LoopInv /\ VerdictInv
        /\ segments \in [Cores -> SUBSET (Spans \union Unchecked)]
    BY DEF TypoIInv, TypoTypeOK
  <2>2. CASE UNCHANGED typing
    <3>1. UNCHANGED <<segments, typo, verdict>>
      BY <2>2 DEF typing
    <3>2. TypoTypeOK'
      BY <2>1, <3>1 DEF TypoTypeOK
    <3>3. LoopInv'
      BY <2>1, <3>1 DEF LoopInv, Acceptable
    <3>4. VerdictInv'
      BY <2>1, <3>1 DEF VerdictInv, TypoInv
    <3> QED BY <3>2, <3>3, <3>4 DEF TypoIInv
  <2>3. CASE StartTypos \/ ReadTarget \/ Suggest
    BY <2>3, TypoGoesOn
  <2>4. CASE TakeOver
    <3> DEFINE batch == typo.view[typo.next]
    <3>1. /\ typo.at = "checking" /\ typo.next \in Cores /\ batch # Unchecked /\ verdict' = verdict
          /\ segments' = segments
          /\ (Acceptable(batch) /\ Accepted(batch)) \/ SegmentFails(FALSE)
      BY <2>4 DEF TakeOver, Checking, Current, SpringKeeps
    <3>2. typo.next >= typo.next
      BY <2>1 DEF TypoRecords
    <3>3. batch = segments[typo.next] /\ batch \subseteq Owned(typo.next)
      BY <2>1, <3>1, <3>2 DEF LoopInv, TypoTypeOK
    <3>4. segments' = [segments EXCEPT ![typo.next] = batch]
      BY <2>1, <3>1, <3>3
    <3> HIDE DEF batch
    <3>5. CASE Acceptable(batch) /\ Accepted(batch)
      BY <3>1, <3>3, <3>4, <3>5, AcceptedKeeps DEF Current
    <3>6. CASE SegmentFails(FALSE)
      BY <3>1, <3>6, FailedKeeps DEF Current
    <3> QED BY <3>1, <3>5, <3>6
  <2>5. ASSUME NEW last \in BOOLEAN, CheckFails(last) PROVE TypoIInv'
    BY <2>5, FailedKeeps DEF CheckFails, Checking, Current, SpringKeeps
  <2>6. CASE Published
    <3>1. /\ typo.at = "publishing" /\ Accepted(typo.found) /\ verdict' = verdict
          /\ segments' = [segments EXCEPT ![Current] = typo.found]
      BY <2>6 DEF Published
    <3>2. Current \in Cores /\ typo.found \subseteq Owned(Current) /\ Acceptable(typo.found)
      BY <2>1, <3>1 DEF LoopInv, Current
    <3> QED BY <3>1, <3>2, AcceptedKeeps
  <2>7. CASE PublicationFails
    <3>1. /\ typo.at = "publishing" /\ SegmentFails(FALSE) /\ verdict' = verdict
          /\ \/ segments' = segments
             \/ segments' = [segments EXCEPT ![Current] = typo.found]
      BY <2>7 DEF PublicationFails
    <3>2. Current \in Cores
      BY <2>1, <3>1 DEF LoopInv, Current
    <3> QED BY <3>1, <3>2, FailedKeeps
  <2>8. CASE ReadingFails \/ ValidationFails
    <3>1. /\ typo' = Idle /\ segments' = segments /\ verdict'.found = {}
          /\ verdict'.status = "INCOMPLETE"
      BY <2>8 DEF ReadingFails, ValidationFails, Sets, SpringKeeps, NoVerdict
    <3>2. TypoInv'
      BY <3>1 DEF TypoInv, Disjoint
    <3> QED BY <3>1, <3>2, IdleKeeps
  <2>9. CASE BranchDies
    <3>1. typo' = Idle /\ segments' = segments /\ verdict' = verdict /\ typo.at # "idle"
      BY <2>9 DEF BranchDies, Sets, SpringKeeps
    <3>2. TypoInv'
      BY <2>1, <3>1 DEF TypoInv, VerdictInv
    <3> QED BY <3>1, <3>2, IdleKeeps
  <2>10. CASE Validated
    <3>1. /\ typo.next \notin Cores /\ typo' = Idle /\ segments' = segments
          /\ verdict'.found = typo.accepted /\ verdict'.done = typo.done
          /\ verdict'.status = "COMPLETED" => ~typo.failed
      BY <2>10 DEF Validated, Sets, SpringKeeps
    <3>2. \A n \in Cores : n < typo.next \/ typo.next \in Cores
      BY <2>1, BatchIsChecked DEF Cores, TypoRecords
    <3>3. \A s \in typo.accepted : \E n \in typo.done : s \in Owned(n)
      BY <2>1 DEF LoopInv, TypoTypeOK, TypoRecords
    <3>4. Disjoint(typo.accepted)
      BY <2>1 DEF LoopInv
    <3>5. ~typo.failed => /\ typo.done = Cores /\ \A n \in Cores : segments[n] # Unchecked
                          /\ typo.accepted = UNION {segments[n] : n \in Cores}
      <4> SUFFICES ASSUME ~typo.failed
                   PROVE  /\ typo.done = Cores /\ \A n \in Cores : segments[n] # Unchecked
                          /\ typo.accepted = UNION {segments[n] : n \in Cores}
        OBVIOUS
      <4>1. typo.done = Cores
        BY <2>1, <3>1, <3>2 DEF LoopInv, TypoRecords
      <4>2. \A s : s \in typo.accepted <=> \E n \in Cores : s \in segments[n]
        BY <2>1, <4>1 DEF LoopInv
      <4>3. typo.accepted = UNION {segments[n] : n \in Cores}
        BY <4>2
      <4> QED BY <2>1, <4>1, <4>3 DEF LoopInv
    <3>6. TypoInv'
      BY <3>1, <3>3, <3>4, <3>5 DEF TypoInv
    <3> QED BY <3>1, <3>6, IdleKeeps
  <2> QED BY <2>2, <2>3, <2>4, <2>5, <2>6, <2>7, <2>8, <2>9, <2>10 DEF TypoNext
<1>3. TypoIInv => TypoInv
  BY DEF TypoIInv, VerdictInv
<1> QED BY <1>1, <1>2, <1>3, PTL DEF TypoSpec

-----------------------------------------------------------------------------
\* The judges

Refs == {NoReceipt} \union (Questions \X (Nat \ {0}))
Receipts == [kind : {"READ", "ASKED", "TARGET", "CHANGES"}, query : Queries \union {NoQuery},
             from : Refs]
Wishes == [kind : {"ASKED", "TARGET", "CHANGES"}, query : Queries]
JudgeRecords ==
  [at : {"queue", "asking", "called", "reading", "waiting", "searching", "decided", "failed"},
   final : BOOLEAN, calls : Nat, own : Seq(Receipts), shown : Nat, todo : Seq(Wishes),
   outcome : {"none", "another", "SUSPECTED_CONFLICT"}]

\* A further call of the judge is ahead; the search for changes is made or still to come.
CallAhead(j) == j.at \in {"asking", "reading", "waiting", "searching"}
Sought(j) == ChangeSearched(j.own) \/ \E i \in DOMAIN j.todo : j.todo[i].kind = "CHANGES"

\* A judge: a call more than the first has either its follow-up behind it or the search
\* for changes, and the third has that search.
JudgeInv(j) ==
  /\ j.at = "queue" => ~j.final /\ j.calls = 0
  /\ j.at \in {"queue", "asking", "called", "decided"} => j.todo = <<>>
  /\ j.at \in {"reading", "waiting", "searching"} => j.todo # <<>>
  /\ j.at \in {"called", "decided"} => j.shown = Len(j.own)
  /\ j.outcome = "SUSPECTED_CONFLICT" => j.at = "decided" /\ ChangeSearched(j.own)
  /\ j.calls <= 3
  /\ j.calls = 3 => ChangeSearched(j.own)
  /\ ~Sought(j) => j.calls <= 2
  /\ CallAhead(j) => j.calls <= 2
  /\ CallAhead(j) /\ ~Sought(j) => j.calls <= 1
  /\ ~j.final => j.calls <= 1 /\ (CallAhead(j) => j.calls = 0)

\* What a question has received from the index names the search that found it.
Named(q, own, found) ==
  \A i \in DOMAIN own :
    own[i].kind # "READ" =>
      /\ own[i].query \in Queries
      /\ found[own[i].query] = IF own[i].from = NoReceipt THEN <<q, i>> ELSE own[i].from

LockInv ==
  /\ lock \in Seq(Questions)
  /\ \A i, k \in DOMAIN lock : lock[i] = lock[k] => i = k
  /\ \A q \in Questions : (\E i \in DOMAIN lock : lock[i] = q) <=> judge[q].at \in {"waiting", "searching"}
  /\ \A q \in Questions : judge[q].at = "searching" => HasLock(q)

\* Who searches has found no result of its query, and no other will before it.
SearchInv ==
  /\ scope = "ready" => \A q \in Questions : Named(q, judge[q].own, results)
  /\ \A q \in Questions : judge[q].at \in {"waiting", "searching"} => scope = "ready"
  /\ \A q \in Questions : judge[q].at = "searching" => ~Known(q)

JudgingTypeOK ==
  /\ judge \in [Questions -> JudgeRecords]
  /\ results \in [Queries -> Refs]

JudgingIInv ==
  /\ JudgingTypeOK /\ LockInv /\ SearchInv
  /\ \A q \in Questions : JudgeInv(judge[q])

\* What a judge will search that has asked for these queries.
FollowUpWishes(q, queries) ==
  [i \in DOMAIN queries |-> Wanted("ASKED", queries[i])] \o TargetSearch(q, queries)

\* What a judge asked for is searched first, then the worker's own search of its target.
LEMMA FollowUpTodo ==
  ASSUME NEW q \in Questions, NEW queries \in FollowUps
  PROVE  /\ FollowUpWishes(q, queries) \in Seq(Wishes)
         /\ (FollowUpWishes(q, queries) = <<>>) <=> (queries = <<>>)
         /\ \A i \in DOMAIN FollowUpWishes(q, queries) :
              FollowUpWishes(q, queries)[i].kind # "CHANGES"
<1> DEFINE todo == FollowUpWishes(q, queries)
<1>1. queries \in Seq(Queries) /\ TargetQuery \in [Questions -> Queries \union {NoQuery}]
  BY JudgingAssumption
<1> DEFINE first == [i \in DOMAIN queries |-> Wanted("ASKED", queries[i])]
<1>2. /\ first \in Seq(Wishes) /\ Len(first) = Len(queries)
      /\ \A i \in 1..Len(queries) : first[i].kind = "ASKED"
  <2>1. \A i \in 1..Len(queries) : Wanted("ASKED", queries[i]) \in Wishes
    BY <1>1 DEF Wanted, Wishes
  <2>2. DOMAIN queries = 1..Len(queries) /\ Len(queries) \in Nat
    BY <1>1
  <2> QED BY <1>1, <2>1, <2>2 DEF Wanted
<1>3. /\ TargetSearch(q, queries) \in Seq(Wishes)
      /\ \A i \in 1..Len(TargetSearch(q, queries)) : TargetSearch(q, queries)[i].kind = "TARGET"
      /\ queries = <<>> => TargetSearch(q, queries) = <<>>
  <2>1. TargetQuery[q] # NoQuery => Wanted("TARGET", TargetQuery[q]) \in Wishes
                                    /\ Wanted("TARGET", TargetQuery[q]).kind = "TARGET"
    BY <1>1 DEF Wanted, Wishes
  <2> QED BY <2>1 DEF TargetSearch
<1> HIDE DEF first
<1> DEFINE then == TargetSearch(q, queries)
<1>4. todo = first \o then
  BY DEF first, FollowUpWishes
<1> HIDE DEF todo
<1>5. then \in Seq(Wishes) /\ (\A i \in 1..Len(then) : then[i].kind = "TARGET")
      /\ (queries = <<>> => then = <<>>)
  BY <1>3
<1> HIDE DEF then
<1>6. /\ todo \in Seq(Wishes) /\ Len(todo) = Len(first) + Len(then)
      /\ DOMAIN todo = 1..Len(todo) /\ Len(first) \in Nat /\ Len(then) \in Nat
      /\ \A i \in 1..Len(todo) : todo[i] = IF i <= Len(first) THEN first[i] ELSE then[i - Len(first)]
  <2>1. first \in Seq(Wishes) /\ then \in Seq(Wishes)
    BY <1>2, <1>5
  <2>2. /\ first \o then \in Seq(Wishes) /\ Len(first \o then) = Len(first) + Len(then)
    BY <2>1
  <2>3. \A i \in 1..(Len(first) + Len(then)) :
          (first \o then)[i] = IF i <= Len(first) THEN first[i] ELSE then[i - Len(first)]
    BY <2>1
  <2>4. Len(first) \in Nat /\ Len(then) \in Nat
    BY <2>1
  <2>5. DOMAIN todo = 1..Len(todo)
    BY <1>4, <2>2
  <2> QED BY <1>4, <2>2, <2>3, <2>4, <2>5
<1>7. \A i \in 1..Len(todo) : todo[i].kind # "CHANGES"
  <2> SUFFICES ASSUME NEW i \in 1..Len(todo) PROVE todo[i].kind # "CHANGES"
    OBVIOUS
  <2>1. CASE i <= Len(first)
    BY <1>1, <1>2, <1>6, <2>1
  <2>2. CASE i > Len(first)
    <3>1. i - Len(first) \in 1..Len(then)
      BY <1>2, <1>5, <1>6, <2>2
    <3> QED BY <1>2, <1>5, <1>6, <2>2, <3>1
  <2> QED BY <1>2, <2>1, <2>2
<1>8. (todo = <<>>) <=> (queries = <<>>)
  <2>1. queries = <<>> => todo = <<>>
    BY <1>1, <1>2, <1>5, <1>6
  <2>2. queries # <<>> => Len(todo) > 0
    BY <1>1, <1>2, <1>5, <1>6
  <2> QED BY <2>1, <2>2
<1> QED BY <1>6, <1>7, <1>8 DEF todo

\* The queue of the lock gets a last.
LEMMA LockAppended ==
  ASSUME NEW S, NEW l \in Seq(S), \A i, k \in DOMAIN l : l[i] = l[k] => i = k,
         NEW q \in S, \A i \in DOMAIN l : l[i] # q
  PROVE  /\ Append(l, q) \in Seq(S)
         /\ \A i, k \in DOMAIN Append(l, q) : Append(l, q)[i] = Append(l, q)[k] => i = k
         /\ \A p : (\E i \in DOMAIN Append(l, q) : Append(l, q)[i] = p)
                     <=> p = q \/ \E i \in DOMAIN l : l[i] = p
         /\ l # <<>> => Head(Append(l, q)) = Head(l)
         /\ Append(l, q) # <<>> /\ (l = <<>> => Head(Append(l, q)) = q)
<1>1. /\ Append(l, q) \in Seq(S) /\ DOMAIN l = 1..Len(l) /\ Len(l) \in Nat
      /\ DOMAIN Append(l, q) = 1..(Len(l) + 1)
      /\ \A i \in 1..Len(l) : Append(l, q)[i] = l[i]
      /\ Append(l, q)[Len(l) + 1] = q
  OBVIOUS
<1>2. \A i, k \in DOMAIN Append(l, q) : Append(l, q)[i] = Append(l, q)[k] => i = k
  BY <1>1
<1>3. \A p : (\E i \in DOMAIN Append(l, q) : Append(l, q)[i] = p)
               <=> p = q \/ \E i \in DOMAIN l : l[i] = p
  BY <1>1
<1>4. /\ l # <<>> => Head(Append(l, q)) = Head(l)
      /\ Append(l, q) # <<>> /\ (l = <<>> => Head(Append(l, q)) = q)
  BY <1>1
<1> QED BY <1>1, <1>2, <1>3, <1>4

\* The queue of the lock loses its first.
LEMMA LockTaken ==
  ASSUME NEW S, NEW l \in Seq(S), \A i, k \in DOMAIN l : l[i] = l[k] => i = k, l # <<>>
  PROVE  /\ Tail(l) \in Seq(S)
         /\ \A i, k \in DOMAIN Tail(l) : Tail(l)[i] = Tail(l)[k] => i = k
         /\ \A p : (\E i \in DOMAIN Tail(l) : Tail(l)[i] = p)
                     <=> p # Head(l) /\ \E i \in DOMAIN l : l[i] = p
<1>1. /\ Tail(l) \in Seq(S) /\ DOMAIN l = 1..Len(l) /\ Len(l) \in Nat /\ Len(l) > 0
      /\ DOMAIN Tail(l) = 1..(Len(l) - 1)
      /\ \A i \in 1..(Len(l) - 1) : Tail(l)[i] = l[i + 1]
      /\ Head(l) = l[1]
  OBVIOUS
<1>2. \A i, k \in DOMAIN Tail(l) : Tail(l)[i] = Tail(l)[k] => i = k
  BY <1>1
<1>3. ASSUME NEW p
      PROVE  (\E i \in DOMAIN Tail(l) : Tail(l)[i] = p)
               <=> p # Head(l) /\ \E i \in DOMAIN l : l[i] = p
  <2>1. ASSUME NEW i \in DOMAIN Tail(l), Tail(l)[i] = p
        PROVE  p # Head(l) /\ \E k \in DOMAIN l : l[k] = p
    <3>1. i + 1 \in DOMAIN l /\ l[i + 1] = p /\ i + 1 # 1 /\ 1 \in DOMAIN l
      BY <1>1, <2>1
    <3> QED BY <1>1, <3>1
  <2>2. ASSUME p # Head(l), NEW k \in DOMAIN l, l[k] = p
        PROVE  \E i \in DOMAIN Tail(l) : Tail(l)[i] = p
    <3>1. k # 1 /\ k - 1 \in DOMAIN Tail(l) /\ (k - 1) + 1 = k
      BY <1>1, <2>2
    <3> QED BY <1>1, <2>2, <3>1
  <2> QED BY <2>1, <2>2
<1> QED BY <1>1, <1>2, <1>3

\* A receipt is filed: the search it is of is the one under which its query is known.
LEMMA NamedAppended ==
  ASSUME NEW q \in Questions, NEW own \in Seq(Receipts), NEW found, Named(q, own, found),
         NEW r \in Receipts, r.query \in Queries,
         found[r.query] = IF r.from = NoReceipt THEN <<q, Len(own) + 1>> ELSE r.from
  PROVE  Named(q, Append(own, r), found)
<1>1. /\ DOMAIN own = 1..Len(own) /\ Len(own) \in Nat
      /\ DOMAIN Append(own, r) = 1..(Len(own) + 1)
      /\ \A i \in 1..Len(own) : Append(own, r)[i] = own[i]
      /\ Append(own, r)[Len(own) + 1] = r
  OBVIOUS
<1> SUFFICES ASSUME NEW i \in 1..(Len(own) + 1), Append(own, r)[i].kind # "READ"
             PROVE  /\ Append(own, r)[i].query \in Queries
                    /\ found[Append(own, r)[i].query]
                         = IF Append(own, r)[i].from = NoReceipt THEN <<q, i>>
                           ELSE Append(own, r)[i].from
  BY <1>1 DEF Named
<1>2. CASE i = Len(own) + 1
  BY <1>1, <1>2
<1>3. CASE i \in 1..Len(own)
  BY <1>1, <1>3 DEF Named
<1> QED BY <1>1, <1>2, <1>3

\* A judge that fails keeps its receipts and has nothing left to search.
LEMMA FailedRecord ==
  ASSUME NEW j \in JudgeRecords, JudgeInv(j), j.at # "decided", j.at # "queue"
  PROVE  LET new == [j EXCEPT !.at = "failed", !.todo = <<>>]
         IN new \in JudgeRecords /\ JudgeInv(new) /\ new.own = j.own /\ new.at = "failed"
<1> DEFINE new == [j EXCEPT !.at = "failed", !.todo = <<>>]
<1>1. /\ j.own \in Seq(Receipts) /\ j.calls \in Nat /\ j.todo \in Seq(Wishes) /\ j.final \in BOOLEAN
  BY DEF JudgeRecords
<1>2. /\ new.own = j.own /\ new.at = "failed" /\ new.todo = <<>> /\ new.calls = j.calls
      /\ new.final = j.final /\ new.outcome = j.outcome
  BY DEF JudgeRecords
<1>3. new \in JudgeRecords
  <2>1. <<>> \in Seq(Wishes)
    OBVIOUS
  <2> QED BY <2>1 DEF JudgeRecords
<1>4. ~Sought(j) => j.calls <= 2
  BY DEF JudgeInv
<1>5. (~ChangeSearched(j.own)) => j.calls <= 2
  BY <1>1 DEF JudgeInv
<1> HIDE DEF new
<1>6. JudgeInv(new)
  <2>1. ~CallAhead(new) /\ (Sought(new) <=> ChangeSearched(j.own))
    <3>1. DOMAIN new.todo = {}
      BY <1>2
    <3> QED BY <1>2, <3>1 DEF CallAhead, Sought
  <2> QED BY <1>1, <1>2, <1>5, <2>1 DEF JudgeInv
<1> QED BY <1>2, <1>3, <1>6 DEF new

\* A judge that receives what it wished for goes on with the rest.
LEMMA ReceivedRecord ==
  ASSUME NEW j \in JudgeRecords, JudgeInv(j), j.at \in {"reading", "waiting", "searching"},
         NEW from \in Refs
  PROVE  LET r == JudgeReceipt(Head(j.todo).kind, Head(j.todo).query, from)
             new == [j EXCEPT !.at = AfterReads(Tail(j.todo)), !.todo = Tail(j.todo),
                              !.own = Append(j.own, r)]
         IN /\ r \in Receipts /\ r.query = Head(j.todo).query /\ r.query \in Queries
            /\ r.from = from
            /\ new \in JudgeRecords /\ JudgeInv(new) /\ new.own = Append(j.own, r)
            /\ new.at \in {"asking", "reading"}
<1> DEFINE r == JudgeReceipt(Head(j.todo).kind, Head(j.todo).query, from)
           own == Append(j.own, r)
           rest == Tail(j.todo)
           new == [j EXCEPT !.at = AfterReads(rest), !.todo = rest, !.own = own]
<1>1. /\ j.own \in Seq(Receipts) /\ j.calls \in Nat /\ j.todo \in Seq(Wishes) /\ j.final \in BOOLEAN
      /\ j.todo # <<>>
  BY DEF JudgeRecords, JudgeInv
<1>2. /\ Head(j.todo) \in Wishes /\ rest \in Seq(Wishes) /\ Head(j.todo) = j.todo[1]
      /\ DOMAIN j.todo = 1..Len(j.todo) /\ Len(j.todo) \in Nat /\ Len(j.todo) > 0
      /\ DOMAIN rest = 1..(Len(j.todo) - 1)
      /\ \A i \in 1..(Len(j.todo) - 1) : rest[i] = j.todo[i + 1]
  BY <1>1
<1>3. r \in Receipts /\ r.query = Head(j.todo).query /\ r.query \in Queries /\ r.from = from
      /\ r.kind = Head(j.todo).kind
  BY <1>2 DEF JudgeReceipt, Receipts, Wishes
<1> HIDE DEF r
<1>4. /\ own \in Seq(Receipts) /\ DOMAIN j.own = 1..Len(j.own) /\ Len(j.own) \in Nat
      /\ DOMAIN own = 1..(Len(j.own) + 1)
      /\ \A i \in 1..Len(j.own) : own[i] = j.own[i]
      /\ own[Len(j.own) + 1] = r
  BY <1>1, <1>3
<1> HIDE DEF own, rest
<1>5. AfterReads(rest) \in {"asking", "reading"} /\ (AfterReads(rest) = "asking" <=> rest = <<>>)
  BY DEF AfterReads
<1>6. /\ new.own = own /\ new.at = AfterReads(rest) /\ new.todo = rest /\ new.calls = j.calls
      /\ new.final = j.final /\ new.outcome = j.outcome
  BY DEF JudgeRecords
<1>7. new \in JudgeRecords
  BY <1>2, <1>4, <1>5 DEF JudgeRecords
<1> HIDE DEF new
<1>8. ChangeSearched(j.own) => ChangeSearched(own)
  BY <1>4 DEF ChangeSearched
<1>9. Sought(new) <=> Sought(j)
  <2>1. ASSUME Sought(j) PROVE Sought(new)
    <3>1. CASE ChangeSearched(j.own)
      BY <1>6, <1>8, <3>1 DEF Sought
    <3>2. ASSUME NEW i \in DOMAIN j.todo, j.todo[i].kind = "CHANGES" PROVE Sought(new)
      <4>1. CASE i = 1
        <5>1. ChangeSearched(own)
          BY <1>2, <1>3, <1>4, <3>2, <4>1 DEF ChangeSearched
        <5> QED BY <1>6, <5>1 DEF Sought
      <4>2. CASE i # 1
        <5>1. i - 1 \in DOMAIN rest /\ rest[i - 1] = j.todo[i]
          BY <1>2, <3>2, <4>2
        <5> QED BY <1>6, <3>2, <5>1 DEF Sought
      <4> QED BY <4>1, <4>2
    <3> QED BY <2>1, <3>1, <3>2 DEF Sought
  <2>2. ASSUME Sought(new) PROVE Sought(j)
    <3>1. ASSUME NEW i \in DOMAIN own, own[i].kind = "CHANGES" PROVE Sought(j)
      <4>1. CASE i = Len(j.own) + 1
        <5>1. 1 \in DOMAIN j.todo /\ j.todo[1].kind = "CHANGES"
          BY <1>2, <1>3, <1>4, <3>1, <4>1
        <5> QED BY <5>1 DEF Sought
      <4>2. CASE i \in 1..Len(j.own)
        BY <1>4, <3>1, <4>2 DEF Sought, ChangeSearched
      <4> QED BY <1>4, <4>1, <4>2
    <3>2. ASSUME NEW i \in DOMAIN rest, rest[i].kind = "CHANGES" PROVE Sought(j)
      <4>1. i + 1 \in DOMAIN j.todo /\ j.todo[i + 1].kind = "CHANGES"
        BY <1>2, <3>2
      <4> QED BY <4>1 DEF Sought
    <3> QED BY <1>6, <2>2, <3>1, <3>2 DEF Sought, ChangeSearched
  <2> QED BY <2>1, <2>2
<1>10. CallAhead(new) /\ CallAhead(j)
  BY <1>5, <1>6 DEF CallAhead
<1>11. JudgeInv(new)
  BY <1>1, <1>5, <1>6, <1>8, <1>9, <1>10 DEF JudgeInv
<1> QED BY <1>3, <1>5, <1>6, <1>7, <1>11 DEF new, own, r, rest

\* A step of one judge leaves the others as they are.
LEMMA OneJudge ==
  ASSUME JudgingIInv, NEW q \in Questions, NEW new \in JudgeRecords, Now(q, new), JudgeInv(new)
  PROVE  /\ judge' \in [Questions -> JudgeRecords] /\ judge'[q] = new
         /\ \A p \in Questions \ {q} : judge'[p] = judge[p]
         /\ \A p \in Questions : JudgeInv(judge'[p])
<1>1. judge \in [Questions -> JudgeRecords] /\ \A p \in Questions : JudgeInv(judge[p])
  BY DEF JudgingIInv, JudgingTypeOK
<1>2. /\ judge' \in [Questions -> JudgeRecords] /\ judge'[q] = new
      /\ \A p \in Questions \ {q} : judge'[p] = judge[p]
  BY <1>1 DEF Now
<1>3. \A p \in Questions : JudgeInv(judge'[p])
  <2> SUFFICES ASSUME NEW p \in Questions PROVE JudgeInv(judge'[p])
    OBVIOUS
  <2>1. CASE p = q
    BY <1>2, <2>1
  <2>2. CASE p # q
    BY <1>1, <1>2, <2>2
  <2> QED BY <2>1, <2>2
<1> QED BY <1>2, <1>3

\* A step away from the lock, whose receipts name what found them.
LEMMA QuietJudge ==
  ASSUME JudgingIInv, NEW q \in Questions, NEW new \in JudgeRecords, Now(q, new), JudgeInv(new),
         UNCHANGED <<scope, results, lock>>,
         judge[q].at \notin {"waiting", "searching"}, new.at \notin {"waiting", "searching"},
         scope = "ready" => Named(q, new.own, results)
  PROVE  JudgingIInv'
<1>1. /\ judge' \in [Questions -> JudgeRecords] /\ judge'[q] = new
      /\ \A p \in Questions \ {q} : judge'[p] = judge[p]
      /\ \A p \in Questions : JudgeInv(judge'[p])
  BY OneJudge
<1>2. JudgingTypeOK'
  BY <1>1 DEF JudgingIInv, JudgingTypeOK
<1>3. LockInv'
  <2>1. /\ lock' \in Seq(Questions)
        /\ \A i, k \in DOMAIN lock' : lock'[i] = lock'[k] => i = k
    BY DEF JudgingIInv, LockInv
  <2>2. \A p \in Questions : (\E i \in DOMAIN lock' : lock'[i] = p)
                               <=> judge'[p].at \in {"waiting", "searching"}
    BY <1>1 DEF JudgingIInv, LockInv
  <2>3. \A p \in Questions : judge'[p].at = "searching" => HasLock(p)'
    BY <1>1 DEF JudgingIInv, LockInv, HasLock
  <2> QED BY <2>1, <2>2, <2>3 DEF LockInv
<1>4. SearchInv'
  <2>1. scope' = "ready" => \A p \in Questions : Named(p, judge'[p].own, results')
    BY <1>1 DEF JudgingIInv, SearchInv
  <2>2. \A p \in Questions : judge'[p].at \in {"waiting", "searching"} => scope' = "ready"
    BY <1>1 DEF JudgingIInv, SearchInv
  <2>3. \A p \in Questions : judge'[p].at = "searching" => ~Known(p)'
    BY <1>1 DEF JudgingIInv, SearchInv, Known, Wish
  <2> QED BY <2>1, <2>2, <2>3 DEF SearchInv
<1> QED BY <1>1, <1>2, <1>3, <1>4 DEF JudgingIInv

\* A question fails away from the lock.
LEMMA QuietFailure ==
  ASSUME JudgingIInv, NEW q \in Questions, NEW level, QuestionFails(q, level),
         UNCHANGED <<scope, results, lock>>,
         judge[q].at \in {"asking", "called", "reading"}
  PROVE  JudgingIInv'
<1> DEFINE new == [judge[q] EXCEPT !.at = "failed", !.todo = <<>>]
<1>1. judge[q] \in JudgeRecords /\ JudgeInv(judge[q])
  BY DEF JudgingIInv, JudgingTypeOK
<1>2. new \in JudgeRecords /\ JudgeInv(new) /\ new.own = judge[q].own /\ new.at = "failed"
  BY <1>1, FailedRecord
<1>3. Now(q, new)
  BY DEF QuestionFails
<1> HIDE DEF new
<1>4. scope = "ready" => Named(q, new.own, results)
  BY <1>2 DEF JudgingIInv, SearchInv
<1> QED BY <1>2, <1>3, <1>4, QuietJudge

\* The judge begins, is called, and asks for searches or decides.
LEMMA CallSteps ==
  ASSUME JudgingIInv, NEW q \in Questions,
         \/ StartJudge(q) \/ Ask(q) \/ CallsSpent(q) \/ AnswerFails(q) \/ FollowUp(q) \/ Suspect(q)
         \/ DecideQuestion(q)
  PROVE  JudgingIInv'
<1> DEFINE j == judge[q]
<1>1. /\ j \in JudgeRecords /\ JudgeInv(j) /\ (scope = "ready" => Named(q, j.own, results))
  BY DEF JudgingIInv, JudgingTypeOK, SearchInv
<1>2. /\ j.own \in Seq(Receipts) /\ j.calls \in Nat /\ j.todo \in Seq(Wishes) /\ j.final \in BOOLEAN
      /\ Len(j.own) \in Nat
  BY <1>1 DEF JudgeRecords
<1>3. CASE StartJudge(q)
  <2> DEFINE r == JudgeReceipt("READ", NoQuery, NoReceipt)
             new == [j EXCEPT !.at = "asking", !.own = <<r>>]
  <2>1. /\ j.at = "queue" /\ Now(q, new) /\ UNCHANGED <<scope, results, lock>>
    BY <1>3 DEF StartJudge
  <2>2. r \in Receipts /\ r.kind = "READ"
    BY DEF JudgeReceipt, Receipts, Refs
  <2> HIDE DEF r
  <2>3. <<r>> \in Seq(Receipts)
    BY <2>2
  <2>4. /\ new \in JudgeRecords /\ new.at = "asking" /\ new.own = <<r>> /\ new.todo = j.todo
        /\ new.calls = j.calls /\ new.final = j.final /\ new.outcome = j.outcome
    BY <1>1, <2>3 DEF JudgeRecords
  <2>5. JudgeInv(new)
    <3>1. j.todo = <<>> /\ j.calls = 0 /\ j.outcome # "SUSPECTED_CONFLICT"
      BY <1>1, <2>1 DEF JudgeInv
    <3> HIDE DEF new
    <3> QED BY <2>4, <3>1 DEF JudgeInv
  <2>6. Named(q, new.own, results)
    BY <2>2, <2>4 DEF Named
  <2> HIDE DEF new, j
  <2>7. judge[q].at = "queue"
    BY <2>1 DEF j
  <2> QED BY <2>1, <2>4, <2>5, <2>6, <2>7, QuietJudge
<1>4. CASE Ask(q)
  <2> DEFINE new == [j EXCEPT !.at = "called", !.calls = j.calls + 1, !.shown = Len(j.own)]
  <2>1. j.at = "asking" /\ Now(q, new) /\ UNCHANGED <<scope, results, lock>>
    BY <1>1, <1>4 DEF Ask, JudgeRecords
  <2>2. /\ new.at = "called" /\ new.own = j.own /\ new.todo = j.todo
        /\ new.calls = j.calls + 1 /\ new.final = j.final /\ new.outcome = j.outcome
        /\ new.shown = Len(j.own)
    BY <1>1 DEF JudgeRecords
  <2>3. new \in JudgeRecords
    <3>1. j.calls + 1 \in Nat /\ Len(j.own) \in Nat
      BY <1>2
    <3> QED BY <1>1, <3>1 DEF JudgeRecords
  <2>4. JudgeInv(new)
    <3>1. /\ j.todo = <<>> /\ j.outcome # "SUSPECTED_CONFLICT" /\ j.calls <= 2
          /\ (~Sought(j) => j.calls <= 1) /\ (~j.final => j.calls = 0)
      BY <1>1, <2>1 DEF JudgeInv, CallAhead
    <3>2. Sought(j) <=> ChangeSearched(j.own)
      <4>1. DOMAIN j.todo = {}
        BY <3>1
      <4> QED BY <4>1 DEF Sought
    <3> HIDE DEF new
    <3>3. Sought(new) <=> Sought(j)
      BY <2>2 DEF Sought
    <3>4. ~CallAhead(new)
      BY <2>2 DEF CallAhead
    <3> QED BY <1>2, <2>2, <3>1, <3>2, <3>3, <3>4 DEF JudgeInv
  <2> HIDE DEF new
  <2> QED BY <1>1, <2>1, <2>2, <2>3, <2>4, QuietJudge
<1>5. CASE CallsSpent(q)
  BY <1>5, QuietFailure DEF CallsSpent
<1>6. CASE AnswerFails(q)
  BY <1>6, QuietFailure DEF AnswerFails
<1>7. CASE FollowUp(q)
  <2>1. /\ j.at = "called" /\ ~j.final /\ UNCHANGED <<scope, results, lock>>
    BY <1>7 DEF FollowUp
  <2>2. PICK queries \in FollowUps :
          \/ QuestionFails(q, "question")
          \/ Now(q, [judge[q] EXCEPT !.at = AfterReads(queries), !.final = TRUE,
                       !.todo = [i \in DOMAIN queries |-> Wanted("ASKED", queries[i])]
                                  \o TargetSearch(q, queries)])
    BY <1>7 DEF FollowUp
  <2>3. CASE QuestionFails(q, "question")
    BY <2>1, <2>3, QuietFailure
  <2>4. CASE Now(q, [judge[q] EXCEPT !.at = AfterReads(queries), !.final = TRUE,
                       !.todo = [i \in DOMAIN queries |-> Wanted("ASKED", queries[i])]
                                  \o TargetSearch(q, queries)])
    <3> DEFINE todo == FollowUpWishes(q, queries)
    <3> DEFINE new == [j EXCEPT !.at = AfterReads(queries), !.final = TRUE, !.todo = todo]
    <3>1. Now(q, new)
      BY <2>4 DEF FollowUpWishes
    <3>2. /\ todo \in Seq(Wishes) /\ ((todo = <<>>) <=> (queries = <<>>))
          /\ \A i \in DOMAIN todo : todo[i].kind # "CHANGES"
      BY FollowUpTodo
    <3> HIDE DEF todo
    <3>3. AfterReads(queries) \in {"asking", "reading"}
          /\ ((AfterReads(queries) = "asking") <=> (queries = <<>>))
      BY DEF AfterReads
    <3>4. /\ new.at = AfterReads(queries) /\ new.own = j.own /\ new.todo = todo
          /\ new.calls = j.calls /\ new.final = TRUE /\ new.outcome = j.outcome
      BY <1>1 DEF JudgeRecords
    <3>5. new \in JudgeRecords
      <4>1. /\ todo \in Seq(Wishes) /\ TRUE \in BOOLEAN
            /\ AfterReads(queries) \in {"queue", "asking", "called", "reading", "waiting",
                                       "searching", "decided", "failed"}
        BY <3>2, <3>3
      <4> QED BY <1>1, <4>1 DEF JudgeRecords
    <3> HIDE DEF new
    <3>6. JudgeInv(new)
      BY <1>1, <1>2, <2>1, <3>2, <3>3, <3>4 DEF JudgeInv
    <3> QED BY <1>1, <2>1, <3>1, <3>3, <3>4, <3>5, <3>6, QuietJudge
  <2> QED BY <2>2, <2>3, <2>4
<1>8. CASE Suspect(q)
  <2>1. /\ j.at = "called" /\ ~ChangeSearched(j.own) /\ UNCHANGED <<scope, results, lock>>
    BY <1>8 DEF Suspect, MustSearch
  <2>2. CASE QuestionFails(q, "question")
    BY <2>1, <2>2, QuietFailure
  <2>3. CASE ChangeQuery[q] # NoQuery
    <3> DEFINE w == Wanted("CHANGES", ChangeQuery[q])
               new == [j EXCEPT !.at = "reading", !.final = TRUE, !.todo = <<w>>]
    <3>1. Now(q, new)
      BY <1>8, <2>3 DEF Suspect
    <3>2. w \in Wishes /\ w.kind = "CHANGES"
      <4>1. ChangeQuery[q] \in Queries
        BY <2>3, JudgingAssumption
      <4> QED BY <4>1 DEF Wanted, Wishes
    <3> HIDE DEF w
    <3>3. <<w>> \in Seq(Wishes) /\ <<w>> # <<>> /\ 1 \in DOMAIN <<w>> /\ <<w>>[1] = w
      BY <3>2
    <3>4. /\ new.at = "reading" /\ new.own = j.own /\ new.todo = <<w>>
          /\ new.calls = j.calls /\ new.final = TRUE /\ new.outcome = j.outcome
      BY <1>1 DEF JudgeRecords
    <3>5. new \in JudgeRecords
      BY <1>1, <3>3 DEF JudgeRecords
    <3> HIDE DEF new
    <3>6. JudgeInv(new)
      <4>1. Sought(new)
        BY <3>2, <3>3, <3>4 DEF Sought
      <4>2. j.todo = <<>> /\ DOMAIN j.todo = {} /\ j.outcome # "SUSPECTED_CONFLICT"
        BY <1>1, <2>1 DEF JudgeInv
      <4>3. j.calls <= 2
        BY <1>1, <2>1, <4>2 DEF JudgeInv, Sought
      <4> QED BY <1>2, <3>3, <3>4, <4>1, <4>2, <4>3 DEF JudgeInv
    <3> QED BY <1>1, <2>1, <3>1, <3>4, <3>5, <3>6, QuietJudge
  <2> QED BY <1>8, <2>2, <2>3 DEF Suspect
<1>9. CASE DecideQuestion(q)
  <2>1. PICK outcome \in {"SUSPECTED_CONFLICT", "another"} :
          /\ outcome = "SUSPECTED_CONFLICT" => ChangeSearched(j.own)
          /\ Now(q, [j EXCEPT !.at = "decided", !.outcome = outcome])
    BY <1>9 DEF DecideQuestion
  <2> DEFINE new == [j EXCEPT !.at = "decided", !.outcome = outcome]
  <2>2. j.at = "called" /\ UNCHANGED <<scope, results, lock>>
    BY <1>9 DEF DecideQuestion
  <2>3. /\ new.at = "decided" /\ new.own = j.own /\ new.todo = j.todo /\ new.shown = j.shown
        /\ new.calls = j.calls /\ new.final = j.final /\ new.outcome = outcome
    BY <1>1 DEF JudgeRecords
  <2>4. new \in JudgeRecords
    BY <1>1 DEF JudgeRecords
  <2>5. Now(q, new)
    BY <2>1
  <2> HIDE DEF new
  <2>6. JudgeInv(new)
    BY <1>1, <1>2, <2>1, <2>2, <2>3 DEF JudgeInv, CallAhead, Sought
  <2> QED BY <1>1, <2>2, <2>3, <2>4, <2>5, <2>6, QuietJudge
<1> QED BY <1>3, <1>4, <1>5, <1>6, <1>7, <1>8, <1>9

\* A step at the lock that finds nothing new.
LEMMA LockJudge ==
  ASSUME JudgingIInv, NEW q \in Questions, NEW new \in JudgeRecords, Now(q, new), JudgeInv(new),
         UNCHANGED <<scope, results>>, LockInv',
         scope = "ready" => Named(q, new.own, results),
         new.at \in {"waiting", "searching"} => scope = "ready",
         new.at = "searching" => results[Head(new.todo).query] = NoReceipt
  PROVE  JudgingIInv'
<1>1. /\ judge' \in [Questions -> JudgeRecords] /\ judge'[q] = new
      /\ \A p \in Questions \ {q} : judge'[p] = judge[p]
      /\ \A p \in Questions : JudgeInv(judge'[p])
  BY OneJudge
<1>2. JudgingTypeOK'
  BY <1>1 DEF JudgingIInv, JudgingTypeOK
<1>3. SearchInv'
  <2>1. scope' = "ready" => \A p \in Questions : Named(p, judge'[p].own, results')
    BY <1>1 DEF JudgingIInv, SearchInv
  <2>2. \A p \in Questions : judge'[p].at \in {"waiting", "searching"} => scope' = "ready"
    BY <1>1 DEF JudgingIInv, SearchInv
  <2>3. \A p \in Questions : judge'[p].at = "searching" => ~Known(p)'
    BY <1>1 DEF JudgingIInv, SearchInv, Known, Wish
  <2> QED BY <2>1, <2>2, <2>3 DEF SearchInv
<1> QED BY <1>1, <1>2, <1>3 DEF JudgingIInv

\* Who has the lock leaves it to the next.
LEMMA LockLeft ==
  ASSUME JudgingIInv, NEW q \in Questions, NEW new \in JudgeRecords, Now(q, new), JudgeInv(new),
         HasLock(q), lock' = Tail(lock), new.at \notin {"waiting", "searching"}
  PROVE  LockInv'
<1>1. /\ judge'[q] = new /\ \A p \in Questions \ {q} : judge'[p] = judge[p]
  BY OneJudge
<1>2. /\ lock \in Seq(Questions) /\ lock # <<>> /\ Head(lock) = q
      /\ \A i, k \in DOMAIN lock : lock[i] = lock[k] => i = k
  BY DEF JudgingIInv, LockInv, HasLock
<1>3. /\ lock' \in Seq(Questions)
      /\ \A i, k \in DOMAIN lock' : lock'[i] = lock'[k] => i = k
      /\ \A p : (\E i \in DOMAIN lock' : lock'[i] = p)
                  <=> (p # q /\ \E i \in DOMAIN lock : lock[i] = p)
  <2>1. PICK l : l = lock
    OBVIOUS
  <2>2. /\ Tail(l) \in Seq(Questions)
        /\ \A i, k \in DOMAIN Tail(l) : Tail(l)[i] = Tail(l)[k] => i = k
        /\ \A p : (\E i \in DOMAIN Tail(l) : Tail(l)[i] = p)
                    <=> (p # Head(l) /\ \E i \in DOMAIN l : l[i] = p)
    <3>1. l \in Seq(Questions) /\ (\A i, k \in DOMAIN l : l[i] = l[k] => i = k) /\ l # <<>>
      BY <1>2, <2>1
    <3> QED BY <3>1, LockTaken
  <2> QED BY <1>2, <2>1, <2>2
<1>4. \A p \in Questions : (\E i \in DOMAIN lock' : lock'[i] = p)
                             <=> judge'[p].at \in {"waiting", "searching"}
  <2>1. \A p \in Questions : (\E i \in DOMAIN lock : lock[i] = p)
                               <=> judge[p].at \in {"waiting", "searching"}
    BY DEF JudgingIInv, LockInv
  <2> QED BY <1>1, <1>3, <2>1
<1>5. \A p \in Questions : judge'[p].at # "searching"
  BY <1>1, <1>2 DEF JudgingIInv, LockInv, HasLock
<1> QED BY <1>3, <1>4, <1>5 DEF LockInv

\* The receipt of a search is the result that the others find.
LEMMA FoundKeeps ==
  ASSUME JudgingIInv, NEW q \in Questions, Found(q)
  PROVE  JudgingIInv'
<1> DEFINE j == judge[q]
           w == Head(j.todo).query
           r == JudgeReceipt(Head(j.todo).kind, w, NoReceipt)
           new == [j EXCEPT !.at = AfterReads(Tail(j.todo)), !.todo = Tail(j.todo),
                            !.own = Append(j.own, r)]
<1>1. /\ j.at = "searching" /\ results' = [results EXCEPT ![w] = <<q, Len(j.own) + 1>>]
      /\ lock' = Tail(lock) /\ scope' = scope
  BY DEF Found, Wish, Mine
<1>2. j \in JudgeRecords /\ JudgeInv(j) /\ j.own \in Seq(Receipts) /\ Len(j.own) \in Nat
  BY DEF JudgingIInv, JudgingTypeOK, JudgeRecords
<1>3. Now(q, new)
  BY <1>2 DEF Found, Received, Wish, JudgeRecords
<1>4. /\ r \in Receipts /\ r.query = w /\ w \in Queries /\ r.from = NoReceipt
      /\ new \in JudgeRecords /\ JudgeInv(new) /\ new.own = Append(j.own, r)
      /\ new.at \in {"asking", "reading"}
  <2>1. NoReceipt \in Refs
    BY DEF Refs
  <2> QED BY <1>1, <1>2, <2>1, ReceivedRecord
<1>5. scope = "ready" /\ results[w] = NoReceipt /\ HasLock(q)
  BY <1>1 DEF JudgingIInv, SearchInv, LockInv, Known, Wish
<1>6. results \in [Queries -> Refs] /\ \A p \in Questions : Named(p, judge[p].own, results)
  BY <1>5 DEF JudgingIInv, JudgingTypeOK, SearchInv
<1> HIDE DEF new, r, w, j
<1>7. /\ judge' \in [Questions -> JudgeRecords] /\ judge'[q] = new
      /\ \A p \in Questions \ {q} : judge'[p] = judge[p]
      /\ \A p \in Questions : JudgeInv(judge'[p])
  BY <1>3, <1>4, OneJudge
<1>8. /\ results' \in [Queries -> Refs] /\ results'[w] = <<q, Len(j.own) + 1>>
      /\ \A x \in Queries \ {w} : results'[x] = results[x]
  <2>1. <<q, Len(j.own) + 1>> \in Refs
    BY <1>2 DEF Refs
  <2> QED BY <1>1, <1>4, <1>6, <2>1
<1>9. LockInv'
  BY <1>1, <1>3, <1>4, <1>5, LockLeft
<1>10. \A p \in Questions : Named(p, judge[p].own, results')
  <2> SUFFICES ASSUME NEW p \in Questions, NEW i \in DOMAIN judge[p].own,
                      judge[p].own[i].kind # "READ"
               PROVE  /\ judge[p].own[i].query \in Queries
                      /\ results'[judge[p].own[i].query]
                           = IF judge[p].own[i].from = NoReceipt THEN <<p, i>>
                             ELSE judge[p].own[i].from
    BY DEF Named
  <2>1. /\ judge[p].own[i].query \in Queries
        /\ results[judge[p].own[i].query]
             = IF judge[p].own[i].from = NoReceipt THEN <<p, i>> ELSE judge[p].own[i].from
    BY <1>6 DEF Named
  <2>2. i # 0
    BY DEF JudgingIInv, JudgingTypeOK, JudgeRecords
  <2>3. results[judge[p].own[i].query] # NoReceipt
    BY <2>1, <2>2 DEF NoReceipt
  <2> QED BY <1>5, <1>8, <2>1, <2>3
<1>11. Named(q, new.own, results')
  <2>1. Named(q, j.own, results')
    BY <1>10 DEF j
  <2>2. results'[r.query] = IF r.from = NoReceipt THEN <<q, Len(j.own) + 1>> ELSE r.from
    BY <1>4, <1>8
  <2>3. PICK found : found = results'
    OBVIOUS
  <2>4. Named(q, Append(j.own, r), found)
    BY <1>2, <1>4, <2>1, <2>2, <2>3, NamedAppended
  <2> QED BY <1>4, <2>3, <2>4
<1>12. SearchInv'
  <2>1. \A p \in Questions : Named(p, judge'[p].own, results')
    BY <1>7, <1>10, <1>11
  <2>2. \A p \in Questions : judge'[p].at # "searching"
    BY <1>4, <1>5, <1>7 DEF JudgingIInv, LockInv, HasLock
  <2> QED BY <1>1, <1>5, <2>1, <2>2 DEF SearchInv
<1>13. JudgingTypeOK'
  BY <1>7, <1>8 DEF JudgingTypeOK
<1> QED BY <1>7, <1>9, <1>12, <1>13 DEF JudgingIInv

\* A judge goes on with what is known, waits for the lock, begins to search or gives up.
LEMMA ReadSteps ==
  ASSUME JudgingIInv, NEW q \in Questions,
         \/ NothingToSearch(q) \/ SearchUnready(q) \/ Reuse(q) \/ LockAtOnce(q) \/ AwaitLock(q)
         \/ Locked(q) \/ SearchFails(q)
  PROVE  JudgingIInv'
<1> DEFINE j == judge[q]
           w == Head(j.todo).query
<1>1. /\ j \in JudgeRecords /\ JudgeInv(j) /\ (scope = "ready" => Named(q, j.own, results))
      /\ j.own \in Seq(Receipts) /\ results \in [Queries -> Refs] /\ NoReceipt \in Refs
  BY DEF JudgingIInv, JudgingTypeOK, SearchInv, JudgeRecords, Refs
<1>2. /\ lock \in Seq(Questions)
      /\ \A i, k \in DOMAIN lock : lock[i] = lock[k] => i = k
      /\ \A p \in Questions : (\E i \in DOMAIN lock : lock[i] = p)
                               <=> judge[p].at \in {"waiting", "searching"}
      /\ \A p \in Questions : judge[p].at = "searching" => HasLock(p)
  BY DEF JudgingIInv, LockInv
\* A receipt that names what is known of its query.
<1>3. ASSUME NEW from \in Refs, Received(q, from), UNCHANGED <<scope, results>>,
             j.at \in {"reading", "waiting"},
             scope = "ready" => results[w] = from /\ from # NoReceipt,
             \/ j.at = "reading" /\ lock' = lock
             \/ HasLock(q) /\ lock' = Tail(lock)
      PROVE  JudgingIInv'
  <2> DEFINE r == JudgeReceipt(Head(j.todo).kind, w, from)
             new == [j EXCEPT !.at = AfterReads(Tail(j.todo)), !.todo = Tail(j.todo),
                              !.own = Append(j.own, r)]
  <2>1. Now(q, new)
    BY <1>1, <1>3 DEF Received, Wish, JudgeRecords
  <2>2. /\ r \in Receipts /\ r.query = w /\ w \in Queries /\ r.from = from
        /\ new \in JudgeRecords /\ JudgeInv(new) /\ new.own = Append(j.own, r)
        /\ new.at \in {"asking", "reading"}
    BY <1>1, <1>3, ReceivedRecord
  <2> HIDE DEF new, r, w
  <2>3. scope = "ready" => Named(q, new.own, results)
    <3> SUFFICES ASSUME scope = "ready" PROVE Named(q, Append(j.own, r), results)
      BY <2>2
    <3>1. PICK found : found = results
      OBVIOUS
    <3>2. found[r.query] = IF r.from = NoReceipt THEN <<q, Len(j.own) + 1>> ELSE r.from
      BY <1>3, <2>2, <3>1 DEF w
    <3>3. Named(q, Append(j.own, r), found)
      BY <1>1, <2>2, <3>1, <3>2, NamedAppended
    <3> QED BY <3>1, <3>3
  <2> HIDE DEF j
  <2>4. CASE j.at = "reading" /\ lock' = lock
    <3>1. judge[q].at = "reading" /\ UNCHANGED <<scope, results, lock>>
      BY <1>3, <2>4 DEF j
    <3> QED BY <2>1, <2>2, <2>3, <3>1, QuietJudge
  <2>5. CASE HasLock(q) /\ lock' = Tail(lock)
    <3>1. LockInv'
      BY <2>1, <2>2, <2>5, LockLeft
    <3> QED BY <1>3, <2>1, <2>2, <2>3, <3>1, LockJudge
  <2> QED BY <1>3, <2>4, <2>5
\* A failure of who holds the lock.
<1>4. ASSUME NEW level, QuestionFails(q, level), HasLock(q), lock' = Tail(lock),
             UNCHANGED <<scope, results>>, j.at \in {"waiting", "searching"}
      PROVE  JudgingIInv'
  <2> DEFINE new == [j EXCEPT !.at = "failed", !.todo = <<>>]
  <2>1. new \in JudgeRecords /\ JudgeInv(new) /\ new.own = j.own /\ new.at = "failed"
    BY <1>1, <1>4, FailedRecord
  <2>2. Now(q, new)
    BY <1>4 DEF QuestionFails
  <2> HIDE DEF new
  <2>3. LockInv'
    BY <1>4, <2>1, <2>2, LockLeft
  <2>4. scope = "ready" => Named(q, new.own, results)
    BY <1>1, <2>1
  <2> HIDE DEF j
  <2> QED BY <1>4, <2>1, <2>2, <2>3, <2>4, LockJudge
\* A judge that searches or waits has the same wishes as before.
<1>5. ASSUME NEW at \in {"waiting", "searching"}, Now(q, [judge[q] EXCEPT !.at = at]),
             UNCHANGED <<scope, results>>, j.at \in {"reading", "waiting"}, scope = "ready",
             LockInv', at = "searching" => ~Known(q)
      PROVE  JudgingIInv'
  <2> DEFINE new == [j EXCEPT !.at = at]
  <2>1. /\ new.at = at /\ new.own = j.own /\ new.todo = j.todo /\ new.calls = j.calls
        /\ new.final = j.final /\ new.outcome = j.outcome /\ new.shown = j.shown
        /\ new \in JudgeRecords
    BY <1>1 DEF JudgeRecords
  <2>2. Now(q, new)
    BY <1>5
  <2> HIDE DEF new
  <2>3. JudgeInv(new)
    <3>1. (Sought(new) <=> Sought(j)) /\ CallAhead(new) /\ CallAhead(j)
      BY <1>5, <2>1 DEF Sought, CallAhead
    <3> QED BY <1>1, <1>5, <2>1, <3>1 DEF JudgeInv
  <2>4. Named(q, new.own, results)
    BY <1>1, <1>5, <2>1
  <2>5. new.at = "searching" => results[Head(new.todo).query] = NoReceipt
    BY <1>5, <2>1 DEF Known, Wish
  <2> HIDE DEF j
  <2> QED BY <1>5, <2>1, <2>2, <2>3, <2>4, <2>5, LockJudge
<1>6. CASE NothingToSearch(q)
  BY <1>1, <1>3, <1>6 DEF NothingToSearch
<1>7. CASE SearchUnready(q)
  BY <1>7, QuietFailure DEF SearchUnready
<1>8. CASE Reuse(q)
  <2>1. w \in Queries
    <3>1. Head(j.todo) \in Wishes
      BY <1>1, <1>8 DEF Reuse, JudgeInv, JudgeRecords
    <3> QED BY <3>1 DEF Wishes
  <2>2. results[w] \in Refs /\ results[w] # NoReceipt
    BY <1>1, <1>8, <2>1 DEF Reuse, Known, Wish
  <2>3. Received(q, results[w]) /\ j.at = "reading" /\ UNCHANGED <<scope, results, lock>>
    BY <1>8 DEF Reuse, Wish
  <2> QED BY <1>3, <2>2, <2>3
<1>9. CASE LockAtOnce(q)
  <2>1. /\ j.at = "reading" /\ scope = "ready" /\ ~Known(q) /\ lock = <<>>
        /\ UNCHANGED <<scope, results>>
    BY <1>9 DEF LockAtOnce
  <2>2. CASE spent.lookups < MaxLookups
    <3>1. Now(q, [judge[q] EXCEPT !.at = "searching"]) /\ lock' = <<q>>
      BY <1>9, <2>2 DEF LockAtOnce, Searches
    <3>2. LockInv'
      <4>1. /\ lock' \in Seq(Questions) /\ DOMAIN lock' = {1} /\ lock'[1] = q
            /\ Head(lock') = q /\ lock' # <<>>
        BY <3>1
      <4>2. \A p \in Questions : judge[p].at \notin {"waiting", "searching"}
        BY <1>2, <2>1
      <4>3. /\ judge'[q].at = "searching"
            /\ \A p \in Questions \ {q} : judge'[p] = judge[p]
        <5>1. judge \in [Questions -> JudgeRecords]
          BY DEF JudgingIInv, JudgingTypeOK
        <5> QED BY <3>1, <5>1 DEF Now, JudgeRecords
      <4> QED BY <4>1, <4>2, <4>3 DEF LockInv, HasLock
    <3> QED BY <1>5, <2>1, <3>1, <3>2
  <2>3. CASE ~(spent.lookups < MaxLookups)
    BY <1>9, <2>1, <2>3, QuietFailure DEF LockAtOnce, Searches
  <2> QED BY <2>2, <2>3
<1>10. CASE AwaitLock(q)
  <2>1. /\ j.at = "reading" /\ scope = "ready" /\ lock # <<>> /\ lock' = Append(lock, q)
        /\ Now(q, [judge[q] EXCEPT !.at = "waiting"]) /\ UNCHANGED <<scope, results>>
    BY <1>10 DEF AwaitLock
  <2>2. LockInv'
    <3>1. PICK l : l = lock
      OBVIOUS
    <3>2. l \in Seq(Questions) /\ (\A i, k \in DOMAIN l : l[i] = l[k] => i = k)
          /\ \A i \in DOMAIN l : l[i] # q
      <4>1. \A i \in DOMAIN lock : lock[i] # q
        BY <1>2, <2>1
      <4> QED BY <1>2, <3>1, <4>1
    <3>3. /\ Append(l, q) \in Seq(Questions)
          /\ \A i, k \in DOMAIN Append(l, q) : Append(l, q)[i] = Append(l, q)[k] => i = k
          /\ \A p : (\E i \in DOMAIN Append(l, q) : Append(l, q)[i] = p)
                      <=> p = q \/ \E i \in DOMAIN l : l[i] = p
          /\ l # <<>> => Head(Append(l, q)) = Head(l)
          /\ Append(l, q) # <<>>
      BY <3>2, LockAppended
    <3>4. /\ judge'[q].at = "waiting"
          /\ \A p \in Questions \ {q} : judge'[p] = judge[p]
      <4>1. judge \in [Questions -> JudgeRecords]
        BY DEF JudgingIInv, JudgingTypeOK
      <4> QED BY <2>1, <4>1 DEF Now, JudgeRecords
    <3>5. \A p \in Questions : (\E i \in DOMAIN lock' : lock'[i] = p)
                                 <=> judge'[p].at \in {"waiting", "searching"}
      BY <1>2, <2>1, <3>1, <3>3, <3>4
    <3>6. \A p \in Questions : judge'[p].at = "searching" => HasLock(p)'
      BY <1>2, <2>1, <3>1, <3>3, <3>4 DEF HasLock
    <3> QED BY <2>1, <3>1, <3>3, <3>5, <3>6 DEF LockInv
  <2> QED BY <1>5, <2>1, <2>2
<1>11. CASE Locked(q)
  <2>1. /\ j.at = "waiting" /\ HasLock(q) /\ scope' = scope /\ results' = results
        /\ scope = "ready"
    BY <1>11 DEF Locked, JudgingIInv, SearchInv
  <2>2. CASE Known(q)
    <3>1. w \in Queries
      <4>1. Head(j.todo) \in Wishes
        BY <1>1, <2>1 DEF JudgeInv, JudgeRecords
      <4> QED BY <4>1 DEF Wishes
    <3>2. results[w] \in Refs /\ results[w] # NoReceipt
      BY <1>1, <2>2, <3>1 DEF Known, Wish
    <3>3. Received(q, results[w]) /\ lock' = Tail(lock)
      BY <1>11, <2>2 DEF Locked, Wish
    <3> QED BY <1>3, <2>1, <3>2, <3>3
  <2>3. CASE ~Known(q) /\ spent.lookups < MaxLookups
    <3>1. Now(q, [judge[q] EXCEPT !.at = "searching"]) /\ lock' = lock
      BY <1>11, <2>3 DEF Locked, Searches
    <3>2. LockInv'
      <4>1. /\ judge'[q].at = "searching"
            /\ \A p \in Questions \ {q} : judge'[p] = judge[p]
        <5>1. judge \in [Questions -> JudgeRecords]
          BY DEF JudgingIInv, JudgingTypeOK
        <5> QED BY <3>1, <5>1 DEF Now, JudgeRecords
      <4>2. \A p \in Questions : (\E i \in DOMAIN lock' : lock'[i] = p)
                                   <=> judge'[p].at \in {"waiting", "searching"}
        BY <1>2, <2>1, <3>1, <4>1
      <4>3. \A p \in Questions : judge'[p].at = "searching" => HasLock(p)'
        BY <1>2, <2>1, <3>1, <4>1 DEF HasLock
      <4> QED BY <1>2, <3>1, <4>2, <4>3 DEF LockInv
    <3> QED BY <1>5, <2>1, <2>3, <3>1, <3>2
  <2>4. CASE ~Known(q) /\ ~(spent.lookups < MaxLookups)
    BY <1>4, <1>11, <2>1, <2>4 DEF Locked, Searches
  <2> QED BY <2>2, <2>3, <2>4
<1>12. CASE SearchFails(q)
  <2>1. /\ j.at = "searching" /\ lock' = Tail(lock) /\ UNCHANGED <<scope, results>>
        /\ \E level \in {"question", "run"} : QuestionFails(q, level)
    BY <1>12 DEF SearchFails
  <2>2. HasLock(q)
    BY <1>2, <2>1
  <2> QED BY <1>4, <2>1, <2>2
<1> QED BY <1>6, <1>7, <1>8, <1>9, <1>10, <1>11, <1>12

\* However many judges ask for the same query at once and whoever of them fails: it is
\* found once, and every receipt of it names that search; a suspected conflict rests on a
\* search for changes that its judge has seen; and who waits for the lock does so for a
\* search that goes on.
THEOREM JudgingHolds == JudgingSpec => []JudgingInv
<1>1. JudgingInit => JudgingIInv
  <2> SUFFICES ASSUME JudgingInit PROVE JudgingIInv
    OBVIOUS
  <2>1. /\ judge = [q \in Questions |-> Fresh] /\ lock = <<>>
        /\ results = [query \in Queries |-> NoReceipt]
    BY DEF JudgingInit
  <2>2. /\ Fresh \in JudgeRecords /\ Fresh.at = "queue" /\ Fresh.own = <<>> /\ Fresh.todo = <<>>
        /\ Fresh.calls = 0 /\ Fresh.final = FALSE /\ Fresh.outcome = "none"
    <3>1. <<>> \in Seq(Receipts) /\ <<>> \in Seq(Wishes)
      OBVIOUS
    <3> QED BY <3>1 DEF Fresh, JudgeRecords
  <2>3. JudgingTypeOK
    <3>1. NoReceipt \in Refs
      BY DEF Refs
    <3> QED BY <2>1, <2>2, <3>1 DEF JudgingTypeOK
  <2>4. LockInv
    <3>1. lock \in Seq(Questions) /\ DOMAIN lock = {}
      BY <2>1
    <3> QED BY <2>1, <2>2, <3>1 DEF LockInv
  <2>5. SearchInv
    <3>1. DOMAIN <<>> = {}
      OBVIOUS
    <3> QED BY <2>1, <2>2, <3>1 DEF SearchInv, Named
  <2>6. JudgeInv(Fresh)
    <3>1. ~CallAhead(Fresh)
      BY <2>2 DEF CallAhead
    <3> QED BY <2>2, <3>1 DEF JudgeInv
  <2>7. \A q \in Questions : JudgeInv(judge[q])
    BY <2>1, <2>6
  <2> QED BY <2>3, <2>4, <2>5, <2>7 DEF JudgingIInv
<1>2. JudgingIInv /\ [JudgingNext]_judging => JudgingIInv'
  <2> SUFFICES ASSUME JudgingIInv, [JudgingNext]_judging PROVE JudgingIInv'
    OBVIOUS
  <2>1. CASE UNCHANGED judging
    <3>1. UNCHANGED <<judge, scope, results, lock>>
      BY <2>1 DEF judging
    <3>2. LockInv' /\ SearchInv'
      BY <3>1 DEF JudgingIInv, LockInv, SearchInv, HasLock, Known, Wish
    <3> QED BY <3>1, <3>2 DEF JudgingIInv, JudgingTypeOK
  <2>2. ASSUME NEW q \in Questions,
               \/ StartJudge(q) \/ Ask(q) \/ CallsSpent(q) \/ AnswerFails(q) \/ FollowUp(q)
               \/ Suspect(q) \/ DecideQuestion(q)
        PROVE  JudgingIInv'
    BY <2>2, CallSteps
  <2>3. ASSUME NEW q \in Questions,
               \/ NothingToSearch(q) \/ SearchUnready(q) \/ Reuse(q) \/ LockAtOnce(q)
               \/ AwaitLock(q) \/ Locked(q) \/ SearchFails(q)
        PROVE  JudgingIInv'
    BY <2>3, ReadSteps
  <2>4. ASSUME NEW q \in Questions, Found(q) PROVE JudgingIInv'
    BY <2>4, FoundKeeps
  <2> QED BY <2>1, <2>2, <2>3, <2>4 DEF JudgingNext
<1>3. JudgingIInv => JudgingInv
  <2> SUFFICES ASSUME JudgingIInv PROVE JudgingInv
    OBVIOUS
  <2>1. SearchedOnce
    <3> SUFFICES ASSUME scope = "ready", NEW ref \in Searched
                 PROVE  results[At(ref).query] = IF At(ref).from = NoReceipt THEN ref ELSE At(ref).from
      BY DEF SearchedOnce
    <3>1. PICK q \in Questions : ref \in {q} \X DOMAIN judge[q].own /\ At(ref).kind # "READ"
      BY DEF Searched
    <3>2. PICK i \in DOMAIN judge[q].own : ref = <<q, i>>
      BY <3>1
    <3>3. At(ref) = judge[q].own[i]
      BY <3>2 DEF At
    <3> QED BY <3>1, <3>2, <3>3 DEF JudgingIInv, SearchInv, Named
  <2>2. SuspicionChecked
    <3> SUFFICES ASSUME NEW q \in Questions
                 PROVE  /\ judge[q].outcome = "SUSPECTED_CONFLICT" =>
                             ChangeSearched(SubSeq(judge[q].own, 1, judge[q].shown))
                        /\ judge[q].calls <= MaxJudgeCalls
                        /\ judge[q].calls = MaxJudgeCalls => ChangeSearched(judge[q].own)
                        /\ judge[q].at = "decided" => judge[q].shown = Len(judge[q].own)
      BY DEF SuspicionChecked
    <3>1. JudgeInv(judge[q]) /\ judge[q].own \in Seq(Receipts) /\ judge[q].calls \in Nat
      BY DEF JudgingIInv, JudgingTypeOK, JudgeRecords
    <3>2. judge[q].calls <= MaxJudgeCalls
          /\ (judge[q].calls = MaxJudgeCalls => ChangeSearched(judge[q].own))
      BY <3>1, JudgingAssumption DEF JudgeInv
    <3>3. judge[q].at = "decided" => judge[q].shown = Len(judge[q].own)
      BY <3>1 DEF JudgeInv
    <3>4. SubSeq(judge[q].own, 1, Len(judge[q].own)) = judge[q].own
      BY <3>1
    <3> QED BY <3>1, <3>2, <3>3, <3>4 DEF JudgeInv
  <2>3. LockIsHeld
    <3>1. ToSet(lock) = {q \in Questions : judge[q].at \in {"waiting", "searching"}}
      <4>1. \A i \in DOMAIN lock : lock[i] \in Questions
        BY DEF JudgingIInv, LockInv
      <4>2. \A p : p \in ToSet(lock) <=> \E i \in DOMAIN lock : lock[i] = p
        BY DEF ToSet
      <4> QED BY <4>1, <4>2 DEF JudgingIInv, LockInv
    <3> QED BY <3>1 DEF LockIsHeld, JudgingIInv, LockInv
  <2> QED BY <2>1, <2>2, <2>3 DEF JudgingInv
<1> QED BY <1>1, <1>2, <1>3, PTL DEF JudgingSpec
=============================================================================
