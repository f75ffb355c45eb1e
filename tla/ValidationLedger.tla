-------------------------- MODULE ValidationLedger --------------------------
(***************************************************************************)
(* The usage ledger of one validation execution and the shutdown that has  *)
(* to drain it (app/validation/execution.py, ValidationLedger; the finally *)
(* block and aclose of app/worker/episode_validation_worker.py).  The      *)
(* metered requests of the two branches reserve tokens, call the provider  *)
(* and post one SETTLE or UNKNOWN.  A cancelled request leaves that post   *)
(* to a detached task, the drain waits for those tasks and reports what is *)
(* left as UNKNOWN, and only then is the HTTP client closed.               *)
(***************************************************************************)
EXTENDS Naturals, FiniteSets

CONSTANTS Requests,    \* the metered requests of the execution
          MaxCancels   \* bound: how often the scheduler cancels the execution

ASSUME CancelsAssumption == MaxCancels \in Nat

VARIABLES
  owner,      \* [Requests -> pc]: the coroutine that makes the request
  reserve,    \* [Requests -> state]: its reservation task
  close,      \* [Requests -> record]: the task that posts its SETTLE or UNKNOWN
  requests,   \* ledger.requests: reserved and not closed
  settled,    \* ledger._settled
  gate,       \* ExecutionGate.stopped
  drain,      \* ledger._drain_task
  marking,    \* the request whose UNKNOWN the drain posts, {} if none
  kids,       \* the tasks of the two branches
  op,         \* the execution itself, EpisodeValidationWorker._process_claimed
  asked,      \* op.cancelling() > 0
  listed,     \* the ledger is in worker._ledgers
  closing,    \* worker._close_task
  cancels,    \* how often the scheduler has cancelled op
  spring      \* [Requests -> state of the usage entry in the backend]

ledger == <<owner, reserve, close, requests, settled, gate, drain, marking,
          kids, op, asked, listed, closing, cancels, spring>>
request == <<owner, reserve, close>>
execution == <<kids, op, asked, listed, closing, cancels>>

NoClose == [kind |-> "none", st |-> "idle", chain |-> FALSE, quiet |-> FALSE]

LedgerInit ==
  /\ owner = [r \in Requests |-> "idle"]
  /\ reserve = [r \in Requests |-> "none"]
  /\ close = [r \in Requests |-> NoClose]
  /\ requests = {} /\ settled = {} /\ marking = {}
  /\ gate = FALSE /\ asked = FALSE /\ listed = TRUE
  /\ drain = "none" /\ kids = "running" /\ op = "running" /\ closing = "open"
  /\ cancels = 0
  /\ spring = [r \in Requests |-> "absent"]

-----------------------------------------------------------------------------
\* Posts.  A post is answered, applied with its answer lost, or lost; after
\* the HTTP client is closed every post is lost.

Outcomes == IF closing = "closed" THEN {"lost"} ELSE {"ok", "unanswered", "lost"}

Entry(r, kind) ==
  CASE kind = "RESERVE" /\ spring[r] = "absent" -> "RESERVED"
    [] kind = "SETTLE" -> "SETTLED"
    [] kind = "UNKNOWN" /\ spring[r] = "RESERVED" -> "UNKNOWN"
    [] OTHER -> spring[r]

Arrives(r, kind, outcome) ==
  spring' = IF outcome = "lost" THEN spring ELSE [spring EXCEPT ![r] = Entry(r, kind)]

\* The lock of the request: whoever posts its SETTLE or UNKNOWN holds it.
LockFree(r) == close[r].st # "sent" /\ r \notin marking

-----------------------------------------------------------------------------
\* A metered request (MeteredTextGenerationClient with max_retries = 0).

\* reserve_ai_tokens: nothing is reserved once the gate is stopped.
StartReserve(r) ==
  /\ owner[r] = "idle" /\ kids = "running" /\ ~gate
  /\ owner' = [owner EXCEPT ![r] = "reserving"]
  /\ reserve' = [reserve EXCEPT ![r] = "sent"]
  /\ UNCHANGED <<close, requests, settled, gate, drain, marking, execution, spring>>

\* The reservation task ends, with its owner still there or not.  A refused
\* reservation may stop the gate.
ReserveEnds(r, outcome) ==
  /\ reserve[r] = "sent"
  /\ Arrives(r, "RESERVE", outcome)
  /\ reserve' = [reserve EXCEPT ![r] = IF outcome = "ok" THEN "made" ELSE "failed"]
  /\ requests' = IF outcome = "ok" THEN requests \union {r} ELSE requests
  /\ owner' = [owner EXCEPT ![r] = IF @ # "reserving" THEN @
                                   ELSE IF outcome = "ok" THEN "calling" ELSE "ended"]
  /\ gate' \in {gate, gate \/ outcome = "lost"}
  /\ UNCHANGED <<close, settled, drain, marking, execution>>

\* The provider answers with its usage, without it, or fails without one: the
\* failure of a finalisation is hidden by the provider's error (quiet).
ProviderReturns(r, kind, quiet) ==
  /\ owner[r] = "calling"
  /\ owner' = [owner EXCEPT ![r] = "closing"]
  /\ close' = [close EXCEPT ![r] = [kind |-> kind, st |-> "lock", chain |-> FALSE,
                                    quiet |-> quiet]]
  /\ UNCHANGED <<reserve, requests, settled, gate, drain, marking, execution, spring>>

\* _cleanup_cancelled_reservation: the reservation it waits for is made or has
\* failed, and then so has the clean-up.
CleanUp(r) ==
  /\ close[r].st = "awaits" /\ reserve[r] # "sent"
  /\ close' = [close EXCEPT ![r].st = IF reserve[r] = "made" THEN "lock" ELSE "raised"]
  /\ UNCHANGED <<owner, reserve, requests, settled, gate, drain, marking, execution, spring>>

Released(r) == owner' = [owner EXCEPT ![r] = IF @ = "closing" THEN "ended" ELSE @]

\* settle_ai_tokens and release_ai_tokens, once they have the lock.
Posts(r) ==
  /\ close[r].st = "lock" /\ LockFree(r)
  /\ IF close[r].kind = "UNKNOWN" /\ r \in settled
     THEN close' = [close EXCEPT ![r].st = "done"] /\ Released(r)
     ELSE close' = [close EXCEPT ![r].st = "sent"] /\ UNCHANGED owner
  /\ UNCHANGED <<reserve, requests, settled, gate, drain, marking, execution, spring>>

Posted(r, outcome) ==
  /\ close[r].st = "sent"
  /\ Arrives(r, close[r].kind, outcome)
  /\ close' = [close EXCEPT ![r].st = IF outcome = "ok" \/ close[r].quiet THEN "done" ELSE "raised"]
  /\ settled' = IF outcome = "ok" /\ close[r].kind = "SETTLE" THEN settled \union {r} ELSE settled
  /\ requests' = IF outcome = "ok" THEN requests \ {r} ELSE requests
  /\ Released(r)
  /\ UNCHANGED <<reserve, gate, drain, marking, execution>>

\* Mutant: only a reservation under way is tracked, not a close.
DetachedUntracked(r) ==
  IF owner[r] = "reserving"
  THEN [kind |-> "UNKNOWN", st |-> "awaits", chain |-> TRUE, quiet |-> TRUE]
  ELSE [close[r] EXCEPT !.chain = FALSE]

\* The owner is cancelled at its await.  What it waits for goes on in a task
\* that the ledger tracks; an unmeasured call is closed as UNKNOWN.
Detached(r) ==
  CASE owner[r] = "reserving" ->
         [kind |-> "UNKNOWN", st |-> "awaits", chain |-> TRUE, quiet |-> TRUE]
    [] owner[r] = "calling" ->
         [kind |-> "UNKNOWN", st |-> "lock", chain |-> TRUE, quiet |-> TRUE]
    [] OTHER -> [close[r] EXCEPT !.chain = TRUE, !.quiet = FALSE]

CancelOwner(r) ==
  /\ owner[r] \in {"reserving", "calling", "closing"}
  /\ close' = [close EXCEPT ![r] = Detached(r)]
  /\ owner' = [owner EXCEPT ![r] = "ended"]
  /\ UNCHANGED <<reserve, requests, settled, gate, drain, marking, execution, spring>>

-----------------------------------------------------------------------------
\* The execution (_process_claimed) and its branches.

KidsQuiet == \A r \in Requests : owner[r] \in {"idle", "ended"}

\* Both branches return, or unwind after their calls were cancelled.
KidsEnd ==
  /\ kids # "ended" /\ KidsQuiet
  /\ kids' = "ended"
  /\ UNCHANGED <<request, requests, settled, gate, drain, marking, op, asked,
                 listed, closing, cancels, spring>>

CancelKids == kids' = IF kids = "running" THEN "cancelled" ELSE kids

\* Into the finally block: a branch failed, the gate was stopped (the heartbeat
\* lost the lease), or both branches are done and complete is answered.
StopOp ==
  /\ op = "running"
  /\ op' = "stopping" /\ gate' = TRUE /\ CancelKids
  /\ UNCHANGED <<request, requests, settled, drain, marking, asked, listed,
                 closing, cancels, spring>>

\* A cancelled execution enters its finally block; one that is in it already
\* leaves it, and the branches or the drain go on without it.
Cancelled ==
  /\ op' = CASE op = "running" -> "stopping"
              [] op = "stopping" -> "interrupted"
              [] op = "draining" -> "ended"
              [] OTHER -> op
  /\ asked' = TRUE
  /\ gate' = TRUE
  /\ CancelKids

\* The scheduler cancels its task after the shutdown grace.
CancelOp ==
  /\ op \in {"running", "stopping", "draining"} /\ cancels < MaxCancels
  /\ cancels' = cancels + 1
  /\ Cancelled
  /\ UNCHANGED <<request, requests, settled, drain, marking, listed, closing, spring>>

\* gather(children) is over.
KidsAwaited ==
  /\ op \in {"stopping", "interrupted"} /\ kids = "ended"
  /\ op' = IF op = "stopping" THEN "draining" ELSE "ended"
  /\ drain' = IF op = "stopping" /\ drain = "none" THEN "tasks" ELSE drain
  /\ UNCHANGED <<request, requests, settled, gate, marking, kids, asked, listed,
                 closing, cancels, spring>>

\* A drain that failed leaves the ledger to aclose.
OpDrained ==
  /\ op = "draining" /\ drain \in {"ok", "failed"}
  /\ op' = "ended"
  /\ listed' = (drain = "failed")
  /\ UNCHANGED <<request, requests, settled, gate, drain, marking, kids, asked,
                 closing, cancels, spring>>

-----------------------------------------------------------------------------
\* ValidationLedger._drain, a task of its own.

Chains == {r \in Requests : close[r].chain}

ChainFailed == \E r \in Chains : close[r].st = "raised"

\* Mutant: the drain does not wait for the tasks.
TasksForgotten ==
  /\ drain = "tasks"
  /\ drain' = "marking"
  /\ UNCHANGED <<request, requests, settled, gate, marking, execution, spring>>

\* Every tracked task has ended; the first failure is raised before anything is
\* marked.
TasksDone ==
  /\ drain = "tasks"
  /\ \A r \in Chains : close[r].st \in {"done", "raised"}
  /\ drain' = IF ChainFailed THEN "failed" ELSE "marking"
  /\ UNCHANGED <<request, requests, settled, gate, marking, execution, spring>>

\* mark_unknown: release_ai_tokens for a request that is left.
Mark(r) ==
  /\ drain = "marking" /\ marking = {} /\ r \in requests \ settled /\ LockFree(r)
  /\ marking' = {r}
  /\ UNCHANGED <<request, requests, settled, gate, drain, execution, spring>>

Marked(r, outcome) ==
  /\ r \in marking
  /\ Arrives(r, "UNKNOWN", outcome)
  /\ marking' = {}
  /\ requests' = IF outcome = "ok" THEN requests \ {r} ELSE requests
  /\ drain' = IF outcome = "ok" THEN drain ELSE "failed"
  /\ UNCHANGED <<request, settled, gate, execution>>

\* Mutant: the drain ends when its tasks have.
DrainEndsUnmarked ==
  /\ drain = "marking" /\ marking = {}
  /\ drain' = "ok"
  /\ UNCHANGED <<request, requests, settled, gate, marking, execution, spring>>

DrainEnds ==
  /\ drain = "marking" /\ marking = {} /\ requests \ settled = {}
  /\ drain' = "ok"
  /\ UNCHANGED <<request, requests, settled, gate, marking, execution, spring>>

-----------------------------------------------------------------------------
\* EpisodeValidationWorker.aclose and _close.

\* Mutant: the shutdown waits for the execution without cancelling it.
CloseWaiting ==
  /\ closing = "open"
  /\ closing' = "ops"
  /\ UNCHANGED <<request, requests, settled, gate, drain, marking, kids, op, asked,
                 listed, cancels, spring>>

\* The first call stops the gates and cancels what is not being cancelled; a
\* second call, or one from inside the execution, only waits or is cancelled.
CloseService ==
  /\ closing = "open"
  /\ closing' = "ops"
  /\ IF op # "ended" /\ ~asked THEN Cancelled
     ELSE /\ gate' = (gate \/ listed)
          /\ CancelKids
          /\ UNCHANGED <<op, asked>>
  /\ UNCHANGED <<request, requests, settled, drain, marking, listed, cancels, spring>>

\* The operations have ended; branches an interrupted execution left are
\* cancelled and awaited.
OpsAwaited ==
  /\ closing = "ops" /\ op = "ended"
  /\ closing' = "kids"
  /\ CancelKids
  /\ UNCHANGED <<request, requests, settled, gate, drain, marking, op, asked,
                 listed, cancels, spring>>

\* Mutant: only the executions that drained nothing are drained by _close.
CloseForgetsDrain ==
  /\ closing = "kids" /\ kids = "ended"
  /\ closing' = "draining"
  /\ drain' = IF drain = "none" THEN "ok" ELSE drain
  /\ UNCHANGED <<request, requests, settled, gate, marking, kids, op, asked,
                 listed, cancels, spring>>

CloseDrains ==
  /\ closing = "kids" /\ kids = "ended"
  /\ closing' = "draining"
  /\ drain' = IF listed /\ drain = "none" THEN "tasks" ELSE drain
  /\ UNCHANGED <<request, requests, settled, gate, marking, kids, op, asked,
                 listed, cancels, spring>>

\* Mutant: the HTTP client is closed although the drain goes on.
CloseHttpAtOnce ==
  /\ closing = "draining"
  /\ closing' = "closed"
  /\ UNCHANGED <<request, requests, settled, gate, drain, marking, kids, op, asked,
                 listed, cancels, spring>>

\* The HTTP client is closed last, whether or not a drain failed.
CloseHttp ==
  /\ closing = "draining"
  /\ ~listed \/ drain \in {"ok", "failed"}
  /\ closing' = "closed"
  /\ UNCHANGED <<request, requests, settled, gate, drain, marking, kids, op, asked,
                 listed, cancels, spring>>

-----------------------------------------------------------------------------
RequestStep(r) ==
  \/ CleanUp(r) \/ Posts(r)
  \/ \E outcome \in Outcomes : ReserveEnds(r, outcome) \/ Posted(r, outcome)
Provider(r) == \E kind \in {"SETTLE", "UNKNOWN"}, quiet \in BOOLEAN : ProviderReturns(r, kind, quiet)
Unwind(r) == kids = "cancelled" /\ CancelOwner(r)
Drain ==
  \/ TasksDone \/ DrainEnds
  \/ \E r \in Requests : Mark(r) \/ \E outcome \in Outcomes : Marked(r, outcome)
Shutdown == OpsAwaited \/ CloseDrains \/ CloseHttp

\* A request may also be cancelled by its branch (a sibling failed, its time is
\* up) while the execution goes on.
LedgerNext ==
  \/ \E r \in Requests : StartReserve(r) \/ RequestStep(r) \/ Provider(r) \/ CancelOwner(r)
  \/ KidsEnd \/ StopOp \/ CancelOp \/ KidsAwaited \/ OpDrained
  \/ Drain \/ CloseService \/ Shutdown

LedgerSpec == LedgerInit /\ [][LedgerNext]_ledger

\* The event loop resumes whatever can go on, posts end within the HTTP timeout
\* and a cancelled branch unwinds.  Nothing ends a running inspection but its
\* own budget, and nothing makes the process shut down.
LedgerFairness ==
  /\ \A r \in Requests : WF_ledger(RequestStep(r)) /\ WF_ledger(Unwind(r))
  /\ WF_ledger(kids = "cancelled" /\ KidsEnd)
  /\ WF_ledger(KidsAwaited \/ OpDrained) /\ WF_ledger(Drain) /\ WF_ledger(Shutdown)
FairLedgerSpec == LedgerSpec /\ LedgerFairness

-----------------------------------------------------------------------------
\* Properties

LedgerTypeOK ==
  /\ owner \in [Requests -> {"idle", "reserving", "calling", "closing", "ended"}]
  /\ reserve \in [Requests -> {"none", "sent", "made", "failed"}]
  /\ close \in [Requests -> [kind : {"none", "SETTLE", "UNKNOWN"},
                   st : {"idle", "awaits", "lock", "sent", "done", "raised"},
                   chain : BOOLEAN, quiet : BOOLEAN]]
  /\ requests \subseteq Requests /\ settled \subseteq Requests
  /\ marking \subseteq Requests
  /\ gate \in BOOLEAN /\ asked \in BOOLEAN /\ listed \in BOOLEAN
  /\ drain \in {"none", "tasks", "marking", "ok", "failed"}
  /\ kids \in {"running", "cancelled", "ended"}
  /\ op \in {"running", "stopping", "interrupted", "draining", "ended"}
  /\ closing \in {"open", "ops", "kids", "draining", "closed"}
  /\ cancels \in 0..MaxCancels
  /\ spring \in [Requests -> {"absent", "RESERVED", "SETTLED", "UNKNOWN"}]

\* The UNKNOWN of the drain is the last word on a request: nobody else is about
\* to post its usage, and no UNKNOWN is under way for a request whose usage was
\* settled, so that a measured usage is never reported as unknown.
LastWord ==
  \A r \in Requests :
    /\ r \in marking => close[r].st \in {"idle", "done", "raised"}
    /\ r \in settled => r \notin marking /\ close[r].st # "sent"

\* A drain that succeeds leaves nothing open: every reservation the worker knows
\* of is settled or reported as UNKNOWN, and one that the backend still holds was
\* never acknowledged to the worker (docs/validation-execution-v1.md:503).
DrainedIsAccounted ==
  drain = "ok" =>
    /\ requests = {}
    /\ \A r \in Requests : spring[r] = "RESERVED" => reserve[r] = "failed"

\* What a usage ledger may not lose, while it drains and after it.
LedgerInv == LedgerTypeOK /\ LastWord /\ DrainedIsAccounted

\* The HTTP client is closed when nothing of the execution needs it: no call, no
\* detached task and no drain, however often the execution was cancelled before
\* (test_active_close_drains_real_meter_and_owned_usage_before_http_close).
HttpClosedLast ==
  closing = "closed" =>
    /\ KidsQuiet /\ marking = {} /\ drain \notin {"tasks", "marking"}
    /\ \A r \in Requests : close[r].st \notin {"awaits", "lock", "sent"}

\* A shutdown ends, although the inspection it meets would go on for long.
ShutdownEnds == closing # "open" ~> closing = "closed"
=============================================================================
