---------------------------- MODULE TokenMetering ----------------------------
(***************************************************************************)
(* app/usage/metering.py: every LLM or embedding request of a worker takes *)
(* a permit of the process-wide semaphore, reserves tokens at Spring, calls*)
(* the provider, settles or releases the reservation, and retries transient*)
(* provider errors after a backoff that holds no permit.  A caller may be  *)
(* cancelled at every await; ledger calls that are under way then go on in *)
(* detached tasks.  Ledger calls are HTTP posts whose request or reply may *)
(* be lost and which are tried a bounded number of times.                  *)
(***************************************************************************)
EXTENDS Integers, FiniteSets

CONSTANTS
    Callers,        \* coroutines inside create_text_response/create_embeddings
    Jobs,           \* analysis jobs, each with the lease the caller works under
    JobOf,          \* the job each caller belongs to
    Permits,        \* initial value of request_semaphore
    MaxRetries,     \* max_retries of the metered client
    Tries           \* posts per ledger call (range(3) in the Spring client)

ASSUME MeteringAssumption ==
    /\ IsFiniteSet(Callers)
    /\ JobOf \in [Callers -> Jobs]
    /\ Permits \in Nat \ {0}
    /\ MaxRetries \in Nat
    /\ Tries \in Nat \ {0}

Attempts == 1..(MaxRetries + 1)
Requests == Callers \X Attempts     \* a fresh request_id per attempt

VARIABLES
    pc,             \* where the coroutine of each caller is suspended
    attempt,        \* retry_index + 1 of each caller
    permits,        \* value of the semaphore
    call,           \* the ledger call of each request: a task of the worker
    net,            \* ledger posts that Spring may still process
    ledger,         \* Spring's entry of each request
    provider,       \* what is known about the provider call of each request
    lease           \* is the lease of the job alive

owner == <<pc, attempt, permits>>
vars == <<pc, attempt, permits, call, net, ledger, provider, lease>>

Contract == INSTANCE MeteringContract
CloseOf == Contract!CloseOf
Reports == Contract!Reports

Holding == {"reserving", "calling", "settling", "failing"}
Ended == {"done", "failed", "cancelled", "crashed"}
Closes == {"SETTLED_SUCCESS", "SETTLED_FAILURE", "RELEASED"}
Ops == Closes \union {"RESERVED"}
Current(c) == <<c, attempt[c]>>
Idle == [op |-> "none", left |-> 0, st |-> "idle", detached |-> FALSE]

TypeOK ==
    /\ pc \in [Callers -> Holding \union Ended \union {"waiting", "backoff"}]
    /\ attempt \in [Callers -> Attempts]
    /\ permits \in 0..Permits
    /\ call \in [Requests -> [op : Ops \union {"none"}, left : 0..Tries,
                              st : {"idle", "running", "ok", "error", "crashed"},
                              detached : BOOLEAN]]
    /\ net \subseteq Requests \X Ops
    /\ ledger \in [Requests -> Ops \union {"absent", "LEASE_EXPIRED"}]
    /\ provider \in [Requests -> Reports \union {"notCalled", "running"}]
    /\ lease \in [Jobs -> BOOLEAN]

Init == /\ pc = [c \in Callers |-> "waiting"]
        /\ attempt = [c \in Callers |-> 1]
        /\ permits = Permits
        /\ call = [r \in Requests |-> Idle]
        /\ net = {}
        /\ ledger = [r \in Requests |-> "absent"]
        /\ provider = [r \in Requests |-> "notCalled"]
        /\ lease = [j \in Jobs |-> TRUE]

-----------------------------------------------------------------------------
\* Mutant: no ledger post carries the lease token of its job.
NeverLeased(op) == FALSE

\* A reserve carries the lease token; settle and release do not, so that they
\* can close the entry after the lease has ended.
Leased(op) == op = "RESERVED"

\* The ledger call as a task: created together with its first post.
Post(r, op, isDetached) ==
    /\ call' = [call EXCEPT ![r] = [op |-> op, left |-> Tries,
                                    st |-> "running", detached |-> isDetached]]
    /\ net' = net \union {<<r, op>>}

\* No reply in time, or a retryable status: the same post again, or give up.
PostAgain(r) ==
    /\ call[r].st = "running"
    /\ IF call[r].left > 1
       THEN /\ call' = [call EXCEPT ![r].left = @ - 1]
            /\ net' = net \union {<<r, call[r].op>>}
       ELSE /\ call' = [call EXCEPT ![r].st = "error"]
            /\ UNCHANGED net
    /\ UNCHANGED <<owner, ledger, provider, lease>>

\* Spring answers a post; the reply reaches a call that still waits, or is lost.
Reply(r, op, st) ==
    /\ net' = net \ {<<r, op>>}
    /\ \/ UNCHANGED call
       \/ /\ call[r].st = "running" /\ call[r].op = op
          /\ call' = [call EXCEPT ![r].st = st]
    /\ UNCHANGED <<owner, provider, lease>>

\* Spring checks the lease of a post that carries one.
Admitted(r, op) == Leased(op) => lease[JobOf[r[1]]]

\* Spring: a reserve is idempotent by request id.
SpringReserves(r) ==
    /\ <<r, "RESERVED">> \in net /\ Admitted(r, "RESERVED")
    /\ ledger' = IF ledger[r] = "absent" THEN [ledger EXCEPT ![r] = "RESERVED"]
                                         ELSE ledger
    /\ Reply(r, "RESERVED", "ok")

\* Spring: the quota is exhausted, or the lease is gone.
SpringRefuses(r) ==
    /\ <<r, "RESERVED">> \in net
    /\ Admitted(r, "RESERVED") => ledger[r] = "absent"
    /\ Reply(r, "RESERVED", "error")
    /\ UNCHANGED ledger

\* Spring: settle and release close an open entry once.
SpringCloses(r, op) ==
    /\ <<r, op>> \in net /\ Admitted(r, op)
    /\ ledger' = IF ledger[r] = "RESERVED" THEN [ledger EXCEPT ![r] = op]
                                           ELSE ledger
    /\ Reply(r, op, "ok")

\* Spring: the lease of a job ends and its open reservations are released.
LeaseExpires(j) ==
    /\ lease[j]
    /\ lease' = [lease EXCEPT ![j] = FALSE]
    /\ ledger' = [r \in Requests |->
                    IF JobOf[r[1]] = j /\ ledger[r] = "RESERVED"
                    THEN "LEASE_EXPIRED" ELSE ledger[r]]
    /\ UNCHANGED <<owner, call, net, provider>>

-----------------------------------------------------------------------------
\* The caller's coroutine, from one await to the next.
Acquire(c) ==
    /\ pc[c] = "waiting" /\ permits > 0
    /\ pc' = [pc EXCEPT ![c] = "reserving"]
    /\ permits' = permits - 1
    /\ Post(Current(c), "RESERVED", FALSE)
    /\ UNCHANGED <<attempt, ledger, provider, lease>>

\* Mutant: an error of the reserve is swallowed, as it is after a failure.
CallProviderAnyway(c) ==
    /\ pc[c] = "reserving" /\ call[Current(c)].st \in {"ok", "error"}
    /\ pc' = [pc EXCEPT ![c] = "calling"]
    /\ provider' = [provider EXCEPT ![Current(c)] = "running"]
    /\ UNCHANGED <<attempt, permits, call, net, ledger, lease>>

CallProvider(c) ==
    /\ pc[c] = "reserving" /\ call[Current(c)].st = "ok"
    /\ pc' = [pc EXCEPT ![c] = "calling"]
    /\ provider' = [provider EXCEPT ![Current(c)] = "running"]
    /\ UNCHANGED <<attempt, permits, call, net, ledger, lease>>

\* Mutant: the release of the semaphore is not in a finally.
ReserveRaisesHolding(c) ==
    /\ pc[c] = "reserving" /\ call[Current(c)].st = "error"
    /\ pc' = [pc EXCEPT ![c] = "failed"]
    /\ UNCHANGED <<attempt, permits, call, net, ledger, provider, lease>>

\* A reserve that raises leaves the semaphore's context and ends the request.
ReserveRaises(c) ==
    /\ pc[c] = "reserving" /\ call[Current(c)].st = "error"
    /\ pc' = [pc EXCEPT ![c] = "failed"]
    /\ permits' = permits + 1
    /\ UNCHANGED <<attempt, call, net, ledger, provider, lease>>

\* Mutant: every failed call is released, also when it reported its usage.
ProviderReturnsUnread(c, report) ==
    /\ pc[c] = "calling"
    /\ pc' = [pc EXCEPT ![c] = IF report \in {"successUsage", "successNoUsage"}
                               THEN "settling" ELSE "failing"]
    /\ provider' = [provider EXCEPT ![Current(c)] = report]
    /\ Post(Current(c), IF report = "successUsage" THEN "SETTLED_SUCCESS"
                                                   ELSE "RELEASED", FALSE)
    /\ UNCHANGED <<attempt, permits, ledger, lease>>

ProviderReturns(c, report) ==
    /\ pc[c] = "calling"
    /\ pc' = [pc EXCEPT ![c] = IF report \in {"successUsage", "successNoUsage"}
                               THEN "settling" ELSE "failing"]
    /\ provider' = [provider EXCEPT ![Current(c)] = report]
    /\ Post(Current(c), CloseOf[report], FALSE)
    /\ UNCHANGED <<attempt, permits, ledger, lease>>

\* After a success a failing ledger call is the caller's error.
Finish(c) ==
    /\ pc[c] = "settling" /\ call[Current(c)].st \in {"ok", "error"}
    /\ pc' = [pc EXCEPT ![c] = IF call[Current(c)].st = "ok" THEN "done"
                                                             ELSE "failed"]
    /\ permits' = permits + 1
    /\ UNCHANGED <<attempt, call, net, ledger, provider, lease>>

\* After a failure the ledger's own error is swallowed; the provider's decides.
FailureClosed(c) == pc[c] = "failing" /\ call[Current(c)].st \in {"ok", "error"}

GiveUp(c) ==
    /\ FailureClosed(c)
    /\ pc' = [pc EXCEPT ![c] = "failed"]
    /\ permits' = permits + 1
    /\ UNCHANGED <<attempt, call, net, ledger, provider, lease>>

\* Mutant: one retry too many.
BackOffPastLimit(c) ==
    /\ FailureClosed(c) /\ attempt[c] <= MaxRetries + 1
    /\ pc' = [pc EXCEPT ![c] = "backoff"]
    /\ permits' = permits + 1
    /\ UNCHANGED <<attempt, call, net, ledger, provider, lease>>

BackOff(c) ==
    /\ FailureClosed(c) /\ attempt[c] <= MaxRetries
    /\ pc' = [pc EXCEPT ![c] = "backoff"]
    /\ permits' = permits + 1
    /\ UNCHANGED <<attempt, call, net, ledger, provider, lease>>

Retry(c) ==
    /\ pc[c] = "backoff"
    /\ pc' = [pc EXCEPT ![c] = "waiting"]
    /\ attempt' = [attempt EXCEPT ![c] = @ + 1]
    /\ UNCHANGED <<permits, call, net, ledger, provider, lease>>

-----------------------------------------------------------------------------
\* Cancellation of the caller (lost lease, stopped job) at each await.
CancelIdle(c) ==
    /\ pc[c] \in {"waiting", "backoff"}
    /\ pc' = [pc EXCEPT ![c] = "cancelled"]
    /\ UNCHANGED <<attempt, permits, call, net, ledger, provider, lease>>

\* Mutant: the release does not wait for the reservation to return.
CancelReserveAtOnce(c) ==
    /\ pc[c] = "reserving"
    /\ pc' = [pc EXCEPT ![c] = "cancelled"]
    /\ permits' = permits + 1
    /\ Post(Current(c), "RELEASED", TRUE)
    /\ provider' = [provider EXCEPT ![Current(c)] = "abandoned"]
    /\ UNCHANGED <<attempt, ledger, lease>>

\* The reservation goes on; CleanUp releases it once it has returned.
CancelReserve(c) ==
    /\ pc[c] = "reserving"
    /\ pc' = [pc EXCEPT ![c] = "cancelled"]
    /\ permits' = permits + 1
    /\ call' = [call EXCEPT ![Current(c)].detached = TRUE]
    /\ provider' = [provider EXCEPT ![Current(c)] = "abandoned"]
    /\ UNCHANGED <<attempt, net, ledger, lease>>

CleanUp(r) ==
    /\ call[r].detached /\ call[r].op = "RESERVED" /\ call[r].st = "ok"
    /\ Post(r, "RELEASED", TRUE)
    /\ UNCHANGED <<owner, ledger, provider, lease>>

CancelProvider(c) ==
    /\ pc[c] = "calling"
    /\ pc' = [pc EXCEPT ![c] = "cancelled"]
    /\ permits' = permits + 1
    /\ provider' = [provider EXCEPT ![Current(c)] = "abandoned"]
    /\ Post(Current(c), "RELEASED", TRUE)
    /\ UNCHANGED <<attempt, ledger, lease>>

\* Mutant: a cancelled close is followed by a release of its own.
CancelCloseReleasing(c) ==
    /\ pc[c] \in {"settling", "failing"}
    /\ pc' = [pc EXCEPT ![c] = "cancelled"]
    /\ permits' = permits + 1
    /\ Post(Current(c), "RELEASED", TRUE)
    /\ UNCHANGED <<attempt, ledger, provider, lease>>

\* The close goes on as it was started, outside of the caller.
CancelClose(c) ==
    /\ pc[c] \in {"settling", "failing"}
    /\ pc' = [pc EXCEPT ![c] = "cancelled"]
    /\ permits' = permits + 1
    /\ call' = [call EXCEPT ![Current(c)].detached = TRUE]
    /\ UNCHANGED <<attempt, net, ledger, provider, lease>>

\* The process dies: callers, detached tasks and the semaphore are gone, the
\* posts already sent are not.
Crash ==
    /\ \E c \in Callers : pc[c] \notin Ended
    /\ pc' = [c \in Callers |-> IF pc[c] \in Ended THEN pc[c] ELSE "crashed"]
    /\ permits' = Permits
    /\ call' = [r \in Requests |-> IF call[r].op = "none" THEN call[r]
                                   ELSE [call[r] EXCEPT !.st = "crashed"]]
    /\ provider' = [r \in Requests |->
                      IF provider[r] = "running" THEN "abandoned" ELSE provider[r]]
    /\ UNCHANGED <<attempt, net, ledger, lease>>

-----------------------------------------------------------------------------
CallerStep(c) ==
    \/ CallProvider(c) \/ ReserveRaises(c) \/ Finish(c) \/ GiveUp(c)
    \/ BackOff(c) \/ Retry(c)
    \/ \E report \in Reports \ {"abandoned"} : ProviderReturns(c, report)

Cancel(c) == CancelIdle(c) \/ CancelReserve(c) \/ CancelProvider(c) \/ CancelClose(c)

LedgerTask(r) == PostAgain(r) \/ CleanUp(r)

Spring == \/ \E r \in Requests : \/ SpringReserves(r) \/ SpringRefuses(r)
                                 \/ \E op \in Closes : SpringCloses(r, op)
          \/ \E j \in Jobs : LeaseExpires(j)

Next == \/ \E c \in Callers : Acquire(c) \/ CallerStep(c) \/ Cancel(c)
        \/ \E r \in Requests : LedgerTask(r)
        \/ Spring
        \/ Crash

(***************************************************************************)
(* Fairness.  The event loop resumes every coroutine whose await is over,  *)
(* HTTP timeouts end every provider and ledger call, asyncio.Semaphore     *)
(* wakes its waiters in FIFO order (hence SF), and a lease that is not     *)
(* renewed ends.  Nothing is assumed about the network or about Spring     *)
(* answering.                                                              *)
(***************************************************************************)
Fairness == /\ \A c \in Callers : SF_vars(Acquire(c)) /\ WF_vars(CallerStep(c))
            /\ \A r \in Requests : WF_vars(LedgerTask(r))
            /\ \A j \in Jobs : WF_vars(LeaseExpires(j))

Spec == Init /\ [][Next]_vars
FairSpec == Spec /\ Fairness

-----------------------------------------------------------------------------
\* Safety

Holders == {c \in Callers : pc[c] \in Holding}

\* Every exit from the semaphore's block, by return, error or cancellation at
\* any await, gives its permit back exactly once, so that at most Permits
\* requests of the process are between reserve and close.
PermitsConserved == permits + Cardinality(Holders) = Permits

\* The provider is called only for a request that Spring has entered in the
\* ledger, whatever posts and replies were lost or retried.
CalledOnlyWhenReserved ==
    \A c \in Callers : pc[c] \in Holding \ {"reserving"} => ledger[Current(c)] # "absent"

\* An entry Spring holds open is never forgotten while calls succeed: its
\* caller still works on it, or a task of the worker still runs for it, or a
\* ledger call for it failed (then only the end of the lease releases it).
ReservationAccounted ==
    \A r \in Requests : ledger[r] = "RESERVED" =>
        \/ \E c \in Callers : r = Current(c) /\ pc[c] \in Holding
        \/ call[r].st \in {"running", "error", "crashed"}
        \/ call[r].detached /\ call[r].op = "RESERVED"

\* Once the worker has started to close a request one way (settle or release)
\* it never starts to close it another way, not even when it is cancelled
\* between the provider's answer and the ledger's.
CloseDecidedOnce ==
    [][\A r \in Requests : call[r].op \in Closes => call'[r].op = call[r].op]_vars

\* The metering implements its contract: reserve before call, and an entry is
\* closed by what the provider reported about that very request.
ImplementsContract == Contract!Spec

\* The inductive invariant behind the safety properties, in named parts.

\* Requests of attempts a caller has not started yet are untouched.
Fresh == \A c \in Callers, k \in Attempts :
    k > attempt[c] \/ (k = attempt[c] /\ pc[c] = "waiting") =>
        provider[<<c, k>>] = "notCalled" /\ call[<<c, k>>] = Idle

\* What a suspended caller may rely on about its current request.
Phase == \A c \in Callers :
    /\ pc[c] = "reserving" => /\ provider[Current(c)] = "notCalled"
                              /\ call[Current(c)].op = "RESERVED"
                              /\ ~call[Current(c)].detached
    /\ pc[c] = "calling" => /\ provider[Current(c)] = "running"
                            /\ call[Current(c)].op = "RESERVED"
                            /\ call[Current(c)].st = "ok"
                            /\ ~call[Current(c)].detached
    /\ pc[c] \in {"settling", "failing"} => call[Current(c)].op \in Closes
    /\ pc[c] = "backoff" => attempt[c] <= MaxRetries

\* A close in the worker, on the wire or in the ledger is the reported one.
ClosingOf(r) ==
    /\ call[r].op \in Closes =>
          provider[r] \in Reports /\ CloseOf[provider[r]] = call[r].op
    /\ \A op \in Closes : <<r, op>> \in net => call[r].op = op
    /\ ledger[r] \in Closes => ledger[r] = call[r].op
    /\ call[r].op = "RESERVED" /\ call[r].detached => provider[r] = "abandoned"
Closing == \A r \in Requests : ClosingOf(r)

\* Nobody acts on a reservation that Spring has not made.
AcknowledgedOf(r) ==
    /\ call[r].op = "RESERVED" /\ call[r].st = "ok" => ledger[r] # "absent"
    /\ call[r].op \in Closes => ledger[r] # "absent"
    /\ call[r].op \in Closes /\ call[r].st = "ok" => ledger[r] # "RESERVED"
    /\ provider[r] = "running" => ledger[r] # "absent"
    /\ call[r].op = "none" => ledger[r] = "absent"
    /\ call[r].op = "none" <=> call[r].st = "idle"
    /\ <<r, "RESERVED">> \in net => call[r].op # "none"
Acknowledged == \A r \in Requests : AcknowledgedOf(r)

\* A reserve that runs in its caller has that caller waiting for it.
Owned == \A r \in Requests :
    call[r].op = "RESERVED" /\ call[r].st \in {"running", "ok"} /\ ~call[r].detached =>
        \E c \in Callers : r = Current(c) /\ pc[c] \in {"reserving", "calling"}

IInv == /\ TypeOK /\ PermitsConserved
        /\ Fresh /\ Phase /\ Closing /\ Acknowledged /\ Owned
        /\ ReservationAccounted

\* Liveness

\* Every request returns, fails or is cancelled: no permit or reply is waited
\* for without end, however many callers share the semaphore.
CallersEnd == \A c \in Callers : pc[c] \notin Ended ~> pc[c] \in Ended

\* No reservation stays open: a close reaches Spring or the lease ends, and a
\* reserve that Spring processes late cannot reopen anything after that.
ReservationsClose == <>[](\A r \in Requests : ledger[r] # "RESERVED")
=============================================================================
