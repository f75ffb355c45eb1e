----------------------------- MODULE ChatRuntime -----------------------------
(***************************************************************************)
(* app/chatbot/runtime.py and outbox.py: the HTTP process that answers     *)
(* chat questions.  Spring dispatches an attempt, the process starts a     *)
(* task, the task takes ownership at Spring, makes paid provider calls and *)
(* leaves its result.  Results and usages are rows of a SQLite outbox that *)
(* survives the process; one delivery loop sends them to Spring.           *)
(*                                                                         *)
(* Spring is external and modelled from docs/chat-execution-v1.md and the  *)
(* calls of app/chatbot/client.py.                                         *)
(***************************************************************************)
EXTENDS Naturals, FiniteSets

CONSTANTS
    Attempts,       \* attempt ids
    Stuck,          \* those for which Spring answers no report
    HandlerCalls,   \* provider calls a handler makes, at once or in turn
    MaxTasks,       \* tasks ever created for one attempt
    MaxStarts,      \* how often the process is started
    Capacity,       \* CHAT_CAPACITY
    MaxRows,        \* rows of the outbox
    Batch           \* rows of one kind in one flush

ASSUME ChatAssumption ==
    /\ IsFiniteSet(Attempts)
    /\ Stuck \subseteq Attempts
    /\ HandlerCalls \in Nat
    /\ {MaxTasks, MaxStarts, Capacity, MaxRows, Batch} \subseteq Nat \ {0}

Calls == 1..HandlerCalls
Runners == 1..MaxTasks          \* runner ids, in the order of an attempt's tasks

VARIABLES
    proc,           \* serving, draining, closing (the last flush) or down
    starts,         \* processes started so far
    reserved,       \* _reserved_slots
    task,           \* the entry of each attempt in ChatRuntime.tasks
    created,        \* tasks created so far per attempt
    call,           \* the provider calls of the current task
    rows,           \* the table of reports
    flight,         \* reports the delivery loop is sending
    \* Spring
    run,            \* state and owner of each attempt
    usage,          \* token reservation of each call
    late,           \* attempts whose deadline has passed
    \* history
    handled,        \* runners for which the handler was invoked
    paid,           \* calls for which the provider was invoked
    stored          \* attempts whose answer was put into the outbox

chat == <<proc, starts, reserved, task, created, call>>
outbox == <<rows, flight>>
spring == <<run, usage, late>>
vars == <<chat, outbox, spring, handled, paid, stored>>

Working == {"created", "starting", "handling"}
Reserving == {"reserving", "preflight", "invoking"}     \* calls that hold a slot
Results == {"answer", "oversized", "failure", "limit"}
Kinds == {"SETTLE", "UNKNOWN", "RELEASE"}
RowTypes == [kind : {"finish", "usage"}, of : Attempts, call : 0..HandlerCalls,
             runner : Runners, says : Results \union Kinds, tried : Nat]

TypeOK ==
    /\ proc \in {"serving", "draining", "closing", "down"}
    /\ starts \in 1..MaxStarts
    /\ reserved \in Nat
    /\ task \in [Attempts -> [pc : Working \union {"none", "done"}, runner : {0} \union Runners]]
    /\ created \in [Attempts -> 0..MaxTasks]
    /\ call \in [Attempts -> [Calls -> Reserving \union {"none", "over"}]]
    /\ rows \subseteq RowTypes
    /\ flight \subseteq RowTypes
    /\ run \in [Attempts -> [state : {"queued", "running", "answered", "failed", "timedOut"},
                             runner : {0} \union Runners]]
    /\ usage \in [Attempts -> [Calls -> {"none", "reserved"} \union Kinds]]
    /\ late \subseteq Attempts
    /\ handled \in [Attempts -> SUBSET Runners]
    /\ paid \subseteq Attempts \X Calls
    /\ stored \subseteq Attempts

NoTask == [pc |-> "none", runner |-> 0]
NoCalls == [c \in Calls |-> "none"]

Init == /\ proc = "serving"
        /\ starts = 1
        /\ reserved = 0
        /\ task = [a \in Attempts |-> NoTask]
        /\ created = [a \in Attempts |-> 0]
        /\ call = [a \in Attempts |-> NoCalls]
        /\ rows = {}
        /\ flight = {}
        /\ run = [a \in Attempts |-> [state |-> "queued", runner |-> 0]]
        /\ usage = [a \in Attempts |-> [c \in Calls |-> "none"]]
        /\ late = {}
        /\ handled = [a \in Attempts |-> {}]
        /\ paid = {}
        /\ stored = {}

-----------------------------------------------------------------------------
\* The outbox.

Key(r) == <<r.kind, r.of, r.call, IF r.kind = "finish" THEN 0 ELSE r.runner>>

\* Mutant: rows are counted, promised rows are not.
RowsOnly == Cardinality(rows) + 1 <= MaxRows

\* ensure_capacity: every promised row counts like a stored one.
HasCapacity == Cardinality(rows) + reserved + 1 <= MaxRows

Report(kind, a, c, says) ==
    [kind |-> kind, of |-> a, call |-> c, runner |-> task[a].runner, says |-> says, tried |-> 0]

\* Mutant: a later report replaces the stored one.
Replacing(new) == {r \in rows : \A n \in new : Key(r) # Key(n)} \union new

\* put: a key that is already stored keeps its row; if the report differs, the
\* new one is refused and lost.
Put(new) == rows \union {n \in new : \A r \in rows : Key(r) # Key(n)}

-----------------------------------------------------------------------------
\* Executions.

InTasks == {a \in Attempts : task[a].pc # "none"}
AtWork == {a \in Attempts : task[a].pc \in Working}
OnSlot(a) == {c \in Calls : call[a][c] \in Reserving}
SlotCalls == {p \in Attempts \X Calls : call[p[1]][p[2]] \in Reserving}

\* Spring sends a dispatch, perhaps again after five seconds, perhaps late.  A
\* repeated one is answered without a second task; what does not fit is refused.
Submit(a) ==
    /\ proc = "serving"
    /\ task[a].pc = "none"
    /\ Cardinality(InTasks) < Capacity
    /\ a \notin late
    /\ HasCapacity
    /\ created[a] < MaxTasks
    /\ reserved' = reserved + 1
    /\ created' = [created EXCEPT ![a] = @ + 1]
    /\ task' = [task EXCEPT ![a] = [pc |-> "created", runner |-> created[a] + 1]]
    /\ call' = [call EXCEPT ![a] = NoCalls]
    /\ UNCHANGED <<proc, starts, outbox, spring, handled, paid, stored>>

Begin(a) ==
    /\ task[a].pc = "created"
    /\ task' = [task EXCEPT ![a].pc = "starting"]
    /\ UNCHANGED <<proc, starts, reserved, created, call, outbox, spring, handled, paid, stored>>

\* Mutant: the usages of calls cut short are not reported.
WithoutUsages(a, finish) == Put({Report("finish", a, 0, says) : says \in finish})

\* What a task leaves behind: a usage for every call that was reserved at Spring,
\* and the result unless it is None.
Left(a, finish) ==
    Put({Report("usage", a, c, IF call[a][c] = "invoking" THEN "UNKNOWN" ELSE "RELEASE") :
           c \in {d \in Calls : call[a][d] \in {"preflight", "invoking"}}}
        \union {Report("finish", a, 0, says) : says \in finish})

\* Mutant: the task gives back a slot of its own for the result it has stored and
\* another one at its end.
ReleasedTwice(a, finish) ==
    /\ rows' = Left(a, finish)
    /\ reserved' = reserved - (1 + Cardinality(finish) + Cardinality(OnSlot(a)))
    /\ task' = [task EXCEPT ![a].pc = "done"]
    /\ call' = [call EXCEPT ![a] = [c \in Calls |-> IF c \in OnSlot(a) THEN "over" ELSE @[c]]]
    /\ UNCHANGED <<proc, starts, created, flight, handled, paid>>

\* _run ends; its finally blocks run without an await in between.
EndTask(a, finish) ==
    /\ rows' = Left(a, finish)
    /\ reserved' = reserved - (1 + Cardinality(OnSlot(a)))
    /\ task' = [task EXCEPT ![a].pc = "done"]
    /\ call' = [call EXCEPT ![a] = [c \in Calls |-> IF c \in OnSlot(a) THEN "over" ELSE @[c]]]
    /\ UNCHANGED <<proc, starts, created, flight, handled, paid>>

\* The done callback of the task runs in the next pass of the event loop.
Forget(a) ==
    /\ task[a].pc = "done"
    /\ task' = [task EXCEPT ![a].pc = "none"]
    /\ UNCHANGED <<proc, starts, reserved, created, call, outbox, spring, handled, paid, stored>>

Owned(a) == run[a].state = "running" /\ run[a].runner = task[a].runner

\* The first runner to start an attempt owns it, whether it learns of it or not.
TakeOwnership(a) ==
    /\ task[a].pc = "starting"
    /\ run[a].state = "queued"
    /\ run' = [run EXCEPT ![a] = [state |-> "running", runner |-> task[a].runner]]
    /\ UNCHANGED <<chat, outbox, usage, late, handled, paid, stored>>

\* Mutant: a start without an answer is taken for granted.
StartAssumed(a) ==
    /\ task[a].pc = "starting"
    /\ task' = [task EXCEPT ![a].pc = "handling"]
    /\ handled' = [handled EXCEPT ![a] = @ \union {task[a].runner}]
    /\ UNCHANGED <<proc, starts, reserved, created, call, outbox, spring, paid, stored>>

StartGranted(a) ==
    /\ task[a].pc = "starting"
    /\ Owned(a)
    /\ task' = [task EXCEPT ![a].pc = "handling"]
    /\ handled' = [handled EXCEPT ![a] = @ \union {task[a].runner}]
    /\ UNCHANGED <<proc, starts, reserved, created, call, outbox, spring, paid, stored>>

\* A refused start, or one whose answer is lost: the handler is not invoked and a
\* failure is reported.
StartFails(a) ==
    /\ task[a].pc = "starting"
    /\ EndTask(a, {"failure"})
    /\ UNCHANGED <<spring, stored>>

\* Execution.call takes a slot for the usage report before it reserves tokens.
ReserveCall(a, c) ==
    /\ task[a].pc = "handling"
    /\ call[a][c] = "none"
    /\ IF HasCapacity
       THEN reserved' = reserved + 1 /\ call' = [call EXCEPT ![a][c] = "reserving"]
       ELSE UNCHANGED reserved /\ call' = [call EXCEPT ![a][c] = "over"]
    /\ UNCHANGED <<proc, starts, task, created, outbox, spring, handled, paid, stored>>

\* Spring reserves tokens for the call of an owner.
GrantTokens(a, c) ==
    /\ call[a][c] = "reserving"
    /\ Owned(a)
    /\ usage[a][c] = "none"
    /\ usage' = [usage EXCEPT ![a][c] = "reserved"]
    /\ UNCHANGED <<chat, outbox, run, late, handled, paid, stored>>

CallGranted(a, c) ==
    /\ call[a][c] = "reserving"
    /\ usage[a][c] = "reserved"
    /\ call' = [call EXCEPT ![a][c] = "preflight"]
    /\ UNCHANGED <<proc, starts, reserved, task, created, outbox, spring, handled, paid, stored>>

\* Mutant: a refused call keeps its slot.
DeniedKeepsSlot(a, c) ==
    /\ call[a][c] = "reserving"
    /\ call' = [call EXCEPT ![a][c] = "over"]
    /\ UNCHANGED <<proc, starts, reserved, task, created, outbox, spring, handled, paid, stored>>

\* Refused, or granted with the answer lost; Spring then reclaims the reservation.
CallDenied(a, c) ==
    /\ call[a][c] = "reserving"
    /\ call' = [call EXCEPT ![a][c] = "over"]
    /\ reserved' = reserved - 1
    /\ UNCHANGED <<proc, starts, task, created, outbox, spring, handled, paid, stored>>

Invoke(a, c) ==
    /\ call[a][c] = "preflight"
    /\ call' = [call EXCEPT ![a][c] = "invoking"]
    /\ paid' = paid \union {<<a, c>>}
    /\ UNCHANGED <<proc, starts, reserved, task, created, outbox, spring, handled, stored>>

\* Mutant: a failed call is reported as released, whether it was invoked or not.
AlwaysReleasable(a, c) == {"SETTLE", "UNKNOWN", "RELEASE"}

\* What is known of a call when it ends: nothing was spent before the provider was
\* invoked, and afterwards a usage was measured or not.
Measured(a, c) == IF call[a][c] = "preflight" THEN {"RELEASE"} ELSE {"SETTLE", "UNKNOWN"}

CallEnds(a, c) ==
    /\ call[a][c] \in {"preflight", "invoking"}
    /\ \E kind \in Measured(a, c) : rows' = Put({Report("usage", a, c, kind)})
    /\ reserved' = reserved - 1
    /\ call' = [call EXCEPT ![a][c] = "over"]
    /\ UNCHANGED <<proc, starts, task, created, flight, spring, handled, paid, stored>>

\* The handler waits for all of its calls, also when one of them fails.
HandlerEnds(a) ==
    /\ task[a].pc = "handling"
    /\ OnSlot(a) = {}
    /\ \E says \in {"answer", "oversized", "failure"} :
         /\ EndTask(a, {says})
         /\ stored' = IF Report("finish", a, 0, says) \in rows' /\ says = "answer"
                      THEN stored \union {a} ELSE stored
    /\ UNCHANGED spring

\* asyncio.timeout at the deadline: calls are cut short and no result is left.
TimeOut(a) ==
    /\ task[a].pc \in {"starting", "handling"}
    /\ a \in late
    /\ EndTask(a, {})
    /\ UNCHANGED <<spring, stored>>

-----------------------------------------------------------------------------
\* The delivery loop.

\* Retry order: rows that were never sent come first, then the longest waiting.
\* The numbers of last_attempt are kept small: only their order counts.
Compress(s) ==
    {[r EXCEPT !.tried = Cardinality({q.tried : q \in s} \cap 1..@)] : r \in s}

Selections(kind, s) ==
    LET all == {r \in s : r.kind = kind} IN
    {b \in SUBSET all : /\ Cardinality(b) = IF Cardinality(all) < Batch THEN Cardinality(all)
                                                                       ELSE Batch
                        /\ \A r \in b, q \in all \ b : r.tried <= q.tried}

Expired(r) == r.kind = "finish" /\ r.of \in late

\* Mutant: the attempt is not recorded in the rows.
WithoutTurn(batch, s) == s

Tried(batch, s) == Compress({IF r \in batch THEN [r EXCEPT !.tried = MaxRows + 1] ELSE r : r \in s})

\* One transaction purges, selects and marks; then all selected rows are sent.
Flush ==
    /\ \/ proc = "serving" /\ proc' = proc
       \/ proc = "draining" /\ AtWork = {} /\ proc' = "closing"
    /\ flight = {}
    /\ LET left == {r \in rows : ~Expired(r)} IN
       \E usages \in Selections("usage", left), finishes \in Selections("finish", left) :
         /\ rows' = Tried(usages \union finishes, left)
         /\ flight' = {r \in rows' : \E q \in usages \union finishes : Key(q) = Key(r)}
    /\ UNCHANGED <<starts, reserved, task, created, call, spring, handled, paid, stored>>

\* Spring takes a result from the owner of a running attempt and a usage for a
\* reserved call; anything else is a repetition or a refusal and changes nothing.
Apply(r) ==
    IF r.kind = "finish"
    THEN /\ UNCHANGED usage
         /\ IF run[r.of].state = "running" /\ run[r.of].runner = r.runner
            THEN run' = [run EXCEPT ![r.of].state =
                           IF r.says = "answer" THEN "answered" ELSE "failed"]
            ELSE UNCHANGED run
    ELSE /\ UNCHANGED run
         /\ usage' = IF usage[r.of][r.call] = "reserved"
                     THEN [usage EXCEPT ![r.of][r.call] = r.says] ELSE usage

Without(r) == {q \in rows : Key(q) # Key(r)}
\* _replace_oversized_finish
Smaller(r) == {IF Key(q) = Key(r) THEN [q EXCEPT !.says = "limit"] ELSE q : q \in rows}

\* An answer from Spring settles the row, except that a result too large for it is
\* exchanged for a small failure and sent next time.
Delivered(r) ==
    /\ r \in flight
    /\ r.of \notin Stuck
    /\ flight' = flight \ {r}
    /\ IF r.says = "oversized"
       THEN rows' = Smaller(r) /\ UNCHANGED <<run, usage>>
       ELSE rows' = Without(r) /\ Apply(r)
    /\ UNCHANGED <<chat, late, handled, paid, stored>>

\* No answer, or a transient error; the report may have been applied.
NotAnswered(r) ==
    /\ r \in flight
    /\ flight' = flight \ {r}
    /\ \/ UNCHANGED <<run, usage>>
       \/ r.says # "oversized" /\ r.of \notin Stuck /\ Apply(r)
    /\ UNCHANGED <<chat, rows, late, handled, paid, stored>>

\* A result whose deadline passes before its turn to be sent.
Discard(r) ==
    /\ r \in flight
    /\ Expired(r)
    /\ flight' = flight \ {r}
    /\ rows' = Without(r)
    /\ UNCHANGED <<chat, spring, handled, paid, stored>>

-----------------------------------------------------------------------------
\* The process and the deadline.

\* Spring gives an attempt up at its deadline.
DeadlinePasses(a) ==
    /\ a \notin late
    /\ late' = late \union {a}
    /\ run' = [run EXCEPT ![a].state = IF @ \in {"queued", "running"} THEN "timedOut" ELSE @]
    /\ UNCHANGED <<chat, outbox, usage, handled, paid, stored>>

\* The lifespan ends: the delivery loop is cancelled, then shutdown begins.
StopServing ==
    /\ proc = "serving"
    /\ proc' = "draining"
    /\ flight' = {}
    /\ UNCHANGED <<starts, reserved, task, created, call, rows, spring, handled, paid, stored>>

\* The grace is over.  A task that has not begun never reaches its finally.
CancelTask(a) ==
    /\ proc = "draining"
    /\ \/ /\ task[a].pc = "created"
          /\ task' = [task EXCEPT ![a].pc = "done"]
          /\ UNCHANGED <<proc, starts, reserved, created, call, outbox, handled, paid>>
       \/ /\ task[a].pc \in {"starting", "handling"}
          /\ EndTask(a, {"failure"})
    /\ UNCHANGED <<spring, stored>>

Gone == /\ proc' = "down"
        /\ flight' = {}
        /\ task' = [a \in Attempts |-> NoTask]
        /\ call' = [a \in Attempts |-> NoCalls]
        /\ reserved' = 0

\* The last flush is done or has taken two seconds.
Exit ==
    /\ proc = "closing"
    /\ Gone
    /\ UNCHANGED <<starts, created, rows, spring, handled, paid, stored>>

\* Rows are durable, everything else is lost; nobody knows what was spent on the
\* calls under way.
Crash ==
    /\ proc # "down"
    /\ Gone
    /\ paid' = {p \in paid : call[p[1]][p[2]] # "invoking"}
    /\ UNCHANGED <<starts, created, rows, spring, handled, stored>>

Boot ==
    /\ proc = "down"
    /\ starts < MaxStarts
    /\ starts' = starts + 1
    /\ proc' = "serving"
    /\ UNCHANGED <<reserved, task, created, call, outbox, spring, handled, paid, stored>>

-----------------------------------------------------------------------------
TaskStep(a) ==
    \/ Submit(a) \/ Begin(a) \/ TakeOwnership(a) \/ StartGranted(a) \/ StartFails(a) \/ HandlerEnds(a)
    \/ TimeOut(a) \/ Forget(a) \/ CancelTask(a)
    \/ \E c \in Calls : \/ ReserveCall(a, c) \/ GrantTokens(a, c) \/ CallGranted(a, c) \/ CallDenied(a, c)
                        \/ Invoke(a, c) \/ CallEnds(a, c)

Next == \/ \E a \in Attempts : TaskStep(a) \/ DeadlinePasses(a)
        \/ Flush
        \/ \E r \in flight : Delivered(r) \/ NotAnswered(r) \/ Discard(r)
        \/ StopServing \/ Exit \/ Crash \/ Boot

Spec == Init /\ [][Next]_vars

ReportOf(r, kind, a, c) == r.kind = kind /\ r.of = a /\ r.call = c

\* The delivery loop runs, requests end within their timeout, and a report sent
\* again and again is answered some day unless it is stuck.
Fairness ==
    /\ WF_vars(Flush)
    /\ WF_vars(\E r \in flight : Delivered(r) \/ NotAnswered(r) \/ Discard(r))
    /\ \A kind \in {"finish", "usage"}, a \in Attempts, c \in 0..HandlerCalls :
         SF_vars(\E r \in flight : ReportOf(r, kind, a, c) /\ Delivered(r))

FairSpec == Spec /\ Fairness

-----------------------------------------------------------------------------
\* Properties

\* The outbox never outgrows its limit, not even when every promised report is
\* stored: a paid call always finds room for its usage, a task for its result.
CapacityKept == proc # "down" => Cardinality(rows) + reserved <= MaxRows

\* While the process serves, every promised row belongs to a task or a call that
\* will store or give up its report.
SlotsOwned ==
    proc = "serving" =>
      reserved = Cardinality(AtWork) + Cardinality(SlotCalls)

\* However often an attempt is dispatched, whatever answers are lost and whichever
\* process gets it, its question is handled at most once.
HandledOnce == \A a \in Attempts : Cardinality(handled[a]) <= 1

\* A paid call is under way, reported in the outbox or settled at Spring, unless the
\* process died during it.
PaidIsReported ==
    \A a \in Attempts, c \in Calls :
      <<a, c>> \in paid =>
        \/ call[a][c] = "invoking"
        \/ usage[a][c] # "reserved"
        \/ \E r \in rows : ReportOf(r, "usage", a, c)

\* Tokens are released as unspent only if the provider was not invoked.
ReleasedIsUnpaid ==
    \A a \in Attempts, c \in Calls : usage[a][c] = "RELEASE" => <<a, c>> \notin paid

\* A stored answer stays in the outbox until Spring has it or its deadline is over:
\* no repeated dispatch, flush or restart replaces or drops it.
StoredAnswerKept ==
    \A a \in stored :
      \/ run[a].state = "answered" \/ a \in late
      \/ \E r \in rows : ReportOf(r, "finish", a, 0) /\ r.says = "answer"
                         /\ r.runner = run[a].runner

\* The promises of the process, in named parts: types, room for every report it
\* owes, an owner for every row it holds back, and nothing paid given back.
ReportsInv == TypeOK /\ CapacityKept /\ SlotsOwned /\ ReleasedIsUnpaid

\* The result of the runner that owns the attempt is not lost to a report of a
\* runner that never owned it (docs/chat-execution-v1.md).
OwnersResultStored ==
    [][\A a \in Attempts :
         HandlerEnds(a) /\ Owned(a) =>
           \E r \in rows' : ReportOf(r, "finish", a, 0) /\ r.runner = task[a].runner]_vars

\* Every report that Spring would answer leaves the outbox, even if others of its
\* kind fail for ever.
ReportsLeave ==
    \A kind \in {"finish", "usage"}, a \in Attempts \ Stuck, c \in 0..HandlerCalls :
      (\E r \in rows : ReportOf(r, kind, a, c))
        ~> (proc # "serving" \/ ~\E r \in rows : ReportOf(r, kind, a, c))
=============================================================================
