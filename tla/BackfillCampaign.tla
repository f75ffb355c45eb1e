-------------------------- MODULE BackfillCampaign --------------------------
(***************************************************************************)
(* The operational backfill (app/retrieval/backfill.py): a timer starts a  *)
(* process that sweeps the sources of the work, embeds the chunks that are *)
(* missing (RetrievalIndexService.run) and keeps its cursor, its budget    *)
(* and a marker of the call in flight in SQLite.  A killed process may not *)
(* refund or repeat a call that was perhaps paid.                          *)
(***************************************************************************)
EXTENDS RetrievalIndex, Sequences

CONSTANTS Order,           \* the sources in keyset order, episodes before books
          PageSize,        \* sources per page
          MaxInputTokens,  \* the budget of the campaign; a chunk costs one
          MaxChunks,       \* chunks one run embeds
          MaxRetries       \* provider calls repeated per batch

ASSUME CampaignAssumption ==
  /\ Order \in Seq(Sources) /\ Len(Order) = Cardinality(Sources)
  /\ \A s \in Sources : \E i \in 1..Len(Order) : Order[i] = s
  /\ PageSize \in Nat \ {0} /\ MaxInputTokens \in Nat /\ MaxChunks \in Nat \ {0}
  /\ MaxRetries \in Nat

VARIABLES
  camp,       \* the row of the campaign and its cursor: durable
  run,        \* the process of the timer: volatile
  pending,    \* the outbox holds reports Spring has not taken
  paid,       \* what the provider may have charged, over all processes
  uncertain   \* a call was perhaps charged and nobody knows its usage

vars == <<indexVars, events, camp, run, pending, paid, uncertain>>
money == <<paid, uncertain>>

Off == [pc |-> "off", page |-> {}, s |-> "none", ver |-> 0, missing |-> {}, batch |-> {},
        tries |-> 0, made |-> 0, got |-> 0, moved |-> FALSE, failed |-> FALSE,
        unknown |-> FALSE, result |-> "COMPLETED"]

Init ==
  /\ IndexInit
  /\ camp = [state |-> "NOT_STARTED", admitted |-> 0, inflight |-> FALSE, stuck |-> 0,
             scanning |-> FALSE, after |-> 0, seen |-> FALSE, excluded |-> FALSE]
  /\ run = Off /\ pending = FALSE /\ paid = 0 /\ uncertain = FALSE

Stopped == camp.state \in {"BLOCKED", "BUDGET_EXHAUSTED"}
At(pc) == run.pc = pc
Goto(pc) == run' = [run EXCEPT !.pc = pc]
Quiet == UNCHANGED <<indexVars, pending, money, events>>

\* service.run ends its loop over the batches.
Report(result) ==
  run' = [run EXCEPT !.pc = "result", !.result = result, !.batch = {}, !.missing = {},
                     !.tries = 0, !.unknown = FALSE]

-----------------------------------------------------------------------------
\* CampaignState

Outcome(state) == [camp EXCEPT !.state = state]

\* Mutant: a run without progress is not counted.
Uncounted == UNCHANGED camp /\ Goto("judge")

\* no_progress counts in one transaction and judges in the next.
NoProgress == camp' = [camp EXCEPT !.stuck = @ + 1] /\ Goto("judge")

Judge ==
  /\ At("judge")
  /\ camp' = Outcome(IF camp.stuck >= 3 THEN "BLOCKED" ELSE "PROGRESS")
  /\ run' = Off
  /\ Quiet

Position(s) == CHOOSE i \in 1..Len(Order) : Order[i] = s
Advanced(s, ready) ==
  [camp EXCEPT !.after = Position(s), !.seen = TRUE, !.excluded = @ \/ ~ready, !.stuck = 0]

\* Mutant: the marker is lifted once the vectors are saved, usage or not.
ResolvedAnyway(unknown) == [camp EXCEPT !.inflight = FALSE]

\* after_save and discard_result, and the failures embed resolves itself.
Resolved(unknown) == [camp EXCEPT !.inflight = @ /\ unknown]

\* resume, by the operator; it needs the lock of the campaign.
Resume ==
  /\ At("off") /\ Event /\ (camp.inflight \/ Stopped)
  /\ camp' = [camp EXCEPT !.state = "RESUMED", !.inflight = FALSE, !.stuck = 0]
  /\ uncertain' = FALSE
  /\ UNCHANGED <<indexVars, run, pending, paid>>

-----------------------------------------------------------------------------
\* main and CampaignRunner.run

\* The timer starts the process, which delivers reports before anything else and
\* does nothing while some are left or the campaign is stopped.
Start ==
  /\ At("off")
  /\ IF camp.inflight /\ ~pending THEN camp' = Outcome("BLOCKED") /\ UNCHANGED run
     ELSE IF pending \/ Stopped THEN UNCHANGED <<camp, run>>
     ELSE Goto("sweep") /\ UNCHANGED camp
  /\ Quiet

\* Reports are taken by Spring, or their time is up.
Deliver ==
  /\ pending /\ pending' = FALSE
  /\ UNCHANGED <<indexVars, camp, run, money, events>>

\* start_sweep, unless a sweep goes on.
Sweep ==
  /\ At("sweep")
  /\ Goto("page")
  /\ camp' = IF camp.scanning THEN camp
             ELSE [camp EXCEPT !.scanning = TRUE, !.after = 0, !.seen = FALSE, !.excluded = FALSE]
  /\ Quiet

\* The next page under the lock of the work: a purged episode is listed as
\* unavailable, an archived book is not listed.  Books come when no episode is left.
Listed(i) == i > camp.after /\ (Order[i] \in Episodes \/ src[Order[i]].open)
Page ==
  LET left == {i \in 1..Len(Order) : Listed(i)}
      rest == {i \in left : Order[i] \in Episodes}
      kind == IF rest # {} THEN rest ELSE left
      first == {i \in kind : Cardinality({j \in kind : j <= i}) <= PageSize}
  IN  {[s |-> Order[i], ver |-> src[Order[i]].ver, open |-> src[Order[i]].open] : i \in first}

ListPage ==
  /\ At("page")
  /\ IF Page # {} THEN run' = [run EXCEPT !.pc = "source", !.page = Page] /\ UNCHANGED camp
     ELSE \* work_done and finish_sweep's outcome; scanning is reset in its own transaction
          /\ Goto("finish")
          /\ camp' = [camp EXCEPT !.stuck = 0, !.state = IF camp.excluded THEN "PARTIAL"
                                    ELSE IF camp.seen THEN "READY" ELSE "EMPTY"]
  /\ Quiet

Finish ==
  /\ At("finish")
  /\ camp' = [camp EXCEPT !.scanning = FALSE] /\ run' = Off
  /\ Quiet

\* The deadline has passed between two sources: a run that did nothing counts.
TimeUp ==
  /\ run.pc \in {"page", "source"} /\ run.got < MaxChunks
  /\ IF run.moved THEN camp' = Outcome("TIME_LIMIT") /\ run' = Off ELSE NoProgress
  /\ Quiet

ChunkLimit ==
  /\ At("source") /\ run.got >= MaxChunks
  /\ camp' = Outcome("CHUNK_LIMIT") /\ run' = Off
  /\ Quiet

Moved(page, c) ==
  camp' = c /\ run' = [Off EXCEPT !.pc = "source", !.page = page, !.got = run.got, !.moved = TRUE]

\* _index: unavailable sources are passed, complete ones too, others are indexed.
Source ==
  /\ At("source") /\ run.got < MaxChunks
  /\ \/ run.page = {} /\ Goto("page") /\ UNCHANGED camp
     \/ \E p \in run.page :
          LET left == run.page \ {p} IN
          /\ \A q \in left : Position(p.s) < Position(q.s)
          /\ IF ~p.open THEN Moved(left, Advanced(p.s, FALSE))
             ELSE IF Complete(p.s, p.ver) THEN Moved(left, Advanced(p.s, TRUE))
             ELSE /\ run' = [run EXCEPT !.pc = "read", !.page = left, !.s = p.s, !.ver = p.ver,
                               !.made = 0, !.failed = FALSE, !.result = "COMPLETED"]
                  /\ UNCHANGED camp
  /\ Quiet

-----------------------------------------------------------------------------
\* RetrievalIndexService.run for the source, with CampaignProvider.

\* The text may be unreadable; then it is cut and prepared.
Prepare ==
  /\ At("read")
  /\ \/ Report("UNREADABLE") /\ UNCHANGED idx
     \/ Report("FAILED") /\ UNCHANGED idx        \* DATABASE_FAILURE
     \/ ~Current(run.s, run.ver) /\ Report("CHANGED") /\ UNCHANGED idx
     \/ /\ Current(run.s, run.ver)
        /\ idx' = Prepared(run.s, run.ver)
        /\ run' = [run EXCEPT !.pc = "batch", !.tries = 0,
                              !.missing = Missing(run.s, run.ver)]
  /\ UNCHANGED <<src, fill, camp, pending, money, events>>

NextBatch == {i \in Batch(run.missing) :
                Cardinality({j \in run.missing : j <= i}) <= MaxChunks - run.got}

\* The loop over the batches is at its end: all done, or the chunks of the run are.
Batches ==
  /\ At("batch")
  /\ \/ run.missing = {} /\ Report("COMPLETED")
     \/ run.missing # {} /\ NextBatch = {} /\ Report("CHUNK_LIMIT")
     \/ run.missing # {} /\ Report("TIME_LIMIT")
  /\ UNCHANGED camp /\ Quiet

Fails(code) == [run EXCEPT !.pc = "fails", !.batch = NextBatch, !.result = code]

\* Mutant: an admission that ignores the marker of an earlier call.
AdmittedAgain(tokens) == tokens <= MaxInputTokens - camp.admitted

Admitted(tokens) == ~camp.inflight /\ tokens <= MaxInputTokens - camp.admitted

\* validate, then reserve: committed before any HTTP request.
Reserve ==
  /\ At("batch") /\ NextBatch # {}
  /\ IF ~Valid(run.s, run.ver) THEN Report("CHANGED") /\ UNCHANGED camp
     ELSE IF pending THEN run' = Fails("REPORTS_PENDING") /\ UNCHANGED camp
     ELSE IF Admitted(Cardinality(NextBatch))
     THEN /\ camp' = [camp EXCEPT !.admitted = @ + Cardinality(NextBatch), !.inflight = TRUE]
          /\ run' = [run EXCEPT !.pc = "reserved", !.batch = NextBatch, !.unknown = FALSE]
     ELSE /\ run' = Fails(IF camp.inflight THEN "UNKNOWN_USAGE" ELSE "BUDGET_EXHAUSTED")
          /\ UNCHANGED camp
  /\ Quiet

\* Spring refuses the operation or is not there: no call was made.
LedgerFails ==
  /\ At("reserved")
  /\ \E code \in {"LEDGER_RETRYABLE", "LEDGER_REJECTED"} :
       run' = [run EXCEPT !.pc = "fails", !.result = code]
  /\ camp' = Resolved(FALSE)
  /\ pending' \in BOOLEAN
  /\ UNCHANGED <<indexVars, money, events>>

\* The last check before the call (attempted); then the provider is called.
Invoke ==
  /\ At("reserved")
  /\ IF Valid(run.s, run.ver)
     THEN /\ Goto("called") /\ paid' = paid + Cardinality(run.batch) /\ uncertain' = TRUE
          /\ UNCHANGED <<camp, pending>>
     ELSE /\ Report("CHANGED") /\ camp' = Resolved(FALSE) /\ pending' \in BOOLEAN
          /\ UNCHANGED money
  /\ UNCHANGED <<indexVars, events>>

\* The deadline cuts the call, or its report cannot be stored: the marker stays.
TimesOut ==
  /\ run.pc \in {"reserved", "called"}
  /\ Report("FAILED")
  /\ pending' \in BOOLEAN
  /\ UNCHANGED <<indexVars, camp, money, events>>

\* The call ends; its usage may be missing.  A failure is resolved at once, the
\* vectors of a success are saved first.
Answer ==
  /\ At("called")
  /\ pending' \in BOOLEAN
  /\ \E unknown \in BOOLEAN :
       \/ /\ run' = [run EXCEPT !.pc = "save", !.unknown = unknown]
          /\ UNCHANGED <<camp, uncertain>>
       \/ \E code \in {"PROVIDER_RETRYABLE", "PROVIDER_CONTRACT"} :
            /\ run' = [run EXCEPT !.pc = "fails", !.result = code, !.unknown = unknown]
            /\ camp' = Resolved(unknown)
            /\ uncertain' = unknown
  /\ UNCHANGED <<indexVars, paid, events>>

Save ==
  /\ At("save")
  /\ \/ /\ Valid(run.s, run.ver)
        /\ idx' = Saved(run.s, run.ver, run.batch)
        /\ Goto("saved") /\ UNCHANGED <<camp, uncertain>>
     \/ /\ ~Valid(run.s, run.ver)     \* discard_result
        /\ Report("CHANGED")
        /\ camp' = Resolved(run.unknown) /\ uncertain' = run.unknown
        /\ UNCHANGED idx
     \/ Report("FAILED") /\ UNCHANGED <<idx, camp, uncertain>>
  /\ UNCHANGED <<src, fill, pending, paid, events>>

AfterSave ==
  /\ At("saved")
  /\ camp' = Resolved(run.unknown) /\ uncertain' = run.unknown
  /\ run' = [run EXCEPT !.pc = "batch", !.missing = @ \ run.batch, !.batch = {},
                 !.tries = 0, !.unknown = FALSE, !.made = @ + Cardinality(run.batch), !.got = @ + Cardinality(run.batch)]
  /\ UNCHANGED <<indexVars, pending, paid, events>>

\* store.failed.  A transient failure is tried again, and then the next batch is;
\* any other code ends the run.
Fail ==
  /\ At("fails")
  /\ IF ~Valid(run.s, run.ver) THEN Report("CHANGED") /\ UNCHANGED idx
     ELSE /\ idx' = Marked(run.s, run.batch)
          /\ IF run.result # "PROVIDER_RETRYABLE"
             THEN Report(run.result)
             ELSE IF run.tries < MaxRetries
             THEN run' = [run EXCEPT !.pc = "batch", !.tries = @ + 1, !.batch = {}, !.unknown = FALSE,
                            !.result = "COMPLETED"]
             ELSE run' = [run EXCEPT !.pc = "batch", !.tries = 0, !.result = "COMPLETED", !.batch = {},
                            !.unknown = FALSE, !.missing = @ \ run.batch, !.failed = TRUE,
                            !.got = @ + Cardinality(run.batch)]
  /\ UNCHANGED <<src, fill, camp, pending, money, events>>

-----------------------------------------------------------------------------
\* The end of _index: what the report means for the campaign.

\* Embedded chunks are progress whatever ended the run.
Progress ==
  /\ At("result")
  /\ camp' = IF run.made > 0 THEN [camp EXCEPT !.state = "PROGRESS", !.stuck = 0] ELSE camp
  /\ Goto("conclude")
  /\ Quiet

Ends(state) == camp' = Outcome(state) /\ run' = Off

Conclude ==
  /\ At("conclude")
  /\ IF camp.inflight THEN Ends("BLOCKED")
     ELSE CASE run.result = "BUDGET_EXHAUSTED" -> Ends("BUDGET_EXHAUSTED")
            [] run.result = "REPORTS_PENDING" -> Ends("PROGRESS")
            [] run.result = "LEDGER_RETRYABLE" -> NoProgress
            [] run.result \in {"CHUNK_LIMIT", "TIME_LIMIT"} ->
                 IF run.made > 0 THEN Ends(run.result) ELSE NoProgress
            [] run.result = "CHANGED" -> NoProgress
            [] run.result = "UNREADABLE" ->
                 IF run.s \in Books THEN Moved(run.page, Advanced(run.s, FALSE)) ELSE Ends("BLOCKED")
            [] run.result = "COMPLETED" ->
                 IF run.failed THEN Ends("BLOCKED")
                 ELSE IF Complete(run.s, run.ver) THEN Moved(run.page, Advanced(run.s, TRUE))
                 ELSE NoProgress
            [] OTHER -> Ends("BLOCKED")
  /\ Quiet

\* The process is killed, its SQLite or its database fails, or another process
\* holds the advisory lock of the work (IndexBusy).
Crash ==
  /\ ~At("off") /\ Event
  /\ run' = Off
  /\ UNCHANGED <<indexVars, camp, pending, money>>

-----------------------------------------------------------------------------
RunStep ==
  \/ Sweep \/ ListPage \/ Finish \/ TimeUp \/ ChunkLimit \/ Source
  \/ Prepare \/ Batches \/ Reserve \/ LedgerFails \/ Invoke \/ TimesOut \/ Answer
  \/ Save \/ AfterSave \/ Fail \/ Progress \/ Conclude \/ Judge

Outside == IndexNext /\ UNCHANGED <<camp, run, pending, money>>

Next == Start \/ Deliver \/ RunStep \/ Crash \/ Resume \/ Outside

Spec == Init /\ [][Next]_vars

\* A systemd timer starts the process again and again, every await of a run ends
\* within its deadline, and a report is taken or its time is up.
Fairness == WF_vars(Start) /\ WF_vars(RunStep) /\ WF_vars(Deliver)
FairSpec == Spec /\ Fairness

-----------------------------------------------------------------------------
\* Properties

TypeOK ==
  /\ IndexTypeOK
  /\ camp.admitted \in 0..MaxInputTokens /\ camp.after \in 0..Len(Order)
  /\ camp.inflight \in BOOLEAN /\ camp.scanning \in BOOLEAN
  /\ camp.state \in {"NOT_STARTED", "PROGRESS", "BLOCKED", "BUDGET_EXHAUSTED", "TIME_LIMIT",
                     "CHUNK_LIMIT", "READY", "PARTIAL", "EMPTY", "RESUMED"}
  /\ run.pc \in {"off", "sweep", "page", "finish", "source", "read", "batch", "reserved",
                 "called", "save", "saved", "fails", "result", "conclude", "judge"}
  /\ run.got \in 0..MaxChunks
  /\ pending \in BOOLEAN /\ uncertain \in BOOLEAN /\ paid \in Nat

\* Nothing is ever charged beyond the budget, whatever dies or is retried: the
\* calls that were perhaps made never cost more than was admitted before them
\* (docs/chat-runtime-operations.md:117).
BudgetKept == paid <= camp.admitted /\ camp.admitted <= MaxInputTokens

IndexInv == TypeOK /\ VectorsFit /\ BudgetKept

\* No call is made after one that was perhaps charged and whose usage nobody
\* knows, in this process or a later one, until the operator resumes the
\* campaign (backfill.py reserve, CampaignProvider).
NoBlindCall == [][paid' # paid => ~uncertain]_vars

\* The campaign never spins: it ends one sweep after another, or it stops and
\* waits for the operator (backfill.py no_progress).
CampaignSettles == []<>(~camp.scanning) \/ <>[]Stopped

\* A finished vector stays: an index that is complete for the current text loses
\* no chunk while the text stays (docs/retrieval-index-v1.md:50).
VectorsKept ==
  [][\A s \in Sources : src'[s] = src[s] /\ Matches(s, src[s].ver) => Ready(s) \subseteq Ready(s)']_vars
=============================================================================
