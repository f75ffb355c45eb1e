--------------------------- MODULE QuestionJudging ---------------------------
(***************************************************************************)
(* app/validation/judging.py and corpus.py: several judges at work on the  *)
(* questions of one validation, over one corpus.  A judge answers a        *)
(* question or asks for searches once; before a suspected conflict is      *)
(* accepted the worker makes a search for changes itself.  A query that    *)
(* was searched in this run is not searched again; a lock around the       *)
(* search lets a second judge with the same query wait for the result of   *)
(* the first.                                                              *)
(*                                                                         *)
(* Queries are model values, evidence is left out: what a receipt proves   *)
(* is its query and its kind.  The publication of a decision or a failure  *)
(* and the cancellation of the run are ValidationRun's.                    *)
(***************************************************************************)
EXTENDS Naturals, FiniteSets, SequencesExt

CONSTANTS
  Questions,      \* 1..n, in the order of the queue
  Queries,
  NoQuery,        \* '': nothing is left of a query
  TargetQuery,    \* [Questions -> Queries \union {NoQuery}]: target_search_query
  ChangeQuery,    \* [Questions -> Queries \union {NoQuery}]: change_search_query
  FollowUps,      \* the sequences of queries a judge may ask for
  JudgeSlots,     \* JUDGE_CONCURRENCY
  MaxJudgeCalls,  \* MAX_JUDGE_CALLS
  MaxLookups,     \* limits.lookups, less what was read before
  MaxModel        \* limits.model_calls, less the planner's

ASSUME JudgingAssumption ==
  /\ NoQuery \notin Queries
  /\ {TargetQuery, ChangeQuery} \subseteq [Questions -> Queries \union {NoQuery}]
  /\ FollowUps \subseteq Seq(Queries)
  /\ JudgeSlots \in Nat \ {0} /\ {MaxLookups, MaxModel} \subseteq Nat
  \* One call, one after what the judge asked for, one after the search for changes.
  /\ MaxJudgeCalls \in Nat /\ MaxJudgeCalls >= 3

VARIABLES
  judge,   \* [Questions -> record]: the judge of a question
  scope,   \* the index: there is nothing to search, it is ready, or it is not
  results, \* corpus._results: [Queries -> the receipt of the search, or NoReceipt]
  lock,    \* corpus._lock: its holder, then those who wait for it
  spent,   \* budget: the calls and lookups counted
  halted   \* stop["failure"]: no further judge starts

judging == <<judge, scope, results, lock, spent, halted>>

\* The n-th receipt of question q; the judge's own are numbered by it.
NoReceipt == <<0, 0>>
JudgeReceipt(kind, query, from) == [kind |-> kind, query |-> query, from |-> from]
Wanted(kind, query) == [kind |-> kind, query |-> query]

Fresh == [at |-> "queue", final |-> FALSE, calls |-> 0, own |-> <<>>, shown |-> 0,
          todo |-> <<>>, outcome |-> "none"]

JudgingInit ==
  /\ judge = [q \in Questions |-> Fresh]
  /\ scope \in {"empty", "ready", "unready"}
  /\ results = [query \in Queries |-> NoReceipt]
  /\ lock = <<>>
  /\ spent = [calls |-> 0, lookups |-> 0]
  /\ halted = FALSE

-----------------------------------------------------------------------------
Now(q, changed) == judge' = [judge EXCEPT ![q] = changed]
Busy == {q \in Questions : judge[q].at \notin {"queue", "decided", "failed"}}

\* The next search, or the next call: a context range needs no search.
AfterReads(rest) == IF rest = <<>> THEN "asking" ELSE "reading"

\* is_change_search: in this module every receipt of a judge's own succeeded.
ChangeSearched(own) == \E i \in DOMAIN own : own[i].kind = "CHANGES"
SearchOffered == scope \in {"empty", "ready"}

\* A failure of the question alone, or one that stops the dispatching of judges.
QuestionFails(q, level) ==
  /\ Now(q, [judge[q] EXCEPT !.at = "failed", !.todo = <<>>])
  /\ halted' = (halted \/ level = "run")

\* _judge_all: in the order of the queue, while a slot is free and nothing stopped it.
StartJudge(q) ==
  /\ judge[q].at = "queue" /\ ~halted
  /\ \A p \in Questions : p < q => judge[p].at # "queue"
  /\ Cardinality(Busy) < JudgeSlots
  /\ Now(q, [judge[q] EXCEPT !.at = "asking", !.own = <<JudgeReceipt("READ", NoQuery, NoReceipt)>>])
  /\ UNCHANGED <<scope, results, lock, spent, halted>>

\* The bundle is built and the model is called (call_role).
Ask(q) ==
  /\ judge[q].at = "asking" /\ spent.calls < MaxModel
  /\ spent' = [spent EXCEPT !.calls = @ + 1]
  /\ Now(q, [judge[q] EXCEPT !.at = "called", !.calls = @ + 1, !.shown = Len(judge[q].own)])
  /\ UNCHANGED <<scope, results, lock, halted>>

CallsSpent(q) ==
  /\ judge[q].at = "asking" /\ spent.calls >= MaxModel
  /\ QuestionFails(q, "run")
  /\ UNCHANGED <<scope, results, lock, spent>>

\* The call fails, or its answer, request or decision is not valid; no time is left.
AnswerFails(q) ==
  /\ judge[q].at = "called"
  /\ \E level \in {"question", "run"} : QuestionFails(q, level)
  /\ UNCHANGED <<scope, results, lock, spent>>

\* _follow_up: the searches the judge asks for, then the worker's own.
TargetSearch(q, asked) ==
  IF asked = <<>> \/ TargetQuery[q] = NoQuery THEN <<>> ELSE <<Wanted("TARGET", TargetQuery[q])>>

\* Mutant: the form stays open after a follow-up.
FollowUpAgain(q) ==
  /\ judge[q].at = "called" /\ ~judge[q].final
  /\ \E asked \in FollowUps :
       IF asked # <<>> /\ ~SearchOffered THEN QuestionFails(q, "question")
       ELSE /\ Now(q, [judge[q] EXCEPT !.at = AfterReads(asked),
                         !.todo = [i \in DOMAIN asked |-> Wanted("ASKED", asked[i])]
                                    \o TargetSearch(q, asked)])
            /\ UNCHANGED halted
  /\ UNCHANGED <<scope, results, lock, spent>>

FollowUp(q) ==
  /\ judge[q].at = "called" /\ ~judge[q].final
  /\ \E asked \in FollowUps :
       IF asked # <<>> /\ ~SearchOffered THEN QuestionFails(q, "question")
       ELSE /\ Now(q, [judge[q] EXCEPT !.at = AfterReads(asked), !.final = TRUE,
                         !.todo = [i \in DOMAIN asked |-> Wanted("ASKED", asked[i])]
                                    \o TargetSearch(q, asked)])
            /\ UNCHANGED halted
  /\ UNCHANGED <<scope, results, lock, spent>>

\* A suspected conflict needs a search for changes, unless no call is left.
MustSearch(q) == judge[q].calls < MaxJudgeCalls /\ ~ChangeSearched(judge[q].own)

Suspect(q) ==
  /\ judge[q].at = "called" /\ MustSearch(q)
  /\ IF ChangeQuery[q] = NoQuery THEN QuestionFails(q, "question")
     ELSE /\ Now(q, [judge[q] EXCEPT !.at = "reading", !.final = TRUE,
                       !.todo = <<Wanted("CHANGES", ChangeQuery[q])>>])
          /\ UNCHANGED halted
  /\ UNCHANGED <<scope, results, lock, spent>>

\* clear_unquoted_finding may turn a suspicion into NO_CONFLICT; validate_decision
\* refuses one without a search for changes.
DecideQuestion(q) ==
  /\ judge[q].at = "called"
  /\ \E outcome \in {"SUSPECTED_CONFLICT", "another"} :
       /\ outcome = "SUSPECTED_CONFLICT" => ~MustSearch(q) /\ ChangeSearched(judge[q].own)
       /\ Now(q, [judge[q] EXCEPT !.at = "decided", !.outcome = outcome])
  /\ UNCHANGED <<scope, results, lock, spent, halted>>

-----------------------------------------------------------------------------
\* ValidationCorpus.vector for the first search that is left.
Wish(q) == Head(judge[q].todo)
Mine(q) == <<q, Len(judge[q].own) + 1>>

\* The receipt of the search, and on to the next.
Received(q, from) ==
  LET rest == Tail(judge[q].todo)
  IN Now(q, [judge[q] EXCEPT !.at = AfterReads(rest), !.todo = rest,
               !.own = Append(@, JudgeReceipt(Wish(q).kind, Wish(q).query, from))])

NothingToSearch(q) ==
  /\ judge[q].at = "reading" /\ scope = "empty"
  /\ Received(q, NoReceipt)
  /\ UNCHANGED <<scope, results, lock, spent, halted>>

\* Only the worker's search for changes comes here without an offer.
SearchUnready(q) ==
  /\ judge[q].at = "reading" /\ scope = "unready"
  /\ QuestionFails(q, "question")
  /\ UNCHANGED <<scope, results, lock, spent>>

Known(q) == results[Wish(q).query] # NoReceipt

Reuse(q) ==
  /\ judge[q].at = "reading" /\ scope = "ready" /\ Known(q)
  /\ Received(q, results[Wish(q).query])
  /\ UNCHANGED <<scope, results, lock, spent, halted>>

\* _search counts the lookup before it searches.
Searches(q) ==
  IF spent.lookups < MaxLookups
  THEN /\ spent' = [spent EXCEPT !.lookups = @ + 1]
       /\ Now(q, [judge[q] EXCEPT !.at = "searching"])
       /\ UNCHANGED halted
  ELSE QuestionFails(q, "run") /\ UNCHANGED spent

LockAtOnce(q) ==
  /\ judge[q].at = "reading" /\ scope = "ready" /\ ~Known(q)
  /\ lock = <<>>
  /\ Searches(q)
  /\ lock' = IF spent.lookups < MaxLookups THEN <<q>> ELSE <<>>
  /\ UNCHANGED <<scope, results>>

AwaitLock(q) ==
  /\ judge[q].at = "reading" /\ scope = "ready" /\ ~Known(q)
  /\ lock # <<>>
  /\ Now(q, [judge[q] EXCEPT !.at = "waiting"])
  /\ lock' = Append(lock, q)
  /\ UNCHANGED <<scope, results, spent, halted>>

HasLock(q) == lock # <<>> /\ Head(lock) = q

\* Mutant: who waited for the lock searches, whatever was found in the meantime.
LockedUnchecked(q) ==
  /\ judge[q].at = "waiting" /\ HasLock(q)
  /\ Searches(q)
  /\ lock' = IF spent.lookups < MaxLookups THEN lock ELSE Tail(lock)
  /\ UNCHANGED <<scope, results>>

\* Under the lock the results are looked at again.
Locked(q) ==
  /\ judge[q].at = "waiting" /\ HasLock(q)
  /\ IF Known(q)
     THEN Received(q, results[Wish(q).query]) /\ lock' = Tail(lock) /\ UNCHANGED <<spent, halted>>
     ELSE /\ Searches(q)
          /\ lock' = IF spent.lookups < MaxLookups THEN lock ELSE Tail(lock)
  /\ UNCHANGED <<scope, results>>

Found(q) ==
  /\ judge[q].at = "searching"
  /\ results' = [results EXCEPT ![Wish(q).query] = Mine(q)]
  /\ Received(q, NoReceipt)
  /\ lock' = Tail(lock)
  /\ UNCHANGED <<scope, spent, halted>>

\* The search fails, its index is partial, its time is up or a source has changed.
SearchFails(q) ==
  /\ judge[q].at = "searching"
  /\ \E level \in {"question", "run"} : QuestionFails(q, level)
  /\ lock' = Tail(lock)
  /\ UNCHANGED <<scope, results, spent>>

JudgingNext ==
  \E q \in Questions :
    \/ StartJudge(q) \/ Ask(q) \/ CallsSpent(q) \/ AnswerFails(q) \/ FollowUp(q) \/ Suspect(q)
    \/ DecideQuestion(q) \/ NothingToSearch(q) \/ SearchUnready(q)
    \/ Reuse(q) \/ LockAtOnce(q) \/ AwaitLock(q) \/ Locked(q) \/ Found(q) \/ SearchFails(q)

JudgingSpec == JudgingInit /\ [][JudgingNext]_judging

-----------------------------------------------------------------------------
\* The receipts of all judges that come from the index.
At(ref) == judge[ref[1]].own[ref[2]]
Searched == {ref \in UNION {{q} \X DOMAIN judge[q].own : q \in Questions} : At(ref).kind # "READ"}

\* However many judges want the same query at once, it is searched with success
\* once in a run, and every other receipt of it names that search
\* (corpus.py:119-124, judging.py:128).
SearchedOnce ==
  scope = "ready" =>
    \A ref \in Searched :
      results[At(ref).query] = IF At(ref).from = NoReceipt THEN ref ELSE At(ref).from

\* A final suspected conflict was given by a call that had seen a search for
\* changes, the third call is only made with one, and only one answer can have
\* asked for searches (judging.py, the state machine of its docstring).
SuspicionChecked ==
  \A q \in Questions :
    LET own == judge[q].own
    IN /\ judge[q].outcome = "SUSPECTED_CONFLICT" =>
            ChangeSearched(SubSeq(own, 1, judge[q].shown))
       /\ judge[q].calls <= MaxJudgeCalls
       /\ judge[q].calls = MaxJudgeCalls => ChangeSearched(own)
       /\ judge[q].at = "decided" => judge[q].shown = Len(own)

\* Whoever waits for the lock waits for a search that is under way or has just
\* given the lock to the next.
LockIsHeld ==
  /\ ToSet(lock) = {q \in Questions : judge[q].at \in {"waiting", "searching"}}
  /\ \A q \in Questions : judge[q].at = "searching" => HasLock(q)

JudgingInv == SearchedOnce /\ SuspicionChecked /\ LockIsHeld
=============================================================================
