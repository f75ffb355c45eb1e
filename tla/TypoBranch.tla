----------------------------- MODULE TypoBranch ------------------------------
(***************************************************************************)
(* app/validation/typo.py: the typo branch of a validation over the        *)
(* executions of its job.  The text is cut into cores; a suggestion        *)
(* belongs to the core it starts in and may end in the context behind it,  *)
(* so that it can reach into the next core.  A batch of suggestions is     *)
(* accepted if it overlaps nothing that was accepted before it, and is     *)
(* published for its core; a later execution takes a published core over   *)
(* without asking the model, but accepts it by the same rule.              *)
(*                                                                         *)
(* Offsets are numbers, the text itself is left out: whatever makes an     *)
(* answer invalid but its place is a failed call.  Spring stores what is   *)
(* published under the lease (external).  Requests that outlive their      *)
(* sender and executions that overlap are ValidationRun's.                 *)
(***************************************************************************)
EXTENDS Naturals, FiniteSets

CONSTANTS
  TextLength,    \* code points of the target
  CoreChars,     \* segment_chars
  ContextChars,  \* context_chars
  MaxTypoRuns    \* bound: executions of the job

ASSUME TypoAssumption ==
  /\ TextLength \in Nat \ {0} /\ CoreChars \in Nat \ {0}
  /\ ContextChars \in Nat /\ MaxTypoRuns \in Nat \ {0}

NumCores == (TextLength + CoreChars - 1) \div CoreChars
Cores == 1..NumCores
Least(a, b) == IF a <= b THEN a ELSE b

\* split_segments.
CoreStart(n) == (n - 1) * CoreChars
CoreEnd(n) == Least(TextLength, CoreStart(n) + CoreChars)
ContextEnd(n) == Least(TextLength, CoreStart(n) + CoreChars + ContextChars)

\* A suggestion is a span [from, to) of the text, and a batch a set of them.
Spans == {s \in (0..TextLength) \X (0..TextLength) : s[1] < s[2]}
Owned(n) == {s \in Spans : /\ CoreStart(n) <= s[1] /\ s[1] < CoreEnd(n)
                           /\ s[2] <= ContextEnd(n)}
SpansOverlap(s, t) == s[1] < t[2] /\ t[1] < s[2]
Disjoint(found) == \A s, t \in found : s # t => ~SpansOverlap(s, t)
Suggestions(n) == {found \in SUBSET Owned(n) : Disjoint(found)}

Unchecked == {<<0, 0>>}  \* the core has no published batch: this is no span

VARIABLES
  segments,  \* Spring: the batch of each core
  typoRuns,    \* executions so far
  typo,       \* the execution at work
  verdict     \* the result of the last execution that had one

typing == <<segments, typoRuns, typo, verdict>>

NoVerdict == [status |-> "NONE", found |-> {}, done |-> {}]
Idle == [at |-> "idle", next |-> 1, view |-> [n \in Cores |-> Unchecked],
         accepted |-> {}, done |-> {}, failed |-> FALSE, found |-> {}]

TypoInit ==
  /\ segments = [n \in Cores |-> Unchecked]
  /\ typoRuns = 0
  /\ typo = Idle
  /\ verdict = NoVerdict

-----------------------------------------------------------------------------
Sets(changed) == typo' = changed
SpringKeeps == UNCHANGED <<segments, typoRuns>>

\* An execution is claimed and loads what is published: a retry, or a reclaim
\* after a crash.  A complete job is not claimed again.
StartTypos ==
  /\ typo.at = "idle" /\ typoRuns < MaxTypoRuns /\ verdict.status # "COMPLETED"
  /\ typoRuns' = typoRuns + 1
  /\ Sets([Idle EXCEPT !.at = "reading", !.view = segments])
  /\ verdict' = NoVerdict
  /\ UNCHANGED segments

\* The manifest and the target are read.
ReadTarget ==
  /\ typo.at = "reading"
  /\ Sets([typo EXCEPT !.at = "checking"])
  /\ SpringKeeps /\ UNCHANGED verdict

\* Without the text there are no segments to report.
ReadingFails ==
  /\ typo.at = "reading"
  /\ Sets(Idle)
  /\ verdict' = [NoVerdict EXCEPT !.status = "INCOMPLETE"]
  /\ SpringKeeps

Checking == typo.at = "checking" /\ typo.next \in Cores
Current == typo.next

\* Mutant: a batch is compared with itself only.
AcceptableAlone(found) == Disjoint(found)

\* _validated_batch: nothing overlaps within the batch or with what this
\* execution has accepted.
Acceptable(found) ==
  /\ Disjoint(found)
  /\ \A s \in found, t \in typo.accepted : ~SpansOverlap(s, t)

Accepted(found) ==
  Sets([typo EXCEPT !.at = "checking", !.next = @ + 1, !.accepted = @ \union found,
                    !.done = @ \union {Current}, !.found = {}])

\* The segment stays unprocessed; some failures end the loop.
SegmentFails(last) ==
  Sets([typo EXCEPT !.at = "checking", !.next = IF last THEN NumCores + 1 ELSE @ + 1,
                    !.failed = TRUE, !.found = {}])

\* A published core is not given to the model again.
TakeOver ==
  /\ Checking /\ typo.view[Current] # Unchecked
  /\ IF Acceptable(typo.view[Current]) THEN Accepted(typo.view[Current])
     ELSE SegmentFails(FALSE)
  /\ SpringKeeps /\ UNCHANGED verdict

\* The model's answer is valid and is published.
Suggest ==
  /\ Checking /\ typo.view[Current] = Unchecked
  /\ \E found \in Suggestions(Current) :
       /\ Acceptable(found)
       /\ Sets([typo EXCEPT !.at = "publishing", !.found = found])
  /\ SpringKeeps /\ UNCHANGED verdict

\* The call fails or the answer is not valid; a rejected request, a spent budget
\* or an unexpected error leaves the rest of the segments unprocessed.
CheckFails(last) ==
  /\ Checking /\ typo.view[Current] = Unchecked
  /\ SegmentFails(last)
  /\ SpringKeeps /\ UNCHANGED verdict

Published ==
  /\ typo.at = "publishing"
  /\ segments' = [segments EXCEPT ![Current] = typo.found]
  /\ Accepted(typo.found)
  /\ UNCHANGED <<typoRuns, verdict>>

\* The post fails, whether or not Spring has applied it.
PublicationFails ==
  /\ typo.at = "publishing"
  /\ segments' \in {segments, [segments EXCEPT ![Current] = typo.found]}
  /\ SegmentFails(FALSE)
  /\ UNCHANGED <<typoRuns, verdict>>

\* The sources are validated once more.
Validated ==
  /\ typo.at = "checking" /\ typo.next \notin Cores
  /\ verdict' = [status |-> IF typo.failed THEN "INCOMPLETE" ELSE "COMPLETED",
                 found |-> typo.accepted, done |-> typo.done]
  /\ Sets(Idle)
  /\ SpringKeeps

\* Mutant: suggestions are returned although the sources have changed.
KeepsSuggestions ==
  /\ typo.at = "checking" /\ typo.next \notin Cores
  /\ verdict' = [status |-> "INCOMPLETE", found |-> typo.accepted, done |-> {}]
  /\ Sets(Idle)
  /\ SpringKeeps

\* A result is not valid after the loss or a change of its sources.
ValidationFails ==
  /\ typo.at = "checking" /\ typo.next \notin Cores
  /\ verdict' = [status |-> "INCOMPLETE", found |-> {}, done |-> {}]
  /\ Sets(Idle)
  /\ SpringKeeps

\* The process dies, or the branch is cancelled.
BranchDies ==
  /\ typo.at # "idle"
  /\ Sets(Idle)
  /\ SpringKeeps /\ UNCHANGED verdict

TypoNext ==
  \/ StartTypos \/ ReadTarget \/ ReadingFails \/ TakeOver \/ Suggest
  \/ \E last \in BOOLEAN : CheckFails(last)
  \/ Published \/ PublicationFails \/ Validated \/ ValidationFails \/ BranchDies

TypoSpec == TypoInit /\ [][TypoNext]_typing

-----------------------------------------------------------------------------
\* The result of an execution holds only suggestions of segments it reports as
\* checked, no two of which overlap, although they come from the model and from
\* earlier executions; and a branch that is complete has every segment checked,
\* with exactly the suggestions that Spring has (check_typos, _validated_batch).
TypoInv ==
  /\ \A s \in verdict.found : \E n \in verdict.done : s \in Owned(n)
  /\ Disjoint(verdict.found)
  /\ verdict.status = "COMPLETED" =>
       /\ \A n \in Cores : segments[n] # Unchecked
       /\ verdict.done = Cores
       /\ verdict.found = UNION {segments[n] : n \in Cores}

\* A segment that was published is resumed by later executions of the same
\* input: it does not become unprocessed again (README.md, "validation worker").
PublishedSegmentsResume ==
  [][typo'.next > typo.next /\ typo.view[Current] # Unchecked
       => Current \in typo'.done]_typing
=============================================================================
