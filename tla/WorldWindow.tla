------------------------------ MODULE WorldWindow ----------------------------
(***************************************************************************)
(* The world settings of a job, compared a window at a time                *)
(* (app/analysis/world_setting_manuscript_pipeline.py and the loop of      *)
(* app/analysis/world_setting_pipeline.py).  Spring hands out the settings *)
(* of one subject as a batch.  A batch whose context has been read may be  *)
(* compared in one request with batches claimed after it; these wait for   *)
(* their turn with the decision made, which is used only if their context  *)
(* has not changed.  A batch whose subject was changed is resolved and     *)
(* claimed again before the ones that wait.                                *)
(***************************************************************************)
EXTENDS Naturals, Sequences, FiniteSets, FiniteSetsExt, SequencesExt

CONSTANTS Settings,            \* the world candidates of the job, in the backend's order
          MaxWorldAttempts,    \* max_context_attempts
          MaxResets            \* bound: resets of the resolution in the job

ASSUME SettingsAssumption == Settings \subseteq Nat /\ IsFiniteSet(Settings)

VARIABLES
  manner,      \* analysis_context is None, given, given with continue_on_candidate_failure
  spot,        \* where the job is
  head,        \* the batch it compares, a set of settings
  waiting,     \* window.pending
  joined,      \* the batches that are compared with the head
  prefetched,  \* [batch -> its context has not changed since it was read]
  exhausted,   \* window.exhausted
  claimError,  \* window.claim_error
  trial,       \* the attempt at the head
  read,        \* the head's context has not changed since it was read
  exact,       \* the head's decisions were made on the context that was read
  resets,      \* subject_resolution_stale_attempts
  world,       \* backend: [Settings -> what became of the candidate]
  subject,     \* backend: [Settings -> the subject it was resolved to]
  overtaken    \* settings a batch that was claimed again has gone ahead of

window == <<manner, spot, head, waiting, joined, prefetched, exhausted, claimError,
            trial, read, exact, resets, world, subject, overtaken>>

\* A new subject is named after the candidate that introduces it.
Subjects == Settings

NoContexts == [b \in {} |-> TRUE]

WindowInit ==
  /\ manner = "independent" /\ spot = "idle"
  /\ head = {} /\ waiting = <<>> /\ joined = <<>> /\ prefetched = NoContexts
  /\ exhausted = FALSE /\ claimError = FALSE
  /\ trial = 0 /\ read = FALSE /\ exact = FALSE
  /\ resets = [b \in SUBSET Settings |-> 0]
  /\ world = [c \in Settings |-> "unresolved"]
  /\ subject = [c \in Settings |-> c]
  /\ overtaken = {}

WorldAs(cs, st) == [c \in Settings |-> IF c \in cs THEN st ELSE world[c]]
WorldIn(sts) == {c \in Settings : world[c] \in sts}
AboutOf(b) == subject[CHOOSE c \in b : TRUE]
Without(bs) == [b \in DOMAIN prefetched \ bs |-> prefetched[b]]

ASSUME WindowAssumption == MaxWorldAttempts \in Nat \ {0}

-----------------------------------------------------------------------------
\* The backend

\* The open candidates on the subject of the first one.
NextBatch ==
  LET first == Min(WorldIn({"open"})) IN {c \in WorldIn({"open"}) : subject[c] = subject[first]}

\* Whatever changes the settings of a subject changes its contexts.
Aged(s) == [b \in DOMAIN prefetched |-> prefetched[b] /\ AboutOf(b) # s]

SubjectEdited(s) ==
  /\ spot \in {"look", "judge", "compare", "save", "claim"}
  /\ prefetched' = Aged(s)
  /\ read' = (read /\ AboutOf(head) # s)
  /\ UNCHANGED <<manner, spot, head, waiting, joined, exhausted, claimError, trial,
                 exact, resets, world, subject, overtaken>>

-----------------------------------------------------------------------------
\* Subjects

Begin(m) ==
  /\ spot = "idle"
  /\ manner' = m /\ spot' = "prepare"
  /\ UNCHANGED <<head, waiting, joined, prefetched, exhausted, claimError, trial, read,
                 exact, resets, world, subject, overtaken>>

\* _prepare_subject_resolutions: each candidate is resolved, or its failure kept.
Resolve(about, lost) ==
  LET todo == WorldIn({"unresolved"})
  IN /\ spot \in {"prepare", "resolve"}
     /\ lost \subseteq todo /\ (lost # {} => manner = "deferring")
     /\ spot = "prepare" => \A c \in todo : about[c] <= c /\ about[about[c]] = about[c]
     /\ subject' = [c \in Settings |-> IF c \in todo THEN about[c] ELSE subject[c]]
     /\ world' = [c \in Settings |-> IF c \in lost THEN "failed"
                                     ELSE IF c \in todo THEN "open" ELSE world[c]]
     /\ spot' = IF spot = "prepare" THEN "claim" ELSE "reclaim"
     /\ UNCHANGED <<manner, head, waiting, joined, prefetched, exhausted, claimError,
                    trial, read, exact, resets, overtaken>>

\* The window ends with the job.
Ends(how) ==
  /\ spot' = how
  /\ head' = {} /\ waiting' = <<>> /\ joined' = <<>> /\ prefetched' = NoContexts
  /\ exhausted' = FALSE /\ claimError' = FALSE
  /\ trial' = 0 /\ read' = FALSE /\ exact' = FALSE
  /\ resets' = [b \in SUBSET Settings |-> 0] /\ overtaken' = {}
  /\ UNCHANGED <<manner, subject>>

JobStops == Ends("raised") /\ UNCHANGED world

\* A call to the backend outside the comparison of a batch.
CallRaises ==
  /\ \/ spot \in {"prepare", "resolve", "reclaim"}
     \/ spot = "claim" /\ waiting = <<>> /\ ~claimError /\ ~exhausted
  /\ JobStops

-----------------------------------------------------------------------------
\* The window

\* window.claim_next.  A claim that raised in the look ahead is raised in its turn.
TakeWaiting ==
  /\ spot = "claim" /\ waiting # <<>>
  /\ head' = Head(waiting) /\ waiting' = Tail(waiting)
  /\ spot' = "load" /\ trial' = 1
  /\ UNCHANGED <<manner, joined, prefetched, exhausted, claimError, read, exact, resets,
                 world, subject, overtaken>>

RaiseClaimError ==
  /\ spot = "claim" /\ waiting = <<>> /\ claimError
  /\ JobStops

ClaimHead ==
  /\ spot = "claim" /\ waiting = <<>> /\ ~claimError /\ ~exhausted /\ WorldIn({"open"}) # {}
  /\ head' = NextBatch /\ world' = WorldAs(NextBatch, "claimed")
  /\ spot' = "load" /\ trial' = 1
  /\ UNCHANGED <<manner, waiting, joined, prefetched, exhausted, claimError, read, exact,
                 resets, subject, overtaken>>

JobReturns ==
  /\ spot = "claim" /\ waiting = <<>> /\ ~claimError
  /\ exhausted \/ WorldIn({"open"}) = {}
  /\ Ends("returned") /\ UNCHANGED world

Trouble(kind) ==
  /\ spot' = kind
  /\ joined' = <<>> /\ prefetched' = Without(ToSet(joined))
  /\ UNCHANGED <<manner, head, waiting, exhausted, claimError, trial, read, exact, resets,
                 world, subject, overtaken>>

\* Mutant: a decision is used whatever became of its context.
LoadAndUse ==
  /\ spot = "load"
  /\ read' = TRUE
  /\ IF trial = 1 /\ head \in DOMAIN prefetched
     THEN exact' = prefetched[head] /\ spot' = "compare"
     ELSE exact' = TRUE /\ spot' = IF trial = 1 THEN "look" ELSE "compare"
  /\ prefetched' = IF trial = 1 THEN Without({head}) ELSE prefetched
  /\ UNCHANGED <<manner, head, waiting, joined, exhausted, claimError, trial, resets,
                 world, subject, overtaken>>

\* The context of the head.  A decision that was made ahead is used if the context
\* is the one it was made on, or the head is compared alone.
Load ==
  /\ spot = "load"
  /\ read' = TRUE /\ exact' = TRUE
  /\ spot' = IF trial = 1 /\ head \notin DOMAIN prefetched THEN "look" ELSE "compare"
  /\ prefetched' = IF trial = 1 THEN Without({head}) ELSE prefetched
  /\ UNCHANGED <<manner, head, waiting, joined, exhausted, claimError, trial, resets,
                 world, subject, overtaken>>

LoadRaises(kind) == spot = "load" /\ Trouble(kind)

\* The batch after those that are joined: one that waits, or the backend's next.
Following == IF waiting # <<>> THEN Head(waiting) ELSE NextBatch
HasFollowing == waiting # <<>> \/ (~exhausted /\ WorldIn({"open"}) # {})

\* Its settings are those of a batch that will be decided before.
Overlaps == AboutOf(Following) \in {AboutOf(b) : b \in ToSet(joined) \union {head}}

Follow ==
  /\ spot = "look" /\ HasFollowing
  /\ world' = WorldAs(Following, "claimed")
  /\ UNCHANGED <<manner, head, exhausted, claimError, trial, read, exact, resets,
                 subject, overtaken>>

Behind == IF waiting # <<>> THEN Tail(waiting) ELSE <<>>

Join ==
  /\ Follow /\ ~Overlaps
  /\ joined' = Append(joined, Following)
  /\ prefetched' = [b \in DOMAIN prefetched \union {Following} |->
                      b = Following \/ prefetched[b]]
  /\ waiting' = Behind
  /\ UNCHANGED spot

\* Mutant: extendleft of the joined batches as they are.
LookedReversed(after) ==
  spot' = (IF joined = <<>> THEN "compare" ELSE "judge") /\ waiting' = Reverse(joined) \o after

Looked(after) ==
  spot' = (IF joined = <<>> THEN "compare" ELSE "judge") /\ waiting' = joined \o after

\* It overlaps, does not fit, or its context cannot be read: its turn will come.
PutBack ==
  /\ Follow /\ Looked(<<Following>> \o Behind)
  /\ UNCHANGED <<joined, prefetched>>

NothingFollows ==
  /\ spot = "look" /\ ~HasFollowing
  /\ Looked(<<>>) /\ exhausted' = TRUE
  /\ UNCHANGED <<manner, head, joined, prefetched, claimError, trial, read, exact, resets,
                 world, subject, overtaken>>

ClaimAheadRaises ==
  /\ spot = "look" /\ waiting = <<>> /\ ~exhausted
  /\ Looked(<<>>) /\ claimError' = TRUE
  /\ UNCHANGED <<manner, head, joined, prefetched, exhausted, trial, read, exact, resets,
                 world, subject, overtaken>>

\* compare_manuscript.  The answer on a group may be an error: it is recovered in
\* the group's turn.
JudgeTogether ==
  /\ spot = "judge"
  /\ joined' = <<>> /\ spot' = "compare"
  /\ UNCHANGED <<manner, head, waiting, prefetched, exhausted, claimError, trial, read,
                 exact, resets, world, subject, overtaken>>

\* A failure that no answer can be recovered from: the joined batches have no
\* decision.
JudgeRaises(kind) == spot = "judge" /\ Trouble(kind)

\* Decided, by itself or together, and recovered.
Decide ==
  /\ spot = "compare"
  /\ spot' = "save"
  /\ UNCHANGED <<manner, head, waiting, joined, prefetched, exhausted, claimError, trial,
                 read, exact, resets, world, subject, overtaken>>

DecideRaises(kind) == spot = "compare" /\ Trouble(kind)

-----------------------------------------------------------------------------
\* The save of a batch

\* The job goes on with the next batch, or ends with the exception that left this one.
Closes(on) ==
  IF on THEN /\ spot' = "claim"
             /\ head' = {} /\ trial' = 0 /\ read' = FALSE /\ exact' = FALSE
             /\ UNCHANGED <<manner, waiting, joined, exhausted, claimError, resets, subject,
                            overtaken>>
  ELSE Ends("raised")

\* Some decisions may have failed, which ends an ordered job.
SaveAccepted(bad) ==
  LET on == bad = {} \/ manner # "ordered"
  IN /\ spot = "save" /\ read
     /\ bad \subseteq head
     /\ world' = [c \in Settings |-> IF c \in bad THEN "failed"
                                     ELSE IF c \in head THEN "saved" ELSE world[c]]
     /\ Closes(on) /\ (on => prefetched' = Aged(AboutOf(head)))

\* Saved, and the answer lost: the failure that is reported then is refused.
SaveUnanswered ==
  /\ spot = "save" /\ read
  /\ world' = WorldAs(head, "saved")
  /\ Ends("raised")

ContextStale ==
  /\ spot = "save" /\ ~read
  /\ IF trial < MaxWorldAttempts THEN trial' = trial + 1 /\ spot' = "load"
     ELSE UNCHANGED trial /\ spot' = "fatal"
  /\ UNCHANGED <<manner, head, waiting, joined, prefetched, exhausted, claimError, read,
                 exact, resets, world, subject, overtaken>>

CompleteRaises(kind) == spot = "save" /\ Trouble(kind)

Resets == FoldFunction(+, 0, resets)

\* The resolution is stale: Spring takes the batch back.
ResetSubjects ==
  /\ spot = "subjects" /\ resets[head] < MaxWorldAttempts - 1 /\ Resets < MaxResets
  /\ resets' = [resets EXCEPT ![head] = @ + 1]
  /\ world' = WorldAs(head, "unresolved")
  /\ spot' = "resolve"
  /\ UNCHANGED <<manner, head, waiting, joined, prefetched, exhausted, claimError, trial,
                 read, exact, subject, overtaken>>

\* What the batch leaves behind, and what waits and comes before it.
Overtaken ==
  overtaken \union (head \ NextBatch) \union {c \in WorldIn({"claimed"}) : c < Min(NextBatch)}

\* Mutant: the batch that was reset is claimed after those that wait.
ReclaimLast ==
  /\ spot = "reclaim"
  /\ prefetched' = NoContexts /\ claimError' = FALSE
  /\ exhausted' = (WorldIn({"open"}) = {})
  /\ IF exhausted' THEN UNCHANGED <<world, waiting, overtaken>>
     ELSE /\ world' = WorldAs(NextBatch, "claimed")
          /\ waiting' = Append(waiting, NextBatch)
          /\ overtaken' = Overtaken
  /\ spot' = "claim"
  /\ UNCHANGED <<manner, head, joined, trial, read, exact, resets, subject>>

\* after_subject_resolution_reset: one batch is claimed again, before those that
\* wait; their decisions are dropped.
Reclaim ==
  /\ spot = "reclaim"
  /\ prefetched' = NoContexts /\ claimError' = FALSE
  /\ exhausted' = (WorldIn({"open"}) = {})
  /\ IF exhausted' THEN UNCHANGED <<world, waiting, overtaken>>
     ELSE /\ world' = WorldAs(NextBatch, "claimed")
          /\ waiting' = <<NextBatch>> \o waiting
          /\ overtaken' = Overtaken
  /\ spot' = "claim"
  /\ UNCHANGED <<manner, head, joined, trial, read, exact, resets, subject>>

\* The batch is reported as failed; only a provider's or an answer's failure lets
\* an unordered or a deferring job go on.
BatchFails ==
  /\ \/ spot \in {"candidate", "fatal"}
     \/ spot = "subjects" /\ resets[head] >= MaxWorldAttempts - 1
  /\ world' = WorldAs(head, "failed")
  /\ LET on == spot = "candidate" /\ manner # "ordered"
     IN Closes(on) /\ (on => prefetched' = prefetched)

\* The report of the failure, or the reset, is not answered.
ReportRaises ==
  /\ spot \in {"candidate", "fatal", "subjects"}
  /\ JobStops

-----------------------------------------------------------------------------
Kinds == {"candidate", "fatal", "subjects"}

WindowStep ==
  \/ \E m \in {"independent", "ordered", "deferring"} : Begin(m)
  \/ \E about \in [Settings -> Subjects], lost \in SUBSET Settings : Resolve(about, lost)
  \/ CallRaises \/ TakeWaiting \/ RaiseClaimError \/ ClaimHead \/ JobReturns
  \/ Load \/ Join \/ PutBack \/ NothingFollows \/ ClaimAheadRaises
  \/ JudgeTogether \/ Decide
  \/ \E kind \in Kinds : LoadRaises(kind) \/ DecideRaises(kind) \/ CompleteRaises(kind)
  \/ \E kind \in {"candidate", "fatal"} : JudgeRaises(kind)
  \/ \E bad \in SUBSET head : SaveAccepted(bad)
  \/ SaveUnanswered \/ ContextStale \/ ResetSubjects \/ Reclaim \/ BatchFails \/ ReportRaises

WindowNext == WindowStep \/ \E s \in Subjects : SubjectEdited(s)

WindowSpec == WindowInit /\ [][WindowNext]_window

-----------------------------------------------------------------------------
\* Properties

Closing == {c \in Settings : world[c] # world'[c] /\ world'[c] \in {"saved", "failed"}}

\* However far the window looks ahead, batches are closed as the sequential loop
\* closes them: none while an earlier setting is open, unless a batch that was claimed
\* again for a change of its subject has gone ahead of that setting.  Decisions are
\* saved on exactly the context they were made on, and a job returns with nothing
\* left open.
ClosedInTurn ==
  [][/\ Closing # {} /\ spot \notin {"prepare", "resolve"} =>
          \A c \in Settings : c < Min(Closing) =>
            world[c] \in {"saved", "failed"} \/ c \in overtaken
     /\ (\E c \in Closing : world'[c] = "saved") => exact
     /\ spot' = "returned" => WorldIn({"saved", "failed"}) = Settings]_window
=============================================================================
