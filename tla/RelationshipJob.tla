--------------------------- MODULE RelationshipJob ---------------------------
(***************************************************************************)
(* A job that reads the relationships of one episode                       *)
(* (app/worker/relationship_worker.py and                                  *)
(* app/analysis/relationship_pipeline.py).  Its analysis is kept in the    *)
(* backend: absent, PREPARED with the frozen observations of the           *)
(* manuscript, then COMPLETED (or APPLIED), PARTIAL or FAILED.  A worker   *)
(* that takes the job over starts from what is there.                      *)
(***************************************************************************)
EXTENDS Naturals

CONSTANTS Workers,   \* the workers that may claim the job
          MaxClaims  \* bound: claims of the job

VARIABLES
  at,          \* [Workers -> where process_claimed is]
  lease,       \* [Workers -> the claim it works for]
  context,     \* [Workers -> pipeline.context: the analysis as it was last read]
  holder,      \* backend: the claim that holds the lease, 0 for none
  claims,      \* backend: the claims so far
  analysis,    \* backend: [st, from]: its state and the claim that froze it
  decidedFrom, \* backend: the observations the saved decisions are on
  job,         \* backend: the job
  repeated     \* observations that are frozen were paid for again by the holder

relationship == <<at, lease, context, holder, claims, analysis, decidedFrom, job, repeated>>

NoAnalysis == [st |-> "absent", from |-> 0]
Terminal == {"COMPLETED", "PARTIAL", "FAILED"}

RelationshipInit ==
  /\ at = [w \in Workers |-> "idle"]
  /\ lease = [w \in Workers |-> 0]
  /\ context = [w \in Workers |-> NoAnalysis]
  /\ holder = 0 /\ claims = 0
  /\ analysis = NoAnalysis /\ decidedFrom = 0
  /\ job = "queued" /\ repeated = FALSE

-----------------------------------------------------------------------------
\* The backend.  It refuses every call under a lease that is not the holder's;
\* an answer may be lost, whether the call was applied or not.

Owns(w) == lease[w] = holder /\ job = "running"

Claim(w) ==
  /\ at[w] = "idle" /\ claims < MaxClaims
  /\ job = "queued" \/ (job = "running" /\ holder = 0)
  /\ claims' = claims + 1 /\ holder' = claims'
  /\ lease' = [lease EXCEPT ![w] = claims']
  /\ context' = [context EXCEPT ![w] = NoAnalysis]
  /\ at' = [at EXCEPT ![w] = "renew"]
  /\ job' = "running"
  /\ UNCHANGED <<analysis, decidedFrom, repeated>>

LeaseExpires ==
  /\ job = "running" /\ holder # 0
  /\ holder' = 0
  /\ UNCHANGED <<at, lease, context, claims, analysis, decidedFrom, job, repeated>>

Crash(w) ==
  /\ at[w] # "idle"
  /\ at' = [at EXCEPT ![w] = "idle"]
  /\ UNCHANGED <<lease, context, holder, claims, analysis, decidedFrom, job, repeated>>

GoesTo(w, place) == at' = [at EXCEPT ![w] = place]

\* Whatever else raises (a call that is refused or lost, the source, the provider,
\* a heartbeat that lost the lease) ends in the report of the failure.
Raises(w) ==
  /\ at[w] \notin {"idle", "failing"}
  /\ GoesTo(w, "failing")
  /\ UNCHANGED <<lease, context, holder, claims, analysis, decidedFrom, job, repeated>>

-----------------------------------------------------------------------------
\* RelationshipWorker.process_claimed

\* The lease is confirmed before anything is read or paid.
Renewed(w) ==
  /\ at[w] = "renew" /\ Owns(w)
  /\ GoesTo(w, "load")
  /\ UNCHANGED <<lease, context, holder, claims, analysis, decidedFrom, job, repeated>>

\* Mutant: the manuscript is read whatever is prepared.
LoadedAnew(w) ==
  /\ at[w] = "load" /\ Owns(w)
  /\ GoesTo(w, "read")
  /\ UNCHANGED <<lease, context, holder, claims, analysis, decidedFrom, job, repeated>>

\* A saved analysis is the checkpoint to resume from: a finished one is only
\* reported, a prepared one compared.
Loaded(w) ==
  /\ at[w] = "load" /\ Owns(w)
  /\ context' = [context EXCEPT ![w] = analysis]
  /\ GoesTo(w, CASE analysis.st = "absent" -> "read"
                 [] analysis.st = "PREPARED" -> "compare"
                 [] OTHER -> "summary")
  /\ UNCHANGED <<lease, holder, claims, analysis, decidedFrom, job, repeated>>

\* The manuscript is read and chunked; it may be too large.
SourceRead(w) ==
  /\ at[w] = "read"
  /\ \E place \in {"extract", "reject"} : GoesTo(w, place)
  /\ UNCHANGED <<lease, context, holder, claims, analysis, decidedFrom, job, repeated>>

\* The chunks are extracted, one paid call each.  A chunk that fails, or too many
\* observations, fail the analysis.
Extracted(w) ==
  /\ at[w] = "extract"
  /\ repeated' = (repeated \/ (Owns(w) /\ analysis.st # "absent"))
  /\ \E place \in {"prepare", "reject"} : GoesTo(w, place)
  /\ UNCHANGED <<lease, context, holder, claims, analysis, decidedFrom, job>>

\* prepare_relationship_analysis freezes the observations of the first to send
\* them; the answer is what is frozen.
Prepared(w, answered) ==
  /\ at[w] = "prepare" /\ Owns(w)
  /\ analysis' = IF analysis.st = "absent" THEN [st |-> "PREPARED", from |-> lease[w]] ELSE analysis
  /\ IF answered
     THEN /\ context' = [context EXCEPT ![w] = analysis']
          /\ GoesTo(w, IF analysis'.st = "PREPARED" THEN "compare" ELSE "summary")
     ELSE GoesTo(w, "failing") /\ UNCHANGED context
  /\ UNCHANGED <<lease, holder, claims, decidedFrom, job, repeated>>

\* The comparison decides the observations of its context, or fails with them.
ComparedAll(w) ==
  /\ at[w] = "compare"
  /\ \E place \in {"save", "savePart", "reject"} : GoesTo(w, place)
  /\ UNCHANGED <<lease, context, holder, claims, analysis, decidedFrom, job, repeated>>

\* complete_relationship_analysis
SavedAnalysis(w, answered) ==
  /\ at[w] \in {"save", "savePart"} /\ Owns(w)
  /\ analysis' = [analysis EXCEPT !.st = IF at[w] = "save" THEN "COMPLETED" ELSE "PARTIAL"]
  /\ decidedFrom' = context[w].from
  /\ GoesTo(w, IF answered THEN "complete" ELSE "failing")
  /\ UNCHANGED <<lease, context, holder, claims, job, repeated>>

\* _fail: the analysis is reported as failed, and then the job.
Rejected(w) ==
  /\ at[w] = "reject" /\ Owns(w)
  /\ analysis' = [analysis EXCEPT !.st = "FAILED"]
  /\ GoesTo(w, "failing")
  /\ UNCHANGED <<lease, context, holder, claims, decidedFrom, job, repeated>>

\* Mutant: a finished analysis completes the job, failed or not.
SummaryOfAny(w) ==
  /\ at[w] = "summary"
  /\ GoesTo(w, "complete")
  /\ UNCHANGED <<lease, context, holder, claims, analysis, decidedFrom, job, repeated>>

\* _terminal_summary of an analysis that an earlier worker finished.
Summary(w) ==
  /\ at[w] = "summary"
  /\ GoesTo(w, IF context[w].st = "FAILED" THEN "failing" ELSE "complete")
  /\ UNCHANGED <<lease, context, holder, claims, analysis, decidedFrom, job, repeated>>

\* complete_relationship_job, after a last look at the heartbeat.
CompletesJob(w, answered) ==
  /\ at[w] = "complete" /\ Owns(w)
  /\ job' = "completed"
  /\ GoesTo(w, IF answered THEN "idle" ELSE "failing")
  /\ UNCHANGED <<lease, context, holder, claims, analysis, decidedFrom, repeated>>

\* fail_relationship_job, applied or not.
FailsJob(w) ==
  /\ at[w] = "failing"
  /\ job' \in IF Owns(w) THEN {"failed", job} ELSE {job}
  /\ GoesTo(w, "idle")
  /\ UNCHANGED <<lease, context, holder, claims, analysis, decidedFrom, repeated>>

RelationshipNext ==
  \/ LeaseExpires
  \/ \E w \in Workers :
       \/ Claim(w) \/ Crash(w) \/ Raises(w)
       \/ Renewed(w) \/ Loaded(w) \/ SourceRead(w) \/ Extracted(w) \/ ComparedAll(w)
       \/ Rejected(w) \/ Summary(w) \/ FailsJob(w)
       \/ \E answered \in BOOLEAN :
            Prepared(w, answered) \/ SavedAnalysis(w, answered) \/ CompletesJob(w, answered)

RelationshipSpec == RelationshipInit /\ [][RelationshipNext]_relationship

-----------------------------------------------------------------------------
\* Properties

\* Whoever takes the job over resumes from what is frozen: no holder of the lease
\* pays again for observations that are frozen, and a completed job has an analysis
\* that did not fail, with decisions on the observations that were frozen, whichever
\* worker froze, compared and reported.
ResumesFrozen ==
  /\ ~repeated
  /\ job = "completed" => /\ analysis.st \in {"COMPLETED", "PARTIAL"}
                          /\ decidedFrom = analysis.from
=============================================================================
