-------------------------- MODULE Comparison_proofs --------------------------
(***************************************************************************)
(* What holds of the comparisons of an analysis, for any number of workers, *)
(* claims, batches and candidates: the job that reads the relationships of  *)
(* an episode (RelationshipJob), the comparison of the character facts      *)
(* (CharacterComparison), and the window of a job's world settings          *)
(* (WorldWindow) with the recovery of a rejected answer (WorldRecovery).    *)
(***************************************************************************)
EXTENDS RelationshipJob, CharacterComparison, WorldRecovery, WorldWindow, FiniteSetTheorems, TLAPS

-----------------------------------------------------------------------------
\* The relationship job

Places == {"idle", "renew", "load", "read", "extract", "prepare", "compare", "save", "savePart",
           "reject", "summary", "complete", "failing"}
Analyses == [st : {"absent", "PREPARED"} \union Terminal, from : Nat]

RelationshipTypeOK ==
  /\ at \in [Workers -> Places]
  /\ lease \in [Workers -> Nat] /\ holder \in Nat /\ claims \in Nat
  /\ context \in [Workers -> Analyses] /\ analysis \in Analyses /\ decidedFrom \in Nat
  /\ job \in {"queued", "running", "completed", "failed"} /\ repeated \in BOOLEAN

\* A claim is of one worker.
LeaseInv ==
  /\ holder <= claims /\ \A w \in Workers : lease[w] <= claims
  /\ \A w \in Workers : at[w] # "idle" => lease[w] # 0
  /\ \A w, v \in Workers : w # v /\ lease[w] # 0 => lease[w] # lease[v]

\* What a worker may rely on while it holds the lease: nothing is frozen when it reads
\* and extracts, and the analysis is as it has read it from there on.
HolderKnows(w) ==
  /\ at[w] \in {"read", "extract"} => analysis.st = "absent"
  /\ at[w] \in {"compare", "save", "savePart"} => context[w] = analysis
  /\ at[w] = "summary" => context[w] = analysis /\ analysis.st \in Terminal
  /\ at[w] = "complete" => analysis.st \in {"COMPLETED", "PARTIAL"}

RelationshipIInv ==
  /\ RelationshipTypeOK /\ LeaseInv /\ ResumesFrozen
  /\ analysis.st \in {"COMPLETED", "PARTIAL"} => decidedFrom = analysis.from
  /\ \A w \in Workers : at[w] # "idle" /\ Owns(w) => HolderKnows(w)

\* A worker goes on without touching the analysis.
LEMMA WorkerMoves ==
  ASSUME RelationshipIInv, NEW w \in Workers, NEW place \in Places, GoesTo(w, place),
         at[w] # "idle",
         UNCHANGED <<lease, holder, claims, analysis, decidedFrom>>,
         context' \in [Workers -> Analyses],
         \A v \in Workers \ {w} : context'[v] = context[v],
         job' = job \/ (Owns(w) /\ job' = "failed")
           \/ (Owns(w) /\ at[w] = "complete" /\ job' = "completed"),
         repeated' = FALSE,
         place # "idle" /\ Owns(w) /\ job' = job => HolderKnows(w)'
  PROVE  RelationshipIInv'
<1>1. /\ at' \in [Workers -> Places] /\ at'[w] = place
      /\ \A v \in Workers \ {w} : at'[v] = at[v]
  BY DEF RelationshipIInv, RelationshipTypeOK, GoesTo
<1>2. RelationshipTypeOK'
  BY <1>1 DEF RelationshipIInv, RelationshipTypeOK
<1>3. LeaseInv'
  BY <1>1 DEF RelationshipIInv, LeaseInv
<1>4. job' = "completed" => analysis.st \in {"COMPLETED", "PARTIAL"} /\ decidedFrom = analysis.from
  BY DEF RelationshipIInv, ResumesFrozen, HolderKnows
<1>5. \A v \in Workers : at'[v] # "idle" /\ Owns(v)' => HolderKnows(v)'
  <2> SUFFICES ASSUME NEW v \in Workers, at'[v] # "idle", Owns(v)' PROVE HolderKnows(v)'
    OBVIOUS
  <2>1. job' = job /\ Owns(v)
    BY DEF Owns, RelationshipIInv, RelationshipTypeOK
  <2>2. CASE v = w
    BY <1>1, <2>1, <2>2
  <2>3. CASE v # w
    BY <1>1, <2>1, <2>3 DEF RelationshipIInv, HolderKnows
  <2> QED BY <2>2, <2>3
<1> QED BY <1>2, <1>3, <1>4, <1>5 DEF RelationshipIInv, ResumesFrozen

\* Only the holder of the lease changes the analysis.
LEMMA HolderWrites ==
  ASSUME RelationshipIInv, NEW w \in Workers, NEW place \in Places, GoesTo(w, place), Owns(w),
         at[w] # "idle",
         UNCHANGED <<lease, holder, claims, job, repeated>>,
         context' \in [Workers -> Analyses], analysis' \in Analyses, decidedFrom' \in Nat,
         analysis'.st \in {"COMPLETED", "PARTIAL"} => decidedFrom' = analysis'.from,
         HolderKnows(w)'
  PROVE  RelationshipIInv'
<1>1. /\ at' \in [Workers -> Places] /\ at'[w] = place
      /\ \A v \in Workers \ {w} : at'[v] = at[v]
  BY DEF RelationshipIInv, RelationshipTypeOK, GoesTo
<1>2. RelationshipTypeOK'
  BY <1>1 DEF RelationshipIInv, RelationshipTypeOK
<1>3. LeaseInv'
  BY <1>1 DEF RelationshipIInv, LeaseInv
<1>4. ResumesFrozen'
  BY DEF RelationshipIInv, ResumesFrozen, Owns
<1>5. \A v \in Workers : at'[v] # "idle" /\ Owns(v)' => HolderKnows(v)'
  <2> SUFFICES ASSUME NEW v \in Workers, v # w, at[v] # "idle", Owns(v) PROVE FALSE
    BY <1>1 DEF Owns
  <2> QED BY DEF Owns, RelationshipIInv, LeaseInv
<1> QED BY <1>2, <1>3, <1>4, <1>5 DEF RelationshipIInv

\* Whoever takes the job over, whenever workers crash, leases expire and answers are
\* lost: the observations that are frozen are not paid for again, and a completed job has
\* decisions on exactly these.
THEOREM TakeoverHolds == RelationshipSpec => []ResumesFrozen
<1>1. RelationshipInit => RelationshipIInv
  <2> SUFFICES ASSUME RelationshipInit PROVE RelationshipIInv
    OBVIOUS
  <2>1. /\ at = [w \in Workers |-> "idle"] /\ lease = [w \in Workers |-> 0]
        /\ context = [w \in Workers |-> NoAnalysis] /\ holder = 0 /\ claims = 0
        /\ analysis = NoAnalysis /\ decidedFrom = 0 /\ job = "queued" /\ repeated = FALSE
    BY DEF RelationshipInit
  <2>2. NoAnalysis \in Analyses /\ NoAnalysis.st = "absent"
    BY DEF NoAnalysis, Analyses
  <2>3. RelationshipTypeOK
    BY <2>1, <2>2 DEF RelationshipTypeOK, Places
  <2>4. LeaseInv
    BY <2>1 DEF LeaseInv
  <2>5. ResumesFrozen
    BY <2>1 DEF ResumesFrozen
  <2>6. \A w \in Workers : at[w] = "idle"
    BY <2>1
  <2>7. analysis.st \notin {"COMPLETED", "PARTIAL"}
    BY <2>1, <2>2
  <2> QED BY <2>3, <2>4, <2>5, <2>6, <2>7 DEF RelationshipIInv
<1>2. RelationshipIInv /\ [RelationshipNext]_relationship => RelationshipIInv'
  <2> SUFFICES ASSUME RelationshipIInv, [RelationshipNext]_relationship PROVE RelationshipIInv'
    OBVIOUS
  <2>1. /\ RelationshipTypeOK /\ LeaseInv /\ ResumesFrozen
        /\ context \in [Workers -> Analyses] /\ analysis \in Analyses /\ decidedFrom \in Nat
        /\ at \in [Workers -> Places] /\ lease \in [Workers -> Nat]
        /\ repeated = FALSE
    BY DEF RelationshipIInv, RelationshipTypeOK, ResumesFrozen
  <2>2. CASE UNCHANGED relationship
    BY <2>2 DEF relationship, RelationshipIInv, RelationshipTypeOK, LeaseInv, ResumesFrozen, Owns, HolderKnows
  <2>3. CASE LeaseExpires
    <3>1. holder' = 0 /\ UNCHANGED <<at, lease, context, claims, analysis, decidedFrom, job, repeated>>
      BY <2>3 DEF LeaseExpires
    <3>2. RelationshipTypeOK' /\ LeaseInv' /\ ResumesFrozen'
      BY <2>1, <3>1 DEF RelationshipTypeOK, LeaseInv, ResumesFrozen
    <3>3. \A w \in Workers : at'[w] # "idle" => ~Owns(w)'
      BY <2>1, <3>1 DEF LeaseInv, Owns
    <3> QED BY <3>1, <3>2, <3>3 DEF RelationshipIInv
  <2>4. ASSUME NEW w \in Workers, Claim(w) PROVE RelationshipIInv'
    <3>1. /\ at[w] = "idle" /\ job # "completed" /\ claims' = claims + 1 /\ holder' = claims + 1
          /\ lease' = [lease EXCEPT ![w] = claims + 1]
          /\ context' = [context EXCEPT ![w] = NoAnalysis] /\ at' = [at EXCEPT ![w] = "renew"]
          /\ job' = "running" /\ UNCHANGED <<analysis, decidedFrom, repeated>>
      BY <2>4 DEF Claim
    <3>2. NoAnalysis \in Analyses
      BY DEF NoAnalysis, Analyses
    <3>3. RelationshipTypeOK'
      BY <2>1, <3>1, <3>2 DEF RelationshipTypeOK, Places
    <3>4. LeaseInv'
      BY <2>1, <3>1 DEF LeaseInv, RelationshipTypeOK
    <3>5. \A v \in Workers : at'[v] # "idle" /\ Owns(v)' => HolderKnows(v)'
      <4>1. \A v \in Workers \ {w} : ~Owns(v)'
        BY <2>1, <3>1 DEF Owns, LeaseInv, RelationshipTypeOK
      <4>2. at'[w] = "renew"
        BY <2>1, <3>1
      <4> QED BY <4>1, <4>2 DEF HolderKnows
    <3> QED BY <2>1, <3>1, <3>3, <3>4, <3>5 DEF RelationshipIInv, ResumesFrozen
  <2>5. ASSUME NEW w \in Workers, Crash(w) PROVE RelationshipIInv'
    BY <2>1, <2>5, WorkerMoves DEF Crash, GoesTo, Places
  <2>6. ASSUME NEW w \in Workers, Raises(w) PROVE RelationshipIInv'
    <3>1. GoesTo(w, "failing") /\ at[w] # "idle" /\ "failing" \in Places
          /\ UNCHANGED <<lease, context, holder, claims, analysis, decidedFrom, job, repeated>>
      BY <2>6 DEF Raises, Places
    <3>2. HolderKnows(w)'
      BY <2>1, <3>1 DEF HolderKnows, GoesTo
    <3> QED BY <2>1, <3>1, <3>2, WorkerMoves
  <2>7. ASSUME NEW w \in Workers, Renewed(w) PROVE RelationshipIInv'
    <3>1. GoesTo(w, "load") /\ at[w] # "idle" /\ "load" \in Places
          /\ UNCHANGED <<lease, context, holder, claims, analysis, decidedFrom, job, repeated>>
      BY <2>7 DEF Renewed, Places
    <3>2. HolderKnows(w)'
      BY <2>1, <3>1 DEF HolderKnows, GoesTo
    <3> QED BY <2>1, <3>1, <3>2, WorkerMoves
  <2>8. ASSUME NEW w \in Workers, Loaded(w) PROVE RelationshipIInv'
    <3> DEFINE place == IF analysis.st = "absent" THEN "read"
                        ELSE IF analysis.st = "PREPARED" THEN "compare" ELSE "summary"
    <3>1. /\ at[w] # "idle" /\ GoesTo(w, place) /\ context' = [context EXCEPT ![w] = analysis]
          /\ UNCHANGED <<lease, holder, claims, analysis, decidedFrom, job, repeated>>
      BY <2>8 DEF Loaded
    <3>2. place \in Places
      BY DEF Places
    <3>3. HolderKnows(w)'
      BY <2>1, <3>1 DEF HolderKnows, GoesTo, Analyses
    <3> HIDE DEF place
    <3> QED BY <2>1, <3>1, <3>2, <3>3, WorkerMoves
  <2>9. ASSUME NEW w \in Workers, SourceRead(w) PROVE RelationshipIInv'
    <3>1. PICK place \in {"extract", "reject"} : GoesTo(w, place)
      BY <2>9 DEF SourceRead
    <3>2. at[w] = "read" /\ place \in Places
          /\ UNCHANGED <<lease, context, holder, claims, analysis, decidedFrom, job, repeated>>
      BY <2>9 DEF SourceRead, Places
    <3>3. Owns(w) => HolderKnows(w)'
      BY <2>1, <3>1, <3>2 DEF RelationshipIInv, HolderKnows, GoesTo
    <3> QED BY <2>1, <3>1, <3>2, <3>3, WorkerMoves
  <2>10. ASSUME NEW w \in Workers, Extracted(w) PROVE RelationshipIInv'
    <3>1. PICK place \in {"prepare", "reject"} : GoesTo(w, place)
      BY <2>10 DEF Extracted
    <3>2. at[w] = "extract" /\ place \in Places
          /\ UNCHANGED <<lease, context, holder, claims, analysis, decidedFrom, job>>
      BY <2>10 DEF Extracted, Places
    <3>3. HolderKnows(w)'
      BY <2>1, <3>1, <3>2 DEF HolderKnows, GoesTo
    <3>4. repeated' = FALSE
      BY <2>1, <2>10, <3>2 DEF Extracted, RelationshipIInv, HolderKnows
    <3> QED BY <2>1, <3>1, <3>2, <3>3, <3>4, WorkerMoves
  <2>11. ASSUME NEW w \in Workers, ComparedAll(w) PROVE RelationshipIInv'
    <3>1. PICK place \in {"save", "savePart", "reject"} : GoesTo(w, place)
      BY <2>11 DEF ComparedAll
    <3>2. at[w] = "compare" /\ place \in Places
          /\ UNCHANGED <<lease, context, holder, claims, analysis, decidedFrom, job, repeated>>
      BY <2>11 DEF ComparedAll, Places
    <3>3. Owns(w) => HolderKnows(w)'
      BY <2>1, <3>1, <3>2 DEF RelationshipIInv, HolderKnows, GoesTo
    <3> QED BY <2>1, <3>1, <3>2, <3>3, WorkerMoves
  <2>12. ASSUME NEW w \in Workers, Summary(w) PROVE RelationshipIInv'
    <3> DEFINE place == IF context[w].st = "FAILED" THEN "failing" ELSE "complete"
    <3>1. at[w] = "summary" /\ place \in Places /\ GoesTo(w, place)
          /\ UNCHANGED <<lease, context, holder, claims, analysis, decidedFrom, job, repeated>>
      BY <2>12 DEF Summary, Places
    <3>2. Owns(w) => HolderKnows(w)'
      BY <2>1, <3>1 DEF RelationshipIInv, HolderKnows, GoesTo, Terminal
    <3> HIDE DEF place
    <3> QED BY <2>1, <3>1, <3>2, WorkerMoves
  <2>13. ASSUME NEW w \in Workers, FailsJob(w) PROVE RelationshipIInv'
    BY <2>1, <2>13, WorkerMoves DEF FailsJob, Places
  <2>14. ASSUME NEW w \in Workers, NEW answered \in BOOLEAN, CompletesJob(w, answered)
         PROVE  RelationshipIInv'
    <3> DEFINE place == IF answered THEN "idle" ELSE "failing"
    <3>1. /\ at[w] = "complete" /\ place \in Places /\ GoesTo(w, place) /\ Owns(w)
          /\ job' = "completed" /\ job = "running"
          /\ UNCHANGED <<lease, context, holder, claims, analysis, decidedFrom, repeated>>
      BY <2>14 DEF CompletesJob, Places, Owns
    <3> HIDE DEF place
    <3> QED BY <2>1, <3>1, WorkerMoves
  <2>15. ASSUME NEW w \in Workers, Rejected(w) PROVE RelationshipIInv'
    <3>1. /\ at[w] = "reject" /\ GoesTo(w, "failing") /\ Owns(w) /\ "failing" \in Places
          /\ analysis' = [analysis EXCEPT !.st = "FAILED"]
          /\ UNCHANGED <<lease, context, holder, claims, decidedFrom, job, repeated>>
      BY <2>15 DEF Rejected, Places
    <3>2. analysis' \in Analyses /\ analysis'.st = "FAILED"
      BY <2>1, <3>1 DEF Analyses, Terminal
    <3>3. HolderKnows(w)'
      BY <2>1, <3>1 DEF HolderKnows, GoesTo
    <3> QED BY <2>1, <3>1, <3>2, <3>3, HolderWrites
  <2>16. ASSUME NEW w \in Workers, NEW answered \in BOOLEAN, SavedAnalysis(w, answered)
         PROVE  RelationshipIInv'
    <3> DEFINE place == IF answered THEN "complete" ELSE "failing"
    <3>1. /\ at[w] \in {"save", "savePart"} /\ GoesTo(w, place) /\ Owns(w) /\ place \in Places
          /\ analysis' = [analysis EXCEPT !.st = IF at[w] = "save" THEN "COMPLETED" ELSE "PARTIAL"]
          /\ decidedFrom' = context[w].from
          /\ UNCHANGED <<lease, context, holder, claims, job, repeated>>
      BY <2>16 DEF SavedAnalysis, Places
    <3>2. analysis' \in Analyses /\ analysis'.from = analysis.from
          /\ analysis'.st \in {"COMPLETED", "PARTIAL"}
      BY <2>1, <3>1 DEF Analyses, Terminal
    <3>3. context[w] = analysis
      BY <3>1 DEF RelationshipIInv, HolderKnows
    <3>4. HolderKnows(w)'
      BY <2>1, <3>1, <3>2 DEF HolderKnows, GoesTo
    <3>5. decidedFrom' \in Nat /\ decidedFrom' = analysis'.from
      BY <2>1, <3>1, <3>2, <3>3 DEF Analyses
    <3> HIDE DEF place
    <3> QED BY <2>1, <3>1, <3>2, <3>4, <3>5, HolderWrites
  <2>17. ASSUME NEW w \in Workers, NEW answered \in BOOLEAN, Prepared(w, answered)
         PROVE  RelationshipIInv'
    <3>1. /\ at[w] = "prepare" /\ Owns(w)
          /\ analysis' = IF analysis.st = "absent" THEN [st |-> "PREPARED", from |-> lease[w]] ELSE analysis
          /\ UNCHANGED <<lease, holder, claims, decidedFrom, job, repeated>>
      BY <2>17 DEF Prepared
    <3>2. analysis' \in Analyses /\ analysis'.st # "absent"
          /\ (analysis' = analysis \/ analysis'.st = "PREPARED")
      BY <2>1, <3>1 DEF Analyses
    <3>3. analysis'.st \in {"COMPLETED", "PARTIAL"} => decidedFrom = analysis'.from
      BY <3>2 DEF RelationshipIInv
    <3>4. CASE answered
      <4> DEFINE place == IF analysis'.st = "PREPARED" THEN "compare" ELSE "summary"
      <4>1. GoesTo(w, place) /\ context' = [context EXCEPT ![w] = analysis']
        BY <2>17, <3>4 DEF Prepared
      <4>2. place \in Places
        BY DEF Places
      <4>3. HolderKnows(w)'
        BY <2>1, <3>2, <4>1 DEF HolderKnows, GoesTo, Analyses
      <4>4. context' \in [Workers -> Analyses]
        BY <2>1, <3>2, <4>1
      <4> HIDE DEF place
      <4> QED BY <2>1, <3>1, <3>2, <3>3, <4>1, <4>2, <4>3, <4>4, HolderWrites
    <3>5. CASE ~answered
      <4>1. GoesTo(w, "failing") /\ context' = context /\ "failing" \in Places
        BY <2>17, <3>5 DEF Prepared, Places
      <4>2. HolderKnows(w)'
        BY <2>1, <4>1 DEF HolderKnows, GoesTo
      <4> QED BY <2>1, <3>1, <3>2, <3>3, <4>1, <4>2, HolderWrites
    <3> QED BY <3>4, <3>5
  <2> QED BY <2>2, <2>3, <2>4, <2>5, <2>6, <2>7, <2>8, <2>9, <2>10, <2>11, <2>12, <2>13, <2>14,
             <2>15, <2>16, <2>17 DEF RelationshipNext
<1>3. RelationshipIInv => ResumesFrozen
  BY DEF RelationshipIInv
<1> QED BY <1>1, <1>2, <1>3, PTL DEF RelationshipSpec

-----------------------------------------------------------------------------
\* The comparison of character facts

Decision == [ref : Nat, seen : SUBSET Nat]
CompareSteps == {"idle", "claim", "context", "segment", "singles", "save", "failBatch", "report",
                 "failing", "done"}
Runs == [cursor : Nat, ends : SUBSET Nat, len : Nat, kept : UNION {[1..n -> BOOLEAN] : n \in Nat},
         at : Nat, decided : Seq(Decision), failed : Seq(Nat), current : BOOLEAN]
Outcomes == [st : {"pending", "saved", "failed"}, current : BOOLEAN, decided : Seq(Decision),
             failed : Seq(Nat)]

CompareShape ==
  /\ step \in CompareSteps /\ handling \in Handlings
  /\ batch \in 0..Len(Batches) /\ token \in BOOLEAN /\ run \in Runs
  /\ failure \in Failures \union {"none"}
  /\ totals \in [done : Nat, failed : Nat]
  /\ saved \in [DOMAIN Batches -> Outcomes]
  /\ outcome \in {"running", "completed", "failed", "returned"}

SlotOf(b, c) == IF Batches[b][c].status THEN <<>> ELSE <<Batches[b][c].key>>
RefsIn(d) == {d[i].ref : i \in 1..Len(d)}

Ascending(d) == \A i, j \in 1..Len(d) : i < j => d[i].ref < d[j].ref

\* The first n candidates are decided or failed, each once.
HandledBy(d, f, n) ==
  /\ Len(d) + Len(f) = n /\ Ascending(d)
  /\ \A i \in 1..Len(d) : d[i].ref \in 1..n
  /\ \A i \in 1..Len(f) : f[i] \in 1..n
  /\ \A r \in 1..n : r \in RefsIn(d) \/ \E i \in 1..Len(f) : f[i] = r

\* Each decision was made on those before it in its slot.
BuiltBy(b, d) ==
  \A k \in 1..Len(d) :
    d[k].seen = {d[j].ref : j \in {i \in 1..k - 1 : SlotOf(b, d[i].ref) = SlotOf(b, d[k].ref)}}

\* A decision is kept only with all decisions on its slot before it in the answer.
KeptTogether ==
  \A i \in 1..run.len : \A j \in 1..i - 1 :
    run.kept[i] /\ SlotOf(batch, run.cursor + j) = SlotOf(batch, run.cursor + i) => run.kept[j]

SegmentProgress == run.cursor <= Size /\ HandledBy(run.decided, run.failed, run.cursor)

SinglesProgress ==
  /\ run.cursor + run.len <= Size /\ run.at \in 1..run.len + 1
  /\ run.kept \in [1..run.len -> BOOLEAN] /\ KeptTogether
  /\ HandledBy(run.decided, run.failed, run.cursor + run.at - 1)
  /\ \A i \in 1..run.at - 1 : run.kept[i] => run.cursor + i \in RefsIn(run.decided)

RunProgress ==
  /\ step = "segment" => SegmentProgress
  /\ step = "singles" => SinglesProgress
  /\ step = "save" => HandledBy(run.decided, run.failed, Size)
  /\ step \in {"idle", "claim"} => run.decided = <<>>
  /\ step \in {"segment", "singles", "save"} => (token => run.current)

BatchProgress ==
  /\ step \in {"context", "segment", "singles", "save", "failBatch"} => batch \in DOMAIN Batches
  /\ step \in {"context", "segment", "singles", "save"} => saved[batch].st = "pending"
  /\ step = "report" => Pending = {}

SavedFits(b) ==
  saved[b].st = "saved" =>
    /\ saved[b].current /\ Ascending(saved[b].decided)
    /\ Len(saved[b].decided) + Len(saved[b].failed) = Len(Batches[b])

\* A candidate of a batch failed, as far as the backend knows.
FailedIn(b) == saved[b].st = "failed" \/ (saved[b].st = "saved" /\ saved[b].failed # <<>>)

\* What failed is counted while the job goes on.
Counted ==
  /\ outcome # "running" => step \in {"failing", "done"}
  /\ step \notin {"failing", "done"} =>
       \A b \in DOMAIN Batches : FailedIn(b) /\ ~(step = "failBatch" /\ b = batch) => totals.failed > 0

CompareIInv ==
  /\ CompareShape /\ RunProgress /\ BuiltBy(batch, run.decided) /\ BatchProgress
  /\ (\A b \in DOMAIN Batches : SavedFits(b)) /\ Counted /\ CompletedMeansAllSaved

\* A finite set of numbers has a least member: the set of those below it is the smallest.
LEMMA LeastOf ==
  ASSUME NEW S \in SUBSET Nat, IsFiniteSet(S), S # {}
  PROVE  \E m \in S : \A i \in S : m <= i
<1> DEFINE below(k) == {i \in S : i < k}
           family == {below(k) : k \in S}
<1>1. family \subseteq FiniteSubsetsOf(S) /\ family # {}
  <2>1. ASSUME NEW k \in S PROVE below(k) \in SUBSET S /\ IsFiniteSet(below(k))
    <3>1. below(k) \in SUBSET S
      OBVIOUS
    <3> HIDE DEF below
    <3> QED BY <3>1, FS_Subset
  <2> HIDE DEF below
  <2> QED BY <2>1 DEF FiniteSubsetsOf
<1>2. IsWellFoundedOn(StrictSubsetOrdering(S), FiniteSubsetsOf(S))
  BY FS_StrictSubsetOrderingWellFounded
<1>3. PICK T \in family : \A U \in family : <<U, T>> \notin StrictSubsetOrdering(S)
  <2> HIDE DEF family
  <2> QED BY <1>1, <1>2, WFMin
<1>4. PICK m \in S : T = below(m)
  BY <1>3
<1>5. ASSUME NEW i \in S, i < m PROVE FALSE
  <2>1. \A j \in S : j \in Int
    OBVIOUS
  <2>2. below(i) \subseteq T /\ i \in T /\ i \notin below(i)
    <3>1. \A j \in S : j < i => j < m
      BY <1>5, <2>1
    <3>2. ~(i < i)
      BY <2>1
    <3> QED BY <1>4, <1>5, <3>1, <3>2
  <2>3. below(i) \in family
    <3> HIDE DEF below
    <3> QED BY <1>5
  <2>4. <<below(i), T>> \in StrictSubsetOrdering(S)
    BY <2>2, <1>4 DEF StrictSubsetOrdering
  <2> QED BY <1>3, <2>3, <2>4
<1> QED BY <1>5

\* So has one that is bounded.
LEMMA Least ==
  ASSUME NEW n \in Nat, NEW S \in SUBSET (0..n), S # {}
  PROVE  \E m \in S : \A i \in S : m <= i
<1>1. IsFiniteSet(0..n)
  BY FS_Interval
<1>2. IsFiniteSet(S)
  BY <1>1, FS_Subset
<1>3. S \in SUBSET Nat
  OBVIOUS
<1> QED BY <1>2, <1>3, LeastOf

\* A sequence, followed by another.
Continues(e, d, m) ==
  /\ Len(d) \in Nat /\ Len(m) \in Nat /\ Len(e) = Len(d) + Len(m)
  /\ \A i \in 1..Len(d) : e[i] = d[i]
  /\ \A i \in 1..Len(m) : e[Len(d) + i] = m[i]

\* What a sequence and its continuation hold, place by place.
LEMMA Continued ==
  ASSUME NEW S, NEW d \in Seq(S), NEW m \in Seq(S)
  PROVE  d \o m \in Seq(S) /\ Continues(d \o m, d, m)
BY DEF Continues

\* The same for one more element.
LEMMA ContinuedByOne ==
  ASSUME NEW S, NEW d \in Seq(S), NEW x \in S
  PROVE  /\ Append(d, x) \in Seq(S) /\ Continues(Append(d, x), d, <<x>>)
         /\ Len(<<x>>) = 1 /\ <<x>> \in Seq(S) /\ <<x>>[1] = x
BY DEF Continues

\* Each place of a continuation is one of the two parts.
LEMMA PlaceOfOne ==
  ASSUME NEW e, NEW d, NEW m, Continues(e, d, m)
  PROVE  /\ \A i \in 1..Len(d) : i \in 1..Len(e)
         /\ \A i \in 1..Len(m) : Len(d) + i \in 1..Len(e)
         /\ \A i \in 1..Len(e) : i \in 1..Len(d) \/ \E j \in 1..Len(m) : i = Len(d) + j
<1>1. Len(d) \in Nat /\ Len(m) \in Nat /\ Len(e) = Len(d) + Len(m)
  BY DEF Continues
<1>2. ASSUME NEW i \in 1..Len(e), i \notin 1..Len(d) PROVE \E j \in 1..Len(m) : i = Len(d) + j
  <2>1. i - Len(d) \in 1..Len(m) /\ i = Len(d) + (i - Len(d))
    BY <1>1, <1>2
  <2> QED BY <2>1
<1> QED BY <1>1, <1>2

\* The candidates that follow are decided.
LEMMA DecidesMore ==
  ASSUME NEW n \in Nat, NEW d, NEW f, HandledBy(d, f, n), Len(f) \in Nat,
         NEW m, NEW e, Continues(e, d, m), \A i \in 1..Len(m) : m[i].ref = n + i
  PROVE  HandledBy(e, f, n + Len(m)) /\ RefsIn(d) \subseteq RefsIn(e)
         /\ \A i \in 1..Len(m) : n + i \in RefsIn(e)
<1>1. /\ Len(d) \in Nat /\ Len(m) \in Nat /\ Len(e) = Len(d) + Len(m)
      /\ \A i \in 1..Len(d) : e[i] = d[i]
      /\ \A i \in 1..Len(m) : e[Len(d) + i] = m[i]
  BY DEF Continues
<1>2. Len(f) \in Nat /\ Len(d) + Len(f) = n
  BY DEF HandledBy
<1>3. /\ \A i \in 1..Len(d) : i \in 1..Len(e)
      /\ \A i \in 1..Len(m) : Len(d) + i \in 1..Len(e)
      /\ \A i \in 1..Len(e) : i \in 1..Len(d) \/ \E j \in 1..Len(m) : i = Len(d) + j
  BY PlaceOfOne
<1>4. \A i \in 1..Len(d) : d[i].ref \in 1..n
  BY DEF HandledBy
<1>5. RefsIn(d) \subseteq RefsIn(e)
  BY <1>1, <1>3 DEF RefsIn
<1>6. ASSUME NEW i \in 1..Len(m) PROVE n + i \in RefsIn(e)
  <2>1. e[Len(d) + i].ref = n + i /\ Len(d) + i \in 1..Len(e)
    BY <1>1, <1>3
  <2> QED BY <2>1 DEF RefsIn
<1>7. Ascending(e)
  <2> SUFFICES ASSUME NEW i \in 1..Len(e), NEW j \in 1..Len(e), i < j PROVE e[i].ref < e[j].ref
    BY DEF Ascending
  <2>1. CASE i \in 1..Len(d) /\ j \in 1..Len(d)
    BY <1>1, <2>1 DEF HandledBy, Ascending
  <2>2. ASSUME NEW k \in 1..Len(m), j = Len(d) + k, i \in 1..Len(d) PROVE e[i].ref < e[j].ref
    <3>1. e[j].ref = n + k /\ e[i].ref \in 1..n
      BY <1>1, <1>4, <2>2
    <3>2. k \in Nat \ {0}
      OBVIOUS
    <3> QED BY <3>1, <3>2
  <2>3. ASSUME NEW k \in 1..Len(m), NEW l \in 1..Len(m), i = Len(d) + k, j = Len(d) + l
        PROVE  e[i].ref < e[j].ref
    <3>1. e[j].ref = n + l /\ e[i].ref = n + k
      BY <1>1, <2>3
    <3>2. k < l /\ k \in Nat /\ l \in Nat
      BY <1>1, <2>3
    <3> QED BY <3>1, <3>2
  <2>4. ASSUME NEW k \in 1..Len(m), i = Len(d) + k, j \in 1..Len(d) PROVE FALSE
    BY <1>1, <2>4
  <2> QED BY <1>3, <2>1, <2>2, <2>3, <2>4
<1>8. \A i \in 1..Len(e) : e[i].ref \in 1..n + Len(m)
  <2> TAKE i \in 1..Len(e)
  <2>1. CASE i \in 1..Len(d)
    <3>1. e[i].ref \in 1..n
      BY <1>1, <1>4, <2>1
    <3> QED BY <1>1, <3>1
  <2>2. ASSUME NEW k \in 1..Len(m), i = Len(d) + k PROVE e[i].ref \in 1..n + Len(m)
    <3>1. e[i].ref = n + k
      BY <1>1, <2>2
    <3>2. k \in 1..Len(m)
      OBVIOUS
    <3> QED BY <1>1, <3>1, <3>2
  <2> QED BY <1>3, <2>1, <2>2
<1>9. \A i \in 1..Len(f) : f[i] \in 1..n + Len(m)
  BY <1>1 DEF HandledBy
<1>10. \A r \in 1..n + Len(m) : r \in RefsIn(e) \/ \E i \in 1..Len(f) : f[i] = r
  <2> TAKE r \in 1..n + Len(m)
  <2>1. CASE r \in 1..n
    BY <1>5, <2>1 DEF HandledBy
  <2>2. CASE r \notin 1..n
    <3>1. r - n \in 1..Len(m) /\ r = n + (r - n)
      BY <1>1, <2>2
    <3> QED BY <1>6, <3>1
  <2> QED BY <2>1, <2>2
<1>11. Len(e) + Len(f) = n + Len(m)
  BY <1>1, <1>2
<1> QED BY <1>5, <1>6, <1>7, <1>8, <1>9, <1>10, <1>11 DEF HandledBy

\* The candidates that follow fail.
LEMMA FailsMore ==
  ASSUME NEW n \in Nat, NEW d, NEW f, HandledBy(d, f, n), Len(d) \in Nat,
         NEW m, NEW e, Continues(e, f, m), \A i \in 1..Len(m) : m[i] = n + i
  PROVE  HandledBy(d, e, n + Len(m))
<1>1. /\ Len(f) \in Nat /\ Len(m) \in Nat /\ Len(e) = Len(f) + Len(m)
      /\ \A i \in 1..Len(f) : e[i] = f[i]
      /\ \A i \in 1..Len(m) : e[Len(f) + i] = m[i]
  BY DEF Continues
<1>2. Len(d) \in Nat /\ Len(d) + Len(f) = n
  BY DEF HandledBy
<1>3. /\ \A i \in 1..Len(f) : i \in 1..Len(e)
      /\ \A i \in 1..Len(m) : Len(f) + i \in 1..Len(e)
      /\ \A i \in 1..Len(e) : i \in 1..Len(f) \/ \E j \in 1..Len(m) : i = Len(f) + j
  BY PlaceOfOne
<1>5. \A i \in 1..Len(e) : e[i] \in 1..n + Len(m)
  <2> TAKE i \in 1..Len(e)
  <2>1. CASE i \in 1..Len(f)
    <3>1. e[i] \in 1..n
      BY <1>1, <2>1 DEF HandledBy
    <3> QED BY <1>1, <3>1
  <2>2. ASSUME NEW k \in 1..Len(m), i = Len(f) + k PROVE e[i] \in 1..n + Len(m)
    <3>1. e[i] = n + k
      BY <1>1, <2>2
    <3>2. k \in 1..Len(m)
      OBVIOUS
    <3> QED BY <1>1, <3>1, <3>2
  <2> QED BY <1>3, <2>1, <2>2
<1>6. \A i \in 1..Len(d) : d[i].ref \in 1..n + Len(m)
  BY <1>1, <1>2 DEF HandledBy
<1>7. \A r \in 1..n + Len(m) : r \in RefsIn(d) \/ \E i \in 1..Len(e) : e[i] = r
  <2> TAKE r \in 1..n + Len(m)
  <2>1. CASE r \in 1..n
    <3>1. r \in RefsIn(d) \/ \E i \in 1..Len(f) : f[i] = r
      BY <2>1 DEF HandledBy
    <3> QED BY <1>1, <1>3, <3>1
  <2>2. CASE r \notin 1..n
    <3>1. r - n \in 1..Len(m) /\ r = n + (r - n)
      BY <1>1, <2>2
    <3>2. e[Len(f) + (r - n)] = r /\ Len(f) + (r - n) \in 1..Len(e)
      BY <1>1, <1>3, <3>1
    <3> QED BY <3>2
  <2> QED BY <2>1, <2>2
<1>8. Len(d) + Len(e) = n + Len(m)
  <2>1. Len(f) \in Nat /\ Len(m) \in Nat /\ Len(e) = Len(f) + Len(m)
    BY <1>1
  <2> QED BY <1>2, <2>1
<1>9. Ascending(d)
  BY DEF HandledBy
<1> QED BY <1>5, <1>6, <1>7, <1>8, <1>9 DEF HandledBy

\* Decisions that were made on what stands stay so when others follow that are made on
\* them and on each other.
LEMMA BuiltMore ==
  ASSUME NEW b, NEW d, BuiltBy(b, d), NEW m, NEW e, Continues(e, d, m),
         \A i \in 1..Len(m) :
           m[i].seen = {r \in RefsIn(d) \union {m[j].ref : j \in 1..i - 1} :
                          SlotOf(b, r) = SlotOf(b, m[i].ref)}
  PROVE  BuiltBy(b, e)
<1>1. /\ Len(d) \in Nat /\ Len(m) \in Nat /\ Len(e) = Len(d) + Len(m)
      /\ \A i \in 1..Len(d) : e[i] = d[i]
      /\ \A i \in 1..Len(m) : e[Len(d) + i] = m[i]
  BY DEF Continues
<1>2. \A i \in 1..Len(e) : i \in 1..Len(d) \/ \E j \in 1..Len(m) : i = Len(d) + j
  BY PlaceOfOne
<1>3. SUFFICES ASSUME NEW k \in 1..Len(e)
      PROVE  e[k].seen = {e[j].ref : j \in {i \in 1..k - 1 : SlotOf(b, e[i].ref) = SlotOf(b, e[k].ref)}}
  BY DEF BuiltBy
<1>4. CASE k \in 1..Len(d)
  <2>1. \A j \in 1..k - 1 : e[j] = d[j]
    BY <1>1, <1>4
  <2>2. e[k] = d[k]
    BY <1>1, <1>4
  <2>3. d[k].seen = {d[j].ref : j \in {i \in 1..k - 1 : SlotOf(b, d[i].ref) = SlotOf(b, d[k].ref)}}
    BY <1>4 DEF BuiltBy
  <2> QED BY <2>1, <2>2, <2>3
<1>5. ASSUME NEW n \in 1..Len(m), k = Len(d) + n
      PROVE  e[k].seen = {e[j].ref : j \in {i \in 1..k - 1 : SlotOf(b, e[i].ref) = SlotOf(b, e[k].ref)}}
  <2>1. e[k] = m[n]
    BY <1>1, <1>5
  <2>2. \A j \in 1..Len(d) : j \in 1..k - 1 /\ e[j] = d[j]
    BY <1>1, <1>5
  <2>3. \A j \in 1..n - 1 : Len(d) + j \in 1..k - 1 /\ e[Len(d) + j] = m[j]
    BY <1>1, <1>5
  <2>4. \A j \in 1..k - 1 : j \in 1..Len(d) \/ \E i \in 1..n - 1 : j = Len(d) + i
    <3> TAKE j \in 1..k - 1
    <3>1. CASE j \notin 1..Len(d)
      <4>1. j - Len(d) \in 1..n - 1 /\ j = Len(d) + (j - Len(d))
        BY <1>1, <1>5, <3>1
      <4> QED BY <4>1
    <3> QED BY <3>1
  <2>5. \A r : r \in RefsIn(d) \union {m[j].ref : j \in 1..n - 1} <=> \E j \in 1..k - 1 : r = e[j].ref
    <3> TAKE r
    <3>1. ASSUME NEW j \in 1..Len(d), r = d[j].ref PROVE \E i \in 1..k - 1 : r = e[i].ref
      BY <2>2, <3>1
    <3>2. ASSUME NEW j \in 1..n - 1, r = m[j].ref PROVE \E i \in 1..k - 1 : r = e[i].ref
      BY <2>3, <3>2
    <3>3. ASSUME NEW j \in 1..k - 1, r = e[j].ref, j \in 1..Len(d) PROVE r \in RefsIn(d)
      BY <2>2, <3>3 DEF RefsIn
    <3>4. ASSUME NEW j \in 1..n - 1, r = e[Len(d) + j].ref PROVE r \in {m[i].ref : i \in 1..n - 1}
      BY <2>3, <3>4
    <3>5. r \in RefsIn(d) => \E j \in 1..Len(d) : r = d[j].ref
      BY DEF RefsIn
    <3> QED BY <2>4, <3>1, <3>2, <3>3, <3>4, <3>5
  <2>6. m[n].seen = {r \in RefsIn(d) \union {m[j].ref : j \in 1..n - 1} : SlotOf(b, r) = SlotOf(b, m[n].ref)}
    OBVIOUS
  <2>7. ASSUME NEW r
        PROVE  r \in m[n].seen <=> \E j \in {i \in 1..k - 1 : SlotOf(b, e[i].ref) = SlotOf(b, m[n].ref)} : r = e[j].ref
    BY <2>5, <2>6
  <2> QED BY <2>1, <2>7
<1> QED BY <1>2, <1>4, <1>5

\* What _independent_ordered_decisions keeps: with a row, the rows on its slot before it.
LEMMA KeptClosed ==
  ASSUME NEW len \in Nat, NEW valid \in SUBSET (1..len),
         \A i \in 1..len : Batches[batch][run.cursor + i] \in Candidate
  PROVE  /\ Independent(len, valid) \in [1..len -> BOOLEAN]
         /\ \A i \in 1..len : \A j \in 1..i - 1 :
              Independent(len, valid)[i] /\ SlotOf(batch, run.cursor + j) = SlotOf(batch, run.cursor + i)
              => Independent(len, valid)[j]
<1> DEFINE row(i) == Batches[batch][run.cursor + i]
           sameKey(j, i) == row(j).key = row(i).key /\ row(j).status = row(i).status
           asked(j) == ~ \E k \in 1..j - 1 : k \notin valid /\ sameKey(k, j)
           unsure(j, i) == sameKey(j, i) \/ (asked(j) /\ (row(j).status \/ row(j).timed))
           kept(i) == i \in valid /\ ~ \E j \in 1..i - 1 : j \notin valid /\ unsure(j, i)
<1>1. Independent(len, valid) = [i \in 1..len |-> kept(i)]
  BY DEF Independent
<1>2. \A i \in 1..len : kept(i) \in BOOLEAN
  OBVIOUS
<1>3. ASSUME NEW i \in 1..len, NEW j \in 1..i - 1, kept(i), row(j).status PROVE j \in valid
  <2>1. SUFFICES ASSUME j \notin valid PROVE FALSE
    OBVIOUS
  <2> DEFINE invalid == {k \in 1..i - 1 : k \notin valid /\ row(k).status}
  <2>2. invalid \in SUBSET (0..len) /\ invalid # {}
    <3>1. 1..i - 1 \subseteq 0..len
      OBVIOUS
    <3> QED BY <1>3, <2>1, <3>1
  <2>3. PICK l \in invalid : \A k \in invalid : l <= k
    <3> HIDE DEF invalid
    <3> QED BY <2>2, Least
  <2>4. ASSUME NEW k \in 1..l - 1, k \notin valid, sameKey(k, l) PROVE FALSE
    <3>1. k \in 1..i - 1 /\ ~(l <= k)
      OBVIOUS
    <3>2. row(k).status
      BY <2>4
    <3>3. k \in invalid
      BY <2>4, <3>1, <3>2
    <3> QED BY <2>3, <3>1, <3>3
  <2>5. asked(l)
    BY <2>4
  <2>6. unsure(l, i) /\ l \in 1..i - 1 /\ l \notin valid
    BY <2>5
  <2> QED BY <1>3, <2>6
<1>4. ASSUME NEW i \in 1..len, NEW j \in 1..i - 1, kept(i),
             SlotOf(batch, run.cursor + j) = SlotOf(batch, run.cursor + i)
      PROVE  kept(j)
  <2>1. \/ row(j).status
        \/ row(j).key = row(i).key /\ row(j).status = row(i).status
    <3>1. row(j).status \in BOOLEAN /\ row(i).status \in BOOLEAN
      BY DEF Candidate
    <3> QED BY <1>4, <3>1 DEF SlotOf
  <2>2. j \in valid
    <3>1. CASE row(j).status
      BY <1>3, <1>4, <3>1
    <3>2. CASE row(j).key = row(i).key /\ row(j).status = row(i).status
      BY <1>4, <3>2
    <3> QED BY <2>1, <3>1, <3>2
  <2>3. ASSUME NEW k \in 1..j - 1, k \notin valid, unsure(k, j) PROVE FALSE
    <3>1. k \in 1..i - 1
      OBVIOUS
    <3>2. ~row(k).status
      BY <1>3, <1>4, <2>3, <3>1
    <3>3. ~unsure(k, i)
      BY <1>4, <2>3, <3>1
    <3>4. sameKey(k, j)
      BY <2>3, <3>3
    <3>5. sameKey(j, i)
      <4>1. ~row(j).status
        BY <3>2, <3>4
      <4> QED BY <2>1, <4>1
    <3> QED BY <3>3, <3>4, <3>5
  <2> QED BY <2>2, <2>3
<1> HIDE DEF kept
<1> QED BY <1>1, <1>2, <1>4

\* What the decisions of an answer are made of.
LEMMA SegmentFacts ==
  ASSUME CompareShape, batch \in DOMAIN Batches, NEW len \in Nat, run.cursor + len <= Size
  PROVE  /\ Size \in Nat /\ run.cursor \in Nat
         /\ \A i \in 1..len : Batches[batch][run.cursor + i] \in Candidate
         /\ DecidedRefs = RefsIn(run.decided) /\ DecidedRefs \subseteq Nat
         /\ \A c \in Nat : Standing(c) = {r \in RefsIn(run.decided) : SlotOf(batch, r) = SlotOf(batch, c)}
         /\ SegmentDecisions(len) \in Seq(Decision) /\ Len(SegmentDecisions(len)) = len
         /\ \A i \in 1..len :
              /\ SegmentDecisions(len)[i].ref = run.cursor + i
              /\ SegmentDecisions(len)[i].seen =
                   {r \in RefsIn(run.decided) \union run.cursor + 1..run.cursor + i - 1 :
                      SlotOf(batch, r) = SlotOf(batch, run.cursor + i)}
<1>1. /\ run.cursor \in Nat /\ run.decided \in Seq(Decision) /\ Len(run.decided) \in Nat
      /\ \A i \in 1..Len(run.decided) : run.decided[i] \in Decision
  BY DEF CompareShape, Runs
<1>2. Batches[batch] \in Seq(Candidate)
  BY BatchesAssumption
<1>3. Size \in Nat /\ \A i \in 1..Size : Batches[batch][i] \in Candidate
  BY <1>2 DEF Size
<1>4. \A i \in 1..len : Batches[batch][run.cursor + i] \in Candidate
  <2> TAKE i \in 1..len
  <2>1. run.cursor + i \in 1..Size
    BY <1>1, <1>3
  <2> QED BY <1>3, <2>1
<1>5. DecidedRefs = RefsIn(run.decided) /\ DecidedRefs \subseteq Nat
  <2>1. DOMAIN run.decided = 1..Len(run.decided)
    BY <1>1
  <2>2. Refs(run.decided) = {run.decided[i] : i \in 1..Len(run.decided)}
    BY <2>1 DEF Refs
  <2>3. DecidedRefs = RefsIn(run.decided)
    BY <2>2 DEF DecidedRefs, RefsIn
  <2>4. \A i \in 1..Len(run.decided) : run.decided[i].ref \in Nat
    BY <1>1 DEF Decision
  <2> QED BY <2>3, <2>4 DEF RefsIn
<1>6. \A c, r : Slot(r) = Slot(c) <=> SlotOf(batch, r) = SlotOf(batch, c)
  BY DEF Slot, SlotOf
<1>7. \A c \in Nat : Standing(c) = {r \in RefsIn(run.decided) : SlotOf(batch, r) = SlotOf(batch, c)}
  BY <1>5, <1>6 DEF Standing
<1> DEFINE seen(i) == StandingInAnswer(run.cursor + i)
<1>8. SegmentDecisions(len) = [i \in 1..len |-> [ref |-> run.cursor + i, seen |-> seen(i)]]
  BY DEF SegmentDecisions, Decided
<1>9. \A i \in 1..len :
        seen(i) = {r \in RefsIn(run.decided) \union run.cursor + 1..run.cursor + i - 1 :
                     SlotOf(batch, r) = SlotOf(batch, run.cursor + i)}
  <2> TAKE i \in 1..len
  <2>1. run.cursor + i \in Nat
    BY <1>1
  <2>2. Standing(run.cursor + i) =
          {r \in RefsIn(run.decided) : SlotOf(batch, r) = SlotOf(batch, run.cursor + i)}
    BY <1>7, <2>1
  <2>3. ASSUME NEW r
        PROVE  r \in seen(i) <=> /\ r \in RefsIn(run.decided) \union run.cursor + 1..run.cursor + i - 1
                                 /\ SlotOf(batch, r) = SlotOf(batch, run.cursor + i)
    <3> DEFINE c == run.cursor + i
    <3>1. c - 1 = run.cursor + i - 1
      BY <1>1
    <3>2. Standing(c) = {q \in RefsIn(run.decided) : SlotOf(batch, q) = SlotOf(batch, c)}
      BY <2>2
    <3> HIDE DEF c
    <3>3. r \in StandingInAnswer(c) <=>
            r \in Standing(c) \/ (r \in run.cursor + 1..c - 1 /\ Slot(r) = Slot(c))
      BY DEF StandingInAnswer
    <3>4. r \in StandingInAnswer(c) <=>
            r \in RefsIn(run.decided) \union run.cursor + 1..c - 1 /\ SlotOf(batch, r) = SlotOf(batch, c)
      BY <1>6, <3>2, <3>3
    <3> QED BY <3>1, <3>4 DEF c
  <2> HIDE DEF seen
  <2> QED BY <2>3
<1>10. \A i \in 1..len : run.cursor + i \in Nat /\ seen(i) \in SUBSET Nat
  <2> TAKE i \in 1..len
  <2>1. run.cursor + 1..run.cursor + i - 1 \subseteq Nat
    BY <1>1
  <2>2. run.cursor + i \in Nat
    BY <1>1
  <2> HIDE DEF seen
  <2> QED BY <1>5, <1>9, <2>1, <2>2
<1> HIDE DEF seen
<1>11. \A i \in 1..len : [ref |-> run.cursor + i, seen |-> seen(i)] \in Decision
  BY <1>10 DEF Decision
<1>12. SegmentDecisions(len) \in [1..len -> Decision]
  BY <1>8, <1>11
<1>13. SegmentDecisions(len) \in Seq(Decision) /\ Len(SegmentDecisions(len)) = len
  BY <1>12
<1>14. \A i \in 1..len : SegmentDecisions(len)[i].ref = run.cursor + i
                         /\ SegmentDecisions(len)[i].seen = seen(i)
  BY <1>8
<1> QED BY <1>1, <1>3, <1>4, <1>5, <1>7, <1>9, <1>13, <1>14

\* A step of the segments keeps the invariant when it keeps the progress of the run.
LEMMA SegmentMoves ==
  ASSUME CompareIInv, step \in {"segment", "singles"}, step' \in {"segment", "singles"},
         UNCHANGED <<handling, batch, attempt, token, failure, totals, saved, outcome>>,
         run' \in Runs, run'.current = run.current, BuiltBy(batch, run'.decided),
         (step' = "segment" => SegmentProgress'), (step' = "singles" => SinglesProgress')
  PROVE  CompareIInv'
<1>1. CompareShape'
  BY DEF CompareIInv, CompareShape, CompareSteps
<1>2. batch \in DOMAIN Batches /\ saved[batch].st = "pending"
  BY DEF CompareIInv, BatchProgress
<1>3. BatchProgress'
  BY <1>2 DEF BatchProgress, Pending
<1>4. BuiltBy(batch, run.decided)' /\ RunProgress'
  BY DEF CompareIInv, RunProgress
<1>5. \A b \in DOMAIN Batches : SavedFits(b)'
  BY DEF CompareIInv, SavedFits
<1>6. Counted'
  BY DEF CompareIInv, Counted, FailedIn
<1>7. CompletedMeansAllSaved'
  BY DEF CompareIInv, CompletedMeansAllSaved, Pending
<1> QED BY <1>1, <1>3, <1>4, <1>5, <1>6, <1>7 DEF CompareIInv

\* A failure leaves the batch and keeps the invariant.
LEMMA BatchLeft ==
  ASSUME CompareIInv, step \in {"context", "segment", "singles", "save"}, step' = "failBatch",
         failure' \in Failures, UNCHANGED <<handling, batch, token, run, totals, saved, outcome>>
  PROVE  CompareIInv'
<1>1. CompareShape'
  BY DEF CompareIInv, CompareShape, CompareSteps
<1>2. batch \in DOMAIN Batches
  BY DEF CompareIInv, BatchProgress
<1>3. BatchProgress' /\ RunProgress'
  BY <1>2 DEF BatchProgress, RunProgress
<1>4. BuiltBy(batch, run.decided)'
  BY DEF CompareIInv
<1>5. \A b \in DOMAIN Batches : SavedFits(b)'
  BY DEF CompareIInv, SavedFits
<1>6. Counted'
  BY DEF CompareIInv, Counted, FailedIn
<1>7. CompletedMeansAllSaved'
  BY DEF CompareIInv, CompletedMeansAllSaved, Pending
<1> QED BY <1>1, <1>3, <1>4, <1>5, <1>6, <1>7 DEF CompareIInv

\* The candidates at the cursor fail.
LEMMA CandidatesFail ==
  ASSUME CompareIInv, Comparing, NEW f \in Seq(Nat), \A i \in 1..Len(f) : f[i] = run.cursor + i,
         run.cursor + Len(f) <= Size, Advance(Len(f), f),
         UNCHANGED <<step, handling, batch, attempt, token, failure, totals, saved, outcome>>
  PROVE  CompareIInv'
<1>1. /\ step = "segment" /\ batch \in DOMAIN Batches /\ run \in Runs
      /\ HandledBy(run.decided, run.failed, run.cursor) /\ BuiltBy(batch, run.decided)
  BY DEF CompareIInv, CompareShape, RunProgress, SegmentProgress, BatchProgress, Comparing
<1>2. /\ run.cursor \in Nat /\ run.failed \in Seq(Nat) /\ run.decided \in Seq(Decision)
      /\ run.ends \in SUBSET Nat /\ Len(run.decided) \in Nat /\ Len(f) \in Nat
  BY <1>1 DEF Runs
<1>3. run' = [run EXCEPT !.cursor = @ + Len(f), !.ends = OpenEnds, !.failed = @ \o f]
  BY DEF Advance
<1>4. run.failed \o f \in Seq(Nat) /\ Continues(run.failed \o f, run.failed, f)
  BY <1>2, Continued
<1>5. HandledBy(run.decided, run.failed \o f, run.cursor + Len(f))
  BY <1>1, <1>2, <1>4, FailsMore
<1>6. /\ run'.cursor = run.cursor + Len(f) /\ run'.failed = run.failed \o f
      /\ run'.decided = run.decided /\ run'.current = run.current
  BY <1>1, <1>3 DEF Runs
<1>7. run' \in Runs
  <2>1. OpenEnds \in SUBSET Nat
    BY <1>2 DEF OpenEnds
  <2>2. run.cursor + Len(f) \in Nat
    BY <1>2
  <2> QED BY <1>1, <1>3, <1>4, <2>1, <2>2 DEF Runs
<1>8. SegmentProgress'
  BY <1>5, <1>6 DEF SegmentProgress, Size
<1> QED BY <1>1, <1>6, <1>7, <1>8, SegmentMoves

\* What is left of the batch, in its order.
LEMMA RestFits ==
  ASSUME NEW n \in Nat, n + 1 <= Size, Size \in Nat
  PROVE  /\ Rest(n + 1) \in Seq(Nat) /\ Len(Rest(n + 1)) = Size - n
         /\ \A i \in 1..Len(Rest(n + 1)) : Rest(n + 1)[i] = n + i
<1>1. Rest(n + 1) = [i \in 1..Size - n |-> n + i]
  <2>1. Size + 1 - (n + 1) = Size - n
    OBVIOUS
  <2>2. \A i \in 1..Size - n : n + 1 + i - 1 = n + i
    OBVIOUS
  <2> QED BY <2>1, <2>2 DEF Rest
<1>2. Size - n \in Nat /\ \A i \in 1..Size - n : n + i \in Nat
  OBVIOUS
<1> QED BY <1>1, <1>2

\* A single candidate is one of the batch.
LEMMA SingleFacts ==
  ASSUME CompareIInv, Singles
  PROVE  /\ step = "singles" /\ batch \in DOMAIN Batches /\ run \in Runs /\ Size \in Nat
         /\ run.cursor \in Nat /\ run.at \in 1..run.len /\ run.len \in Nat
         /\ run.decided \in Seq(Decision) /\ run.failed \in Seq(Nat)
         /\ Single = run.cursor + run.at /\ Single \in 1..Size
         /\ SinglesProgress /\ BuiltBy(batch, run.decided)
         /\ run.kept \in [1..run.len -> BOOLEAN]
         /\ HandledBy(run.decided, run.failed, Single - 1)
         /\ Single - 1 \in Nat /\ Single - 1 + 1 = Single
<1>1. step = "singles" /\ run.at <= run.len
  BY DEF Singles
<1>2. batch \in DOMAIN Batches /\ run \in Runs /\ SinglesProgress /\ BuiltBy(batch, run.decided)
  BY <1>1 DEF CompareIInv, CompareShape, RunProgress, BatchProgress
<1>3. /\ run.cursor \in Nat /\ run.len \in Nat /\ run.at \in Nat
      /\ run.decided \in Seq(Decision) /\ run.failed \in Seq(Nat)
  BY <1>2 DEF Runs
<1>4. Size \in Nat
  BY <1>2, BatchesAssumption DEF Size
<1>5. run.at \in 1..run.len + 1 /\ run.cursor + run.len <= Size
  BY <1>2 DEF SinglesProgress
<1>6. run.at \in 1..run.len
  BY <1>1, <1>3, <1>5
<1>7. Single = run.cursor + run.at
  BY DEF Single
<1>8. Single \in 1..Size /\ Single - 1 \in Nat /\ Single - 1 = run.cursor + run.at - 1
      /\ Single - 1 + 1 = Single
  BY <1>3, <1>4, <1>5, <1>6, <1>7
<1>9. HandledBy(run.decided, run.failed, Single - 1) /\ run.kept \in [1..run.len -> BOOLEAN]
  BY <1>2, <1>8 DEF SinglesProgress
<1> QED BY <1>1, <1>2, <1>3, <1>4, <1>6, <1>7, <1>8, <1>9

\* A single candidate was decided or failed, and the next one is looked at.
LEMMA SingleMoves ==
  ASSUME CompareIInv, Singles, NEW d \in Seq(Decision), NEW f \in Seq(Nat),
         run' = [NextSingle EXCEPT !.decided = d, !.failed = f],
         HandledBy(d, f, Single), RefsIn(run.decided) \subseteq RefsIn(d),
         run.kept[run.at] => Single \in RefsIn(d), BuiltBy(batch, d),
         UNCHANGED <<step, handling, batch, attempt, token, failure, totals, saved, outcome>>
  PROVE  CompareIInv'
<1>1. /\ step = "singles" /\ batch \in DOMAIN Batches /\ run \in Runs /\ Size \in Nat
      /\ run.cursor \in Nat /\ run.at \in 1..run.len /\ run.len \in Nat
      /\ Single = run.cursor + run.at /\ SinglesProgress
  BY SingleFacts
<1>2. /\ run'.at = run.at + 1 /\ run'.decided = d /\ run'.failed = f /\ run'.cursor = run.cursor
      /\ run'.len = run.len /\ run'.kept = run.kept /\ run'.current = run.current /\ run' \in Runs
  <2>1. run.at + 1 \in Nat
    BY <1>1
  <2> QED BY <1>1, <2>1 DEF NextSingle, Runs
<1>3. run'.cursor + run'.at - 1 = Single /\ run'.at \in 1..run'.len + 1
  BY <1>1, <1>2
<1>4. \A i \in 1..run'.at - 1 : run'.kept[i] => run'.cursor + i \in RefsIn(d)
  <2> TAKE i \in 1..run'.at - 1
  <2>1. i \in 1..run.at - 1 \/ i = run.at
    BY <1>1, <1>2
  <2>2. CASE i \in 1..run.at - 1
    BY <1>1, <1>2, <2>2 DEF SinglesProgress
  <2>3. CASE i = run.at
    BY <1>1, <1>2, <2>3
  <2> QED BY <2>1, <2>2, <2>3
<1>5. SinglesProgress'
  <2>1. run'.cursor + run'.len <= Size' /\ run'.kept \in [1..run'.len -> BOOLEAN]
    BY <1>1, <1>2 DEF SinglesProgress, Size
  <2>2. KeptTogether'
    BY <1>1, <1>2 DEF SinglesProgress, KeptTogether
  <2>3. HandledBy(run'.decided, run'.failed, run'.cursor + run'.at - 1)
    BY <1>2, <1>3
  <2> QED BY <1>2, <1>3, <1>4, <2>1, <2>2, <2>3 DEF SinglesProgress
<1> QED BY <1>1, <1>2, <1>5, SegmentMoves

\* A single candidate is decided on what stands in its slot.
LEMMA SingleIsDecided ==
  ASSUME CompareIInv, Singles, NEW x \in Decision, x.ref = Single,
         x.seen = {r \in RefsIn(run.decided) : SlotOf(batch, r) = SlotOf(batch, Single)},
         run' = [NextSingle EXCEPT !.decided = Append(@, x)],
         UNCHANGED <<step, handling, batch, attempt, token, failure, totals, saved, outcome>>
  PROVE  CompareIInv'
<1> DEFINE m == <<x>>
           e == Append(run.decided, x)
<1>1. /\ run \in Runs /\ run.decided \in Seq(Decision) /\ run.failed \in Seq(Nat)
      /\ BuiltBy(batch, run.decided) /\ HandledBy(run.decided, run.failed, Single - 1)
      /\ Single - 1 \in Nat /\ Single - 1 + 1 = Single
  BY SingleFacts
<1>2. e \in Seq(Decision) /\ Continues(e, run.decided, m) /\ Len(m) = 1 /\ m[1] = x
  BY <1>1, ContinuedByOne
<1>3. run' = [NextSingle EXCEPT !.decided = e, !.failed = run.failed]
  BY <1>1 DEF NextSingle, Runs
<1> HIDE DEF m, e
<1>4. Len(run.failed) \in Nat
  BY <1>1
<1>5. \A i \in 1..Len(m) : i = 1
  BY <1>2
<1>6. \A i \in 1..Len(m) : m[i].ref = Single - 1 + i
  BY <1>1, <1>2, <1>5
<1>7. HandledBy(e, run.failed, Single - 1 + Len(m)) /\ RefsIn(run.decided) \subseteq RefsIn(e)
      /\ \A i \in 1..Len(m) : Single - 1 + i \in RefsIn(e)
  BY <1>1, <1>2, <1>4, <1>6, DecidesMore
<1>8. HandledBy(e, run.failed, Single) /\ Single \in RefsIn(e)
  BY <1>1, <1>2, <1>7
<1>9. BuiltBy(batch, e)
  <2>1. \A i \in 1..Len(m) :
          m[i].seen = {r \in RefsIn(run.decided) \union {m[j].ref : j \in 1..i - 1} :
                         SlotOf(batch, r) = SlotOf(batch, m[i].ref)}
    <3> TAKE i \in 1..Len(m)
    <3>1. m[i] = x /\ {m[j].ref : j \in 1..i - 1} = {}
      BY <1>2, <1>5
    <3> QED BY <3>1
  <2> QED BY <1>1, <1>2, <2>1, BuiltMore
<1> QED BY <1>1, <1>2, <1>3, <1>7, <1>8, <1>9, SingleMoves

\* Every step of the segments keeps the invariant.
LEMMA SegmentKeeps ==
  ASSUME CompareIInv, step \in {"segment", "singles"}, Segment
  PROVE  CompareIInv'
<1>1. /\ batch \in DOMAIN Batches /\ run \in Runs /\ Size \in Nat /\ CompareShape
      /\ run.cursor \in Nat /\ run.decided \in Seq(Decision) /\ run.failed \in Seq(Nat)
      /\ run.ends \in SUBSET Nat /\ BuiltBy(batch, run.decided) /\ run.len \in Nat
  BY BatchesAssumption DEF CompareIInv, CompareShape, BatchProgress, Runs, Size
<1>2. step = "segment" => HandledBy(run.decided, run.failed, run.cursor)
  BY DEF CompareIInv, RunProgress, SegmentProgress
<1>3. OpenEnds \in SUBSET Nat
  BY <1>1 DEF OpenEnds
<1>4. ASSUME NEW shared \in BOOLEAN, TooLarge(shared) PROVE CompareIInv'
  <2>1. Comparing /\ run.cursor + 1 <= Size
    BY <1>1, <1>4 DEF TooLarge, Comparing
  <2> DEFINE f == IF shared THEN Rest(run.cursor + 1) ELSE <<run.cursor + 1>>
  <2>2. /\ Advance(Len(f), f)
        /\ UNCHANGED <<step, handling, batch, attempt, token, failure, totals, saved, outcome>>
    BY <1>4 DEF TooLarge
  <2>3. f \in Seq(Nat) /\ (\A i \in 1..Len(f) : f[i] = run.cursor + i) /\ run.cursor + Len(f) <= Size
    <3>1. CASE shared
      <4>1. /\ f \in Seq(Nat) /\ Len(f) = Size - run.cursor
            /\ \A i \in 1..Len(f) : f[i] = run.cursor + i
        BY <1>1, <2>1, <3>1, RestFits
      <4> QED BY <1>1, <4>1
    <3>2. CASE ~shared
      <4>1. f = <<run.cursor + 1>> /\ run.cursor + 1 \in Nat
        BY <1>1, <3>2
      <4> HIDE DEF f
      <4>2. f \in Seq(Nat) /\ Len(f) = 1 /\ f[1] = run.cursor + 1
        BY <4>1
      <4> QED BY <1>1, <2>1, <4>2
    <3> QED BY <3>1, <3>2
  <2> HIDE DEF f
  <2> QED BY <2>1, <2>2, <2>3, CandidatesFail
<1>5. ASSUME Comparing, Advance(1, <<run.cursor + 1>>),
             UNCHANGED <<step, handling, batch, attempt, token, failure, totals, saved, outcome>>
      PROVE  CompareIInv'
  <2> DEFINE f == <<run.cursor + 1>>
  <2>1. f \in Seq(Nat) /\ Len(f) = 1 /\ \A i \in 1..Len(f) : f[i] = run.cursor + i
    BY <1>1
  <2>2. run.cursor + Len(f) <= Size
    BY <1>1, <1>5, <2>1 DEF Comparing
  <2>3. Advance(Len(f), f)
    BY <1>5, <2>1
  <2> HIDE DEF f
  <2> QED BY <1>5, <2>1, <2>2, <2>3, CandidatesFail
<1>6. ASSUME NEW len \in 1..Size - run.cursor
      PROVE  len \in Nat /\ run.cursor + len <= Size
  BY <1>1
<1>7. ASSUME NEW len \in 1..Size - run.cursor, SegmentDecided(len) PROVE CompareIInv'
  <2> DEFINE m == SegmentDecisions(len)
             e == run.decided \o m
  <2>1. /\ step = "segment" /\ run' = [run EXCEPT !.cursor = @ + len, !.ends = OpenEnds, !.decided = e]
        /\ UNCHANGED <<step, handling, batch, attempt, token, failure, totals, saved, outcome>>
    BY <1>7 DEF SegmentDecided, Comparing
  <2>2. /\ m \in Seq(Decision) /\ Len(m) = len
        /\ \A i \in 1..len :
             /\ m[i].ref = run.cursor + i
             /\ m[i].seen = {r \in RefsIn(run.decided) \union run.cursor + 1..run.cursor + i - 1 :
                               SlotOf(batch, r) = SlotOf(batch, run.cursor + i)}
    BY <1>1, <1>6, SegmentFacts
  <2> HIDE DEF m
  <2>3. e \in Seq(Decision) /\ Continues(e, run.decided, m)
    BY <1>1, <2>2, Continued
  <2> HIDE DEF e
  <2>4. Len(run.failed) \in Nat
    BY <1>1
  <2>5. HandledBy(e, run.failed, run.cursor + len)
    <3>1. HandledBy(e, run.failed, run.cursor + Len(m))
      BY <1>1, <1>2, <2>1, <2>2, <2>3, <2>4, DecidesMore
    <3> QED BY <2>2, <3>1
  <2>6. BuiltBy(batch, e)
    <3>1. ASSUME NEW i \in 1..Len(m)
          PROVE  m[i].seen = {r \in RefsIn(run.decided) \union {m[j].ref : j \in 1..i - 1} :
                                SlotOf(batch, r) = SlotOf(batch, m[i].ref)}
      <4>1. {m[j].ref : j \in 1..i - 1} = run.cursor + 1..run.cursor + i - 1
        <5>1. \A j \in 1..i - 1 : m[j].ref = run.cursor + j /\ run.cursor + j \in run.cursor + 1..run.cursor + i - 1
          BY <1>1, <1>6, <2>2
        <5>2. \A r \in run.cursor + 1..run.cursor + i - 1 : r - run.cursor \in 1..i - 1 /\ r = run.cursor + (r - run.cursor)
          BY <1>1
        <5>3. \A r \in run.cursor + 1..run.cursor + i - 1 : r \in {m[j].ref : j \in 1..i - 1}
          BY <5>1, <5>2
        <5> QED BY <5>1, <5>3
      <4>2. m[i].ref = run.cursor + i
            /\ m[i].seen = {r \in RefsIn(run.decided) \union run.cursor + 1..run.cursor + i - 1 :
                              SlotOf(batch, r) = SlotOf(batch, run.cursor + i)}
        BY <2>2
      <4> QED BY <4>1, <4>2, Zenon
    <3> QED BY <1>1, <2>3, <3>1, BuiltMore
  <2>7. /\ run'.cursor = run.cursor + len /\ run'.decided = e /\ run'.failed = run.failed
        /\ run'.current = run.current
    BY <1>1, <2>1 DEF Runs
  <2>8. run' \in Runs
    <3>1. run.cursor + len \in Nat
      BY <1>1
    <3> QED BY <1>1, <1>3, <2>1, <2>3, <3>1 DEF Runs
  <2>9. SegmentProgress'
    BY <1>6, <2>1, <2>5, <2>7 DEF SegmentProgress, Size
  <2> QED BY <2>1, <2>6, <2>7, <2>8, <2>9, SegmentMoves
<1>8. ASSUME NEW len \in 1..Size - run.cursor, SegmentTruncated(len) PROVE CompareIInv'
  <2>1. CASE len = 1
    BY <1>5, <1>8, <2>1 DEF SegmentTruncated, Halved
  <2>2. CASE len # 1
    <3> DEFINE ends == {run.cursor + len \div 2, run.cursor + len} \union OpenEnds
    <3>1. /\ step = "segment" /\ run' = [run EXCEPT !.ends = ends]
          /\ UNCHANGED <<step, handling, batch, attempt, token, failure, totals, saved, outcome>>
      BY <1>8, <2>2 DEF SegmentTruncated, Halved, Comparing
    <3>2. ends \in SUBSET Nat
      <4>1. run.cursor + len \div 2 \in Nat /\ run.cursor + len \in Nat
        BY <1>1
      <4> QED BY <1>3, <4>1
    <3> HIDE DEF ends
    <3>3. run' \in Runs /\ run'.cursor = run.cursor /\ run'.decided = run.decided
          /\ run'.failed = run.failed /\ run'.current = run.current
      BY <1>1, <3>1, <3>2 DEF Runs
    <3>4. SegmentProgress'
      BY <3>1, <3>3 DEF CompareIInv, RunProgress, SegmentProgress, Size
    <3> QED BY <1>1, <3>1, <3>3, <3>4, SegmentMoves
  <2> QED BY <2>1, <2>2
<1>9. ASSUME NEW len \in 1..Size - run.cursor, NEW valid \in SUBSET (1..len),
             SegmentInvalid(len, valid)
      PROVE  CompareIInv'
  <2>1. CASE len = 1
    BY <1>5, <1>9, <2>1 DEF SegmentInvalid
  <2>2. CASE len # 1
    <3> DEFINE k == IF handling = "plain" THEN [i \in 1..len |-> FALSE] ELSE Independent(len, valid)
    <3>1. /\ step = "segment" /\ step' = "singles"
          /\ run' = [run EXCEPT !.len = len, !.at = 1, !.ends = OpenEnds, !.kept = k]
          /\ UNCHANGED <<handling, batch, attempt, token, failure, totals, saved, outcome>>
      BY <1>9, <2>2 DEF SegmentInvalid, Comparing
    <3>2. \A i \in 1..len : Batches[batch][run.cursor + i] \in Candidate
      BY <1>1, <1>6, SegmentFacts
    <3>3. /\ k \in [1..len -> BOOLEAN]
          /\ \A i \in 1..len : \A j \in 1..i - 1 :
               k[i] /\ SlotOf(batch, run.cursor + j) = SlotOf(batch, run.cursor + i) => k[j]
      <4>1. CASE handling = "plain"
        BY <4>1
      <4>2. CASE handling # "plain"
        <5>1. k = Independent(len, valid)
          BY <4>2
        <5> HIDE DEF k
        <5> QED BY <1>6, <3>2, <5>1, KeptClosed
      <4> QED BY <4>1, <4>2
    <3> HIDE DEF k
    <3>4. k \in UNION {[1..n -> BOOLEAN] : n \in Nat}
      BY <1>6, <3>3
    <3>5. run' \in Runs
      BY <1>1, <1>3, <1>6, <3>1, <3>4 DEF Runs
    <3>6. /\ run'.cursor = run.cursor /\ run'.decided = run.decided /\ run'.failed = run.failed
          /\ run'.current = run.current /\ run'.len = len /\ run'.at = 1 /\ run'.kept = k
      BY <1>1, <3>1 DEF Runs
    <3>7. run'.cursor + run'.at - 1 = run.cursor /\ run'.at \in 1..run'.len + 1
      BY <1>1, <3>6
    <3>8. SinglesProgress'
      <4>1. run'.cursor + run'.len <= Size' /\ run'.kept \in [1..run'.len -> BOOLEAN]
        BY <1>6, <3>1, <3>3, <3>6 DEF Size
      <4>2. KeptTogether'
        BY <3>1, <3>3, <3>6 DEF KeptTogether
      <4>3. HandledBy(run'.decided, run'.failed, run'.cursor + run'.at - 1)
        BY <1>2, <3>1, <3>6, <3>7
      <4>4. 1..run'.at - 1 = {}
        BY <3>6
      <4> QED BY <3>7, <4>1, <4>2, <4>3, <4>4 DEF SinglesProgress
    <3> QED BY <1>1, <3>1, <3>5, <3>6, <3>8, SegmentMoves
  <2> QED BY <2>1, <2>2
<1>10. ASSUME NEW kind \in Failures, SegmentRaises(kind) \/ SingleRaises(kind) PROVE CompareIInv'
  BY <1>10, BatchLeft DEF SegmentRaises, SingleRaises
<1>11. ASSUME Keep PROVE CompareIInv'
  <2>1. Singles /\ run.kept[run.at]
        /\ UNCHANGED <<step, handling, batch, attempt, token, failure, totals, saved, outcome>>
    BY <1>11 DEF Keep
  <2>2. /\ run.at \in 1..run.len /\ Single = run.cursor + run.at /\ SinglesProgress
    BY <2>1, SingleFacts
  <2>3. run.cursor + run.len <= Size /\ KeptTogether
    BY <2>2 DEF SinglesProgress
  <2> DEFINE x == SegmentDecisions(run.len)[run.at]
  <2>4. /\ x \in Decision /\ x.ref = Single
        /\ x.seen = {r \in RefsIn(run.decided) \union run.cursor + 1..run.cursor + run.at - 1 :
                       SlotOf(batch, r) = SlotOf(batch, Single)}
    <3>1. SegmentDecisions(run.len) \in Seq(Decision) /\ Len(SegmentDecisions(run.len)) = run.len
      BY <1>1, <2>3, SegmentFacts
    <3>2. x \in Decision
      BY <2>2, <3>1
    <3>3. \A i \in 1..run.len :
            /\ SegmentDecisions(run.len)[i].ref = run.cursor + i
            /\ SegmentDecisions(run.len)[i].seen =
                   {r \in RefsIn(run.decided) \union run.cursor + 1..run.cursor + i - 1 :
                      SlotOf(batch, r) = SlotOf(batch, run.cursor + i)}
      BY <1>1, <2>3, SegmentFacts
    <3> QED BY <2>2, <3>2, <3>3
  <2>5. run' = [NextSingle EXCEPT !.decided = Append(@, x)]
    BY <1>11 DEF Keep
  <2> HIDE DEF x
  <2>6. ASSUME NEW r \in run.cursor + 1..run.cursor + run.at - 1,
               SlotOf(batch, r) = SlotOf(batch, Single)
        PROVE  r \in RefsIn(run.decided)
    <3> DEFINE j == r - run.cursor
    <3>1. j \in 1..run.at - 1 /\ r = run.cursor + j
      BY <1>1, <2>2
    <3> HIDE DEF j
    <3>2. run.kept[j]
      BY <2>1, <2>2, <2>3, <2>6, <3>1 DEF KeptTogether
    <3> QED BY <2>2, <3>1, <3>2 DEF SinglesProgress
  <2>7. x.seen = {r \in RefsIn(run.decided) : SlotOf(batch, r) = SlotOf(batch, Single)}
    BY <2>4, <2>6
  <2> QED BY <2>1, <2>4, <2>5, <2>7, SingleIsDecided
<1>12. ASSUME SingleDecided PROVE CompareIInv'
  <2>1. Singles /\ UNCHANGED <<step, handling, batch, attempt, token, failure, totals, saved, outcome>>
    BY <1>12 DEF SingleDecided, Asked
  <2> DEFINE x == Decided(Single, Standing(Single))
  <2>2. Single \in Nat
    BY <2>1, SingleFacts
  <2>3. run.cursor + 0 <= Size
    BY <1>1, <2>1, SingleFacts DEF SinglesProgress
  <2>4. DecidedRefs \subseteq Nat
        /\ \A c \in Nat : Standing(c) = {r \in RefsIn(run.decided) : SlotOf(batch, r) = SlotOf(batch, c)}
    BY <1>1, <2>3, SegmentFacts
  <2>5. Standing(Single) \in SUBSET Nat
    BY <2>4 DEF Standing
  <2>6. x \in Decision /\ x.ref = Single /\ x.seen = Standing(Single)
    BY <2>2, <2>5 DEF Decided, Decision
  <2>7. run' = [NextSingle EXCEPT !.decided = Append(@, x)]
    BY <1>12 DEF SingleDecided
  <2> HIDE DEF x
  <2>8. x.seen = {r \in RefsIn(run.decided) : SlotOf(batch, r) = SlotOf(batch, Single)}
    BY <2>2, <2>4, <2>6
  <2> QED BY <2>1, <2>6, <2>7, <2>8, SingleIsDecided
<1>13. ASSUME SingleFailed PROVE CompareIInv'
  <2> DEFINE m == <<Single>>
             e == Append(run.failed, Single)
  <2>1. Singles /\ ~run.kept[run.at]
        /\ UNCHANGED <<step, handling, batch, attempt, token, failure, totals, saved, outcome>>
    BY <1>13 DEF SingleFailed, Asked
  <2>2. /\ Single - 1 \in Nat /\ Single - 1 + 1 = Single /\ Single \in Nat
        /\ HandledBy(run.decided, run.failed, Single - 1)
    BY <2>1, SingleFacts
  <2>3. e \in Seq(Nat) /\ Continues(e, run.failed, m) /\ Len(m) = 1 /\ m[1] = Single
    BY <1>1, <2>2, ContinuedByOne
  <2>4. run' = [NextSingle EXCEPT !.decided = run.decided, !.failed = e]
    BY <1>1, <1>13 DEF SingleFailed, NextSingle, Runs
  <2> HIDE DEF m, e
  <2>5. \A i \in 1..Len(m) : m[i] = Single - 1 + i
    BY <2>2, <2>3
  <2>6. Len(run.decided) \in Nat
    BY <1>1
  <2>7. HandledBy(run.decided, e, Single - 1 + Len(m))
    BY <2>2, <2>3, <2>5, <2>6, FailsMore
  <2>8. HandledBy(run.decided, e, Single)
    BY <2>2, <2>3, <2>7
  <2> QED BY <1>1, <2>1, <2>3, <2>4, <2>8, SingleMoves
<1>14. ASSUME SingleOverflows PROVE CompareIInv'
  <2> DEFINE m == Rest(Single)
             e == run.failed \o m
  <2>1. /\ Singles /\ step' = "segment" /\ run' = [run EXCEPT !.cursor = Size, !.failed = e]
        /\ UNCHANGED <<handling, batch, attempt, token, failure, totals, saved, outcome>>
    BY <1>14 DEF SingleOverflows, Asked
  <2>2. /\ Single - 1 \in Nat /\ Single - 1 + 1 = Single /\ Single \in 1..Size
        /\ HandledBy(run.decided, run.failed, Single - 1)
    BY <2>1, SingleFacts
  <2>3. /\ m \in Seq(Nat) /\ Len(m) = Size - (Single - 1)
        /\ \A i \in 1..Len(m) : m[i] = Single - 1 + i
    <3> DEFINE n == Single - 1
    <3>1. n \in Nat /\ n + 1 <= Size /\ n + 1 = Single
      BY <1>1, <2>2
    <3> HIDE DEF n
    <3>2. /\ Rest(n + 1) \in Seq(Nat) /\ Len(Rest(n + 1)) = Size - n
          /\ \A i \in 1..Len(Rest(n + 1)) : Rest(n + 1)[i] = n + i
      BY <1>1, <3>1, RestFits
    <3> QED BY <3>1, <3>2 DEF n
  <2> HIDE DEF m
  <2>4. e \in Seq(Nat) /\ Continues(e, run.failed, m)
    BY <1>1, <2>3, Continued
  <2> HIDE DEF e
  <2>5. Len(run.decided) \in Nat
    BY <1>1
  <2>6. HandledBy(run.decided, e, Single - 1 + Len(m))
    BY <2>2, <2>3, <2>4, <2>5, FailsMore
  <2>7. Single - 1 + Len(m) = Size
    BY <1>1, <2>2, <2>3
  <2>8. /\ run'.cursor = Size /\ run'.decided = run.decided /\ run'.failed = e
        /\ run'.current = run.current /\ run' \in Runs
    BY <1>1, <2>1, <2>4 DEF Runs
  <2>9. SegmentProgress'
    BY <1>1, <2>1, <2>6, <2>7, <2>8 DEF SegmentProgress, Size
  <2> QED BY <1>1, <2>1, <2>8, <2>9, SegmentMoves
<1>15. ASSUME SinglesDone PROVE CompareIInv'
  <2>1. /\ step = "singles" /\ run.at > run.len /\ step' = "segment"
        /\ run' = [run EXCEPT !.cursor = @ + run.len, !.len = 0, !.at = 0, !.kept = <<>>]
        /\ UNCHANGED <<handling, batch, attempt, token, failure, totals, saved, outcome>>
    BY <1>15 DEF SinglesDone
  <2>2. SinglesProgress /\ run.at \in 1..run.len + 1 /\ run.cursor + run.len <= Size
        /\ HandledBy(run.decided, run.failed, run.cursor + run.at - 1)
    BY <2>1 DEF CompareIInv, RunProgress, SinglesProgress
  <2>3. run.cursor + run.at - 1 = run.cursor + run.len /\ run.cursor + run.len \in Nat
    BY <1>1, <2>1, <2>2
  <2>4. <<>> \in UNION {[1..n -> BOOLEAN] : n \in Nat}
    <3>1. <<>> \in [1..0 -> BOOLEAN] /\ 0 \in Nat
      OBVIOUS
    <3> QED BY <3>1
  <2>5. run' \in Runs
    BY <1>1, <2>1, <2>3, <2>4 DEF Runs
  <2>6. /\ run'.cursor = run.cursor + run.len /\ run'.decided = run.decided
        /\ run'.failed = run.failed /\ run'.current = run.current
    BY <1>1, <2>1 DEF Runs
  <2>7. SegmentProgress'
    BY <2>1, <2>2, <2>3, <2>6 DEF SegmentProgress, Size
  <2> QED BY <1>1, <2>1, <2>5, <2>6, <2>7, SegmentMoves
<1> QED BY <1>4, <1>7, <1>8, <1>9, <1>10, <1>11, <1>12, <1>13, <1>14, <1>15 DEF Segment

\* The coverage check passes when each candidate was handled once.
LEMMA HandledIsCovered ==
  ASSUME run \in Runs, Size \in Nat, HandledBy(run.decided, run.failed, Size)
  PROVE  Covered
<1> DEFINE d == [i \in DOMAIN run.decided |-> run.decided[i].ref]
           e == d \o run.failed
<1>1. /\ run.decided \in Seq(Decision) /\ run.failed \in Seq(Nat) /\ Len(run.decided) \in Nat
      /\ DOMAIN run.decided = 1..Len(run.decided)
  BY DEF Runs
<1>2. d = [i \in 1..Len(run.decided) |-> run.decided[i].ref]
  BY <1>1
<1>3. \A i \in 1..Len(run.decided) : run.decided[i].ref \in Nat
  BY DEF HandledBy
<1> HIDE DEF d
<1>4. d \in [1..Len(run.decided) -> Nat]
  BY <1>2, <1>3
<1>5. d \in Seq(Nat) /\ Len(d) = Len(run.decided)
      /\ \A i \in 1..Len(d) : d[i] = run.decided[i].ref
  BY <1>1, <1>2, <1>4
<1>6. e \in Seq(Nat) /\ Continues(e, d, run.failed)
  BY <1>1, <1>5, Continued
<1> HIDE DEF e
<1>7. Len(e) = Size
  BY <1>5, <1>6 DEF HandledBy, Continues
<1>8. /\ \A i \in 1..Len(d) : i \in 1..Len(e)
      /\ \A i \in 1..Len(run.failed) : Len(d) + i \in 1..Len(e)
      /\ \A i \in 1..Len(e) : i \in 1..Len(d) \/ \E j \in 1..Len(run.failed) : i = Len(d) + j
  BY <1>6, PlaceOfOne
<1>9. \A i \in 1..Len(e) : e[i] \in 1..Size
  <2> TAKE i \in 1..Len(e)
  <2>1. CASE i \in 1..Len(d)
    BY <1>5, <1>6, <2>1 DEF HandledBy, Continues
  <2>2. ASSUME NEW j \in 1..Len(run.failed), i = Len(d) + j PROVE e[i] \in 1..Size
    BY <1>6, <2>2 DEF HandledBy, Continues
  <2> QED BY <1>8, <2>1, <2>2
<1>10. ASSUME NEW r \in 1..Size PROVE \E i \in 1..Len(e) : e[i] = r
  <2>1. ASSUME NEW i \in 1..Len(run.decided), run.decided[i].ref = r PROVE \E j \in 1..Len(e) : e[j] = r
    <3>1. i \in 1..Len(e) /\ e[i] = r
      BY <1>5, <1>6, <1>8, <2>1 DEF Continues
    <3> QED BY <3>1
  <2>2. ASSUME NEW i \in 1..Len(run.failed), run.failed[i] = r PROVE \E j \in 1..Len(e) : e[j] = r
    <3>1. Len(d) + i \in 1..Len(e) /\ e[Len(d) + i] = r
      BY <1>6, <1>8, <2>2 DEF Continues
    <3> QED BY <3>1
  <2>3. r \in RefsIn(run.decided) \/ \E i \in 1..Len(run.failed) : run.failed[i] = r
    BY DEF HandledBy
  <2>4. r \in RefsIn(run.decided) => \E i \in 1..Len(run.decided) : run.decided[i].ref = r
    BY DEF RefsIn
  <2> QED BY <2>1, <2>2, <2>3, <2>4
<1>11. Refs(e) = 1..Size
  <2>1. DOMAIN e = 1..Len(e)
    BY <1>6
  <2> QED BY <1>9, <1>10, <2>1 DEF Refs
<1>12. Covered <=> Len(e) = Size /\ Refs(e) = 1..Size
  BY DEF Covered, d, e
<1> QED BY <1>7, <1>11, <1>12

\* What a batch that was read stands on.
LEMMA FreshRun ==
  NoRun \in Runs /\ [NoRun EXCEPT !.current = TRUE] \in Runs
  /\ HandledBy(<<>>, <<>>, 0) /\ \A b : BuiltBy(b, <<>>)
<1>1. <<>> \in UNION {[1..n -> BOOLEAN] : n \in Nat}
  <2>1. <<>> \in [1..0 -> BOOLEAN] /\ 0 \in Nat
    OBVIOUS
  <2> QED BY <2>1
<1>2. NoRun \in Runs /\ [NoRun EXCEPT !.current = TRUE] \in Runs
  <2>1. <<>> \in Seq(Decision) /\ <<>> \in Seq(Nat) /\ {} \in SUBSET Nat
    OBVIOUS
  <2>2. NoRun \in Runs
    BY <1>1, <2>1, Zenon DEF NoRun, Runs
  <2>3. [NoRun EXCEPT !.current = TRUE] \in Runs
    BY <2>2 DEF Runs
  <2> QED BY <2>2, <2>3
<1>3. Len(<<>>) = 0 /\ 1..0 = {}
  OBVIOUS
<1> QED BY <1>2, <1>3 DEF HandledBy, Ascending, BuiltBy

\* The invariant holds at the start.
LEMMA CompareStarts == CompareInit => CompareIInv
<1> SUFFICES ASSUME CompareInit PROVE CompareIInv
  OBVIOUS
<1>1. Unsaved \in Outcomes /\ Unsaved.st = "pending" /\ Unsaved.st # "saved" /\ Unsaved.st # "failed"
  BY DEF Unsaved, Outcomes
<1>2. Len(Batches) \in Nat
  BY BatchesAssumption
<1>3. CompareShape
  <2>1. step \in CompareSteps /\ handling \in Handlings /\ token \in BOOLEAN
    BY DEF CompareInit, CompareSteps, Handlings
  <2>5. batch \in 0..Len(Batches)
    BY <1>2 DEF CompareInit
  <2>2. run \in Runs
    BY FreshRun DEF CompareInit
  <2>3. totals \in [done : Nat, failed : Nat] /\ failure \in Failures \union {"none"}
        /\ outcome \in {"running", "completed", "failed", "returned"}
    BY DEF CompareInit
  <2>4. saved \in [DOMAIN Batches -> Outcomes]
    BY <1>1 DEF CompareInit
  <2> QED BY <2>1, <2>2, <2>3, <2>4, <2>5 DEF CompareShape
<1>4. RunProgress /\ BatchProgress
  BY DEF CompareInit, RunProgress, BatchProgress, NoRun
<1>5. BuiltBy(batch, run.decided)
  BY FreshRun DEF CompareInit, NoRun
<1>6. \A b \in DOMAIN Batches : saved[b] = Unsaved
  BY DEF CompareInit
<1>7. (\A b \in DOMAIN Batches : SavedFits(b)) /\ Counted
  BY <1>1, <1>6 DEF CompareInit, SavedFits, Counted, FailedIn
<1>8. CompletedMeansAllSaved
  BY DEF CompareInit, CompletedMeansAllSaved
<1> QED BY <1>3, <1>4, <1>5, <1>7, <1>8 DEF CompareIInv

\* A step of the job that leaves what was saved and counted keeps the invariant when what
\* follows it holds of the place it goes to.
LEMMA PlaceMoves ==
  ASSUME CompareIInv, step' \in CompareSteps, UNCHANGED <<totals, saved>>,
         handling' \in Handlings, batch' \in 0..Len(Batches), token' \in BOOLEAN, run' \in Runs,
         failure' \in Failures \union {"none"}, outcome' = outcome,
         RunProgress', BuiltBy(batch', run'.decided), BatchProgress',
         outcome # "running" => step' \in {"failing", "done"},
         step' \notin {"failing", "done", "failBatch"} => step \notin {"failing", "done", "failBatch"},
         step' = "failBatch" => step \notin {"failing", "done"} /\ batch' = batch
  PROVE  CompareIInv'
<1>1. CompareShape'
  BY DEF CompareIInv, CompareShape
<1>2. \A b \in DOMAIN Batches : SavedFits(b)'
  BY DEF CompareIInv, SavedFits
<1>3. Counted'
  <2>1. \A b \in DOMAIN Batches : FailedIn(b)' <=> FailedIn(b)
    BY DEF FailedIn
  <2> QED BY <2>1 DEF CompareIInv, Counted
<1>4. CompletedMeansAllSaved'
  BY DEF CompareIInv, CompletedMeansAllSaved, Pending
<1> QED BY <1>1, <1>2, <1>3, <1>4 DEF CompareIInv

\* A save that was applied is of a batch that was compared as a whole.
LEMMA ResultFits ==
  ASSUME CompareIInv, step = "save"
  PROVE  /\ Result \in Outcomes /\ Result.st = "saved" /\ Result.failed = run.failed
         /\ Result.current = run.current
         /\ Ascending(Result.decided) /\ Len(Result.decided) + Len(Result.failed) = Len(Batches[batch])
         /\ batch \in DOMAIN Batches /\ saved \in [DOMAIN Batches -> Outcomes]
<1>1. run \in Runs /\ batch \in DOMAIN Batches /\ HandledBy(run.decided, run.failed, Size)
      /\ saved \in [DOMAIN Batches -> Outcomes]
  BY DEF CompareIInv, CompareShape, RunProgress, BatchProgress
<1>2. Result \in Outcomes
  BY <1>1 DEF Result, Outcomes, Runs
<1>3. Result.st = "saved" /\ Result.failed = run.failed /\ Result.decided = run.decided
      /\ Result.current = run.current
  BY DEF Result
<1> QED BY <1>1, <1>2, <1>3 DEF HandledBy, Size

\* What became of the batches, after one of them was written.
LEMMA BatchWritten ==
  ASSUME CompareIInv, batch \in DOMAIN Batches, NEW r \in Outcomes, saved' = [saved EXCEPT ![batch] = r],
         r.st = "saved" => /\ r.current /\ Ascending(r.decided)
                           /\ Len(r.decided) + Len(r.failed) = Len(Batches[batch])
  PROVE  /\ saved' \in [DOMAIN Batches -> Outcomes] /\ \A b \in DOMAIN Batches : SavedFits(b)'
         /\ saved'[batch] = r /\ \A b \in DOMAIN Batches \ {batch} : saved'[b] = saved[b]
<1>1. saved \in [DOMAIN Batches -> Outcomes] /\ \A b \in DOMAIN Batches : SavedFits(b)
  BY DEF CompareIInv, CompareShape
<1>2. /\ saved' \in [DOMAIN Batches -> Outcomes] /\ saved'[batch] = r
      /\ \A b \in DOMAIN Batches \ {batch} : saved'[b] = saved[b]
  BY <1>1
<1>3. \A b \in DOMAIN Batches : SavedFits(b)'
  BY <1>1, <1>2 DEF SavedFits
<1> QED BY <1>2, <1>3

\* Every step of the job keeps the invariant.
LEMMA JobKeeps == CompareIInv /\ Job => CompareIInv'
<1> SUFFICES ASSUME CompareIInv, Job PROVE CompareIInv'
  OBVIOUS
<1>1. /\ step \in CompareSteps /\ handling \in Handlings /\ batch \in 0..Len(Batches)
      /\ token \in BOOLEAN /\ run \in Runs /\ failure \in Failures \union {"none"}
      /\ totals \in [done : Nat, failed : Nat] /\ saved \in [DOMAIN Batches -> Outcomes]
      /\ outcome \in {"running", "completed", "failed", "returned"}
  BY DEF CompareIInv, CompareShape
<1>2. RunProgress /\ BatchProgress /\ Counted /\ BuiltBy(batch, run.decided)
  BY DEF CompareIInv
<1>3. step \notin {"failing", "done"} => outcome = "running"
  BY <1>2 DEF Counted
<1>4. DOMAIN Batches = 1..Len(Batches) /\ Len(Batches) \in Nat
      /\ \A b \in DOMAIN Batches : Len(Batches[b]) \in Nat \ {0}
  <2>1. \A b \in 1..Len(Batches) : Batches[b] \in Seq(Candidate) /\ Batches[b] # <<>>
    BY BatchesAssumption
  <2>2. \A q \in Seq(Candidate) : q # <<>> => Len(q) \in Nat \ {0}
    OBVIOUS
  <2> QED BY <2>1, <2>2, BatchesAssumption
<1>5. ASSUME ClaimBatch PROVE CompareIInv'
  <2>1. /\ step = "claim" /\ run.decided = <<>>
        /\ UNCHANGED <<handling, token, run, failure, totals, saved, outcome>>
    BY <1>2, <1>5 DEF ClaimBatch, RunProgress
  <2>2. CASE Pending = {}
    <3>1. step' = "report" /\ batch' = batch
      BY <1>5, <2>2 DEF ClaimBatch
    <3>2. RunProgress' /\ BatchProgress'
      BY <2>1, <2>2, <3>1 DEF RunProgress, BatchProgress, Pending
    <3>3. "report" \in CompareSteps
      BY DEF CompareSteps
    <3> QED BY <1>1, <1>2, <1>3, <2>1, <3>1, <3>2, <3>3, PlaceMoves
  <2>3. CASE Pending # {}
    <3>1. step' = "context" /\ batch' \in Pending
      BY <1>5, <2>3 DEF ClaimBatch
    <3>2. batch' \in DOMAIN Batches /\ saved[batch'].st = "pending"
      BY <3>1 DEF Pending
    <3>3. RunProgress' /\ BatchProgress'
      BY <2>1, <3>1, <3>2 DEF RunProgress, BatchProgress
    <3>4. BuiltBy(batch', run'.decided)
      BY <2>1, FreshRun
    <3>5. "context" \in CompareSteps /\ batch' \in 0..Len(Batches)
      BY <1>4, <3>2 DEF CompareSteps
    <3> QED BY <1>1, <1>3, <2>1, <3>1, <3>3, <3>4, <3>5, PlaceMoves
  <2> QED BY <2>2, <2>3
<1>6. ASSUME JobRaises PROVE CompareIInv'
  <2>1. /\ step \in {"claim", "report"} /\ failure' = "other" /\ step' = "failing"
        /\ UNCHANGED <<handling, batch, attempt, token, run, totals, saved, outcome>>
    BY <1>6 DEF JobRaises
  <2>2. RunProgress' /\ BatchProgress' /\ "failing" \in CompareSteps /\ "other" \in Failures
    BY <2>1 DEF RunProgress, BatchProgress, CompareSteps, Failures
  <2> QED BY <1>1, <1>2, <1>3, <2>1, <2>2, PlaceMoves
<1>7. ASSUME ReadContext PROVE CompareIInv'
  <2>1. /\ step = "context" /\ step' = "segment" /\ token' = TRUE
        /\ run' = [NoRun EXCEPT !.current = TRUE]
        /\ UNCHANGED <<handling, batch, failure, totals, saved, outcome>>
    BY <1>7 DEF ReadContext
  <2>2. /\ run' \in Runs /\ run'.decided = <<>> /\ run'.failed = <<>> /\ run'.cursor = 0
        /\ run'.current = TRUE
    BY <2>1, FreshRun DEF NoRun
  <2>3. batch \in DOMAIN Batches /\ saved[batch].st = "pending"
    BY <1>2, <2>1 DEF BatchProgress
  <2>4. SegmentProgress'
    BY <1>4, <2>1, <2>2, <2>3, FreshRun DEF SegmentProgress, Size
  <2>5. RunProgress' /\ BatchProgress' /\ "segment" \in CompareSteps
    BY <2>1, <2>2, <2>3, <2>4 DEF RunProgress, BatchProgress, CompareSteps
  <2>6. BuiltBy(batch', run'.decided)
    BY <2>2, FreshRun
  <2> QED BY <1>1, <1>3, <2>1, <2>2, <2>5, <2>6, PlaceMoves
<1>8. ASSUME ReadContextRaises PROVE CompareIInv'
  BY <1>8, BatchLeft DEF ReadContextRaises, Failures
<1>9. ASSUME step \in {"segment", "singles"}, Segment PROVE CompareIInv'
  BY <1>9, SegmentKeeps
<1>10. ASSUME ChecksCoverage PROVE CompareIInv'
  <2>1. /\ step = "segment" /\ run.cursor >= Size
        /\ IF Covered THEN step' = "save" /\ UNCHANGED failure
           ELSE step' = "failBatch" /\ failure' = "candidate"
        /\ UNCHANGED <<handling, batch, attempt, token, run, totals, saved, outcome>>
    BY <1>10 DEF ChecksCoverage, Compared
  <2>2. CASE Covered
    <3>1. batch \in DOMAIN Batches /\ saved[batch].st = "pending" /\ SegmentProgress
      BY <1>2, <2>1 DEF BatchProgress, RunProgress
    <3>2. Size \in Nat /\ run.cursor \in Nat
      BY <1>1, <1>4, <3>1 DEF Size, Runs
    <3>3. run.cursor = Size
      BY <2>1, <3>1, <3>2 DEF SegmentProgress
    <3>4. HandledBy(run.decided, run.failed, Size)
      BY <3>1, <3>3 DEF SegmentProgress
    <3>5. Size' = Size
      BY <2>1 DEF Size
    <3>6. token => run.current
      BY <1>2, <2>1 DEF RunProgress
    <3>7. RunProgress'
      BY <2>1, <2>2, <3>4, <3>5, <3>6 DEF RunProgress
    <3>8. BatchProgress' /\ "save" \in CompareSteps
      BY <2>1, <2>2, <3>1 DEF BatchProgress, CompareSteps
    <3> QED BY <1>1, <1>2, <1>3, <2>1, <2>2, <3>7, <3>8, PlaceMoves
  <2>3. CASE ~Covered
    BY <2>1, <2>3, BatchLeft DEF Failures
  <2> QED BY <2>2, <2>3
<1>11. ASSUME SaveStale PROVE CompareIInv'
  <2>1. /\ step = "save"
        /\ \/ step' = "failBatch" /\ failure' = "other"
           \/ step' = "context" /\ failure' = failure
        /\ UNCHANGED <<handling, batch, attempt, token, run, totals, saved, outcome>>
    BY <1>11 DEF SaveStale
  <2>2. CASE step' = "failBatch"
    BY <2>1, <2>2, BatchLeft DEF Failures
  <2>3. CASE step' = "context"
    <3>1. batch \in DOMAIN Batches /\ saved[batch].st = "pending"
      BY <1>2, <2>1 DEF BatchProgress
    <3>2. RunProgress' /\ BatchProgress' /\ "context" \in CompareSteps
      BY <2>1, <2>3, <3>1 DEF RunProgress, BatchProgress, CompareSteps
    <3> QED BY <1>1, <1>2, <1>3, <2>1, <2>3, <3>2, PlaceMoves
  <2> QED BY <2>1, <2>2, <2>3
<1>12. ASSUME NEW answered \in BOOLEAN, Reports(answered) PROVE CompareIInv'
  <2>1. /\ step = "report" /\ outcome = "running" /\ Pending = {}
        /\ UNCHANGED <<handling, batch, attempt, token, run, failure, totals, saved>>
    BY <1>2, <1>3, <1>12 DEF Reports, BatchProgress
  <2>2. /\ step' \in {"done", "failing"}
        /\ \/ outcome' = outcome
           \/ outcome' = "returned"
           \/ outcome' = "completed" /\ ~(totals.failed > 0)
    BY <1>12 DEF Reports
  <2>3. CompareShape'
    BY <1>1, <2>1, <2>2 DEF CompareShape, CompareSteps
  <2>4. RunProgress' /\ BatchProgress' /\ Counted'
    BY <2>2 DEF RunProgress, BatchProgress, Counted
  <2>5. \A b \in DOMAIN Batches : SavedFits(b)'
    BY <2>1 DEF CompareIInv, SavedFits
  <2>6. ASSUME NEW b \in DOMAIN Batches, ~(totals.failed > 0)
        PROVE  saved[b].st = "saved" /\ saved[b].failed = <<>>
    <3>1. saved[b].st \in {"pending", "saved", "failed"} /\ saved[b].st # "pending"
      BY <1>1, <2>1 DEF Outcomes, Pending
    <3>2. ~FailedIn(b)
      BY <1>2, <2>1, <2>6 DEF Counted
    <3> QED BY <3>1, <3>2 DEF FailedIn
  <2>7. CompletedMeansAllSaved'
    BY <2>1, <2>2, <2>6 DEF CompletedMeansAllSaved, Pending
  <2>8. BuiltBy(batch', run'.decided)
    BY <1>2, <2>1
  <2> QED BY <2>3, <2>4, <2>5, <2>7, <2>8 DEF CompareIInv
<1>13. ASSUME NEW applied \in BOOLEAN, Fails(applied) PROVE CompareIInv'
  <2>1. /\ step = "failing" /\ step' = "done" /\ outcome' \in {outcome, "failed"}
        /\ UNCHANGED <<handling, batch, attempt, token, run, failure, totals, saved>>
    BY <1>13 DEF Fails
  <2>2. CompareShape'
    BY <1>1, <2>1 DEF CompareShape, CompareSteps
  <2>3. RunProgress' /\ BatchProgress' /\ Counted'
    BY <2>1 DEF RunProgress, BatchProgress, Counted
  <2>4. \A b \in DOMAIN Batches : SavedFits(b)'
    BY <2>1 DEF CompareIInv, SavedFits
  <2>5. CompletedMeansAllSaved'
    BY <2>1 DEF CompareIInv, CompletedMeansAllSaved, Pending
  <2>6. BuiltBy(batch', run'.decided)
    BY <1>2, <2>1
  <2> QED BY <2>2, <2>3, <2>4, <2>5, <2>6 DEF CompareIInv
<1>14. ASSUME Saved PROVE CompareIInv'
  <2>1. /\ step = "save" /\ token /\ saved' = [saved EXCEPT ![batch] = Result] /\ run' = NoRun
        /\ totals' = [done |-> totals.done + Len(run.decided), failed |-> totals.failed + Len(run.failed)]
        /\ step' \in {"failing", "claim"}
        /\ UNCHANGED <<handling, batch, attempt, token, failure, outcome>>
    BY <1>14 DEF Saved
  <2>2. run.current
    BY <1>2, <2>1 DEF RunProgress
  <2>3. /\ Result \in Outcomes /\ Result.st = "saved" /\ Result.failed = run.failed /\ Result.current
        /\ Ascending(Result.decided) /\ Len(Result.decided) + Len(Result.failed) = Len(Batches[batch])
        /\ batch \in DOMAIN Batches
    BY <2>1, <2>2, ResultFits
  <2>4. /\ saved' \in [DOMAIN Batches -> Outcomes] /\ \A b \in DOMAIN Batches : SavedFits(b)'
        /\ saved'[batch] = Result /\ \A b \in DOMAIN Batches \ {batch} : saved'[b] = saved[b]
    BY <2>1, <2>3, BatchWritten
  <2>5. /\ Len(run.decided) \in Nat /\ Len(run.failed) \in Nat
        /\ run.failed # <<>> => Len(run.failed) > 0
    BY <1>1 DEF Runs
  <2>6. totals' \in [done : Nat, failed : Nat]
    BY <1>1, <2>1, <2>5
  <2>7. totals'.failed = totals.failed + Len(run.failed) /\ totals.failed \in Nat
    BY <1>1, <2>1
  <2>8. CompareShape'
    BY <1>1, <2>1, <2>4, <2>6, FreshRun DEF CompareShape, CompareSteps
  <2>9. RunProgress' /\ BatchProgress' /\ BuiltBy(batch', run'.decided)
    BY <2>1, FreshRun DEF RunProgress, BatchProgress, NoRun
  <2>10. \A b \in DOMAIN Batches : FailedIn(b)' => totals'.failed > 0
    <3> TAKE b \in DOMAIN Batches
    <3>1. CASE b = batch
      BY <2>3, <2>4, <2>5, <2>7, <3>1 DEF FailedIn
    <3>2. CASE b # batch
      <4>1. FailedIn(b)' => totals.failed > 0
        BY <1>2, <2>1, <2>4, <3>2 DEF FailedIn, Counted
      <4> QED BY <2>5, <2>7, <4>1
    <3> QED BY <3>1, <3>2
  <2>11. Counted' /\ CompletedMeansAllSaved'
    BY <1>3, <2>1, <2>10 DEF Counted, CompletedMeansAllSaved
  <2> QED BY <2>4, <2>8, <2>9, <2>11 DEF CompareIInv
<1>15. ASSUME NEW applied \in BOOLEAN, SaveRaises(applied) PROVE CompareIInv'
  <2>1. /\ step = "save" /\ (applied => token) /\ failure' = "other" /\ step' = "failBatch"
        /\ saved' = IF applied THEN [saved EXCEPT ![batch] = Result] ELSE saved
        /\ UNCHANGED <<handling, batch, attempt, token, run, totals, outcome>>
    BY <1>15 DEF SaveRaises
  <2>2. CASE ~applied
    BY <2>1, <2>2, BatchLeft DEF Failures
  <2>3. CASE applied
    <3>1. run.current
      BY <1>2, <2>1, <2>3 DEF RunProgress
    <3>2. /\ Result \in Outcomes /\ Result.current
          /\ Ascending(Result.decided) /\ Len(Result.decided) + Len(Result.failed) = Len(Batches[batch])
          /\ batch \in DOMAIN Batches
      BY <2>1, <3>1, ResultFits
    <3>3. /\ saved' \in [DOMAIN Batches -> Outcomes] /\ \A b \in DOMAIN Batches : SavedFits(b)'
          /\ \A b \in DOMAIN Batches \ {batch} : saved'[b] = saved[b]
      BY <2>1, <2>3, <3>2, BatchWritten
    <3>4. CompareShape'
      BY <1>1, <2>1, <3>3 DEF CompareShape, CompareSteps, Failures
    <3>5. RunProgress' /\ BatchProgress' /\ BuiltBy(batch', run'.decided)
      BY <1>2, <2>1, <3>2 DEF RunProgress, BatchProgress
    <3>6. \A b \in DOMAIN Batches \ {batch} : FailedIn(b)' => totals'.failed > 0
      BY <1>2, <2>1, <3>3 DEF FailedIn, Counted
    <3>7. Counted' /\ CompletedMeansAllSaved'
      BY <1>3, <2>1, <3>6 DEF Counted, CompletedMeansAllSaved
    <3> QED BY <3>3, <3>4, <3>5, <3>7 DEF CompareIInv
  <2> QED BY <2>2, <2>3
<1>16. ASSUME NEW applied \in BOOLEAN, NEW answered \in BOOLEAN, FailBatch(applied, answered)
       PROVE  CompareIInv'
  <2>1. /\ step = "failBatch" /\ run' = NoRun /\ (answered => applied)
        /\ saved' = IF applied THEN [saved EXCEPT ![batch].st = "failed"] ELSE saved
        /\ totals' = [totals EXCEPT !.failed = @ + IF answered /\ failure # "quota" THEN Size ELSE 0]
        /\ step' = IF answered /\ ~EndsJob THEN "claim" ELSE "failing"
        /\ UNCHANGED <<handling, batch, attempt, token, failure, outcome>>
    BY <1>16 DEF FailBatch
  <2>2. batch \in DOMAIN Batches /\ Size \in Nat \ {0}
    BY <1>2, <1>4, <2>1 DEF BatchProgress, Size
  <2>3. /\ saved' \in [DOMAIN Batches -> Outcomes] /\ \A b \in DOMAIN Batches : SavedFits(b)'
        /\ \A b \in DOMAIN Batches \ {batch} : saved'[b] = saved[b]
    <3>1. CASE applied
      <4> DEFINE r == [saved[batch] EXCEPT !.st = "failed"]
      <4>1. r \in Outcomes /\ r.st = "failed"
        BY <1>1, <2>2 DEF Outcomes
      <4>2. saved' = [saved EXCEPT ![batch] = r]
        BY <1>1, <2>1, <2>2, <3>1
      <4> HIDE DEF r
      <4> QED BY <2>2, <4>1, <4>2, BatchWritten
    <3>2. CASE ~applied
      BY <1>1, <2>1, <3>2 DEF CompareIInv, SavedFits
    <3> QED BY <3>1, <3>2
  <2>4. /\ totals' \in [done : Nat, failed : Nat] /\ totals'.failed >= totals.failed
        /\ answered /\ failure # "quota" => totals'.failed > 0
    <3> DEFINE more == IF answered /\ failure # "quota" THEN Size ELSE 0
    <3>1. more \in Nat /\ (answered /\ failure # "quota" => more > 0)
      BY <2>2
    <3>2. totals' = [totals EXCEPT !.failed = @ + more]
      BY <2>1
    <3> HIDE DEF more
    <3>3. totals.failed \in Nat /\ totals'.failed = totals.failed + more
      BY <1>1, <3>2
    <3>4. totals' \in [done : Nat, failed : Nat]
      BY <1>1, <3>1, <3>2, <3>3
    <3> QED BY <3>1, <3>3, <3>4
  <2>5. CompareShape'
    BY <1>1, <2>1, <2>3, <2>4, FreshRun DEF CompareShape, CompareSteps
  <2>6. RunProgress' /\ BatchProgress' /\ BuiltBy(batch', run'.decided)
    BY <2>1, FreshRun DEF RunProgress, BatchProgress, NoRun
  <2>7. step' = "claim" => totals'.failed > 0
    BY <2>1, <2>4 DEF EndsJob
  <2>8. Counted' /\ CompletedMeansAllSaved'
    BY <1>3, <2>1, <2>7 DEF Counted, CompletedMeansAllSaved
  <2> QED BY <2>3, <2>5, <2>6, <2>8 DEF CompareIInv
<1> QED BY <1>5, <1>6, <1>7, <1>8, <1>9, <1>10, <1>11, <1>12, <1>13, <1>14, <1>15, <1>16 DEF Job

\* Every step of the comparison keeps the invariant, whoever takes it.
LEMMA CompareKeeps == CompareIInv /\ [CompareNext]_compare => CompareIInv'
<1> SUFFICES ASSUME CompareIInv, [CompareNext]_compare PROVE CompareIInv'
  OBVIOUS
<1>1. /\ step \in CompareSteps /\ handling \in Handlings /\ batch \in 0..Len(Batches)
      /\ token \in BOOLEAN /\ run \in Runs /\ failure \in Failures \union {"none"}
      /\ RunProgress /\ BatchProgress /\ Counted /\ BuiltBy(batch, run.decided)
  BY DEF CompareIInv, CompareShape
<1>2. outcome # "running" => step \in {"failing", "done"}
  BY <1>1 DEF Counted
<1>3. ASSUME Start PROVE CompareIInv'
  <2>1. /\ step = "idle" /\ step' = "claim" /\ handling' \in Handlings
        /\ UNCHANGED <<batch, attempt, token, run, failure, totals, saved, outcome>>
    BY <1>3 DEF Start
  <2>2. RunProgress' /\ BatchProgress' /\ "claim" \in CompareSteps
    BY <1>1, <2>1 DEF RunProgress, BatchProgress, CompareSteps
  <2> QED BY <1>1, <1>2, <2>1, <2>2, PlaceMoves
<1>4. ASSUME Edit PROVE CompareIInv'
  <2>1. /\ token' = FALSE /\ run' = [run EXCEPT !.current = FALSE]
        /\ UNCHANGED <<step, handling, batch, attempt, failure, totals, saved, outcome>>
    BY <1>4 DEF Edit
  <2>2. /\ run' \in Runs /\ run'.cursor = run.cursor /\ run'.decided = run.decided
        /\ run'.failed = run.failed /\ run'.len = run.len /\ run'.at = run.at /\ run'.kept = run.kept
    BY <1>1, <2>1 DEF Runs
  <2>3. (SegmentProgress => SegmentProgress') /\ (SinglesProgress => SinglesProgress')
    <3>1. KeptTogether => KeptTogether'
      BY <2>1, <2>2 DEF KeptTogether
    <3> QED BY <2>1, <2>2, <3>1 DEF SegmentProgress, SinglesProgress, Size
  <2>4. RunProgress'
    BY <1>1, <2>1, <2>2, <2>3 DEF RunProgress, Size
  <2>5. BatchProgress'
    BY <1>1, <2>1 DEF BatchProgress, Pending
  <2> QED BY <1>1, <1>2, <2>1, <2>2, <2>4, <2>5, PlaceMoves
<1>5. ASSUME UNCHANGED compare PROVE CompareIInv'
  <2>1. UNCHANGED <<step, handling, batch, token, run, failure, totals, saved, outcome>>
    BY <1>5 DEF compare
  <2>2. RunProgress' /\ BatchProgress'
    BY <1>1, <2>1 DEF RunProgress, BatchProgress, SegmentProgress, SinglesProgress, KeptTogether,
                      Size, Pending
  <2> QED BY <1>1, <1>2, <2>1, <2>2, PlaceMoves
<1> QED BY <1>3, <1>4, <1>5, JobKeeps DEF CompareNext

\* Any comparison, however its batches were cut, asked again, lost and saved, keeps the invariant.
THEOREM CompareInvariance == CompareSpec => []CompareIInv
<1>1. CompareInit => CompareIInv
  BY CompareStarts
<1>2. CompareIInv /\ [CompareNext]_compare => CompareIInv'
  BY CompareKeeps
<1> QED BY <1>1, <1>2, PTL DEF CompareSpec

\* Every decision of a batch was made on what stands in its slot when it is projected,
\* whatever answers were cut, rejected or asked for again (the projection of
\* execute_character_fact_comparison_batch).
THEOREM DecisionsBuilt == CompareSpec => []BuiltOnWhatStands
<1>1. CompareIInv => BuiltOnWhatStands
  <2> SUFFICES ASSUME CompareIInv PROVE BuiltOnWhatStands
    OBVIOUS
  <2>1. BuiltBy(batch, run.decided) /\ run.decided \in Seq(Decision)
    BY DEF CompareIInv, CompareShape, Runs
  <2>2. DOMAIN run.decided = 1..Len(run.decided)
    BY <2>1
  <2>3. \A c, r : Slot(r) = Slot(c) <=> SlotOf(batch, r) = SlotOf(batch, c)
    BY DEF Slot, SlotOf
  <2>4. SUFFICES ASSUME NEW k \in 1..Len(run.decided)
        PROVE  run.decided[k].seen =
                 {run.decided[j].ref : j \in {i \in 1..k - 1 :
                                                Slot(run.decided[i].ref) = Slot(run.decided[k].ref)}}
    BY <2>2 DEF BuiltOnWhatStands
  <2>5. {i \in 1..k - 1 : Slot(run.decided[i].ref) = Slot(run.decided[k].ref)}
          = {i \in 1..k - 1 : SlotOf(batch, run.decided[i].ref) = SlotOf(batch, run.decided[k].ref)}
    BY <2>3
  <2> QED BY <2>1, <2>5 DEF BuiltBy
<1> QED BY <1>1, CompareInvariance, PTL

\* Each candidate of a batch is decided or failed once, a save that is accepted holds
\* decisions on the character as it stands, and a job is completed only with everything
\* saved (_validate_batch_completion_coverage, the context token and the totals of the
\* pipeline).
THEOREM SavesHold == CompareSpec => []SavedInv
<1>1. CompareIInv => SavedInv
  <2> SUFFICES ASSUME CompareIInv PROVE SavedInv
    OBVIOUS
  <2>1. run \in Runs /\ saved \in [DOMAIN Batches -> Outcomes]
    BY DEF CompareIInv, CompareShape
  <2>2. ASSUME Compared PROVE Covered
    <3>1. step = "segment" /\ run.cursor >= Size /\ batch \in DOMAIN Batches /\ SegmentProgress
      BY <2>2 DEF Compared, CompareIInv, BatchProgress, RunProgress
    <3>2. Size \in Nat /\ run.cursor \in Nat
      BY <2>1, <3>1, BatchesAssumption DEF Size, Runs
    <3>3. run.cursor = Size
      BY <3>1, <3>2 DEF SegmentProgress
    <3>4. HandledBy(run.decided, run.failed, Size)
      BY <3>1, <3>3 DEF SegmentProgress
    <3> QED BY <2>1, <3>2, <3>4, HandledIsCovered
  <2>3. ASSUME NEW b \in DOMAIN Batches, saved[b].st = "saved"
        PROVE  /\ saved[b].current
               /\ \A i, j \in DOMAIN saved[b].decided :
                    i < j => saved[b].decided[i].ref < saved[b].decided[j].ref
               /\ Len(saved[b].decided) + Len(saved[b].failed) = Len(Batches[b])
    <3>1. saved[b].decided \in Seq(Decision)
      BY <2>1 DEF Outcomes
    <3>2. DOMAIN saved[b].decided = 1..Len(saved[b].decided)
      BY <3>1
    <3>3. SavedFits(b)
      BY DEF CompareIInv
    <3> QED BY <2>3, <3>2, <3>3 DEF SavedFits, Ascending
  <2>4. CompletedMeansAllSaved
    BY DEF CompareIInv
  <2> QED BY <2>2, <2>3, <2>4 DEF SavedInv, SavedAsCompared
<1> QED BY <1>1, CompareInvariance, PTL

-----------------------------------------------------------------------------
\* The recovery of a rejected answer: its invariant

Grades == {"ok", "failed", "retry"}
GroupRecords == [id : Nat, refs : SUBSET Sources, foot : Footprint, st : Grades]

\* The groups have numbers of their own, below some bound.
NumberedIn(gs) == \A g, h \in gs : g.id = h.id => g = h
BoundedIn(gs) == \E n \in Nat : \A g \in gs : g.id <= n

Apart(g, h) == g.refs \intersect h.refs = {}
ApartIn(gs) == \A g, h \in gs : g # h => Apart(g, h)

\* A footprint that is part of another one.
Covers(f, e) ==
  e.reads \subseteq f.reads /\ e.writes \subseteq f.writes /\ e.scopes \subseteq f.scopes

RecoveryTypes ==
  /\ groups \subseteq GroupRecords /\ retried \in [Sources -> Nat]
  /\ phase \in {"idle", "combined", "retry", "union", "done", "raised"}

\* While the rows are read they are numbered in turn.
RowsKept ==
  /\ phase = "idle" => /\ IsFiniteSet(groups) /\ Cardinality(groups) <= MaxRows
                       /\ \A g \in groups : g.id \in 1..Cardinality(groups)
  /\ phase \in {"idle", "combined"} => /\ tried = {} /\ \A s \in Sources : retried[s] = 0
                                       /\ \A g \in groups : g.st # "retry"

\* From then on every source is in a group; a row shares its sources with rejected rows
\* only, and later with none.
SourcesKept ==
  /\ phase \in {"combined", "retry", "union", "done"} => RefsOf(groups) = Sources
  /\ phase = "combined" => \A g, h \in groups : g.st = "ok" /\ g # h => Apart(g, h)
  /\ phase \in {"retry", "union", "done"} => ApartIn(groups)

\* What is still to be compared again has not been; what was is over, or failed in a
\* group that has the footprint.
RetriesKept ==
  /\ \A s \in Sources : retried[s] <= 1
  /\ phase = "retry" => \A g \in groups : g.st = "retry" => \A s \in g.refs : retried[s] = 0
  /\ phase \in {"union", "done"} => \A g \in groups : g.st # "retry"
  /\ phase = "done" => DependentsFailed
  /\ phase \in {"retry", "union", "done"} =>
       \A e \in tried : \E h \in Failed : Covers(h.foot, e)

RecoveryIInv ==
  /\ RecoveryTypes /\ NumberedIn(groups) /\ BoundedIn(groups)
  /\ RowsKept /\ SourcesKept /\ RetriesKept

-----------------------------------------------------------------------------
\* Dependencies and components

\* A dependency is mutual.
LEMMA DependentBoth == \A g, h : Dependent(g, h) <=> Dependent(h, g)
<1>1. \A p, q : Overlap(p, q) <=> Overlap(q, p)
  BY DEF Overlap
<1>2. \A f, e : Touches(f, e) <=> Touches(e, f)
  BY <1>1 DEF Touches
<1> QED BY <1>2 DEF Dependent

\* What touches nothing of a footprint touches nothing of a part of it.
LEMMA CoveredTouches ==
  ASSUME NEW f, NEW e, NEW g, Covers(f, e), ~Touches(g, f) PROVE ~Touches(g, e)
BY DEF Covers, Touches

\* The component of a group holds it, and nothing outside depends on it.
LEMMA ComponentCloses ==
  ASSUME NEW gs, NEW g \in gs
  PROVE  /\ g \in Component(gs, g) /\ Component(gs, g) \subseteq gs
         /\ Closed(gs, Component(gs, g))
<1>1. g \in Component(gs, g) /\ Component(gs, g) \subseteq gs
  BY DEF Component
<1>2. ASSUME NEW h \in Component(gs, g), NEW k \in gs \ Component(gs, g)
      PROVE  ~Dependent(h, k)
  <2>1. PICK part \in SUBSET gs : g \in part /\ Closed(gs, part) /\ k \notin part
    BY <1>2 DEF Component
  <2>2. h \in part
    BY <1>2, <2>1 DEF Component
  <2> QED BY <1>2, <2>1, <2>2 DEF Closed
<1> QED BY <1>1, <1>2 DEF Closed

\* Whichever group of a component is taken, its component is the same.
LEMMA ComponentOne ==
  ASSUME NEW gs, NEW g \in gs, NEW h \in Component(gs, g)
  PROVE  Component(gs, h) = Component(gs, g)
<1>1. h \in gs /\ Closed(gs, Component(gs, g)) /\ Component(gs, g) \subseteq gs
  BY ComponentCloses
<1>2. h \in Component(gs, h) /\ Closed(gs, Component(gs, h)) /\ Component(gs, h) \subseteq gs
  BY <1>1, ComponentCloses
<1>3. Component(gs, h) \subseteq Component(gs, g)
  BY <1>1 DEF Component
<1>4. g \in Component(gs, h)
  <2> SUFFICES ASSUME g \notin Component(gs, h) PROVE FALSE
    OBVIOUS
  <2> DEFINE rest == gs \ Component(gs, h)
  <2>1. g \in rest /\ rest \in SUBSET gs
    OBVIOUS
  <2>2. Closed(gs, rest)
    BY <1>2, DependentBoth DEF Closed
  <2>3. h \in rest
    BY <2>1, <2>2 DEF Component
  <2> QED BY <1>2, <2>3
<1>5. Component(gs, g) \subseteq Component(gs, h)
  BY <1>2, <1>4 DEF Component
<1> QED BY <1>3, <1>5

\* The components are parts of the whole that nothing connects.
LEMMA ComponentsApart ==
  ASSUME NEW gs
  PROVE  /\ UNION Components(gs) = gs
         /\ \A part \in Components(gs) : part # {} /\ part \subseteq gs
         /\ \A part \in Components(gs) : \A g \in part : part = Component(gs, g)
         /\ \A part, other \in Components(gs) : part # other =>
              \A g \in part, h \in other : g # h /\ ~Dependent(g, h)
<1>1. \A part \in Components(gs) : part # {} /\ part \subseteq gs
  BY ComponentCloses DEF Components
<1>2. UNION Components(gs) = gs
  <2>1. \A g \in gs : g \in Component(gs, g) /\ Component(gs, g) \in Components(gs)
    BY ComponentCloses DEF Components
  <2> QED BY <1>1, <2>1
<1>3. \A part \in Components(gs) : \A g \in part : part = Component(gs, g)
  BY ComponentOne DEF Components
<1>4. ASSUME NEW part \in Components(gs), NEW other \in Components(gs), part # other,
             NEW g \in part, NEW h \in other
      PROVE  g # h /\ ~Dependent(g, h)
  <2>1. part = Component(gs, g) /\ other = Component(gs, h)
    BY <1>3
  <2>2. g \in gs /\ h \in gs
    BY <1>1
  <2>3. h \notin part
    BY <1>3, <1>4, <2>1
  <2>4. Closed(gs, part)
    BY <2>1, <2>2, ComponentCloses
  <2> QED BY <2>2, <2>3, <2>4 DEF Closed
<1> QED BY <1>1, <1>2, <1>3, <1>4

-----------------------------------------------------------------------------
\* Groups that change their grade only

Graded(gs, grade) == {[g EXCEPT !.st = grade[g]] : g \in gs}
Same(g, h) == h.id = g.id /\ h.refs = g.refs /\ h.foot = g.foot

\* New grades leave the numbers, the sources and the footprints alone.
LEMMA GradedKeep ==
  ASSUME NEW gs \in SUBSET GroupRecords, NEW grade \in [gs -> Grades]
  PROVE  /\ Graded(gs, grade) \subseteq GroupRecords
         /\ \A h \in Graded(gs, grade) : \E g \in gs : Same(g, h) /\ h.st = grade[g]
         /\ \A g \in gs : \E h \in Graded(gs, grade) : Same(g, h) /\ h.st = grade[g]
         /\ RefsOf(Graded(gs, grade)) = RefsOf(gs)
         /\ NumberedIn(gs) => NumberedIn(Graded(gs, grade))
         /\ BoundedIn(gs) => BoundedIn(Graded(gs, grade))
         /\ ApartIn(gs) => ApartIn(Graded(gs, grade))
<1> DEFINE new(g) == [g EXCEPT !.st = grade[g]]
<1>1. ASSUME NEW g \in gs
      PROVE  new(g) \in GroupRecords /\ Same(g, new(g)) /\ new(g).st = grade[g]
  BY DEF GroupRecords, Same
<1>2. /\ \A g \in gs : new(g) \in Graded(gs, grade)
      /\ \A h \in Graded(gs, grade) : \E g \in gs : h = new(g)
  BY DEF Graded
<1> HIDE DEF new
<1>3. Graded(gs, grade) \subseteq GroupRecords
  BY <1>1, <1>2
<1>4. \A h \in Graded(gs, grade) : \E g \in gs : Same(g, h) /\ h.st = grade[g]
  BY <1>1, <1>2
<1>5. \A g \in gs : \E h \in Graded(gs, grade) : Same(g, h) /\ h.st = grade[g]
  BY <1>1, <1>2
<1>6. RefsOf(Graded(gs, grade)) = RefsOf(gs)
  BY <1>4, <1>5 DEF RefsOf, Same
<1>7. NumberedIn(gs) => NumberedIn(Graded(gs, grade))
  BY <1>1, <1>2 DEF NumberedIn, Same
<1>8. BoundedIn(gs) => BoundedIn(Graded(gs, grade))
  BY <1>4 DEF BoundedIn, Same
<1>9. ApartIn(gs) => ApartIn(Graded(gs, grade))
  BY <1>1, <1>2 DEF ApartIn, Apart, Same
<1> QED BY <1>3, <1>4, <1>5, <1>6, <1>7, <1>8, <1>9

-----------------------------------------------------------------------------
\* The rejected answer

\* The first row of an answer, or none.
LEMMA RecoveryStarts == ASSUME RecoveryInit PROVE RecoveryIInv
BY FS_EmptySet, RecoveryCallsAssumption, SourcesAssumption
   DEF RecoveryInit, RecoveryIInv, RecoveryTypes, NumberedIn, BoundedIn, RowsKept,
       SourcesKept, RetriesKept, Failed

\* Without rows the batch is one group.
LEMMA UnreadableStep ==
  ASSUME RecoveryIInv, Unreadable PROVE RecoveryIInv'
<1> DEFINE all == Group(1, Sources, Nothing, "retry")
<1>1. /\ all \in GroupRecords /\ all.id = 1 /\ all.refs = Sources /\ all.st = "retry"
  BY DEF Group, GroupRecords, Nothing, Footprint, Grades
<1>2. groups' = {all} /\ phase = "idle" /\ phase' = "retry" /\ UNCHANGED <<retried, tried>>
  BY DEF Unreadable
<1> HIDE DEF all
<1>3. RecoveryTypes' /\ NumberedIn(groups)' /\ BoundedIn(groups)'
  BY <1>1, <1>2 DEF RecoveryIInv, RecoveryTypes, NumberedIn, BoundedIn
<1>4. RowsKept' /\ SourcesKept'
  BY <1>1, <1>2 DEF RowsKept, SourcesKept, RefsOf, ApartIn
<1>5. RetriesKept'
  BY <1>1, <1>2 DEF RecoveryIInv, RowsKept, RetriesKept
<1> QED BY <1>3, <1>4, <1>5 DEF RecoveryIInv

\* A further row has a number of its own.
LEMMA RowStep ==
  ASSUME RecoveryIInv, NEW refs \in SUBSET Sources \ {{}}, NEW foot \in Footprints,
         NEW valid \in BOOLEAN, Row(refs, foot, valid)
  PROVE  RecoveryIInv'
<1> DEFINE n == Cardinality(groups)
           g == Group(n + 1, refs, foot, IF valid THEN "ok" ELSE "failed")
<1>1. /\ IsFiniteSet(groups) /\ n \in Nat /\ n < MaxRows /\ MaxRows \in Nat
      /\ \A h \in groups : h.id \in 1..n
  BY FS_CardinalityType, RecoveryCallsAssumption DEF RecoveryIInv, RowsKept, Row
<1>2. /\ groups' = groups \union {g} /\ phase = "idle" /\ phase' = "idle"
      /\ UNCHANGED <<retried, tried>>
  BY DEF Row
<1> HIDE DEF n
<1>3. g \in GroupRecords /\ g.id = n + 1 /\ g.st \in {"ok", "failed"}
  BY <1>1, FootprintsAssumption DEF Group, GroupRecords, Grades
<1> HIDE DEF g
<1>4. g \notin groups /\ \A h \in groups : h.id # g.id
  BY <1>1, <1>3
<1>5. IsFiniteSet(groups') /\ Cardinality(groups') = n + 1
  BY <1>1, <1>2, <1>4, FS_AddElement DEF n
<1>6. RecoveryTypes' /\ NumberedIn(groups)' /\ BoundedIn(groups)'
  <2>1. \A h \in groups' : h.id <= n + 1
    BY <1>1, <1>2, <1>3
  <2> QED BY <1>1, <1>2, <1>3, <1>4, <2>1 DEF RecoveryIInv, RecoveryTypes, NumberedIn, BoundedIn
<1>7. RowsKept'
  <2>1. \A h \in groups' : h.id \in 1..n + 1
    BY <1>1, <1>2, <1>3
  <2>2. \A h \in groups' : h.st # "retry"
    BY <1>2, <1>3 DEF RecoveryIInv, RowsKept
  <2>3. IsFiniteSet(groups') /\ Cardinality(groups') <= MaxRows
             /\ \A h \in groups' : h.id \in 1..Cardinality(groups')
    BY <1>1, <1>5, <2>1
  <2>4. tried' = {} /\ \A s \in Sources : retried'[s] = 0
    BY <1>2 DEF RecoveryIInv, RowsKept
  <2> QED BY <1>2, <2>2, <2>3, <2>4 DEF RowsKept
<1>8. SourcesKept' /\ RetriesKept'
  BY <1>2 DEF RecoveryIInv, SourcesKept, RetriesKept
<1> QED BY <1>6, <1>7, <1>8 DEF RecoveryIInv

\* The sources that no row names are in groups of their own, by setting.
LEMMA MissingGroups ==
  /\ Missing \subseteq GroupRecords /\ NumberedIn(Missing) /\ ApartIn(Missing)
  /\ \A g \in Missing : g.st = "failed" /\ g.id > MaxRows /\ g.refs \intersect RefsOf(groups) = {}
  /\ BoundedIn(Missing)
  /\ RefsOf(Missing) = Sources \ RefsOf(groups)
<1> DEFINE absent == Sources \ RefsOf(groups)
           unit(p) == {s \in absent : Unit[s] = p}
           paths == {Unit[s] : s \in absent}
           numbers == MaxRows + 1..MaxRows + Cardinality(paths)
           Fits(f) == \A p, q \in paths : p # q => f[p] # f[q]
           number == CHOOSE f \in [paths -> numbers] : Fits(f)
           group(p) == Group(number[p], unit(p), Nothing, "failed")
<1>1. Missing = {group(p) : p \in paths}
  BY DEF Missing
<1>2. IsFiniteSet(paths) /\ Cardinality(paths) \in Nat
  <2>1. IsFiniteSet(absent)
    BY SourcesAssumption, FS_Subset
  <2>2. [s \in absent |-> Unit[s]] \in Surjection(absent, paths)
    BY DEF Surjection
  <2> HIDE DEF absent, paths
  <2>3. IsFiniteSet(paths)
    BY <2>1, <2>2, FS_Surjection
  <2> QED BY <2>3, FS_CardinalityType
<1>3. MaxRows \in Nat
  BY RecoveryCallsAssumption
<1>4. \E f \in [paths -> numbers] : Fits(f)
  <2> HIDE DEF paths
  <2>1. IsFiniteSet(numbers) /\ Cardinality(numbers) = Cardinality(paths)
    BY <1>2, <1>3, FS_Interval
  <2>2. PICK f : f \in Bijection(paths, numbers)
    <3> HIDE DEF numbers
    <3>1. ExistsBijection(paths, numbers)
      BY <1>2, <2>1, FS_SameCardinalityBij
    <3> QED BY <3>1 DEF ExistsBijection
  <2> HIDE DEF numbers
  <2> QED BY <2>2 DEF Bijection, Injection, IsInjective
<1> HIDE DEF Fits
<1>5. number \in [paths -> numbers] /\ Fits(number)
  BY <1>4
<1> HIDE DEF number
<1>6. \A p \in paths : /\ number[p] \in Nat /\ number[p] > MaxRows
                       /\ number[p] <= MaxRows + Cardinality(paths)
  <2> HIDE DEF paths
  <2> QED BY <1>2, <1>3, <1>5
<1>7. \A p, q \in paths : number[p] = number[q] => p = q
  BY <1>5 DEF Fits
<1>8. ASSUME NEW p \in paths
      PROVE  /\ group(p) \in GroupRecords /\ group(p).id = number[p]
             /\ group(p).refs = unit(p) /\ group(p).st = "failed"
  BY <1>6 DEF Group, GroupRecords, Nothing, Footprint, Grades
<1>9. \A p, q \in paths : p # q => unit(p) \intersect unit(q) = {}
  OBVIOUS
<1>10. \A p \in paths : unit(p) \intersect RefsOf(groups) = {}
  OBVIOUS
<1>11. UNION {unit(p) : p \in paths} = absent
  OBVIOUS
<1>12. RefsOf(Missing) = UNION {unit(p) : p \in paths}
  <2> HIDE DEF paths, unit, group
  <2> QED BY <1>1, <1>8 DEF RefsOf
<1> HIDE DEF paths, unit, group
<1>13. Missing \subseteq GroupRecords /\ NumberedIn(Missing) /\ ApartIn(Missing)
  BY <1>1, <1>7, <1>8, <1>9 DEF NumberedIn, ApartIn, Apart
<1>14. \A g \in Missing : g.st = "failed" /\ g.id > MaxRows /\ g.refs \intersect RefsOf(groups) = {}
  BY <1>1, <1>6, <1>8, <1>10
<1>15. BoundedIn(Missing)
  <2>1. MaxRows + Cardinality(paths) \in Nat
    BY <1>2, <1>3
  <2> QED BY <1>1, <1>6, <1>8, <2>1 DEF BoundedIn
<1> QED BY <1>11, <1>12, <1>13, <1>14, <1>15

\* A group that keeps its grade keeps everything.
LEMMA SameGrade == ASSUME NEW g \in GroupRecords PROVE [g EXCEPT !.st = g.st] = g
BY DEF GroupRecords

\* The rows are read: those that share a source are rejected, and what they leave out is
\* rejected with them.
LEMMA RowsReadStep == ASSUME RecoveryIInv, RowsRead PROVE RecoveryIInv'
<1> DEFINE grade == [g \in groups |-> IF Duplicated(g) THEN "failed" ELSE g.st]
           rows == Graded(groups, grade)
<1>1. /\ groups \subseteq GroupRecords /\ NumberedIn(groups)
      /\ \A g \in groups : g.id <= MaxRows /\ g.st \in {"ok", "failed"}
      /\ tried = {} /\ \A s \in Sources : retried[s] = 0
  <2>1. groups \subseteq GroupRecords /\ phase = "idle"
    BY DEF RecoveryIInv, RecoveryTypes, RowsRead
  <2>2. Cardinality(groups) \in Nat /\ MaxRows \in Nat
    BY <2>1, FS_CardinalityType, RecoveryCallsAssumption DEF RecoveryIInv, RowsKept
  <2>3. \A g \in groups : g.id \in 1..Cardinality(groups) /\ Cardinality(groups) <= MaxRows
    BY <2>1 DEF RecoveryIInv, RowsKept
  <2>4. \A g \in groups : g.id <= MaxRows
    BY <2>2, <2>3
  <2>5. \A g \in groups : g.st \in {"ok", "failed"}
    BY <2>1 DEF RecoveryIInv, RowsKept, GroupRecords, Grades
  <2> QED BY <2>1, <2>4, <2>5 DEF RecoveryIInv, RowsKept
<1>2. grade \in [groups -> Grades]
  BY <1>1 DEF Grades
<1>3. groups' = rows \union Missing
  <2>1. \A g \in groups : (IF Duplicated(g) THEN [g EXCEPT !.st = "failed"] ELSE g)
                          = [g EXCEPT !.st = grade[g]]
    BY <1>1, SameGrade
  <2>2. {IF Duplicated(g) THEN [g EXCEPT !.st = "failed"] ELSE g : g \in groups} = rows
    <3> HIDE DEF grade
    <3> QED BY <2>1 DEF Graded
  <2> QED BY <2>2 DEF RowsRead
<1>4. phase' = "combined" /\ UNCHANGED <<calls, retried, tried>>
  BY DEF RowsRead
<1>5. \A g \in groups : /\ grade[g] \in {"ok", "failed"}
                        /\ grade[g] = "ok" => ~Duplicated(g)
  BY <1>1
<1> HIDE DEF grade
<1>6. /\ rows \subseteq GroupRecords /\ NumberedIn(rows) /\ RefsOf(rows) = RefsOf(groups)
      /\ \A h \in rows : \E g \in groups : Same(g, h) /\ h.st = grade[g]
  BY <1>1, <1>2, GradedKeep
<1> HIDE DEF rows
<1>7. \A h \in rows : h.id <= MaxRows /\ h.st # "retry" /\ h.refs \subseteq RefsOf(groups)
  BY <1>1, <1>5, <1>6 DEF Same, RefsOf
<1>8. /\ Missing \subseteq GroupRecords /\ NumberedIn(Missing) /\ ApartIn(Missing)
      /\ \A g \in Missing : g.st = "failed" /\ g.id > MaxRows /\ g.refs \intersect RefsOf(groups) = {}
      /\ BoundedIn(Missing)
      /\ RefsOf(Missing) = Sources \ RefsOf(groups)
  BY MissingGroups
<1> HIDE DEF Missing
<1>9. RecoveryTypes'
  BY <1>3, <1>4, <1>6, <1>8 DEF RecoveryIInv, RecoveryTypes
<1>10. NumberedIn(groups)'
  <2>1. \A g \in rows, h \in Missing : g.id # h.id
    BY <1>6, <1>7, <1>8, RecoveryCallsAssumption DEF GroupRecords
  <2> QED BY <1>3, <1>6, <1>8, <2>1 DEF NumberedIn
<1>11. BoundedIn(groups)'
  <2>1. PICK n \in Nat : \A g \in Missing : g.id <= n
    BY <1>8 DEF BoundedIn
  <2>2. n + MaxRows \in Nat
    BY RecoveryCallsAssumption
  <2>3. \A g \in groups' : g.id <= n + MaxRows
    BY <1>3, <1>6, <1>7, <1>8, <2>1, RecoveryCallsAssumption DEF GroupRecords
  <2> QED BY <2>2, <2>3 DEF BoundedIn
<1>12. RowsKept'
  BY <1>1, <1>3, <1>4, <1>7, <1>8 DEF RowsKept
<1>13. SourcesKept'
  <2>1. RefsOf(groups') = Sources
    <3>1. RefsOf(groups) \subseteq Sources
      BY <1>1 DEF RefsOf, GroupRecords
    <3>2. RefsOf(groups') = RefsOf(rows) \union RefsOf(Missing)
      BY <1>3 DEF RefsOf
    <3> QED BY <1>6, <1>8, <3>1, <3>2
  <2>2. ASSUME NEW g \in groups', NEW h \in groups', g.st = "ok", g # h PROVE Apart(g, h)
    <3>1. g \in rows
      BY <1>3, <1>8, <2>2
    <3>2. PICK e \in groups : Same(e, g) /\ grade[e] = "ok"
      BY <1>6, <2>2, <3>1
    <3>3. CASE h \in rows
      <4>1. PICK k \in groups : Same(k, h)
        BY <1>6, <3>3
      <4>2. k.id # e.id
        BY <1>6, <2>2, <3>1, <3>2, <3>3, <4>1 DEF NumberedIn, Same
      <4>3. k.refs \intersect e.refs = {}
        BY <1>5, <3>2, <4>1, <4>2 DEF Duplicated
      <4> QED BY <3>2, <4>1, <4>3 DEF Apart, Same
    <3>4. CASE h \in Missing
      BY <1>7, <1>8, <3>1, <3>4 DEF Apart
    <3> QED BY <1>3, <3>3, <3>4
  <2> QED BY <1>4, <2>1, <2>2 DEF SourcesKept
<1>14. RetriesKept'
  BY <1>1, <1>4 DEF RecoveryIInv, RetriesKept
<1> QED BY <1>9, <1>10, <1>11, <1>12, <1>13, <1>14 DEF RecoveryIInv

\* The rows that contradict each other are rejected.
LEMMA CombinedInvalidStep ==
  ASSUME RecoveryIInv, NEW affected \in SUBSET Successful, CombinedInvalid(affected)
  PROVE  RecoveryIInv'
<1> DEFINE grade == [g \in groups |-> IF g \in affected THEN "failed" ELSE g.st]
<1>1. groups \subseteq GroupRecords /\ phase = "combined"
  BY DEF RecoveryIInv, RecoveryTypes, CombinedInvalid
<1>2. grade \in [groups -> Grades]
  BY <1>1 DEF Grades, GroupRecords
<1>3. groups' = Graded(groups, grade) /\ phase' = "combined" /\ UNCHANGED <<calls, retried, tried>>
  <2>1. affected \subseteq groups
    BY DEF Successful
  <2>2. \A g \in groups \ affected : g = [g EXCEPT !.st = grade[g]]
    BY <1>1, SameGrade
  <2>3. \A g \in affected : [g EXCEPT !.st = "failed"] = [g EXCEPT !.st = grade[g]]
    BY <2>1
  <2> HIDE DEF grade
  <2>4. (groups \ affected) \union Became(affected, "failed") = Graded(groups, grade)
    BY <2>1, <2>2, <2>3 DEF Graded, Became
  <2> QED BY <1>1, <2>4 DEF CombinedInvalid
<1>4. \A g \in groups : /\ grade[g] # "retry" 
                        /\ grade[g] = "ok" => g.st = "ok"
  BY <1>1 DEF RecoveryIInv, RowsKept
<1> HIDE DEF grade
<1>5. /\ groups' \subseteq GroupRecords /\ RefsOf(groups') = RefsOf(groups)
      /\ NumberedIn(groups') /\ BoundedIn(groups')
      /\ \A h \in groups' : \E g \in groups : Same(g, h) /\ h.st = grade[g]
  BY <1>1, <1>2, <1>3, GradedKeep DEF RecoveryIInv
<1>6. RecoveryTypes' /\ NumberedIn(groups)' /\ BoundedIn(groups)'
  BY <1>3, <1>5 DEF RecoveryIInv, RecoveryTypes, NumberedIn, BoundedIn
<1>7. RowsKept'
  BY <1>1, <1>3, <1>4, <1>5 DEF RecoveryIInv, RowsKept
<1>8. SourcesKept'
  <2>1. ASSUME NEW g \in groups', NEW h \in groups', g.st = "ok", g # h PROVE Apart(g, h)
    <3>1. PICK e \in groups : Same(e, g) /\ grade[e] = "ok"
      BY <1>5, <2>1
    <3>2. PICK k \in groups : Same(k, h)
      BY <1>5
    <3>3. e # k
      BY <1>5, <2>1, <3>1, <3>2 DEF NumberedIn, Same
    <3> QED BY <1>1, <1>4, <3>1, <3>2, <3>3 DEF RecoveryIInv, SourcesKept, Apart, Same
  <2> QED BY <1>1, <1>3, <1>5, <2>1 DEF RecoveryIInv, SourcesKept
<1>9. RetriesKept'
  BY <1>3 DEF RecoveryIInv, RetriesKept
<1> QED BY <1>6, <1>7, <1>8, <1>9 DEF RecoveryIInv

\* What becomes of a component: it stays, or is one group with all its sources.
LEMMA JointFacts ==
  ASSUME NEW gs \in SUBSET GroupRecords, NumberedIn(gs), BoundedIn(gs),
         \A g, h \in gs : g.st = "ok" /\ g # h => Apart(g, h),
         NEW part \in SUBSET gs, part # {}
  PROVE  /\ Joint(part) \subseteq GroupRecords /\ NumberedIn(Joint(part)) /\ ApartIn(Joint(part))
         /\ RefsOf(Joint(part)) = RefsOf(part)
         /\ \A h \in Joint(part) : \E g \in part : h.id = g.id
<1>1. CASE \A g \in part : g.st = "ok"
  <2>1. Joint(part) = part
    BY <1>1 DEF Joint
  <2> QED BY <1>1, <2>1 DEF NumberedIn, ApartIn
<1>2. CASE ~(\A g \in part : g.st = "ok")
  <2> DEFINE First(g) == \A h \in part : g.id <= h.id
             first == CHOOSE g \in part : First(g)
             one == Group(first.id, RefsOf(part), MergedOf(part), "retry")
  <2>1. \E g \in part : First(g)
    <3> DEFINE ids == {g.id : g \in part}
    <3>1. PICK n \in Nat : \A g \in gs : g.id <= n
      BY DEF BoundedIn
    <3>2. ids \in SUBSET (0..n) /\ ids # {}
      BY <3>1 DEF GroupRecords
    <3> HIDE DEF ids
    <3>3. \E m \in ids : \A i \in ids : m <= i
      BY <3>1, <3>2, Least
    <3> QED BY <3>3 DEF ids
  <2> HIDE DEF First
  <2>2. first \in part
    BY <2>1
  <2> HIDE DEF first
  <2>3. Joint(part) = {one}
    BY <1>2 DEF Joint, first, First
  <2>4. RefsOf(part) \subseteq Sources /\ MergedOf(part) \in Footprint
    BY DEF RefsOf, MergedOf, Footprint, GroupRecords
  <2>5. one \in GroupRecords /\ one.id = first.id /\ one.refs = RefsOf(part)
    BY <2>2, <2>4 DEF Group, GroupRecords, Grades
  <2> HIDE DEF one
  <2>6. RefsOf({one}) = one.refs
    BY DEF RefsOf
  <2> QED BY <2>2, <2>3, <2>5, <2>6 DEF NumberedIn, ApartIn
<1> QED BY <1>1, <1>2

\* The components with a rejected row are to be compared again.
LEMMA CombinedValidStep == ASSUME RecoveryIInv, CombinedValid PROVE RecoveryIInv'
<1>1. /\ groups \in SUBSET GroupRecords /\ NumberedIn(groups) /\ BoundedIn(groups)
      /\ \A g, h \in groups : g.st = "ok" /\ g # h => Apart(g, h)
      /\ tried = {} /\ (\A s \in Sources : retried[s] = 0) /\ RefsOf(groups) = Sources
  BY DEF RecoveryIInv, RecoveryTypes, RowsKept, SourcesKept, CombinedValid
<1>2. /\ groups' = UNION {Joint(part) : part \in Components(groups)} /\ phase' = "retry"
      /\ UNCHANGED <<calls, retried, tried>>
  BY DEF CombinedValid
<1>3. /\ UNION Components(groups) = groups
      /\ \A part \in Components(groups) : part # {} /\ part \subseteq groups
      /\ \A part, other \in Components(groups) : part # other =>
           \A g \in part, h \in other : g # h /\ ~Dependent(g, h)
  BY ComponentsApart
<1>4. \A part \in Components(groups) :
        /\ Joint(part) \subseteq GroupRecords /\ NumberedIn(Joint(part)) /\ ApartIn(Joint(part))
        /\ RefsOf(Joint(part)) = RefsOf(part)
        /\ \A h \in Joint(part) : \E g \in part : h.id = g.id
  BY <1>1, <1>3, JointFacts
<1>5. \A h \in groups' : \E part \in Components(groups) : h \in Joint(part)
  BY <1>2
<1>6. RecoveryTypes'
  BY <1>2, <1>4, <1>5 DEF RecoveryIInv, RecoveryTypes
<1>7. NumberedIn(groups)'
  <2>1. ASSUME NEW g \in groups', NEW h \in groups', g.id = h.id PROVE g = h
    <3>1. PICK part \in Components(groups) : g \in Joint(part)
      BY <1>5
    <3>2. PICK other \in Components(groups) : h \in Joint(other)
      BY <1>5
    <3>3. PICK e \in part, k \in other : e.id = g.id /\ k.id = h.id
      BY <1>4, <3>1, <3>2
    <3>4. e = k
      BY <1>1, <1>3, <2>1, <3>3 DEF NumberedIn
    <3>5. part = other
      BY <1>3, <3>3, <3>4
    <3> QED BY <1>4, <2>1, <3>1, <3>2, <3>5 DEF NumberedIn
  <2> QED BY <2>1 DEF NumberedIn
<1>8. BoundedIn(groups)'
  <2>1. PICK n \in Nat : \A g \in groups : g.id <= n
    BY <1>1 DEF BoundedIn
  <2>2. \A h \in groups' : h.id <= n
    BY <1>3, <1>4, <1>5, <2>1
  <2> QED BY <2>2 DEF BoundedIn
<1>9. RefsOf(groups') = Sources
  <2>1. RefsOf(groups') = UNION {RefsOf(Joint(part)) : part \in Components(groups)}
    BY <1>2 DEF RefsOf
  <2>2. RefsOf(groups) = UNION {RefsOf(part) : part \in Components(groups)}
    BY <1>3 DEF RefsOf
  <2> QED BY <1>1, <1>4, <2>1, <2>2
<1>10. ApartIn(groups')
  <2>1. ASSUME NEW g \in groups', NEW h \in groups', g # h PROVE Apart(g, h)
    <3>1. PICK part \in Components(groups) : g \in Joint(part)
      BY <1>5
    <3>2. PICK other \in Components(groups) : h \in Joint(other)
      BY <1>5
    <3>3. CASE part = other
      BY <1>4, <2>1, <3>1, <3>2, <3>3 DEF ApartIn
    <3>4. CASE part # other
      <4>1. \A e \in part, k \in other : e.refs \intersect k.refs = {}
        BY <1>3, <3>4 DEF Dependent
      <4>2. g.refs \subseteq RefsOf(part) /\ h.refs \subseteq RefsOf(other)
        BY <1>4, <3>1, <3>2 DEF RefsOf
      <4>3. RefsOf(part) \intersect RefsOf(other) = {}
        BY <4>1 DEF RefsOf
      <4> QED BY <4>2, <4>3 DEF Apart
    <3> QED BY <3>3, <3>4
  <2> QED BY <2>1 DEF ApartIn
<1>11. RowsKept' /\ SourcesKept'
  BY <1>2, <1>9, <1>10 DEF RowsKept, SourcesKept
<1>12. RetriesKept'
  <2>1. \A g \in groups' : \A s \in g.refs : s \in Sources
    BY <1>6 DEF RecoveryTypes, GroupRecords
  <2> QED BY <1>1, <1>2, <2>1 DEF RecoveryIInv, RetriesKept
<1> QED BY <1>6, <1>7, <1>8, <1>11, <1>12 DEF RecoveryIInv

-----------------------------------------------------------------------------
\* The second comparison of a joint group

\* A group that was compared again, or found no call left, has its sources and is never
\* compared once more; if it failed it covers what was tried on it.
LEMMA RetryStep ==
  ASSUME RecoveryIInv, phase = "retry", phase' = "retry",
         NEW g \in groups, g.st = "retry",
         NEW h \in GroupRecords, h.id = g.id, h.refs = g.refs, h.st # "retry",
         groups' = (groups \ {g}) \union {h},
         \/ retried' = retried
         \/ retried' = [s \in Sources |-> retried[s] + IF s \in g.refs THEN 1 ELSE 0],
         \A e \in tried' : e \in tried \/ (h.st = "failed" /\ Covers(h.foot, e))
  PROVE  RecoveryIInv'
<1>1. /\ groups \subseteq GroupRecords /\ NumberedIn(groups) /\ ApartIn(groups)
      /\ RefsOf(groups) = Sources /\ retried \in [Sources -> Nat]
      /\ \A s \in Sources : retried[s] <= 1
      /\ \A k \in groups : k.st = "retry" => \A s \in k.refs : retried[s] = 0
      /\ \A e \in tried : \E k \in Failed : Covers(k.foot, e)
  BY DEF RecoveryIInv, RecoveryTypes, SourcesKept, RetriesKept
<1>2. /\ retried' \in [Sources -> Nat]
      /\ \A s \in Sources \ g.refs : retried'[s] = retried[s]
      /\ \A s \in Sources : retried'[s] <= 1
  BY <1>1
<1>3. RecoveryTypes'
  BY <1>1, <1>2 DEF RecoveryTypes
<1>4. NumberedIn(groups)' /\ BoundedIn(groups)'
  <2>1. NumberedIn(groups)'
    BY <1>1 DEF NumberedIn
  <2>2. BoundedIn(groups)'
    BY DEF RecoveryIInv, BoundedIn
  <2> QED BY <2>1, <2>2
<1>5. RowsKept' /\ SourcesKept'
  <2>1. RefsOf(groups') = RefsOf(groups)
    BY DEF RefsOf
  <2>2. ApartIn(groups')
    BY <1>1 DEF ApartIn, Apart
  <2> QED BY <1>1, <2>1, <2>2 DEF RowsKept, SourcesKept
<1>6. RetriesKept'
  <2>1. ASSUME NEW k \in groups', k.st = "retry", NEW s \in k.refs PROVE retried'[s] = 0
    <3>1. k \in groups /\ k # g
      BY <2>1
    <3>2. s \in Sources \ g.refs
      BY <1>1, <2>1, <3>1 DEF ApartIn, Apart, GroupRecords
    <3> QED BY <1>1, <1>2, <2>1, <3>1, <3>2
  <2>2. ASSUME NEW e \in tried' PROVE \E k \in Failed' : Covers(k.foot, e)
    <3>1. CASE e \in tried
      <4>1. PICK k \in Failed : Covers(k.foot, e)
        BY <1>1, <3>1
      <4>2. k \in Failed'
        BY <4>1 DEF Failed
      <4> QED BY <4>1, <4>2
    <3>2. CASE e \notin tried
      <4>1. h \in Failed' /\ Covers(h.foot, e)
        BY <2>2, <3>2 DEF Failed
      <4> QED BY <4>1
    <3> QED BY <3>1, <3>2
  <2> QED BY <1>2, <2>1, <2>2 DEF RetriesKept
<1> QED BY <1>3, <1>4, <1>5, <1>6 DEF RecoveryIInv

\* One recovery call is made, or raises, or none is left; then the groups are united.
LEMMA RetryingStep ==
  ASSUME RecoveryIInv,
         \/ \E g \in groups : \/ RetryRaises(g) \/ NoCallLeft(g)
                              \/ \E foot \in Footprints : RetryValid(g, foot) \/ RetryInvalid(g, foot)
         \/ RetriesDone
  PROVE  RecoveryIInv'
<1>1. groups \subseteq GroupRecords
  BY DEF RecoveryIInv, RecoveryTypes
<1>2. Footprints \subseteq Footprint
  BY FootprintsAssumption
<1>3. ASSUME NEW g \in groups, NEW foot \in Footprints, RetryValid(g, foot) PROVE RecoveryIInv'
  <2> DEFINE h == [g EXCEPT !.foot = foot, !.st = "ok"]
  <2>1. h \in GroupRecords /\ h.id = g.id /\ h.refs = g.refs /\ h.st = "ok"
    BY <1>1, <1>2 DEF GroupRecords, Grades
  <2>2. groups' = (groups \ {g}) \union {h}
    BY <1>3 DEF RetryValid
  <2> HIDE DEF h
  <2>3. /\ phase = "retry" /\ phase' = "retry" /\ g.st = "retry" /\ tried' = tried
        /\ retried' = [s \in Sources |-> retried[s] + IF s \in g.refs THEN 1 ELSE 0]
    BY <1>3 DEF RetryValid, Retries
  <2> QED BY <2>1, <2>2, <2>3, RetryStep
<1>4. ASSUME NEW g \in groups, NEW foot \in Footprints, RetryInvalid(g, foot) PROVE RecoveryIInv'
  <2> DEFINE h == [g EXCEPT !.foot = Merged(@, foot), !.st = "failed"]
  <2>1. g.foot \in Footprint /\ foot \in Footprint
    BY <1>1, <1>2 DEF GroupRecords
  <2>2. Merged(g.foot, foot) \in Footprint
    BY <2>1 DEF Merged, Footprint
  <2>3. /\ h \in GroupRecords /\ h.id = g.id /\ h.refs = g.refs /\ h.st = "failed"
        /\ h.foot = Merged(g.foot, foot)
    BY <1>1, <2>2 DEF GroupRecords, Grades
  <2>4. groups' = (groups \ {g}) \union {h}
    BY <1>4 DEF RetryInvalid
  <2> HIDE DEF h
  <2>5. Covers(h.foot, g.foot) /\ Covers(h.foot, foot)
    BY <2>3 DEF Covers, Merged
  <2>6. /\ phase = "retry" /\ phase' = "retry" /\ g.st = "retry"
        /\ tried' = tried \union {g.foot, foot}
        /\ retried' = [s \in Sources |-> retried[s] + IF s \in g.refs THEN 1 ELSE 0]
    BY <1>4 DEF RetryInvalid, Retries
  <2>7. \A e \in tried' : e \in tried \/ (h.st = "failed" /\ Covers(h.foot, e))
    BY <2>3, <2>5, <2>6
  <2> QED BY <2>3, <2>4, <2>6, <2>7, RetryStep
<1>5. ASSUME NEW g \in groups, NoCallLeft(g) PROVE RecoveryIInv'
  <2> DEFINE h == [g EXCEPT !.st = "failed"]
  <2>1. /\ h \in GroupRecords /\ h.id = g.id /\ h.refs = g.refs /\ h.st = "failed"
        /\ h.foot = g.foot
    BY <1>1 DEF GroupRecords, Grades
  <2>2. groups' = (groups \ {g}) \union {h}
    BY <1>5 DEF NoCallLeft
  <2> HIDE DEF h
  <2>3. /\ phase = "retry" /\ phase' = "retry" /\ g.st = "retry" /\ retried' = retried
        /\ tried' = tried \union {g.foot}
    BY <1>5 DEF NoCallLeft
  <2>4. Covers(h.foot, g.foot)
    BY <2>1 DEF Covers
  <2>5. \A e \in tried' : e \in tried \/ (h.st = "failed" /\ Covers(h.foot, e))
    BY <2>1, <2>3, <2>4
  <2> QED BY <2>1, <2>2, <2>3, <2>5, RetryStep
<1>6. ASSUME NEW g \in groups, RetryRaises(g) PROVE RecoveryIInv'
  <2>1. /\ phase' = "raised" /\ UNCHANGED <<groups, tried>> /\ phase = "retry" /\ g.st = "retry"
        /\ retried' = [s \in Sources |-> retried[s] + IF s \in g.refs THEN 1 ELSE 0]
    BY <1>6 DEF RetryRaises, Retries
  <2>2. /\ retried \in [Sources -> Nat] /\ (\A s \in Sources : retried[s] <= 1)
        /\ \A s \in g.refs : retried[s] = 0
    BY <2>1 DEF RecoveryIInv, RecoveryTypes, RetriesKept
  <2>3. retried' \in [Sources -> Nat] /\ \A s \in Sources : retried'[s] <= 1
    BY <2>1, <2>2
  <2> QED BY <2>1, <2>3 DEF RecoveryIInv, RecoveryTypes, NumberedIn, BoundedIn, RowsKept,
                            SourcesKept, RetriesKept
<1>7. CASE RetriesDone
  BY <1>7 DEF RetriesDone, RecoveryIInv, RecoveryTypes, NumberedIn, BoundedIn, RowsKept,
              SourcesKept, RetriesKept, ApartIn, Failed
<1> QED BY <1>3, <1>4, <1>5, <1>6, <1>7

-----------------------------------------------------------------------------
\* The union of what is left

\* The parts that meet the bad groups fail as a whole.
LEMMA PartsGraded ==
  ASSUME NEW gs \in SUBSET GroupRecords, NEW bad
  PROVE  UNION {IF part \intersect bad # {} THEN Became(part, "failed") ELSE part :
                  part \in Components(gs)}
         = Graded(gs, [g \in gs |-> IF Component(gs, g) \intersect bad # {} THEN "failed" ELSE g.st])
<1> DEFINE grade == [g \in gs |-> IF Component(gs, g) \intersect bad # {} THEN "failed" ELSE g.st]
           After(part) == IF part \intersect bad # {} THEN Became(part, "failed") ELSE part
           Parts == {After(part) : part \in Components(gs)}
<1>1. /\ UNION Components(gs) = gs
      /\ \A part \in Components(gs) : part \subseteq gs
      /\ \A part \in Components(gs) : \A g \in part : part = Component(gs, g)
  BY ComponentsApart
<1>2. ASSUME NEW part \in Components(gs)
      PROVE  After(part) = {[g EXCEPT !.st = grade[g]] : g \in part}
  <2>1. \A g \in part : g \in gs /\ Component(gs, g) = part
    BY <1>1
  <2>2. CASE part \intersect bad # {}
    <3>1. \A g \in part : grade[g] = "failed"
      BY <2>1, <2>2
    <3> HIDE DEF grade
    <3> QED BY <2>2, <3>1 DEF Became
  <2>3. CASE part \intersect bad = {}
    <3>1. \A g \in part : grade[g] = g.st
      BY <2>1, <2>3
    <3>2. \A g \in part : [g EXCEPT !.st = grade[g]] = g
      BY <2>1, <3>1, SameGrade
    <3> HIDE DEF grade
    <3> QED BY <2>3, <3>2
  <2> QED BY <2>2, <2>3
<1> HIDE DEF grade, After
<1>3. UNION Parts \subseteq Graded(gs, grade)
  BY <1>1, <1>2 DEF Graded
<1>4. Graded(gs, grade) \subseteq UNION Parts
  <2>1. ASSUME NEW g \in gs PROVE [g EXCEPT !.st = grade[g]] \in UNION Parts
    <3>1. PICK part \in Components(gs) : g \in part
      BY <1>1
    <3> QED BY <1>2, <3>1
  <2> QED BY <2>1 DEF Graded
<1>5. UNION Parts = Graded(gs, grade)
  BY <1>3, <1>4
<1> QED BY <1>5 DEF grade, After

\* Groups that fail in the end leave the sources where they are.
LEMMA UnionStep ==
  ASSUME RecoveryIInv, phase = "union", phase' = "union", UNCHANGED <<retried, tried>>,
         NEW grade \in [groups -> {"ok", "failed"}], groups' = Graded(groups, grade),
         \A g \in Failed : grade[g] = "failed"
  PROVE  RecoveryIInv'
<1>1. groups \in SUBSET GroupRecords /\ grade \in [groups -> Grades]
  BY DEF RecoveryIInv, RecoveryTypes, Grades
<1>2. /\ groups' \subseteq GroupRecords /\ RefsOf(groups') = RefsOf(groups)
      /\ NumberedIn(groups') /\ BoundedIn(groups') /\ ApartIn(groups')
      /\ \A h \in groups' : \E g \in groups : Same(g, h) /\ h.st = grade[g]
      /\ \A g \in groups : \E h \in groups' : Same(g, h) /\ h.st = grade[g]
  BY <1>1, GradedKeep DEF RecoveryIInv, SourcesKept
<1>3. RecoveryTypes' /\ NumberedIn(groups)' /\ BoundedIn(groups)'
  BY <1>2 DEF RecoveryIInv, RecoveryTypes, NumberedIn, BoundedIn
<1>4. RowsKept' /\ SourcesKept'
  BY <1>2 DEF RecoveryIInv, RowsKept, SourcesKept
<1>5. RetriesKept'
  <2>1. \A h \in groups' : h.st # "retry"
    BY <1>2
  <2>2. ASSUME NEW e \in tried' PROVE \E h \in Failed' : Covers(h.foot, e)
    <3>1. PICK g \in Failed : Covers(g.foot, e)
      BY <2>2 DEF RecoveryIInv, RetriesKept
    <3>2. g \in groups /\ grade[g] = "failed"
      BY <3>1 DEF Failed
    <3>3. PICK h \in groups' : Same(g, h) /\ h.st = "failed"
      BY <1>2, <3>2
    <3>4. h \in Failed' /\ Covers(h.foot, e)
      BY <3>1, <3>3 DEF Failed, Same
    <3> QED BY <3>4
  <2> QED BY <2>1, <2>2 DEF RecoveryIInv, RetriesKept
<1> QED BY <1>3, <1>4, <1>5 DEF RecoveryIInv

\* What depends on a failed group fails with it.
LEMMA DependentsFailStep == ASSUME RecoveryIInv, DependentsFail PROVE RecoveryIInv'
<1> DEFINE grade == [g \in groups |->
                       IF Component(groups, g) \intersect Failed # {} THEN "failed" ELSE g.st]
<1>1. groups \in SUBSET GroupRecords /\ \A g \in groups : g.st # "retry"
  BY DEF RecoveryIInv, RecoveryTypes, RetriesKept, DependentsFail
<1>2. groups' = Graded(groups, grade)
  BY <1>1, PartsGraded DEF DependentsFail
<1>3. grade \in [groups -> {"ok", "failed"}]
  BY <1>1 DEF GroupRecords, Grades
<1>4. \A g \in Failed : grade[g] = "failed"
  BY ComponentCloses DEF Failed
<1> HIDE DEF grade
<1> QED BY <1>2, <1>3, <1>4, UnionStep DEF DependentsFail

\* What contradicts the rest of the decisions fails with all that depends on it.
LEMMA UnionInvalidStep ==
  ASSUME RecoveryIInv, NEW invalid \in SUBSET Successful, UnionInvalid(invalid)
  PROVE  RecoveryIInv'
<1> DEFINE kept == [g \in Successful |->
                      IF Component(Successful, g) \intersect invalid # {} THEN "failed" ELSE g.st]
           grade == [g \in groups |-> IF g \in Successful THEN kept[g] ELSE "failed"]
<1>1. /\ groups \in SUBSET GroupRecords /\ Successful \in SUBSET GroupRecords
      /\ groups = Failed \union Successful /\ Failed \intersect Successful = {}
  BY DEF RecoveryIInv, RecoveryTypes, RetriesKept, UnionInvalid, Successful, Failed,
         GroupRecords, Grades
<1>2. groups' = Failed \union Graded(Successful, kept)
  BY <1>1, PartsGraded DEF UnionInvalid
<1>3. \A g \in Successful : kept[g] \in {"ok", "failed"}
  BY DEF Successful
<1> HIDE DEF kept
<1>4. Graded(groups, grade) = Failed \union Graded(Successful, kept)
  <2>1. \A g \in Failed : [g EXCEPT !.st = grade[g]] = g
    BY <1>1, SameGrade DEF Failed
  <2>2. \A g \in Successful : grade[g] = kept[g]
    BY <1>1
  <2> HIDE DEF grade
  <2> QED BY <1>1, <2>1, <2>2 DEF Graded
<1>5. grade \in [groups -> {"ok", "failed"}] /\ \A g \in Failed : grade[g] = "failed"
  BY <1>1, <1>3
<1> HIDE DEF grade
<1> QED BY <1>2, <1>4, <1>5, UnionStep DEF UnionInvalid

-----------------------------------------------------------------------------
\* What a recovery answers

\* Every step of a recovery keeps its invariant.
LEMMA RecoverySteps == ASSUME RecoveryIInv, [RecoveryNext]_recovery PROVE RecoveryIInv'
<1>1. CASE UnionValid
  BY <1>1 DEF UnionValid, RecoveryIInv, RecoveryTypes, NumberedIn, BoundedIn, RowsKept,
              SourcesKept, RetriesKept, ApartIn, Failed, DependentsFailed, Successful
<1>2. CASE UNCHANGED recovery
  BY <1>2 DEF recovery, RecoveryIInv, RecoveryTypes, NumberedIn, BoundedIn, RowsKept,
              SourcesKept, RetriesKept, ApartIn, Failed, DependentsFailed, Successful
<1>3. CASE \E refs \in SUBSET Sources \ {{}}, foot \in Footprints, valid \in BOOLEAN :
             Row(refs, foot, valid)
  BY <1>3, RowStep
<1>4. CASE \E some \in SUBSET Successful : CombinedInvalid(some) \/ UnionInvalid(some)
  BY <1>4, CombinedInvalidStep, UnionInvalidStep
<1>5. CASE \/ \E g \in groups :
                \/ RetryRaises(g) \/ NoCallLeft(g)
                \/ \E foot \in Footprints : RetryValid(g, foot) \/ RetryInvalid(g, foot)
           \/ RetriesDone
  BY <1>5, RetryingStep
<1>6. CASE Unreadable \/ RowsRead \/ CombinedValid \/ DependentsFail
  BY <1>6, UnreadableStep, RowsReadStep, CombinedValidStep, DependentsFailStep
<1> QED BY <1>1, <1>2, <1>3, <1>4, <1>5, <1>6 DEF RecoveryNext

\* What the invariant says of the end of a recovery: a kept group is in a component without
\* a failed one, and what was tried is part of a failed group.
LEMMA RecoveryMeans == ASSUME RecoveryIInv PROVE RecoveryInv
<1>1. SourcesOnce
  <2>1. ASSUME NEW g \in groups, NEW h \in groups, g.id # h.id, phase = "done"
        PROVE  g.refs \intersect h.refs = {}
    BY <2>1 DEF RecoveryIInv, SourcesKept, ApartIn, Apart
  <2> QED BY <2>1 DEF SourcesOnce, RecoveryIInv, SourcesKept, RetriesKept
<1>2. NoOrphans
  <2> SUFFICES ASSUME phase = "done", NEW g \in Successful,
                      NEW f \in tried \union {h.foot : h \in Failed}
               PROVE  ~Touches(g.foot, f)
    BY DEF NoOrphans
  <2>1. ASSUME NEW h \in Failed PROVE ~Touches(g.foot, h.foot)
    <3>1. /\ g \in groups /\ h \in groups /\ g \notin Failed /\ h \notin Successful
      BY DEF Successful, Failed
    <3>2. PICK part \in Components(groups) : g \in part
      BY <3>1, ComponentsApart
    <3>3. part \subseteq Successful
      BY <3>1, <3>2 DEF RecoveryIInv, RetriesKept, DependentsFailed
    <3>4. PICK other \in Components(groups) : h \in other
      BY <3>1, ComponentsApart
    <3>5. part # other
      BY <3>1, <3>3, <3>4
    <3>6. ~Dependent(g, h)
      BY <3>2, <3>4, <3>5, ComponentsApart
    <3> QED BY <3>6 DEF Dependent
  <2>2. CASE f \in tried
    <3>1. PICK h \in Failed : Covers(h.foot, f)
      BY <2>2 DEF RecoveryIInv, RetriesKept
    <3> QED BY <2>1, <3>1, CoveredTouches
  <2> QED BY <2>1, <2>2
<1> QED BY <1>1, <1>2 DEF RecoveryInv

\* However the rows of an answer share, omit and reject sources, and whatever the calls of
\* the recovery answer, it ends with each source in one group, none compared more than once
\* again, and nothing kept that touches what failed.
THEOREM RecoveryHolds == RecoverySpec => []RecoveryInv
<1>1. RecoverySpec => []RecoveryIInv
  BY RecoveryStarts, RecoverySteps, PTL DEF RecoverySpec
<1>2. RecoveryIInv => RecoveryInv
  BY RecoveryMeans
<1> QED BY <1>1, <1>2, PTL

-----------------------------------------------------------------------------
\* The window of world settings: its invariant

Spots == {"idle", "prepare", "claim", "load", "look", "judge", "compare", "save", "candidate",
          "fatal", "subjects", "resolve", "reclaim", "raised", "returned"}
Fates == {"unresolved", "open", "claimed", "saved", "failed"}
IsClosed(st) == st \in {"saved", "failed"}

WindowTypes ==
  /\ manner \in {"independent", "ordered", "deferring"} /\ spot \in Spots
  /\ head \in SUBSET Settings /\ overtaken \in SUBSET Settings
  /\ waiting \in Seq(SUBSET Settings) /\ joined \in Seq(SUBSET Settings)
  /\ exhausted \in BOOLEAN /\ exact \in BOOLEAN
  /\ world \in [Settings -> Fates] /\ subject \in [Settings -> Settings]

\* The batches that were claimed, in the order of their turns: those that are joined are
\* among those that wait once the window has looked ahead.
Turns ==
  IF spot = "look" THEN <<head>> \o (joined \o waiting)
  ELSE IF spot \in {"load", "judge", "compare", "save", "candidate", "fatal", "subjects"}
       THEN <<head>> \o waiting ELSE waiting

\* What the batch whose subject has changed leaves until one batch is claimed again.
Returned == IF spot \in {"resolve", "reclaim"} THEN head ELSE {}

\* The line holds what is claimed, once, and a batch in it comes after every earlier
\* setting that is not closed, but for those overtaken or taken back.
LineFits(line, fate, ahead, back) ==
  /\ line \in Seq(SUBSET Settings)
  /\ \A i \in 1..Len(line) : \A c \in line[i] : fate[c] = "claimed"
  /\ \A i, j \in 1..Len(line) : i # j => line[i] \intersect line[j] = {}
  /\ \A c \in Settings : fate[c] = "claimed" => \E i \in 1..Len(line) : c \in line[i]
  /\ \A i \in 1..Len(line) : \A c \in Settings :
       c < Min(line[i]) => \/ IsClosed(fate[c]) \/ c \in ahead \/ c \in back
                           \/ \E j \in 1..i - 1 : c \in line[j]

\* Where the settings are at each step of the loop.
FatesFit ==
  /\ spot \in {"idle", "prepare"} =>
       /\ waiting = <<>> /\ ~exhausted /\ \A c \in Settings : world[c] = "unresolved"
  /\ spot \notin {"idle", "prepare", "resolve"} => spot \in {"raised", "returned"}
       \/ \A c \in Settings : world[c] # "unresolved"
  /\ spot = "resolve" => \A c \in head : world[c] = "unresolved"
  /\ spot = "reclaim" => \A c \in head : world[c] \in {"open", "failed"}
  /\ exhausted /\ spot \notin {"resolve", "reclaim"} => \A c \in Settings : world[c] # "open"

WindowIInv ==
  /\ WindowTypes /\ FatesFit
  /\ spot \notin {"look", "judge"} => joined = <<>>
  /\ spot \in {"look", "judge", "compare", "save"} => exact
  /\ spot \notin {"raised", "returned"} => LineFits(Turns, world, overtaken, Returned)

\* What is put behind a line is behind it with a batch in front too.
LEMMA BehindFront ==
  ASSUME NEW T, NEW s \in Seq(T), NEW x \in T, NEW y \in T
  PROVE  <<y>> \o Append(s, x) = Append(<<y>> \o s, x)
OBVIOUS

\* The backend's next batch is open, and nothing before it is.
LEMMA NextBatchFacts ==
  ASSUME WindowTypes, WorldIn({"open"}) # {}
  PROVE  /\ NextBatch \in SUBSET Settings /\ NextBatch # {}
         /\ \A c \in NextBatch : world[c] = "open"
         /\ \A c \in Settings : c < Min(NextBatch) => world[c] # "open"
<1> DEFINE open == WorldIn({"open"})
<1>1. \A S \in SUBSET Settings : S # {} => Min(S) \in S /\ \A c \in S : Min(S) <= c
  <2> SUFFICES ASSUME NEW S \in SUBSET Settings, S # {}
               PROVE  Min(S) \in S /\ \A c \in S : Min(S) <= c
    OBVIOUS
  <2>1. S \in SUBSET Nat /\ IsFiniteSet(S)
    BY SettingsAssumption, FS_Subset
  <2>2. \E m \in S : \A c \in S : m <= c
    BY <2>1, LeastOf
  <2> QED BY <2>2 DEF Min
<1>2. open \in SUBSET Settings /\ \A c \in Settings : c \in open <=> world[c] = "open"
  BY DEF WorldIn
<1>3. Min(open) \in open /\ \A c \in open : Min(open) <= c
  BY <1>1, <1>2
<1> HIDE DEF open
<1>4. NextBatch = {c \in open : subject[c] = subject[Min(open)]}
  BY DEF NextBatch, open
<1>5. NextBatch \in SUBSET Settings /\ Min(open) \in NextBatch
  BY <1>2, <1>3, <1>4
<1>6. Min(NextBatch) \in NextBatch /\ Min(NextBatch) <= Min(open)
  BY <1>1, <1>5
<1>7. ASSUME NEW c \in open, c < Min(NextBatch) PROVE FALSE
  <2>1. c \in Nat /\ Min(open) \in Nat /\ Min(NextBatch) \in Nat
    BY <1>2, <1>3, <1>5, <1>6, SettingsAssumption
  <2> QED BY <1>3, <1>6, <1>7, <2>1
<1> QED BY <1>2, <1>4, <1>5, <1>7

\* A batch that is claimed goes behind the line.
LEMMA AppendFits ==
  ASSUME NEW line, NEW fate, NEW ahead, LineFits(line, fate, ahead, {}),
         \A c \in Settings : fate[c] \in Fates \ {"unresolved"},
         NEW cs \in SUBSET Settings, \A c \in cs : fate[c] = "open",
         \A c \in Settings : c < Min(cs) => fate[c] # "open",
         NEW new, \A c \in Settings : new[c] = IF c \in cs THEN "claimed" ELSE fate[c]
  PROVE  LineFits(Append(line, cs), new, ahead, {})
<1> DEFINE n == Len(line)
           more == Append(line, cs)
<1>1. line \in Seq(SUBSET Settings) /\ n \in Nat
  BY DEF LineFits
<1>2. /\ more \in Seq(SUBSET Settings) /\ Len(more) = n + 1 /\ more[n + 1] = cs
      /\ \A i \in 1..n : more[i] = line[i]
  BY <1>1
<1> HIDE DEF more, n
<1>3. ASSUME NEW i \in 1..n PROVE \A c \in line[i] : c \in Settings \ cs /\ fate[c] = "claimed"
  <2>1. line[i] \in SUBSET Settings
    BY <1>1 DEF n
  <2> QED BY <2>1 DEF LineFits, n
<1>4. \A i \in 1..n + 1 : i \in 1..n \/ i = n + 1
  BY <1>1
<1>5. \A i \in 1..Len(more) : \A c \in more[i] : new[c] = "claimed"
  BY <1>2, <1>3, <1>4
<1>6. \A i, j \in 1..Len(more) : i # j => more[i] \intersect more[j] = {}
  <2>1. \A i, j \in 1..n : i # j => line[i] \intersect line[j] = {}
    BY DEF LineFits, n
  <2>2. \A i \in 1..n : line[i] \intersect cs = {}
    BY <1>3
  <2> QED BY <1>2, <1>4, <2>1, <2>2
<1>7. \A c \in Settings : new[c] = "claimed" => \E i \in 1..Len(more) : c \in more[i]
  <2>1. \A c \in Settings : fate[c] = "claimed" => \E i \in 1..n : c \in line[i]
    BY DEF LineFits, n
  <2>2. n + 1 \in 1..n + 1 /\ \A i \in 1..n : i \in 1..n + 1
    BY <1>1
  <2> QED BY <1>2, <2>1, <2>2
<1>8. ASSUME NEW i \in 1..Len(more), NEW c \in Settings, c < Min(more[i])
      PROVE  IsClosed(new[c]) \/ c \in ahead \/ \E j \in 1..i - 1 : c \in more[j]
  <2>1. CASE i \in 1..n
    <3>1. IsClosed(fate[c]) \/ c \in ahead \/ \E j \in 1..i - 1 : c \in line[j]
      BY <1>2, <1>8, <2>1 DEF LineFits, n
    <3>2. IsClosed(fate[c]) => IsClosed(new[c])
      BY DEF IsClosed
    <3>3. \A j \in 1..i - 1 : j \in 1..n
      BY <1>1, <2>1
    <3> QED BY <1>2, <3>1, <3>2, <3>3
  <2>2. CASE i = n + 1
    <3>1. fate[c] # "open" /\ c \notin cs /\ new[c] = fate[c]
      BY <1>2, <1>8, <2>2
    <3>2. CASE fate[c] = "claimed"
      <4>1. \E j \in 1..n : c \in line[j]
        BY <3>2 DEF LineFits, n
      <4>2. i - 1 = n
        BY <1>1, <2>2
      <4> QED BY <1>2, <4>1, <4>2
    <3>3. CASE fate[c] # "claimed"
      BY <3>1, <3>3 DEF Fates, IsClosed
    <3> QED BY <3>2, <3>3
  <2> QED BY <1>2, <1>4, <2>1, <2>2
<1> QED BY <1>2, <1>5, <1>6, <1>7, <1>8 DEF LineFits, more

\* A batch at the front of a line moves every other one back by one place.
LEMMA FrontOfLine ==
  ASSUME NEW T, NEW line \in Seq(T), NEW x \in T
  PROVE  /\ <<x>> \o line \in Seq(T) /\ Len(<<x>> \o line) = Len(line) + 1
         /\ (<<x>> \o line)[1] = x
         /\ \A i \in 1..Len(line) : (<<x>> \o line)[i + 1] = line[i]
         /\ \A i \in 1..Len(line) + 1 : i = 1 \/ i - 1 \in 1..Len(line)
OBVIOUS

\* The first batch of the line is closed, or taken back.
LEMMA FrontLeaves ==
  ASSUME NEW line \in Seq(SUBSET Settings), NEW cs \in SUBSET Settings,
         NEW fate, NEW ahead, LineFits(<<cs>> \o line, fate, ahead, {}),
         NEW new, NEW back, \A c \in Settings \ cs : new[c] = fate[c],
         \A c \in cs : new[c] # "claimed" /\ (IsClosed(new[c]) \/ c \in back)
  PROVE  LineFits(line, new, ahead, back)
<1> DEFINE n == Len(line)
           all == <<cs>> \o line
<1>1. /\ n \in Nat /\ Len(all) = n + 1 /\ all[1] = cs
      /\ \A i \in 1..n : all[i + 1] = line[i]
      /\ \A i \in 1..n + 1 : i = 1 \/ i - 1 \in 1..n
  BY FrontOfLine
<1>2. \A i \in 1..n : i + 1 \in 1..n + 1 /\ i + 1 # 1 /\ 1 \in 1..n + 1
  BY <1>1
<1>3. /\ \A i \in 1..n + 1 : \A c \in all[i] : fate[c] = "claimed"
      /\ \A i, j \in 1..n + 1 : i # j => all[i] \intersect all[j] = {}
      /\ \A c \in Settings : fate[c] = "claimed" => \E i \in 1..n + 1 : c \in all[i]
      /\ \A i \in 1..n + 1 : \A c \in Settings :
           c < Min(all[i]) => \/ IsClosed(fate[c]) \/ c \in ahead
                              \/ \E j \in 1..i - 1 : c \in all[j]
  BY <1>1 DEF LineFits, all
<1>4. \A i \in 1..n : line[i] \in SUBSET Settings
  OBVIOUS
<1> HIDE DEF all, n
<1>5. \A i \in 1..n : \A c \in line[i] : c \in Settings \ cs
  BY <1>1, <1>2, <1>3, <1>4
<1>6. \A i \in 1..n : \A c \in line[i] : new[c] = "claimed"
  BY <1>1, <1>2, <1>3, <1>5
<1>7. \A i, j \in 1..n : i # j => line[i] \intersect line[j] = {}
  <2>1. \A i, j \in 1..n : i # j => i + 1 # j + 1
    BY <1>1
  <2> QED BY <1>1, <1>2, <1>3, <2>1
<1>8. ASSUME NEW c \in Settings, new[c] = "claimed" PROVE \E i \in 1..n : c \in line[i]
  <2>1. c \notin cs /\ fate[c] = "claimed"
    BY <1>8
  <2>2. PICK i \in 1..n + 1 : c \in all[i]
    BY <1>3, <2>1
  <2>3. i - 1 \in 1..n /\ all[(i - 1) + 1] = all[i]
    BY <1>1, <2>1, <2>2
  <2> QED BY <1>1, <2>2, <2>3
<1>9. ASSUME NEW i \in 1..n, NEW c \in Settings, c < Min(line[i])
      PROVE  IsClosed(new[c]) \/ c \in ahead \/ c \in back \/ \E j \in 1..i - 1 : c \in line[j]
  <2>1. CASE c \in cs
    BY <2>1
  <2>2. CASE c \notin cs
    <3>1. \/ IsClosed(fate[c]) \/ c \in ahead
          \/ \E j \in 1..(i + 1) - 1 : c \in all[j]
      BY <1>1, <1>2, <1>3, <1>9
    <3>2. ASSUME NEW j \in 1..(i + 1) - 1, c \in all[j]
          PROVE  j - 1 \in 1..i - 1 /\ c \in line[j - 1]
      <4>1. j \in 1..n + 1 /\ j # 1
        BY <1>1, <2>2, <3>2
      <4>2. j - 1 \in 1..n /\ all[(j - 1) + 1] = all[j] /\ j - 1 \in 1..i - 1
        BY <1>1, <4>1
      <4> QED BY <1>1, <3>2, <4>2
    <3>3. new[c] = fate[c]
      BY <2>2
    <3> QED BY <3>1, <3>2, <3>3
  <2> QED BY <2>1, <2>2
<1> QED BY <1>6, <1>7, <1>8, <1>9 DEF LineFits, n

\* A batch that is claimed again goes to the front: it has overtaken what was taken back
\* with it or is claimed before it.
LEMMA FrontEnters ==
  ASSUME NEW line, NEW fate, NEW ahead, NEW back, LineFits(line, fate, ahead, back),
         \A c \in Settings : fate[c] \in Fates \ {"unresolved"},
         NEW cs \in SUBSET Settings, \A c \in cs : fate[c] = "open",
         \A c \in Settings : c < Min(cs) => fate[c] # "open",
         NEW new, \A c \in Settings : new[c] = IF c \in cs THEN "claimed" ELSE fate[c],
         NEW more, ahead \subseteq more, back \ cs \subseteq more,
         \A c \in Settings : fate[c] = "claimed" /\ c < Min(cs) => c \in more
  PROVE  LineFits(<<cs>> \o line, new, more, {})
<1> DEFINE n == Len(line)
           all == <<cs>> \o line
<1>1. /\ n \in Nat /\ all \in Seq(SUBSET Settings) /\ Len(all) = n + 1 /\ all[1] = cs
      /\ \A i \in 1..n : all[i + 1] = line[i]
      /\ \A i \in 1..n + 1 : i = 1 \/ i - 1 \in 1..n
  BY FrontOfLine DEF LineFits
<1>2. /\ \A i \in 1..n : \A c \in line[i] : fate[c] = "claimed"
      /\ \A i, j \in 1..n : i # j => line[i] \intersect line[j] = {}
      /\ \A c \in Settings : fate[c] = "claimed" => \E i \in 1..n : c \in line[i]
      /\ \A i \in 1..n : \A c \in Settings :
           c < Min(line[i]) => \/ IsClosed(fate[c]) \/ c \in ahead \/ c \in back
                               \/ \E j \in 1..i - 1 : c \in line[j]
      /\ \A i \in 1..n : line[i] \in SUBSET Settings
  BY DEF LineFits
<1> HIDE DEF all, n
<1>3. ASSUME NEW i \in 1..n + 1, i # 1
      PROVE  i - 1 \in 1..n /\ all[i] = line[i - 1]
  <2>1. i - 1 \in 1..n /\ (i - 1) + 1 = i
    BY <1>1, <1>3
  <2>2. all[(i - 1) + 1] = line[i - 1]
    BY <1>1, <2>1
  <2> QED BY <2>1, <2>2
<1>4. \A i \in 1..n : \A c \in line[i] : c \in Settings \ cs
  BY <1>2
<1>5. ASSUME NEW i \in 1..n + 1, NEW c \in all[i] PROVE new[c] = "claimed"
  <2>1. CASE i = 1
    BY <1>1, <2>1
  <2>2. CASE i # 1
    <3>1. c \in line[i - 1] /\ i - 1 \in 1..n
      BY <1>3, <2>2
    <3>2. c \in Settings \ cs /\ fate[c] = "claimed"
      BY <1>2, <1>4, <3>1
    <3> QED BY <3>2
  <2> QED BY <2>1, <2>2
<1>6. \A i, j \in 1..n + 1 : i # j => all[i] \intersect all[j] = {}
  <2>1. \A i, j \in 1..n + 1 : i # j => i - 1 # j - 1
    BY <1>1
  <2>2. \A i \in 1..n : line[i] \intersect cs = {}
    BY <1>4
  <2> QED BY <1>1, <1>2, <1>3, <2>1, <2>2
<1>7. ASSUME NEW c \in Settings, new[c] = "claimed" PROVE \E i \in 1..n + 1 : c \in all[i]
  <2>1. 1 \in 1..n + 1 /\ \A i \in 1..n : i + 1 \in 1..n + 1
    BY <1>1
  <2>2. CASE c \in cs
    BY <1>1, <2>1, <2>2
  <2>3. CASE c \notin cs
    <3>1. PICK i \in 1..n : c \in line[i]
      BY <1>2, <1>7, <2>3
    <3> QED BY <1>1, <2>1, <3>1
  <2> QED BY <2>2, <2>3
<1>8. ASSUME NEW i \in 1..n + 1, NEW c \in Settings, c < Min(all[i])
      PROVE  IsClosed(new[c]) \/ c \in more \/ \E j \in 1..i - 1 : c \in all[j]
  <2>1. CASE i = 1
    <3>1. fate[c] # "open" /\ c \notin cs
      BY <1>1, <1>8, <2>1
    <3> QED BY <1>1, <1>8, <2>1, <3>1 DEF Fates, IsClosed
  <2>2. CASE i # 1
    <3>1. i - 1 \in 1..n /\ all[i] = line[i - 1]
      BY <1>3, <2>2
    <3>2. \/ IsClosed(fate[c]) \/ c \in ahead \/ c \in back
          \/ \E j \in 1..(i - 1) - 1 : c \in line[j]
      BY <1>2, <1>8, <3>1
    <3>3. CASE IsClosed(fate[c])
      BY <3>3 DEF IsClosed
    <3>4. CASE c \in back
      <4>1. 1 \in 1..i - 1
        BY <1>1, <3>1
      <4> QED BY <1>1, <3>4, <4>1
    <3>5. ASSUME NEW j \in 1..(i - 1) - 1, c \in line[j] PROVE \E k \in 1..i - 1 : c \in all[k]
      <4>1. j \in 1..n /\ j + 1 \in 1..i - 1
        BY <1>1, <3>1
      <4> QED BY <1>1, <3>5, <4>1
    <3> QED BY <3>2, <3>3, <3>4, <3>5
  <2> QED BY <2>1, <2>2
<1> QED BY <1>1, <1>5, <1>6, <1>7, <1>8 DEF LineFits, all

\* Settings that are resolved leave the line as it is.
LEMMA ResolvedFits ==
  ASSUME NEW line, NEW fate, NEW ahead, NEW back, LineFits(line, fate, ahead, back),
         NEW new,
         \A c \in Settings : \/ new[c] = fate[c]
                             \/ fate[c] = "unresolved" /\ new[c] \in {"open", "failed"}
  PROVE  LineFits(line, new, ahead, back)
<1>1. \A c \in Settings : /\ fate[c] = "claimed" <=> new[c] = "claimed"
                          /\ IsClosed(fate[c]) => IsClosed(new[c])
  BY DEF IsClosed
<1>2. \A i \in 1..Len(line) : line[i] \in SUBSET Settings
  BY DEF LineFits
<1> QED BY <1>1, <1>2 DEF LineFits

-----------------------------------------------------------------------------
\* The steps of the loop

\* Nothing is claimed before the job begins.
LEMMA WindowStarts == ASSUME WindowInit PROVE WindowIInv
<1>1. WindowTypes
  <2>1. <<>> \in Seq(SUBSET Settings)
    OBVIOUS
  <2> QED BY <2>1 DEF WindowInit, WindowTypes, Spots, Fates
<1>2. Turns = <<>> /\ Returned = {} /\ \A c \in Settings : world[c] = "unresolved"
  BY DEF WindowInit, Turns, Returned
<1>3. LineFits(<<>>, world, overtaken, {})
  BY <1>2 DEF LineFits
<1> QED BY <1>1, <1>2, <1>3 DEF WindowInit, WindowIInv, FatesFit

\* A job that ends leaves nothing in the window.
LEMMA EndsStep ==
  ASSUME WindowIInv, NEW how \in {"raised", "returned"}, Ends(how), world' \in [Settings -> Fates]
  PROVE  WindowIInv'
<1>1. WindowTypes'
  <2>1. <<>> \in Seq(SUBSET Settings)
    OBVIOUS
  <2> QED BY <2>1 DEF WindowIInv, WindowTypes, Ends, Spots
<1>2. FatesFit'
  BY DEF Ends, FatesFit
<1> QED BY <1>1, <1>2 DEF Ends, WindowIInv

\* The job begins, and its settings are resolved, at first or after a reset.
LEMMA ResolveStep ==
  ASSUME WindowIInv,
         \/ \E m \in {"independent", "ordered", "deferring"} : Begin(m)
         \/ \E about \in [Settings -> Subjects], lost \in SUBSET Settings : Resolve(about, lost)
  PROVE  WindowIInv'
<1>1. ASSUME NEW m \in {"independent", "ordered", "deferring"}, Begin(m) PROVE WindowIInv'
  <2>1. WindowTypes' /\ FatesFit' /\ Turns' = Turns /\ Returned' = Returned
    BY <1>1 DEF WindowIInv, WindowTypes, FatesFit, Begin, Spots, Turns, Returned
  <2> QED BY <1>1, <2>1 DEF WindowIInv, Begin
<1>2. ASSUME NEW about \in [Settings -> Subjects], NEW lost \in SUBSET Settings,
             Resolve(about, lost)
      PROVE  WindowIInv'
  <2>1. /\ spot \in {"prepare", "resolve"}
        /\ spot' = IF spot = "prepare" THEN "claim" ELSE "reclaim"
        /\ UNCHANGED <<manner, head, waiting, joined, exhausted, exact, overtaken>>
        /\ lost \subseteq WorldIn({"unresolved"})
        /\ subject' = [c \in Settings |-> IF c \in WorldIn({"unresolved"}) THEN about[c]
                                          ELSE subject[c]]
        /\ world' = [c \in Settings |-> IF c \in lost THEN "failed"
                                        ELSE IF c \in WorldIn({"unresolved"}) THEN "open"
                                        ELSE world[c]]
    BY <1>2 DEF Resolve
  <2>2. WindowTypes'
    <3>1. subject' \in [Settings -> Settings] /\ world' \in [Settings -> Fates]
      BY <2>1 DEF WindowIInv, WindowTypes, Subjects, Fates
    <3> QED BY <2>1, <3>1 DEF WindowIInv, WindowTypes, Spots
  <2>3. \A c \in Settings : \/ world'[c] = world[c] /\ world[c] # "unresolved"
                            \/ world[c] = "unresolved" /\ world'[c] \in {"open", "failed"}
    BY <2>1 DEF WorldIn
  <2>4. FatesFit'
    BY <2>1, <2>3 DEF WindowIInv, WindowTypes, FatesFit
  <2>5. Turns' = Turns /\ Returned' = Returned
    BY <2>1 DEF Turns, Returned
  <2>6. LineFits(Turns, world, overtaken, Returned)
    BY <2>1 DEF WindowIInv
  <2>7. LineFits(Turns, world', overtaken, Returned)
    BY <2>3, <2>6, ResolvedFits
  <2> QED BY <2>1, <2>2, <2>4, <2>5, <2>7 DEF WindowIInv
<1> QED BY <1>1, <1>2

\* The next batch has its turn.
LEMMA ClaimStep == ASSUME WindowIInv, TakeWaiting \/ ClaimHead PROVE WindowIInv'
<1>1. /\ waiting \in Seq(SUBSET Settings) /\ spot = "claim" /\ joined = <<>> /\ spot' = "load"
      /\ Returned = {} /\ Returned' = {} /\ Turns = waiting /\ Turns' = <<head'>> \o waiting'
  BY DEF WindowIInv, WindowTypes, TakeWaiting, ClaimHead, Returned, Turns
<1>2. CASE TakeWaiting
  <2>1. head' = Head(waiting) /\ waiting' = Tail(waiting) /\ waiting # <<>>
    BY <1>2 DEF TakeWaiting
  <2>2. /\ <<Head(waiting)>> \o Tail(waiting) = waiting
        /\ Head(waiting) \in SUBSET Settings /\ Tail(waiting) \in Seq(SUBSET Settings)
    BY <1>1, <2>1
  <2>3. WindowTypes'
    BY <1>2, <2>1, <2>2 DEF WindowIInv, WindowTypes, TakeWaiting, Spots
  <2>4. FatesFit'
    BY <1>2 DEF WindowIInv, FatesFit, TakeWaiting
  <2> QED BY <1>1, <1>2, <2>1, <2>2, <2>3, <2>4 DEF WindowIInv, TakeWaiting
<1>3. CASE ClaimHead
  <2>1. /\ waiting = <<>> /\ waiting' = <<>> /\ head' = NextBatch /\ WorldIn({"open"}) # {}
        /\ world' = WorldAs(NextBatch, "claimed") /\ ~exhausted
        /\ UNCHANGED <<manner, joined, exact, exhausted, overtaken, subject>>
    BY <1>3 DEF ClaimHead
  <2>2. /\ NextBatch \in SUBSET Settings
        /\ \A c \in NextBatch : world[c] = "open"
        /\ \A c \in Settings : c < Min(NextBatch) => world[c] # "open"
    BY <2>1, NextBatchFacts DEF WindowIInv
  <2>3. /\ \A c \in Settings : world'[c] = IF c \in NextBatch THEN "claimed" ELSE world[c]
        /\ world' \in [Settings -> Fates]
    BY <2>1 DEF WorldAs, WindowIInv, WindowTypes, Fates
  <2>4. \A c \in Settings : world[c] \in Fates \ {"unresolved"}
    BY <1>1 DEF WindowIInv, WindowTypes, FatesFit
  <2> HIDE DEF NextBatch, WorldAs
  <2>5. Turns' = Append(waiting, NextBatch)
    <3>1. <<NextBatch>> \o <<>> = Append(<<>>, NextBatch)
      OBVIOUS
    <3> QED BY <1>1, <2>1, <3>1
  <2>6. LineFits(Turns, world, overtaken, {})
    BY <1>1 DEF WindowIInv
  <2>7. LineFits(Turns', world', overtaken, {})
    BY <1>1, <2>2, <2>3, <2>4, <2>5, <2>6, AppendFits
  <2>8. WindowTypes'
    <3>1. waiting' \in Seq(SUBSET Settings) /\ joined' \in Seq(SUBSET Settings)
      BY <1>1, <2>1
    <3>2. head' \in SUBSET Settings /\ overtaken' \in SUBSET Settings /\ subject' \in [Settings -> Settings]
      BY <2>1, <2>2 DEF WindowIInv, WindowTypes
    <3>3. /\ manner' \in {"independent", "ordered", "deferring"} /\ spot' \in Spots
          /\ exhausted' \in BOOLEAN /\ exact' \in BOOLEAN
      BY <1>1, <2>1 DEF WindowIInv, WindowTypes, Spots
    <3> QED BY <2>3, <3>1, <3>2, <3>3 DEF WindowTypes
  <2>9. FatesFit'
    BY <1>1, <2>1, <2>3, <2>4 DEF FatesFit
  <2> QED BY <1>1, <2>1, <2>7, <2>8, <2>9 DEF WindowIInv
<1> QED BY <1>2, <1>3

\* Whatever happens to the batch at work that does not close it.
LEMMA HeadStays ==
  ASSUME WindowIInv, spot \in {"load", "judge", "compare", "save"},
         spot' \in {"load", "look", "compare", "save", "candidate", "fatal", "subjects"},
         UNCHANGED <<manner, head, waiting, exhausted, world, subject, overtaken>>,
         joined' = <<>>, exact' \in BOOLEAN,
         spot' \in {"look", "compare", "save"} => exact'
  PROVE  WindowIInv'
<1>1. WindowTypes'
  BY DEF WindowIInv, WindowTypes, Spots
<1>2. FatesFit'
  BY DEF WindowIInv, FatesFit
<1>3. Turns' = Turns /\ Returned' = Returned
  <2>1. <<>> \o waiting = waiting
    BY DEF WindowIInv, WindowTypes
  <2> QED BY <2>1 DEF Turns, Returned
<1> QED BY <1>1, <1>2, <1>3 DEF WindowIInv

\* The batch is read, judged with others, decided, tried again or left for a failure.
LEMMA WorkStep ==
  ASSUME WindowIInv,
         \/ Load \/ JudgeTogether \/ Decide \/ ContextStale
         \/ \E kind \in Kinds : LoadRaises(kind) \/ DecideRaises(kind) \/ CompleteRaises(kind)
         \/ \E kind \in {"candidate", "fatal"} : JudgeRaises(kind)
  PROVE  WindowIInv'
<1>1. /\ spot \in {"load", "judge", "compare", "save"}
      /\ spot' \in {"load", "look", "compare", "save", "candidate", "fatal", "subjects"}
      /\ UNCHANGED <<manner, head, waiting, exhausted, world, subject, overtaken>>
  BY DEF Load, JudgeTogether, Decide, ContextStale, Kinds, LoadRaises, DecideRaises,
         CompleteRaises, JudgeRaises, Trouble
<1>2. joined' = <<>>
  BY DEF WindowIInv, Load, JudgeTogether, Decide, ContextStale, Kinds, LoadRaises, DecideRaises,
         CompleteRaises, JudgeRaises, Trouble
<1>3. exact' \in BOOLEAN /\ (spot' \in {"look", "compare", "save"} => exact')
  BY DEF WindowIInv, WindowTypes, Load, JudgeTogether, Decide, ContextStale, Kinds, LoadRaises,
         DecideRaises, CompleteRaises, JudgeRaises, Trouble
<1> QED BY <1>1, <1>2, <1>3, HeadStays

\* The batch that follows in the look ahead is in the line already, or claimed and put
\* behind it.
LEMMA FollowFacts ==
  ASSUME WindowIInv, Follow
  PROVE  /\ Following \in SUBSET Settings /\ world' \in [Settings -> Fates]
         /\ \A c \in Settings : world'[c] # "unresolved" /\ (exhausted => world'[c] # "open")
         /\ LineFits(IF waiting # <<>> THEN Turns ELSE Append(Turns, Following),
                     world', overtaken, {})
<1>1. /\ spot = "look" /\ Returned = {} /\ Turns = <<head>> \o (joined \o waiting)
      /\ LineFits(Turns, world, overtaken, {})
      /\ head \in SUBSET Settings
      /\ joined \in Seq(SUBSET Settings) /\ waiting \in Seq(SUBSET Settings)
  BY DEF WindowIInv, WindowTypes, Follow, Returned, Turns
<1>2. \A c \in Settings : world[c] \in Fates \ {"unresolved"} /\ (exhausted => world[c] # "open")
  BY <1>1 DEF WindowIInv, WindowTypes, FatesFit
<1>3. /\ world' = WorldAs(Following, "claimed") /\ world \in [Settings -> Fates]
      /\ waiting # <<>> \/ (~exhausted /\ WorldIn({"open"}) # {})
  BY DEF Follow, HasFollowing, WindowIInv, WindowTypes
<1>4. /\ \A c \in Settings : world'[c] = IF c \in Following THEN "claimed" ELSE world[c]
      /\ world' \in [Settings -> Fates]
      /\ \A c \in Settings : world'[c] # "unresolved" /\ (exhausted => world'[c] # "open")
  BY <1>2, <1>3 DEF WorldAs, Fates
<1>5. CASE waiting # <<>>
  <2> DEFINE k == 1 + Len(joined) + 1
  <2>1. k \in 1..Len(Turns) /\ Turns[k] = Head(waiting) /\ Head(waiting) \in SUBSET Settings
    BY <1>1, <1>5
  <2>2. Following = Head(waiting)
    BY <1>5 DEF Following
  <2> HIDE DEF k
  <2>3. \A c \in Following : world[c] = "claimed"
    BY <1>1, <2>1, <2>2 DEF LineFits
  <2>4. world' = world
    BY <1>3, <2>1, <2>2, <2>3 DEF WorldAs
  <2> QED BY <1>1, <1>4, <1>5, <2>1, <2>2, <2>4
<1>6. CASE waiting = <<>>
  <2>1. Following = NextBatch /\ WorldIn({"open"}) # {}
    BY <1>3, <1>6 DEF Following
  <2>2. /\ NextBatch \in SUBSET Settings
        /\ \A c \in NextBatch : world[c] = "open"
        /\ \A c \in Settings : c < Min(NextBatch) => world[c] # "open"
    BY <2>1, NextBatchFacts DEF WindowIInv
  <2>3. LineFits(Append(Turns, Following), world', overtaken, {})
    BY <1>1, <1>2, <1>4, <2>1, <2>2, AppendFits
  <2> QED BY <1>4, <1>6, <2>1, <2>2, <2>3
<1> QED BY <1>5, <1>6

\* Batches are joined in their order, and those that were joined wait in it, before the one
\* that is put back.
LEMMA LookStep ==
  ASSUME WindowIInv, Join \/ PutBack \/ NothingFollows \/ ClaimAheadRaises
  PROVE  WindowIInv'
<1>1. /\ spot = "look" /\ Returned = {} /\ Turns = <<head>> \o (joined \o waiting)
      /\ LineFits(Turns, world, overtaken, {}) /\ exact
      /\ head \in SUBSET Settings
      /\ joined \in Seq(SUBSET Settings) /\ waiting \in Seq(SUBSET Settings)
      /\ world \in [Settings -> Fates]
  BY DEF WindowIInv, WindowTypes, Join, PutBack, NothingFollows, ClaimAheadRaises, Follow,
         Returned, Turns
<1>2. \A c \in Settings : world[c] # "unresolved" /\ (exhausted => world[c] # "open")
  BY <1>1 DEF WindowIInv, FatesFit
<1>3. ASSUME NEW more \in Seq(SUBSET Settings), spot' \in {"look", "judge", "compare"},
             waiting' = more, joined' \in Seq(SUBSET Settings),
             spot' = "compare" => joined' = <<>>,
             UNCHANGED <<manner, head, exact, subject, overtaken>>,
             exhausted' \in BOOLEAN, world' \in [Settings -> Fates],
             \A c \in Settings : world'[c] # "unresolved" /\ (exhausted' => world'[c] # "open"),
             LineFits(Turns', world', overtaken, {})
      PROVE  WindowIInv'
  <2>1. WindowTypes'
    BY <1>3 DEF WindowIInv, WindowTypes, Spots
  <2>2. FatesFit'
    BY <1>3 DEF FatesFit
  <2>3. Returned' = {}
    BY <1>3 DEF Returned
  <2> QED BY <1>1, <1>3, <2>1, <2>2, <2>3 DEF WindowIInv
<1>4. ASSUME Follow
      PROVE  /\ UNCHANGED <<manner, head, exhausted, exact, subject, overtaken>>
             /\ exhausted' \in BOOLEAN /\ world' \in [Settings -> Fates]
             /\ \A c \in Settings : world'[c] # "unresolved" /\ (exhausted' => world'[c] # "open")
             /\ Following \in SUBSET Settings
  <2>1. UNCHANGED <<manner, head, exhausted, exact, subject, overtaken>>
    BY <1>4 DEF Follow
  <2> QED BY <1>4, <2>1, FollowFacts DEF WindowIInv, WindowTypes
<1>5. CASE Join
  <2>1. /\ Follow /\ joined' = Append(joined, Following) /\ spot' = "look"
        /\ waiting' = IF waiting # <<>> THEN Tail(waiting) ELSE <<>>
    BY <1>1, <1>5 DEF Join, Behind
  <2>2. joined' \in Seq(SUBSET Settings) /\ waiting' \in Seq(SUBSET Settings)
    BY <1>1, <1>4, <2>1
  <2>3. Turns' = <<head>> \o (joined' \o waiting')
    BY <1>4, <2>1 DEF Turns
  <2>4. Turns' = IF waiting # <<>> THEN Turns ELSE Append(Turns, Following)
    <3>1. CASE waiting # <<>>
      <4>1. Following = Head(waiting)
        BY <3>1 DEF Following
      <4>2. Append(joined, Head(waiting)) \o Tail(waiting) = joined \o waiting
        BY <1>1, <3>1
      <4> QED BY <1>1, <2>1, <2>3, <3>1, <4>1, <4>2
    <3>2. CASE waiting = <<>>
      <4>1. joined' \o <<>> = joined' /\ joined \o <<>> = joined
        BY <1>1, <2>2
      <4>2. <<head>> \o Append(joined, Following) = Append(<<head>> \o joined, Following)
        BY <1>1, <1>4, <2>1, BehindFront
      <4> QED BY <1>1, <2>1, <2>3, <3>2, <4>1, <4>2
    <3> QED BY <3>1, <3>2
  <2>5. LineFits(Turns', world', overtaken, {})
    BY <2>1, <2>4, FollowFacts
  <2> QED BY <1>3, <1>4, <2>1, <2>2, <2>5
<1>6. CASE PutBack
  <2>1. /\ Follow /\ joined' = joined /\ spot' = (IF joined = <<>> THEN "compare" ELSE "judge")
        /\ waiting' = joined \o (<<Following>> \o Behind)
    BY <1>6 DEF PutBack, Looked
  <2>2. Behind \in Seq(SUBSET Settings)
    BY <1>1 DEF Behind
  <2>3. waiting' \in Seq(SUBSET Settings)
    BY <1>1, <1>4, <2>1, <2>2
  <2>4. Turns' = <<head>> \o waiting'
    BY <1>4, <2>1 DEF Turns
  <2>5. Turns' = IF waiting # <<>> THEN Turns ELSE Append(Turns, Following)
    <3>1. CASE waiting # <<>>
      <4>1. Following = Head(waiting) /\ Behind = Tail(waiting)
        BY <3>1 DEF Following, Behind
      <4>2. <<Head(waiting)>> \o Tail(waiting) = waiting
        BY <1>1, <3>1
      <4> QED BY <1>1, <2>1, <2>4, <3>1, <4>1, <4>2
    <3>2. CASE waiting = <<>>
      <4>1. Behind = <<>> /\ <<Following>> \o <<>> = <<Following>> /\ joined \o <<>> = joined
        BY <1>1, <1>4, <2>1, <3>2 DEF Behind
      <4>2. joined \o <<Following>> = Append(joined, Following)
        BY <1>1, <1>4, <2>1
      <4>3. <<head>> \o Append(joined, Following) = Append(<<head>> \o joined, Following)
        BY <1>1, <1>4, <2>1, BehindFront
      <4> QED BY <1>1, <2>1, <2>4, <3>2, <4>1, <4>2, <4>3
    <3> QED BY <3>1, <3>2
  <2>6. LineFits(Turns', world', overtaken, {})
    BY <2>1, <2>5, FollowFacts
  <2>7. joined' \in Seq(SUBSET Settings) /\ (spot' = "compare" => joined' = <<>>)
    BY <1>1, <2>1
  <2> QED BY <1>3, <1>4, <2>1, <2>3, <2>6, <2>7
<1>7. CASE NothingFollows \/ ClaimAheadRaises
  <2>1. /\ waiting = <<>> /\ UNCHANGED <<manner, head, joined, exact, subject, overtaken, world>>
        /\ waiting' = joined \o <<>> /\ spot' = (IF joined = <<>> THEN "compare" ELSE "judge")
    BY <1>7 DEF NothingFollows, ClaimAheadRaises, HasFollowing, Looked
  <2>2. /\ exhausted' \in BOOLEAN
        /\ \A c \in Settings : world'[c] # "unresolved" /\ (exhausted' => world'[c] # "open")
    <3>1. CASE NothingFollows
      <4>1. exhausted' = TRUE /\ (exhausted \/ WorldIn({"open"}) = {})
        BY <3>1 DEF NothingFollows, HasFollowing
      <4>2. \A c \in Settings : world[c] # "open"
        BY <1>2, <4>1 DEF WorldIn
      <4> QED BY <1>2, <2>1, <4>1, <4>2
    <3>2. CASE ClaimAheadRaises
      <4>1. exhausted' = exhausted
        BY <3>2 DEF ClaimAheadRaises
      <4> QED BY <1>2, <2>1, <4>1 DEF WindowIInv, WindowTypes
    <3> QED BY <1>7, <3>1, <3>2
  <2>3. joined \o <<>> = joined
    BY <1>1
  <2>4. Turns' = Turns
    BY <1>1, <2>1 DEF Turns
  <2>5. waiting' \in Seq(SUBSET Settings) /\ joined' \in Seq(SUBSET Settings)
    BY <1>1, <2>1, <2>3
  <2> QED BY <1>1, <1>3, <2>1, <2>2, <2>4, <2>5
<1> QED BY <1>5, <1>6, <1>7

\* The batch at work is first in the line, and nothing before it is open but what it was
\* claimed again ahead of.
LEMMA HeadIsFirst ==
  ASSUME WindowIInv, spot \in {"load", "judge", "compare", "save", "candidate", "fatal", "subjects"}
  PROVE  /\ Turns = <<head>> \o waiting /\ LineFits(<<head>> \o waiting, world, overtaken, {})
         /\ \A c \in head : world[c] = "claimed"
         /\ \A c \in Settings : c < Min(head) => IsClosed(world[c]) \/ c \in overtaken
<1>1. /\ Turns = <<head>> \o waiting /\ LineFits(<<head>> \o waiting, world, overtaken, {})
      /\ waiting \in Seq(SUBSET Settings) /\ head \in SUBSET Settings
  BY DEF WindowIInv, WindowTypes, Turns, Returned
<1> DEFINE line == <<head>> \o waiting
<1>2. 1 \in 1..Len(line) /\ line[1] = head /\ 1..1 - 1 = {}
  BY <1>1
<1>3. LineFits(line, world, overtaken, {})
  BY <1>1
<1> HIDE DEF line
<1>4. /\ \A c \in head : world[c] = "claimed"
      /\ \A c \in Settings : c < Min(head) => IsClosed(world[c]) \/ c \in overtaken
  BY <1>2, <1>3 DEF LineFits
<1> QED BY <1>1, <1>4

\* The next batch is first when the one at work is closed.
LEMMA CloseStep ==
  ASSUME WindowIInv, spot \in {"save", "candidate", "fatal", "subjects"},
         Closes(TRUE),
         NEW new \in [head -> {"saved", "failed"}],
         world' = [c \in Settings |-> IF c \in head THEN new[c] ELSE world[c]]
  PROVE  WindowIInv'
<1>1. /\ spot' = "claim" /\ head' = {} /\ exact' = FALSE
      /\ UNCHANGED <<manner, waiting, joined, exhausted, subject, overtaken>>
  BY DEF Closes
<1>2. WindowTypes /\ joined = <<>> /\ waiting \in Seq(SUBSET Settings) /\ head \in SUBSET Settings
  BY DEF WindowIInv, WindowTypes
<1>3. /\ \A c \in Settings \ head : world'[c] = world[c]
      /\ \A c \in head : world'[c] \in {"saved", "failed"}
      /\ world' \in [Settings -> Fates]
  BY <1>2 DEF WindowTypes, Fates
<1>4. LineFits(waiting, world', overtaken, {})
  <2>1. LineFits(<<head>> \o waiting, world, overtaken, {})
    BY HeadIsFirst
  <2>2. \A c \in head : world'[c] # "claimed" /\ IsClosed(world'[c])
    BY <1>3 DEF IsClosed
  <2> QED BY <1>2, <1>3, <2>1, <2>2, FrontLeaves
<1>5. WindowTypes'
  BY <1>1, <1>2, <1>3 DEF WindowTypes, Spots
<1>6. FatesFit'
  BY <1>1, <1>3 DEF WindowIInv, FatesFit
<1>7. Turns' = waiting /\ Returned' = {}
  BY <1>1 DEF Turns, Returned
<1> QED BY <1>1, <1>2, <1>4, <1>5, <1>6, <1>7 DEF WindowIInv

\* Saved or failed, in whole or in part.
LEMMA SaveStep ==
  ASSUME WindowIInv, (\E bad \in SUBSET head : SaveAccepted(bad)) \/ SaveUnanswered \/ BatchFails
  PROVE  WindowIInv'
<1>1. head \in SUBSET Settings /\ world \in [Settings -> Fates]
  BY DEF WindowIInv, WindowTypes
<1>2. ASSUME NEW bad \in SUBSET head, SaveAccepted(bad) PROVE WindowIInv'
  <2> DEFINE new == [c \in head |-> IF c \in bad THEN "failed" ELSE "saved"]
  <2>1. /\ world' = [c \in Settings |-> IF c \in head THEN new[c] ELSE world[c]]
        /\ new \in [head -> {"saved", "failed"}] /\ spot = "save"
    BY <1>2 DEF SaveAccepted
  <2>2. world' \in [Settings -> Fates]
    BY <1>1, <2>1 DEF Fates
  <2> HIDE DEF new
  <2>3. CASE bad = {} \/ manner # "ordered"
    <3>1. Closes(TRUE)
      BY <1>2, <2>3 DEF SaveAccepted, Closes
    <3> QED BY <2>1, <3>1, CloseStep
  <2>4. CASE ~(bad = {} \/ manner # "ordered")
    <3>1. Ends("raised")
      BY <1>2, <2>4 DEF SaveAccepted, Closes
    <3> QED BY <2>2, <3>1, EndsStep
  <2> QED BY <2>3, <2>4
<1>3. CASE SaveUnanswered
  <2>1. Ends("raised") /\ world' \in [Settings -> Fates]
    BY <1>1, <1>3 DEF SaveUnanswered, WorldAs, Fates
  <2> QED BY <2>1, EndsStep
<1>4. CASE BatchFails
  <2> DEFINE new == [c \in head |-> "failed"]
             on == spot = "candidate" /\ manner # "ordered"
  <2>1. /\ world' = [c \in Settings |-> IF c \in head THEN new[c] ELSE world[c]]
        /\ new \in [head -> {"saved", "failed"}] /\ spot \in {"candidate", "fatal", "subjects"}
        /\ Closes(on)
    BY <1>4 DEF BatchFails, WorldAs
  <2>2. world' \in [Settings -> Fates]
    BY <1>1, <2>1 DEF Fates
  <2> HIDE DEF new
  <2>3. CASE on
    <3>1. Closes(TRUE)
      BY <2>1, <2>3 DEF Closes
    <3> QED BY <2>1, <3>1, CloseStep
  <2>4. CASE ~on
    <3>1. Ends("raised")
      BY <2>1, <2>4 DEF Closes
    <3> QED BY <2>2, <3>1, EndsStep
  <2> QED BY <2>3, <2>4
<1> QED BY <1>2, <1>3, <1>4

\* A batch is taken back and one batch is claimed again, ahead of those that wait.
LEMMA ResetStep == ASSUME WindowIInv, ResetSubjects \/ Reclaim PROVE WindowIInv'
<1>1. WindowTypes /\ waiting \in Seq(SUBSET Settings) /\ head \in SUBSET Settings
      /\ world \in [Settings -> Fates]
  BY DEF WindowIInv, WindowTypes
<1>2. CASE ResetSubjects
  <2>1. /\ spot = "subjects" /\ spot' = "resolve" /\ world' = WorldAs(head, "unresolved")
        /\ UNCHANGED <<manner, head, waiting, joined, exhausted, exact, subject, overtaken>>
    BY <1>2 DEF ResetSubjects
  <2>2. /\ \A c \in Settings \ head : world'[c] = world[c]
        /\ \A c \in head : world'[c] = "unresolved"
        /\ world' \in [Settings -> Fates]
    BY <1>1, <2>1 DEF WorldAs, Fates
  <2>3. LineFits(waiting, world', overtaken, head)
    <3>1. LineFits(<<head>> \o waiting, world, overtaken, {})
      BY <2>1, HeadIsFirst
    <3> QED BY <1>1, <2>2, <3>1, FrontLeaves
  <2>4. WindowTypes' /\ FatesFit'
    BY <1>1, <2>1, <2>2 DEF WindowTypes, FatesFit, Spots
  <2>5. Turns' = waiting /\ Returned' = head
    BY <2>1 DEF Turns, Returned
  <2> QED BY <2>1, <2>3, <2>4, <2>5 DEF WindowIInv
<1>3. CASE Reclaim
  <2>1. /\ spot = "reclaim" /\ spot' = "claim" /\ exhausted' = (WorldIn({"open"}) = {})
        /\ UNCHANGED <<manner, head, joined, exact, subject>>
    BY <1>3 DEF Reclaim
  <2>2. /\ LineFits(waiting, world, overtaken, head) /\ joined = <<>>
        /\ \A c \in Settings : world[c] \in Fates \ {"unresolved"}
        /\ \A c \in head : world[c] \in {"open", "failed"}
    BY <1>1, <2>1 DEF WindowIInv, FatesFit, Turns, Returned
  <2>3. Turns' = waiting' /\ Returned' = {}
    BY <2>1 DEF Turns, Returned
  <2>4. CASE WorldIn({"open"}) = {}
    <3>1. UNCHANGED <<world, waiting, overtaken>>
      BY <1>3, <2>4 DEF Reclaim
    <3>2. \A c \in Settings : world[c] # "open"
      BY <2>4 DEF WorldIn
    <3>3. \A c \in head : IsClosed(world[c])
      BY <1>1, <2>2, <3>2 DEF IsClosed
    <3>4. LineFits(waiting, world, overtaken, {})
      BY <2>2, <3>3 DEF LineFits
    <3>5. WindowTypes' /\ FatesFit'
      BY <1>1, <2>1, <2>2, <3>1, <3>2 DEF WindowTypes, FatesFit, Spots
    <3> QED BY <2>1, <2>2, <2>3, <3>1, <3>4, <3>5 DEF WindowIInv
  <2>5. CASE WorldIn({"open"}) # {}
    <3>1. /\ world' = WorldAs(NextBatch, "claimed") /\ waiting' = <<NextBatch>> \o waiting
          /\ overtaken' = Overtaken
      BY <1>3, <2>5 DEF Reclaim
    <3>2. /\ NextBatch \in SUBSET Settings
          /\ \A c \in NextBatch : world[c] = "open"
          /\ \A c \in Settings : c < Min(NextBatch) => world[c] # "open"
      BY <1>1, <2>5, NextBatchFacts
    <3>3. /\ \A c \in Settings : world'[c] = IF c \in NextBatch THEN "claimed" ELSE world[c]
          /\ world' \in [Settings -> Fates]
      BY <1>1, <3>1 DEF WorldAs, Fates
    <3>4. /\ overtaken \subseteq Overtaken /\ head \ NextBatch \subseteq Overtaken
          /\ \A c \in Settings : world[c] = "claimed" /\ c < Min(NextBatch) => c \in Overtaken
          /\ Overtaken \in SUBSET Settings
      BY <1>1 DEF Overtaken, WorldIn, WindowTypes
    <3> HIDE DEF NextBatch, Overtaken, WorldAs
    <3>5. LineFits(waiting', world', overtaken', {})
      BY <2>2, <3>1, <3>2, <3>3, <3>4, FrontEnters
    <3>6. waiting' \in Seq(SUBSET Settings)
      BY <1>1, <3>1, <3>2
    <3>7. WindowTypes'
      BY <1>1, <2>1, <3>1, <3>3, <3>4, <3>6 DEF WindowTypes, Spots
    <3>8. FatesFit'
      BY <2>1, <2>2, <2>5, <3>3 DEF FatesFit
    <3> QED BY <2>1, <2>2, <2>3, <3>5, <3>7, <3>8 DEF WindowIInv
  <2> QED BY <2>4, <2>5
<1> QED BY <1>2, <1>3

\* Every step of the loop, and of the author, keeps the invariant.
LEMMA WindowSteps == ASSUME WindowIInv, [WindowNext]_window PROVE WindowIInv'
<1>1. CASE UNCHANGED window \/ \E s \in Subjects : SubjectEdited(s)
  <2>1. UNCHANGED <<manner, spot, head, waiting, joined, exhausted, exact, world, subject, overtaken>>
    BY <1>1 DEF window, SubjectEdited
  <2>2. WindowTypes' /\ FatesFit' /\ Turns' = Turns /\ Returned' = Returned
    BY <2>1 DEF WindowIInv, WindowTypes, FatesFit, Turns, Returned
  <2> QED BY <2>1, <2>2 DEF WindowIInv
<1>2. CASE CallRaises \/ RaiseClaimError \/ ReportRaises \/ JobReturns
  <2>1. PICK how \in {"raised", "returned"} : Ends(how) /\ UNCHANGED world
    BY <1>2 DEF CallRaises, RaiseClaimError, ReportRaises, JobReturns, JobStops
  <2> QED BY <2>1, EndsStep DEF WindowIInv, WindowTypes
<1>3. CASE WindowStep
  <2>1. CASE \/ \E m \in {"independent", "ordered", "deferring"} : Begin(m)
             \/ \E about \in [Settings -> Subjects], lost \in SUBSET Settings : Resolve(about, lost)
    BY <2>1, ResolveStep
  <2>2. CASE TakeWaiting \/ ClaimHead
    BY <2>2, ClaimStep
  <2>3. CASE \/ Load \/ JudgeTogether \/ Decide \/ ContextStale
             \/ \E kind \in Kinds : LoadRaises(kind) \/ DecideRaises(kind) \/ CompleteRaises(kind)
             \/ \E kind \in {"candidate", "fatal"} : JudgeRaises(kind)
    BY <2>3, WorkStep
  <2>4. CASE Join \/ PutBack \/ NothingFollows \/ ClaimAheadRaises
    BY <2>4, LookStep
  <2>5. CASE (\E bad \in SUBSET head : SaveAccepted(bad)) \/ SaveUnanswered \/ BatchFails
    BY <2>5, SaveStep
  <2>6. CASE ResetSubjects \/ Reclaim
    BY <2>6, ResetStep
  <2> QED BY <1>2, <1>3, <2>1, <2>2, <2>3, <2>4, <2>5, <2>6 DEF WindowStep
<1> QED BY <1>1, <1>3 DEF WindowNext

-----------------------------------------------------------------------------
\* What the loop closes

\* Only the batch at work is closed, and saved on the context it was decided on.
LEMMA OnlyHeadCloses ==
  ASSUME WindowIInv, WindowNext, spot \notin {"prepare", "resolve"}, Closing # {}
  PROVE  /\ Closing = head
         /\ spot \in {"load", "judge", "compare", "save", "candidate", "fatal", "subjects"}
<1>1. world \in [Settings -> Fates] /\ head \in SUBSET Settings
  BY DEF WindowIInv, WindowTypes
<1>2. ~UNCHANGED world
  BY DEF Closing
<1>3. ASSUME spot \in {"save", "candidate", "fatal", "subjects"},
             \A c \in Settings \ head : world'[c] = world[c],
             \A c \in head : world'[c] \in {"saved", "failed"}
      PROVE  Closing = head
  <2>1. \A c \in head : world[c] = "claimed"
    BY <1>3, HeadIsFirst
  <2> QED BY <1>1, <1>3, <2>1 DEF Closing
<1>4. ASSUME NEW cs, NEW st, world' = WorldAs(cs, st), st \notin {"saved", "failed"} PROVE FALSE
  BY <1>1, <1>4 DEF Closing, WorldAs
<1>5. CASE \E bad \in SUBSET head : SaveAccepted(bad)
  <2>1. /\ spot = "save"
        /\ \A c \in Settings \ head : world'[c] = world[c]
        /\ \A c \in head : world'[c] \in {"saved", "failed"}
    BY <1>1, <1>5 DEF SaveAccepted
  <2> QED BY <1>3, <2>1
<1>6. CASE SaveUnanswered \/ BatchFails
  <2>1. /\ spot \in {"save", "candidate", "fatal", "subjects"}
        /\ \A c \in Settings \ head : world'[c] = world[c]
        /\ \A c \in head : world'[c] \in {"saved", "failed"}
    BY <1>1, <1>6 DEF SaveUnanswered, BatchFails, WorldAs
  <2> QED BY <1>3, <2>1
<1>7. CASE ClaimHead \/ Join \/ PutBack \/ ResetSubjects \/ Reclaim
  <2>1. \E cs, st : world' = WorldAs(cs, st) /\ st \in {"claimed", "unresolved"}
    BY <1>2, <1>7 DEF ClaimHead, Join, PutBack, Follow, ResetSubjects, Reclaim
  <2> QED BY <1>4, <2>1
<1>8. CASE ~ \/ ClaimHead \/ Join \/ PutBack \/ ResetSubjects \/ Reclaim
             \/ SaveUnanswered \/ BatchFails \/ \E bad \in SUBSET head : SaveAccepted(bad)
  <2>1. \A about, lost : ~Resolve(about, lost)
    BY DEF Resolve
  <2>2. \/ UNCHANGED world
        \/ \E about \in [Settings -> Subjects], lost \in SUBSET Settings : Resolve(about, lost)
    BY <1>8 DEF WindowNext, WindowStep, SubjectEdited, Begin, CallRaises, TakeWaiting,
                RaiseClaimError, JobReturns, JobStops, Load, NothingFollows, ClaimAheadRaises,
                JudgeTogether, Decide, LoadRaises, DecideRaises, CompleteRaises, JudgeRaises,
                Trouble, ContextStale, ReportRaises
  <2> QED BY <1>2, <2>1, <2>2
<1> QED BY <1>5, <1>6, <1>7, <1>8

\* A job returns with nothing left open.
LEMMA ReturnsClosed ==
  ASSUME WindowIInv, WindowNext, spot' = "returned"
  PROVE  WorldIn({"saved", "failed"}) = Settings
<1>1. JobReturns
  BY DEF WindowIInv, WindowTypes, WindowNext, WindowStep, SubjectEdited, Begin, Resolve, CallRaises,
         TakeWaiting, RaiseClaimError, ClaimHead, JobStops, Ends, Load, Join, PutBack, Follow,
         Looked, NothingFollows, ClaimAheadRaises, JudgeTogether, Decide, LoadRaises,
         DecideRaises, CompleteRaises, JudgeRaises, Trouble, Kinds, SaveAccepted, SaveUnanswered,
         Closes, ContextStale, ResetSubjects, Reclaim, BatchFails, ReportRaises
<1>2. /\ spot = "claim" /\ waiting = <<>> /\ (exhausted \/ WorldIn({"open"}) = {})
      /\ world \in [Settings -> Fates]
  BY <1>1 DEF JobReturns, WindowIInv, WindowTypes
<1>3. \A c \in Settings : world[c] # "open" /\ world[c] # "unresolved"
  BY <1>2 DEF WindowIInv, FatesFit, WorldIn
<1>4. \A c \in Settings : world[c] # "claimed"
  <2>1. LineFits(<<>>, world, overtaken, {})
    BY <1>2 DEF WindowIInv, Turns, Returned
  <2> QED BY <2>1 DEF LineFits
<1> QED BY <1>2, <1>3, <1>4 DEF WorldIn, Fates

\* However far the window looks ahead, batches are closed in the order of their first
\* settings but for those claimed again, on the context they were decided on, and a job
\* returns with everything closed.
THEOREM TurnsKept == WindowSpec => ClosedInTurn
<1>1. WindowIInv /\ [WindowNext]_window => WindowIInv'
  BY WindowSteps
<1>2. WindowIInv /\ [WindowNext]_window =>
        [/\ Closing # {} /\ spot \notin {"prepare", "resolve"} =>
              \A c \in Settings : c < Min(Closing) =>
                world[c] \in {"saved", "failed"} \/ c \in overtaken
         /\ (\E c \in Closing : world'[c] = "saved") => exact
         /\ spot' = "returned" => WorldIn({"saved", "failed"}) = Settings]_window
  <2> SUFFICES ASSUME WindowIInv, WindowNext
               PROVE  /\ Closing # {} /\ spot \notin {"prepare", "resolve"} =>
                           \A c \in Settings : c < Min(Closing) =>
                             world[c] \in {"saved", "failed"} \/ c \in overtaken
                      /\ (\E c \in Closing : world'[c] = "saved") => exact
                      /\ spot' = "returned" => WorldIn({"saved", "failed"}) = Settings
    OBVIOUS
  <2>1. Closing # {} /\ spot \notin {"prepare", "resolve"} =>
          \A c \in Settings : c < Min(Closing) =>
            world[c] \in {"saved", "failed"} \/ c \in overtaken
    BY OnlyHeadCloses, HeadIsFirst DEF IsClosed
  <2>2. ASSUME NEW c \in Closing, world'[c] = "saved" PROVE exact
    <3>1. CASE spot = "save"
      BY <3>1 DEF WindowIInv
    <3>2. CASE spot # "save"
      <4>1. world \in [Settings -> Fates] /\ c \in Settings /\ world[c] # "saved"
        BY <2>2 DEF WindowIInv, WindowTypes, Closing
      <4>2. \/ UNCHANGED world
            \/ \E cs, st : world' = WorldAs(cs, st) /\ st # "saved"
            \/ \E about \in [Settings -> Subjects], lost \in SUBSET Settings : Resolve(about, lost)
        BY <3>2 DEF WindowNext, WindowStep, SubjectEdited, Begin, CallRaises, TakeWaiting,
                    RaiseClaimError, JobReturns, JobStops, Load, NothingFollows, ClaimAheadRaises,
                    JudgeTogether, Decide, LoadRaises, DecideRaises, CompleteRaises, JudgeRaises,
                    Trouble, ContextStale, ReportRaises, ClaimHead, Join, PutBack, Follow,
                    ResetSubjects, Reclaim, BatchFails, SaveAccepted, SaveUnanswered
      <4>3. CASE \E cs, st : world' = WorldAs(cs, st) /\ st # "saved"
        BY <2>2, <4>1, <4>3 DEF WorldAs
      <4>4. CASE \E about \in [Settings -> Subjects], lost \in SUBSET Settings : Resolve(about, lost)
        BY <2>2, <4>1, <4>4 DEF Resolve
      <4> QED BY <2>2, <4>1, <4>2, <4>3, <4>4
    <3> QED BY <3>1, <3>2
  <2> QED BY <2>1, <2>2, ReturnsClosed
<1>3. WindowInit => WindowIInv
  BY WindowStarts
<1> QED BY <1>1, <1>2, <1>3, PTL DEF WindowSpec, ClosedInTurn
=============================================================================
