----------------------- MODULE BackfillCampaign_proofs -----------------------
(***************************************************************************)
(* What holds of the retrieval index and of its backfill campaign for any  *)
(* sources, chunks, budget, batch and page sizes, and any number of fills: *)
(* a vector is served only with the text it was made from, the campaign    *)
(* never pays beyond its budget, and it makes no call after one that was   *)
(* perhaps paid and is not known.  Then, of how a text is cut into what is *)
(* indexed, extracted from and inspected (TextSlices), for every text.     *)
(***************************************************************************)
EXTENDS BackfillCampaign, TextSlices, FiniteSetTheorems, TLAPS

-----------------------------------------------------------------------------
\* The index

RowsOf(v) == IF v = 0 THEN {} ELSE 1..Chunks[v]
ChunkRow == [status : {"MISSING", "READY", "FAILED"}, vec : Versions \union {0}]
Headers == [ver : Versions \union {0},
            rows : UNION {[RowsOf(v) -> ChunkRow] : v \in Versions \union {0}}]

\* The rows of a header are those of its version, and what is ready is of it.
HeaderFits(h) ==
  /\ h.rows \in [RowsOf(h.ver) -> ChunkRow]
  /\ \A i \in RowsOf(h.ver) : h.rows[i].status = "READY" => h.rows[i].vec = h.ver

IndexFits(ix) == ix \in [Sources -> Headers] /\ \A s \in Sources : HeaderFits(ix[s])

FillStates == [pc : {"idle", "frozen", "batch", "called"}, s : Sources \union {"none"},
               ver : Versions \union {0}, missing : SUBSET Nat, batch : SUBSET Nat]

FillsHold ==
  /\ fill \in [Fills -> FillStates]
  /\ \A f \in Fills :
       /\ fill[f].batch \subseteq fill[f].missing
       /\ fill[f].pc # "called" => fill[f].batch = {}
       /\ fill[f].pc # "idle" => fill[f].s \in Sources /\ fill[f].ver \in Versions

\* Every version but the first came with an event.
TextsHold ==
  /\ src \in [Sources -> [ver : Versions, open : BOOLEAN]]
  /\ events \in 0..MaxEvents
  /\ \A s \in Sources : src[s].ver <= events + 1

IndexIInv == TextsHold /\ IndexFits(idx) /\ FillsHold

\* The versions and the chunks of a version.
LEMMA VersionFacts ==
  /\ MaxEvents \in Nat /\ Versions = 1..(MaxEvents + 1) /\ 0 \notin Versions
  /\ \A v \in Versions : Chunks[v] \in Nat \ {0} /\ v # 0 /\ v \in Nat
BY IndexAssumption

\* A new header, with no vector yet, fits.
LEMMA FreshFits ==
  ASSUME NEW v \in Versions,
         NEW h, h = [ver |-> v, rows |-> [i \in 1..Chunks[v] |-> [status |-> "MISSING", vec |-> 0]]]
  PROVE  h \in Headers /\ HeaderFits(h)
<1> DEFINE r == [i \in 1..Chunks[v] |-> [status |-> "MISSING", vec |-> 0]]
<1>1. v # 0 /\ RowsOf(v) = 1..Chunks[v]
  BY VersionFacts DEF RowsOf
<1>2. [status |-> "MISSING", vec |-> 0] \in ChunkRow
  BY DEF ChunkRow
<1>3. r \in [RowsOf(v) -> ChunkRow]
  BY <1>1, <1>2
<1>4. \A i \in RowsOf(v) : r[i].status # "READY"
  BY <1>1
<1> HIDE DEF r
<1>5. h.ver = v /\ h.rows = r /\ h = [ver |-> v, rows |-> r]
  BY DEF r
<1>6. h \in Headers
  BY <1>3, <1>5 DEF Headers
<1> QED BY <1>3, <1>4, <1>5, <1>6 DEF HeaderFits

\* No header fits a source that has none.
LEMMA NoIndexFits == NoIndex \in Headers /\ HeaderFits(NoIndex)
<1>1. RowsOf(0) = {}
  BY DEF RowsOf
<1>2. <<>> \in [{} -> ChunkRow]
  OBVIOUS
<1>3. NoIndex \in Headers
  BY <1>1, <1>2 DEF NoIndex, Headers
<1> QED BY <1>1, <1>2, <1>3 DEF NoIndex, HeaderFits

\* A header is replaced as a whole.
LEMMA ReplacedFits ==
  ASSUME NEW ix, IndexFits(ix), NEW s \in Sources, NEW h \in Headers, HeaderFits(h)
  PROVE  IndexFits([ix EXCEPT ![s] = h])
BY DEF IndexFits

\* The rows of a header are replaced one by one.
LEMMA RowsReplaced ==
  ASSUME NEW ix, IndexFits(ix), NEW s \in Sources, NEW rows \in [RowsOf(ix[s].ver) -> ChunkRow],
         \A i \in RowsOf(ix[s].ver) : rows[i].status = "READY" => rows[i].vec = ix[s].ver
  PROVE  IndexFits([ix EXCEPT ![s].rows = rows])
<1> DEFINE h == [ver |-> ix[s].ver, rows |-> rows]
<1>1. ix[s] \in Headers /\ ix \in [Sources -> Headers]
  BY DEF IndexFits
<1>2. ix[s].ver \in Versions \union {0}
  BY <1>1 DEF Headers
<1>3. h \in Headers
  BY <1>2 DEF Headers
<1>4. HeaderFits(h)
  BY DEF HeaderFits
<1>5. [ix[s] EXCEPT !.rows = rows] = h
  BY <1>1 DEF Headers
<1>6. [ix EXCEPT ![s].rows = rows] = [ix EXCEPT ![s] = h]
  BY <1>5
<1> HIDE DEF h
<1> QED BY <1>3, <1>4, <1>6, ReplacedFits

\* prepare leaves an index that fits.
LEMMA PreparedFits ==
  ASSUME IndexFits(idx), NEW s \in Sources, NEW v \in Versions
  PROVE  IndexFits(Prepared(s, v))
<1> DEFINE h == [ver |-> v, rows |-> [i \in 1..Chunks[v] |-> [status |-> "MISSING", vec |-> 0]]]
<1>1. h \in Headers /\ HeaderFits(h)
  BY FreshFits
<1>2. Prepared(s, v) = idx \/ Prepared(s, v) = [idx EXCEPT ![s] = h]
  BY DEF Prepared
<1> HIDE DEF h
<1> QED BY <1>1, <1>2, ReplacedFits

\* save under the header it was made for leaves an index that fits.
LEMMA SavedFits ==
  ASSUME IndexFits(idx), NEW s \in Sources, NEW v \in Versions, Matches(s, v), NEW batch
  PROVE  IndexFits(Saved(s, v, batch))
<1> DEFINE rows == [i \in RowsOf(v) |->
                     IF i \in batch THEN [status |-> "READY", vec |-> v] ELSE idx[s].rows[i]]
<1>1. /\ idx[s].rows \in [RowsOf(v) -> ChunkRow] /\ idx[s].ver = v
      /\ \A i \in RowsOf(v) : idx[s].rows[i].status = "READY" => idx[s].rows[i].vec = v
  BY DEF IndexFits, HeaderFits, Matches
<1>2. Saved(s, v, batch) = [idx EXCEPT ![s].rows = rows]
  BY <1>1 DEF Saved, IndexFits
<1>3. [status |-> "READY", vec |-> v] \in ChunkRow
  BY DEF ChunkRow
<1>4. rows \in [RowsOf(v) -> ChunkRow]
  BY <1>1, <1>3
<1>5. \A i \in RowsOf(v) : rows[i].status = "READY" => rows[i].vec = v
  BY <1>1
<1> HIDE DEF rows
<1>6. IndexFits([idx EXCEPT ![s].rows = rows])
  BY <1>1, <1>4, <1>5, RowsReplaced
<1> QED BY <1>2, <1>6

\* failed leaves an index that fits.
LEMMA MarkedFits ==
  ASSUME IndexFits(idx), NEW s \in Sources, NEW batch
  PROVE  IndexFits(Marked(s, batch))
<1> DEFINE v == idx[s].ver
           rows == [i \in RowsOf(v) |->
                     IF i \in batch THEN [idx[s].rows[i] EXCEPT !.status = "FAILED"]
                     ELSE idx[s].rows[i]]
<1>1. /\ idx[s].rows \in [RowsOf(v) -> ChunkRow]
      /\ \A i \in RowsOf(v) : idx[s].rows[i].status = "READY" => idx[s].rows[i].vec = v
  BY DEF IndexFits, HeaderFits
<1>2. Marked(s, batch) = [idx EXCEPT ![s].rows = rows]
  BY <1>1 DEF Marked, IndexFits
<1>3. \A i \in RowsOf(v) : rows[i] \in ChunkRow /\ (rows[i].status = "READY" => rows[i].vec = v)
  <2> TAKE i \in RowsOf(v)
  <2>1. idx[s].rows[i] \in ChunkRow
    BY <1>1
  <2>2. CASE i \in batch
    BY <2>1, <2>2 DEF ChunkRow
  <2>3. CASE i \notin batch
    BY <1>1, <2>1, <2>3
  <2> QED BY <2>2, <2>3
<1>4. rows \in [RowsOf(v) -> ChunkRow]
  BY <1>3
<1>5. rows \in [RowsOf(idx[s].ver) -> ChunkRow]
      /\ \A i \in RowsOf(idx[s].ver) : rows[i].status = "READY" => rows[i].vec = idx[s].ver
  BY <1>3, <1>4
<1> HIDE DEF rows, v
<1>6. IndexFits([idx EXCEPT ![s].rows = rows])
  BY <1>5, RowsReplaced
<1> QED BY <1>2, <1>6
\* The books' rows go with their text, and no others change.
LEMMA TextChanges ==
  ASSUME IndexIInv, NEW s \in Sources, NEW edited \in [ver : Versions, open : BOOLEAN],
         edited.ver <= events' + 1, Event, src' = [src EXCEPT ![s] = edited],
         idx' = IF s \in Books THEN [idx EXCEPT ![s] = NoIndex] ELSE idx,
         UNCHANGED fill
  PROVE  IndexIInv'
<1>1. events \in Nat /\ events' = events + 1 /\ events' \in 0..MaxEvents
  BY VersionFacts DEF IndexIInv, TextsHold, Event
<1>2. src' \in [Sources -> [ver : Versions, open : BOOLEAN]]
  BY DEF IndexIInv, TextsHold
<1>3. \A r \in Sources : src'[r].ver <= events' + 1
  <2> TAKE r \in Sources
  <2>1. src[r].ver \in Versions /\ src[r].ver <= events + 1
    BY DEF IndexIInv, TextsHold
  <2>2. src'[r] = IF r = s THEN edited ELSE src[r]
    BY DEF IndexIInv, TextsHold
  <2> QED BY <1>1, <2>1, <2>2, VersionFacts
<1>4. TextsHold'
  BY <1>1, <1>2, <1>3 DEF TextsHold
<1>5. IndexFits(idx')
  BY NoIndexFits, ReplacedFits DEF IndexIInv
<1>6. FillsHold'
  BY DEF IndexIInv, FillsHold
<1> QED BY <1>4, <1>5, <1>6 DEF IndexIInv

\* The indexer and the fills leave the texts alone.
LEMMA IndexChanges ==
  ASSUME IndexIInv, NEW ix, idx' = ix, IndexFits(ix), UNCHANGED src,
         events' \in events..MaxEvents, FillsHold'
  PROVE  IndexIInv'
<1>1. TextsHold'
  BY VersionFacts DEF IndexIInv, TextsHold
<1> QED BY <1>1 DEF IndexIInv

\* A fill changes its own state.
LEMMA FillChanges ==
  ASSUME IndexIInv, NEW f \in Fills, NEW state \in FillStates, fill' = [fill EXCEPT ![f] = state],
         state.batch \subseteq state.missing, state.pc # "called" => state.batch = {},
         state.pc # "idle" => state.s \in Sources /\ state.ver \in Versions
  PROVE  FillsHold'
BY DEF IndexIInv, FillsHold

\* A validation that fills nothing holds no batch.
LEMMA IdleFill == NoFill \in FillStates /\ NoFill.pc = "idle" /\ NoFill.batch = {}
BY VersionFacts DEF NoFill, FillStates

\* A fill that ends leaves its validation idle.
LEMMA FillEnding == ASSUME IndexIInv, NEW f \in Fills, FillEnds(f) PROVE FillsHold'
BY IdleFill, FillChanges DEF FillEnds

\* Edits, purges and fills keep the index fitting.
LEMMA IndexStep == ASSUME IndexIInv, IndexNext PROVE IndexIInv'
<1>1. ASSUME NEW s \in Sources, Edit(s) PROVE IndexIInv'
  <2> DEFINE edited == [src[s] EXCEPT !.ver = @ + 1]
  <2>1. src[s] \in [ver : Versions, open : BOOLEAN] /\ src[s].ver <= events + 1
        /\ events \in Nat
    BY VersionFacts DEF IndexIInv, TextsHold
  <2>2. Event /\ events' = events + 1 /\ events < MaxEvents /\ UNCHANGED fill
        /\ idx' = IF s \in Books THEN [idx EXCEPT ![s] = NoIndex] ELSE idx
    BY <1>1 DEF Edit, Event
  <2>3. edited.ver = src[s].ver + 1 /\ src[s].ver + 1 \in Versions /\ edited.ver <= events' + 1
    BY <2>1, <2>2, VersionFacts
  <2>4. edited \in [ver : Versions, open : BOOLEAN]
    BY <2>1, <2>3
  <2>5. src' = [src EXCEPT ![s] = edited]
    BY <1>1 DEF Edit
  <2> HIDE DEF edited
  <2> QED BY <2>2, <2>3, <2>4, <2>5, TextChanges
<1>2. ASSUME NEW s \in Sources, Purge(s) PROVE IndexIInv'
  <2> DEFINE edited == [src[s] EXCEPT !.open = FALSE]
  <2>1. src[s] \in [ver : Versions, open : BOOLEAN] /\ src[s].ver <= events + 1
        /\ events \in Nat
    BY VersionFacts DEF IndexIInv, TextsHold
  <2>2. Event /\ events' = events + 1 /\ UNCHANGED fill
        /\ idx' = IF s \in Books THEN [idx EXCEPT ![s] = NoIndex] ELSE idx
    BY <1>2 DEF Purge, Event
  <2>3. edited.ver = src[s].ver /\ edited.ver <= events' + 1
    BY <2>1, <2>2, VersionFacts
  <2>4. edited \in [ver : Versions, open : BOOLEAN]
    BY <2>1, <2>3
  <2>5. src' = [src EXCEPT ![s] = edited]
    BY <1>2 DEF Purge
  <2> HIDE DEF edited
  <2> QED BY <2>2, <2>3, <2>4, <2>5, TextChanges
<1>3. ASSUME NEW f \in Fills, FillStep(f) PROVE IndexIInv'
  <2> DEFINE s == fill[f].s
             v == fill[f].ver
  <2>1. /\ fill \in [Fills -> FillStates] /\ fill[f] \in FillStates
        /\ fill[f].batch \subseteq fill[f].missing
        /\ fill[f].pc # "called" => fill[f].batch = {}
        /\ fill[f].pc # "idle" => s \in Sources /\ v \in Versions
        /\ events \in 0..MaxEvents /\ events \in events..MaxEvents /\ IndexFits(idx)
    BY VersionFacts DEF IndexIInv, FillsHold, TextsHold
  <2>2. ASSUME NEW r \in Sources, FillIntake(f, r) PROVE IndexIInv'
    <3> DEFINE state == [fill[f] EXCEPT !.pc = "frozen", !.s = r, !.ver = src[r].ver]
    <3>1. src[r].ver \in Versions
      BY DEF IndexIInv, TextsHold
    <3>2. state \in FillStates /\ state.s = r /\ state.ver = src[r].ver
          /\ state.batch = {}
      BY <2>1, <2>2, <3>1 DEF FillStates, FillIntake, Filling
    <3>3. fill' = [fill EXCEPT ![f] = state]
      BY <2>1, <2>2 DEF FillIntake
    <3>4. FillsHold'
      <4> HIDE DEF state
      <4> QED BY <3>1, <3>2, <3>3, FillChanges
    <3>5. events' \in events..MaxEvents /\ UNCHANGED <<src, idx>>
      BY <2>1, <2>2, VersionFacts DEF FillIntake, Event
    <3> QED BY <2>1, <3>4, <3>5, IndexChanges
  <2>3. CASE FillPrepare(f)
    <3>1. fill[f].pc = "frozen" /\ s \in Sources /\ v \in Versions /\ UNCHANGED <<src, events>>
      BY <2>1, <2>3 DEF FillPrepare, Filling, FillKeeps
    <3>2. CASE Missing(s, v) # {} /\ Current(s, v)
      <4> DEFINE state == [fill[f] EXCEPT !.pc = "batch", !.missing = Missing(s, v)]
      <4>1. idx' = Prepared(s, v)
            /\ fill' = [fill EXCEPT ![f].pc = "batch", ![f].missing = Missing(s, v)]
        BY <2>3, <3>2 DEF FillPrepare
      <4>2. Missing(s, v) \in SUBSET Nat
        BY <3>1, VersionFacts DEF Missing
      <4>3. state \in FillStates /\ state.s = s /\ state.ver = v /\ state.batch = {}
        BY <2>1, <3>1, <4>2 DEF FillStates
      <4>4. fill' = [fill EXCEPT ![f] = state]
        BY <2>1, <4>1
      <4>5. FillsHold'
        <5> HIDE DEF state
        <5> QED BY <3>1, <4>3, <4>4, FillChanges
      <4> QED BY <2>1, <3>1, <4>1, <4>5, PreparedFits, IndexChanges
    <3>3. CASE ~(Missing(s, v) # {} /\ Current(s, v))
      <4>1. FillEnds(f) /\ UNCHANGED idx
        BY <2>3, <3>3 DEF FillPrepare
      <4> QED BY <2>1, <3>1, <4>1, FillEnding, IndexChanges
    <3> QED BY <3>2, <3>3
  <2>4. CASE FillCall(f)
    <3>1. fill[f].pc = "batch" /\ s \in Sources /\ v \in Versions /\ UNCHANGED <<src, idx, events>>
      BY <2>1, <2>4 DEF FillCall, Filling, FillKeeps
    <3>2. CASE fill[f].missing # {} /\ Valid(s, v)
      <4> DEFINE state == [fill[f] EXCEPT !.pc = "called", !.batch = Batch(fill[f].missing)]
      <4>1. Batch(fill[f].missing) \subseteq fill[f].missing
        BY DEF Batch
      <4>2. state \in FillStates /\ state.s = s /\ state.ver = v /\ state.pc = "called"
            /\ state.batch \subseteq state.missing
        BY <2>1, <3>1, <4>1 DEF FillStates
      <4>3. fill' = [fill EXCEPT ![f] = state]
        BY <2>1, <2>4, <3>2 DEF FillCall
      <4>4. FillsHold'
        <5> HIDE DEF state
        <5> QED BY <3>1, <4>2, <4>3, FillChanges
      <4> QED BY <2>1, <3>1, <4>4, IndexChanges
    <3>3. CASE ~(fill[f].missing # {} /\ Valid(s, v))
      <4>1. FillEnds(f)
        BY <2>4, <3>3 DEF FillCall
      <4> QED BY <2>1, <3>1, <4>1, FillEnding, IndexChanges
    <3> QED BY <3>2, <3>3
  <2>5. CASE FillSave(f)
    <3>1. fill[f].pc = "called" /\ s \in Sources /\ v \in Versions /\ UNCHANGED <<src, events>>
      BY <2>1, <2>5 DEF FillSave, Filling, FillKeeps
    <3>2. CASE Valid(s, v)
      <4> DEFINE left == fill[f].missing \ fill[f].batch
                 state == [fill[f] EXCEPT !.pc = "batch", !.missing = left, !.batch = {}]
      <4>1. left \in SUBSET Nat
        BY <2>1 DEF FillStates
      <4>2. state \in FillStates /\ state.s = s /\ state.ver = v /\ state.pc = "batch"
            /\ state.batch = {}
        BY <2>1, <3>1, <4>1 DEF FillStates
      <4>3. fill' = [fill EXCEPT ![f] = state] /\ idx' = Saved(s, v, fill[f].batch) /\ Matches(s, v)
        BY <2>1, <2>5, <3>2 DEF FillSave, Valid
      <4>4. FillsHold'
        <5> HIDE DEF state
        <5> QED BY <3>1, <4>2, <4>3, FillChanges
      <4> QED BY <2>1, <3>1, <4>3, <4>4, SavedFits, IndexChanges
    <3>3. CASE ~Valid(s, v)
      <4>1. FillEnds(f) /\ UNCHANGED idx
        BY <2>5, <3>3 DEF FillSave
      <4> QED BY <2>1, <3>1, <4>1, FillEnding, IndexChanges
    <3> QED BY <3>2, <3>3
  <2>6. CASE FillFails(f)
    <3>1. fill[f].pc = "called" /\ s \in Sources /\ FillEnds(f) /\ UNCHANGED <<src, events>>
          /\ idx' = IF Valid(s, v) THEN Marked(s, fill[f].batch) ELSE idx
      BY <2>1, <2>6 DEF FillFails, Filling, FillKeeps
    <3>2. IndexFits(idx')
      BY <2>1, <3>1, MarkedFits
    <3> QED BY <2>1, <3>1, <3>2, FillEnding, IndexChanges
  <2>7. CASE FillStops(f)
    <3>1. FillEnds(f) /\ UNCHANGED <<src, events, idx>>
      BY <2>7 DEF FillStops, FillKeeps
    <3> QED BY <2>1, <3>1, FillEnding, IndexChanges
  <2> QED BY <1>3, <2>2, <2>3, <2>4, <2>5, <2>6, <2>7 DEF FillStep
<1> QED BY <1>1, <1>2, <1>3 DEF IndexNext

\* A set of numbers that is bounded has a greatest member.
LEMMA Greatest ==
  ASSUME NEW n \in Nat, NEW S \in SUBSET (0..n), S # {}
  PROVE  \E m \in S : \A i \in S : i <= m
<1> DEFINE above(k) == {i \in S : i > k}
           family == {above(k) : k \in S}
<1>1. IsFiniteSet(S)
  <2>1. IsFiniteSet(0..n)
    BY FS_Interval
  <2> QED BY <2>1, FS_Subset
<1>2. family \subseteq FiniteSubsetsOf(S) /\ family # {}
  <2>1. ASSUME NEW k \in S PROVE above(k) \in SUBSET S /\ IsFiniteSet(above(k))
    <3>1. above(k) \in SUBSET S
      OBVIOUS
    <3> HIDE DEF above
    <3> QED BY <1>1, <3>1, FS_Subset
  <2> HIDE DEF above
  <2> QED BY <2>1 DEF FiniteSubsetsOf
<1>3. IsWellFoundedOn(StrictSubsetOrdering(S), FiniteSubsetsOf(S))
  BY FS_StrictSubsetOrderingWellFounded
<1>4. PICK T \in family : \A U \in family : <<U, T>> \notin StrictSubsetOrdering(S)
  <2> HIDE DEF family
  <2> QED BY <1>2, <1>3, WFMin
<1>5. PICK m \in S : T = above(m)
  BY <1>4
<1>6. ASSUME NEW i \in S, i > m PROVE FALSE
  <2>4. \A j \in S : j \in Int
    OBVIOUS
  <2>1. above(i) \subseteq T /\ i \in T /\ i \notin above(i)
    <3>1. \A j \in S : j > i => j > m
      BY <1>6, <2>4
    <3>2. ~(i > i)
      BY <2>4
    <3> QED BY <1>5, <1>6, <3>1, <3>2
  <2>3. above(i) \in family
    <3> HIDE DEF above
    <3> QED BY <1>6
  <2>2. <<above(i), T>> \in StrictSubsetOrdering(S)
    BY <2>1, <1>5 DEF StrictSubsetOrdering
  <2> QED BY <1>4, <2>2, <2>3
<1> QED BY <1>6

\* The next batch is no larger than what the run may still embed.
LEMMA BatchFits ==
  ASSUME NEW room \in Nat, room = MaxChunks - run.got, NEW n \in Nat, run.missing \subseteq 1..n
  PROVE  /\ NextBatch \subseteq run.missing /\ IsFiniteSet(NextBatch)
         /\ Cardinality(NextBatch) \in Nat /\ Cardinality(NextBatch) <= room
<1> DEFINE upto(i) == {j \in run.missing : j <= i}
<1>1. IsFiniteSet(run.missing)
  <2>1. IsFiniteSet(1..n)
    BY FS_Interval
  <2> QED BY <2>1, FS_Subset
<1>2. NextBatch \in SUBSET run.missing
  BY DEF NextBatch, Batch
<1>3. IsFiniteSet(NextBatch) /\ Cardinality(NextBatch) \in Nat
  BY <1>1, <1>2, FS_Subset, FS_CardinalityType
<1>4. CASE NextBatch = {}
  BY <1>2, <1>3, <1>4, FS_EmptySet
<1>5. CASE NextBatch # {}
  <2>1. NextBatch \in SUBSET (0..n)
    BY <1>2
  <2>2. PICK m \in NextBatch : \A i \in NextBatch : i <= m
    BY <1>5, <2>1, Greatest
  <2>3. NextBatch \subseteq upto(m)
    BY <1>2, <2>2
  <2>4. Cardinality(upto(m)) <= room
    BY <2>2 DEF NextBatch
  <2>5. upto(m) \in SUBSET run.missing
    OBVIOUS
  <2> HIDE DEF upto
  <2>6. IsFiniteSet(upto(m)) /\ Cardinality(upto(m)) \in Nat
    BY <1>1, <2>5, FS_Subset, FS_CardinalityType
  <2>7. Cardinality(NextBatch) <= Cardinality(upto(m))
    BY <2>3, <2>6, FS_Subset
  <2> QED BY <1>2, <1>3, <2>4, <2>6, <2>7
<1> QED BY <1>4, <1>5

-----------------------------------------------------------------------------
\* The campaign

CampaignStates ==
  [state : {"NOT_STARTED", "PROGRESS", "BLOCKED", "BUDGET_EXHAUSTED", "TIME_LIMIT", "CHUNK_LIMIT",
            "READY", "PARTIAL", "EMPTY", "RESUMED"},
   admitted : 0..MaxInputTokens, inflight : BOOLEAN, stuck : Nat, scanning : BOOLEAN,
   after : 0..Len(Order), seen : BOOLEAN, excluded : BOOLEAN]

Results == {"COMPLETED", "UNREADABLE", "FAILED", "CHANGED", "CHUNK_LIMIT", "TIME_LIMIT",
            "REPORTS_PENDING", "UNKNOWN_USAGE", "BUDGET_EXHAUSTED", "LEDGER_RETRYABLE",
            "LEDGER_REJECTED", "PROVIDER_RETRYABLE", "PROVIDER_CONTRACT"}
Idle == {"off", "sweep", "page", "finish", "source", "judge"}
Indexing == {"read", "batch", "reserved", "called", "save", "saved", "fails", "result", "conclude"}
Holding == {"reserved", "called", "save", "saved", "fails"}
Entries == [s : Sources, ver : Versions, open : BOOLEAN]

RunStates ==
  [pc : Idle \union Indexing, page : SUBSET Entries, s : Sources \union {"none"},
   ver : Versions \union {0}, missing : SUBSET Nat, batch : SUBSET Nat, tries : Nat, made : Nat,
   got : 0..MaxChunks, moved : BOOLEAN, failed : BOOLEAN, unknown : BOOLEAN, result : Results]

\* A run that indexes has a source, and its batch fits what it may still embed.
RunFits(r) ==
  /\ r \in RunStates
  /\ r.pc \in Indexing => r.s \in Sources /\ r.ver \in Versions
  /\ \E n \in Nat : r.missing \subseteq 1..n
  /\ r.pc \in Holding => /\ IsFiniteSet(r.batch) /\ Cardinality(r.batch) \in Nat
                         /\ r.got + Cardinality(r.batch) <= MaxChunks

\* What is reserved and not yet called is admitted and not yet paid.
Reserved(r) == IF r.pc = "reserved" THEN Cardinality(r.batch) ELSE 0

MoneyHolds(r, c, p) == p \in Nat /\ p + Reserved(r) <= c.admitted

\* The marker stands from the reservation until the usage of the call is known.
MarkerHolds(r, c, u) ==
  /\ u \in BOOLEAN /\ (u => c.inflight)
  /\ r.pc \in {"reserved", "called", "save", "saved"} => c.inflight
  /\ r.pc = "reserved" => ~u

CampaignIInv ==
  /\ camp \in CampaignStates /\ RunFits(run) /\ pending \in BOOLEAN
  /\ MoneyHolds(run, camp, paid) /\ MarkerHolds(run, camp, uncertain)

BackfillIInv == IndexIInv /\ CampaignIInv

\* The numbers of the campaign.
LEMMA CampaignFacts ==
  /\ MaxInputTokens \in Nat /\ MaxChunks \in Nat /\ MaxRetries \in Nat
  /\ Order \in Seq(Sources) /\ Len(Order) \in Nat
  /\ \A s \in Sources : Position(s) \in 1..Len(Order)
<1>1. ASSUME NEW s \in Sources PROVE Position(s) \in 1..Len(Order)
  <2>1. \E i \in 1..Len(Order) : Order[i] = s
    BY CampaignAssumption
  <2> QED BY <2>1 DEF Position
<1> QED BY <1>1, CampaignAssumption

\* Nothing is paid or reserved by most steps.
LEMMA NothingPaid ==
  ASSUME CampaignIInv, camp' \in CampaignStates, camp'.admitted = camp.admitted,
         RunFits(run'), run'.pc # "reserved", pending' \in BOOLEAN, paid' = paid,
         uncertain' \in BOOLEAN, uncertain' => camp'.inflight,
         run'.pc \in {"called", "save", "saved"} => camp'.inflight
  PROVE  CampaignIInv'
<1>1. /\ camp \in CampaignStates /\ RunFits(run) /\ paid \in Nat
      /\ paid + Reserved(run) <= camp.admitted /\ camp.admitted \in Nat
  BY CampaignFacts DEF CampaignIInv, MoneyHolds, CampaignStates
<1>2. Reserved(run) \in Nat /\ Reserved(run') = 0
  BY <1>1 DEF RunFits, Reserved, Holding
<1>3. MoneyHolds(run', camp', paid')
  BY <1>1, <1>2 DEF MoneyHolds
<1>4. MarkerHolds(run', camp', uncertain')
  BY DEF MarkerHolds
<1> QED BY <1>3, <1>4 DEF CampaignIInv

\* Nor is the marker changed by most.
LEMMA NothingCalled ==
  ASSUME CampaignIInv, camp' \in CampaignStates, camp'.admitted = camp.admitted,
         camp'.inflight = camp.inflight, RunFits(run'),
         run'.pc \notin {"reserved", "called", "save", "saved"},
         UNCHANGED <<pending, paid, uncertain>>
  PROVE  CampaignIInv'
<1>1. pending' \in BOOLEAN /\ uncertain' \in BOOLEAN
  BY DEF CampaignIInv, MarkerHolds
<1>2. uncertain' => camp'.inflight
  <2>1. uncertain => camp.inflight
    BY DEF CampaignIInv, MarkerHolds
  <2>2. uncertain' = uncertain /\ camp'.inflight = camp.inflight
    OBVIOUS
  <2> QED BY <2>1, <2>2
<1>3. run'.pc # "reserved" /\ run'.pc \notin {"called", "save", "saved"}
  OBVIOUS
<1> QED BY <1>1, <1>2, <1>3, NothingPaid

\* The run goes on to a place for which it has what it needs.
LEMMA GotoFits ==
  ASSUME RunFits(run), NEW pc \in Idle \union Indexing, Goto(pc),
         pc \in Indexing => run.pc \in Indexing, pc \in Holding => run.pc \in Holding
  PROVE  RunFits(run') /\ run'.pc = pc
<1>1. run \in RunStates /\ run' = [run EXCEPT !.pc = pc]
  BY DEF RunFits, Goto
<1>2. /\ run' \in RunStates /\ run'.pc = pc /\ run'.s = run.s /\ run'.ver = run.ver
      /\ run'.missing = run.missing /\ run'.batch = run.batch /\ run'.got = run.got
  BY <1>1 DEF RunStates
<1> QED BY <1>2 DEF RunFits

\* The loop over the batches ends with a report.
LEMMA ReportFits ==
  ASSUME RunFits(run), run.pc \in Indexing, NEW result \in Results, Report(result)
  PROVE  RunFits(run') /\ run'.pc = "result"
<1>1. /\ run \in RunStates
      /\ run' = [run EXCEPT !.pc = "result", !.result = result, !.batch = {}, !.missing = {},
                            !.tries = 0, !.unknown = FALSE]
  BY DEF RunFits, Report
<1>2. {} \in SUBSET Nat /\ "result" \in Idle \union Indexing /\ "result" \notin Holding
  BY DEF Indexing, Holding
<1>3. /\ run' \in RunStates /\ run'.pc = "result" /\ run'.s = run.s /\ run'.ver = run.ver
      /\ run'.missing = {}
  BY <1>1, <1>2 DEF RunStates
<1>4. run'.missing \subseteq 1..0
  BY <1>3
<1> QED BY <1>2, <1>3, <1>4 DEF RunFits

\* A process that is not there, and one that is before its next source.
LEMMA OffFits ==
  ASSUME NEW page \in SUBSET Entries, NEW got \in 0..MaxChunks, NEW moved \in BOOLEAN,
         NEW pc \in Idle
  PROVE  RunFits([Off EXCEPT !.pc = pc, !.page = page, !.got = got, !.moved = moved])
<1> DEFINE r == [Off EXCEPT !.pc = pc, !.page = page, !.got = got, !.moved = moved]
<1>1. r.pc = pc /\ r.missing = {}
  BY DEF Off
<1>2. pc \notin Indexing /\ pc \notin Holding
  BY DEF Idle, Indexing, Holding
<1>3. r \in RunStates
  BY CampaignFacts DEF Off, RunStates, Results
<1>4. r.missing \subseteq 1..0
  BY <1>1
<1> HIDE DEF r
<1>5. RunFits(r)
  BY <1>1, <1>2, <1>3, <1>4 DEF RunFits
<1> QED BY <1>5 DEF r

\* A stopped process has no local state.
LEMMA StoppedFits == RunFits(Off) /\ Off.pc = "off"
<1>1. Off.pc = "off" /\ Off.missing = {}
  BY DEF Off
<1>2. "off" \notin Indexing /\ "off" \notin Holding
  BY DEF Indexing, Holding
<1>3. {} \in SUBSET Entries /\ 0 \in 0..MaxChunks
  BY CampaignFacts
<1>4. Off \in RunStates
  BY <1>3 DEF Off, RunStates, Results, Idle
<1>5. Off.missing \subseteq 1..0
  BY <1>1
<1> QED BY <1>1, <1>2, <1>4, <1>5 DEF RunFits

\* What an outcome, and the marker, change of the campaign.
LEMMA OutcomeFits ==
  ASSUME camp \in CampaignStates
  PROVE  /\ camp.admitted \in Nat /\ camp.inflight \in BOOLEAN
         /\ \A state \in {"PROGRESS", "BLOCKED", "BUDGET_EXHAUSTED", "TIME_LIMIT", "CHUNK_LIMIT"} :
              /\ Outcome(state) \in CampaignStates /\ Outcome(state).admitted = camp.admitted
              /\ Outcome(state).inflight = camp.inflight
         /\ \A unknown \in BOOLEAN :
              /\ Resolved(unknown) \in CampaignStates
              /\ Resolved(unknown).admitted = camp.admitted
              /\ Resolved(unknown).inflight = (camp.inflight /\ unknown)
         /\ \A s \in Sources, ready \in BOOLEAN :
              /\ Advanced(s, ready) \in CampaignStates
              /\ Advanced(s, ready).admitted = camp.admitted
              /\ Advanced(s, ready).inflight = camp.inflight
         /\ [camp EXCEPT !.stuck = @ + 1] \in CampaignStates
<1>1. camp.admitted \in Nat /\ camp.inflight \in BOOLEAN
  BY CampaignFacts DEF CampaignStates
<1>2. ASSUME NEW state \in {"PROGRESS", "BLOCKED", "BUDGET_EXHAUSTED", "TIME_LIMIT", "CHUNK_LIMIT"}
      PROVE  /\ Outcome(state) \in CampaignStates /\ Outcome(state).admitted = camp.admitted
             /\ Outcome(state).inflight = camp.inflight
  BY DEF Outcome, CampaignStates
<1>3. ASSUME NEW unknown \in BOOLEAN
      PROVE  /\ Resolved(unknown) \in CampaignStates
             /\ Resolved(unknown).admitted = camp.admitted
             /\ Resolved(unknown).inflight = (camp.inflight /\ unknown)
  BY <1>1 DEF Resolved, CampaignStates
<1>4. ASSUME NEW s \in Sources, NEW ready \in BOOLEAN
      PROVE  /\ Advanced(s, ready) \in CampaignStates
             /\ Advanced(s, ready).admitted = camp.admitted
             /\ Advanced(s, ready).inflight = camp.inflight
  <2>1. Position(s) \in 0..Len(Order)
    BY CampaignFacts
  <2>2. (camp.excluded \/ ~ready) \in BOOLEAN
    OBVIOUS
  <2> QED BY <2>1, <2>2 DEF Advanced, CampaignStates
<1>5. [camp EXCEPT !.stuck = @ + 1] \in CampaignStates
  BY DEF CampaignStates
<1> QED BY <1>1, <1>2, <1>3, <1>4, <1>5

\* A run without progress goes to judge.
LEMMA NoProgressFits ==
  ASSUME CampaignIInv, NoProgress, UNCHANGED <<pending, paid, uncertain>>
  PROVE  CampaignIInv'
<1>1. /\ camp \in CampaignStates /\ RunFits(run) /\ pending \in BOOLEAN
      /\ uncertain \in BOOLEAN /\ (uncertain => camp.inflight)
  BY DEF CampaignIInv, MarkerHolds
<1>2. camp' = [camp EXCEPT !.stuck = @ + 1] /\ Goto("judge")
  BY DEF NoProgress
<1>3. RunFits(run') /\ run'.pc = "judge"
  BY <1>1, <1>2, GotoFits DEF Idle, Indexing, Holding
<1>4. camp' \in CampaignStates /\ camp'.admitted = camp.admitted /\ camp'.inflight = camp.inflight
  BY <1>1, <1>2, OutcomeFits DEF CampaignStates
<1> QED BY <1>1, <1>3, <1>4, NothingCalled

\* The process ends.
LEMMA EndFits ==
  ASSUME CampaignIInv, NEW c \in CampaignStates, camp' = c, c.admitted = camp.admitted,
         c.inflight = camp.inflight, run' = Off, UNCHANGED <<pending, paid, uncertain>>
  PROVE  CampaignIInv'
<1>1. pending \in BOOLEAN /\ uncertain \in BOOLEAN /\ (uncertain => camp.inflight)
  BY DEF CampaignIInv, MarkerHolds
<1>2. RunFits(run') /\ run'.pc = "off"
  BY StoppedFits
<1> QED BY <1>1, <1>2, NothingCalled

\* The run has passed a source.
LEMMA MovedFits ==
  ASSUME CampaignIInv, NEW page \in SUBSET Entries, NEW s \in Sources, NEW ready \in BOOLEAN,
         Moved(page, Advanced(s, ready)), UNCHANGED <<pending, paid, uncertain>>
  PROVE  CampaignIInv'
<1>1. /\ camp \in CampaignStates /\ RunFits(run) /\ pending \in BOOLEAN /\ run.got \in 0..MaxChunks
      /\ uncertain \in BOOLEAN /\ (uncertain => camp.inflight)
  BY DEF CampaignIInv, MarkerHolds, RunFits, RunStates
<1>2. RunFits(run') /\ run'.pc = "source"
  BY <1>1, OffFits DEF Moved, Idle, Off
<1>3. camp' \in CampaignStates /\ camp'.admitted = camp.admitted /\ camp'.inflight = camp.inflight
  BY <1>1, OutcomeFits DEF Moved
<1> QED BY <1>1, <1>2, <1>3, NothingCalled

\* Every step of the campaign keeps the budget, the marker and the shape of its run.
LEMMA CampaignStep ==
  ASSUME IndexIInv, CampaignIInv, Start \/ Deliver \/ RunStep \/ Crash \/ Resume
  PROVE  CampaignIInv'
<1>1. /\ camp \in CampaignStates /\ camp.admitted = camp.admitted /\ RunFits(run)
      /\ run \in RunStates /\ pending \in BOOLEAN /\ paid \in Nat
      /\ uncertain \in BOOLEAN /\ (uncertain => camp.inflight) /\ camp.inflight \in BOOLEAN
      /\ run.got \in 0..MaxChunks /\ run.page \in SUBSET Entries
  BY DEF CampaignIInv, MarkerHolds, MoneyHolds, RunFits, RunStates, CampaignStates
<1>2. ASSUME Quiet PROVE UNCHANGED <<pending, paid, uncertain>>
  BY <1>2 DEF Quiet, money
<1>3. CASE Start
  <2>1. UNCHANGED <<pending, paid, uncertain>> /\ run.pc = "off"
    BY <1>2, <1>3 DEF Start, At
  <2>2. CASE camp' = Outcome("BLOCKED") /\ UNCHANGED run
    BY <1>1, <2>1, <2>2, OutcomeFits, NothingCalled
  <2>3. CASE UNCHANGED <<camp, run>>
    BY <1>1, <2>1, <2>3, NothingCalled
  <2>4. CASE Goto("sweep") /\ UNCHANGED camp
    <3>1. RunFits(run') /\ run'.pc = "sweep"
      BY <1>1, <2>4, GotoFits DEF Idle, Indexing, Holding
    <3> QED BY <1>1, <2>1, <2>4, <3>1, NothingCalled
  <2> QED BY <1>3, <2>2, <2>3, <2>4 DEF Start
<1>4. CASE Deliver
  <2>1. pending' = FALSE /\ UNCHANGED <<camp, run, paid, uncertain>>
    BY <1>4 DEF Deliver, money
  <2> QED BY <2>1 DEF CampaignIInv
<1>5. CASE Sweep
  <2>1. Goto("page") /\ run.pc = "sweep" /\ UNCHANGED <<pending, paid, uncertain>>
    BY <1>2, <1>5 DEF Sweep, At
  <2>2. RunFits(run') /\ run'.pc = "page"
    BY <1>1, <2>1, GotoFits DEF Idle, Indexing, Holding
  <2>3. 0 \in 0..Len(Order)
    BY CampaignFacts
  <2>4. camp' \in CampaignStates /\ camp'.admitted = camp.admitted /\ camp'.inflight = camp.inflight
    BY <1>1, <1>5, <2>3 DEF Sweep, CampaignStates
  <2> QED BY <1>1, <2>1, <2>2, <2>4, NothingCalled
<1>6. CASE ListPage
  <2>1. UNCHANGED <<pending, paid, uncertain>> /\ run.pc = "page"
    BY <1>2, <1>6 DEF ListPage, At
  <2>2. CASE Page # {}
    <3>1. run' = [run EXCEPT !.pc = "source", !.page = Page] /\ UNCHANGED camp
      BY <1>6, <2>2 DEF ListPage
    <3>2. Page \in SUBSET Entries
      <4>1. \A i \in 1..Len(Order) : Order[i] \in Sources /\ src[Order[i]].ver \in Versions
                                     /\ src[Order[i]].open \in BOOLEAN
        BY CampaignFacts DEF IndexIInv, TextsHold
      <4>2. \A p \in Page : \E i \in 1..Len(Order) :
              p = [s |-> Order[i], ver |-> src[Order[i]].ver, open |-> src[Order[i]].open]
        BY DEF Page
      <4> QED BY <4>1, <4>2 DEF Entries
    <3>3. /\ run' \in RunStates /\ run'.pc = "source" /\ run'.missing = run.missing
      BY <1>1, <3>1, <3>2 DEF RunStates, Idle
    <3>4. RunFits(run')
      BY <1>1, <3>3 DEF RunFits, Indexing, Holding
    <3> QED BY <1>1, <2>1, <3>1, <3>3, <3>4, NothingCalled
  <2>3. CASE Page = {}
    <3>1. Goto("finish")
          /\ camp' = [camp EXCEPT !.stuck = 0, !.state = IF camp.excluded THEN "PARTIAL"
                                    ELSE IF camp.seen THEN "READY" ELSE "EMPTY"]
      BY <1>6, <2>3 DEF ListPage
    <3>2. camp' \in CampaignStates /\ camp'.admitted = camp.admitted /\ camp'.inflight = camp.inflight
      BY <1>1, <3>1 DEF CampaignStates
    <3>3. RunFits(run') /\ run'.pc = "finish"
      BY <1>1, <2>1, <3>1, GotoFits DEF Idle, Indexing, Holding
    <3> QED BY <1>1, <2>1, <3>2, <3>3, NothingCalled
  <2> QED BY <2>2, <2>3
<1>7. CASE Finish
  <2>1. camp' = [camp EXCEPT !.scanning = FALSE] /\ run' = Off /\ UNCHANGED <<pending, paid, uncertain>>
    BY <1>2, <1>7 DEF Finish
  <2>2. camp' \in CampaignStates /\ camp'.admitted = camp.admitted /\ camp'.inflight = camp.inflight
    BY <1>1, <2>1 DEF CampaignStates
  <2> QED BY <2>1, <2>2, EndFits
<1>8. CASE TimeUp
  <2>1. UNCHANGED <<pending, paid, uncertain>>
    BY <1>2, <1>8 DEF TimeUp
  <2>2. CASE NoProgress
    BY <2>1, <2>2, NoProgressFits
  <2>3. CASE camp' = Outcome("TIME_LIMIT") /\ run' = Off
    BY <1>1, <2>1, <2>3, OutcomeFits, EndFits
  <2> QED BY <1>8, <2>2, <2>3 DEF TimeUp
<1>9. CASE ChunkLimit
  BY <1>1, <1>2, <1>9, OutcomeFits, EndFits DEF ChunkLimit
<1>10. CASE Judge
  <2>1. UNCHANGED <<pending, paid, uncertain>> /\ run' = Off
        /\ (camp' = Outcome("BLOCKED") \/ camp' = Outcome("PROGRESS"))
    BY <1>2, <1>10 DEF Judge
  <2> QED BY <1>1, <2>1, OutcomeFits, EndFits
<1>11. CASE Source
  <2>1. UNCHANGED <<pending, paid, uncertain>> /\ run.pc = "source"
    BY <1>2, <1>11 DEF Source, At
  <2>2. CASE Goto("page") /\ UNCHANGED camp
    <3>1. RunFits(run') /\ run'.pc = "page"
      BY <1>1, <2>1, <2>2, GotoFits DEF Idle, Indexing, Holding
    <3> QED BY <1>1, <2>1, <2>2, <3>1, NothingCalled
  <2>3. ASSUME NEW p \in run.page, NEW left, left = run.page \ {p},
               NEW ready \in BOOLEAN, Moved(left, Advanced(p.s, ready))
        PROVE  CampaignIInv'
    <3>1. p.s \in Sources /\ left \in SUBSET Entries
      BY <1>1, <2>3 DEF Entries
    <3> QED BY <2>1, <2>3, <3>1, MovedFits
  <2>4. ASSUME NEW p \in run.page, UNCHANGED camp,
               run' = [run EXCEPT !.pc = "read", !.page = run.page \ {p}, !.s = p.s, !.ver = p.ver,
                               !.made = 0, !.failed = FALSE, !.result = "COMPLETED"]
        PROVE  CampaignIInv'
    <3>1. p.s \in Sources /\ p.ver \in Versions /\ run.page \ {p} \in SUBSET Entries
      BY <1>1 DEF Entries
    <3>2. /\ run' \in RunStates /\ run'.pc = "read" /\ run'.s = p.s /\ run'.ver = p.ver
          /\ run'.missing = run.missing
      BY <1>1, <2>4, <3>1 DEF RunStates, Indexing, Results
    <3>3. RunFits(run')
      BY <1>1, <3>1, <3>2 DEF RunFits, Holding
    <3> QED BY <1>1, <2>1, <2>4, <3>2, <3>3, NothingCalled
  <2>5. CASE \E p \in run.page :
          LET left == run.page \ {p} IN
          IF ~p.open THEN Moved(left, Advanced(p.s, FALSE))
             ELSE IF Complete(p.s, p.ver) THEN Moved(left, Advanced(p.s, TRUE))
             ELSE /\ run' = [run EXCEPT !.pc = "read", !.page = left, !.s = p.s, !.ver = p.ver,
                               !.made = 0, !.failed = FALSE, !.result = "COMPLETED"]
                  /\ UNCHANGED camp
    BY <2>3, <2>4, <2>5
  <2> QED BY <1>11, <2>2, <2>5 DEF Source
<1>12. ASSUME NEW result \in Results, run.pc \in Indexing, Report(result), UNCHANGED camp,
              UNCHANGED <<paid, uncertain>>, pending' \in BOOLEAN
       PROVE  CampaignIInv'
  <2>1. RunFits(run') /\ run'.pc = "result"
    BY <1>1, <1>12, ReportFits
  <2>2. uncertain' \in BOOLEAN /\ (uncertain' => camp'.inflight)
    <3>1. uncertain' = uncertain /\ camp' = camp
      BY <1>12
    <3> QED BY <1>1, <3>1
  <2> QED BY <1>1, <1>12, <2>1, <2>2, NothingPaid
<1>13. CASE Prepare
  <2>1. UNCHANGED <<camp, pending, paid, uncertain>> /\ run.pc = "read" /\ pending' \in BOOLEAN
    BY <1>1, <1>13 DEF Prepare, At, money
  <2>2. ASSUME NEW result \in {"UNREADABLE", "FAILED", "CHANGED"}, Report(result) PROVE CampaignIInv'
    BY <1>12, <2>1, <2>2 DEF Indexing, Results
  <2>3. CASE run' = [run EXCEPT !.pc = "batch", !.tries = 0, !.missing = Missing(run.s, run.ver)]
    <3>1. run.s \in Sources /\ run.ver \in Versions
      BY <1>1, <2>1 DEF RunFits, Indexing
    <3>2. Missing(run.s, run.ver) \subseteq 1..Chunks[run.ver] /\ Chunks[run.ver] \in Nat
          /\ Missing(run.s, run.ver) \in SUBSET Nat
      BY <3>1, VersionFacts DEF Missing
    <3>3. /\ run' \in RunStates /\ run'.pc = "batch" /\ run'.s = run.s /\ run'.ver = run.ver
          /\ run'.missing = Missing(run.s, run.ver)
      BY <1>1, <2>3, <3>2 DEF RunStates, Indexing
    <3>4. RunFits(run')
      BY <3>1, <3>2, <3>3 DEF RunFits, Holding
    <3> QED BY <1>1, <2>1, <3>3, <3>4, NothingCalled
  <2> QED BY <1>13, <2>2, <2>3 DEF Prepare
<1>14. CASE Batches
  <2>1. UNCHANGED <<camp, pending, paid, uncertain>> /\ run.pc = "batch" /\ pending' \in BOOLEAN
    BY <1>1, <1>2, <1>14 DEF Batches, At
  <2>2. ASSUME NEW result \in {"COMPLETED", "CHUNK_LIMIT", "TIME_LIMIT"}, Report(result)
        PROVE  CampaignIInv'
    BY <1>12, <2>1, <2>2 DEF Indexing, Results
  <2> QED BY <1>14, <2>2 DEF Batches
<1>15. ASSUME NEW result \in Results, run' = Fails(result), run.pc = "batch",
              UNCHANGED <<camp, pending, paid, uncertain>>
       PROVE  CampaignIInv'
  <2>1. PICK n \in Nat : run.missing \subseteq 1..n
    BY <1>1 DEF RunFits
  <2>2. MaxChunks - run.got \in Nat
    BY <1>1, CampaignFacts
  <2>3. /\ NextBatch \subseteq run.missing /\ IsFiniteSet(NextBatch)
        /\ Cardinality(NextBatch) \in Nat /\ Cardinality(NextBatch) <= MaxChunks - run.got
    BY <2>1, <2>2, BatchFits
  <2>4. NextBatch \in SUBSET Nat
    BY <2>1, <2>3
  <2>5. /\ run' \in RunStates /\ run'.pc = "fails" /\ run'.s = run.s /\ run'.ver = run.ver
        /\ run'.missing = run.missing /\ run'.batch = NextBatch /\ run'.got = run.got
    BY <1>1, <1>15, <2>4 DEF Fails, RunStates, Indexing
  <2>6. run.got + Cardinality(NextBatch) <= MaxChunks
    BY <1>1, <2>3, CampaignFacts
  <2>7. run'.s \in Sources /\ run'.ver \in Versions
    BY <1>1, <1>15, <2>5 DEF RunFits, Indexing
  <2>8. RunFits(run')
    BY <2>1, <2>3, <2>5, <2>6, <2>7 DEF RunFits
  <2> QED BY <1>1, <1>15, <2>5, <2>8, NothingCalled
<1>16. CASE Reserve
  <2>1. UNCHANGED <<pending, paid, uncertain>> /\ run.pc = "batch" /\ pending' \in BOOLEAN
    BY <1>1, <1>2, <1>16 DEF Reserve, At
  <2>2. CASE Report("CHANGED") /\ UNCHANGED camp
    BY <1>12, <2>1, <2>2 DEF Indexing, Results
  <2>3. ASSUME NEW result \in {"REPORTS_PENDING", "UNKNOWN_USAGE", "BUDGET_EXHAUSTED"},
               run' = Fails(result), UNCHANGED camp
        PROVE  CampaignIInv'
    BY <1>15, <2>1, <2>3 DEF Results
  <2>4. ASSUME NEW tokens, tokens = Cardinality(NextBatch), Admitted(tokens),
               camp' = [camp EXCEPT !.admitted = @ + tokens, !.inflight = TRUE],
               run' = [run EXCEPT !.pc = "reserved", !.batch = NextBatch, !.unknown = FALSE]
        PROVE  CampaignIInv'
    <3>1. PICK n \in Nat : run.missing \subseteq 1..n
      BY <1>1 DEF RunFits
    <3>2. MaxChunks - run.got \in Nat
      BY <1>1, CampaignFacts
    <3>3. /\ NextBatch \subseteq run.missing /\ IsFiniteSet(NextBatch)
          /\ tokens \in Nat /\ tokens <= MaxChunks - run.got
      BY <2>4, <3>1, <3>2, BatchFits
    <3>4. NextBatch \in SUBSET Nat
      BY <3>1, <3>3
    <3>5. /\ run' \in RunStates /\ run'.pc = "reserved" /\ run'.s = run.s /\ run'.ver = run.ver
          /\ run'.missing = run.missing /\ run'.batch = NextBatch /\ run'.got = run.got
      BY <1>1, <2>4, <3>4 DEF RunStates, Indexing
    <3>6. run.got + tokens <= MaxChunks
      BY <1>1, <3>3, CampaignFacts
    <3>7. run'.s \in Sources /\ run'.ver \in Versions
      BY <1>1, <2>1, <3>5 DEF RunFits, Indexing
    <3>8. RunFits(run')
      BY <2>4, <3>1, <3>3, <3>5, <3>6, <3>7 DEF RunFits
    <3>9. camp.admitted \in Nat /\ camp.admitted + tokens <= MaxInputTokens /\ ~camp.inflight
      BY <1>1, <2>4, <3>3, CampaignFacts DEF Admitted, CampaignStates
    <3>10. camp.admitted + tokens \in 0..MaxInputTokens
      BY <3>3, <3>9, CampaignFacts
    <3>11. camp' \in CampaignStates /\ camp'.admitted = camp.admitted + tokens /\ camp'.inflight = TRUE
      BY <1>1, <2>4, <3>10 DEF CampaignStates
    <3>12. paid <= camp.admitted /\ Reserved(run') = tokens
      BY <1>1, <2>1, <2>4, <3>5, <3>9 DEF CampaignIInv, MoneyHolds, Reserved
    <3>13. MoneyHolds(run', camp', paid')
      BY <1>1, <2>1, <3>3, <3>9, <3>11, <3>12 DEF MoneyHolds
    <3>14. uncertain' \in BOOLEAN /\ ~uncertain'
      <4>1. uncertain' = uncertain /\ ~uncertain
        BY <1>1, <2>1, <3>9
      <4> QED BY <1>1, <4>1
    <3>15. MarkerHolds(run', camp', uncertain')
      BY <3>11, <3>14 DEF MarkerHolds
    <3> QED BY <2>1, <3>8, <3>11, <3>13, <3>15 DEF CampaignIInv
  <2> QED BY <1>16, <2>2, <2>3, <2>4 DEF Reserve
<1>17. ASSUME NEW result \in Results, run.pc \in {"reserved", "called"},
              NEW unknown \in BOOLEAN,
              run' = [run EXCEPT !.pc = "fails", !.result = result]
                \/ run' = [run EXCEPT !.pc = "fails", !.result = result, !.unknown = unknown]
       PROVE  RunFits(run') /\ run'.pc = "fails"
  <2>1. /\ run' \in RunStates /\ run'.pc = "fails" /\ run'.s = run.s /\ run'.ver = run.ver
        /\ run'.missing = run.missing /\ run'.batch = run.batch /\ run'.got = run.got
    BY <1>1, <1>17 DEF RunStates, Indexing
  <2> QED BY <1>1, <1>17, <2>1 DEF RunFits, Indexing, Holding
<1>18. CASE LedgerFails
  <2>1. run.pc = "reserved" /\ camp' = Resolved(FALSE) /\ pending' \in BOOLEAN
        /\ UNCHANGED <<paid, uncertain>>
    BY <1>18 DEF LedgerFails, At, money
  <2>2. PICK code \in {"LEDGER_RETRYABLE", "LEDGER_REJECTED"} :
          run' = [run EXCEPT !.pc = "fails", !.result = code]
    BY <1>18 DEF LedgerFails
  <2>3. RunFits(run') /\ run'.pc = "fails"
    BY <1>17, <2>1, <2>2 DEF Results
  <2>4. ~uncertain'
    <3>1. ~uncertain
      BY <2>1 DEF CampaignIInv, MarkerHolds
    <3> QED BY <2>1, <3>1
  <2>5. uncertain' \in BOOLEAN /\ (uncertain' => camp'.inflight)
    BY <1>1, <2>1, <2>4
  <2>6. camp' \in CampaignStates /\ camp'.admitted = camp.admitted
    BY <1>1, <2>1, OutcomeFits
  <2> QED BY <2>1, <2>3, <2>5, <2>6, NothingPaid
<1>19. CASE Invoke
  <2>1. run.pc = "reserved"
    BY <1>19 DEF Invoke, At
  <2>2. CASE Valid(run.s, run.ver)
    <3>1. Goto("called") /\ paid' = paid + Cardinality(run.batch) /\ uncertain' = TRUE
          /\ UNCHANGED <<camp, pending>>
      BY <1>19, <2>2 DEF Invoke
    <3>2. RunFits(run') /\ run'.pc = "called"
      BY <1>1, <2>1, <3>1, GotoFits DEF Indexing, Holding
    <3>3. Cardinality(run.batch) \in Nat /\ paid + Cardinality(run.batch) <= camp.admitted
          /\ camp.inflight
      BY <2>1 DEF CampaignIInv, MoneyHolds, MarkerHolds, Reserved, RunFits, Holding
    <3>4. MoneyHolds(run', camp', paid')
      BY <1>1, <3>1, <3>2, <3>3 DEF MoneyHolds, Reserved
    <3>5. MarkerHolds(run', camp', uncertain')
      BY <3>1, <3>2, <3>3 DEF MarkerHolds
    <3> QED BY <1>1, <3>1, <3>2, <3>4, <3>5 DEF CampaignIInv
  <2>3. CASE ~Valid(run.s, run.ver)
    <3>1. Report("CHANGED") /\ camp' = Resolved(FALSE) /\ pending' \in BOOLEAN
          /\ UNCHANGED <<paid, uncertain>>
      BY <1>19, <2>3 DEF Invoke, money
    <3>2. RunFits(run') /\ run'.pc = "result"
      BY <1>1, <2>1, <3>1, ReportFits DEF Indexing, Results
    <3>3. ~uncertain'
      <4>1. ~uncertain
        BY <2>1 DEF CampaignIInv, MarkerHolds
      <4> QED BY <3>1, <4>1
    <3>4. uncertain' \in BOOLEAN /\ (uncertain' => camp'.inflight)
      BY <1>1, <3>1, <3>3
    <3>5. camp' \in CampaignStates /\ camp'.admitted = camp.admitted
      BY <1>1, <3>1, OutcomeFits
    <3> QED BY <3>1, <3>2, <3>4, <3>5, NothingPaid
  <2> QED BY <2>2, <2>3
<1>20. CASE TimesOut
  <2>1. run.pc \in Indexing /\ Report("FAILED") /\ pending' \in BOOLEAN
        /\ UNCHANGED <<camp, paid, uncertain>>
    BY <1>20 DEF TimesOut, money, Indexing
  <2> QED BY <1>12, <2>1 DEF Results
<1>21. ASSUME run.pc \in {"called", "save", "saved"} PROVE camp.inflight
  BY <1>21 DEF CampaignIInv, MarkerHolds
<1>22. ASSUME NEW unknown \in BOOLEAN, run.pc \in {"called", "save", "saved"},
              camp' = Resolved(unknown), uncertain' = unknown, paid' = paid, pending' \in BOOLEAN,
              RunFits(run'), run'.pc \in {"fails", "result", "batch"}
       PROVE  CampaignIInv'
  <2>1. camp' \in CampaignStates /\ camp'.admitted = camp.admitted
        /\ camp'.inflight = (camp.inflight /\ unknown)
    BY <1>1, <1>22, OutcomeFits
  <2>2. uncertain' \in BOOLEAN /\ (uncertain' => camp'.inflight)
    BY <1>21, <1>22, <2>1
  <2> QED BY <1>22, <2>1, <2>2, NothingPaid
<1>23. CASE Answer
  <2>1. run.pc = "called" /\ pending' \in BOOLEAN /\ paid' = paid
    BY <1>23 DEF Answer, At
  <2>2. ASSUME NEW unknown \in BOOLEAN, run' = [run EXCEPT !.pc = "save", !.unknown = unknown],
               UNCHANGED <<camp, uncertain>>
        PROVE  CampaignIInv'
    <3>1. /\ run' \in RunStates /\ run'.pc = "save" /\ run'.s = run.s /\ run'.ver = run.ver
          /\ run'.missing = run.missing /\ run'.batch = run.batch /\ run'.got = run.got
      BY <1>1, <2>2 DEF RunStates, Indexing
    <3>2. RunFits(run')
      BY <1>1, <2>1, <3>1 DEF RunFits, Indexing, Holding
    <3>3. uncertain' \in BOOLEAN /\ (uncertain' => camp'.inflight)
      <4>1. uncertain' = uncertain /\ camp' = camp
        BY <2>2
      <4> QED BY <1>1, <4>1
    <3>4. camp'.inflight
      BY <1>21, <2>1, <2>2
    <3> QED BY <1>1, <2>1, <2>2, <3>1, <3>2, <3>3, <3>4, NothingPaid
  <2>3. ASSUME NEW unknown \in BOOLEAN, NEW code \in {"PROVIDER_RETRYABLE", "PROVIDER_CONTRACT"},
               run' = [run EXCEPT !.pc = "fails", !.result = code, !.unknown = unknown],
               camp' = Resolved(unknown), uncertain' = unknown
        PROVE  CampaignIInv'
    <3>1. RunFits(run') /\ run'.pc = "fails"
      BY <1>17, <2>1, <2>3 DEF Results
    <3> QED BY <1>22, <2>1, <2>3, <3>1
  <2> QED BY <1>23, <2>2, <2>3 DEF Answer
<1>24. run.unknown \in BOOLEAN
  BY <1>1 DEF RunStates
<1>25. CASE Save
  <2>1. run.pc = "save" /\ pending' \in BOOLEAN /\ paid' = paid
    BY <1>1, <1>25 DEF Save, At
  <2>2. CASE Goto("saved") /\ UNCHANGED <<camp, uncertain>>
    <3>1. RunFits(run') /\ run'.pc = "saved"
      BY <1>1, <2>1, <2>2, GotoFits DEF Indexing, Holding
    <3>2. uncertain' \in BOOLEAN /\ (uncertain' => camp'.inflight)
      <4>1. uncertain' = uncertain /\ camp' = camp
        BY <2>2
      <4> QED BY <1>1, <4>1
    <3>3. camp'.inflight
      BY <1>21, <2>1, <2>2
    <3> QED BY <1>1, <2>1, <2>2, <3>1, <3>2, <3>3, NothingPaid
  <2>3. CASE Report("CHANGED") /\ camp' = Resolved(run.unknown) /\ uncertain' = run.unknown
    <3>1. RunFits(run') /\ run'.pc = "result"
      BY <1>1, <2>1, <2>3, ReportFits DEF Indexing, Results
    <3> QED BY <1>22, <1>24, <2>1, <2>3, <3>1
  <2>4. CASE Report("FAILED") /\ UNCHANGED <<camp, uncertain>>
    BY <1>12, <2>1, <2>4 DEF Indexing, Results
  <2> QED BY <1>25, <2>2, <2>3, <2>4 DEF Save
<1>26. CASE AfterSave
  <2>1. run.pc = "saved" /\ pending' \in BOOLEAN /\ paid' = paid
        /\ camp' = Resolved(run.unknown) /\ uncertain' = run.unknown
        /\ run' = [run EXCEPT !.pc = "batch", !.missing = @ \ run.batch, !.batch = {},
                     !.tries = 0, !.unknown = FALSE, !.made = @ + Cardinality(run.batch),
                     !.got = @ + Cardinality(run.batch)]
    BY <1>1, <1>26 DEF AfterSave, At
  <2>2. Cardinality(run.batch) \in Nat /\ run.got + Cardinality(run.batch) <= MaxChunks
        /\ run.s \in Sources /\ run.ver \in Versions
    BY <1>1, <2>1 DEF RunFits, Holding, Indexing
  <2>3. run.got + Cardinality(run.batch) \in 0..MaxChunks /\ run.made + Cardinality(run.batch) \in Nat
        /\ run.missing \ run.batch \in SUBSET Nat
    BY <1>1, <2>2, CampaignFacts DEF RunStates
  <2>4. /\ run' \in RunStates /\ run'.pc = "batch" /\ run'.s = run.s /\ run'.ver = run.ver
        /\ run'.missing = run.missing \ run.batch
    BY <1>1, <2>1, <2>3 DEF RunStates, Indexing
  <2>5. PICK n \in Nat : run.missing \subseteq 1..n
    BY <1>1 DEF RunFits
  <2>6. run'.missing \subseteq 1..n
    BY <2>4, <2>5
  <2>7. RunFits(run')
    BY <2>2, <2>4, <2>6 DEF RunFits, Holding
  <2> QED BY <1>22, <1>24, <2>1, <2>4, <2>7
<1>27. CASE Fail
  <2>1. run.pc = "fails" /\ UNCHANGED <<camp, pending, paid, uncertain>> /\ pending' \in BOOLEAN
    BY <1>1, <1>27 DEF Fail, At, money
  <2>2. Cardinality(run.batch) \in Nat /\ run.got + Cardinality(run.batch) <= MaxChunks
        /\ run.s \in Sources /\ run.ver \in Versions /\ run.result \in Results
    BY <1>1, <2>1 DEF RunFits, Holding, Indexing, RunStates
  <2>3. PICK n \in Nat : run.missing \subseteq 1..n
    BY <1>1 DEF RunFits
  <2>4. ASSUME NEW result \in Results, Report(result) PROVE CampaignIInv'
    BY <1>12, <2>1, <2>4 DEF Indexing
  <2>5. CASE run' = [run EXCEPT !.pc = "batch", !.tries = @ + 1, !.batch = {}, !.unknown = FALSE,
                            !.result = "COMPLETED"]
    <3>3. run.tries + 1 \in Nat /\ {} \in SUBSET Nat /\ "COMPLETED" \in Results
          /\ "batch" \in Indexing
      BY <1>1 DEF RunStates, Indexing, Results
    <3>1. /\ run' \in RunStates /\ run'.pc = "batch" /\ run'.s = run.s /\ run'.ver = run.ver
          /\ run'.missing = run.missing
      BY <1>1, <2>5, <3>3 DEF RunStates
    <3>2. RunFits(run')
      BY <2>2, <2>3, <3>1 DEF RunFits, Holding
    <3> QED BY <1>1, <2>1, <3>1, <3>2, NothingCalled
  <2>6. CASE run' = [run EXCEPT !.pc = "batch", !.tries = 0, !.result = "COMPLETED", !.batch = {},
                            !.unknown = FALSE, !.missing = @ \ run.batch, !.failed = TRUE,
                            !.got = @ + Cardinality(run.batch)]
    <3>1. run.got + Cardinality(run.batch) \in 0..MaxChunks /\ run.missing \ run.batch \in SUBSET Nat
      BY <1>1, <2>2, CampaignFacts DEF RunStates
    <3>2. /\ run' \in RunStates /\ run'.pc = "batch" /\ run'.s = run.s /\ run'.ver = run.ver
          /\ run'.missing = run.missing \ run.batch
      BY <1>1, <2>6, <3>1 DEF RunStates, Indexing, Results
    <3>3. run'.missing \subseteq 1..n
      BY <2>3, <3>2
    <3>4. RunFits(run')
      BY <2>2, <3>2, <3>3 DEF RunFits, Holding
    <3> QED BY <1>1, <2>1, <3>2, <3>4, NothingCalled
  <2>7. "CHANGED" \in Results
    BY DEF Results
  <2> QED BY <1>27, <2>2, <2>4, <2>5, <2>6, <2>7 DEF Fail
<1>28. CASE Progress
  <2>1. run.pc = "result" /\ UNCHANGED <<pending, paid, uncertain>> /\ Goto("conclude")
        /\ camp' = IF run.made > 0 THEN [camp EXCEPT !.state = "PROGRESS", !.stuck = 0] ELSE camp
    BY <1>2, <1>28 DEF Progress, At
  <2>2. RunFits(run') /\ run'.pc = "conclude"
    BY <1>1, <2>1, GotoFits DEF Indexing, Holding
  <2>3. camp' \in CampaignStates /\ camp'.admitted = camp.admitted /\ camp'.inflight = camp.inflight
    BY <1>1, <2>1 DEF CampaignStates
  <2> QED BY <2>1, <2>2, <2>3, NothingCalled
<1>29. CASE Conclude
  <2>1. UNCHANGED <<pending, paid, uncertain>> /\ run.s \in Sources
    BY <1>1, <1>2, <1>29 DEF Conclude, At, RunFits, Indexing
  <2>2. ASSUME NEW state \in {"PROGRESS", "BLOCKED", "BUDGET_EXHAUSTED", "TIME_LIMIT", "CHUNK_LIMIT"},
               Ends(state)
        PROVE  CampaignIInv'
    BY <1>1, <2>1, <2>2, OutcomeFits, EndFits DEF Ends
  <2>3. CASE NoProgress
    BY <2>1, <2>3, NoProgressFits
  <2>4. ASSUME NEW ready \in BOOLEAN, Moved(run.page, Advanced(run.s, ready)) PROVE CampaignIInv'
    BY <1>1, <2>1, <2>4, MovedFits
  <2>5. \/ \E state \in {"PROGRESS", "BLOCKED", "BUDGET_EXHAUSTED", "TIME_LIMIT", "CHUNK_LIMIT"} :
             Ends(state)
        \/ NoProgress
        \/ \E ready \in BOOLEAN : Moved(run.page, Advanced(run.s, ready))
    BY <1>29 DEF Conclude
  <2> QED BY <2>2, <2>3, <2>4, <2>5
<1>30. CASE Crash
  <2>1. run' = Off /\ UNCHANGED <<camp, pending, paid, uncertain>>
    BY <1>30 DEF Crash, money
  <2> QED BY <1>1, <2>1, EndFits
<1>31. CASE Resume
  <2>1. camp' = [camp EXCEPT !.state = "RESUMED", !.inflight = FALSE, !.stuck = 0]
        /\ uncertain' = FALSE /\ UNCHANGED <<run, pending, paid>> /\ run.pc = "off"
    BY <1>31 DEF Resume, At
  <2>2. camp' \in CampaignStates /\ camp'.admitted = camp.admitted
    BY <1>1, <2>1 DEF CampaignStates
  <2>3. uncertain' \in BOOLEAN /\ (uncertain' => camp'.inflight)
    BY <2>1
  <2> QED BY <1>1, <2>1, <2>2, <2>3, NothingPaid
<1> QED BY <1>3, <1>4, <1>5, <1>6, <1>7, <1>8, <1>9, <1>10, <1>11, <1>13, <1>14, <1>16, <1>18,
           <1>19, <1>20, <1>23, <1>25, <1>26, <1>27, <1>28, <1>29, <1>30, <1>31 DEF RunStep

\* The campaign touches the index only as the store does.
LEMMA CampaignOnIndex ==
  ASSUME IndexIInv, CampaignIInv, Start \/ Deliver \/ RunStep \/ Crash \/ Resume
  PROVE  IndexIInv'
<1>1. /\ IndexFits(idx) /\ FillsHold /\ events \in 0..MaxEvents /\ events \in events..MaxEvents
      /\ (run.pc \in Indexing => run.s \in Sources /\ run.ver \in Versions)
  BY VersionFacts DEF IndexIInv, TextsHold, CampaignIInv, RunFits
<1>2. ASSUME IndexFits(idx'), UNCHANGED <<src, fill>>, events' = events \/ Event PROVE IndexIInv'
  <2>1. events' \in events..MaxEvents
    BY <1>1, <1>2, VersionFacts DEF Event
  <2>2. FillsHold'
    BY <1>1, <1>2 DEF FillsHold
  <2> QED BY <1>2, <2>1, <2>2, IndexChanges
<1>3. ASSUME UNCHANGED indexVars, events' = events \/ Event PROVE IndexIInv'
  BY <1>1, <1>2, <1>3 DEF indexVars
<1>4. CASE Prepare
  <2>1. run.pc = "read" /\ UNCHANGED <<src, fill, events>>
        /\ (idx' = idx \/ idx' = Prepared(run.s, run.ver))
    BY <1>4 DEF Prepare, At
  <2>2. run.s \in Sources /\ run.ver \in Versions
    BY <1>1, <2>1 DEF Indexing
  <2>3. IndexFits(idx')
    BY <1>1, <2>1, <2>2, PreparedFits
  <2> QED BY <1>2, <2>1, <2>3
<1>5. CASE Save
  <2>1. run.pc = "save" /\ UNCHANGED <<src, fill, events>>
        /\ (idx' = idx \/ (Valid(run.s, run.ver) /\ idx' = Saved(run.s, run.ver, run.batch)))
    BY <1>5 DEF Save, At
  <2>2. run.s \in Sources /\ run.ver \in Versions
    BY <1>1, <2>1 DEF Indexing
  <2>3. IndexFits(idx')
    BY <1>1, <2>1, <2>2, SavedFits DEF Valid
  <2> QED BY <1>2, <2>1, <2>3
<1>6. CASE Fail
  <2>1. run.pc = "fails" /\ UNCHANGED <<src, fill, events>>
        /\ (idx' = idx \/ idx' = Marked(run.s, run.batch))
    BY <1>6 DEF Fail, At
  <2>2. run.s \in Sources
    BY <1>1, <2>1 DEF Indexing
  <2>3. IndexFits(idx')
    BY <1>1, <2>1, <2>2, MarkedFits
  <2> QED BY <1>2, <2>1, <2>3
<1>7. \/ Prepare \/ Save \/ Fail
      \/ (UNCHANGED indexVars /\ (events' = events \/ Event))
  BY DEF Start, Deliver, Crash, Resume, RunStep, Sweep, ListPage, Finish, TimeUp, ChunkLimit, Source,
         Batches, Reserve, LedgerFails, Invoke, TimesOut, Answer, AfterSave, Progress, Conclude,
         Judge, Quiet
<1> QED BY <1>3, <1>4, <1>5, <1>6, <1>7

\* The index and the campaign start fitting.
LEMMA CampaignStarts == Init => BackfillIInv
<1> SUFFICES ASSUME Init PROVE BackfillIInv
  OBVIOUS
<1>1. /\ src = [s \in Sources |-> [ver |-> 1, open |-> TRUE]] /\ idx = [s \in Sources |-> NoIndex]
      /\ fill = [f \in Fills |-> NoFill] /\ events = 0
      /\ run = Off /\ pending = FALSE /\ paid = 0 /\ uncertain = FALSE
      /\ camp = [state |-> "NOT_STARTED", admitted |-> 0, inflight |-> FALSE, stuck |-> 0,
                 scanning |-> FALSE, after |-> 0, seen |-> FALSE, excluded |-> FALSE]
  BY DEF Init, IndexInit
<1>2. 1 \in Versions /\ events \in 0..MaxEvents
  BY <1>1, VersionFacts
<1>3. TextsHold
  BY <1>1, <1>2 DEF TextsHold
<1>4. IndexFits(idx)
  BY <1>1, NoIndexFits DEF IndexFits
<1>5. FillsHold
  BY <1>1, IdleFill DEF FillsHold
<1>6. 0 \in 0..MaxInputTokens /\ 0 \in 0..Len(Order)
  BY CampaignFacts
<1>7. camp \in CampaignStates /\ camp.admitted = 0
  BY <1>1, <1>6 DEF CampaignStates
<1>8. RunFits(run) /\ run.pc = "off"
  BY <1>1, StoppedFits
<1>9. MoneyHolds(run, camp, paid)
  BY <1>1, <1>7, <1>8 DEF MoneyHolds, Reserved
<1>10. MarkerHolds(run, camp, uncertain)
  BY <1>1, <1>8 DEF MarkerHolds
<1> QED BY <1>1, <1>3, <1>4, <1>5, <1>7, <1>8, <1>9, <1>10 DEF BackfillIInv, IndexIInv, CampaignIInv

\* Every step keeps the inductive invariant.
LEMMA CampaignKeeps == BackfillIInv /\ [Next]_vars => BackfillIInv'
<1> SUFFICES ASSUME IndexIInv, CampaignIInv, [Next]_vars PROVE BackfillIInv'
  BY DEF BackfillIInv
<1>1. CASE UNCHANGED vars
  BY <1>1 DEF vars, indexVars, BackfillIInv, IndexIInv, TextsHold, FillsHold, CampaignIInv
<1>2. CASE Outside
  <2>1. IndexNext /\ UNCHANGED <<camp, run, pending, paid, uncertain>>
    BY <1>2 DEF Outside, money
  <2>2. CampaignIInv'
    BY <2>1 DEF CampaignIInv
  <2> QED BY <2>1, <2>2, IndexStep DEF BackfillIInv
<1>3. CASE Start \/ Deliver \/ RunStep \/ Crash \/ Resume
  BY <1>3, CampaignStep, CampaignOnIndex DEF BackfillIInv
<1> QED BY <1>1, <1>2, <1>3 DEF Next

\* Any campaign keeps the invariant of the index, the budget and the marker.
LEMMA CampaignInvariance == Spec => []BackfillIInv
BY CampaignStarts, CampaignKeeps, PTL DEF Spec

\* However indexing runs, fills, edits and purges interleave and processes die: a row that
\* search may return holds a vector of the very text of its header, and what was perhaps
\* paid stays within what was admitted, and that within the budget.
THEOREM IndexHolds == Spec => []IndexInv
<1>1. BackfillIInv => IndexInv
  <2> SUFFICES ASSUME IndexIInv, CampaignIInv PROVE IndexInv
    BY DEF BackfillIInv
  <2>1. /\ idx \in [Sources -> Headers] /\ \A s \in Sources : HeaderFits(idx[s])
        /\ TextsHold /\ FillsHold
    BY DEF IndexIInv, IndexFits
  <2>2. ASSUME NEW s \in Sources
        PROVE  /\ idx[s].ver \in Versions \union {0}
               /\ Rows(s) = IF idx[s].ver = 0 THEN {} ELSE 1..Chunks[idx[s].ver]
               /\ \A i \in Rows(s) : idx[s].rows[i] \in ChunkRow
               /\ \A i \in Ready(s) : idx[s].rows[i].vec = idx[s].ver
    <3>1. idx[s] \in Headers /\ HeaderFits(idx[s])
      BY <2>1
    <3>2. Rows(s) = RowsOf(idx[s].ver)
      BY <3>1 DEF Rows, HeaderFits
    <3> QED BY <3>1, <3>2 DEF Headers, HeaderFits, Ready, RowsOf
  <2>3. IndexTypeOK
    <3>1. \A f \in Fills : fill[f].pc \in {"idle", "frozen", "batch", "called"}
                           /\ fill[f].batch \subseteq fill[f].missing
      BY <2>1 DEF FillsHold, FillStates
    <3> QED BY <2>1, <2>2, <3>1 DEF IndexTypeOK, TextsHold, ChunkRow
  <2>4. VectorsFit
    BY <2>2 DEF VectorsFit
  <2>5. camp \in CampaignStates /\ run \in RunStates /\ pending \in BOOLEAN /\ uncertain \in BOOLEAN
        /\ paid \in Nat /\ paid + Reserved(run) <= camp.admitted /\ Reserved(run) \in Nat
    BY DEF CampaignIInv, RunFits, MoneyHolds, MarkerHolds, Reserved, Holding
  <2>6. TypeOK
    BY <2>3, <2>5 DEF TypeOK, CampaignStates, RunStates, Idle, Indexing
  <2>7. BudgetKept
    BY <2>5, CampaignFacts DEF BudgetKept, CampaignStates
  <2> QED BY <2>4, <2>6, <2>7 DEF IndexInv
<1> QED BY <1>1, CampaignInvariance, PTL

\* No call is made while the usage of an earlier one is unknown, whichever process made
\* that one and however it ended, until the operator resumes the campaign.
THEOREM NothingCalledBlindly == Spec => NoBlindCall
<1>1. BackfillIInv /\ [Next]_vars => [paid' # paid => ~uncertain]_vars
  <2> SUFFICES ASSUME CampaignIInv, Next, paid' # paid PROVE ~uncertain
    BY DEF BackfillIInv
  <2>1. CASE Invoke
    BY <2>1 DEF Invoke, At, CampaignIInv, MarkerHolds
  <2>2. Invoke \/ UNCHANGED paid
    BY DEF Next, Start, Deliver, Crash, Resume, RunStep, Sweep, ListPage, Finish, TimeUp, ChunkLimit,
           Source, Prepare, Batches, Reserve, LedgerFails, TimesOut, Answer, Save, AfterSave, Fail,
           Progress, Conclude, Judge, Quiet, Outside, money
  <2> QED BY <2>1, <2>2
<1> QED BY <1>1, CampaignInvariance, PTL DEF Spec, NoBlindCall

-----------------------------------------------------------------------------
\* The segments of the setting branch

\* A finite set of numbers has a least member: the set of those below it is the smallest.
LEMMA LeastOf ==
  ASSUME NEW S \in SUBSET Nat, IsFiniteSet(S), S # {}
  PROVE  \E m \in S : \A i \in S : m <= i
<1> DEFINE below(k) == {i \in S : i < k}
           family == {below(k) : k \in S}
<1>1. family \subseteq FiniteSubsetsOf(S) /\ family # {}
  <2>1. ASSUME NEW k \in S PROVE below(k) \in SUBSET S /\ IsFiniteSet(below(k))
    <3>1. below(k) \in SUBSET S
      OBVIOUS
    <3> HIDE DEF below
    <3> QED BY <3>1, FS_Subset
  <2> HIDE DEF below
  <2> QED BY <2>1 DEF FiniteSubsetsOf
<1>2. IsWellFoundedOn(StrictSubsetOrdering(S), FiniteSubsetsOf(S))
  BY FS_StrictSubsetOrderingWellFounded
<1>3. PICK T \in family : \A U \in family : <<U, T>> \notin StrictSubsetOrdering(S)
  <2> HIDE DEF family
  <2> QED BY <1>1, <1>2, WFMin
<1>4. PICK m \in S : T = below(m)
  BY <1>3
<1>5. ASSUME NEW i \in S, i < m PROVE FALSE
  <2>1. \A j \in S : j \in Int
    OBVIOUS
  <2>2. below(i) \subseteq T /\ i \in T /\ i \notin below(i)
    <3>1. \A j \in S : j < i => j < m
      BY <1>5, <2>1
    <3>2. ~(i < i)
      BY <2>1
    <3> QED BY <1>4, <1>5, <3>1, <3>2
  <2>3. below(i) \in family
    <3> HIDE DEF below
    <3> QED BY <1>5
  <2>4. <<below(i), T>> \in StrictSubsetOrdering(S)
    BY <2>2, <1>4 DEF StrictSubsetOrdering
  <2> QED BY <1>3, <2>3, <2>4
<1> QED BY <1>5


\* A quotient is the last multiple that is not beyond the dividend.
LEMMA DivFacts ==
  ASSUME NEW a \in Nat, NEW q \in Nat \ {0}
  PROVE  a \div q \in Nat /\ q * (a \div q) <= a /\ a < q * ((a \div q) + 1)
OBVIOUS

\* Products with a factor that is not zero are ordered as the other factors are.
LEMMA TimesLess ==
  ASSUME NEW q \in Nat \ {0}, NEW x \in Int, NEW y \in Int
  PROVE  /\ q * x < q * y => x < y
         /\ q * x <= q * y => x <= y
         /\ x < y => q * x < q * y
         /\ x <= y => q * x <= q * y
OBVIOUS

\* How many segments there are: no more than characters, and enough for their length.
LEMMA CoreCount ==
  ASSUME NEW L \in Nat \ {0}, NEW U \in Nat \ {0}, NEW n, n = (L + U - 1) \div U
  PROVE  n \in Nat \ {0} /\ n <= L /\ L <= n * U
<1>1. L + U - 1 \in Nat
  OBVIOUS
<1>2. n \in Nat /\ U * n <= L + U - 1 /\ L + U - 1 < U * (n + 1)
  BY <1>1, DivFacts
<1>3. n # 0
  <2>1. U * 1 < U * (n + 1)
    BY <1>2
  <2> QED BY <1>2, <2>1, TimesLess
<1>4. L <= n * U
  <2>1. U * (n + 1) = n * U + U
    BY <1>2
  <2>2. n * U \in Nat
    BY <1>2
  <2> QED BY <1>2, <2>1, <2>2
<1>5. n <= L
  <2>1. (U - 1) * (L - 1) >= 0
    <3>1. U - 1 \in Nat /\ L - 1 \in Nat
      OBVIOUS
    <3>2. \A x, y \in Nat : x * y >= 0
      OBVIOUS
    <3> QED BY <3>1, <3>2
  <2>2. (U - 1) * (L - 1) = U * L - U - L + 1 /\ U * L \in Nat
    OBVIOUS
  <2>3. U * n \in Nat
    BY <1>2
  <2>4. U * n <= U * L
    BY <1>2, <2>1, <2>2, <2>3
  <2> QED BY <1>2, <2>4, TimesLess
<1> QED BY <1>2, <1>3, <1>4, <1>5

\* The window of the k-th cut: its ends, with k / n of the text in between.
LowEnd(L, n, k) == ((2 * k - 1) * L) \div (2 * n)
HighEnd(L, n, k) == ((2 * k + 1) * L) \div (2 * n)
Ideal(L, n, k) == (k * L) \div n

\* No window is empty, and the place a cut should have is in it or at its lower end.
LEMMA CutWindows ==
  ASSUME NEW L \in Nat \ {0}, NEW n \in Nat \ {0}, n <= L, NEW k \in Nat \ {0}
  PROVE  /\ LowEnd(L, n, k) \in Nat /\ HighEnd(L, n, k) \in Nat /\ Ideal(L, n, k) \in Nat
         /\ LowEnd(L, n, k) < HighEnd(L, n, k)
         /\ LowEnd(L, n, k) <= Ideal(L, n, k) /\ Ideal(L, n, k) <= HighEnd(L, n, k)
<1> DEFINE q == 2 * n
           A == (2 * k - 1) * L
           B == (2 * k + 1) * L
           M == k * L
           low == A \div q
           high == B \div q
           ideal == M \div n
<1>1. q \in Nat \ {0} /\ q <= 2 * L
  OBVIOUS
<1>2. A \in Nat /\ B = A + 2 * L /\ 2 * M = A + L /\ M \in Nat
  <2>1. k * L \in Nat /\ (2 * k - 1) * L = 2 * (k * L) - L /\ (2 * k + 1) * L = 2 * (k * L) + L
    OBVIOUS
  <2>2. k * L >= L
    <3>1. L * 1 <= L * k
      BY TimesLess
    <3> QED BY <3>1
  <2> QED BY <2>1, <2>2
<1> HIDE DEF A, B, M
<1>3. low \in Nat /\ q * low <= A /\ A < q * (low + 1)
  <2> HIDE DEF q
  <2> QED BY <1>1, <1>2, DivFacts
<1>4. high \in Nat /\ q * high <= B /\ B < q * (high + 1)
  <2>1. B \in Nat
    BY <1>2
  <2> HIDE DEF q
  <2> QED BY <1>1, <2>1, DivFacts
<1>5. ideal \in Nat /\ n * ideal <= M /\ M < n * (ideal + 1)
  BY <1>2, DivFacts
<1> HIDE DEF low, high, ideal
<1>6. q * ideal <= 2 * M /\ 2 * M < q * (ideal + 1)
  <2>1. q * ideal = 2 * (n * ideal) /\ q * (ideal + 1) = 2 * (n * (ideal + 1))
    BY <1>5
  <2>2. n * ideal \in Nat /\ n * (ideal + 1) \in Nat
    BY <1>5
  <2> QED BY <1>2, <1>5, <2>1, <2>2
<1> HIDE DEF q
<1>7. q * low \in Nat /\ q * high \in Nat /\ q * ideal \in Nat /\ q * (low + 1) = q * low + q
      /\ q * (high + 1) \in Nat /\ q * (ideal + 1) \in Nat
  BY <1>1, <1>3, <1>4, <1>5
<1>8. low < high
  <2>1. q * (low + 1) < q * (high + 1)
    BY <1>1, <1>2, <1>3, <1>4, <1>7
  <2>2. low + 1 < high + 1
    BY <1>1, <1>3, <1>4, <2>1, TimesLess
  <2> QED BY <1>3, <1>4, <2>2
<1>9. low <= ideal
  <2>1. q * low < q * (ideal + 1)
    BY <1>2, <1>3, <1>6, <1>7
  <2>2. low < ideal + 1
    BY <1>1, <1>3, <1>5, <2>1, TimesLess
  <2> QED BY <1>3, <1>5, <2>2
<1>10. ideal <= high
  <2>1. q * ideal < q * (high + 1)
    BY <1>2, <1>4, <1>6, <1>7
  <2>2. ideal < high + 1
    BY <1>1, <1>4, <1>5, <2>1, TimesLess
  <2> QED BY <1>4, <1>5, <2>2
<1> QED BY <1>3, <1>4, <1>5, <1>8, <1>9, <1>10 DEF LowEnd, HighEnd, Ideal, low, high, ideal, q, A, B, M

\* Each window begins where the one before ends.
LEMMA WindowsMeet == \A L, n : \A k \in Nat : LowEnd(L, n, k + 1) = HighEnd(L, n, k)
<1>1. \A k \in Nat : 2 * (k + 1) - 1 = 2 * k + 1
  OBVIOUS
<1> QED BY <1>1 DEF LowEnd, HighEnd

\* A window ends within the text, and what lies between two cuts, or between a cut and an
\* end of the text, is not longer than two units.
LEMMA WindowLengths ==
  ASSUME NEW L \in Nat \ {0}, NEW n \in Nat \ {0}, n <= L, NEW U \in Nat \ {0}, L <= n * U,
         NEW k \in Nat \ {0}
  PROVE  /\ k < n => HighEnd(L, n, k) < L
         /\ HighEnd(L, n, k + 1) - LowEnd(L, n, k) <= 2 * U
         /\ HighEnd(L, n, 1) <= 2 * U
         /\ k = n - 1 => L - LowEnd(L, n, k) <= 2 * U
<1> DEFINE q == 2 * n
           M == k * L
<1>1. q \in Nat \ {0} /\ M \in Nat
  OBVIOUS
<1>2. \A j \in Nat \ {0} : LET A == (2 * j - 1) * L
                                B == (2 * j + 1) * L
                            IN /\ LowEnd(L, n, j) \in Nat /\ A < q * (LowEnd(L, n, j) + 1)
                               /\ HighEnd(L, n, j) \in Nat /\ q * HighEnd(L, n, j) <= B
  <2> TAKE j \in Nat \ {0}
  <2>1. (2 * j - 1) * L \in Nat /\ (2 * j + 1) * L \in Nat
    <3>1. 2 * j - 1 \in Nat /\ 2 * j + 1 \in Nat
      OBVIOUS
    <3>2. \A x \in Nat : x * L \in Nat
      OBVIOUS
    <3> QED BY <3>1, <3>2
  <2> HIDE DEF q
  <2>2. LowEnd(L, n, j) = ((2 * j - 1) * L) \div q /\ HighEnd(L, n, j) = ((2 * j + 1) * L) \div q
    BY DEF LowEnd, HighEnd, q
  <2> QED BY <1>1, <2>1, <2>2, DivFacts
<1>3. (2 * k - 1) * L = 2 * M - L /\ (2 * k + 1) * L = 2 * M + L /\ (2 * (k + 1) + 1) * L = 2 * M + 3 * L
      /\ (2 * 1 + 1) * L = 3 * L
  OBVIOUS
<1> DEFINE low == LowEnd(L, n, k)
           high == HighEnd(L, n, k)
           next == HighEnd(L, n, k + 1)
           first == HighEnd(L, n, 1)
<1>4. /\ low \in Nat /\ high \in Nat /\ next \in Nat /\ first \in Nat
      /\ 2 * M - L < q * (low + 1) /\ q * high <= 2 * M + L
      /\ q * next <= 2 * M + 3 * L /\ q * first <= 3 * L
  <2>1. k + 1 \in Nat \ {0} /\ 1 \in Nat \ {0}
    OBVIOUS
  <2> HIDE DEF q, M
  <2> QED BY <1>2, <1>3, <2>1
<1>5. q * L \in Nat /\ q * (2 * U) \in Nat /\ 4 * L <= q * (2 * U)
  <2>1. n * U \in Nat /\ q * (2 * U) = 4 * (n * U)
    OBVIOUS
  <2> QED BY <1>1, <2>1
<1>6. k < n => 2 * M + 2 * L <= q * L
  <2>1. SUFFICES ASSUME k < n PROVE 2 * M + 2 * L <= q * L
    OBVIOUS
  <2>2. L * (k + 1) <= L * n
    BY <2>1, TimesLess
  <2>3. L * (k + 1) = M + L /\ q * L = 2 * (L * n) /\ L * n \in Nat
    OBVIOUS
  <2> HIDE DEF q, M
  <2> QED BY <1>1, <2>2, <2>3
<1>7. k = n - 1 => 2 * M + 2 * L = q * L
  OBVIOUS
<1> HIDE DEF low, high, next, first
<1>8. q * (low + 1) \in Nat /\ q * high \in Nat /\ q * next \in Nat /\ q * first \in Nat
  BY <1>1, <1>4
<1>9. k < n => high < L
  <2>1. k < n => q * high < q * L
    <3> HIDE DEF q, M
    <3> QED BY <1>1, <1>4, <1>5, <1>6, <1>8
  <2> HIDE DEF q
  <2> QED BY <1>1, <1>4, <2>1, TimesLess
<1>10. next - low <= 2 * U
  <2>1. q * (next - low - 1) = q * next - q * (low + 1)
    BY <1>1, <1>4
  <2>2. q * (next - low - 1) < q * (2 * U)
    <3> HIDE DEF q, M
    <3> QED BY <1>1, <1>4, <1>5, <1>8, <2>1
  <2> HIDE DEF q
  <2>3. next - low - 1 < 2 * U
    BY <1>1, <1>4, <2>2, TimesLess
  <2> QED BY <1>4, <2>3
<1>11. first <= 2 * U
  <2>1. q * first <= q * (2 * U)
    <3> HIDE DEF q, M
    <3> QED BY <1>4, <1>5, <1>8
  <2> HIDE DEF q
  <2> QED BY <1>1, <1>4, <2>1, TimesLess
<1>12. k = n - 1 => L - low <= 2 * U
  <2>1. SUFFICES ASSUME k = n - 1 PROVE L - low <= 2 * U
    OBVIOUS
  <2>2. q * (L - low - 1) = q * L - q * (low + 1)
    BY <1>1, <1>4
  <2>3. q * (L - low - 1) < q * (2 * U)
    <3>1. 2 * M + 2 * L = q * L
      BY <1>7, <2>1
    <3> HIDE DEF q, M
    <3> QED BY <1>1, <1>4, <1>5, <1>8, <2>2, <3>1
  <2> HIDE DEF q
  <2>4. L - low - 1 < 2 * U
    BY <1>1, <1>4, <2>3, TimesLess
  <2> QED BY <1>4, <2>4
<1> QED BY <1>9, <1>10, <1>11, <1>12 DEF low, high, next, first

\* The greater of two numbers.
LEMMA MaxOfTwo ==
  ASSUME NEW a \in Nat, NEW b \in Nat
  PROVE  Max({a, b}) \in {a, b} /\ a <= Max({a, b}) /\ b <= Max({a, b})
<1>1. \E x \in {a, b} : \A y \in {a, b} : x >= y
  <2>1. CASE a >= b
    BY <2>1
  <2>2. CASE b >= a
    BY <2>2
  <2> QED BY <2>1, <2>2
<1>2. Max({a, b}) \in {a, b} /\ \A y \in {a, b} : Max({a, b}) >= y
  BY <1>1 DEF Max
<1> HIDE DEF Max
<1> QED BY <1>2

\* Among some numbers there is one nearest to a place, and a first one of the nearest.
LEMMA NearestOf ==
  ASSUME NEW top \in Nat, NEW S \in SUBSET (0 .. top), S # {}, NEW place \in 0 .. top
  PROVE  Min({p \in S : \A q \in S : Distance(p, place) <= Distance(q, place)}) \in S
<1> DEFINE far(p) == Distance(p, place)
           near == {p \in S : \A q \in S : far(p) <= far(q)}
           distances == {far(p) : p \in S}
<1>1. \A p \in S : far(p) \in 0 .. top
  BY DEF Distance
<1>9. IsFiniteSet(0 .. top)
  BY FS_Interval
<1>10. 0 .. top \subseteq Nat
  OBVIOUS
<1> HIDE DEF far
<1>2. distances \in SUBSET Nat /\ IsFiniteSet(distances) /\ distances # {}
  <2>1. distances \in SUBSET (0 .. top)
    BY <1>1
  <2>2. IsFiniteSet(distances)
    BY <1>9, <2>1, FS_Subset
  <2> QED BY <1>10, <2>1, <2>2
<1>3. PICK d \in distances : \A e \in distances : d <= e
  BY <1>2, LeastOf
<1>4. PICK p \in S : far(p) = d
  OBVIOUS
<1>5. p \in near
  BY <1>3, <1>4
<1>6. near \in SUBSET Nat /\ IsFiniteSet(near)
  <2>1. near \in SUBSET (0 .. top)
    OBVIOUS
  <2>2. IsFiniteSet(near)
    BY <1>9, <2>1, FS_Subset
  <2> QED BY <1>10, <2>1, <2>2
<1>7. \E m \in near : \A i \in near : m <= i
  <2> HIDE DEF near
  <2> QED BY <1>5, <1>6, LeastOf
<1>8. Min(near) \in near
  <2> HIDE DEF near
  <2> QED BY <1>7 DEF Min
<1> QED BY <1>8 DEF far

\* A cut is in its window, and behind a line feed where there is one in the window.
LEMMA CutFacts ==
  ASSUME NEW t \in Seq(Characters), NEW L \in Nat \ {0}, L = Len(t),
         NEW n \in Nat \ {0}, n = NumSettingCores(t), n <= L, NEW k \in Nat \ {0}
  PROVE  /\ SettingCut(t, k) \in Nat
         /\ LowEnd(L, n, k) < SettingCut(t, k) /\ SettingCut(t, k) <= HighEnd(L, n, k)
         /\ t[SettingCut(t, k)] # "feed" =>
              ~\E p \in DOMAIN t :
                 /\ t[p] = "feed"
                 /\ (2 * k - 1) * L < 2 * n * p /\ 2 * n * p <= (2 * k + 1) * L
<1> DEFINE low == LowEnd(L, n, k)
           high == HighEnd(L, n, k)
           ideal == Ideal(L, n, k)
           feeds == {p \in low + 1 .. high : t[p] = "feed"}
           cut == SettingCut(t, k)
<1>1. cut = IF feeds = {} THEN Max({ideal, low + 1})
            ELSE Min({p \in feeds : \A q \in feeds : Distance(p, ideal) <= Distance(q, ideal)})
  BY DEF SettingCut, LowEnd, HighEnd, Ideal
<1>2. /\ low \in Nat /\ high \in Nat /\ ideal \in Nat /\ low < high
      /\ low <= ideal /\ ideal <= high
  BY CutWindows
<1> HIDE DEF low, high, ideal, cut
<1>3. feeds \in SUBSET (0 .. high) /\ ideal \in 0 .. high
  BY <1>2
<1>4. CASE feeds = {}
  <2>1. cut = Max({ideal, low + 1})
    BY <1>1, <1>4
  <2>2. low + 1 \in Nat
    BY <1>2
  <2>3. cut \in {ideal, low + 1} /\ low + 1 <= cut
    BY <1>2, <2>1, <2>2, MaxOfTwo
  <2>4. cut \in Nat /\ low < cut /\ cut <= high
    BY <1>2, <2>3
  <2>5. ASSUME NEW p \in DOMAIN t, t[p] = "feed",
               (2 * k - 1) * L < 2 * n * p, 2 * n * p <= (2 * k + 1) * L
        PROVE  FALSE
    <3> DEFINE q == 2 * n
               A == (2 * k - 1) * L
               B == (2 * k + 1) * L
    <3>1. q \in Nat \ {0} /\ p \in Nat
      OBVIOUS
    <3>2. A \in Nat /\ B \in Nat
      <4>1. 2 * k - 1 \in Nat /\ 2 * k + 1 \in Nat
        OBVIOUS
      <4>2. \A x \in Nat : x * L \in Nat
        OBVIOUS
      <4> QED BY <4>1, <4>2
    <3>3. low = A \div q /\ high = B \div q
      BY DEF low, high, LowEnd, HighEnd
    <3>4. A < q * p /\ q * p <= B
      BY <2>5
    <3> HIDE DEF q, A, B
    <3>5. q * low <= A /\ B < q * (high + 1)
      BY <3>1, <3>2, <3>3, DivFacts
    <3>6. q * low \in Nat /\ q * p \in Nat /\ q * (high + 1) \in Nat
      BY <1>2, <3>1
    <3>7. q * low < q * p /\ q * p < q * (high + 1)
      BY <3>2, <3>4, <3>5, <3>6
    <3>8. low < p /\ p < high + 1
      BY <1>2, <3>1, <3>7, TimesLess
    <3>9. p \in feeds
      BY <1>2, <2>5, <3>1, <3>8
    <3> QED BY <1>4, <3>9
  <2> QED BY <2>4, <2>5 DEF low, high, cut
<1>5. CASE feeds # {}
  <2> DEFINE near == Min({p \in feeds : \A q \in feeds : Distance(p, ideal) <= Distance(q, ideal)})
  <2>1. near \in feeds
    <3> HIDE DEF feeds
    <3> QED BY <1>2, <1>3, <1>5, NearestOf
  <2>2. cut = near
    BY <1>1, <1>5
  <2> HIDE DEF near
  <2>3. cut \in low + 1 .. high /\ t[cut] = "feed"
    BY <2>1, <2>2
  <2>4. cut \in Nat /\ low < cut /\ cut <= high
    BY <1>2, <2>3
  <2> QED BY <2>3, <2>4 DEF low, high, cut
<1> QED BY <1>4, <1>5

\* Where the k-th segment ends and the next one begins.
Bound(t, k) == CASE k = 0 -> 0 [] k = NumSettingCores(t) -> Len(t) [] OTHER -> SettingCut(t, k)

\* The bounds go from one end of the text to the other, and on by one to two units.
LEMMA BoundFacts ==
  ASSUME NEW t \in Seq(Characters), NEW L \in Nat \ {0}, L = Len(t),
         NEW n, n = NumSettingCores(t)
  PROVE  /\ n \in Nat \ {0} /\ Bound(t, 0) = 0 /\ Bound(t, n) = L
         /\ \A k \in 0 .. n : Bound(t, k) \in Nat
         /\ \A k \in 1 .. n :
              Bound(t, k - 1) < Bound(t, k) /\ Bound(t, k) - Bound(t, k - 1) <= 2 * UnitChars
         /\ \A k \in 1 .. n - 1 : t[Bound(t, k)] # "feed" =>
              ~\E p \in DOMAIN t :
                 /\ t[p] = "feed"
                 /\ (2 * k - 1) * L < 2 * n * p /\ 2 * n * p <= (2 * k + 1) * L
<1> DEFINE U == UnitChars
           B(k) == Bound(t, k)
           none(k) == ~\E p \in DOMAIN t :
                         /\ t[p] = "feed"
                         /\ (2 * k - 1) * L < 2 * n * p /\ 2 * n * p <= (2 * k + 1) * L
<1>1. U \in Nat \ {0}
  BY UnitAssumption
<1>2. n \in Nat \ {0} /\ n <= L /\ L <= n * U
  BY <1>1, CoreCount DEF NumSettingCores
<1>3. B(0) = 0 /\ B(n) = L
  BY <1>2 DEF Bound
<1>4. \A k \in 1 .. n - 1 : B(k) = SettingCut(t, k)
  BY <1>2 DEF Bound
<1>5. ASSUME NEW k \in 1 .. n - 1
      PROVE  /\ B(k) \in Nat /\ LowEnd(L, n, k) < B(k) /\ B(k) <= HighEnd(L, n, k)
             /\ t[B(k)] # "feed" => none(k)
             /\ LowEnd(L, n, k) \in Nat /\ HighEnd(L, n, k) \in Nat
  <2>1. k \in Nat \ {0}
    BY <1>2
  <2>2. LowEnd(L, n, k) \in Nat /\ HighEnd(L, n, k) \in Nat
    BY <1>2, <2>1, CutWindows
  <2>3. /\ SettingCut(t, k) \in Nat
        /\ LowEnd(L, n, k) < SettingCut(t, k) /\ SettingCut(t, k) <= HighEnd(L, n, k)
        /\ t[SettingCut(t, k)] # "feed" => none(k)
    BY <1>2, <2>1, CutFacts
  <2> HIDE DEF none, B
  <2> QED BY <1>4, <2>2, <2>3
<1> HIDE DEF B, none, U
<1>6. \A k \in 0 .. n : B(k) \in Nat
  BY <1>2, <1>3, <1>5
<1>7. ASSUME NEW k \in 1 .. n
      PROVE  B(k - 1) < B(k) /\ B(k) - B(k - 1) <= 2 * U
  <2>1. CASE k = 1 /\ n = 1
    <3>1. B(k - 1) = 0 /\ B(k) = L /\ L <= U
      BY <1>1, <1>2, <1>3, <2>1
    <3> QED BY <1>1, <3>1
  <2>2. CASE k = 1 /\ n # 1
    <3>1. 1 \in 1 .. n - 1
      BY <1>2, <2>2
    <3>2. HighEnd(L, n, 1) <= 2 * U
      BY <1>1, <1>2, WindowLengths
    <3>3. B(1) \in Nat /\ LowEnd(L, n, 1) < B(1) /\ B(1) <= HighEnd(L, n, 1)
          /\ LowEnd(L, n, 1) \in Nat /\ HighEnd(L, n, 1) \in Nat
      BY <1>5, <3>1
    <3>4. k - 1 = 0
      BY <2>2
    <3> QED BY <1>1, <1>3, <2>2, <3>2, <3>3, <3>4
  <2>3. CASE k # 1
    <3> DEFINE j == k - 1
    <3>1. j \in 1 .. n - 1 /\ j \in Nat \ {0} /\ j + 1 = k
      BY <1>2, <2>3
    <3> HIDE DEF j
    <3>2. B(j) \in Nat /\ LowEnd(L, n, j) < B(j) /\ B(j) <= HighEnd(L, n, j)
          /\ LowEnd(L, n, j) \in Nat /\ HighEnd(L, n, j) \in Nat
      BY <1>5, <3>1
    <3>3. /\ j < n => HighEnd(L, n, j) < L
          /\ HighEnd(L, n, k) - LowEnd(L, n, j) <= 2 * U
          /\ j = n - 1 => L - LowEnd(L, n, j) <= 2 * U
      BY <1>1, <1>2, <3>1, WindowLengths
    <3>4. CASE k = n
      <4>1. B(k) = L /\ j < n /\ j = n - 1
        BY <1>2, <1>3, <3>1, <3>4
      <4>2. B(j) < L /\ L - B(j) <= 2 * U
        BY <1>1, <3>2, <3>3, <4>1
      <4> QED BY <4>1, <4>2 DEF j
    <3>5. CASE k # n
      <4>1. k \in 1 .. n - 1
        BY <1>2, <3>5
      <4>2. B(k) \in Nat /\ LowEnd(L, n, k) < B(k) /\ B(k) <= HighEnd(L, n, k)
            /\ LowEnd(L, n, k) \in Nat /\ HighEnd(L, n, k) \in Nat
        BY <1>5, <4>1
      <4>3. LowEnd(L, n, k) = HighEnd(L, n, j)
        BY <3>1, WindowsMeet
      <4>4. B(j) < B(k) /\ B(k) - B(j) <= 2 * U
        BY <1>1, <3>2, <3>3, <4>2, <4>3
      <4> QED BY <4>4 DEF j
    <3> QED BY <3>4, <3>5
  <2> QED BY <2>1, <2>2, <2>3
<1>8. \A k \in 1 .. n - 1 : t[B(k)] # "feed" => none(k)
  BY <1>5
<1> QED BY <1>2, <1>3, <1>6, <1>7, <1>8 DEF B, none, U

\* The segments of a text, one by one.
LEMMA SegmentFacts ==
  ASSUME NEW t \in Seq(Characters), NEW n \in Nat, n = NumSettingCores(t)
  PROVE  /\ SettingSegments(t) \in Seq({Slice(Bound(t, k - 1), Bound(t, k)) : k \in 1 .. n})
         /\ Len(SettingSegments(t)) = n
         /\ \A k \in 1 .. n : SettingSegments(t)[k] = Slice(Bound(t, k - 1), Bound(t, k))
<1>1. SettingSegments(t) = [k \in 1 .. n |-> Slice(Bound(t, k - 1), Bound(t, k))]
  BY DEF SettingSegments, Bound
<1> DEFINE one(k) == Slice(Bound(t, k - 1), Bound(t, k))
           all == {one(k) : k \in 1 .. n}
<1>2. SettingSegments(t) = [k \in 1 .. n |-> one(k)] /\ \A k \in 1 .. n : one(k) \in all
  BY <1>1
<1> HIDE DEF one, all
<1>3. SettingSegments(t) \in [1 .. n -> all]
  BY <1>2
<1>4. SettingSegments(t) \in Seq(all) /\ Len(SettingSegments(t)) = n
  BY <1>3
<1> QED BY <1>2, <1>4 DEF one, all

\* Each character is in the segment of the first bound that is not before it.
LEMMA SegmentsAreGood ==
  ASSUME text \in Seq(Characters), slices = SettingSegments(text)
  PROVE  Covers /\ SegmentsMeet
<1> DEFINE n == NumSettingCores(text)
           L == Len(text)
           B(k) == Bound(text, k)
<1>1. text \in Seq(Characters) /\ slices = SettingSegments(text) /\ UnitChars \in Nat \ {0}
  BY UnitAssumption
<1>2. CASE text = <<>>
  <2>1. n = 0
    <3>1. L = 0
      BY <1>2
    <3>2. n = (UnitChars - 1) \div UnitChars
      BY <1>1, <3>1 DEF NumSettingCores
    <3> QED BY <1>1, <3>2
  <2>2. slices = <<>>
    <3>1. n \in Nat
      BY <2>1
    <3>2. Len(slices) = n /\ slices \in Seq({Slice(Bound(text, k - 1), Bound(text, k)) : k \in 1 .. n})
      BY <1>1, <3>1, SegmentFacts
    <3> HIDE DEF n
    <3> QED BY <2>1, <3>2
  <2>3. DOMAIN text = {} /\ Len(slices) = 0
    BY <1>2, <2>2
  <2> QED BY <1>2, <2>2, <2>3 DEF Covers, SegmentsMeet
<1>3. CASE text # <<>>
  <2>1. L \in Nat \ {0}
    BY <1>1, <1>3
  <2>2. /\ n \in Nat \ {0} /\ B(0) = 0 /\ B(n) = L
        /\ \A k \in 0 .. n : B(k) \in Nat
        /\ \A k \in 1 .. n : B(k - 1) < B(k) /\ B(k) - B(k - 1) <= 2 * UnitChars
        /\ \A k \in 1 .. n - 1 : text[B(k)] # "feed" =>
             ~\E p \in DOMAIN text :
                /\ text[p] = "feed"
                /\ (2 * k - 1) * L < 2 * n * p /\ 2 * n * p <= (2 * k + 1) * L
    BY <1>1, <2>1, BoundFacts
  <2> DEFINE none(k) == ~\E p \in DOMAIN text :
                /\ text[p] = "feed"
                /\ (2 * k - 1) * L < 2 * n * p /\ 2 * n * p <= (2 * k + 1) * L
  <2> HIDE DEF n, B, L, none
  <2>3. /\ Len(slices) = n
        /\ \A k \in 1 .. n : slices[k].start = B(k - 1) /\ slices[k].end = B(k)
        /\ DOMAIN slices = 1 .. n
    <3>1. /\ slices \in Seq({Slice(Bound(text, k - 1), Bound(text, k)) : k \in 1 .. n})
          /\ Len(slices) = n
          /\ \A k \in 1 .. n : slices[k] = Slice(B(k - 1), B(k))
      BY <1>1, <2>2, SegmentFacts DEF n, B
    <3> QED BY <3>1 DEF Slice
  <2>4. SegmentsMeet
    <3>1. slices[1].start = 0 /\ slices[n].end = L
      <4>1. 1 \in 1 .. n /\ n \in 1 .. n /\ 1 - 1 = 0
        BY <2>2
      <4> QED BY <2>2, <2>3, <4>1
    <3>2. ASSUME NEW k \in 1 .. n PROVE Length(slices[k]) \in 1 .. 2 * UnitChars
      <4>1. B(k - 1) \in Nat /\ B(k) \in Nat
        BY <2>2
      <4> QED BY <1>1, <2>2, <2>3, <4>1 DEF Length
    <3>3. ASSUME NEW k \in 2 .. n PROVE slices[k].start = slices[k - 1].end
      <4>1. k \in 1 .. n /\ k - 1 \in 1 .. n
        BY <2>2
      <4> QED BY <2>3, <4>1
    <3>4. \A k \in 1 .. n - 1 : text[slices[k].end] # "feed" => none(k)
      <4>1. \A k \in 1 .. n - 1 : text[B(k)] # "feed" => none(k)
        BY <2>2 DEF none
      <4>2. \A k \in 1 .. n - 1 : k \in 1 .. n
        BY <2>2
      <4> QED BY <2>3, <4>1, <4>2
    <3> QED BY <2>3, <3>1, <3>2, <3>3, <3>4 DEF SegmentsMeet, none, L
  <2>5. ASSUME NEW k \in DOMAIN text
        PROVE  \E s \in ToSet(slices) : s.start < k /\ k <= s.end
    <3> DEFINE behind == {j \in 0 .. n : k <= B(j)}
    <3>1. k \in 1 .. L
      BY <1>1 DEF L
    <3>2. behind \in SUBSET Nat /\ IsFiniteSet(behind) /\ n \in behind
      <4>1. behind \in SUBSET (0 .. n)
        OBVIOUS
      <4>2. IsFiniteSet(0 .. n)
        BY <2>2, FS_Interval
      <4>3. IsFiniteSet(behind)
        BY <4>1, <4>2, FS_Subset
      <4>4. behind \in SUBSET Nat
        OBVIOUS
      <4>5. n \in behind
        BY <2>1, <2>2, <3>1
      <4> QED BY <4>3, <4>4, <4>5
    <3>3. PICK j \in behind : \A i \in behind : j <= i
      <4> HIDE DEF behind
      <4> QED BY <3>2, LeastOf
    <3>4. j \in 1 .. n
      BY <2>2, <3>1, <3>3
    <3>5. j - 1 \in 0 .. n /\ j - 1 \notin behind
      BY <2>2, <3>3, <3>4
    <3>6. B(j - 1) < k /\ k <= B(j)
      <4>1. B(j - 1) \in Nat
        BY <2>2, <3>5
      <4> QED BY <3>1, <3>3, <3>5, <4>1
    <3>7. slices[j] \in ToSet(slices)
      BY <2>3, <3>4 DEF ToSet
    <3> QED BY <2>3, <3>4, <3>6, <3>7
  <2>6. ASSUME NEW k \in 2 .. Len(slices)
        PROVE  slices[k - 1].start < slices[k].start /\ slices[k - 1].end < slices[k].end
    <3>1. k \in 1 .. n /\ k - 1 \in 1 .. n
      BY <2>2, <2>3
    <3> QED BY <2>2, <2>3, <3>1
  <2> QED BY <2>4, <2>5, <2>6 DEF Covers
<1> QED BY <1>2, <1>3

-----------------------------------------------------------------------------
\* Induction up to a number, and functions defined by recursion

\* What holds of 0, and of the next number wherever it holds, holds of all up to a bound.
LEMMA UpTo ==
  ASSUME NEW n \in Nat, NEW P, 0 \in P, \A k \in 0 .. n : k < n /\ k \in P => k + 1 \in P
  PROVE  \A k \in 0 .. n : k \in P
<1> DEFINE S == {k \in 0 .. n : k \notin P}
<1>1. SUFFICES ASSUME S # {} PROVE FALSE
  OBVIOUS
<1>2. S \in SUBSET Nat /\ IsFiniteSet(S)
  <2>1. S \in SUBSET (0 .. n) /\ S \in SUBSET Nat
    OBVIOUS
  <2>2. IsFiniteSet(0 .. n)
    BY FS_Interval
  <2> QED BY <2>1, <2>2, FS_Subset
<1>3. PICK m \in S : \A i \in S : m <= i
  <2> HIDE DEF S
  <2> QED BY <1>1, <1>2, LeastOf
<1>4. m \in 1 .. n
  OBVIOUS
<1>5. m - 1 \in 0 .. n /\ m - 1 < n /\ m - 1 \in P
  BY <1>3, <1>4
<1>6. (m - 1) + 1 = m
  BY <1>4
<1> QED BY <1>5, <1>6

\* The least of some numbers up to a bound.
LEMMA MinFacts ==
  ASSUME NEW n \in Nat, NEW S \in SUBSET (0 .. n), S # {}
  PROVE  Min(S) \in S /\ \A i \in S : Min(S) <= i
<1>1. S \in SUBSET Nat /\ IsFiniteSet(S)
  <2>1. IsFiniteSet(0 .. n)
    BY FS_Interval
  <2>2. S \in SUBSET Nat
    OBVIOUS
  <2> QED BY <2>1, <2>2, FS_Subset
<1>2. \E m \in S : \A i \in S : m <= i
  BY <1>1, LeastOf
<1> QED BY <1>2 DEF Min

\* The greatest is the least of the numbers that none of them exceeds.
LEMMA MaxFacts ==
  ASSUME NEW n \in Nat, NEW S \in SUBSET (0 .. n), S # {}
  PROVE  Max(S) \in S /\ \A i \in S : Max(S) >= i
<1> DEFINE above == {u \in 0 .. n : \A i \in S : u >= i}
<1>1. n \in above
  OBVIOUS
<1>2. PICK m \in above : \A u \in above : m <= u
  <2>1. above \in SUBSET (0 .. n)
    OBVIOUS
  <2> HIDE DEF above
  <2> QED BY <1>1, <2>1, MinFacts
<1>3. m \in S
  <2>1. SUFFICES ASSUME m \notin S PROVE FALSE
    OBVIOUS
  <2>2. PICK i \in S : TRUE
    OBVIOUS
  <2>3. m \in 1 .. n
    BY <2>1, <2>2
  <2>4. m - 1 \in above
    BY <2>1, <2>3
  <2> QED BY <1>2, <2>3, <2>4
<1>4. \A i \in S : m >= i
  OBVIOUS
<1>5. \E x \in S : \A y \in S : x >= y
  BY <1>3, <1>4
<1> HIDE DEF above
<1> QED BY <1>5 DEF Max

\* A recursion from each place that is not done to one smaller place.
Descends(S, V, top, size, done, out, next, comb) ==
  /\ top \in Nat /\ size \in [S -> 0 .. top]
  /\ out \in [S -> V] /\ next \in [S -> S] /\ comb \in [S \X V -> V]
  /\ \A x \in S : x \notin done => size[next[x]] < size[x]

\* A function whose value at a place follows from its value at one smaller place exists.
LEMMA Recursion ==
  ASSUME NEW S, NEW V, NEW top, NEW size, NEW done, NEW out, NEW next, NEW comb,
         Descends(S, V, top, size, done, out, next, comb)
  PROVE  \E f \in [S -> V] :
           \A x \in S : f[x] = IF x \in done THEN out[x] ELSE comb[<<x, f[next[x]]>>]
<1> DEFINE step(g) == [x \in S |-> IF x \in done THEN out[x] ELSE comb[<<x, g[next[x]]>>]]
           below(n) == {x \in S : size[x] < n}
           P == {n \in 0 .. top + 1 : \E g \in [S -> V] : \A x \in below(n) : g[x] = step(g)[x]}
<1> USE DEF Descends
<1>1. \A g \in [S -> V] : step(g) \in [S -> V]
  <2> SUFFICES ASSUME NEW g \in [S -> V], NEW x \in S
               PROVE  (IF x \in done THEN out[x] ELSE comb[<<x, g[next[x]]>>]) \in V
    OBVIOUS
  <2>1. <<x, g[next[x]]>> \in S \X V
    OBVIOUS
  <2> QED BY <2>1
<1>2. 0 \in P
  <2>1. below(0) = {}
    OBVIOUS
  <2>2. out \in [S -> V] /\ \A x \in below(0) : out[x] = step(out)[x]
    <3> HIDE DEF step, below
    <3> QED BY <2>1
  <2>3. 0 \in 0 .. top + 1
    OBVIOUS
  <2> HIDE DEF step, below
  <2> QED BY <2>2, <2>3
<1>3. ASSUME NEW n \in 0 .. top + 1, n < top + 1, n \in P PROVE n + 1 \in P
  <2>1. PICK g \in [S -> V] : \A x \in below(n) : g[x] = step(g)[x]
    <3> HIDE DEF step, below
    <3> QED BY <1>3
  <2> DEFINE h == step(g)
  <2>2. h \in [S -> V] /\ \A x \in S : h[x] = IF x \in done THEN out[x] ELSE comb[<<x, g[next[x]]>>]
    BY <1>1
  <2>3. \A x \in S : step(h)[x] = IF x \in done THEN out[x] ELSE comb[<<x, h[next[x]]>>]
    OBVIOUS
  <2>4. \A x \in below(n) : g[x] = h[x]
    BY <2>1
  <2>5. \A x \in below(n + 1) : x \notin done => next[x] \in below(n)
    <3> SUFFICES ASSUME NEW x \in below(n + 1), x \notin done PROVE next[x] \in below(n)
      OBVIOUS
    <3>1. size[x] \in Nat /\ size[next[x]] \in Nat /\ size[x] < n + 1 /\ size[next[x]] < size[x] /\ next[x] \in S
      OBVIOUS
    <3> QED BY <3>1
  <2>6. \A x \in below(n + 1) : x \in S
    OBVIOUS
  <2> HIDE DEF h, below
  <2>7. \A x \in below(n + 1) : h[x] = step(h)[x]
    <3> HIDE DEF step
    <3> QED BY <2>2, <2>3, <2>4, <2>5, <2>6
  <2>8. n + 1 \in 0 .. top + 1
    BY <1>3
  <2> HIDE DEF step
  <2> QED BY <2>2, <2>7, <2>8
<1>4. top + 1 \in P
  <2>1. \A k \in 0 .. top + 1 : k < top + 1 /\ k \in P => k + 1 \in P
    BY <1>3
  <2>2. top + 1 \in Nat /\ top + 1 \in 0 .. top + 1
    OBVIOUS
  <2> HIDE DEF P
  <2> QED BY <1>2, <2>1, <2>2, UpTo
<1>5. below(top + 1) = S
  OBVIOUS
<1>6. PICK g \in [S -> V] : \A x \in S : g[x] = step(g)[x]
  <2> HIDE DEF step, below
  <2> QED BY <1>4, <1>5
<1> QED BY <1>6

-----------------------------------------------------------------------------
\* The tokens of a slice

\* One character more brings no token, one or two; none only if it is a letter that is
\* paired with the one before it.
LEMMA TokensStep ==
  ASSUME NEW t, NEW i \in Nat, NEW j \in Nat, i <= j
  PROVE  /\ Tokens(t, i, j) \in Nat /\ Tokens(t, i, i) = 0
         /\ Tokens(t, i, j + 1) = Tokens(t, i, j) + (IF Begins(t, i, j + 1) THEN 1 ELSE 0)
                                                  + (IF t[j + 1] = "wide" THEN 1 ELSE 0)
         /\ ~Begins(t, i, j + 1) => j > i /\ Begins(t, i, j)
<1> DEFINE first(k) == {p \in i + 1 .. k : Begins(t, i, p)}
           second(k) == {p \in i + 1 .. k : t[p] = "wide"}
<1>1. \A k \in Nat : /\ IsFiniteSet(first(k)) /\ Cardinality(first(k)) \in Nat
                     /\ IsFiniteSet(second(k)) /\ Cardinality(second(k)) \in Nat
  <2> TAKE k \in Nat
  <2>1. IsFiniteSet(i + 1 .. k)
    BY FS_Interval
  <2>2. first(k) \in SUBSET (i + 1 .. k) /\ second(k) \in SUBSET (i + 1 .. k)
    OBVIOUS
  <2> HIDE DEF first, second
  <2>3. IsFiniteSet(first(k)) /\ IsFiniteSet(second(k))
    BY <2>1, <2>2, FS_Subset
  <2> QED BY <2>3, FS_CardinalityType
<1>2. \A k \in Nat : Tokens(t, i, k) = Cardinality(first(k)) + Cardinality(second(k))
  BY DEF Tokens
<1>3. Tokens(t, i, i) = 0
  <2>1. first(i) = {} /\ second(i) = {}
    OBVIOUS
  <2> HIDE DEF first, second
  <2> QED BY <1>2, <2>1, FS_EmptySet
<1>4. first(j + 1) = IF Begins(t, i, j + 1) THEN first(j) \union {j + 1} ELSE first(j)
  OBVIOUS
<1>5. second(j + 1) = IF t[j + 1] = "wide" THEN second(j) \union {j + 1} ELSE second(j)
  OBVIOUS
<1>6. j + 1 \notin first(j) /\ j + 1 \notin second(j) /\ j + 1 \in Nat
  OBVIOUS
<1> HIDE DEF first, second
<1>7. Cardinality(first(j + 1)) = Cardinality(first(j)) + (IF Begins(t, i, j + 1) THEN 1 ELSE 0)
  <2>1. CASE Begins(t, i, j + 1)
    BY <1>1, <1>4, <1>6, <2>1, FS_AddElement
  <2>2. CASE ~Begins(t, i, j + 1)
    BY <1>1, <1>4, <2>2
  <2> QED BY <2>1, <2>2
<1>8. Cardinality(second(j + 1)) = Cardinality(second(j)) + (IF t[j + 1] = "wide" THEN 1 ELSE 0)
  BY <1>1, <1>5, <1>6, FS_AddElement
<1>9. Tokens(t, i, j + 1) = Tokens(t, i, j) + (IF Begins(t, i, j + 1) THEN 1 ELSE 0)
                                            + (IF t[j + 1] = "wide" THEN 1 ELSE 0)
  BY <1>1, <1>2, <1>6, <1>7, <1>8
<1>10. ASSUME ~Begins(t, i, j + 1) PROVE j > i /\ Begins(t, i, j)
  <2> DEFINE starts(k) == {p \in i .. k - 1 : p = i \/ t[p] # "letter"}
  <2>0. \A k \in Nat : RunStart(t, i, k) = Max(starts(k))
    BY DEF RunStart
  <2>1. t[j + 1] = "letter" /\ ~(((j + 1) - Max(starts(j + 1))) % 2 = 1)
    <3>1. Max(starts(j + 1)) = RunStart(t, i, j + 1)
      BY <2>0
    <3>2. t[j + 1] = "letter" /\ ~(((j + 1) - RunStart(t, i, j + 1)) % 2 = 1)
      BY <1>10 DEF Begins
    <3> HIDE DEF starts
    <3> QED BY <3>1, <3>2
  <2>2. starts(j + 1) \in SUBSET (0 .. j) /\ i \in starts(j + 1)
    OBVIOUS
  <2>3. Max(starts(j + 1)) \in starts(j + 1) /\ \A p \in starts(j + 1) : Max(starts(j + 1)) >= p
    <3> HIDE DEF starts
    <3> QED BY <2>2, MaxFacts
  <2>4. j \notin starts(j + 1)
    <3>1. SUFFICES ASSUME j \in starts(j + 1) PROVE FALSE
      OBVIOUS
    <3>2. Max(starts(j + 1)) = j
      BY <2>2, <2>3, <3>1
    <3> QED BY <2>1, <3>2
  <2>5. j > i /\ t[j] = "letter"
    BY <2>4
  <2>6. starts(j) = starts(j + 1)
    BY <2>4, <2>5
  <2>7. Max(starts(j)) \in 0 .. j
    BY <2>2, <2>3, <2>6
  <2>8. (j - Max(starts(j))) % 2 = 1
    <3> HIDE DEF starts
    <3>1. ~(((j + 1) - Max(starts(j))) % 2 = 1)
      BY <2>1, <2>6
    <3> QED BY <2>7, <3>1
  <2> HIDE DEF starts
  <2> QED BY <2>0, <2>5, <2>8 DEF Begins
<1> QED BY <1>1, <1>2, <1>3, <1>9, <1>10

\* A longer slice has no fewer tokens, and two letters have one at least.
LEMMA TokensGrow ==
  ASSUME NEW t, NEW i \in Nat, NEW j \in Nat, NEW k \in Nat, i <= j, j <= k
  PROVE  Tokens(t, i, j) <= Tokens(t, i, k) /\ 2 * Tokens(t, i, k) >= k - i
<1> DEFINE G == {d \in 0 .. k - j : Tokens(t, i, j) <= Tokens(t, i, j + d)}
           H == {d \in 0 .. k - i : /\ 2 * Tokens(t, i, i + d) >= d
                                    /\ d > 0 /\ Begins(t, i, i + d) => 2 * Tokens(t, i, i + d) > d}
<1>1. k - j \in G
  <2>1. k - j \in Nat /\ k - j \in 0 .. k - j
    OBVIOUS
  <2>2. 0 \in G
    <3>1. Tokens(t, i, j) \in Nat
      BY TokensStep
    <3> QED BY <2>1, <3>1
  <2>3. ASSUME NEW d \in 0 .. k - j, d < k - j, d \in G PROVE d + 1 \in G
    <3>1. j + d \in Nat /\ i <= j + d /\ (j + d) + 1 = j + (d + 1)
      OBVIOUS
    <3>2. Tokens(t, i, j + d) \in Nat /\ Tokens(t, i, j) \in Nat
      BY <3>1, TokensStep
    <3>3. Tokens(t, i, (j + d) + 1) >= Tokens(t, i, j + d)
      <4>1. Tokens(t, i, (j + d) + 1) = Tokens(t, i, j + d) + (IF Begins(t, i, (j + d) + 1) THEN 1 ELSE 0)
                                                  + (IF t[(j + d) + 1] = "wide" THEN 1 ELSE 0)
        BY <3>1, TokensStep
      <4> QED BY <3>2, <4>1
    <3>4. Tokens(t, i, (j + d) + 1) \in Nat
      <4>1. (j + d) + 1 \in Nat /\ i <= (j + d) + 1
        OBVIOUS
      <4> QED BY <4>1, TokensStep
    <3>5. Tokens(t, i, j) <= Tokens(t, i, j + (d + 1))
      BY <2>3, <3>1, <3>2, <3>3, <3>4
    <3> QED BY <2>3, <3>5
  <2> HIDE DEF G
  <2> QED BY <2>1, <2>2, <2>3, UpTo
<1>2. k - i \in H
  <2>1. k - i \in Nat /\ k - i \in 0 .. k - i
    OBVIOUS
  <2>2. 0 \in H
    <3>1. Tokens(t, i, i) = 0 /\ i + 0 = i
      BY TokensStep
    <3> QED BY <2>1, <3>1
  <2>3. ASSUME NEW d \in 0 .. k - i, d < k - i, d \in H PROVE d + 1 \in H
    <3>1. i + d \in Nat /\ i <= i + d /\ (i + d) + 1 = i + (d + 1) /\ (i + d > i <=> d > 0)
      OBVIOUS
    <3>2. Tokens(t, i, i + d) \in Nat /\ Tokens(t, i, (i + d) + 1) \in Nat
      <4>1. (i + d) + 1 \in Nat /\ i <= (i + d) + 1
        OBVIOUS
      <4> QED BY <3>1, <4>1, TokensStep
    <3>3. /\ Tokens(t, i, (i + d) + 1) = Tokens(t, i, i + d) + (IF Begins(t, i, (i + d) + 1) THEN 1 ELSE 0)
                                                  + (IF t[(i + d) + 1] = "wide" THEN 1 ELSE 0)
          /\ ~Begins(t, i, (i + d) + 1) => i + d > i /\ Begins(t, i, i + d)
      BY <3>1, TokensStep
    <3>4. 2 * Tokens(t, i, i + d) >= d /\ (d > 0 /\ Begins(t, i, i + d) => 2 * Tokens(t, i, i + d) > d)
      BY <2>3
    <3>5. CASE Begins(t, i, (i + d) + 1)
      <4>1. Tokens(t, i, (i + d) + 1) >= Tokens(t, i, i + d) + 1
        BY <3>2, <3>3, <3>5
      <4>2. 2 * Tokens(t, i, (i + d) + 1) > d + 1
        BY <3>2, <3>4, <4>1
      <4> QED BY <2>3, <3>1, <3>2, <4>2
    <3>6. CASE ~Begins(t, i, (i + d) + 1)
      <4>1. Tokens(t, i, (i + d) + 1) >= Tokens(t, i, i + d) /\ 2 * Tokens(t, i, i + d) > d
        BY <3>1, <3>2, <3>3, <3>4, <3>6
      <4>2. 2 * Tokens(t, i, (i + d) + 1) >= d + 1
        BY <3>2, <4>1
      <4> QED BY <2>3, <3>1, <3>6, <4>2
    <3> QED BY <3>5, <3>6
  <2> HIDE DEF H
  <2> QED BY <2>1, <2>2, <2>3, UpTo
<1>3. j + (k - j) = k /\ i + (k - i) = k
  OBVIOUS
<1> QED BY <1>1, <1>2, <1>3

-----------------------------------------------------------------------------
\* The end of a slice of tokens

\* What the numbers of the policy have to do with each other.
LEMMA TargetFacts ==
  /\ TargetTokens \in Nat /\ OverlapTokens \in Nat /\ WindowSize \in Nat
  /\ TargetTokens \div 2 \in Nat /\ OverlapTokens < TargetTokens \div 2
  /\ OverlapTokens + 2 <= TargetTokens /\ TargetTokens \div 2 <= TargetTokens - 1
  /\ WindowSize > 0
  /\ \A x \in Nat : 2 * x >= WindowSize => x >= TargetTokens \div 2
<1>1. TargetTokens \in Nat /\ OverlapTokens \in Nat /\ WindowSize \in Nat
      /\ OverlapTokens < TargetTokens \div 2 /\ TargetTokens \div 2 <= (WindowSize + 1) \div 2
  BY SlicesAssumption
<1>2. TargetTokens \div 2 \in Nat /\ 2 * (TargetTokens \div 2) <= TargetTokens
  BY <1>1
<1>3. (WindowSize + 1) \div 2 \in Nat /\ 2 * ((WindowSize + 1) \div 2) <= WindowSize + 1
  BY <1>1
<1> QED BY <1>1, <1>2, <1>3

\* A slice of one character fits.
LEMMA OneFits == ASSUME NEW t, NEW start \in Nat PROVE Fits(t, start, start + 1)
<1>1. /\ Tokens(t, start, start) \in Nat /\ Tokens(t, start, start) = 0
      /\ Tokens(t, start, start + 1) = Tokens(t, start, start)
           + (IF Begins(t, start, start + 1) THEN 1 ELSE 0) + (IF t[start + 1] = "wide" THEN 1 ELSE 0)
  BY TokensStep
<1>2. Tokens(t, start, start + 1) <= 2
  BY <1>1
<1>3. Tokens(t, start, start + 1) \in Nat
  BY <1>1
<1> QED BY <1>2, <1>3, TargetFacts DEF Fits

\* The window holds at least one character, and ends within the text.
LEMMA WindowFacts ==
  ASSUME NEW t, NEW L \in Nat, L = Len(t), NEW start \in Nat, start < L
  PROVE  /\ Window(t, start) \in start + 1 .. L
         /\ Window(t, start) = L \/ Window(t, start) = start + WindowSize
<1> DEFINE a == start + WindowSize
<1>1. a \in Nat /\ a > start
  BY TargetFacts
<1>2. Window(t, start) = Min({L, a})
  BY DEF Window
<1> HIDE DEF a
<1>3. {L, a} \in SUBSET (0 .. L + a)
  BY <1>1
<1>4. L + a \in Nat
  BY <1>1
<1>5. Min({L, a}) \in {L, a} /\ Min({L, a}) <= L
  <2>1. {L, a} # {} /\ L \in {L, a}
    OBVIOUS
  <2> QED BY <1>3, <1>4, <2>1, MinFacts
<1> QED BY <1>1, <1>2, <1>5 DEF a

\* Quarters are taken off the window until the slice fits.
LEMMA FittingFacts ==
  ASSUME NEW t, NEW L \in Nat, L = Len(t), NEW start \in Nat, start < L
  PROVE  Fitting(t, start) \in start + 1 .. Window(t, start) /\ Fits(t, start, Fitting(t, start))
<1> DEFINE S == start + 1 .. L
           size == [e \in S |-> e - start]
           done == {e \in S : Fits(t, start, e)}
           same == [e \in S |-> e]
           less3(e) == start + Max({1, ((e - start) * 3) \div 4})
           next == [e \in S |-> IF e \in done THEN e ELSE less3(e)]
           comb == [b \in S \X S |-> b[2]]
           is(f) == f = [e \in S |-> IF Fits(t, start, e) THEN e ELSE f[less3(e)]]
<1>1. ASSUME NEW e \in S, e \notin done PROVE less3(e) \in S /\ less3(e) < e
  <2> DEFINE d == e - start
             m == (d * 3) \div 4
  <2>1. e # start + 1
    BY <1>1, OneFits
  <2>2. d \in Nat /\ d >= 2 /\ e = start + d
    BY <2>1
  <2>3. d * 3 \in Nat
    BY <2>2
  <2>4. m \in Nat /\ 4 * m <= d * 3 /\ d * 3 < 4 * (m + 1)
    <3> HIDE DEF d
    <3> QED BY <2>3, DivFacts
  <2>5. m < d /\ m >= 1
    <3> HIDE DEF d, m
    <3> QED BY <2>2, <2>4
  <2>6. Max({1, m}) \in {1, m} /\ 1 <= Max({1, m}) /\ m <= Max({1, m})
    <3> HIDE DEF m
    <3> QED BY <2>4, MaxOfTwo
  <2>7. less3(e) = start + Max({1, m})
    OBVIOUS
  <2> HIDE DEF less3, d, m
  <2> QED BY <2>2, <2>4, <2>5, <2>6, <2>7
<1> HIDE DEF less3
<1>2. /\ size \in [S -> 0 .. L] /\ same \in [S -> S] /\ comb \in [S \X S -> S]
      /\ next \in [S -> S]
      /\ Descends(S, S, L, size, done, same, next, comb)
  <2>1. size \in [S -> 0 .. L] /\ same \in [S -> S] /\ comb \in [S \X S -> S]
    OBVIOUS
  <2>2. next \in [S -> S]
    <3> HIDE DEF S, done
    <3> QED BY <1>1
  <2>3. ASSUME NEW e \in S, e \notin done PROVE size[next[e]] < size[e]
    <3>1. next[e] = less3(e) /\ less3(e) \in S /\ less3(e) < e
      BY <1>1, <2>3
    <3>2. size[next[e]] = less3(e) - start /\ size[e] = e - start
      <4> HIDE DEF next
      <4> QED BY <3>1
    <3> QED BY <3>1, <3>2
  <2> HIDE DEF S, size, done, same, next, comb
  <2> QED BY <2>1, <2>2, <2>3 DEF Descends
<1>3. \E f : is(f)
  <2>1. PICK f \in [S -> S] :
           \A e \in S : f[e] = IF e \in done THEN same[e] ELSE comb[<<e, f[next[e]]>>]
    <3>1. Descends(S, S, L, size, done, same, next, comb)
      BY <1>2
    <3> HIDE DEF S, size, done, same, next, comb
    <3> QED BY <3>1, Recursion
  <2>2. ASSUME NEW e \in S
        PROVE  (IF e \in done THEN same[e] ELSE comb[<<e, f[next[e]]>>])
                  = IF Fits(t, start, e) THEN e ELSE f[less3(e)]
    <3>1. e \in done <=> Fits(t, start, e)
      OBVIOUS
    <3>2. next[e] \in S /\ (e \notin done => next[e] = less3(e)) /\ same[e] = e
      BY <1>2
    <3>3. comb[<<e, f[next[e]]>>] = f[next[e]]
      <4> HIDE DEF S, next
      <4>1. <<e, f[next[e]]>> \in S \X S
        BY <2>1, <3>2
      <4> QED BY <4>1
    <3> HIDE DEF S, done, next, comb, same
    <3> QED BY <3>1, <3>2, <3>3
  <2> HIDE DEF S, done, next, comb, same
  <2> QED BY <2>1, <2>2
<1> DEFINE less == CHOOSE f : is(f)
<1>4. is(less)
  <2> HIDE DEF is
  <2> QED BY <1>3
<1>5. Fitting(t, start) = less[Window(t, start)]
  BY DEF Fitting, less3
<1> HIDE DEF less
<1> DEFINE P == {n \in 0 .. L : \A e \in S : e - start <= n => less[e] \in start + 1 .. e /\ Fits(t, start, less[e])}
<1>6. L \in P
  <2>1. 0 \in P
    OBVIOUS
  <2>2. ASSUME NEW n \in 0 .. L, n < L, n \in P PROVE n + 1 \in P
    <3>1. ASSUME NEW e \in S, e - start <= n + 1
          PROVE  less[e] \in start + 1 .. e /\ Fits(t, start, less[e])
      <4>1. less[e] = IF Fits(t, start, e) THEN e ELSE less[less3(e)]
        <5> HIDE DEF S
        <5> QED BY <1>4
      <4>2. CASE Fits(t, start, e)
        BY <4>1, <4>2
      <4>3. CASE ~Fits(t, start, e)
        <5>1. less3(e) \in S /\ less3(e) < e
          BY <1>1, <4>3
        <5>2. less3(e) - start <= n
          BY <3>1, <5>1
        <5>3. less[less3(e)] \in start + 1 .. less3(e) /\ Fits(t, start, less[less3(e)])
          BY <2>2, <5>1, <5>2
        <5> QED BY <4>1, <4>3, <5>1, <5>3
      <4> QED BY <4>2, <4>3
    <3>2. n + 1 \in 0 .. L
      BY <2>2
    <3> HIDE DEF S
    <3> QED BY <3>1, <3>2
  <2>3. L \in 0 .. L
    OBVIOUS
  <2> HIDE DEF P
  <2> QED BY <2>1, <2>2, <2>3, UpTo
<1>7. Window(t, start) \in S /\ Window(t, start) - start <= L
  BY WindowFacts
<1> QED BY <1>5, <1>6, <1>7

\* The bisection ends at the window's end or at a length that fits before one that does not.
LEMMA FilledFacts ==
  ASSUME NEW t, NEW L \in Nat, L = Len(t), NEW start \in Nat, start < L
  PROVE  /\ Filled(t, start) \in start + 1 .. Window(t, start) /\ Fits(t, start, Filled(t, start))
         /\ Filled(t, start) = Window(t, start) \/ ~Fits(t, start, Filled(t, start) + 1)
<1> DEFINE limits == start + 1 .. L
           S == limits \X limits
           mid(b) == (b[1] + b[2]) \div 2
           last(b) == IF Fits(t, start, b[2]) THEN b[2] ELSE b[1]
           half1(b) == IF Fits(t, start, mid(b)) THEN <<mid(b), b[2]>> ELSE <<b[1], mid(b)>>
           done == {b \in S : b[1] + 1 >= b[2]}
           size == [b \in S |-> IF b[1] <= b[2] THEN b[2] - b[1] ELSE 0]
           out == [b \in S |-> last(b)]
           next == [b \in S |-> IF b \in done THEN b ELSE half1(b)]
           comb == [c \in S \X limits |-> c[2]]
           is(f) == f = [b \in S |-> IF b[1] + 1 >= b[2] THEN last(b)
                                     ELSE LET m == (b[1] + b[2]) \div 2
                                          IN f[IF Fits(t, start, m) THEN <<m, b[2]>> ELSE <<b[1], m>>]]
<1>1. ASSUME NEW b \in S, b \notin done
      PROVE  /\ half1(b) \in S /\ half1(b)[1] <= half1(b)[2]
             /\ half1(b)[2] - half1(b)[1] < b[2] - b[1]
             /\ mid(b) \in limits /\ b[1] < mid(b) /\ mid(b) < b[2]
  <2>1. b[1] \in limits /\ b[2] \in limits /\ b[1] + 1 < b[2]
    BY <1>1
  <2>2. mid(b) \in limits /\ b[1] < mid(b) /\ mid(b) < b[2]
    BY <2>1
  <2> HIDE DEF mid
  <2>3. CASE Fits(t, start, mid(b))
    <3>1. half1(b) = <<mid(b), b[2]>>
      BY <2>3
    <3> HIDE DEF half1
    <3> QED BY <2>1, <2>2, <3>1
  <2>4. CASE ~Fits(t, start, mid(b))
    <3>1. half1(b) = <<b[1], mid(b)>>
      BY <2>4
    <3> HIDE DEF half1
    <3> QED BY <2>1, <2>2, <3>1
  <2> QED BY <2>3, <2>4
<1> HIDE DEF half1
<1>2. \A b \in S : b[1] \in limits /\ b[2] \in limits /\ last(b) \in limits
  OBVIOUS
<1> HIDE DEF last, mid
<1>3. Descends(S, limits, L, size, done, out, next, comb)
  <2>1. out \in [S -> limits] /\ comb \in [S \X limits -> limits]
    BY <1>2
  <2>2. size \in [S -> 0 .. L]
    <3>1. \A b \in S : (IF b[1] <= b[2] THEN b[2] - b[1] ELSE 0) \in 0 .. L
      BY <1>2
    <3> HIDE DEF S
    <3> QED BY <3>1
  <2>3. next \in [S -> S]
    <3> HIDE DEF S, done
    <3> QED BY <1>1
  <2>4. ASSUME NEW b \in S, b \notin done PROVE size[next[b]] < size[b]
    <3>1. next[b] = half1(b) /\ half1(b) \in S /\ half1(b)[1] <= half1(b)[2]
          /\ half1(b)[2] - half1(b)[1] < b[2] - b[1]
      BY <1>1, <2>4
    <3>2. b[1] <= b[2]
      BY <2>4, <1>2
    <3>3. size[next[b]] = half1(b)[2] - half1(b)[1] /\ size[b] = b[2] - b[1]
      <4> HIDE DEF next, S
      <4> QED BY <3>1, <3>2
    <3> QED BY <3>1, <3>3
  <2> HIDE DEF S, limits, size, done, out, next, comb
  <2> QED BY <2>1, <2>2, <2>3, <2>4 DEF Descends
<1>4. \E f : is(f)
  <2>1. PICK f \in [S -> limits] :
           \A b \in S : f[b] = IF b \in done THEN out[b] ELSE comb[<<b, f[next[b]]>>]
    <3> HIDE DEF S, limits, size, done, out, next, comb
    <3> QED BY <1>3, Recursion
  <2>2. ASSUME NEW b \in S
        PROVE  f[b] = IF b[1] + 1 >= b[2] THEN last(b) ELSE f[half1(b)]
    <3>1. (b \in done <=> b[1] + 1 >= b[2]) /\ out[b] = last(b)
      OBVIOUS
    <3>2. next[b] \in S /\ (b \notin done => next[b] = half1(b))
      BY <1>1
    <3>3. comb[<<b, f[next[b]]>>] = f[next[b]]
      <4>1. <<b, f[next[b]]>> \in S \X limits
        <5> HIDE DEF S, next, limits
        <5> QED BY <2>1, <3>2
      <4> HIDE DEF S, limits, next
      <4> QED BY <4>1
    <3> HIDE DEF S, limits, done, next, comb, out
    <3> QED BY <2>1, <3>1, <3>2, <3>3
  <2>3. \A b : half1(b) = (LET m == (b[1] + b[2]) \div 2
                           IN IF Fits(t, start, m) THEN <<m, b[2]>> ELSE <<b[1], m>>)
    BY DEF half1, mid
  <2> HIDE DEF S, limits
  <2> QED BY <2>1, <2>2, <2>3
<1> DEFINE half == CHOOSE f : is(f)
<1>5. is(half)
  <2> HIDE DEF is
  <2> QED BY <1>4
<1>6. Filled(t, start) = half[<<Fitting(t, start), Window(t, start)>>]
  BY DEF Filled, last
<1>7. \A b \in S : half[b] = IF b[1] + 1 >= b[2] THEN last(b) ELSE half[half1(b)]
  <2> HIDE DEF half, S
  <2> QED BY <1>5 DEF half1, mid
<1> HIDE DEF half, is
<1> DEFINE good(r, b) == /\ r \in b[1] .. b[2] /\ Fits(t, start, r)
                         /\ r = b[2] \/ ~Fits(t, start, r + 1)
           P == {n \in 0 .. L : \A b \in S : b[1] <= b[2] /\ b[2] - b[1] <= n /\ Fits(t, start, b[1])
                                               => good(half[b], b)}
<1>8. ASSUME NEW b \in S, b[1] <= b[2], b[1] + 1 >= b[2], Fits(t, start, b[1])
      PROVE  good(half[b], b)
  <2>1. half[b] = last(b)
    BY <1>7, <1>8
  <2>2. b[1] \in limits /\ b[2] \in limits /\ (b[2] = b[1] \/ b[2] = b[1] + 1)
    BY <1>2, <1>8
  <2> HIDE DEF S
  <2> QED BY <1>8, <2>1, <2>2 DEF last
<1>9. L \in P
  <2>1. 0 \in P
    <3>1. ASSUME NEW b \in S, b[1] <= b[2], b[2] - b[1] <= 0, Fits(t, start, b[1])
          PROVE  good(half[b], b)
      <4>1. b[1] + 1 >= b[2]
        BY <1>2, <3>1
      <4> HIDE DEF good, S
      <4> QED BY <1>8, <3>1, <4>1
    <3> HIDE DEF good, S
    <3> QED BY <3>1
  <2>2. ASSUME NEW n \in 0 .. L, n < L, n \in P PROVE n + 1 \in P
    <3>1. ASSUME NEW b \in S, b[1] <= b[2], b[2] - b[1] <= n + 1, Fits(t, start, b[1])
          PROVE  good(half[b], b)
      <4>1. CASE b[1] + 1 >= b[2]
        <5> HIDE DEF good, S
        <5> QED BY <1>8, <3>1, <4>1
      <4>2. CASE ~(b[1] + 1 >= b[2])
        <5>1. b \notin done
          BY <4>2
        <5> DEFINE c == half1(b)
        <5>2. /\ c \in S /\ c[1] <= c[2] /\ c[2] - c[1] < b[2] - b[1]
              /\ mid(b) \in limits /\ b[1] < mid(b) /\ mid(b) < b[2]
          <6> HIDE DEF S, limits, done
          <6> QED BY <1>1, <5>1
        <5>3. c = IF Fits(t, start, mid(b)) THEN <<mid(b), b[2]>> ELSE <<b[1], mid(b)>>
          BY DEF half1
        <5>4. half[b] = half[c]
          <6> HIDE DEF S
          <6> QED BY <1>7, <4>2
        <5> HIDE DEF c
        <5>5. c[1] \in limits /\ c[2] \in limits /\ b[1] \in limits /\ b[2] \in limits
          BY <1>2, <5>2
        <5>6. Fits(t, start, c[1])
          BY <3>1, <5>3
        <5>7. good(half[c], c)
          <6>1. c[2] - c[1] <= n
            BY <3>1, <5>2, <5>5
          <6> HIDE DEF S, good
          <6> QED BY <2>2, <5>2, <5>6, <6>1
        <5>8. CASE Fits(t, start, mid(b))
          <6>1. c[1] = mid(b) /\ c[2] = b[2]
            BY <5>3, <5>8
          <6> HIDE DEF S
          <6> QED BY <5>2, <5>4, <5>5, <5>7, <6>1
        <5>9. CASE ~Fits(t, start, mid(b))
          <6>1. c[1] = b[1] /\ c[2] = mid(b)
            BY <5>3, <5>9
          <6> HIDE DEF S
          <6> QED BY <5>2, <5>4, <5>5, <5>7, <5>9, <6>1
        <5> QED BY <5>8, <5>9
      <4> QED BY <4>1, <4>2
    <3>2. n + 1 \in 0 .. L
      BY <2>2
    <3> HIDE DEF S, good
    <3> QED BY <3>1, <3>2
  <2>3. L \in 0 .. L
    OBVIOUS
  <2> HIDE DEF P
  <2> QED BY <2>1, <2>2, <2>3, UpTo
<1> DEFINE whole == <<Fitting(t, start), Window(t, start)>>
<1>10. /\ Fitting(t, start) \in start + 1 .. Window(t, start) /\ Fits(t, start, Fitting(t, start))
       /\ Window(t, start) \in start + 1 .. L
  BY FittingFacts, WindowFacts
<1>11. /\ whole \in S /\ whole[1] = Fitting(t, start) /\ whole[2] = Window(t, start)
       /\ whole[1] <= whole[2] /\ whole[2] - whole[1] <= L
  BY <1>10
<1> HIDE DEF whole
<1>12. good(half[whole], whole)
  <2> HIDE DEF S, good
  <2> QED BY <1>9, <1>10, <1>11
<1>13. Filled(t, start) = half[whole]
  BY <1>6 DEF whole
<1> HIDE DEF S
<1> QED BY <1>10, <1>11, <1>12, <1>13

\* A slice is not longer than the target, nor shorter than half of it before the end of the
\* text: a window is enough for that, and so is what the last boundary leaves.
LEMMA EndFacts ==
  ASSUME NEW t, NEW L \in Nat, L = Len(t), DOMAIN t = 1 .. L, NEW start \in Nat, start < L
  PROVE  /\ SliceEnd(t, start) \in start + 1 .. L /\ Fits(t, start, SliceEnd(t, start))
         /\ SliceEnd(t, start) # L => Tokens(t, start, SliceEnd(t, start)) >= TargetTokens \div 2
         /\ \/ SliceEnd(t, start) = Filled(t, start)
            \/ Tokens(t, start, SliceEnd(t, start)) >= TargetTokens \div 2
<1> DEFINE full == Filled(t, start)
           before == {k \in Boundaries(t) : k <= full /\ k > start}
           end == SliceEnd(t, start)
           half == TargetTokens \div 2
           T(k) == Tokens(t, start, k)
<1>1. /\ full \in start + 1 .. Window(t, start) /\ Fits(t, start, full)
      /\ full = Window(t, start) \/ ~Fits(t, start, full + 1)
  BY FilledFacts
<1>2. /\ Window(t, start) \in start + 1 .. L
      /\ Window(t, start) = L \/ Window(t, start) = start + WindowSize
  BY WindowFacts
<1>3. end = IF full = L \/ before = {} \/ T(Max(before)) < half THEN full ELSE Max(before)
  BY DEF SliceEnd
<1>4. before \in SUBSET (0 .. L) /\ \A k \in before : k \in start + 1 .. full
  <2>1. Boundaries(t) \subseteq 1 .. L
    BY DEF Boundaries
  <2>2. full \in Nat
    BY <1>1, <1>2
  <2> HIDE DEF full
  <2> QED BY <2>1, <2>2
<1> HIDE DEF full, before, end, half
<1>5. full \in start + 1 .. L
  BY <1>1, <1>2
<1>6. ASSUME NEW k \in start .. L PROVE T(k) \in Nat
  <2>1. k \in Nat /\ start <= k
    OBVIOUS
  <2> QED BY <2>1, TokensStep
<1>7. full # L => T(full) >= half
  <2>1. SUFFICES ASSUME full # L PROVE T(full) >= half
    OBVIOUS
  <2>2. CASE full = Window(t, start)
    <3>1. full = start + WindowSize
      BY <1>2, <2>1, <2>2
    <3>2. 2 * T(full) >= full - start
      BY <1>5, TokensGrow
    <3>3. T(full) \in Nat /\ full - start = WindowSize
      BY <1>5, <1>6, <3>1, TargetFacts
    <3> HIDE DEF T
    <3> QED BY <3>2, <3>3, TargetFacts DEF half
  <2>3. CASE ~Fits(t, start, full + 1)
    <3>1. full + 1 \in start .. L /\ full \in start .. L /\ full \in Nat /\ start <= full
      BY <1>5, <2>1
    <3>2. ~(T(full + 1) <= TargetTokens)
      BY <2>3 DEF Fits
    <3>3. T(full + 1) = T(full) + (IF Begins(t, start, full + 1) THEN 1 ELSE 0)
                                + (IF t[full + 1] = "wide" THEN 1 ELSE 0)
      BY <3>1, TokensStep
    <3>4. T(full + 1) \in Nat /\ T(full) \in Nat
      BY <1>6, <3>1
    <3> HIDE DEF T
    <3>5. T(full + 1) <= T(full) + 2
      BY <3>3, <3>4
    <3> QED BY <3>2, <3>4, <3>5, TargetFacts DEF half
  <2> QED BY <1>1, <2>2, <2>3
<1>8. CASE end = full
  BY <1>1, <1>5, <1>7, <1>8 DEF end, full, half, T
<1>9. CASE end # full
  <2>1. before # {} /\ ~(T(Max(before)) < half) /\ end = Max(before)
    BY <1>3, <1>9
  <2>2. Max(before) \in before
    BY <1>4, <2>1, MaxFacts
  <2>3. end \in start + 1 .. full
    BY <1>4, <2>1, <2>2
  <2>4. T(end) >= half
    <3>1. T(end) \in Nat /\ half \in Nat
      BY <1>5, <1>6, <2>3, TargetFacts DEF half
    <3> HIDE DEF T
    <3> QED BY <2>1, <3>1
  <2>5. Fits(t, start, end)
    <3>1. T(end) <= T(full)
      BY <1>5, <2>3, TokensGrow
    <3>2. T(end) \in Nat /\ T(full) \in Nat /\ T(full) <= TargetTokens
      BY <1>1, <1>5, <1>6, <2>3 DEF Fits
    <3>3. T(end) <= TargetTokens
      <4> HIDE DEF T
      <4> QED BY <3>1, <3>2, TargetFacts
    <3> QED BY <3>3 DEF Fits
  <2>6. end \in start + 1 .. L
    BY <1>5, <2>3
  <2> QED BY <2>4, <2>5, <2>6 DEF end, half, T
<1> QED BY <1>8, <1>9

\* The next slice starts in what two slices may share, and ends behind the one before.
LEMMA NextFacts ==
  ASSUME NEW t, NEW L \in Nat, L = Len(t), DOMAIN t = 1 .. L, NEW start \in Nat,
         NEW end \in start + 1 .. L, end # L
  PROVE  /\ NextStart(t, start, end) \in start + 1 .. end
         /\ NextStart(t, start, end) < end => Tokens(t, NextStart(t, start, end), end) <= OverlapTokens
         /\ SliceEnd(t, NextStart(t, start, end)) > end
<1> DEFINE behind == {o \in start + 1 .. end : \A p \in o .. end - 1 : Tokens(t, p, end) <= OverlapTokens}
           back == Min(behind)
           inside == {k \in Boundaries(t) : k >= back /\ k < end}
           next == NextStart(t, start, end)
<1>1. behind \in SUBSET (0 .. L) /\ end \in behind
  OBVIOUS
<1>2. back \in behind
  <2> HIDE DEF behind
  <2> QED BY <1>1, MinFacts
<1>3. next = IF inside = {} THEN back ELSE Min(inside)
  BY DEF NextStart
<1> HIDE DEF back, next
<1>4. next \in back .. end
  <2>1. inside \in SUBSET (0 .. L)
    <3>1. Boundaries(t) \subseteq 1 .. L
      BY DEF Boundaries
    <3> QED BY <3>1
  <2>2. inside # {} => Min(inside) \in inside
    <3> HIDE DEF inside
    <3> QED BY <2>1, MinFacts
  <2>3. inside # {} => Min(inside) \in back .. end
    <3>1. \A k \in inside : k \in back .. end
      <4>1. \A k \in inside : k \in 1 .. L
        BY DEF Boundaries
      <4> QED BY <1>2, <4>1
    <3> HIDE DEF inside
    <3> QED BY <2>2, <3>1
  <2> QED BY <1>2, <1>3, <2>3
<1>5. next \in start + 1 .. end /\ (next < end => Tokens(t, next, end) <= OverlapTokens)
  BY <1>2, <1>4
<1>6. next \in Nat /\ next < L /\ next <= end /\ end \in Nat
  BY <1>5
<1> DEFINE then == SliceEnd(t, next)
           full == Filled(t, next)
           T(k) == Tokens(t, next, k)
<1>7. /\ then \in next + 1 .. L
      /\ then = full \/ T(then) >= TargetTokens \div 2
  BY <1>6, EndFacts
<1>8. /\ full \in next + 1 .. Window(t, next)
      /\ full = Window(t, next) \/ ~Fits(t, next, full + 1)
  BY <1>6, FilledFacts
<1>9. /\ Window(t, next) \in next + 1 .. L
      /\ Window(t, next) = L \/ Window(t, next) = next + WindowSize
  BY <1>6, WindowFacts
<1>10. ASSUME NEW k \in next .. L PROVE T(k) \in Nat
  <2>1. k \in Nat /\ next <= k
    BY <1>6
  <2> QED BY <1>6, <2>1, TokensStep
<1>11. \A j, k \in next .. L : j <= k => T(j) <= T(k)
  BY <1>6, TokensGrow
<1>12. T(end + 1) <= T(end) + 2
  <2>1. T(end + 1) = T(end) + (IF Begins(t, next, end + 1) THEN 1 ELSE 0)
                            + (IF t[end + 1] = "wide" THEN 1 ELSE 0)
    BY <1>6, TokensStep
  <2>2. T(end) \in Nat
    BY <1>6, <1>10
  <2> HIDE DEF T
  <2> QED BY <2>1, <2>2
<1>13. WindowSize <= end - next => T(end) >= TargetTokens \div 2
  <2>1. T(end) \in Nat
    BY <1>6, <1>10
  <2>2. 2 * T(end) >= end - next
    BY <1>6, TokensGrow
  <2> HIDE DEF T
  <2> QED BY <1>6, <2>1, <2>2, TargetFacts
<1> HIDE DEF then, full, T
<1>14. ASSUME next < end, then <= end PROVE FALSE
  <2>1. T(end) <= OverlapTokens
    BY <1>5, <1>14 DEF T
  <2>2. T(end) \in Nat /\ T(end + 1) \in Nat /\ T(end + 1) <= TargetTokens
    <3>1. end \in next .. L /\ end + 1 \in next .. L
      BY <1>6
    <3>2. T(end) \in Nat /\ T(end + 1) \in Nat
      BY <1>10, <3>1
    <3> QED BY <1>12, <2>1, <3>2, TargetFacts
  <2>3. ~(T(then) >= TargetTokens \div 2)
    <3>1. T(then) \in Nat /\ T(then) <= T(end)
      BY <1>6, <1>7, <1>10, <1>11, <1>14
    <3> QED BY <2>1, <2>2, <3>1, TargetFacts
  <2>4. then = full /\ full <= end
    BY <1>7, <1>14, <2>3
  <2>5. full # Window(t, next)
    <3>1. SUFFICES ASSUME full = Window(t, next) PROVE FALSE
      OBVIOUS
    <3>2. full = next + WindowSize
      BY <1>6, <1>9, <2>4, <3>1
    <3>3. T(end) >= TargetTokens \div 2
      BY <1>6, <1>13, <2>4, <3>2, TargetFacts
    <3> QED BY <2>1, <2>2, <3>3, TargetFacts
  <2>6. ~(T(full + 1) <= TargetTokens)
    BY <1>8, <2>5 DEF Fits, T
  <2>7. full + 1 \in next .. L /\ end + 1 \in next .. L /\ full + 1 <= end + 1
    BY <1>6, <1>7, <2>4
  <2>8. T(full + 1) \in Nat /\ T(full + 1) <= T(end + 1)
    BY <1>10, <1>11, <2>7
  <2> QED BY <2>2, <2>6, <2>8, TargetFacts
<1>15. then > end
  <2>1. CASE next = end
    BY <1>6, <1>7, <2>1
  <2>2. CASE next # end
    BY <1>6, <1>7, <1>14, <2>2
  <2> QED BY <2>1, <2>2
<1> QED BY <1>5, <1>15 DEF next, then

-----------------------------------------------------------------------------
\* The slices for the retrieval index

\* Pairs of offsets into a text of a length.
Offsets(L) == [start : 0 .. L, end : 0 .. L]

\* What is sliced from a place on, given what is sliced from each later place on.
SlicedFrom(t, f, s) ==
  LET end == SliceEnd(t, s)
  IN CASE s = Len(t) -> <<>>
       [] s # Len(t) /\ ~HasText(t, s, end) -> f[end]
       [] s # Len(t) /\ HasText(t, s, end) /\ end = Len(t) -> <<Slice(s, end)>>
       [] OTHER -> <<Slice(s, end)>> \o f[NextStart(t, s, end)]

\* The loop over the slices ends, as the next slice always starts further on.
LEMMA LoopFacts ==
  ASSUME NEW t, NEW L \in Nat, L = Len(t), DOMAIN t = 1 .. L
  PROVE  \E f \in [0 .. L -> Seq(Offsets(L))] :
           /\ \A s \in 0 .. L : f[s] = SlicedFrom(t, f, s)
           /\ RetrievalSlices(t) = IF HasText(t, 0, L) THEN f[0] ELSE <<>>
<1> DEFINE S == 0 .. L
           V == Seq(Offsets(L))
           E(s) == SliceEnd(t, s)
           N(s) == NextStart(t, s, E(s))
           one(s) == <<Slice(s, E(s))>>
           blank(s) == ~HasText(t, s, E(s))
           body(f, s) == IF s = L THEN <<>>
                         ELSE IF blank(s) THEN f[E(s)]
                         ELSE one(s) \o (IF E(s) = L THEN <<>> ELSE f[N(s)])
           done == {s \in S : s = L \/ (~blank(s) /\ E(s) = L)}
           size == [s \in S |-> L - s]
           out == [s \in S |-> IF s = L THEN <<>> ELSE one(s)]
           next == [s \in S |-> IF s \in done THEN s ELSE IF blank(s) THEN E(s) ELSE N(s)]
           comb == [c \in S \X V |-> IF c[1] = L \/ blank(c[1]) THEN c[2] ELSE one(c[1]) \o c[2]]
           is(f) == f = [s \in S |-> body(f, s)]
<1>1. ASSUME NEW s \in S, s # L PROVE E(s) \in s + 1 .. L
  <2>1. s \in Nat /\ s < L
    BY <1>1
  <2> QED BY <2>1, EndFacts
<1>2. ASSUME NEW s \in S, s # L PROVE one(s) \in V
  <2>1. Slice(s, E(s)) \in Offsets(L)
    <3>1. s \in 0 .. L /\ E(s) \in 0 .. L
      BY <1>1, <1>2
    <3> HIDE DEF E
    <3> QED BY <3>1 DEF Slice, Offsets
  <2> QED BY <2>1
<1>3. ASSUME NEW s \in S, s # L, E(s) # L PROVE N(s) \in s + 1 .. L
  <2>1. s \in Nat /\ E(s) \in s + 1 .. L
    BY <1>1, <1>3
  <2>2. N(s) \in s + 1 .. E(s)
    BY <1>3, <2>1, NextFacts
  <2> QED BY <2>1, <2>2
<1>4. <<>> \in V
  OBVIOUS
<1> HIDE DEF E, N, one, blank
<1>5. Descends(S, V, L, size, done, out, next, comb)
  <2>1. size \in [S -> 0 .. L]
    OBVIOUS
  <2>2. out \in [S -> V]
    <3> HIDE DEF V
    <3> QED BY <1>2, <1>4
  <2>3. next \in [S -> S]
    <3>1. ASSUME NEW s \in S
          PROVE  (IF s \in done THEN s ELSE IF blank(s) THEN E(s) ELSE N(s)) \in S
      BY <1>1, <1>3
    <3> HIDE DEF S, done
    <3> QED BY <3>1
  <2>4. comb \in [S \X V -> V]
    <3>1. ASSUME NEW c \in S \X V
          PROVE  (IF c[1] = L \/ blank(c[1]) THEN c[2] ELSE one(c[1]) \o c[2]) \in V
      <4>1. c[1] \in S /\ c[2] \in V
        OBVIOUS
      <4>2. c[1] # L => one(c[1]) \in V
        BY <1>2, <4>1
      <4> QED BY <4>1, <4>2
    <3> HIDE DEF S, V
    <3> QED BY <3>1
  <2>5. ASSUME NEW s \in S, s \notin done PROVE size[next[s]] < size[s]
    <3>1. next[s] = IF blank(s) THEN E(s) ELSE N(s)
      BY <2>5
    <3>2. s # L /\ (blank(s) \/ E(s) # L)
      BY <2>5
    <3>3. next[s] \in s + 1 .. L
      <4> HIDE DEF next
      <4> QED BY <1>1, <1>3, <3>1, <3>2
    <3> HIDE DEF next
    <3> QED BY <3>3
  <2> HIDE DEF S, V, size, done, out, next, comb
  <2> QED BY <2>1, <2>2, <2>3, <2>4, <2>5 DEF Descends
<1>6. PICK g \in [S -> V] :
         \A s \in S : g[s] = IF s \in done THEN out[s] ELSE comb[<<s, g[next[s]]>>]
  <2> HIDE DEF S, V, size, done, out, next, comb
  <2> QED BY <1>5, Recursion
<1>7. is(g)
  <2>1. ASSUME NEW s \in S PROVE g[s] = body(g, s)
    <3>1. CASE s = L
      BY <1>6, <3>1
    <3>2. CASE s # L /\ s \in done
      <4>1. ~blank(s) /\ E(s) = L /\ out[s] = one(s)
        BY <3>2
      <4>2. one(s) \o <<>> = one(s)
        BY <1>2, <3>2
      <4> HIDE DEF S, V, done, out, comb, next
      <4> QED BY <1>6, <3>2, <4>1, <4>2
    <3>3. CASE s # L /\ s \notin done
      <4>1. next[s] = IF blank(s) THEN E(s) ELSE N(s)
        BY <3>3
      <4>2. next[s] \in S /\ (~blank(s) => E(s) # L)
        <5>1. ~blank(s) => E(s) # L
          BY <3>3
        <5> HIDE DEF next
        <5> QED BY <1>1, <1>3, <3>3, <4>1, <5>1
      <4>3. comb[<<s, g[next[s]]>>] = IF blank(s) THEN g[next[s]] ELSE one(s) \o g[next[s]]
        <5>1. <<s, g[next[s]]>> \in S \X V
          <6> HIDE DEF S, V, next
          <6> QED BY <1>6, <4>2
        <5> HIDE DEF S, V, next
        <5> QED BY <3>3, <5>1
      <4> HIDE DEF S, V, done, out, comb, next
      <4> QED BY <1>6, <3>3, <4>1, <4>2, <4>3
    <3> QED BY <3>1, <3>2, <3>3
  <2> HIDE DEF body, S, V
  <2> QED BY <1>6, <2>1
<1> DEFINE from == CHOOSE f : is(f)
<1>8. is(from)
  <2> HIDE DEF is
  <2> QED BY <1>7
<1>9. RetrievalSlices(t) = IF HasText(t, 0, L) THEN from[0] ELSE <<>>
  BY DEF RetrievalSlices, E, N, one, blank
<1>10. from \in [S -> V]
  <2> HIDE DEF V
  <2> DEFINE P == {n \in 0 .. L : \A s \in S : L - s <= n => from[s] \in V}
  <2>1. ASSUME NEW s \in S
        PROVE  from[s] = body(from, s)
    <3> HIDE DEF body, from
    <3> QED BY <1>8
  <2>2. 0 \in P
    <3>1. from[L] = <<>>
      <4> HIDE DEF from
      <4> QED BY <2>1
    <3> HIDE DEF from
    <3> QED BY <1>4, <3>1
  <2>3. ASSUME NEW n \in 0 .. L, n < L, n \in P PROVE n + 1 \in P
    <3> HIDE DEF from
    <3>1. ASSUME NEW s \in S, L - s <= n + 1 PROVE from[s] \in V
      <4>1. CASE s = L
        BY <1>4, <2>1, <4>1
      <4>2. CASE s # L /\ blank(s)
        <5>1. E(s) \in S /\ L - E(s) <= n
          BY <1>1, <3>1, <4>2
        <5> QED BY <2>1, <2>3, <4>2, <5>1
      <4>3. CASE s # L /\ ~blank(s) /\ E(s) = L
        <5>1. from[s] = one(s) \o <<>>
          BY <2>1, <4>3
        <5>2. one(s) \in V
          BY <1>2, <4>3
        <5> QED BY <5>1, <5>2 DEF V
      <4>4. CASE s # L /\ ~blank(s) /\ E(s) # L
        <5>1. N(s) \in S /\ L - N(s) <= n
          BY <1>3, <3>1, <4>4
        <5>2. from[s] = one(s) \o from[N(s)]
          BY <2>1, <4>4
        <5>3. one(s) \in V /\ from[N(s)] \in V
          BY <1>2, <2>3, <4>4, <5>1
        <5> QED BY <5>2, <5>3 DEF V
      <4> QED BY <4>1, <4>2, <4>3, <4>4
    <3>2. n + 1 \in 0 .. L
      BY <2>3
    <3> QED BY <3>1, <3>2
  <2>4. L \in P
    <3>1. L \in 0 .. L
      OBVIOUS
    <3> HIDE DEF P
    <3> QED BY <2>2, <2>3, <3>1, UpTo
  <2>5. \A s \in S : from[s] \in V
    <3>1. \A s \in S : L - s <= L
      OBVIOUS
    <3> HIDE DEF from
    <3> QED BY <2>4, <3>1
  <2>6. from = [s \in S |-> from[s]]
    <3>1. from = [s \in S |-> body(from, s)]
      BY <1>8
    <3> HIDE DEF from, body
    <3> QED BY <3>1
  <2> HIDE DEF from, S
  <2> QED BY <2>5, <2>6
<1> HIDE DEF from
<1>11. ASSUME NEW s \in S PROVE from[s] = SlicedFrom(t, from, s)
  <2>1. from[s] = body(from, s)
    BY <1>8
  <2>2. s # L => one(s) \o <<>> = one(s)
    BY <1>2
  <2> QED BY <2>1, <2>2 DEF SlicedFrom, E, N, one, blank
<1> HIDE DEF S, V, is
<1> QED BY <1>9, <1>10, <1>11 DEF S, V

\* What holds of the slices from a place on: each fits, they come in order and share no
\* more than the overlap, all but the last have half a target, no word behind the place is
\* missing, and the first does not end before the one that is cut there.
Sliced(t, L, s, q) ==
  /\ \A n \in 1 .. Len(q) : q[n].start < q[n].end /\ Fits(t, q[n].start, q[n].end)
  /\ \A n \in 2 .. Len(q) : q[n - 1].start < q[n].start /\ q[n - 1].end < q[n].end
  /\ \A n \in 1 .. Len(q) - 1 : Tokens(t, q[n].start, q[n].end) >= TargetTokens \div 2
  /\ \A n \in 2 .. Len(q) :
       q[n].start < q[n - 1].end => Tokens(t, q[n].start, q[n - 1].end) <= OverlapTokens
  /\ \A k \in s + 1 .. L : t[k] \notin Blank =>
       \E n \in 1 .. Len(q) : q[n].start < k /\ k <= q[n].end
  /\ q # <<>> =>
       /\ s # L /\ q[1].end >= SliceEnd(t, s)
       /\ q[1].start = s \/ q[1].start >= SliceEnd(t, s)

\* A slice of words in front of those from where the next one starts.
LEMMA SliceInFront ==
  ASSUME NEW t, NEW L \in Nat, L = Len(t), DOMAIN t = 1 .. L, NEW s \in 0 .. L, s # L,
         NEW end, end = SliceEnd(t, s), end # L, NEW w \in Seq(Offsets(L)),
         Sliced(t, L, NextStart(t, s, end), w)
  PROVE  Sliced(t, L, s, <<Slice(s, end)>> \o w)
<1> DEFINE N == NextStart(t, s, end)
           q == <<Slice(s, end)>> \o w
           half == TargetTokens \div 2
<1>1. /\ end \in s + 1 .. L /\ Fits(t, s, end) /\ Tokens(t, s, end) >= half
      /\ s \in Nat /\ s < L
  <2>1. s \in Nat /\ s < L
    OBVIOUS
  <2> QED BY <2>1, EndFacts
<1>2. /\ N \in s + 1 .. end /\ (N < end => Tokens(t, N, end) <= OverlapTokens)
      /\ SliceEnd(t, N) > end
  BY <1>1, NextFacts
<1> HIDE DEF N, half
<1>3. Sliced(t, L, N, w)
  BY DEF N
<1>4. SliceEnd(t, N) \in 0 .. L
  <2>1. N \in Nat /\ N < L
    BY <1>1, <1>2
  <2>2. SliceEnd(t, N) \in N + 1 .. L
    BY <2>1, EndFacts
  <2> QED BY <2>1, <2>2
<1>5. /\ Len(w) \in Nat /\ \A n \in 1 .. Len(w) : w[n].start \in 0 .. L /\ w[n].end \in 0 .. L
  <2>1. \A n \in 1 .. Len(w) : w[n] \in Offsets(L)
    OBVIOUS
  <2> QED BY <2>1 DEF Offsets
<1>6. /\ Len(q) = Len(w) + 1 /\ q[1] = Slice(s, end) /\ q # <<>>
      /\ \A n \in 1 .. Len(w) : q[n + 1] = w[n]
  <2> HIDE DEF Slice
  <2> QED BY DEF Offsets
<1>7. q[1].start = s /\ q[1].end = end
  <2> HIDE DEF q
  <2> QED BY <1>6 DEF Slice
<1> HIDE DEF q
<1>8. \A n \in 2 .. Len(q) : n - 1 \in 1 .. Len(w) /\ q[n] = w[n - 1]
  <2> TAKE n \in 2 .. Len(q)
  <2>1. n - 1 \in 1 .. Len(w) /\ (n - 1) + 1 = n
    BY <1>5, <1>6
  <2> QED BY <1>6, <2>1
<1>9. Len(w) > 0 => /\ w[1].start > s /\ w[1].end > end
                    /\ w[1].start < end => Tokens(t, w[1].start, end) <= OverlapTokens
  <2>1. SUFFICES ASSUME Len(w) > 0
                 PROVE  /\ w[1].start > s /\ w[1].end > end
                        /\ w[1].start < end => Tokens(t, w[1].start, end) <= OverlapTokens
    OBVIOUS
  <2>2. /\ w[1].end >= SliceEnd(t, N)
        /\ w[1].start = N \/ w[1].start >= SliceEnd(t, N)
    BY <1>3, <2>1 DEF Sliced
  <2>3. w[1].start \in 0 .. L /\ w[1].end \in 0 .. L
    BY <1>5, <2>1
  <2>4. w[1].start < end => w[1].start = N
    BY <1>1, <1>2, <1>4, <2>2, <2>3
  <2>5. w[1].start > s /\ w[1].end > end
    BY <1>1, <1>2, <1>4, <2>2, <2>3
  <2> QED BY <1>2, <2>4, <2>5
<1>10. ASSUME NEW n \in 1 .. Len(q)
       PROVE  q[n].start < q[n].end /\ Fits(t, q[n].start, q[n].end)
  <2>1. CASE n = 1
    BY <1>1, <1>7, <2>1
  <2>2. CASE n # 1
    <3>1. n \in 2 .. Len(q)
      BY <1>5, <1>6, <2>2
    <3> QED BY <1>3, <1>8, <3>1 DEF Sliced
  <2> QED BY <2>1, <2>2
<1>11. ASSUME NEW n \in 2 .. Len(q)
       PROVE  /\ q[n - 1].start < q[n].start /\ q[n - 1].end < q[n].end
              /\ q[n].start < q[n - 1].end => Tokens(t, q[n].start, q[n - 1].end) <= OverlapTokens
  <2>1. n - 1 \in 1 .. Len(w) /\ q[n] = w[n - 1]
    BY <1>8
  <2>2. CASE n = 2
    <3>1. q[n - 1].start = s /\ q[n - 1].end = end /\ q[n] = w[1] /\ Len(w) > 0
      BY <1>5, <1>7, <2>1, <2>2
    <3> QED BY <1>9, <3>1
  <2>3. CASE n # 2
    <3>1. n - 1 \in 2 .. Len(q) /\ n - 1 \in 2 .. Len(w)
      BY <1>5, <1>6, <2>3
    <3>2. q[n - 1] = w[(n - 1) - 1]
      BY <1>8, <3>1
    <3> QED BY <1>3, <2>1, <3>1, <3>2 DEF Sliced
  <2> QED BY <2>2, <2>3
<1>12. ASSUME NEW n \in 1 .. Len(q) - 1
       PROVE  Tokens(t, q[n].start, q[n].end) >= half
  <2>1. CASE n = 1
    BY <1>1, <1>7, <2>1
  <2>2. CASE n # 1
    <3>1. n \in 2 .. Len(q) /\ n - 1 \in 1 .. Len(w) - 1
      BY <1>5, <1>6, <2>2
    <3> QED BY <1>3, <1>8, <3>1 DEF Sliced, half
  <2> QED BY <2>1, <2>2
<1>13. ASSUME NEW k \in s + 1 .. L, t[k] \notin Blank
       PROVE  \E n \in 1 .. Len(q) : q[n].start < k /\ k <= q[n].end
  <2>1. CASE k <= end
    <3>1. 1 \in 1 .. Len(q)
      BY <1>5, <1>6
    <3>2. s < k
      BY <1>1
    <3> QED BY <1>7, <2>1, <3>1, <3>2
  <2>2. CASE ~(k <= end)
    <3>1. k \in N + 1 .. L
      BY <1>1, <1>2, <2>2
    <3>2. PICK n \in 1 .. Len(w) : w[n].start < k /\ k <= w[n].end
      BY <1>3, <1>13, <3>1 DEF Sliced
    <3>3. n + 1 \in 1 .. Len(q) /\ q[n + 1] = w[n]
      BY <1>5, <1>6
    <3> QED BY <3>2, <3>3
  <2> QED BY <2>1, <2>2
<1>14. s # L /\ q[1].end >= SliceEnd(t, s) /\ (q[1].start = s \/ q[1].start >= SliceEnd(t, s))
  BY <1>1, <1>7
<1>15. Sliced(t, L, s, q)
  BY <1>10, <1>11, <1>12, <1>13, <1>14 DEF Sliced, half
<1> QED BY <1>15 DEF q

\* However the loop cuts, its slices hold this from every place on.
LEMMA SlicedFacts ==
  ASSUME NEW t, NEW L \in Nat, L = Len(t), DOMAIN t = 1 .. L,
         NEW f \in [0 .. L -> Seq(Offsets(L))], \A s \in 0 .. L : f[s] = SlicedFrom(t, f, s)
  PROVE  Sliced(t, L, 0, f[0])
<1> DEFINE S == 0 .. L
           P == {n \in 0 .. L : \A s \in S : L - s <= n => Sliced(t, L, s, f[s])}
<1>1. f[L] = <<>>
  <2>1. L \in 0 .. L
    OBVIOUS
  <2>2. f[L] = SlicedFrom(t, f, L)
    BY <2>1
  <2> QED BY <2>2 DEF SlicedFrom
<1>2. Sliced(t, L, L, f[L])
  BY <1>1 DEF Sliced
<1>3. 0 \in P
  <2>1. \A s \in S : L - s <= 0 => s = L
    OBVIOUS
  <2> QED BY <1>2, <2>1
<1>4. ASSUME NEW n \in 0 .. L, n < L, n \in P PROVE n + 1 \in P
  <2>1. ASSUME NEW s \in S, L - s <= n + 1 PROVE Sliced(t, L, s, f[s])
    <3>1. CASE s = L
      BY <1>2, <3>1
    <3>2. CASE s # L
      <4> DEFINE end == SliceEnd(t, s)
      <4>1. s \in Nat /\ s < L
        BY <3>2
      <4>2. end \in s + 1 .. L /\ Fits(t, s, end)
        BY <4>1, EndFacts
      <4>3. f[s] = SlicedFrom(t, f, s)
        OBVIOUS
      <4> HIDE DEF end
      <4>4. CASE ~HasText(t, s, end)
        <5>1. f[s] = f[end]
          BY <3>2, <4>3, <4>4 DEF SlicedFrom, end
        <5>2. Sliced(t, L, end, f[end])
          BY <1>4, <2>1, <4>2
        <5>3. \A k \in s + 1 .. end : t[k] \in Blank
          BY <4>4 DEF HasText
        <5>4. \A k \in s + 1 .. L : t[k] \notin Blank => k \in end + 1 .. L
          BY <4>2, <5>3
        <5>5. f[end] # <<>> => f[end][1].end >= end /\ f[end][1].start >= end
          <6>1. SUFFICES ASSUME f[end] # <<>>
                         PROVE  f[end][1].end >= end /\ f[end][1].start >= end
            OBVIOUS
          <6>2. /\ end # L /\ f[end][1].end >= SliceEnd(t, end)
                /\ f[end][1].start = end \/ f[end][1].start >= SliceEnd(t, end)
            BY <5>2, <6>1 DEF Sliced
          <6>3. SliceEnd(t, end) \in end + 1 .. L
            <7>1. end \in Nat /\ end < L
              BY <4>2, <6>2
            <7> QED BY <7>1, EndFacts
          <6>4. f[end][1].start \in 0 .. L /\ f[end][1].end \in 0 .. L
            <7>1. f[end] \in Seq(Offsets(L))
              BY <4>2
            <7>2. f[end][1] \in Offsets(L)
              BY <6>1, <7>1
            <7> QED BY <7>2 DEF Offsets
          <6> QED BY <4>2, <6>2, <6>3, <6>4
        <5> QED BY <3>2, <5>1, <5>2, <5>4, <5>5 DEF Sliced, end
      <4>5. CASE HasText(t, s, end) /\ end = L
        <5>1. f[s] = <<Slice(s, end)>>
          BY <3>2, <4>3, <4>5 DEF SlicedFrom, end
        <5>2. Len(f[s]) = 1 /\ f[s][1].start = s /\ f[s][1].end = end
          BY <5>1 DEF Slice
        <5> QED BY <3>2, <4>1, <4>2, <4>5, <5>2 DEF Sliced, end
      <4>6. CASE HasText(t, s, end) /\ end # L
        <5> DEFINE N == NextStart(t, s, end)
        <5>1. f[s] = <<Slice(s, end)>> \o f[N]
          BY <3>2, <4>3, <4>6 DEF SlicedFrom, end
        <5>2. N \in s + 1 .. end
          BY <4>1, <4>2, <4>6, NextFacts
        <5> HIDE DEF N
        <5>3. N \in S /\ L - N <= n
          BY <2>1, <4>2, <5>2
        <5>4. Sliced(t, L, N, f[N]) /\ f[N] \in Seq(Offsets(L))
          BY <1>4, <5>3
        <5> QED BY <3>2, <4>6, <5>1, <5>4, SliceInFront DEF end, N
      <4> QED BY <4>4, <4>5, <4>6
    <3> QED BY <3>1, <3>2
  <2>2. n + 1 \in 0 .. L
    BY <1>4
  <2> QED BY <2>1, <2>2
<1>5. L \in P
  <2>1. L \in 0 .. L
    OBVIOUS
  <2> HIDE DEF P
  <2> QED BY <1>3, <1>4, <2>1, UpTo
<1>6. 0 \in S /\ L - 0 <= L
  OBVIOUS
<1> HIDE DEF S
<1> QED BY <1>5, <1>6

\* The slices for the retrieval index of every text leave out no word and are bounded.
LEMMA RetrievalIsGood ==
  ASSUME NEW t \in Seq(Characters), text = t, slices = RetrievalSlices(t)
  PROVE  Covers /\ SlicesAreBounded
<1> DEFINE L == Len(t)
<1>1. L \in Nat /\ DOMAIN t = 1 .. L
  OBVIOUS
<1>2. PICK f \in [0 .. L -> Seq(Offsets(L))] :
        /\ \A s \in 0 .. L : f[s] = SlicedFrom(t, f, s)
        /\ RetrievalSlices(t) = IF HasText(t, 0, L) THEN f[0] ELSE <<>>
  BY <1>1, LoopFacts
<1>3. Sliced(t, L, 0, f[0])
  BY <1>1, <1>2, SlicedFacts
<1> HIDE DEF L
<1>4. CASE HasText(t, 0, L)
  <2>1. slices = f[0] /\ f[0] \in Seq(Offsets(L)) /\ Len(slices) \in Nat
    BY <1>1, <1>2, <1>4
  <2>2. DOMAIN slices = 1 .. Len(slices) /\ \A n \in 1 .. Len(slices) : slices[n] \in ToSet(slices)
    BY <2>1 DEF ToSet
  <2>3. \A s \in ToSet(slices) : \E n \in 1 .. Len(slices) : s = slices[n]
    BY <2>2 DEF ToSet
  <2>4. \A k \in DOMAIN text : text[k] \notin Blank =>
          \E s \in ToSet(slices) : s.start < k /\ k <= s.end
    <3>1. \A k \in DOMAIN text : k \in 0 + 1 .. L
      BY <1>1
    <3> QED BY <1>3, <2>1, <2>2, <3>1 DEF Sliced
  <2>5. \A n \in 2 .. Len(slices) :
          slices[n - 1].start < slices[n].start /\ slices[n - 1].end < slices[n].end
    BY <1>3, <2>1 DEF Sliced
  <2>6. \A s \in ToSet(slices) : Fits(text, s.start, s.end)
    BY <1>3, <2>1, <2>3 DEF Sliced
  <2>7. /\ \A n \in 1 .. Len(slices) - 1 :
             Tokens(text, slices[n].start, slices[n].end) >= TargetTokens \div 2
        /\ \A n \in 2 .. Len(slices) : slices[n].start < slices[n - 1].end =>
             Tokens(text, slices[n].start, slices[n - 1].end) <= OverlapTokens
    BY <1>3, <2>1 DEF Sliced
  <2> QED BY <2>4, <2>5, <2>6, <2>7 DEF Covers, SlicesAreBounded
<1>5. CASE ~HasText(t, 0, L)
  <2>1. slices = <<>>
    BY <1>2, <1>5
  <2>2. ToSet(slices) = {} /\ Len(slices) = 0
    BY <2>1 DEF ToSet
  <2>3. \A k \in DOMAIN text : text[k] \in Blank
    BY <1>1, <1>5 DEF HasText
  <2> QED BY <2>2, <2>3 DEF Covers, SlicesAreBounded
<1> QED BY <1>4, <1>5

-----------------------------------------------------------------------------
\* The chunks of an episode

\* A line lies between two line ends that have none in between.
LEMMA LineFacts ==
  ASSUME NEW t, NEW L \in Nat, L = Len(t), NEW k \in LineEnds(t)
  PROVE  /\ k \in 1 .. L + 1 /\ LineAt(t, k).end = k - 1 /\ LineAt(t, k).start \in 0 .. k - 1
         /\ LineAt(t, k).start \in LineEnds(t) \union {0}
         /\ \A e \in LineEnds(t) : e < k => e <= LineAt(t, k).start
         /\ LineAt(t, k) = Slice(LineAt(t, k).start, k - 1)
<1> DEFINE before == {e \in LineEnds(t) \union {0} : e < k}
           s == Max(before)
<1>1. LineEnds(t) \subseteq 1 .. L + 1
  BY DEF LineEnds
<1>2. before \in SUBSET (0 .. L + 1) /\ 0 \in before
  BY <1>1
<1>3. s \in before /\ \A e \in before : s >= e
  <2> HIDE DEF before
  <2>1. L + 1 \in Nat
    OBVIOUS
  <2> QED BY <1>2, <2>1, MaxFacts
<1>4. LineAt(t, k).start = s /\ LineAt(t, k).end = k - 1 /\ LineAt(t, k) = Slice(s, k - 1)
  <2> HIDE DEF before
  <2> QED BY DEF LineAt, Slice, before
<1> HIDE DEF s
<1>5. k \in 1 .. L + 1 /\ s \in 0 .. k - 1 /\ s \in LineEnds(t) \union {0}
  BY <1>1, <1>3
<1>6. \A e \in LineEnds(t) : e < k => e <= s
  BY <1>1, <1>3
<1> QED BY <1>4, <1>5, <1>6

\* No line starts within another one.
LEMMA LinesApart ==
  ASSUME NEW t, NEW L \in Nat, L = Len(t), NEW k \in LineEnds(t), NEW m \in LineEnds(t),
         LineAt(t, k).start <= LineAt(t, m).start, LineAt(t, m).start < k
  PROVE  m = k
<1>1. /\ k \in 1 .. L + 1 /\ LineAt(t, k).start \in 0 .. k - 1
      /\ \A e \in LineEnds(t) : e < k => e <= LineAt(t, k).start
  BY LineFacts
<1>2. /\ m \in 1 .. L + 1 /\ LineAt(t, m).start \in 0 .. m - 1
      /\ \A e \in LineEnds(t) : e < m => e <= LineAt(t, m).start
  BY LineFacts
<1>3. ~(m < k)
  BY <1>1, <1>2
<1>4. ~(k < m)
  BY <1>1, <1>2
<1> QED BY <1>1, <1>2, <1>3, <1>4

\* A paragraph is a line with a character that is not blank.
LEMMA ParagraphFacts ==
  ASSUME NEW t, NEW L \in Nat, L = Len(t), NEW k, IsParagraph(t, k)
  PROVE  k \in LineEnds(t) /\ LineAt(t, k).start \in 0 .. k - 2 /\ k \in 2 .. L + 1
<1>1. k \in LineEnds(t) /\ HasText(t, LineAt(t, k).start, LineAt(t, k).end)
  BY DEF IsParagraph
<1>2. k \in 1 .. L + 1 /\ LineAt(t, k).end = k - 1 /\ LineAt(t, k).start \in 0 .. k - 1
  BY <1>1, LineFacts
<1>3. PICK j \in LineAt(t, k).start + 1 .. k - 1 : TRUE
  BY <1>1, <1>2 DEF HasText
<1> QED BY <1>1, <1>2, <1>3

\* A slice of some text.
Chunk == [start : Nat, end : Nat]

\* A long paragraph is cut into pieces of the limit and a rest.
LEMMA LongFacts ==
  ASSUME NEW p \in Chunk, NEW max \in Nat \ {0}, p.start <= p.end, Length(p) > max
  PROVE  LET w == CutLong(p, max)
         IN /\ w \in Seq(Chunk) /\ Len(w) > 0 /\ Len(w) \in Nat /\ w[1].start = p.start
            /\ \A n \in 1 .. Len(w) : /\ Length(w[n]) \in 1 .. max
                                      /\ p.start <= w[n].start /\ w[n].end <= p.end
            /\ \A n \in 2 .. Len(w) : w[n - 1].end = w[n].start
            /\ \A j \in p.start + 1 .. p.end :
                 \E n \in 1 .. Len(w) : w[n].start < j /\ j <= w[n].end
<1> DEFINE w == CutLong(p, max)
           D == Length(p)
           a == p.start
           N == (D + max - 1) \div max
           x(k) == a + (k - 1) * max
           y(k) == Min({a + k * max, p.end})
<1>1. a \in Nat /\ p.end \in Nat /\ D \in Nat /\ p.end = a + D /\ D > max
  BY DEF Chunk, Length
<1> HIDE DEF a
<1>2. N \in Nat /\ max * N <= D + max - 1 /\ D + max - 1 < max * (N + 1)
  <2>1. D + max - 1 \in Nat
    BY <1>1
  <2> HIDE DEF D
  <2> QED BY <2>1, DivFacts
<1> HIDE DEF D, N
<1>3. N >= 1
  <2>1. max * 1 < max * (N + 1)
    <3>1. max * (N + 1) \in Nat
      BY <1>2
    <3> QED BY <1>1, <1>2, <3>1
  <2>2. 1 < N + 1
    BY <1>2, <2>1, TimesLess
  <2> QED BY <1>2, <2>2
<1>4. ASSUME NEW k \in 1 .. N
      PROVE  /\ (k - 1) * max \in Nat /\ k * max \in Nat /\ k * max = (k - 1) * max + max
             /\ (k - 1) * max < D
             /\ k < N => k * max < D
             /\ k = N => k * max >= D
  <2>1. k \in Nat /\ k - 1 \in Nat /\ k <= N
    BY <1>2
  <2>2. (k - 1) * max \in Nat /\ k * max \in Nat /\ k * max = (k - 1) * max + max
    <3>1. \A i \in Nat : i * max \in Nat
      OBVIOUS
    <3>2. k * max = (k - 1) * max + max
      BY <2>1
    <3> QED BY <2>1, <3>1, <3>2
  <2>3. max * k <= max * N /\ max * k = k * max /\ max * N \in Nat
    BY <1>2, <2>1, TimesLess
  <2>4. (k - 1) * max < D
    BY <1>1, <1>2, <2>2, <2>3
  <2>5. k < N => k * max < D
    <3>1. SUFFICES ASSUME k < N PROVE k * max < D
      OBVIOUS
    <3>2. max * (k + 1) <= max * N
      BY <1>2, <2>1, <3>1, TimesLess
    <3>3. max * (k + 1) = k * max + max
      BY <2>1
    <3> QED BY <1>1, <1>2, <2>2, <2>3, <3>2, <3>3
  <2>6. k = N => k * max >= D
    <3>1. max * (N + 1) = N * max + max /\ N * max \in Nat
      BY <1>2
    <3> QED BY <1>1, <1>2, <3>1
  <2> QED BY <2>2, <2>4, <2>5, <2>6
<1>5. w = [k \in 1 .. N |-> Slice(x(k), y(k))]
  BY DEF CutLong, Length, a, N, D
<1>6. ASSUME NEW k \in 1 .. N
      PROVE  /\ x(k) \in Nat /\ y(k) \in Nat /\ x(k) < y(k) /\ y(k) <= p.end /\ a <= x(k)
             /\ y(k) - x(k) <= max
             /\ k < N => y(k) = x(k) + max
             /\ k = N => y(k) = p.end
  <2> DEFINE u == (k - 1) * max
             v == k * max
  <2>1. u \in Nat /\ v \in Nat /\ v = u + max /\ u < D /\ (k < N => v < D) /\ (k = N => v >= D)
    BY <1>4
  <2>2. x(k) = a + u /\ y(k) = Min({a + v, p.end})
    OBVIOUS
  <2> HIDE DEF u, v, x, y
  <2>3. y(k) \in {a + v, p.end} /\ y(k) <= a + v /\ y(k) <= p.end
    <3>1. {a + v, p.end} \in SUBSET (0 .. (a + v) + p.end)
      BY <1>1, <2>1
    <3>2. (a + v) + p.end \in Nat
      BY <1>1, <2>1
    <3>3. Min({a + v, p.end}) \in {a + v, p.end} /\ \A i \in {a + v, p.end} : Min({a + v, p.end}) <= i
      BY <3>1, <3>2, MinFacts
    <3> QED BY <2>2, <3>3
  <2> QED BY <1>1, <2>1, <2>2, <2>3
<1> HIDE DEF w, x, y
<1>7. w \in Seq(Chunk) /\ Len(w) = N
  <2>1. \A k \in 1 .. N : Slice(x(k), y(k)) \in Chunk
    BY <1>6 DEF Slice, Chunk
  <2>2. w \in [1 .. N -> Chunk]
    BY <1>5, <2>1
  <2> QED BY <1>2, <2>2
<1>8. \A k \in 1 .. N : w[k].start = x(k) /\ w[k].end = y(k)
  BY <1>5 DEF Slice
<1>9. x(1) = a
  BY <1>1 DEF x
<1>10. ASSUME NEW k \in 2 .. N PROVE y(k - 1) = x(k)
  <2>1. k - 1 \in 1 .. N /\ k - 1 < N /\ k \in 1 .. N /\ k \in Nat
    BY <1>2
  <2>2. y(k - 1) = x(k - 1) + max
    BY <1>6, <2>1
  <2>3. (k - 1) * max = ((k - 1) - 1) * max + max
    BY <1>4, <2>1
  <2>4. (k - 1) * max \in Nat /\ ((k - 1) - 1) * max \in Nat
    BY <1>4, <2>1
  <2> QED BY <1>1, <2>2, <2>3, <2>4 DEF x
<1>11. ASSUME NEW j \in a + 1 .. p.end
       PROVE  \E n \in 1 .. N : x(n) < j /\ j <= y(n)
  <2> DEFINE far == {n \in 1 .. N : j <= y(n)}
  <2>1. far \in SUBSET (0 .. N) /\ N \in far
    BY <1>1, <1>2, <1>3, <1>6
  <2>2. PICK n \in far : \A i \in far : n <= i
    <3> HIDE DEF far
    <3> QED BY <1>2, <2>1, MinFacts
  <2>3. x(n) < j
    <3>1. CASE n = 1
      BY <1>1, <1>9, <3>1
    <3>2. CASE n # 1
      <4>1. n - 1 \in 1 .. N /\ n \in 2 .. N
        BY <1>2, <2>2, <3>2
      <4>2. n - 1 \notin far
        BY <1>2, <2>2, <4>1
      <4>3. y(n - 1) < j
        BY <1>1, <1>6, <4>1, <4>2
      <4> QED BY <1>10, <4>1, <4>3
    <3> QED BY <3>1, <3>2
  <2> QED BY <2>2, <2>3
<1>12. \A n \in 1 .. N : Length(w[n]) \in 1 .. max
  BY <1>6, <1>8 DEF Length
<1>13. w[1].start = p.start
  BY <1>2, <1>3, <1>8, <1>9 DEF a
<1>14. \A n \in 1 .. N : p.start <= w[n].start /\ w[n].end <= p.end
  BY <1>6, <1>8 DEF a
<1>15. \A n \in 2 .. N : w[n - 1].end = w[n].start
  <2> TAKE n \in 2 .. N
  <2>1. n \in 1 .. N /\ n - 1 \in 1 .. N
    BY <1>2
  <2> QED BY <1>8, <1>10, <2>1
<1>16. \A j \in p.start + 1 .. p.end : \E n \in 1 .. N : w[n].start < j /\ j <= w[n].end
  BY <1>8, <1>11 DEF a
<1>17. /\ w \in Seq(Chunk) /\ Len(w) > 0 /\ Len(w) \in Nat /\ w[1].start = p.start
       /\ \A n \in 1 .. Len(w) : /\ Length(w[n]) \in 1 .. max
                                 /\ p.start <= w[n].start /\ w[n].end <= p.end
  <2>1. N > 0
    BY <1>2, <1>3
  <2> QED BY <1>2, <1>7, <1>12, <1>13, <1>14, <2>1
<1>18. /\ \A n \in 2 .. Len(w) : w[n - 1].end = w[n].start
       /\ \A j \in p.start + 1 .. p.end :
            \E n \in 1 .. Len(w) : w[n].start < j /\ j <= w[n].end
  <2>1. Len(w) = N
    BY <1>7
  <2> QED BY <1>15, <1>16, <2>1
<1> QED BY <1>17, <1>18 DEF w

\* A chunk of whole paragraphs that is shorter than the target.
Short(t, target, max, s) ==
  /\ Length(s) < target
  /\ \E e \in LineEnds(t) :
       IsParagraph(t, e) /\ Length(LineAt(t, e)) <= max /\ LineAt(t, e).start = s.start

\* All from behind one place up to another.
Holds(s, i, j) == s.start <= i /\ j <= s.end

\* What holds of the chunks of the lines that end up to a place.
ChunksSoFar(t, L, target, max, k, q) ==
  /\ \A n \in 1 .. Len(q) : Length(q[n]) \in 1 .. max
  /\ \A n \in 2 .. Len(q) : q[n - 1].end <= q[n].start
  /\ \A n \in 1 .. Len(q) : \A m \in LineEnds(t) : m > k => q[n].end <= LineAt(t, m).start
  /\ \A e \in LineEnds(t) : e <= k =>
       \A j \in 1 .. e - 1 : t[j] \notin Blank => \E n \in 1 .. Len(q) : Holds(q[n], j - 1, j)
  /\ \A e \in LineEnds(t) : e <= k /\ IsParagraph(t, e) /\ Length(LineAt(t, e)) <= max =>
       \E n \in 1 .. Len(q) : Holds(q[n], LineAt(t, e).start, LineAt(t, e).end)
  /\ \A n \in 2 .. Len(q) : Short(t, target, max, q[n - 1]) =>
       \E e \in LineEnds(t) :
         /\ IsParagraph(t, e) /\ LineAt(t, e).start >= q[n - 1].end
         /\ LineAt(t, e).start = q[n].start /\ LineAt(t, e).end - q[n - 1].start > max

\* A word of the lines up to the next place is in one of the lines before or in the next.
LEMMA NextLine ==
  ASSUME NEW t, NEW L \in Nat, L = Len(t), NEW k \in Nat, NEW e \in LineEnds(t), e <= k + 1,
         NEW j \in 1 .. e - 1, t[j] \notin Blank, \A d \in LineEnds(t) : d <= k => ~(j < d)
  PROVE  e = k + 1 /\ IsParagraph(t, e) /\ j \in LineAt(t, e).start + 1 .. k
<1>1. e \in 1 .. L + 1
  BY LineFacts
<1>2. e = k + 1
  BY <1>1
<1> DEFINE s == LineAt(t, e).start
<1>3. s \in 0 .. e - 1 /\ LineAt(t, e).end = e - 1 /\ s \in LineEnds(t) \union {0}
  BY LineFacts
<1> HIDE DEF s
<1>4. j >= s
  BY <1>1, <1>2, <1>3
<1>5. j # s
  <2>1. SUFFICES ASSUME j = s PROVE FALSE
    OBVIOUS
  <2>2. s \in LineEnds(t) /\ s # L + 1
    BY <1>1, <1>3, <2>1
  <2>3. t[s] = "feed"
    BY <2>2 DEF LineEnds
  <2> QED BY <2>1, <2>3 DEF Blank
<1>6. j \in s + 1 .. k
  BY <1>1, <1>2, <1>3, <1>4, <1>5
<1>7. HasText(t, s, e - 1)
  BY <1>1, <1>2, <1>6 DEF HasText
<1> QED BY <1>2, <1>3, <1>6, <1>7 DEF IsParagraph, s

\* A blank line changes nothing.
LEMMA BlankLine ==
  ASSUME NEW t, NEW L \in Nat, L = Len(t), NEW k \in Nat, ~IsParagraph(t, k + 1),
         NEW target, NEW max, NEW q \in Seq(Chunk), ChunksSoFar(t, L, target, max, k, q)
  PROVE  ChunksSoFar(t, L, target, max, k + 1, q)
<1>1. LineEnds(t) \subseteq 1 .. L + 1
  BY LineFacts
<1>2. \A n \in 1 .. Len(q) : \A m \in LineEnds(t) : m > k + 1 => q[n].end <= LineAt(t, m).start
  <2>1. \A m \in LineEnds(t) : m > k + 1 => m > k
    BY <1>1
  <2> QED BY <2>1 DEF ChunksSoFar
<1>3. ASSUME NEW e \in LineEnds(t), e <= k + 1, NEW j \in 1 .. e - 1, t[j] \notin Blank
      PROVE  \E n \in 1 .. Len(q) : Holds(q[n], j - 1, j)
  <2>1. CASE \E d \in LineEnds(t) : d <= k /\ j < d
    <3>1. PICK d \in LineEnds(t) : d <= k /\ j < d
      BY <2>1
    <3>2. j \in 1 .. d - 1
      BY <1>1, <3>1
    <3> QED BY <1>3, <3>1, <3>2 DEF ChunksSoFar
  <2>2. CASE ~\E d \in LineEnds(t) : d <= k /\ j < d
    BY <1>3, <2>2, NextLine
  <2> QED BY <2>1, <2>2
<1>4. \A e \in LineEnds(t) : e <= k + 1 /\ IsParagraph(t, e) => e <= k
  <2> TAKE e \in LineEnds(t)
  <2>1. e \in Nat
    BY <1>1
  <2> QED BY <2>1
<1> QED BY <1>2, <1>3, <1>4 DEF ChunksSoFar

\* What the paragraph that ends next needs of its own chunks to come behind the others.
Pieces(t, target, max, p, w) ==
  /\ \A n \in 1 .. Len(w) : Length(w[n]) \in 1 .. max /\ p.start <= w[n].start /\ w[n].end <= p.end
  /\ Len(w) > 0 /\ w[1].start = p.start
  /\ \A n \in 2 .. Len(w) : w[n - 1].end <= w[n].start
  /\ \A j \in p.start + 1 .. p.end : \E n \in 1 .. Len(w) : Holds(w[n], j - 1, j)
  /\ Length(p) <= max => \E n \in 1 .. Len(w) : Holds(w[n], p.start, p.end)
  /\ \A n \in 1 .. Len(w) - 1 : ~Short(t, target, max, w[n])

\* The chunks of the next paragraph are put behind the others.
LEMMA MorePieces ==
  ASSUME NEW t, NEW L \in Nat, L = Len(t), NEW k \in Nat, IsParagraph(t, k + 1),
         NEW target, NEW max \in Nat, NEW q \in Seq(Chunk), NEW w \in Seq(Chunk),
         ChunksSoFar(t, L, target, max, k, q), Pieces(t, target, max, LineAt(t, k + 1), w),
         Len(q) > 0 /\ Short(t, target, max, q[Len(q)]) =>
           LineAt(t, k + 1).end - q[Len(q)].start > max
  PROVE  ChunksSoFar(t, L, target, max, k + 1, q \o w)
<1> DEFINE p == LineAt(t, k + 1)
           r == q \o w
<1>1. k + 1 \in LineEnds(t) /\ p.start \in 0 .. k - 1 /\ k \in 1 .. L /\ p.end = k
  <2>1. k + 1 \in LineEnds(t) /\ p.start \in 0 .. (k + 1) - 2 /\ k + 1 \in 2 .. L + 1
    BY ParagraphFacts
  <2> HIDE DEF p
  <2>2. p.end = (k + 1) - 1
    BY <2>1, LineFacts DEF p
  <2> QED BY <2>1, <2>2
<1>2. LineEnds(t) \subseteq 1 .. L + 1
  BY LineFacts
<1>3. /\ Len(q) \in Nat /\ \A n \in 1 .. Len(q) : q[n].start \in Nat /\ q[n].end \in Nat
      /\ Len(w) \in Nat /\ \A n \in 1 .. Len(w) : w[n].start \in Nat /\ w[n].end \in Nat
  <2>1. \A n \in 1 .. Len(q) : q[n] \in Chunk
    OBVIOUS
  <2>2. \A n \in 1 .. Len(w) : w[n] \in Chunk
    OBVIOUS
  <2> QED BY <2>1, <2>2 DEF Chunk
<1>4. /\ Len(r) = Len(q) + Len(w) /\ \A n \in 1 .. Len(q) : r[n] = q[n]
      /\ \A n \in 1 .. Len(w) : r[Len(q) + n] = w[n]
  BY DEF Chunk
<1> HIDE DEF p, r
<1>5. \A n \in 1 .. Len(q) : q[n].end <= p.start
  <2>1. k + 1 > k
    OBVIOUS
  <2> QED BY <1>1, <2>1 DEF ChunksSoFar, p
<1>6. ASSUME NEW n \in 1 .. Len(r), ~(n \in 1 .. Len(q))
      PROVE  n - Len(q) \in 1 .. Len(w) /\ r[n] = w[n - Len(q)]
  <2>1. n - Len(q) \in 1 .. Len(w) /\ Len(q) + (n - Len(q)) = n
    BY <1>3, <1>4, <1>6
  <2> QED BY <1>4, <2>1
<1>7. Pieces(t, target, max, p, w)
  BY DEF p
<1>8. \A n \in 1 .. Len(r) : Length(r[n]) \in 1 .. max
  <2> TAKE n \in 1 .. Len(r)
  <2>1. CASE n \in 1 .. Len(q)
    BY <1>4, <2>1 DEF ChunksSoFar
  <2>2. CASE ~(n \in 1 .. Len(q))
    BY <1>6, <1>7, <2>2 DEF Pieces
  <2> QED BY <2>1, <2>2
<1>9. ASSUME NEW n \in 1 .. Len(r), NEW m \in LineEnds(t), m > k + 1
      PROVE  r[n].end <= LineAt(t, m).start
  <2>1. CASE n \in 1 .. Len(q)
    <3>1. m > k
      BY <1>2, <1>9
    <3> QED BY <1>4, <2>1, <3>1 DEF ChunksSoFar
  <2>2. CASE ~(n \in 1 .. Len(q))
    <3>1. r[n].end <= p.end /\ r[n].end \in Nat
      BY <1>3, <1>6, <1>7, <2>2 DEF Pieces
    <3>2. k + 1 <= LineAt(t, m).start /\ LineAt(t, m).start \in Nat
      <4>1. LineAt(t, m).start \in 0 .. m - 1 /\ \A e \in LineEnds(t) : e < m => e <= LineAt(t, m).start
        BY LineFacts
      <4> QED BY <1>1, <1>2, <1>9, <4>1
    <3> QED BY <1>1, <3>1, <3>2
  <2> QED BY <2>1, <2>2
<1>10. ASSUME NEW n \in 2 .. Len(r)
       PROVE  /\ r[n - 1].end <= r[n].start
              /\ Short(t, target, max, r[n - 1]) =>
                   \E e \in LineEnds(t) :
                     /\ IsParagraph(t, e) /\ LineAt(t, e).start >= r[n - 1].end
                     /\ LineAt(t, e).start = r[n].start /\ LineAt(t, e).end - r[n - 1].start > max
  <2>1. CASE n \in 1 .. Len(q)
    <3>1. n - 1 \in 1 .. Len(q) /\ n \in 2 .. Len(q)
      BY <1>3, <2>1
    <3>2. r[n] = q[n] /\ r[n - 1] = q[n - 1]
      BY <1>4, <2>1, <3>1
    <3> QED BY <3>1, <3>2 DEF ChunksSoFar
  <2>2. CASE n = Len(q) + 1
    <3>1. Len(q) \in 1 .. Len(q) /\ n - 1 = Len(q) /\ Len(q) > 0
      BY <1>3, <2>2
    <3>2. r[n - 1] = q[Len(q)] /\ r[n] = w[1]
      <4>1. 1 \in 1 .. Len(w)
        BY <1>3, <1>4, <2>2
      <4> QED BY <1>4, <2>2, <3>1, <4>1
    <3>3. w[1].start = p.start
      BY <1>7 DEF Pieces
    <3>4. q[Len(q)].end <= p.start
      BY <1>5, <3>1
    <3>5. p.start >= q[Len(q)].end
      BY <1>1, <1>3, <3>1, <3>4
    <3> QED BY <1>1, <3>1, <3>2, <3>3, <3>4, <3>5 DEF p
  <2>3. CASE ~(n \in 1 .. Len(q) + 1)
    <3>1. /\ n - Len(q) \in 2 .. Len(w) /\ (n - Len(q)) - 1 \in 1 .. Len(w) - 1
          /\ (n - Len(q)) - 1 \in 1 .. Len(w)
          /\ Len(q) + (n - Len(q)) = n /\ Len(q) + ((n - Len(q)) - 1) = n - 1
      <4>1. \A a, b \in Nat : \A i \in 2 .. a + b : ~(i \in 1 .. a + 1) =>
              /\ i - a \in 2 .. b /\ (i - a) - 1 \in 1 .. b - 1 /\ (i - a) - 1 \in 1 .. b
              /\ a + (i - a) = i /\ a + ((i - a) - 1) = i - 1
        OBVIOUS
      <4> DEFINE a == Len(q)
                 b == Len(w)
      <4>2. a \in Nat /\ b \in Nat /\ n \in 2 .. a + b /\ ~(n \in 1 .. a + 1)
        BY <1>3, <1>4, <2>3
      <4> HIDE DEF a, b
      <4> QED BY <4>1, <4>2 DEF a, b
    <3>2. n - Len(q) \in 1 .. Len(w)
      BY <1>3, <3>1
    <3>3. r[Len(q) + (n - Len(q))] = w[n - Len(q)]
      BY <1>4, <3>2
    <3>4. r[Len(q) + ((n - Len(q)) - 1)] = w[(n - Len(q)) - 1]
      BY <1>4, <3>1
    <3>5. r[n] = w[n - Len(q)] /\ r[n - 1] = w[(n - Len(q)) - 1]
      BY <3>1, <3>3, <3>4
    <3> QED BY <1>7, <3>1, <3>5 DEF Pieces
  <2> QED BY <1>3, <2>1, <2>2, <2>3
<1>11. \A i, j : (\E n \in 1 .. Len(q) : Holds(q[n], i, j)) \/ (\E n \in 1 .. Len(w) : Holds(w[n], i, j))
                   => \E n \in 1 .. Len(r) : Holds(r[n], i, j)
  <2>1. \A n \in 1 .. Len(q) : n \in 1 .. Len(r)
    BY <1>3, <1>4
  <2>2. \A n \in 1 .. Len(w) : Len(q) + n \in 1 .. Len(r)
    BY <1>3, <1>4
  <2> QED BY <1>4, <2>1, <2>2
<1>12. ASSUME NEW e \in LineEnds(t), e <= k + 1, NEW j \in 1 .. e - 1, t[j] \notin Blank
       PROVE  \E n \in 1 .. Len(r) : Holds(r[n], j - 1, j)
  <2>1. CASE \E d \in LineEnds(t) : d <= k /\ j < d
    <3>1. PICK d \in LineEnds(t) : d <= k /\ j < d
      BY <2>1
    <3>2. j \in 1 .. d - 1
      BY <1>2, <3>1
    <3>3. \E n \in 1 .. Len(q) : Holds(q[n], j - 1, j)
      BY <1>12, <3>1, <3>2 DEF ChunksSoFar
    <3> QED BY <1>11, <3>3
  <2>2. CASE ~\E d \in LineEnds(t) : d <= k /\ j < d
    <3>1. e = k + 1 /\ j \in LineAt(t, e).start + 1 .. k
      BY <1>12, <2>2, NextLine
    <3>2. j \in p.start + 1 .. p.end
      BY <1>1, <3>1 DEF p
    <3>3. \E n \in 1 .. Len(w) : Holds(w[n], j - 1, j)
      BY <1>7, <3>2 DEF Pieces
    <3> QED BY <1>11, <3>3
  <2> QED BY <2>1, <2>2
<1>13. ASSUME NEW e \in LineEnds(t), e <= k + 1, IsParagraph(t, e), Length(LineAt(t, e)) <= max
       PROVE  \E n \in 1 .. Len(r) : Holds(r[n], LineAt(t, e).start, LineAt(t, e).end)
  <2>1. CASE e <= k
    <3>1. \E n \in 1 .. Len(q) : Holds(q[n], LineAt(t, e).start, LineAt(t, e).end)
      BY <1>13, <2>1 DEF ChunksSoFar
    <3> QED BY <1>11, <3>1
  <2>2. CASE ~(e <= k)
    <3>1. e = k + 1
      BY <1>2, <1>13, <2>2
    <3>2. \E n \in 1 .. Len(w) : Holds(w[n], p.start, p.end)
      BY <1>7, <1>13, <3>1 DEF Pieces, p
    <3> QED BY <1>11, <3>1, <3>2 DEF p
  <2> QED BY <2>1, <2>2
<1>14. ChunksSoFar(t, L, target, max, k + 1, r)
  BY <1>8, <1>9, <1>10, <1>12, <1>13 DEF ChunksSoFar
<1> QED BY <1>14 DEF r

\* The next paragraph is joined to the last chunk.
LEMMA LongerChunk ==
  ASSUME NEW t, NEW L \in Nat, L = Len(t), NEW k \in Nat, IsParagraph(t, k + 1),
         NEW target, NEW max \in Nat, NEW c \in Seq(Chunk), NEW u \in Chunk,
         NEW r, r = Append(c, Slice(u.start, LineAt(t, k + 1).end)),
         ChunksSoFar(t, L, target, max, k, Append(c, u)),
         LineAt(t, k + 1).end - u.start <= max
  PROVE  ChunksSoFar(t, L, target, max, k + 1, r)
<1> DEFINE p == LineAt(t, k + 1)
           q == Append(c, u)
           N == Len(c) + 1
<1>1. k + 1 \in LineEnds(t) /\ p.start \in 0 .. k - 1 /\ k \in 1 .. L /\ p.end = k
  <2>1. k + 1 \in LineEnds(t) /\ p.start \in 0 .. (k + 1) - 2 /\ k + 1 \in 2 .. L + 1
    BY ParagraphFacts
  <2> HIDE DEF p
  <2>2. p.end = (k + 1) - 1
    BY <2>1, LineFacts DEF p
  <2> QED BY <2>1, <2>2
<1>2. LineEnds(t) \subseteq 1 .. L + 1
  BY LineFacts
<1>3. /\ N \in Nat /\ N >= 1 /\ u.start \in Nat /\ u.end \in Nat
      /\ Len(q) = N /\ q[N] = u /\ \A n \in 1 .. N - 1 : q[n].start \in Nat /\ q[n].end \in Nat
  <2>1. \A n \in 1 .. Len(c) : c[n] \in Chunk /\ q[n] = c[n]
    OBVIOUS
  <2>2. Len(q) = N /\ q[N] = u /\ N \in Nat /\ N >= 1 /\ N - 1 = Len(c)
    OBVIOUS
  <2> QED BY <2>1, <2>2 DEF Chunk
<1>4. /\ Len(r) = N /\ r[N] = Slice(u.start, p.end) /\ \A n \in 1 .. N - 1 : r[n] = q[n]
  <2>1. \A s : Len(Append(c, s)) = N /\ Append(c, s)[N] = s /\ \A n \in 1 .. Len(c) : Append(c, s)[n] = c[n]
    BY DEF Chunk
  <2>2. N - 1 = Len(c)
    OBVIOUS
  <2> QED BY <2>1, <2>2
<1>5. r[N].start = u.start /\ r[N].end = p.end
  <2> HIDE DEF N, p
  <2> QED BY <1>4 DEF Slice
<1>6. ChunksSoFar(t, L, target, max, k, q)
  OBVIOUS
<1> HIDE DEF p, q, N
<1>7. u.start < u.end /\ u.end <= p.start
  <2>1. N \in 1 .. Len(q)
    BY <1>3
  <2>2. Length(u) \in 1 .. max
    BY <1>3, <1>6, <2>1 DEF ChunksSoFar
  <2>3. k + 1 > k
    OBVIOUS
  <2>4. u.end <= p.start
    BY <1>1, <1>3, <1>6, <2>1, <2>3 DEF ChunksSoFar, p
  <2> QED BY <1>3, <2>2, <2>4 DEF Length
<1>8. \A n \in 1 .. N : r[n].start = q[n].start /\ (n = N \/ r[n] = q[n])
  <2> TAKE n \in 1 .. N
  <2>1. n = N \/ n \in 1 .. N - 1
    BY <1>3
  <2> QED BY <1>3, <1>4, <1>5, <2>1
<1>9. \A n \in 1 .. Len(r) : Length(r[n]) \in 1 .. max
  <2> TAKE n \in 1 .. Len(r)
  <2>1. CASE n = N
    <3>1. p.end - u.start \in 1 .. max
      BY <1>1, <1>3, <1>7 DEF p
    <3> QED BY <1>5, <2>1, <3>1 DEF Length
  <2>2. CASE n # N
    BY <1>3, <1>4, <1>6, <1>8, <2>2 DEF ChunksSoFar
  <2> QED BY <2>1, <2>2
<1>10. ASSUME NEW n \in 1 .. Len(r), NEW m \in LineEnds(t), m > k + 1
       PROVE  r[n].end <= LineAt(t, m).start
  <2>1. CASE n = N
    <3>1. k + 1 <= LineAt(t, m).start /\ LineAt(t, m).start \in Nat
      <4>1. LineAt(t, m).start \in 0 .. m - 1 /\ \A e \in LineEnds(t) : e < m => e <= LineAt(t, m).start
        BY LineFacts
      <4> QED BY <1>1, <1>2, <1>10, <4>1
    <3> QED BY <1>1, <1>5, <2>1, <3>1
  <2>2. CASE n # N
    <3>1. m > k
      BY <1>2, <1>10
    <3> QED BY <1>3, <1>4, <1>6, <1>8, <2>2, <3>1 DEF ChunksSoFar
  <2> QED BY <2>1, <2>2
<1>11. ASSUME NEW n \in 2 .. Len(r)
       PROVE  /\ r[n - 1].end <= r[n].start
              /\ Short(t, target, max, r[n - 1]) =>
                   \E e \in LineEnds(t) :
                     /\ IsParagraph(t, e) /\ LineAt(t, e).start >= r[n - 1].end
                     /\ LineAt(t, e).start = r[n].start /\ LineAt(t, e).end - r[n - 1].start > max
  <2>1. n \in 1 .. N /\ n - 1 \in 1 .. N - 1 /\ n \in 2 .. Len(q)
    BY <1>3, <1>4
  <2>2. r[n].start = q[n].start /\ r[n - 1] = q[n - 1]
    BY <1>4, <1>8, <2>1
  <2> QED BY <1>6, <2>1, <2>2 DEF ChunksSoFar
<1>12. ASSUME NEW i, NEW j \in Nat, \E n \in 1 .. Len(q) : Holds(q[n], i, j)
       PROVE  \E n \in 1 .. Len(r) : Holds(r[n], i, j)
  <2>1. PICK n \in 1 .. N : Holds(q[n], i, j)
    BY <1>3, <1>12
  <2>2. CASE n = N
    <3>1. u.start <= i /\ j <= u.end
      BY <1>3, <2>1, <2>2 DEF Holds
    <3>2. j <= p.end
      BY <1>1, <1>3, <1>7, <3>1
    <3>3. N \in 1 .. Len(r)
      BY <1>3, <1>4
    <3> QED BY <1>5, <3>1, <3>2, <3>3 DEF Holds
  <2>3. CASE n # N
    BY <1>4, <1>8, <2>1, <2>3
  <2> QED BY <2>2, <2>3
<1>13. ASSUME NEW i \in Nat, NEW j, p.start <= i, j <= p.end
       PROVE  \E n \in 1 .. Len(r) : Holds(r[n], i, j)
  <2>1. u.start <= i
    BY <1>1, <1>3, <1>7, <1>13
  <2>2. N \in 1 .. Len(r)
    BY <1>3, <1>4
  <2> QED BY <1>5, <1>13, <2>1, <2>2 DEF Holds
<1>14. ASSUME NEW e \in LineEnds(t), e <= k + 1, NEW j \in 1 .. e - 1, t[j] \notin Blank
       PROVE  \E n \in 1 .. Len(r) : Holds(r[n], j - 1, j)
  <2>0. j \in Nat /\ j - 1 \in Nat
    BY <1>2
  <2>1. CASE \E d \in LineEnds(t) : d <= k /\ j < d
    <3>1. PICK d \in LineEnds(t) : d <= k /\ j < d
      BY <2>1
    <3>2. j \in 1 .. d - 1
      BY <1>2, <3>1
    <3>3. \E n \in 1 .. Len(q) : Holds(q[n], j - 1, j)
      BY <1>6, <1>14, <3>1, <3>2 DEF ChunksSoFar
    <3> QED BY <1>12, <2>0, <3>3
  <2>2. CASE ~\E d \in LineEnds(t) : d <= k /\ j < d
    <3>1. e = k + 1 /\ j \in LineAt(t, e).start + 1 .. k
      BY <1>14, <2>2, NextLine
    <3>2. p.start <= j - 1 /\ j <= p.end
      <4>1. j \in p.start + 1 .. p.end
        BY <1>1, <3>1 DEF p
      <4> QED BY <1>1, <4>1
    <3> QED BY <1>13, <2>0, <3>2
  <2> QED BY <2>1, <2>2
<1>15. ASSUME NEW e \in LineEnds(t), e <= k + 1, IsParagraph(t, e), Length(LineAt(t, e)) <= max
       PROVE  \E n \in 1 .. Len(r) : Holds(r[n], LineAt(t, e).start, LineAt(t, e).end)
  <2>1. CASE e <= k
    <3>1. \E n \in 1 .. Len(q) : Holds(q[n], LineAt(t, e).start, LineAt(t, e).end)
      BY <1>6, <1>15, <2>1 DEF ChunksSoFar
    <3>2. LineAt(t, e).end \in Nat
      <4>1. LineAt(t, e).end = e - 1 /\ e \in 1 .. L + 1
        BY LineFacts
      <4> QED BY <4>1
    <3> QED BY <1>12, <3>1, <3>2
  <2>2. CASE ~(e <= k)
    <3>1. e = k + 1
      BY <1>2, <1>15, <2>2
    <3>2. p.start \in Nat /\ p.start <= p.start /\ p.end <= p.end
      BY <1>1
    <3> QED BY <1>13, <3>1, <3>2 DEF p
  <2> QED BY <2>1, <2>2
<1> QED BY <1>9, <1>10, <1>11, <1>14, <1>15 DEF ChunksSoFar

\* A paragraph within the limit is one chunk.
LEMMA OnePiece ==
  ASSUME NEW t, NEW target, NEW max \in Nat, NEW p \in Chunk, Length(p) \in 1 .. max
  PROVE  Pieces(t, target, max, p, <<p>>)
<1> DEFINE w == <<p>>
<1>1. Len(w) = 1 /\ w[1] = p /\ p.start \in Nat /\ p.end \in Nat
  BY DEF Chunk
<1> HIDE DEF w
<1>2. \A j \in p.start + 1 .. p.end : Holds(p, j - 1, j)
  BY <1>1 DEF Holds
<1>3. Holds(p, p.start, p.end)
  BY <1>1 DEF Holds
<1>4. Pieces(t, target, max, p, w)
  BY <1>1, <1>2, <1>3 DEF Pieces
<1> QED BY <1>4 DEF w

\* A longer one is cut, and none of its chunks counts as short.
LEMMA CutPieces ==
  ASSUME NEW t, NEW L \in Nat, L = Len(t), NEW m, IsParagraph(t, m),
         NEW target, NEW max \in Nat \ {0}, NEW p, p = LineAt(t, m), p \in Chunk, Length(p) > max
  PROVE  LET w == CutLong(p, max)
         IN /\ w \in Seq(Chunk) /\ Len(w) > 0 /\ Pieces(t, target, max, p, w)
            /\ \A n \in 1 .. Len(w) : ~Short(t, target, max, w[n])
<1> DEFINE w == CutLong(p, max)
<1>1. m \in LineEnds(t) /\ m \in 2 .. L + 1 /\ p.start \in 0 .. m - 2 /\ p.end = m - 1
  <2>1. m \in LineEnds(t) /\ p.start \in 0 .. m - 2 /\ m \in 2 .. L + 1
    BY ParagraphFacts
  <2>2. p.end = m - 1
    BY <2>1, LineFacts
  <2> QED BY <2>1, <2>2
<1>2. p.start <= p.end
  BY <1>1
<1>3. /\ w \in Seq(Chunk) /\ Len(w) > 0 /\ Len(w) \in Nat /\ w[1].start = p.start
      /\ \A n \in 1 .. Len(w) : /\ Length(w[n]) \in 1 .. max
                                /\ p.start <= w[n].start /\ w[n].end <= p.end
      /\ \A n \in 2 .. Len(w) : w[n - 1].end = w[n].start
      /\ \A j \in p.start + 1 .. p.end :
           \E n \in 1 .. Len(w) : w[n].start < j /\ j <= w[n].end
  BY <1>2, LongFacts
<1> HIDE DEF w
<1>4. \A n \in 1 .. Len(w) : w[n].start \in Nat /\ w[n].end \in Nat
  <2>1. \A n \in 1 .. Len(w) : w[n] \in Chunk
    BY <1>3
  <2> QED BY <2>1 DEF Chunk
<1>5. ASSUME NEW n \in 1 .. Len(w), Short(t, target, max, w[n]) PROVE FALSE
  <2>1. PICK e \in LineEnds(t) : Length(LineAt(t, e)) <= max /\ LineAt(t, e).start = w[n].start
    BY <1>5 DEF Short
  <2>2. LineAt(t, m).start <= LineAt(t, e).start /\ LineAt(t, e).start < m
    <3>1. Length(w[n]) \in 1 .. max /\ p.start <= w[n].start /\ w[n].end <= p.end
      BY <1>3
    <3> QED BY <1>1, <1>4, <2>1, <3>1 DEF Length
  <2>3. e = m
    BY <1>1, <2>1, <2>2, LinesApart
  <2>4. Length(p) \in Nat
    BY <1>1 DEF Length
  <2> QED BY <2>1, <2>3, <2>4
<1>6. \A n \in 2 .. Len(w) : w[n - 1].end <= w[n].start
  <2> TAKE n \in 2 .. Len(w)
  <2>1. n \in 1 .. Len(w)
    BY <1>3
  <2> QED BY <1>3, <1>4, <2>1
<1>7. \A j \in p.start + 1 .. p.end : \E n \in 1 .. Len(w) : Holds(w[n], j - 1, j)
  <2> TAKE j \in p.start + 1 .. p.end
  <2>1. PICK n \in 1 .. Len(w) : w[n].start < j /\ j <= w[n].end
    BY <1>3
  <2>2. w[n].start <= j - 1
    BY <1>1, <1>4, <2>1
  <2> QED BY <2>1, <2>2 DEF Holds
<1>8. ~(Length(p) <= max)
  BY <1>1 DEF Length
<1>9. \A n \in 1 .. Len(w) - 1 : ~Short(t, target, max, w[n])
  <2> TAKE n \in 1 .. Len(w) - 1
  <2>1. n \in 1 .. Len(w)
    BY <1>3
  <2> QED BY <1>5, <2>1
<1>10. Pieces(t, target, max, p, w)
  BY <1>3, <1>6, <1>7, <1>8, <1>9 DEF Pieces
<1> QED BY <1>3, <1>5, <1>10 DEF w

\* What holds of the loop over the paragraphs behind the lines that end up to a place.
LoopState(t, L, target, max, k, state) ==
  /\ state \in [chunks : Seq(Chunk), current : Chunk]
  /\ ChunksSoFar(t, L, target, max, k, Flushed(state.chunks, state.current))
  /\ state.current = NoParagraph /\ Len(state.chunks) > 0 =>
       ~Short(t, target, max, state.chunks[Len(state.chunks)])
  /\ L <= max /\ L <= target =>
       /\ Len(Flushed(state.chunks, state.current)) <= 1
       /\ k <= L => state.chunks = <<>>

\* One paragraph in the loop keeps this.
LEMMA AddKeeps ==
  ASSUME NEW t, NEW L \in Nat, L = Len(t), NEW k \in Nat, IsParagraph(t, k + 1),
         NEW target \in Nat, NEW max \in Nat \ {0}, NEW min,
         NEW state, LoopState(t, L, target, max, k, state)
  PROVE  LoopState(t, L, target, max, k + 1,
                   AddParagraph(state, LineAt(t, k + 1), target, max, min))
<1> DEFINE p == LineAt(t, k + 1)
           c == state.chunks
           u == state.current
           q == Flushed(c, u)
           joined == Extended(u, p)
           next == AddParagraph(state, p, target, max, min)
           whole == L <= max /\ L <= target
<1>1. k + 1 \in LineEnds(t) /\ p.start \in 0 .. k - 1 /\ k \in 1 .. L /\ p.end = k /\ p = Slice(p.start, p.end)
  <2>1. k + 1 \in LineEnds(t) /\ p.start \in 0 .. (k + 1) - 2 /\ k + 1 \in 2 .. L + 1
    BY ParagraphFacts
  <2> HIDE DEF p
  <2>2. p.end = (k + 1) - 1 /\ p = Slice(p.start, (k + 1) - 1)
    BY <2>1, LineFacts DEF p
  <2>3. p.end = k
    BY <2>2
  <2> QED BY <2>1, <2>2, <2>3
<1>2. state \in [chunks : Seq(Chunk), current : Chunk] /\ c \in Seq(Chunk) /\ u \in Chunk
  BY DEF LoopState
<1>3. /\ ChunksSoFar(t, L, target, max, k, q)
      /\ u = NoParagraph /\ Len(c) > 0 => ~Short(t, target, max, c[Len(c)])
      /\ whole => Len(q) <= 1 /\ c = <<>>
  <2>1. k <= L
    BY <1>1
  <2> QED BY <2>1 DEF LoopState
<1> HIDE DEF p
<1>4. p \in Chunk /\ p # NoParagraph /\ NoParagraph \in Chunk /\ Length(p) \in Nat /\ Length(p) >= 1 /\ Length(p) <= L
  <2>1. p \in Chunk
    BY <1>1 DEF Slice, Chunk
  <2>2. p # NoParagraph /\ NoParagraph \in Chunk
    BY <1>1 DEF NoParagraph, Slice, Chunk
  <2> QED BY <1>1, <2>1, <2>2 DEF Length
<1>5. q \in Seq(Chunk) /\ Len(q) \in Nat
  BY <1>2 DEF Flushed
<1>6. Len(q) > 0 => /\ Length(q[Len(q)]) \in 1 .. max /\ q[Len(q)].end <= p.start
                    /\ q[Len(q)].start \in Nat /\ q[Len(q)].end \in Nat
                    /\ q[Len(q)].start <= p.start
  <2> HIDE DEF q
  <2>1. SUFFICES ASSUME Len(q) > 0
                 PROVE  /\ Length(q[Len(q)]) \in 1 .. max /\ q[Len(q)].end <= p.start
                        /\ q[Len(q)].start \in Nat /\ q[Len(q)].end \in Nat
                        /\ q[Len(q)].start <= p.start
    OBVIOUS
  <2>2. Len(q) \in 1 .. Len(q) /\ q[Len(q)] \in Chunk
    BY <1>5, <2>1
  <2>3. Length(q[Len(q)]) \in 1 .. max
    BY <1>3, <2>2 DEF ChunksSoFar
  <2>4. k + 1 > k
    OBVIOUS
  <2>5. q[Len(q)].end <= p.start
    BY <1>1, <1>3, <2>2, <2>4 DEF ChunksSoFar, p
  <2>6. q[Len(q)].start \in Nat /\ q[Len(q)].end \in Nat
    BY <2>2 DEF Chunk
  <2> QED BY <1>1, <2>3, <2>5, <2>6 DEF Length
<1>7. /\ joined \in Chunk /\ joined # NoParagraph /\ joined.end = p.end
      /\ joined.start \in Nat /\ p.end \in Nat /\ Length(joined) = p.end - joined.start
      /\ joined.start <= p.start
  <2>1. CASE u = NoParagraph
    <3>1. joined = p
      BY <2>1 DEF Extended
    <3> HIDE DEF joined
    <3> QED BY <1>1, <1>4, <3>1 DEF Chunk, Length
  <2>2. CASE u # NoParagraph
    <3>1. joined = Slice(u.start, p.end)
      BY <2>2 DEF Extended
    <3>2. Len(q) > 0 /\ q[Len(q)] = u
      BY <1>2, <2>2 DEF Flushed
    <3> HIDE DEF joined, q
    <3>3. joined.start = u.start /\ joined.end = p.end /\ joined \in Chunk /\ joined # NoParagraph
      BY <1>1, <1>2, <3>1 DEF Slice, Chunk, NoParagraph
    <3> QED BY <1>1, <1>6, <3>2, <3>3 DEF Length
  <2> QED BY <2>1, <2>2
<1>8. Length(joined) \in Nat /\ Length(joined) >= Length(p)
  BY <1>1, <1>7 DEF Length
<1> HIDE DEF joined
<1>9. CASE Length(p) > max
  <2> DEFINE w == CutLong(p, max)
  <2>1. next = [chunks |-> q \o w, current |-> NoParagraph]
    <3>1. ~(Length(p) <= max) /\ ~(Length(joined) <= max)
      BY <1>4, <1>8, <1>9
    <3> QED BY <1>9, <3>1 DEF AddParagraph, joined
  <2>2. /\ w \in Seq(Chunk) /\ Len(w) > 0 /\ Pieces(t, target, max, p, w)
        /\ \A n \in 1 .. Len(w) : ~Short(t, target, max, w[n])
    <3>1. p = LineAt(t, k + 1)
      BY DEF p
    <3> HIDE DEF w
    <3> QED BY <1>4, <1>9, <3>1, CutPieces DEF w
  <2> HIDE DEF w, next
  <2>3. Len(q) > 0 /\ Short(t, target, max, q[Len(q)]) => p.end - q[Len(q)].start > max
    BY <1>1, <1>6, <1>9 DEF Length
  <2>4. ChunksSoFar(t, L, target, max, k + 1, q \o w)
    BY <1>3, <1>5, <2>2, <2>3, MorePieces DEF p
  <2>5. q \o w \in Seq(Chunk) /\ Len(q \o w) \in Nat
    BY <1>5, <2>2
  <2>6. next \in [chunks : Seq(Chunk), current : Chunk] /\ next.chunks = q \o w /\ next.current = NoParagraph
    BY <1>4, <2>1, <2>5
  <2>7. ~Short(t, target, max, (q \o w)[Len(q \o w)])
    <3>1. (q \o w)[Len(q \o w)] = w[Len(w)] /\ Len(w) \in 1 .. Len(w)
      BY <1>5, <2>2
    <3> QED BY <2>2, <3>1
  <2>8. ~whole
    BY <1>4, <1>9
  <2>9. Flushed(next.chunks, next.current) = q \o w
    BY <2>6 DEF Flushed
  <2> QED BY <2>4, <2>6, <2>7, <2>8, <2>9 DEF LoopState, next, p
<1>10. CASE Length(p) <= max
  <2>1. CASE Length(joined) > max
    <3>1. next = [chunks |-> q, current |-> p]
      <4>1. ~(Length(p) > max) /\ ~(Length(joined) <= max)
        BY <1>4, <1>8, <1>10, <2>1
      <4> QED BY <1>10, <2>1, <4>1 DEF AddParagraph, joined
    <3>2. u # NoParagraph
      BY <1>1, <1>4, <1>10, <1>7, <2>1 DEF joined, Extended
    <3>3. Len(q) > 0 /\ q[Len(q)] = u
      BY <1>2, <3>2 DEF Flushed
    <3>4. joined.start = u.start
      BY <3>2 DEF joined, Extended, Slice
    <3>5. p.end - q[Len(q)].start > max
      BY <1>7, <2>1, <3>3, <3>4
    <3>6. Pieces(t, target, max, p, <<p>>)
      <4>1. Length(p) \in 1 .. max
        BY <1>4, <1>10
      <4> QED BY <1>4, <4>1, OnePiece
    <3>7. ChunksSoFar(t, L, target, max, k + 1, q \o <<p>>)
      <4>1. <<p>> \in Seq(Chunk)
        BY <1>4
      <4> QED BY <1>3, <1>5, <3>5, <3>6, <4>1, MorePieces DEF p
    <3>8. next.chunks = q /\ next.current = p
      BY <3>1
    <3> HIDE DEF next
    <3>9. next \in [chunks : Seq(Chunk), current : Chunk]
      BY <1>4, <1>5, <3>1
    <3>10. ~whole
      BY <1>1, <1>7, <2>1
    <3>11. Flushed(next.chunks, next.current) = q \o <<p>>
      <4>1. Flushed(next.chunks, next.current) = Append(q, p)
        BY <1>4, <3>8 DEF Flushed
      <4>2. Append(q, p) = q \o <<p>>
        <5> HIDE DEF q
        <5> QED BY <1>4, <1>5
      <4> QED BY <4>1, <4>2
    <3> QED BY <1>4, <3>7, <3>8, <3>9, <3>10, <3>11 DEF LoopState, next, p
  <2>2. CASE Length(joined) <= max
    <3> DEFINE r == Append(c, joined)
    <3>1. \/ next = [chunks |-> r, current |-> NoParagraph] /\ Length(joined) >= target
          \/ next = [state EXCEPT !.current = joined]
      <4>1. ~(Length(p) > max) /\ ~(Length(joined) > max)
        BY <1>4, <1>8, <1>10, <2>2
      <4> QED BY <1>10, <2>2, <4>1 DEF AddParagraph, joined
    <3>2. \/ next.chunks = r /\ next.current = NoParagraph /\ Length(joined) >= target
          \/ next.chunks = c /\ next.current = joined
      <4> HIDE DEF next
      <4> QED BY <1>2, <3>1
    <3>3. Flushed(next.chunks, next.current) = r
      <4> HIDE DEF next
      <4> QED BY <1>7, <3>2 DEF Flushed
    <3>4. r \in Seq(Chunk) /\ Len(r) = Len(c) + 1 /\ r[Len(r)] = joined /\ Len(c) \in Nat
      <4> HIDE DEF c
      <4> QED BY <1>2, <1>7
    <3>5. next \in [chunks : Seq(Chunk), current : Chunk]
      <4> HIDE DEF next, r
      <4> QED BY <1>2, <1>4, <1>7, <3>1, <3>4
    <3>6. ChunksSoFar(t, L, target, max, k + 1, r)
      <4>1. CASE u = NoParagraph
        <5>1. q = c /\ joined = p
          BY <4>1 DEF Flushed, joined, Extended
        <5>2. Len(q) > 0 => ~Short(t, target, max, q[Len(q)])
          BY <1>3, <4>1, <5>1
        <5>3. Pieces(t, target, max, p, <<p>>) /\ <<p>> \in Seq(Chunk)
          <6>1. Length(p) \in 1 .. max
            BY <1>4, <1>10
          <6> QED BY <1>4, <6>1, OnePiece
        <5>4. ChunksSoFar(t, L, target, max, k + 1, q \o <<p>>)
          BY <1>3, <1>5, <5>2, <5>3, MorePieces DEF p
        <5>5. r = q \o <<p>>
          <6> HIDE DEF q, c
          <6> QED BY <1>4, <1>5, <5>1
        <5> QED BY <5>4, <5>5
      <4>2. CASE u # NoParagraph
        <5>1. q = Append(c, u)
          BY <4>2 DEF Flushed
        <5>2. joined = Slice(u.start, p.end)
          BY <4>2 DEF joined, Extended
        <5>3. joined.start = u.start
          BY <5>2 DEF Slice
        <5>4. p.end - u.start <= max
          BY <1>7, <2>2, <5>3
        <5> HIDE DEF q, c, u
        <5> QED BY <1>2, <1>3, <5>1, <5>2, <5>4, LongerChunk DEF p
      <4> QED BY <4>1, <4>2
    <3>7. next.current = NoParagraph /\ Len(next.chunks) > 0 =>
            ~Short(t, target, max, next.chunks[Len(next.chunks)])
      <4>1. SUFFICES ASSUME next.current = NoParagraph
                     PROVE  ~Short(t, target, max, next.chunks[Len(next.chunks)])
        OBVIOUS
      <4>2. next.chunks = r /\ Length(joined) >= target
        BY <1>7, <3>2, <4>1
      <4>3. ~(Length(joined) < target)
        BY <1>1, <1>7, <4>2
      <4> QED BY <3>4, <4>2, <4>3 DEF Short
    <3>8. whole => Len(r) <= 1 /\ (k + 1 <= L => next.chunks = <<>>)
      <4>1. SUFFICES ASSUME whole PROVE Len(r) <= 1 /\ (k + 1 <= L => next.chunks = <<>>)
        OBVIOUS
      <4>2. c = <<>> /\ Len(c) = 0
        BY <1>3, <4>1
      <4>3. k + 1 <= L => next.chunks = c
        <5>1. SUFFICES ASSUME k + 1 <= L PROVE ~(Length(joined) >= target)
          BY <3>2
        <5> QED BY <1>1, <1>7, <4>1, <5>1
      <4> QED BY <3>4, <4>2, <4>3
    <3> HIDE DEF next, r, whole
    <3>9. LoopState(t, L, target, max, k + 1, next)
      BY <3>3, <3>5, <3>6, <3>7, <3>8 DEF LoopState, whole
    <3> QED BY <3>9 DEF next, p
  <2> QED BY <1>1, <1>7, <2>1, <2>2
<1> QED BY <1>4, <1>9, <1>10

\* What the loop over the paragraphs carries along.
ChunkStates == [chunks : Seq(Chunk), current : Chunk]

\* A paragraph adds chunks to it.
LEMMA AddedState ==
  ASSUME NEW t, NEW L \in Nat, L = Len(t), NEW k, IsParagraph(t, k), NEW state \in ChunkStates,
         NEW target \in Nat, NEW max \in Nat \ {0}, NEW min
  PROVE  AddParagraph(state, LineAt(t, k), target, max, min) \in ChunkStates
<1> DEFINE p == LineAt(t, k)
           joined == Extended(state.current, p)
           before == Flushed(state.chunks, state.current)
           w == CutLong(p, max)
<1>1. p \in Chunk /\ p.start <= p.end
  <2>1. k \in LineEnds(t) /\ LineAt(t, k).start \in 0 .. k - 2 /\ k \in 2 .. L + 1
    BY ParagraphFacts
  <2>2. p.end = k - 1 /\ p = Slice(p.start, k - 1)
    BY <2>1, LineFacts
  <2> HIDE DEF p
  <2>3. p.start \in Nat /\ p.end \in Nat /\ p.start <= p.end
    BY <2>1, <2>2 DEF p
  <2> QED BY <2>2, <2>3 DEF Chunk, Slice
<1> HIDE DEF p
<1>2. state.chunks \in Seq(Chunk) /\ state.current \in Chunk
  BY DEF ChunkStates
<1>3. joined \in Chunk /\ NoParagraph \in Chunk
  <2>1. Slice(state.current.start, p.end) \in Chunk /\ NoParagraph \in Chunk
    BY <1>1, <1>2 DEF Chunk, Slice, NoParagraph
  <2> QED BY <1>1, <2>1 DEF Extended
<1>4. before \in Seq(Chunk)
  BY <1>2 DEF Flushed
<1>5. Length(p) > max => w \in Seq(Chunk)
  BY <1>1, LongFacts
<1> HIDE DEF joined, before, w
<1>6. Length(p) > max => before \o w \in Seq(Chunk)
  BY <1>4, <1>5
<1>7. Append(state.chunks, joined) \in Seq(Chunk)
  BY <1>2, <1>3
<1>8. /\ Length(p) > max => [chunks |-> before \o w, current |-> NoParagraph] \in ChunkStates
      /\ [chunks |-> before, current |-> p] \in ChunkStates
      /\ [chunks |-> Append(state.chunks, joined), current |-> NoParagraph] \in ChunkStates
      /\ [state EXCEPT !.current = joined] \in ChunkStates
  BY <1>1, <1>3, <1>4, <1>6, <1>7 DEF ChunkStates
<1>9. AddParagraph(state, p, target, max, min) \in ChunkStates
  BY <1>8 DEF AddParagraph, joined, before, w
<1> QED BY <1>9 DEF p

\* The loop takes the lines one by one.
ChunkedAt(t, f, k, target, max, min) ==
  IF k = 0 THEN [chunks |-> <<>>, current |-> NoParagraph]
  ELSE IF IsParagraph(t, k)
       THEN AddParagraph(f[k - 1], LineAt(t, k), target, max, min)
       ELSE f[k - 1]

\* The loop is a function: its value at a line follows from that at the line before.
LEMMA ChunkLoop ==
  ASSUME NEW t, NEW L \in Nat, L = Len(t), NEW target \in Nat, NEW max \in Nat \ {0}, NEW min
  PROVE  \E f : /\ \A k \in 0 .. L + 1 : f[k] = ChunkedAt(t, f, k, target, max, min)
                /\ ChunksOf(t, target, max, min) = Flushed(f[L + 1].chunks, f[L + 1].current)
<1> DEFINE S == 0 .. L + 1
           V == ChunkStates
           add(state, k) == AddParagraph(state, LineAt(t, k), target, max, min)
           none == [chunks |-> <<>>, current |-> NoParagraph]
           body(f, k) == IF k = 0 THEN none
                         ELSE IF IsParagraph(t, k) THEN add(f[k - 1], k) ELSE f[k - 1]
           done == {0}
           size == [k \in S |-> k]
           out == [k \in S |-> none]
           next == [k \in S |-> IF k = 0 THEN 0 ELSE k - 1]
           comb == [c \in S \X V |-> IF IsParagraph(t, c[1]) THEN add(c[2], c[1]) ELSE c[2]]
           is(f) == f = [k \in S |-> body(f, k)]
<1>1. none \in V
  <2>1. <<>> \in Seq(Chunk) /\ NoParagraph \in Chunk
    BY DEF NoParagraph, Slice, Chunk
  <2> QED BY <2>1 DEF ChunkStates
<1>2. ASSUME NEW c \in S \X V, IsParagraph(t, c[1]) PROVE add(c[2], c[1]) \in V
  <2>1. c[2] \in ChunkStates
    OBVIOUS
  <2> HIDE DEF S, V
  <2> QED BY <1>2, <2>1, AddedState DEF V
<1> HIDE DEF V, none, add
<1>3. Descends(S, V, L + 1, size, done, out, next, comb)
  <2>1. L + 1 \in Nat /\ size \in [S -> 0 .. L + 1] /\ next \in [S -> S]
    OBVIOUS
  <2>2. out \in [S -> V]
    BY <1>1
  <2>3. comb \in [S \X V -> V]
    <3>1. \A c \in S \X V : (IF IsParagraph(t, c[1]) THEN add(c[2], c[1]) ELSE c[2]) \in V
      BY <1>2
    <3> HIDE DEF S
    <3> QED BY <3>1
  <2>4. \A k \in S : k \notin done => size[next[k]] < size[k]
    OBVIOUS
  <2> HIDE DEF S, size, done, out, next, comb
  <2> QED BY <2>1, <2>2, <2>3, <2>4 DEF Descends
<1>4. PICK g \in [S -> V] :
         \A k \in S : g[k] = IF k \in done THEN out[k] ELSE comb[<<k, g[next[k]]>>]
  <2> HIDE DEF S, size, done, out, next, comb
  <2> QED BY <1>3, Recursion
<1>5. is(g)
  <2>1. ASSUME NEW k \in S PROVE g[k] = body(g, k)
    <3>1. CASE k = 0
      BY <1>4, <3>1
    <3>2. CASE k # 0
      <4>1. next[k] = k - 1 /\ k - 1 \in S /\ k \notin done
        BY <3>2
      <4>2. <<k, g[k - 1]>> \in S \X V
        BY <1>4, <4>1
      <4>3. comb[<<k, g[k - 1]>>] = IF IsParagraph(t, k) THEN add(g[k - 1], k) ELSE g[k - 1]
        <5> HIDE DEF S
        <5> QED BY <4>2
      <4> HIDE DEF S, done, out, next, comb
      <4> QED BY <1>4, <3>2, <4>1, <4>3
    <3> QED BY <3>1, <3>2
  <2> HIDE DEF body, S
  <2> QED BY <1>4, <2>1
<1> DEFINE after == CHOOSE f : is(f)
<1>6. is(after)
  <2> HIDE DEF is
  <2> QED BY <1>5
<1>7. ChunksOf(t, target, max, min) = Flushed(after[L + 1].chunks, after[L + 1].current)
  BY DEF ChunksOf, add, none
<1> HIDE DEF after
<1>8. \A k \in 0 .. L + 1 : after[k] = ChunkedAt(t, after, k, target, max, min)
  BY <1>6 DEF ChunkedAt, add, none
<1> QED BY <1>7, <1>8

\* What holds of the chunks when all lines have been read.
LEMMA ChunkedFacts ==
  ASSUME NEW t, NEW L \in Nat, L = Len(t), NEW target \in Nat, NEW max \in Nat \ {0}, NEW min
  PROVE  /\ ChunksOf(t, target, max, min) \in Seq(Chunk)
         /\ ChunksSoFar(t, L, target, max, L + 1, ChunksOf(t, target, max, min))
         /\ L <= max /\ L <= target => Len(ChunksOf(t, target, max, min)) <= 1
<1>1. PICK f : /\ \A k \in 0 .. L + 1 : f[k] = ChunkedAt(t, f, k, target, max, min)
               /\ ChunksOf(t, target, max, min) = Flushed(f[L + 1].chunks, f[L + 1].current)
  BY ChunkLoop
<1> DEFINE P == {k \in 0 .. L + 1 : LoopState(t, L, target, max, k, f[k])}
<1>2. 0 \in P
  <2>1. 0 \in 0 .. L + 1
    OBVIOUS
  <2>2. f[0] = [chunks |-> <<>>, current |-> NoParagraph]
    BY <1>1, <2>1 DEF ChunkedAt
  <2>3. f[0].chunks = <<>> /\ f[0].current = NoParagraph
    BY <2>2
  <2>4. f[0] \in [chunks : Seq(Chunk), current : Chunk]
    <3>1. <<>> \in Seq(Chunk) /\ NoParagraph \in Chunk
      BY DEF NoParagraph, Slice, Chunk
    <3> QED BY <2>2, <3>1
  <2>5. Flushed(f[0].chunks, f[0].current) = <<>>
    BY <2>3 DEF Flushed
  <2>6. ChunksSoFar(t, L, target, max, 0, <<>>)
    <3>1. \A e \in LineEnds(t) : ~(e <= 0)
      <4>1. \A e \in LineEnds(t) : e \in 1 .. L + 1
        BY DEF LineEnds
      <4> QED BY <4>1
    <3>2. \A n \in 1 .. Len(<<>>) : FALSE
      OBVIOUS
    <3>3. \A n \in 2 .. Len(<<>>) : FALSE
      OBVIOUS
    <3> QED BY <3>1, <3>2, <3>3 DEF ChunksSoFar
  <2>7. LoopState(t, L, target, max, 0, f[0])
    BY <2>3, <2>4, <2>5, <2>6 DEF LoopState
  <2> QED BY <2>1, <2>7
<1>3. ASSUME NEW k \in 0 .. L + 1, k < L + 1, k \in P PROVE k + 1 \in P
  <2>1. k + 1 \in 0 .. L + 1 /\ k + 1 # 0 /\ (k + 1) - 1 = k /\ k \in Nat /\ k <= L
    BY <1>3
  <2>2. LoopState(t, L, target, max, k, f[k])
    BY <1>3
  <2>3. f[k + 1] = ChunkedAt(t, f, k + 1, target, max, min)
    BY <1>1, <2>1
  <2>4. CASE IsParagraph(t, k + 1)
    <3>1. f[k + 1] = AddParagraph(f[k], LineAt(t, k + 1), target, max, min)
      BY <2>1, <2>3, <2>4 DEF ChunkedAt
    <3>2. LoopState(t, L, target, max, k + 1, f[k + 1])
      BY <2>1, <2>2, <2>4, <3>1, AddKeeps
    <3> QED BY <2>1, <3>2
  <2>5. CASE ~IsParagraph(t, k + 1)
    <3>1. f[k + 1] = f[k]
      BY <2>1, <2>3, <2>5 DEF ChunkedAt
    <3> DEFINE q == Flushed(f[k].chunks, f[k].current)
    <3>2. q \in Seq(Chunk) /\ ChunksSoFar(t, L, target, max, k, q)
      BY <2>2 DEF LoopState, Flushed
    <3> HIDE DEF q
    <3>3. ChunksSoFar(t, L, target, max, k + 1, q)
      BY <2>1, <2>5, <3>2, BlankLine
    <3>4. LoopState(t, L, target, max, k + 1, f[k])
      BY <2>1, <2>2, <3>3 DEF LoopState, q
    <3> QED BY <2>1, <3>1, <3>4
  <2> QED BY <2>4, <2>5
<1>4. L + 1 \in P
  <2>1. L + 1 \in Nat /\ L + 1 \in 0 .. L + 1
    OBVIOUS
  <2> HIDE DEF P
  <2> QED BY <1>2, <1>3, <2>1, UpTo
<1>5. LoopState(t, L, target, max, L + 1, f[L + 1])
  BY <1>4
<1> QED BY <1>1, <1>5 DEF LoopState, Flushed

\* The chunks of every text leave out no word, keep paragraphs whole and the limits.
LEMMA ChunksAreGood ==
  ASSUME NEW t \in Seq(Characters), text = t, slices = EpisodeChunks(t)
  PROVE  Covers /\ ChunksAreWhole
<1> DEFINE L == Len(t)
           max == IF L <= WholeMax THEN WholeMax ELSE ChunkMax
           target == IF L <= WholeMax THEN WholeMax ELSE ChunkTarget
           E == L + 1
<1>1. L \in Nat /\ DOMAIN t = 1 .. L /\ max \in Nat \ {0} /\ target \in Nat
  BY ChunksAssumption
<1>2. slices = ChunksOf(t, target, max, ChunkMin)
  BY DEF EpisodeChunks
<1>3. L <= WholeMax => L <= max /\ L <= target
  OBVIOUS
<1>4. ChunksAreWhole <=>
        LET fitting == {p \in Paragraphs(t) : Length(p) <= max}
            joined == {s \in ToSet(slices) : \E p \in fitting : p.start = s.start}
        IN /\ \A s \in ToSet(slices) : Length(s) \in 1 .. max
           /\ \A n \in 2 .. Len(slices) : slices[n - 1].end <= slices[n].start
           /\ \A p \in fitting : \E s \in ToSet(slices) : s.start <= p.start /\ p.end <= s.end
           /\ L <= WholeMax => Len(slices) <= 1
           /\ \A n \in 2 .. Len(slices) :
                slices[n - 1] \in joined /\ Length(slices[n - 1]) < target =>
                  \E p \in Paragraphs(t) :
                    /\ p.start >= slices[n - 1].end /\ p.start = slices[n].start
                    /\ p.end - slices[n - 1].start > max
  BY DEF ChunksAreWhole
<1> HIDE DEF L, max, target
<1> DEFINE q == slices
<1>5. /\ q \in Seq(Chunk) /\ ChunksSoFar(t, L, target, max, E, q)
      /\ L <= max /\ L <= target => Len(q) <= 1
  BY <1>1, <1>2, ChunkedFacts DEF L
<1>6. /\ Len(q) \in Nat /\ \A n \in 1 .. Len(q) : q[n] \in ToSet(q)
      /\ \A s \in ToSet(q) : \E n \in 1 .. Len(q) : s = q[n]
  <2>1. DOMAIN q = 1 .. Len(q) /\ Len(q) \in Nat
    BY <1>5
  <2> QED BY <2>1 DEF ToSet
<1>7. \A n \in 1 .. Len(q) : q[n].start \in Nat /\ q[n].end \in Nat /\ q[n].start < q[n].end
  <2> TAKE n \in 1 .. Len(q)
  <2>1. q[n] \in Chunk
    BY <1>5
  <2>2. Length(q[n]) \in 1 .. max
    BY <1>5 DEF ChunksSoFar
  <2> QED BY <1>1, <2>1, <2>2 DEF Chunk, Length
<1>8. E \in LineEnds(t) /\ E <= E /\ \A e \in LineEnds(t) : e \in 1 .. L + 1 /\ e <= E
  <2>1. \A e \in LineEnds(t) : e \in 1 .. L + 1
    BY <1>1 DEF LineEnds, L
  <2>2. L + 1 \in LineEnds(t)
    BY <1>1 DEF LineEnds, L
  <2> QED BY <1>1, <2>1, <2>2
<1>9. Covers
  <2>1. ASSUME NEW j \in DOMAIN text, text[j] \notin Blank
        PROVE  \E s \in ToSet(slices) : s.start < j /\ j <= s.end
    <3>1. j \in 1 .. E - 1 /\ t[j] \notin Blank /\ j \in Nat
      BY <1>1, <2>1
    <3>2. PICK n \in 1 .. Len(q) : Holds(q[n], j - 1, j)
      BY <1>5, <1>8, <3>1 DEF ChunksSoFar
    <3>3. q[n].start < j /\ j <= q[n].end
      BY <1>7, <3>1, <3>2 DEF Holds
    <3> QED BY <1>6, <3>3
  <2>2. ASSUME NEW n \in 2 .. Len(slices)
        PROVE  slices[n - 1].start < slices[n].start /\ slices[n - 1].end < slices[n].end
    <3>1. n \in 1 .. Len(q) /\ n - 1 \in 1 .. Len(q)
      BY <1>6
    <3>2. q[n - 1].end <= q[n].start
      BY <1>5 DEF ChunksSoFar
    <3> QED BY <1>7, <3>1, <3>2
  <2> QED BY <2>1, <2>2 DEF Covers
<1>10. \A p \in Paragraphs(t) : \E e \in LineEnds(t) : IsParagraph(t, e) /\ p = LineAt(t, e)
  BY DEF Paragraphs
<1>11. \A e \in LineEnds(t) : IsParagraph(t, e) => LineAt(t, e) \in Paragraphs(t)
  BY DEF Paragraphs
<1>12. ASSUME NEW p \in Paragraphs(t), Length(p) <= max
       PROVE  \E s \in ToSet(q) : s.start <= p.start /\ p.end <= s.end
  <2>1. PICK e \in LineEnds(t) : IsParagraph(t, e) /\ p = LineAt(t, e)
    BY <1>10
  <2>2. PICK n \in 1 .. Len(q) : Holds(q[n], p.start, p.end)
    BY <1>5, <1>8, <1>12, <2>1 DEF ChunksSoFar
  <2> QED BY <1>6, <2>2 DEF Holds
<1>13. ASSUME NEW n \in 2 .. Len(q), Length(q[n - 1]) < target,
              NEW d \in Paragraphs(t), Length(d) <= max, d.start = q[n - 1].start
       PROVE  \E p \in Paragraphs(t) :
                 /\ p.start >= q[n - 1].end /\ p.start = q[n].start /\ p.end - q[n - 1].start > max
  <2>1. Short(t, target, max, q[n - 1])
    BY <1>10, <1>13 DEF Short
  <2>2. PICK e \in LineEnds(t) :
          /\ IsParagraph(t, e) /\ LineAt(t, e).start >= q[n - 1].end
          /\ LineAt(t, e).start = q[n].start /\ LineAt(t, e).end - q[n - 1].start > max
    BY <1>5, <2>1 DEF ChunksSoFar
  <2> QED BY <1>11, <2>2
<1>14. \A s \in ToSet(q) : Length(s) \in 1 .. max
  BY <1>5, <1>6 DEF ChunksSoFar
<1>15. \A n \in 2 .. Len(q) : q[n - 1].end <= q[n].start
  BY <1>5 DEF ChunksSoFar
<1>16. ChunksAreWhole
  BY <1>3, <1>4, <1>5, <1>12, <1>13, <1>14, <1>15 DEF max, target
<1> QED BY <1>9, <1>16

-----------------------------------------------------------------------------
\* Whatever a text is cut into

\* The slices are those of the text, for what it is cut into.
SlicesIInv ==
  cutting # "none" =>
    /\ text \in Seq(Characters)
    /\ cutting = "chunks" => slices = EpisodeChunks(text)
    /\ cutting = "retrieval" => slices = RetrievalSlices(text)
    /\ cutting = "setting" => slices = SettingSegments(text)

\* The chunks, the slices and the segments of every text, at every limit of the
\* configuration: no word is left out between two of them, they come in order, each is
\* within its limit, and a cut is made where it may be.
THEOREM SlicesHold == SlicesSpec => []SlicesCover
<1>1. SlicesInit => SlicesIInv
  BY DEF SlicesInit, SlicesIInv
<1>2. SlicesIInv /\ [SlicesNext]_slicing => SlicesIInv'
  <2> SUFFICES ASSUME SlicesIInv, [SlicesNext]_slicing PROVE SlicesIInv'
    OBVIOUS
  <2>1. CASE SlicesNext
    <3>1. PICK n \in 0 .. MaxLength : \E t \in [1 .. n -> Characters] :
            ChunkEpisode(t) \/ SliceForRetrieval(t) \/ SegmentForSetting(t)
      BY <2>1 DEF SlicesNext
    <3>2. PICK t \in [1 .. n -> Characters] :
            ChunkEpisode(t) \/ SliceForRetrieval(t) \/ SegmentForSetting(t)
      BY <3>1
    <3>3. t \in Seq(Characters)
      <4>1. n \in Nat
        OBVIOUS
      <4> HIDE DEF Characters
      <4> QED BY <4>1
    <3>4. CASE ChunkEpisode(t)
      BY <3>3, <3>4 DEF ChunkEpisode, SlicesIInv
    <3>5. CASE SliceForRetrieval(t)
      BY <3>3, <3>5 DEF SliceForRetrieval, SlicesIInv
    <3>6. CASE SegmentForSetting(t)
      BY <3>3, <3>6 DEF SegmentForSetting, SlicesIInv
    <3> QED BY <3>2, <3>4, <3>5, <3>6
  <2>2. CASE UNCHANGED slicing
    BY <2>2 DEF SlicesIInv, slicing
  <2> QED BY <2>1, <2>2
<1>3. SlicesIInv => SlicesCover
  <2> SUFFICES ASSUME SlicesIInv PROVE SlicesCover
    OBVIOUS
  <2>1. cutting = "chunks" => Covers /\ ChunksAreWhole
    BY ChunksAreGood DEF SlicesIInv
  <2>2. cutting = "retrieval" => Covers /\ SlicesAreBounded
    BY RetrievalIsGood DEF SlicesIInv
  <2>3. SegmentsCover
    BY SegmentsAreGood DEF SlicesIInv, SegmentsCover
  <2> QED BY <2>1, <2>2, <2>3 DEF SlicesCover
<1>4. QED BY <1>1, <1>2, <1>3, PTL DEF SlicesSpec
=============================================================================
