--------------------------- MODULE RetrievalIndex ---------------------------
(***************************************************************************)
(* The retrieval index of one work (app/retrieval/store.py) and the fill a *)
(* validation run makes of its gaps (app/validation/index_fill.py).  A     *)
(* source is an episode or the current revision of a setting book; the     *)
(* index keeps a header with the version it was cut from and one row per   *)
(* chunk.  Each transaction of the store locks the work row, as every edit *)
(* by Spring does, so each is one step here; reading the text and calling  *)
(* the provider happen between them.                                       *)
(***************************************************************************)
EXTENDS Naturals, FiniteSets

CONSTANTS Episodes, Books,  \* the sources of the work
          Chunks,           \* Chunks[v]: how many chunks version v of a text has
          BatchSize,        \* how many chunks one provider call embeds
          Fills,            \* the validation runs that fill gaps at the same time
          MaxEvents         \* bound: edits, purges, fills, and what the campaign adds

Sources == Episodes \union Books
Versions == DOMAIN Chunks

ASSUME IndexAssumption ==
  /\ Episodes \intersect Books = {}
  /\ Versions = 1..(MaxEvents + 1) /\ \A v \in Versions : Chunks[v] \in Nat \ {0}
  /\ BatchSize \in Nat \ {0} /\ MaxEvents \in Nat

VARIABLES
  src,    \* [Sources -> [ver, open]]: the text Spring has; open: AVAILABLE
  idx,    \* [Sources -> [ver, rows]]: header (ver 0: none) and chunk rows
  fill,   \* [Fills -> the state of a validation fill]
  events  \* how many bounded events there were

indexVars == <<src, idx, fill>>

NoIndex == [ver |-> 0, rows |-> <<>>]
NoFill == [pc |-> "idle", s |-> "none", ver |-> 0, missing |-> {}, batch |-> {}]

IndexInit ==
  /\ src = [s \in Sources |-> [ver |-> 1, open |-> TRUE]]
  /\ idx = [s \in Sources |-> NoIndex]
  /\ fill = [f \in Fills |-> NoFill]
  /\ events = 0

Event == events < MaxEvents /\ events' = events + 1

-----------------------------------------------------------------------------
\* Spring, in a transaction that holds the work row.  Every save has its own key,
\* so a version never comes back; a book's rows go with its old revision.

Edit(s) ==
  /\ Event /\ src[s].open
  /\ src' = [src EXCEPT ![s].ver = @ + 1]
  /\ idx' = IF s \in Books THEN [idx EXCEPT ![s] = NoIndex] ELSE idx
  /\ UNCHANGED fill

\* A purge request for an episode, or a book that is archived.
Purge(s) ==
  /\ Event /\ src[s].open
  /\ src' = [src EXCEPT ![s].open = FALSE]
  /\ idx' = IF s \in Books THEN [idx EXCEPT ![s] = NoIndex] ELSE idx
  /\ UNCHANGED fill

-----------------------------------------------------------------------------
\* RetrievalStore

Rows(s) == DOMAIN idx[s].rows
Ready(s) == {i \in Rows(s) : idx[s].rows[i].status = "READY"}

\* _current and _matches: v is the version the caller read.
Current(s, v) == src[s].open /\ src[s].ver = v
Matches(s, v) == idx[s].ver = v

\* inspect: complete and of the version asked for.
Complete(s, v) == Current(s, v) /\ Matches(s, v) /\ Ready(s) = 1..Chunks[v]

\* prepare: rows of the same version are kept, others are replaced.
Prepared(s, v) ==
  IF Matches(s, v) THEN idx
  ELSE [idx EXCEPT ![s] = [ver |-> v,
          rows |-> [i \in 1..Chunks[v] |-> [status |-> "MISSING", vec |-> 0]]]]

Missing(s, v) == {i \in 1..Chunks[v] : ~Matches(s, v) \/ i \notin Ready(s)}

\* Mutant: what the caller read is taken to be what is stored.
ValidOnce(s, v) == TRUE

\* _validate, under the work lock: the source is current and the header is its.
\* The rows of one version are made once, so the caller's chunks are there.
Valid(s, v) == Current(s, v) /\ Matches(s, v)

\* save: the vectors were made from the text of version v.
Saved(s, v, batch) ==
  [idx EXCEPT ![s].rows = [i \in DOMAIN @ |->
     IF i \in batch THEN [status |-> "READY", vec |-> v] ELSE @[i]]]

\* failed: whatever the status of the rows is by now.
Marked(s, batch) ==
  [idx EXCEPT ![s].rows = [i \in DOMAIN @ |->
     IF i \in batch THEN [@[i] EXCEPT !.status = "FAILED"] ELSE @[i]]]

\* The next chunks of those that were missing when the source was prepared.
Batch(missing) ==
  {i \in missing : Cardinality({j \in missing : j < i}) < BatchSize}

-----------------------------------------------------------------------------
\* ValidationIndexFill.  The manifest of the run froze the versions at intake.

FillKeeps == UNCHANGED <<src, events>>
Filling(f, pc) == fill[f].pc = pc
FillEnds(f) == fill' = [fill EXCEPT ![f] = NoFill]

\* The sources of a fill are filled one after the other and share nothing: a fill
\* is modelled for the source it picks.
FillIntake(f, s) ==
  /\ Event /\ Filling(f, "idle") /\ src[s].open
  /\ fill' = [fill EXCEPT ![f].pc = "frozen", ![f].s = s, ![f].ver = src[s].ver]
  /\ UNCHANGED <<src, idx>>

\* gaps: a source without one is skipped, whatever its current text is.  Otherwise
\* the text is read (the data API checks that it is the frozen one), cut and
\* prepared; SourceChanged ends the fill.
FillPrepare(f) ==
  LET s == fill[f].s
      v == fill[f].ver
  IN  /\ Filling(f, "frozen")
      /\ IF Missing(s, v) # {} /\ Current(s, v)
         THEN /\ idx' = Prepared(s, v)
              /\ fill' = [fill EXCEPT ![f].pc = "batch", ![f].missing = Missing(s, v)]
         ELSE FillEnds(f) /\ UNCHANGED idx
      /\ FillKeeps

\* validate and attempted, then the call; without a batch left the fill is done.
FillCall(f) ==
  /\ Filling(f, "batch")
  /\ IF fill[f].missing # {} /\ Valid(fill[f].s, fill[f].ver)
     THEN fill' = [fill EXCEPT ![f].pc = "called", ![f].batch = Batch(fill[f].missing)]
     ELSE FillEnds(f)
  /\ UNCHANGED idx /\ FillKeeps

\* The vectors arrive and are saved under the lock, if the source is still theirs.
FillSave(f) ==
  /\ Filling(f, "called")
  /\ IF Valid(fill[f].s, fill[f].ver)
     THEN /\ idx' = Saved(fill[f].s, fill[f].ver, fill[f].batch)
          /\ fill' = [fill EXCEPT ![f].pc = "batch", ![f].missing = @ \ fill[f].batch,
                         ![f].batch = {}]
     ELSE FillEnds(f) /\ UNCHANGED idx
  /\ FillKeeps

\* The call fails: _mark_failed, and the fill ends.
FillFails(f) ==
  /\ Filling(f, "called")
  /\ idx' = IF Valid(fill[f].s, fill[f].ver) THEN Marked(fill[f].s, fill[f].batch) ELSE idx
  /\ FillEnds(f) /\ FillKeeps

\* The run is cancelled, loses its lease or its process, or its database fails.
FillStops(f) ==
  /\ ~Filling(f, "idle")
  /\ FillEnds(f)
  /\ UNCHANGED idx /\ FillKeeps

FillStep(f) ==
  \/ \E s \in Sources : FillIntake(f, s)
  \/ FillPrepare(f) \/ FillCall(f) \/ FillSave(f) \/ FillFails(f) \/ FillStops(f)

IndexNext ==
  \/ \E s \in Sources : Edit(s) \/ Purge(s)
  \/ \E f \in Fills : FillStep(f)

-----------------------------------------------------------------------------
IndexTypeOK ==
  /\ src \in [Sources -> [ver : Versions, open : BOOLEAN]]
  /\ \A s \in Sources :
       /\ idx[s].ver \in Versions \union {0}
       /\ Rows(s) = IF idx[s].ver = 0 THEN {} ELSE 1..Chunks[idx[s].ver]
       /\ \A i \in Rows(s) :
            idx[s].rows[i] \in [status : {"MISSING", "READY", "FAILED"}, vec : Versions \union {0}]
  /\ events \in 0..MaxEvents
  /\ \A f \in Fills :
       /\ fill[f].pc \in {"idle", "frozen", "batch", "called"}
       /\ fill[f].batch \subseteq fill[f].missing

\* A vector is served only with the text it was made from: a row that search may
\* return holds a vector of the very version its text was cut from, whoever else
\* prepared, embedded or edited the source meanwhile (store.py save, _validate).
VectorsFit ==
  \A s \in Sources : \A i \in Ready(s) : idx[s].rows[i].vec = idx[s].ver
=============================================================================
