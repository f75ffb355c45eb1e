---------------------------- MODULE WorldRecovery ----------------------------
(***************************************************************************)
(* The recovery of a rejected answer on a batch of world settings          *)
(* (app/analysis/world_setting_batch_recovery.py).  Each row of the answer *)
(* becomes a group: the sources it decides and the paths it reads, writes  *)
(* and creates.  The groups that depend on a rejected one are compared     *)
(* again together, once; what still fails takes everything with it that    *)
(* depends on it, and the rest of the answer is kept.                      *)
(***************************************************************************)
EXTENDS Naturals, FiniteSets

CONSTANTS Sources,          \* the candidates of the batch
          Unit,             \* [Sources -> path]: the setting a candidate is about
          Paths,            \* the settings a decision may name
          Within,           \* <<scope, path>>: a setting that is the scope of another
          Footprints,       \* what one decision may touch
          MaxRows,          \* bound: rows of an answer
          MaxRecoveryCalls  \* max_recovery_calls

Footprint == [reads : SUBSET Paths, writes : SUBSET Paths, scopes : SUBSET Paths]

ASSUME SourcesAssumption == IsFiniteSet(Sources) /\ Sources # {} /\ Unit \in [Sources -> Paths]
ASSUME FootprintsAssumption == Footprints \subseteq Footprint /\ Within \subseteq Paths \X Paths
ASSUME RecoveryCallsAssumption == MaxRows \in Nat /\ MaxRecoveryCalls \in Nat

VARIABLES
  phase,    \* where recover_world_batch is
  groups,   \* its groups
  calls,    \* the recovery calls made
  retried,  \* [Sources -> how often the source was compared again]
  tried     \* what the rejected answers on a failed group's sources named

recovery == <<phase, groups, calls, retried, tried>>

\* A group has a number of its own: two rows may be alike.
Group(id, refs, foot, st) == [id |-> id, refs |-> refs, foot |-> foot, st |-> st]

Nothing == [reads |-> {}, writes |-> {}, scopes |-> {}]

RecoveryInit ==
  /\ phase = "idle"
  /\ groups = {} /\ calls = 0
  /\ retried = [s \in Sources |-> 0]
  /\ tried = {}

-----------------------------------------------------------------------------
\* Dependencies

Failed == {g \in groups : g.st = "failed"}
Successful == {g \in groups : g.st = "ok"}

RefsOf(gs) == UNION {g.refs : g \in gs}

\* _overlap: the same setting, or one is the scope of the other.
Overlap(p, q) == p = q \/ <<p, q>> \in Within \/ <<q, p>> \in Within

\* A write meets a read or a write, or both create the same scope.
Touches(f, g) ==
  \/ f.scopes \intersect g.scopes # {}
  \/ \E p \in f.writes, q \in g.reads \union g.writes : Overlap(p, q)
  \/ \E p \in g.writes, q \in f.reads \union f.writes : Overlap(p, q)

\* Mutant: rows on the same source need not touch each other.
DependentOnPaths(g, h) == Touches(g.foot, h.foot)

\* _dependent
Dependent(g, h) == g.refs \intersect h.refs # {} \/ Touches(g.foot, h.foot)

Closed(gs, part) == \A g \in part, h \in gs \ part : ~Dependent(g, h)

\* _components: the smallest parts that depend on nothing outside.
Component(gs, g) ==
  {h \in gs : \A part \in SUBSET gs : (g \in part /\ Closed(gs, part)) => h \in part}

Components(gs) == {Component(gs, g) : g \in gs}

Merged(f, g) == [reads |-> f.reads \union g.reads, writes |-> f.writes \union g.writes,
                 scopes |-> f.scopes \union g.scopes]

MergedOf(gs) == [reads |-> UNION {g.foot.reads : g \in gs},
                 writes |-> UNION {g.foot.writes : g \in gs},
                 scopes |-> UNION {g.foot.scopes : g \in gs}]

Became(gs, st) == {[g EXCEPT !.st = st] : g \in gs}

-----------------------------------------------------------------------------
\* The rejected answer

\* Without rows there is nothing to save: the whole batch is compared again.
Unreadable ==
  /\ phase = "idle"
  /\ groups' = {Group(1, Sources, Nothing, "retry")}
  /\ phase' = "retry"
  /\ UNCHANGED <<calls, retried, tried>>

\* A row that names a source of the batch, valid by itself or not.
Row(refs, foot, valid) ==
  /\ phase = "idle" /\ Cardinality(groups) < MaxRows
  /\ groups' = groups \union
       {Group(Cardinality(groups) + 1, refs, foot, IF valid THEN "ok" ELSE "failed")}
  /\ UNCHANGED <<phase, calls, retried, tried>>

\* The sources no row names, by setting.
Missing ==
  LET absent == Sources \ RefsOf(groups)
      unit(p) == {s \in absent : Unit[s] = p}
      paths == {Unit[s] : s \in absent}
      number == CHOOSE f \in [paths -> MaxRows + 1..MaxRows + Cardinality(paths)] :
                  \A p, q \in paths : p # q => f[p] # f[q]
  IN {Group(number[p], unit(p), Nothing, "failed") : p \in paths}

\* Every row that shares a source with another is rejected.
Duplicated(g) == \E h \in groups : h.id # g.id /\ h.refs \intersect g.refs # {}

RowsRead ==
  /\ phase = "idle" /\ groups # {}
  /\ groups' = {IF Duplicated(g) THEN [g EXCEPT !.st = "failed"] ELSE g : g \in groups}
               \union Missing
  /\ phase' = "combined"
  /\ UNCHANGED <<calls, retried, tried>>

\* The valid rows contradict each other: those that are named are rejected, or
\* all of them.
CombinedInvalid(affected) ==
  /\ phase = "combined"
  /\ affected # {} /\ affected \subseteq Successful
  /\ groups' = (groups \ affected) \union Became(affected, "failed")
  /\ UNCHANGED <<phase, calls, retried, tried>>

Joint(part) ==
  IF \A g \in part : g.st = "ok" THEN part
  ELSE LET first == CHOOSE g \in part : \A h \in part : g.id <= h.id
       IN {Group(first.id, RefsOf(part), MergedOf(part), "retry")}

\* The rows agree.  Each component with a rejected row becomes one group.
CombinedValid ==
  /\ phase = "combined"
  /\ groups' = UNION {Joint(part) : part \in Components(groups)}
  /\ phase' = "retry"
  /\ UNCHANGED <<calls, retried, tried>>

-----------------------------------------------------------------------------
\* The second comparison of a joint group

Retries(g) ==
  /\ phase = "retry" /\ g.st = "retry" /\ calls < MaxRecoveryCalls
  /\ \A h \in groups : h.st = "retry" => g.id <= h.id
  /\ calls' = calls + 1
  /\ retried' = [s \in Sources |-> retried[s] + IF s \in g.refs THEN 1 ELSE 0]

\* A valid answer replaces all that was rejected.
RetryValid(g, foot) ==
  /\ Retries(g)
  /\ groups' = (groups \ {g}) \union {[g EXCEPT !.foot = foot, !.st = "ok"]}
  /\ UNCHANGED <<phase, tried>>

\* Mutant: what the second answer would have touched is forgotten.
RetryForgotten(g, foot) ==
  /\ Retries(g)
  /\ groups' = (groups \ {g}) \union {[g EXCEPT !.st = "failed"]}
  /\ tried' = tried \union {g.foot, foot}
  /\ UNCHANGED phase

\* An invalid one adds what it would have touched.
RetryInvalid(g, foot) ==
  /\ Retries(g)
  /\ groups' = (groups \ {g}) \union {[g EXCEPT !.foot = Merged(@, foot), !.st = "failed"]}
  /\ tried' = tried \union {g.foot, foot}
  /\ UNCHANGED phase

\* The quota, the lease or the provider: the batch fails outside.
RetryRaises(g) ==
  /\ Retries(g)
  /\ phase' = "raised"
  /\ UNCHANGED <<groups, tried>>

NoCallLeft(g) ==
  /\ phase = "retry" /\ g.st = "retry" /\ calls >= MaxRecoveryCalls
  /\ groups' = (groups \ {g}) \union {[g EXCEPT !.st = "failed"]}
  /\ tried' = tried \union {g.foot}
  /\ UNCHANGED <<phase, calls, retried>>

RetriesDone ==
  /\ phase = "retry" /\ \A g \in groups : g.st # "retry"
  /\ phase' = "union"
  /\ UNCHANGED <<groups, calls, retried, tried>>

-----------------------------------------------------------------------------
\* The union of what is left

\* No group that succeeded depends on one that failed.
DependentsFailed ==
  \A part \in Components(groups) : part \subseteq Successful \/ part \subseteq Failed

DependentsFail ==
  /\ phase = "union" /\ ~DependentsFailed
  /\ groups' = UNION {IF part \intersect Failed # {} THEN Became(part, "failed") ELSE part :
                        part \in Components(groups)}
  /\ UNCHANGED <<phase, calls, retried, tried>>

\* The decisions that are left contradict each other: those that are named fail
\* with all that depends on them.
UnionInvalid(invalid) ==
  /\ phase = "union" /\ DependentsFailed
  /\ invalid # {} /\ invalid \subseteq Successful
  /\ groups' = Failed \union
       UNION {IF part \intersect invalid # {} THEN Became(part, "failed") ELSE part :
                part \in Components(Successful)}
  /\ UNCHANGED <<phase, calls, retried, tried>>

UnionValid ==
  /\ phase = "union" /\ DependentsFailed
  /\ phase' = "done"
  /\ UNCHANGED <<groups, calls, retried, tried>>

RecoveryNext ==
  \/ Unreadable \/ RowsRead \/ CombinedValid \/ RetriesDone \/ DependentsFail \/ UnionValid
  \/ \E refs \in SUBSET Sources \ {{}}, foot \in Footprints, valid \in BOOLEAN :
       Row(refs, foot, valid)
  \/ \E some \in SUBSET Successful : CombinedInvalid(some) \/ UnionInvalid(some)
  \/ \E g \in groups :
       \/ RetryRaises(g) \/ NoCallLeft(g)
       \/ \E foot \in Footprints : RetryValid(g, foot) \/ RetryInvalid(g, foot)

RecoverySpec == RecoveryInit /\ [][RecoveryNext]_recovery

-----------------------------------------------------------------------------
\* Properties

\* However rows share, omit and reject sources, the recovery ends with each source
\* in one group, and has compared none of them more than once again.
SourcesOnce ==
  /\ phase = "done" =>
       /\ RefsOf(groups) = Sources
       /\ \A g, h \in groups : g.id # h.id => g.refs \intersect h.refs = {}
  /\ \A s \in Sources : retried[s] <= 1

\* No decision that is kept touches what a rejected answer on a failed group's
\* sources would have read, written or created: what fails leaves nothing behind
\* that was decided on it.
NoOrphans ==
  phase = "done" =>
    \A g \in Successful, f \in tried \union {h.foot : h \in Failed} : ~Touches(g.foot, f)

\* What a recovery answers: each source once, and nothing decided on what failed.
RecoveryInv == SourcesOnce /\ NoOrphans
=============================================================================
