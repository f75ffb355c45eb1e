----------------------------- MODULE Chat_proofs -----------------------------
(***************************************************************************)
(* The chat for any number of attempts, calls, tasks, starts and rows, and *)
(* for any limits: the room in the outbox, the one handler of an attempt,  *)
(* the reports of paid calls and the stored answer (ChatRuntime); the      *)
(* limits that an exploration of the manuscript never meets and the        *)
(* answered parts it never loses (SourceExploration).                      *)
(***************************************************************************)
EXTENDS ChatRuntime, SourceExploration, FiniteSetTheorems, TLAPS

-----------------------------------------------------------------------------
\* The inductive invariant, in named parts

\* A result has no call and a usage has one.
WellFormed(r) ==
    \/ r.kind = "finish" /\ r.call = 0 /\ r.says \in Results
    \/ r.kind = "usage" /\ r.call \in Calls /\ r.says \in Kinds
OneRowPerKey(s) == \A r, q \in s : Key(r) = Key(q) => r = q

\* The rows of the outbox are told apart by their keys, and what is being sent is
\* still stored.
RowsInv ==
    /\ IsFiniteSet(rows)
    /\ OneRowPerKey(rows)
    /\ \A r \in rows : WellFormed(r)
    /\ flight \subseteq rows

\* Runner ids grow; an attempt that has an owner keeps it, and only the owner handles.
OwnersInv ==
    \A a \in Attempts :
      /\ task[a].pc \in Working => task[a].runner \in 1..created[a]
      /\ run[a].runner <= created[a]
      /\ run[a].state = "queued" => run[a].runner = 0
      /\ run[a].state = "timedOut" => a \in late
      /\ handled[a] \subseteq {run[a].runner}
      /\ task[a].pc = "handling" => /\ task[a].runner = run[a].runner
                                    /\ task[a].runner \in handled[a]
                                    /\ run[a].state # "queued"
      /\ task[a].pc \in {"created", "starting"} => task[a].runner \notin handled[a]

\* A result is left at the end of its runner, and Spring has it from the runner's row.
ResultsInv ==
    /\ \A r \in rows :
         /\ r.runner <= created[r.of]
         /\ r.kind = "finish" /\ task[r.of].pc \in Working => r.runner # task[r.of].runner
    /\ \A a \in Attempts :
         run[a].state \in {"answered", "failed"} /\ task[a].pc \in Working
           => run[a].runner # task[a].runner

\* What is known of a call before it is paid.
Fresh(a, c) ==
    /\ <<a, c>> \notin paid
    /\ \A r \in rows : ~ReportOf(r, "usage", a, c)

\* Where a call is, against what Spring has reserved for it and what was reported.
CallsInv ==
    \A a \in Attempts, c \in Calls :
      /\ task[a].pc # "handling" => call[a][c] \notin Reserving
      /\ task[a].pc \in {"created", "starting"} => call[a][c] = "none"
      /\ handled[a] = {} => usage[a][c] = "none" /\ Fresh(a, c)
      /\ task[a].pc = "handling" /\ call[a][c] = "none" => usage[a][c] = "none" /\ Fresh(a, c)
      /\ call[a][c] = "reserving" => usage[a][c] \in {"none", "reserved"} /\ Fresh(a, c)
      /\ call[a][c] = "preflight" => usage[a][c] = "reserved" /\ Fresh(a, c)
      /\ call[a][c] = "invoking" => /\ usage[a][c] = "reserved"
                                    /\ \A r \in rows : ~ReportOf(r, "usage", a, c)

\* A report of unspent tokens is one of a call that was not paid.
UnpaidInv ==
    \A r \in rows : r.kind = "usage" /\ r.says = "RELEASE" => <<r.of, r.call>> \notin paid

\* Every task and every call on a slot has its row promised, for whatever becomes of
\* it, and rows and promises together stay within the limit, also across a restart.
SlotsInv ==
    /\ proc = "down" => reserved = 0
    /\ proc = "serving" => reserved = Cardinality(AtWork) + Cardinality(SlotCalls)
    /\ Cardinality(AtWork) + Cardinality(SlotCalls) <= reserved
    /\ Cardinality(rows) + reserved <= MaxRows

\* A stored answer is on its way to Spring, accepted or late.
AnswersInv ==
    \A a \in stored :
      \/ a \in late \/ run[a].state = "answered"
      \/ /\ run[a].state = "running"
         /\ \E r \in rows : ReportOf(r, "finish", a, 0) /\ r.says = "answer"
                            /\ r.runner = run[a].runner

ChatIInv ==
    /\ TypeOK /\ RowsInv /\ OwnersInv /\ ResultsInv /\ CallsInv
    /\ UnpaidInv /\ SlotsInv /\ AnswersInv

-----------------------------------------------------------------------------
\* Finite sets

\* The image of a finite set has no more members than the set.
LEMMA ImageBound ==
  ASSUME NEW S, IsFiniteSet(S), NEW f, DOMAIN f = S, f = [x \in S |-> f[x]]
  PROVE  /\ IsFiniteSet({f[x] : x \in S})
         /\ Cardinality({f[x] : x \in S}) <= Cardinality(S)
<1> DEFINE T == {f[x] : x \in S}
<1>1. f \in Surjection(S, T)
  BY DEF Surjection
<1> QED BY <1>1, FS_Surjection

\* A union of two finite sets has no more members than both together.
LEMMA UnionBound ==
  ASSUME NEW S, NEW T, IsFiniteSet(S), IsFiniteSet(T)
  PROVE  /\ IsFiniteSet(S \union T)
         /\ Cardinality(S) \in Nat /\ Cardinality(T) \in Nat
         /\ Cardinality(S \union T) \in Nat
         /\ Cardinality(S \union T) <= Cardinality(S) + Cardinality(T)
<1>1. IsFiniteSet(S \cap T)
  BY FS_Intersection
<1>2. /\ IsFiniteSet(S \union T)
      /\ Cardinality(S \union T) = Cardinality(S) + Cardinality(T) - Cardinality(S \cap T)
  BY FS_Union
<1>3. /\ Cardinality(S \cap T) \in Nat /\ Cardinality(S \union T) \in Nat
      /\ Cardinality(S) \in Nat /\ Cardinality(T) \in Nat
  BY <1>1, <1>2, FS_CardinalityType
<1> QED BY <1>2, <1>3

\* Attempts and calls are finitely many.
LEMMA Counted ==
  ASSUME NEW A \in SUBSET Attempts, NEW C \in SUBSET Calls,
         NEW P \in SUBSET (Attempts \X Calls)
  PROVE  /\ IsFiniteSet(A) /\ Cardinality(A) \in Nat
         /\ IsFiniteSet(C) /\ Cardinality(C) \in Nat
         /\ IsFiniteSet(P) /\ Cardinality(P) \in Nat
<1>1. IsFiniteSet(Attempts) /\ HandlerCalls \in Nat
  BY ChatAssumption
<1>2. IsFiniteSet(Calls)
  BY <1>1, FS_Interval DEF Calls
<1>3. IsFiniteSet(Attempts \X Calls)
  BY <1>1, <1>2, FS_Product
<1> QED BY <1>1, <1>2, <1>3, FS_Subset, FS_CardinalityType

\* The tasks at work and the calls on a slot can be counted.
LEMMA SlotSets ==
  /\ AtWork \in SUBSET Attempts /\ IsFiniteSet(AtWork) /\ Cardinality(AtWork) \in Nat
  /\ SlotCalls \in SUBSET (Attempts \X Calls)
  /\ IsFiniteSet(SlotCalls) /\ Cardinality(SlotCalls) \in Nat
  /\ \A a \in Attempts : /\ OnSlot(a) \in SUBSET Calls
                         /\ IsFiniteSet(OnSlot(a)) /\ Cardinality(OnSlot(a)) \in Nat
<1>1. AtWork \in SUBSET Attempts /\ SlotCalls \in SUBSET (Attempts \X Calls)
  BY DEF AtWork, SlotCalls
<1>2. \A a \in Attempts : OnSlot(a) \in SUBSET Calls
  BY DEF OnSlot
<1> QED BY <1>1, <1>2, Counted

\* The slots of one attempt's calls among all.
LEMMA SlotsOf ==
  ASSUME NEW a \in Attempts
  PROVE  LET own == {a} \X OnSlot(a) IN
         /\ own \subseteq SlotCalls
         /\ Cardinality(own) = Cardinality(OnSlot(a))
         /\ Cardinality(SlotCalls \ own) = Cardinality(SlotCalls) - Cardinality(OnSlot(a))
         /\ Cardinality(OnSlot(a)) <= Cardinality(SlotCalls)
<1> DEFINE own == {a} \X OnSlot(a)
<1>1. own \subseteq SlotCalls
  BY DEF OnSlot, SlotCalls
<1>2. IsFiniteSet({a}) /\ Cardinality({a}) = 1
  BY FS_Singleton
<1>3. IsFiniteSet(own) /\ Cardinality(own) = 1 * Cardinality(OnSlot(a))
  BY <1>2, SlotSets, FS_Product
<1>4. Cardinality(own) = Cardinality(OnSlot(a))
  BY <1>3, SlotSets
<1>5. Cardinality(SlotCalls \ own) = Cardinality(SlotCalls) - Cardinality(SlotCalls \cap own)
  BY SlotSets, FS_Difference
<1>6. SlotCalls \cap own = own
  BY <1>1
<1>7. Cardinality(own) <= Cardinality(SlotCalls)
  BY <1>1, SlotSets, FS_Subset
<1> QED BY <1>1, <1>4, <1>5, <1>6, <1>7

-----------------------------------------------------------------------------
\* The rows

\* What put does to the outbox.
LEMMA PutRows ==
  ASSUME RowsInv, NEW new, IsFiniteSet(new), OneRowPerKey(new),
         \A n \in new : WellFormed(n)
  PROVE  /\ rows \subseteq Put(new) /\ Put(new) \subseteq rows \union new
         /\ \A n \in new : \E r \in Put(new) : Key(r) = Key(n)
         /\ OneRowPerKey(Put(new)) /\ \A r \in Put(new) : WellFormed(r)
         /\ IsFiniteSet(Put(new)) /\ Cardinality(Put(new)) \in Nat
         /\ Cardinality(Put(new)) <= Cardinality(rows) + Cardinality(new)
<1>1. /\ rows \subseteq Put(new) /\ Put(new) \subseteq rows \union new
      /\ \A n \in new : \E r \in Put(new) : Key(r) = Key(n)
  BY DEF Put
<1>2. OneRowPerKey(Put(new))
  BY DEF Put, OneRowPerKey, RowsInv
<1>3. \A r \in Put(new) : WellFormed(r)
  BY <1>1 DEF RowsInv
<1>4. IsFiniteSet(rows \union new) /\ Cardinality(rows \union new) <= Cardinality(rows) + Cardinality(new)
  BY UnionBound DEF RowsInv
<1>5. /\ IsFiniteSet(Put(new)) /\ Cardinality(Put(new)) <= Cardinality(rows \union new)
      /\ Cardinality(Put(new)) \in Nat /\ Cardinality(rows \union new) \in Nat
  BY <1>1, <1>4, FS_Subset, FS_CardinalityType
<1>6. Cardinality(rows) \in Nat /\ Cardinality(new) \in Nat
  BY FS_CardinalityType DEF RowsInv
<1> QED BY <1>1, <1>2, <1>3, <1>4, <1>5, <1>6

\* A usage report has its call in its key, a result none.
LEMMA KeyFacts ==
  ASSUME NEW r, NEW q, WellFormed(r), WellFormed(q), Key(r) = Key(q)
  PROVE  /\ r.kind = q.kind /\ r.of = q.of /\ r.call = q.call
         /\ r.kind = "usage" => r.runner = q.runner
BY DEF Key, WellFormed

\* What the end of a task adds: at most its result and a usage for every call that
\* holds a slot, each under the runner of the task.
LEMMA LeftRows ==
  ASSUME ChatIInv, NEW a \in Attempts, task[a].pc \in Working,
         NEW finish \in SUBSET Results, \A x, y \in finish : x = y
  PROVE  LET after == Left(a, finish) IN
         /\ rows \subseteq after /\ after \subseteq RowTypes
         /\ OneRowPerKey(after) /\ \A r \in after : WellFormed(r)
         /\ IsFiniteSet(after) /\ Cardinality(after) \in Nat
         /\ Cardinality(after) <= Cardinality(rows) + 1 + Cardinality(OnSlot(a))
         /\ \A r \in after \ rows :
              /\ r.of = a /\ r.runner = task[a].runner
              /\ r.kind = "finish" => r.says \in finish
              /\ r.kind = "usage" =>
                   /\ call[a][r.call] \in {"preflight", "invoking"}
                   /\ r.says = "RELEASE" => call[a][r.call] = "preflight"
         /\ \A c \in Calls : call[a][c] \in {"preflight", "invoking"} =>
              \E r \in after : ReportOf(r, "usage", a, c)
<1> DEFINE D == {c \in Calls : call[a][c] \in {"preflight", "invoking"}}
           W(c) == IF call[a][c] = "invoking" THEN "UNKNOWN" ELSE "RELEASE"
           U == [c \in D |-> Report("usage", a, c, W(c))]
           F == [says \in finish |-> Report("finish", a, 0, says)]
           usages == {U[c] : c \in D}
           results == {F[says] : says \in finish}
<1>1. Left(a, finish) = Put(usages \union results)
  BY DEF Left
<1>2. IsFiniteSet(D) /\ Cardinality(D) <= Cardinality(OnSlot(a))
      /\ Cardinality(D) \in Nat /\ Cardinality(OnSlot(a)) \in Nat
  <2>1. D \in SUBSET OnSlot(a)
    BY DEF OnSlot, Reserving
  <2> QED BY <2>1, SlotSets, FS_Subset, FS_CardinalityType
<1>3. IsFiniteSet(finish) /\ Cardinality(finish) <= 1 /\ Cardinality(finish) \in Nat
  <2>1. finish = {} \/ \E x : finish = {x}
    OBVIOUS
  <2>2. CASE finish = {}
    BY <2>2, FS_EmptySet
  <2>3. CASE \E x : finish = {x}
    <3>1. PICK x : finish = {x}
      BY <2>3
    <3> QED BY <3>1, FS_Singleton
  <2> QED BY <2>1, <2>2, <2>3
<1>4. IsFiniteSet(usages) /\ Cardinality(usages) <= Cardinality(D)
  <2> HIDE DEF D
  <2> QED BY <1>2, ImageBound
<1>5. IsFiniteSet(results) /\ Cardinality(results) <= Cardinality(finish)
  BY <1>3, ImageBound
<1>6. IsFiniteSet(usages \union results)
      /\ Cardinality(usages \union results) \in Nat
      /\ Cardinality(usages \union results) <= 1 + Cardinality(OnSlot(a))
  <2> HIDE DEF usages, results, D, U, F
  <2>1. Cardinality(usages) \in Nat /\ Cardinality(results) \in Nat
    BY <1>4, <1>5, FS_CardinalityType
  <2> QED BY <2>1, <1>2, <1>3, <1>4, <1>5, UnionBound
<1>7. \A n \in usages : /\ n.of = a /\ n.runner = task[a].runner
                        /\ n.kind = "usage" /\ n.call \in D /\ n.says = W(n.call)
  <2>1. \A c \in D : U[c] = Report("usage", a, c, W(c))
    OBVIOUS
  <2> SUFFICES ASSUME NEW n \in usages
               PROVE  /\ n.of = a /\ n.runner = task[a].runner
                      /\ n.kind = "usage" /\ n.call \in D /\ n.says = W(n.call)
    OBVIOUS
  <2>2. PICK c \in D : n = U[c]
    OBVIOUS
  <2> HIDE DEF D, U, W
  <2>3. n = Report("usage", a, c, W(c))
    BY <2>1, <2>2
  <2> QED BY <2>3 DEF Report
<1>8. \A n \in results : /\ n.of = a /\ n.runner = task[a].runner
                         /\ n.kind = "finish" /\ n.call = 0 /\ n.says \in finish
  BY DEF Report
<1>9. \A n \in usages \union results : WellFormed(n)
  BY <1>7, <1>8 DEF WellFormed, Kinds
<1>10. OneRowPerKey(usages \union results)
  <2>1. ASSUME NEW c \in D, NEW d \in D, Key(U[c]) = Key(U[d]) PROVE c = d
    <3>1. U[c].call = U[d].call
      BY <2>1, <1>9, KeyFacts
    <3> QED BY <3>1 DEF Report
  <2>2. \A m, n \in usages : Key(m) = Key(n) => m = n
    BY <2>1
  <2>3. \A m, n \in results : m = n
    OBVIOUS
  <2>4. \A m \in usages, n \in results : Key(m) # Key(n)
    <3> HIDE DEF usages, results
    <3> QED BY <1>7, <1>8, <1>9, KeyFacts, Zenon
  <2> QED BY <2>2, <2>3, <2>4 DEF OneRowPerKey
<1>11. usages \union results \subseteq RowTypes
  <2>1. /\ task[a].runner \in Runners /\ 0 \in 0..HandlerCalls
        /\ \A c \in D : c \in 0..HandlerCalls
    BY ChatAssumption DEF ChatIInv, OwnersInv, TypeOK, Runners, Calls
  <2>2. \A c \in D : U[c] \in RowTypes
    BY <2>1 DEF Report, RowTypes, Kinds
  <2>3. \A x \in finish : F[x] \in RowTypes
    BY <2>1 DEF Report, RowTypes
  <2> QED BY <2>2, <2>3
<1> HIDE DEF U, F, usages, results
<1>12. RowsInv /\ rows \subseteq RowTypes
  BY DEF ChatIInv, TypeOK
<1> DEFINE after == Put(usages \union results)
<1>13. /\ rows \subseteq after /\ after \subseteq rows \union (usages \union results)
       /\ \A n \in usages \union results : \E r \in after : Key(r) = Key(n)
       /\ OneRowPerKey(after) /\ \A r \in after : WellFormed(r)
       /\ IsFiniteSet(after) /\ Cardinality(after) \in Nat
       /\ Cardinality(after) <= Cardinality(rows) + Cardinality(usages \union results)
  BY <1>6, <1>9, <1>10, <1>12, PutRows
<1> HIDE DEF after
<1>14. Cardinality(after) <= Cardinality(rows) + 1 + Cardinality(OnSlot(a))
  <2>1. Cardinality(rows) \in Nat
    BY <1>12, FS_CardinalityType DEF RowsInv
  <2> QED BY <2>1, <1>2, <1>6, <1>13
<1>15. \A r \in after \ rows :
         /\ r.of = a /\ r.runner = task[a].runner
         /\ r.kind = "finish" => r.says \in finish
         /\ r.kind = "usage" =>
              /\ call[a][r.call] \in {"preflight", "invoking"}
              /\ r.says = "RELEASE" => call[a][r.call] = "preflight"
  BY <1>7, <1>8, <1>13 DEF D
<1>16. ASSUME NEW c \in Calls, call[a][c] \in {"preflight", "invoking"}
       PROVE  \E r \in after : ReportOf(r, "usage", a, c)
  <2>1. U[c] \in usages /\ U[c].kind = "usage" /\ U[c].of = a /\ U[c].call = c
    BY <1>16 DEF D, U, usages, Report
  <2>2. PICK r \in after : Key(r) = Key(U[c])
    BY <2>1, <1>13
  <2>3. WellFormed(r) /\ WellFormed(U[c])
    BY <2>1, <1>9, <1>13
  <2> QED BY <2>1, <2>2, <2>3, KeyFacts DEF ReportOf
<1> QED BY <1>1, <1>11, <1>12, <1>13, <1>14, <1>15, <1>16 DEF after
-----------------------------------------------------------------------------
\* The end of a task

\* The slots of a task and of its calls are given back together.
LEMMA EndSlots ==
  ASSUME ChatIInv, NEW a \in Attempts, task[a].pc \in Working, NEW finish, EndTask(a, finish)
  PROVE  /\ Cardinality(AtWork') = Cardinality(AtWork) - 1
         /\ Cardinality(SlotCalls') = Cardinality(SlotCalls) - Cardinality(OnSlot(a))
         /\ reserved' = reserved - (1 + Cardinality(OnSlot(a)))
         /\ reserved' \in Nat
<1>1. \A b \in Attempts : task'[b].pc = IF b = a THEN "done" ELSE task[b].pc
  BY DEF EndTask, ChatIInv, TypeOK
<1>2. AtWork' = AtWork \ {a} /\ a \in AtWork
  BY <1>1 DEF AtWork, Working
<1>3. Cardinality(AtWork') = Cardinality(AtWork) - 1 /\ Cardinality(AtWork) \in Nat
  BY <1>2, SlotSets, FS_RemoveElement
<1>4. \A b \in Attempts, c \in Calls :
        call'[b][c] = IF b = a /\ c \in OnSlot(a) THEN "over" ELSE call[b][c]
  BY DEF EndTask, ChatIInv, TypeOK
<1>5. SlotCalls' = SlotCalls \ ({a} \X OnSlot(a))
  BY <1>4 DEF SlotCalls, OnSlot, Reserving
<1>6. Cardinality(SlotCalls') = Cardinality(SlotCalls) - Cardinality(OnSlot(a))
  BY <1>5, SlotsOf
<1>7. reserved' = reserved - (1 + Cardinality(OnSlot(a)))
  BY DEF EndTask
<1>8. Cardinality(AtWork) >= 1
  BY <1>2, <1>3, SlotSets, FS_EmptySet
<1>9. reserved >= Cardinality(AtWork) + Cardinality(SlotCalls) /\ reserved \in Nat
  BY DEF ChatIInv, SlotsInv, TypeOK
<1>10. Cardinality(OnSlot(a)) <= Cardinality(SlotCalls) /\ Cardinality(OnSlot(a)) \in Nat
       /\ Cardinality(SlotCalls) \in Nat
  BY SlotsOf, SlotSets
<1> QED BY <1>3, <1>6, <1>7, <1>8, <1>9, <1>10

\* The end of a task, however it comes, leaves all reports it owes and gives back
\* every slot the task and its calls held.
LEMMA EndKeeps ==
  ASSUME ChatIInv, NEW a \in Attempts, task[a].pc \in Working,
         NEW finish \in SUBSET Results, \A x, y \in finish : x = y,
         EndTask(a, finish), UNCHANGED spring, stored' \subseteq Attempts
  PROVE  /\ TypeOK' /\ RowsInv' /\ OwnersInv' /\ ResultsInv' /\ CallsInv'
         /\ UnpaidInv' /\ SlotsInv'
         /\ rows \subseteq rows'
<1> USE DEF ChatIInv
<1>1. /\ rows \subseteq rows' /\ rows' \subseteq RowTypes
      /\ OneRowPerKey(rows') /\ \A r \in rows' : WellFormed(r)
      /\ IsFiniteSet(rows') /\ Cardinality(rows') \in Nat
      /\ Cardinality(rows') <= Cardinality(rows) + 1 + Cardinality(OnSlot(a))
      /\ \A r \in rows' \ rows :
           /\ r.of = a /\ r.runner = task[a].runner
           /\ r.kind = "finish" => r.says \in finish
           /\ r.kind = "usage" =>
                /\ call[a][r.call] \in {"preflight", "invoking"}
                /\ r.says = "RELEASE" => call[a][r.call] = "preflight"
  BY LeftRows DEF EndTask
<1>2. /\ UNCHANGED <<proc, starts, created, flight, handled, paid, run, usage, late>>
      /\ task' = [task EXCEPT ![a].pc = "done"]
      /\ call' = [call EXCEPT ![a] = [c \in Calls |-> IF c \in OnSlot(a) THEN "over" ELSE @[c]]]
  BY DEF EndTask, spring
<1>3. /\ \A b \in Attempts : /\ task'[b].pc = IF b = a THEN "done" ELSE task[b].pc
                             /\ task'[b].runner = task[b].runner
      /\ \A b \in Attempts, c \in Calls :
           call'[b][c] = IF b = a /\ call[b][c] \in Reserving THEN "over" ELSE call[b][c]
  BY <1>2 DEF TypeOK, OnSlot
<1>4. TypeOK'
  <2>1. task' \in [Attempts -> [pc : Working \union {"none", "done"}, runner : {0} \union Runners]]
    BY <1>2 DEF TypeOK
  <2>2. call' \in [Attempts -> [Calls -> Reserving \union {"none", "over"}]]
    BY <1>2 DEF TypeOK
  <2> QED BY <1>1, <1>2, <2>1, <2>2, EndSlots DEF TypeOK
<1>5. RowsInv'
  BY <1>1, <1>2 DEF RowsInv
<1>6. OwnersInv'
  BY <1>2, <1>3 DEF OwnersInv, Working
<1>7. ResultsInv'
  BY <1>1, <1>2, <1>3 DEF ResultsInv, OwnersInv, TypeOK, RowTypes, Working, Runners
<1>8. CallsInv'
  <2> SUFFICES ASSUME NEW b \in Attempts, NEW c \in Calls PROVE CallsInv!(b, c)'
    BY DEF CallsInv
  <2> QED BY <1>1, <1>2, <1>3 DEF CallsInv, Fresh, ReportOf, Working, Reserving
<1>9. UnpaidInv'
  BY <1>1, <1>2 DEF UnpaidInv, CallsInv, Fresh, TypeOK, RowTypes, WellFormed
<1>10. SlotsInv'
  <2>1. /\ Cardinality(AtWork) \in Nat /\ Cardinality(SlotCalls) \in Nat
        /\ Cardinality(OnSlot(a)) \in Nat /\ Cardinality(rows) \in Nat
        /\ MaxRows \in Nat /\ reserved \in Nat
    BY SlotSets, FS_CardinalityType, ChatAssumption DEF RowsInv, TypeOK
  <2>2. /\ Cardinality(AtWork') = Cardinality(AtWork) - 1
        /\ Cardinality(SlotCalls') = Cardinality(SlotCalls) - Cardinality(OnSlot(a))
        /\ reserved' = reserved - (1 + Cardinality(OnSlot(a)))
    BY EndSlots
  <2>3. proc' = proc /\ Cardinality(rows') \in Nat
        /\ Cardinality(rows') <= Cardinality(rows) + 1 + Cardinality(OnSlot(a))
    BY <1>1, <1>2
  <2>4. SlotsInv /\ Cardinality(AtWork') \in Nat
    <3>1. AtWork' \in SUBSET Attempts
      BY DEF AtWork
    <3> QED BY <3>1, Counted
  <2> HIDE DEF ChatIInv
  <2> QED BY ONLY <2>1, <2>2, <2>3, <2>4 DEF SlotsInv
<1> QED BY <1>1, <1>4, <1>5, <1>6, <1>7, <1>8, <1>9, <1>10
-----------------------------------------------------------------------------
\* Steps that write no row

\* How one task moves the number of those at work.
LEMMA WorkMoves ==
  ASSUME NEW a \in Attempts, NEW s,
         \A b \in Attempts : task'[b].pc = IF b = a THEN s ELSE task[b].pc
  PROVE  /\ task[a].pc \notin Working /\ s \in Working =>
              Cardinality(AtWork') = Cardinality(AtWork) + 1
         /\ (task[a].pc \in Working <=> s \in Working) => AtWork' = AtWork
         /\ s \notin Working => Cardinality(AtWork') <= Cardinality(AtWork)
<1>1. ASSUME task[a].pc \notin Working, s \in Working
      PROVE  Cardinality(AtWork') = Cardinality(AtWork) + 1
  <2>1. AtWork' = AtWork \union {a} /\ a \notin AtWork
    BY <1>1 DEF AtWork
  <2> QED BY <2>1, SlotSets, FS_AddElement
<1>2. (task[a].pc \in Working <=> s \in Working) => AtWork' = AtWork
  BY DEF AtWork
<1>3. ASSUME s \notin Working PROVE Cardinality(AtWork') <= Cardinality(AtWork)
  <2>1. AtWork' \subseteq AtWork
    BY <1>3 DEF AtWork
  <2> QED BY <2>1, SlotSets, FS_Subset
<1> QED BY <1>1, <1>2, <1>3

\* How one call moves the number of those on a slot.
LEMMA CallMoves ==
  ASSUME NEW a \in Attempts, NEW c \in Calls, NEW s,
         \A b \in Attempts, d \in Calls :
           call'[b][d] = IF b = a /\ d = c THEN s ELSE call[b][d]
  PROVE  /\ call[a][c] \notin Reserving /\ s \in Reserving =>
              Cardinality(SlotCalls') = Cardinality(SlotCalls) + 1
         /\ call[a][c] \in Reserving /\ s \notin Reserving =>
              Cardinality(SlotCalls') = Cardinality(SlotCalls) - 1
         /\ (call[a][c] \in Reserving <=> s \in Reserving) => SlotCalls' = SlotCalls
<1>1. ASSUME call[a][c] \notin Reserving, s \in Reserving
      PROVE  Cardinality(SlotCalls') = Cardinality(SlotCalls) + 1
  <2>1. SlotCalls' = SlotCalls \union {<<a, c>>} /\ <<a, c>> \notin SlotCalls
    BY <1>1 DEF SlotCalls
  <2> QED BY <2>1, SlotSets, FS_AddElement
<1>2. ASSUME call[a][c] \in Reserving, s \notin Reserving
      PROVE  Cardinality(SlotCalls') = Cardinality(SlotCalls) - 1
  <2>1. SlotCalls' = SlotCalls \ {<<a, c>>} /\ <<a, c>> \in SlotCalls
    BY <1>2 DEF SlotCalls
  <2>2. IsFiniteSet(SlotCalls)
    BY SlotSets
  <2>3. \A x \in SlotCalls : Cardinality(SlotCalls \ {x}) = Cardinality(SlotCalls) - 1
    BY <2>2, FS_RemoveElement
  <2> QED BY <2>1, <2>3
<1>3. (call[a][c] \in Reserving <=> s \in Reserving) => SlotCalls' = SlotCalls
  BY DEF SlotCalls
<1> QED BY <1>1, <1>2, <1>3

\* Numbers of the invariant.
LEMMA Sizes ==
  ASSUME ChatIInv
  PROVE  /\ Cardinality(AtWork) \in Nat /\ Cardinality(SlotCalls) \in Nat
         /\ Cardinality(rows) \in Nat /\ MaxRows \in Nat /\ reserved \in Nat
         /\ MaxTasks \in Nat
BY SlotSets, FS_CardinalityType, ChatAssumption DEF ChatIInv, RowsInv, TypeOK

\* A dispatch is taken only if its result will have room, under a new runner id.
LEMMA SubmitKeeps == ASSUME ChatIInv, NEW a \in Attempts, Submit(a) PROVE ChatIInv'
<1> USE DEF ChatIInv
<1>1. /\ UNCHANGED <<proc, starts, rows, flight, run, usage, late, handled, paid, stored>>
      /\ created[a] < MaxTasks /\ reserved' = reserved + 1 /\ task[a].pc = "none"
      /\ HasCapacity
      /\ created' = [created EXCEPT ![a] = @ + 1]
      /\ task' = [task EXCEPT ![a] = [pc |-> "created", runner |-> created[a] + 1]]
      /\ call' = [call EXCEPT ![a] = NoCalls]
  BY DEF Submit, outbox, spring
<1>2. /\ \A b \in Attempts : task'[b] = IF b = a THEN [pc |-> "created", runner |-> created[a] + 1]
                                                 ELSE task[b]
      /\ \A b \in Attempts : created'[b] = IF b = a THEN created[a] + 1 ELSE created[b]
      /\ \A b \in Attempts, c \in Calls : call'[b][c] = IF b = a THEN "none" ELSE call[b][c]
      /\ \A b \in Attempts : created[b] \in Nat
  BY <1>1, Sizes DEF TypeOK, NoCalls
<1>3. TypeOK'
  <2>1. created[a] + 1 \in Runners /\ created[a] + 1 \in 0..MaxTasks
    BY <1>1, <1>2, Sizes DEF Runners
  <2>2. task' \in [Attempts -> [pc : Working \union {"none", "done"}, runner : {0} \union Runners]]
    BY <1>1, <2>1 DEF TypeOK, Working
  <2>3. call' \in [Attempts -> [Calls -> Reserving \union {"none", "over"}]]
    BY <1>1 DEF TypeOK, NoCalls
  <2> QED BY <1>1, <2>1, <2>2, <2>3 DEF TypeOK
<1>4. RowsInv'
  BY <1>1 DEF RowsInv
<1>5. OwnersInv'
  <2> SUFFICES ASSUME NEW b \in Attempts PROVE OwnersInv!(b)'
    BY DEF OwnersInv
  <2>1. run[b].runner \in Nat /\ run[b].runner <= created[b]
    BY DEF OwnersInv, TypeOK, Runners
  <2>2. created[a] + 1 \notin handled[a]
    BY <1>2, <2>1 DEF OwnersInv, TypeOK, Runners
  <2> QED BY <1>1, <1>2, <2>1, <2>2 DEF OwnersInv, Working
<1>6. ResultsInv'
  BY <1>1, <1>2 DEF ResultsInv, OwnersInv, TypeOK, RowTypes, Working, Runners
<1>7. CallsInv'
  <2> SUFFICES ASSUME NEW b \in Attempts, NEW c \in Calls PROVE CallsInv!(b, c)'
    BY DEF CallsInv
  <2> QED BY <1>1, <1>2 DEF CallsInv, Fresh, ReportOf, Working, Reserving
<1>8. UnpaidInv'
  BY <1>1 DEF UnpaidInv
<1>9. SlotsInv'
  <2>1. Cardinality(AtWork') = Cardinality(AtWork) + 1
    BY <1>1, <1>2, WorkMoves DEF Working
  <2>2. SlotCalls' = SlotCalls
    BY <1>1, <1>2 DEF SlotCalls, CallsInv, Reserving
  <2>3. proc = "serving"
    BY DEF Submit
  <2> QED BY <1>1, <2>1, <2>2, <2>3, Sizes DEF SlotsInv, HasCapacity
<1>10. AnswersInv'
  BY <1>1 DEF AnswersInv
<1> QED BY <1>3, <1>4, <1>5, <1>6, <1>7, <1>8, <1>9, <1>10

\* A task moves between two of its awaits, or its end is observed.
LEMMA TaskMoves ==
  ASSUME ChatIInv, NEW a \in Attempts, Begin(a) \/ Forget(a) \/ StartGranted(a)
  PROVE  ChatIInv'
<1> USE DEF ChatIInv
<1>0. PICK s \in {"starting", "none", "handling"} :
        /\ task' = [task EXCEPT ![a].pc = s]
        /\ s = "starting" => task[a].pc = "created" /\ handled' = handled
        /\ s = "none" => task[a].pc = "done" /\ handled' = handled
        /\ s = "handling" => /\ task[a].pc = "starting" /\ Owned(a)
                             /\ handled' = [handled EXCEPT ![a] = @ \union {task[a].runner}]
  BY DEF Begin, Forget, StartGranted
<1>1. UNCHANGED <<proc, starts, reserved, created, call, rows, flight, run, usage, late, paid, stored>>
  BY DEF Begin, Forget, StartGranted, outbox, spring
<1>2. \A b \in Attempts : /\ task'[b].pc = IF b = a THEN s ELSE task[b].pc
                          /\ task'[b].runner = task[b].runner
                          /\ handled'[b] = IF b = a /\ s = "handling"
                                           THEN handled[a] \union {task[a].runner} ELSE handled[b]
  BY <1>0 DEF TypeOK
<1>3. TypeOK'
  <2>1. task' \in [Attempts -> [pc : Working \union {"none", "done"}, runner : {0} \union Runners]]
    BY <1>0 DEF TypeOK, Working
  <2>2. handled' \in [Attempts -> SUBSET Runners]
    <3>1. s = "handling" => task[a].runner \in Runners
      BY <1>0 DEF OwnersInv, TypeOK, Working, Runners
    <3>2. CASE s = "handling"
      <4>1. handled[a] \union {task[a].runner} \in SUBSET Runners
        BY <3>1, <3>2 DEF TypeOK
      <4> QED BY <1>0, <3>2, <4>1 DEF TypeOK
    <3>3. CASE s # "handling"
      BY <1>0, <3>3 DEF TypeOK
    <3> QED BY <3>2, <3>3
  <2> QED BY <1>1, <2>1, <2>2 DEF TypeOK
<1>4. RowsInv' /\ UnpaidInv' /\ AnswersInv'
  BY <1>1 DEF RowsInv, UnpaidInv, AnswersInv
<1>5. OwnersInv'
  BY <1>0, <1>1, <1>2 DEF OwnersInv, Owned, Working
<1>6. ResultsInv'
  BY <1>0, <1>1, <1>2 DEF ResultsInv, TypeOK, RowTypes, Working
<1>7. CallsInv'
  <2> SUFFICES ASSUME NEW b \in Attempts, NEW c \in Calls PROVE CallsInv!(b, c)'
    BY DEF CallsInv
  <2>1. s = "handling" => handled[a] = {}
    BY <1>0 DEF OwnersInv, Owned
  <2> QED BY <1>0, <1>1, <1>2, <2>1 DEF CallsInv, Fresh, ReportOf, Working, Reserving
<1>8. SlotsInv'
  <2>1. AtWork' = AtWork
    BY <1>0, <1>2, WorkMoves DEF Working
  <2>2. SlotCalls' = SlotCalls
    BY <1>1 DEF SlotCalls
  <2> QED BY <1>1, <2>1, <2>2 DEF SlotsInv
<1> QED BY <1>3, <1>4, <1>5, <1>6, <1>7, <1>8

\* A call moves between two of its awaits; its slot is promised when it begins and
\* given back when it is refused.
LEMMA CallKeeps ==
  ASSUME ChatIInv, NEW a \in Attempts, NEW c \in Calls,
         ReserveCall(a, c) \/ CallGranted(a, c) \/ CallDenied(a, c) \/ Invoke(a, c)
  PROVE  ChatIInv'
<1> USE DEF ChatIInv
<1>0. PICK s \in {"reserving", "over", "preflight", "invoking"} :
        /\ call' = [call EXCEPT ![a][c] = s]
        /\ s = "reserving" => /\ task[a].pc = "handling" /\ call[a][c] = "none" /\ HasCapacity
                              /\ reserved' = reserved + 1
        /\ s = "over" => \/ /\ task[a].pc = "handling" /\ call[a][c] = "none"
                            /\ reserved' = reserved
                         \/ call[a][c] = "reserving" /\ reserved' = reserved - 1
        /\ s = "preflight" => /\ call[a][c] = "reserving" /\ usage[a][c] = "reserved"
                              /\ reserved' = reserved
        /\ s = "invoking" => call[a][c] = "preflight" /\ reserved' = reserved
        /\ paid' = IF s = "invoking" THEN paid \union {<<a, c>>} ELSE paid
  BY DEF ReserveCall, CallGranted, CallDenied, Invoke
<1>1. UNCHANGED <<proc, starts, task, created, rows, flight, run, usage, late, handled, stored>>
  BY DEF ReserveCall, CallGranted, CallDenied, Invoke, outbox, spring
<1>2. \A b \in Attempts, d \in Calls : call'[b][d] = IF b = a /\ d = c THEN s ELSE call[b][d]
  BY <1>0 DEF TypeOK
<1>3. call[a][c] \in Reserving => task[a].pc = "handling"
  BY DEF CallsInv
<1>4. SlotsInv' /\ reserved' \in Nat
  <2>1. AtWork' = AtWork
    BY <1>1 DEF AtWork
  <2>2. CASE s \in {"preflight", "invoking"}
    <3>1. SlotCalls' = SlotCalls
      BY <1>0, <1>2, <2>2, CallMoves DEF Reserving
    <3> QED BY <1>0, <1>1, <2>1, <2>2, <3>1, Sizes DEF SlotsInv
  <2>3. CASE s = "reserving"
    <3>1. Cardinality(SlotCalls') = Cardinality(SlotCalls) + 1
      BY <1>0, <1>2, <2>3, CallMoves DEF Reserving
    <3>2. Cardinality(AtWork) >= 1
      <4>1. AtWork # {}
        BY <1>0, <2>3 DEF AtWork, Working
      <4> QED BY <4>1, SlotSets, FS_EmptySet, Sizes
    <3> QED BY <1>0, <1>1, <2>1, <2>3, <3>1, <3>2, Sizes DEF SlotsInv, HasCapacity
  <2>4. CASE s = "over" /\ call[a][c] = "none"
    <3>1. SlotCalls' = SlotCalls
      BY <1>0, <1>2, <2>4, CallMoves DEF Reserving
    <3> QED BY <1>0, <1>1, <2>1, <2>4, <3>1, Sizes DEF SlotsInv
  <2>5. CASE s = "over" /\ call[a][c] = "reserving"
    <3>1. Cardinality(SlotCalls') = Cardinality(SlotCalls) - 1
      BY <1>0, <1>2, <2>5, CallMoves DEF Reserving
    <3>2. Cardinality(SlotCalls) >= 1
      <4>1. SlotCalls # {}
        <5>1. <<a, c>> \in SlotCalls
          BY <2>5 DEF SlotCalls, Reserving
        <5> QED BY <5>1
      <4> QED BY <4>1, SlotSets, FS_EmptySet, Sizes
    <3> QED BY <1>0, <1>1, <2>1, <2>5, <3>1, <3>2, Sizes DEF SlotsInv
  <2> QED BY <1>0, <2>2, <2>3, <2>4, <2>5
<1>5. TypeOK'
  <2>1. call' \in [Attempts -> [Calls -> Reserving \union {"none", "over"}]]
    BY <1>0 DEF TypeOK, Reserving
  <2>2. paid' \subseteq Attempts \X Calls
    BY <1>0 DEF TypeOK
  <2> QED BY <1>1, <1>4, <2>1, <2>2 DEF TypeOK
<1>6. RowsInv' /\ OwnersInv' /\ ResultsInv' /\ AnswersInv'
  BY <1>1 DEF RowsInv, OwnersInv, ResultsInv, AnswersInv
<1>7. CallsInv'
  <2> SUFFICES ASSUME NEW b \in Attempts, NEW d \in Calls PROVE CallsInv!(b, d)'
    BY DEF CallsInv
  <2>1. CASE b = a /\ d = c
    BY <1>0, <1>1, <1>2, <1>3, <2>1 DEF CallsInv, Fresh, ReportOf, Working, Reserving, OwnersInv
  <2>2. CASE <<b, d>> # <<a, c>>
    BY <1>0, <1>1, <1>2, <2>2 DEF CallsInv, Fresh, ReportOf
  <2> QED BY <2>1, <2>2
<1>8. UnpaidInv'
  BY <1>0, <1>1 DEF UnpaidInv, CallsInv, Fresh, ReportOf
<1> QED BY <1>4, <1>5, <1>6, <1>7, <1>8

\* Spring hands out the ownership and the tokens, and gives an attempt up.
LEMMA SpringKeeps ==
  ASSUME ChatIInv, NEW a \in Attempts,
         TakeOwnership(a) \/ (\E c \in Calls : GrantTokens(a, c)) \/ DeadlinePasses(a)
  PROVE  ChatIInv'
<1> USE DEF ChatIInv
<1>1. UNCHANGED <<proc, starts, reserved, task, created, call, rows, flight, handled, paid, stored>>
  BY DEF TakeOwnership, GrantTokens, DeadlinePasses, chat, outbox
<1>2. RowsInv' /\ SlotsInv' /\ UnpaidInv'
  BY <1>1 DEF RowsInv, SlotsInv, UnpaidInv, AtWork, SlotCalls
<1>3. CASE TakeOwnership(a)
  <2>1. /\ run' = [run EXCEPT ![a] = [state |-> "running", runner |-> task[a].runner]]
        /\ task[a].pc = "starting" /\ run[a].state = "queued" /\ usage' = usage /\ late' = late
    BY <1>3 DEF TakeOwnership
  <2>2. task[a].runner \in Runners /\ task[a].runner <= created[a] /\ handled[a] = {}
    BY <2>1, Sizes DEF OwnersInv, TypeOK, Working, Runners
  <2>3. TypeOK'
    BY <1>1, <2>1, <2>2 DEF TypeOK
  <2>4. OwnersInv'
    BY <1>1, <2>1, <2>2 DEF OwnersInv, TypeOK, Working
  <2>5. ResultsInv'
    BY <1>1, <2>1 DEF ResultsInv, TypeOK
  <2>6. CallsInv'
    BY <1>1, <2>1 DEF CallsInv, Fresh
  <2>7. AnswersInv'
    BY <1>1, <2>1 DEF AnswersInv, TypeOK
  <2> QED BY <1>2, <2>3, <2>4, <2>5, <2>6, <2>7
<1>4. ASSUME NEW c \in Calls, GrantTokens(a, c) PROVE ChatIInv'
  <2>1. /\ usage' = [usage EXCEPT ![a][c] = "reserved"] /\ run' = run /\ late' = late
        /\ call[a][c] = "reserving" /\ Owned(a)
    BY <1>4 DEF GrantTokens
  <2>2. \A b \in Attempts, d \in Calls :
          usage'[b][d] = IF b = a /\ d = c THEN "reserved" ELSE usage[b][d]
    BY <2>1 DEF TypeOK
  <2>3. TypeOK'
    BY <1>1, <2>1 DEF TypeOK
  <2>4. OwnersInv' /\ ResultsInv' /\ AnswersInv'
    BY <1>1, <2>1 DEF OwnersInv, ResultsInv, AnswersInv
  <2>5. handled[a] # {}
    BY <2>1 DEF CallsInv, OwnersInv, Reserving
  <2>6. CallsInv'
    <3> SUFFICES ASSUME NEW b \in Attempts, NEW d \in Calls PROVE CallsInv!(b, d)'
      BY DEF CallsInv
    <3>1. CASE b = a /\ d = c
      BY <1>1, <2>1, <2>2, <2>5, <3>1 DEF CallsInv, Fresh, ReportOf, Reserving
    <3>2. CASE <<b, d>> # <<a, c>>
      BY <1>1, <2>2, <3>2 DEF CallsInv, Fresh, ReportOf
    <3> QED BY <3>1, <3>2
  <2> QED BY <1>2, <2>3, <2>4, <2>6
<1>5. CASE DeadlinePasses(a)
  <2>1. /\ a \notin late /\ late' = late \union {a} /\ usage' = usage
        /\ run' = [run EXCEPT ![a].state = IF @ \in {"queued", "running"} THEN "timedOut" ELSE @]
    BY <1>5 DEF DeadlinePasses
  <2>2. \A b \in Attempts :
          /\ run'[b].runner = run[b].runner
          /\ run'[b].state = IF b = a /\ run[b].state \in {"queued", "running"}
                             THEN "timedOut" ELSE run[b].state
    BY <2>1 DEF TypeOK
  <2>3. TypeOK'
    BY <1>1, <2>1 DEF TypeOK
  <2>4. OwnersInv'
    BY <1>1, <2>1, <2>2 DEF OwnersInv
  <2>5. ResultsInv'
    BY <1>1, <2>2 DEF ResultsInv
  <2>6. CallsInv'
    BY <1>1, <2>1 DEF CallsInv, Fresh
  <2>7. AnswersInv'
    BY <1>1, <2>1, <2>2 DEF AnswersInv, TypeOK
  <2> QED BY <1>2, <2>3, <2>4, <2>5, <2>6, <2>7
<1> QED BY <1>3, <1>4, <1>5
-----------------------------------------------------------------------------
\* Steps that write rows

\* A call ends with its report; only a call whose provider was not invoked is
\* reported as released.
LEMMA CallEndKeeps ==
  ASSUME ChatIInv, NEW a \in Attempts, NEW c \in Calls, CallEnds(a, c)
  PROVE  ChatIInv'
<1> USE DEF ChatIInv
<1>0. PICK kind \in Measured(a, c) : rows' = Put({Report("usage", a, c, kind)})
  BY DEF CallEnds
<1> DEFINE n == Report("usage", a, c, kind)
<1>1. /\ call[a][c] \in {"preflight", "invoking"} /\ reserved' = reserved - 1
      /\ call' = [call EXCEPT ![a][c] = "over"]
      /\ UNCHANGED <<proc, starts, task, created, flight, run, usage, late, handled, paid, stored>>
  BY DEF CallEnds, spring
<1>2. \A b \in Attempts, d \in Calls : call'[b][d] = IF b = a /\ d = c THEN "over" ELSE call[b][d]
  BY <1>1 DEF TypeOK
<1>3. task[a].pc = "handling" /\ task[a].runner \in Runners
  BY <1>1, Sizes DEF CallsInv, OwnersInv, TypeOK, Reserving, Working, Runners
<1>4. /\ kind \in Kinds /\ (kind = "RELEASE" => call[a][c] = "preflight")
      /\ n.kind = "usage" /\ n.of = a /\ n.call = c /\ n.runner = task[a].runner /\ n.says = kind
      /\ n \in RowTypes /\ WellFormed(n)
  <2>1. kind \in Kinds /\ (kind = "RELEASE" => call[a][c] = "preflight")
    BY <1>1 DEF Measured, Kinds
  <2>2. c \in 0..HandlerCalls
    BY ChatAssumption DEF Calls
  <2> QED BY <2>1, <2>2, <1>3 DEF Report, RowTypes, WellFormed
<1> HIDE DEF n
<1>5. IsFiniteSet({n}) /\ Cardinality({n}) = 1
  BY FS_Singleton
<1>6. OneRowPerKey({n})
  BY DEF OneRowPerKey
<1>7. /\ rows \subseteq rows' /\ rows' \subseteq rows \union {n}
      /\ \E r \in rows' : Key(r) = Key(n)
      /\ OneRowPerKey(rows') /\ \A r \in rows' : WellFormed(r)
      /\ IsFiniteSet(rows') /\ Cardinality(rows') \in Nat
      /\ Cardinality(rows') <= Cardinality(rows) + 1
  BY <1>0, <1>4, <1>5, <1>6, PutRows DEF n
<1>8. RowsInv'
  BY <1>1, <1>7 DEF RowsInv
<1>9. SlotsInv' /\ reserved' \in Nat
  <2>1. AtWork' = AtWork
    BY <1>1 DEF AtWork
  <2>2. Cardinality(SlotCalls') = Cardinality(SlotCalls) - 1
    BY <1>1, <1>2, CallMoves DEF Reserving
  <2>3. Cardinality(SlotCalls) >= 1
    <3>1. <<a, c>> \in SlotCalls
      BY <1>1 DEF SlotCalls, Reserving
    <3>2. SlotCalls # {}
      BY <3>1
    <3> QED BY <3>2, SlotSets, FS_EmptySet, Sizes
  <2> QED BY <1>1, <1>7, <2>1, <2>2, <2>3, Sizes DEF SlotsInv
<1>10. TypeOK'
  <2>1. call' \in [Attempts -> [Calls -> Reserving \union {"none", "over"}]]
    BY <1>1 DEF TypeOK
  <2> QED BY <1>1, <1>4, <1>7, <1>9, <2>1 DEF TypeOK
<1>11. OwnersInv'
  BY <1>1 DEF OwnersInv
<1>12. ResultsInv'
  BY <1>1, <1>3, <1>4, <1>7 DEF ResultsInv, OwnersInv, Working
<1>13. CallsInv'
  <2> SUFFICES ASSUME NEW b \in Attempts, NEW d \in Calls PROVE CallsInv!(b, d)'
    BY DEF CallsInv
  <2>1. CASE b = a /\ d = c
    BY <1>1, <1>2, <1>3, <2>1 DEF CallsInv, Fresh, ReportOf, Reserving, OwnersInv
  <2>2. CASE <<b, d>> # <<a, c>>
    BY <1>1, <1>2, <1>4, <1>7, <2>2 DEF CallsInv, Fresh, ReportOf
  <2> QED BY <2>1, <2>2
<1>14. UnpaidInv'
  BY <1>1, <1>4, <1>7 DEF UnpaidInv, CallsInv, Fresh
<1>15. AnswersInv'
  BY <1>1, <1>7 DEF AnswersInv
<1> QED BY <1>8, <1>9, <1>10, <1>11, <1>12, <1>13, <1>14, <1>15

\* A task ends before it owns its attempt, with its handler, at the deadline or
\* with the process.
LEMMA TaskEndKeeps ==
  ASSUME ChatIInv, NEW a \in Attempts,
         StartFails(a) \/ HandlerEnds(a) \/ TimeOut(a) \/ CancelTask(a)
  PROVE  ChatIInv'
<1> USE DEF ChatIInv
<1>1. ASSUME NEW finish \in SUBSET Results, \A x, y \in finish : x = y,
             EndTask(a, finish), task[a].pc \in Working, UNCHANGED <<spring, stored>>
      PROVE  ChatIInv'
  <2>1. /\ TypeOK' /\ RowsInv' /\ OwnersInv' /\ ResultsInv' /\ CallsInv'
        /\ UnpaidInv' /\ SlotsInv' /\ rows \subseteq rows'
    BY <1>1, EndKeeps DEF TypeOK
  <2> QED BY <1>1, <2>1 DEF AnswersInv, spring
<1>2. CASE StartFails(a)
  <2>1. {"failure"} \in SUBSET Results
    BY DEF Results
  <2> QED BY <1>1, <1>2, <2>1 DEF StartFails, Working
<1>3. CASE TimeOut(a)
  BY <1>1, <1>3 DEF TimeOut, Working
<1>4. CASE CancelTask(a)
  <2>1. CASE EndTask(a, {"failure"}) /\ task[a].pc \in {"starting", "handling"}
    <3>1. {"failure"} \in SUBSET Results
      BY DEF Results
    <3> QED BY <1>1, <1>4, <2>1, <3>1 DEF CancelTask, Working
  <2>2. CASE /\ task[a].pc = "created" /\ task' = [task EXCEPT ![a].pc = "done"]
             /\ proc = "draining"
             /\ UNCHANGED <<proc, starts, reserved, created, call, outbox, handled, paid, spring, stored>>
    <3>1. \A b \in Attempts : /\ task'[b].pc = IF b = a THEN "done" ELSE task[b].pc
                              /\ task'[b].runner = task[b].runner
      BY <2>2 DEF TypeOK
    <3>2. TypeOK'
      BY <2>2 DEF TypeOK, outbox, spring
    <3>3. RowsInv' /\ UnpaidInv' /\ AnswersInv'
      BY <2>2 DEF RowsInv, UnpaidInv, AnswersInv, outbox, spring
    <3>4. OwnersInv' /\ ResultsInv'
      BY <2>2, <3>1 DEF OwnersInv, ResultsInv, TypeOK, RowTypes, Working, outbox, spring
    <3>5. CallsInv'
      <4> SUFFICES ASSUME NEW b \in Attempts, NEW c \in Calls PROVE CallsInv!(b, c)'
        BY DEF CallsInv
      <4> QED BY <2>2, <3>1 DEF CallsInv, Fresh, ReportOf, Working, Reserving, outbox, spring
    <3>6. SlotsInv'
      <4>1. Cardinality(AtWork') <= Cardinality(AtWork)
        BY <3>1, WorkMoves DEF Working
      <4>2. AtWork' \in SUBSET Attempts /\ SlotCalls' = SlotCalls
        BY <2>2 DEF AtWork, SlotCalls
      <4>3. Cardinality(AtWork') \in Nat
        BY <4>2, Counted
      <4> QED BY <2>2, <4>1, <4>2, <4>3, Sizes DEF SlotsInv, outbox
    <3> QED BY <3>2, <3>3, <3>4, <3>5, <3>6
  <2> QED BY <1>4, <2>1, <2>2 DEF CancelTask
<1>5. CASE HandlerEnds(a)
  <2>1. PICK says \in {"answer", "oversized", "failure"} :
          /\ EndTask(a, {says})
          /\ stored' = IF Report("finish", a, 0, says) \in rows' /\ says = "answer"
                       THEN stored \union {a} ELSE stored
    BY <1>5 DEF HandlerEnds
  <2>2. task[a].pc = "handling" /\ UNCHANGED spring
    BY <1>5 DEF HandlerEnds
  <2>3. {says} \in SUBSET Results /\ stored' \subseteq Attempts
    BY <2>1 DEF Results, TypeOK
  <2>4. /\ TypeOK' /\ RowsInv' /\ OwnersInv' /\ ResultsInv' /\ CallsInv'
        /\ UnpaidInv' /\ SlotsInv' /\ rows \subseteq rows'
    BY <2>1, <2>2, <2>3, EndKeeps DEF Working
  <2>5. AnswersInv'
    <3>1. SUFFICES ASSUME NEW b \in stored' PROVE AnswersInv!(b)'
      BY DEF AnswersInv
    <3>2. CASE b \in stored
      BY <2>2, <2>4, <3>2 DEF AnswersInv, spring
    <3>3. CASE b \notin stored
      <4>1. b = a /\ says = "answer" /\ Report("finish", a, 0, "answer") \in rows'
        BY <2>1, <3>3
      <4>2. task[a].runner = run[a].runner /\ run[a].state \in {"running", "timedOut"}
        BY <2>2 DEF OwnersInv, ResultsInv, TypeOK, Working
      <4> DEFINE r == Report("finish", a, 0, "answer")
      <4>3. ReportOf(r, "finish", a, 0) /\ r.says = "answer" /\ r.runner = run[a].runner
        BY <4>2 DEF Report, ReportOf
      <4> QED BY <2>2, <4>1, <4>2, <4>3 DEF OwnersInv, spring
    <3> QED BY <3>2, <3>3
  <2> QED BY <2>4, <2>5
<1> QED BY <1>2, <1>3, <1>4, <1>5
-----------------------------------------------------------------------------
\* The delivery loop and the process

\* Two rows that report the same, up to the turn of the retry and the exchange of a
\* result that is too large.
SameReport(q, r) ==
    /\ q.kind = r.kind /\ q.of = r.of /\ q.call = r.call /\ q.runner = r.runner
    /\ q.says = r.says \/ (r.says = "oversized" /\ q.says = "limit")

\* What a report changes at Spring at most, whether its answer arrives or not.
MovedBy(r) ==
    /\ \A b \in Attempts :
         /\ run'[b].runner = run[b].runner
         /\ \/ run'[b].state = run[b].state
            \/ /\ ReportOf(r, "finish", b, 0) /\ r.runner = run[b].runner
               /\ run[b].state = "running"
               /\ run'[b].state = IF r.says = "answer" THEN "answered" ELSE "failed"
    /\ \A b \in Attempts, c \in Calls :
         \/ usage'[b][c] = usage[b][c]
         \/ /\ ReportOf(r, "usage", b, c) /\ usage[b][c] = "reserved"
            /\ r.says \in Kinds /\ usage'[b][c] = r.says

\* A report reaches Spring: only the owner's result and the usage of a reserved call
\* change anything.
LEMMA ApplyMoves ==
  ASSUME ChatIInv, NEW r \in rows, Apply(r)
  PROVE  /\ MovedBy(r)
         /\ run' \in [Attempts -> [state : {"queued", "running", "answered", "failed", "timedOut"},
                                   runner : {0} \union Runners]]
         /\ usage' \in [Attempts -> [Calls -> {"none", "reserved"} \union Kinds]]
         /\ \A b \in Attempts, c \in Calls :
              ReportOf(r, "usage", b, c) => usage'[b][c] # "reserved"
<1>1. r \in RowTypes /\ WellFormed(r)
  BY DEF ChatIInv, TypeOK, RowsInv
<1>2. /\ run \in [Attempts -> [state : {"queued", "running", "answered", "failed", "timedOut"},
                               runner : {0} \union Runners]]
      /\ usage \in [Attempts -> [Calls -> {"none", "reserved"} \union Kinds]]
  BY DEF ChatIInv, TypeOK
<1>3. CASE r.kind = "finish"
  <2>1. usage' = usage /\ r.of \in Attempts /\ r.call = 0
    BY <1>1, <1>3 DEF Apply, RowTypes, WellFormed
  <2>2. CASE run[r.of].state = "running" /\ run[r.of].runner = r.runner
    <3>1. run' = [run EXCEPT ![r.of].state = IF r.says = "answer" THEN "answered" ELSE "failed"]
      BY <1>3, <2>2 DEF Apply
    <3> QED BY <1>2, <1>3, <2>1, <2>2, <3>1 DEF MovedBy, ReportOf
  <2>3. CASE ~(run[r.of].state = "running" /\ run[r.of].runner = r.runner)
    <3>1. run' = run
      BY <1>3, <2>3 DEF Apply
    <3> QED BY <1>2, <1>3, <2>1, <3>1 DEF MovedBy, ReportOf
  <2> QED BY <2>2, <2>3
<1>4. CASE r.kind # "finish"
  <2>1. run' = run /\ r.of \in Attempts /\ r.call \in Calls /\ r.says \in Kinds /\ r.kind = "usage"
    BY <1>1, <1>4 DEF Apply, RowTypes, WellFormed
  <2>2. usage' = IF usage[r.of][r.call] = "reserved"
                 THEN [usage EXCEPT ![r.of][r.call] = r.says] ELSE usage
    BY <1>4 DEF Apply
  <2>3. usage' \in [Attempts -> [Calls -> {"none", "reserved"} \union Kinds]]
    BY <1>2, <2>1, <2>2
  <2>4. \A b \in Attempts, c \in Calls :
          usage'[b][c] = IF b = r.of /\ c = r.call /\ usage[b][c] = "reserved"
                         THEN r.says ELSE usage[b][c]
    BY <1>2, <2>1, <2>2
  <2> QED BY <1>2, <2>1, <2>3, <2>4 DEF MovedBy, ReportOf, Kinds
<1> QED BY <1>3, <1>4

\* Some rows leave the outbox and the others are sent again under their keys.
LEMMA FewerRows ==
  ASSUME ChatIInv, NEW S \in SUBSET rows, NEW f, f = [r \in S |-> f[r]],
         \A r \in S : SameReport(f[r], r) /\ f[r] \in RowTypes
  PROVE  LET after == {f[r] : r \in S} IN
         /\ after \subseteq RowTypes /\ IsFiniteSet(after) /\ Cardinality(after) \in Nat
         /\ Cardinality(after) <= Cardinality(rows)
         /\ OneRowPerKey(after) /\ \A q \in after : WellFormed(q)
         /\ \A q \in after : \E r \in rows : SameReport(q, r)
<1> DEFINE after == {f[r] : r \in S}
<1>1. /\ IsFiniteSet(rows) /\ OneRowPerKey(rows) /\ \A r \in rows : WellFormed(r)
      /\ rows \subseteq RowTypes
  BY DEF ChatIInv, RowsInv, TypeOK
<1>2. IsFiniteSet(S) /\ Cardinality(S) <= Cardinality(rows)
  BY <1>1, FS_Subset
<1>3. IsFiniteSet(after) /\ Cardinality(after) <= Cardinality(S)
  BY <1>2, ImageBound
<1>4. Cardinality(after) \in Nat /\ Cardinality(S) \in Nat /\ Cardinality(rows) \in Nat
  <2> HIDE DEF after
  <2> QED BY <1>1, <1>2, <1>3, FS_CardinalityType
<1>5. \A r \in S : Key(f[r]) = Key(r)
  BY DEF SameReport, Key
<1>6. OneRowPerKey(after)
  BY <1>1, <1>5 DEF OneRowPerKey
<1>7. \A q \in after : WellFormed(q)
  BY <1>1 DEF SameReport, WellFormed, Results, Kinds
<1> QED BY <1>2, <1>3, <1>4, <1>6, <1>7

\* A step that adds no report keeps the invariant if it keeps the stored answers.
LEMMA DeliveryKeeps ==
  ASSUME ChatIInv,
         UNCHANGED <<starts, reserved, task, created, call, late, handled, paid, stored>>,
         proc' \in {"serving", "draining", "closing", "down"}, proc' = "serving" => proc = "serving", proc' = "down" => proc = "down",
         rows' \subseteq RowTypes, IsFiniteSet(rows'), Cardinality(rows') \in Nat,
         Cardinality(rows') <= Cardinality(rows),
         OneRowPerKey(rows'), \A q \in rows' : WellFormed(q), flight' \subseteq rows',
         \A q \in rows' : \E r \in rows : SameReport(q, r),
         UNCHANGED <<run, usage>> \/ \E r \in rows : MovedBy(r),
         run' \in [Attempts -> [state : {"queued", "running", "answered", "failed", "timedOut"},
                                runner : {0} \union Runners]],
         usage' \in [Attempts -> [Calls -> {"none", "reserved"} \union Kinds]],
         AnswersInv'
  PROVE  ChatIInv'
<1> USE DEF ChatIInv
<1>1. TypeOK'
  BY DEF TypeOK
<1>2. RowsInv'
  BY DEF RowsInv
<1>3. \A b \in Attempts :
        /\ run'[b].runner = run[b].runner
        /\ run'[b].state = "queued" => run[b].state = "queued"
        /\ run'[b].state = "timedOut" => run[b].state = "timedOut"
        /\ run[b].state = "queued" => run'[b].state = "queued"
        /\ run'[b].state \in {"answered", "failed"} /\ run[b].state \notin {"answered", "failed"} =>
             \E r \in rows : ReportOf(r, "finish", b, 0) /\ r.runner = run[b].runner
  BY DEF MovedBy
<1>4. OwnersInv'
  BY <1>3 DEF OwnersInv
<1>5. ResultsInv'
  <2>1. ASSUME NEW q \in rows'
        PROVE  /\ q.runner <= created[q.of]
               /\ q.kind = "finish" /\ task[q.of].pc \in Working => q.runner # task[q.of].runner
    <3>1. PICK r \in rows : SameReport(q, r)
      OBVIOUS
    <3> QED BY <3>1 DEF SameReport, ResultsInv
  <2>2. ASSUME NEW b \in Attempts, run'[b].state \in {"answered", "failed"}, task[b].pc \in Working
        PROVE  run'[b].runner # task[b].runner
    BY <1>3, <2>2 DEF ResultsInv, ReportOf
  <2> QED BY <2>1, <2>2 DEF ResultsInv
<1>6. CallsInv'
  <2>1. ASSUME NEW b \in Attempts, NEW c \in Calls, \A r \in rows : ~ReportOf(r, "usage", b, c)
        PROVE  /\ \A q \in rows' : ~ReportOf(q, "usage", b, c)
               /\ usage'[b][c] = usage[b][c]
    BY <2>1 DEF SameReport, ReportOf, MovedBy
  <2>2. SUFFICES ASSUME NEW b \in Attempts, NEW c \in Calls PROVE CallsInv!(b, c)'
    BY DEF CallsInv
  <2>3. CASE \A r \in rows : ~ReportOf(r, "usage", b, c)
    BY <2>1, <2>3 DEF CallsInv, Fresh
  <2>4. CASE \E r \in rows : ReportOf(r, "usage", b, c)
    BY <2>4 DEF CallsInv, Fresh
  <2> QED BY <2>3, <2>4
<1>7. UnpaidInv'
  <2> SUFFICES ASSUME NEW q \in rows', q.kind = "usage", q.says = "RELEASE"
               PROVE  <<q.of, q.call>> \notin paid
    BY DEF UnpaidInv
  <2>1. PICK r \in rows : SameReport(q, r)
    OBVIOUS
  <2> QED BY <2>1 DEF SameReport, UnpaidInv
<1>8. SlotsInv'
  <2>1. AtWork' = AtWork /\ SlotCalls' = SlotCalls
    BY DEF AtWork, SlotCalls
  <2> QED BY <2>1, Sizes DEF SlotsInv
<1> QED BY <1>1, <1>2, <1>4, <1>5, <1>6, <1>7, <1>8

\* One flush purges what is late and renumbers the turns of the rest.
LEMMA FlushRows ==
  ASSUME ChatIInv, Flush
  PROVE  LET left == {r \in rows : ~Expired(r)} IN
         \E f : /\ f = [r \in left |-> f[r]]
                /\ rows' = {f[r] : r \in left}
                /\ \A r \in left : /\ SameReport(f[r], r) /\ f[r] \in RowTypes
                                   /\ f[r].says = r.says
<1> DEFINE left == {r \in rows : ~Expired(r)}
<1>1. PICK usages \in Selections("usage", left), finishes \in Selections("finish", left) :
        rows' = Tried(usages \union finishes, left)
  BY DEF Flush
<1> DEFINE batch == usages \union finishes
           G(r) == IF r \in batch THEN [r EXCEPT !.tried = MaxRows + 1] ELSE r
           M == {G(r) : r \in left}
           T(n) == Cardinality({q.tried : q \in M} \cap 1..n)
           C(r) == [r EXCEPT !.tried = T(@)]
           f == [r \in left |-> C(G(r))]
<1>2. rows' = {C(m) : m \in M}
  BY <1>1 DEF Tried, Compress
<1>3. rows' = {f[r] : r \in left}
  BY <1>2
<1>4. \A n \in Nat : T(n) \in Nat
  <2> SUFFICES ASSUME NEW n \in Nat PROVE T(n) \in Nat
    OBVIOUS
  <2> DEFINE X == {q.tried : q \in M} \cap 1..n
  <2>1. X \subseteq 1..n
    OBVIOUS
  <2> HIDE DEF X
  <2>2. IsFiniteSet(1..n)
    BY FS_Interval
  <2>3. IsFiniteSet(X)
    BY <2>1, <2>2, FS_Subset
  <2>4. Cardinality(X) \in Nat
    BY <2>3, FS_CardinalityType
  <2> QED BY <2>4 DEF X
<1> HIDE DEF T
<1>5. ASSUME NEW r \in left
      PROVE  SameReport(f[r], r) /\ f[r] \in RowTypes /\ f[r].says = r.says
  <2>1. r \in RowTypes /\ MaxRows + 1 \in Nat
    BY ChatAssumption DEF ChatIInv, TypeOK
  <2>2. PICK n \in Nat : G(r) = [r EXCEPT !.tried = n]
    <3>1. r = [r EXCEPT !.tried = r.tried] /\ r.tried \in Nat
      BY <2>1 DEF RowTypes
    <3> QED BY <2>1, <3>1
  <2> HIDE DEF G
  <2>3. G(r) \in RowTypes /\ G(r).tried = n
    BY <2>1, <2>2 DEF RowTypes
  <2>4. PICK m \in Nat : C(G(r)) = [G(r) EXCEPT !.tried = m]
    BY <1>4, <2>3
  <2>5. f[r] = [[r EXCEPT !.tried = n] EXCEPT !.tried = m]
    BY <2>2, <2>4
  <2> HIDE DEF f
  <2> QED BY <2>1, <2>5 DEF SameReport, RowTypes
<1>6. f = [r \in left |-> f[r]]
  OBVIOUS
<1> HIDE DEF f
<1> QED BY <1>3, <1>5, <1>6

\* A flush keeps every report that is not late.
LEMMA FlushKeeps == ASSUME ChatIInv, Flush PROVE ChatIInv'
<1> DEFINE left == {r \in rows : ~Expired(r)}
<1>1. PICK f : /\ f = [r \in left |-> f[r]]
               /\ rows' = {f[r] : r \in left}
               /\ \A r \in left : /\ SameReport(f[r], r) /\ f[r] \in RowTypes
                                  /\ f[r].says = r.says
  BY FlushRows
<1>2. left \in SUBSET rows
  OBVIOUS
<1>3. /\ UNCHANGED <<starts, reserved, task, created, call, run, usage, late, handled, paid, stored>>
      /\ proc' \in {"serving", "draining", "closing", "down"} /\ (proc' = "serving" => proc = "serving")
      /\ (proc' = "down" => proc = "down")
      /\ flight' \subseteq rows'
  BY DEF Flush, spring
<1>4. AnswersInv'
  <2> SUFFICES ASSUME NEW a \in stored PROVE AnswersInv!(a)'
    BY <1>3 DEF AnswersInv
  <2>1. CASE a \in late \/ run[a].state = "answered"
    BY <1>3, <2>1
  <2>2. CASE a \notin late /\ run[a].state # "answered"
    <3>1. PICK r \in rows : /\ ReportOf(r, "finish", a, 0) /\ r.says = "answer"
                            /\ r.runner = run[a].runner
      BY <2>2 DEF ChatIInv, AnswersInv
    <3>2. r \in left
      BY <2>2, <3>1 DEF Expired, ReportOf
    <3>3. f[r] \in rows' /\ ReportOf(f[r], "finish", a, 0) /\ f[r].says = "answer"
          /\ f[r].runner = run[a].runner
      BY <1>1, <3>1, <3>2 DEF SameReport, ReportOf
    <3>4. run[a].state = "running" /\ run' = run
      BY <1>3, <2>2 DEF ChatIInv, AnswersInv
    <3> QED BY <3>3, <3>4
  <2> QED BY <2>1, <2>2
<1>5. /\ rows' \subseteq RowTypes /\ IsFiniteSet(rows') /\ Cardinality(rows') \in Nat
      /\ Cardinality(rows') <= Cardinality(rows)
      /\ OneRowPerKey(rows') /\ \A q \in rows' : WellFormed(q)
      /\ \A q \in rows' : \E r \in rows : SameReport(q, r)
  <2> HIDE DEF left
  <2> QED BY <1>1, <1>2, FewerRows
<1>6. /\ run' \in [Attempts -> [state : {"queued", "running", "answered", "failed", "timedOut"},
                                runner : {0} \union Runners]]
      /\ usage' \in [Attempts -> [Calls -> {"none", "reserved"} \union Kinds]]
  BY <1>3 DEF ChatIInv, TypeOK
<1> QED BY <1>3, <1>4, <1>5, <1>6, DeliveryKeeps

\* A row leaves with the answer of Spring, with its deadline or in exchange for a
\* small failure, and a report without an answer stays where it is.
LEMMA ReportKeeps ==
  ASSUME ChatIInv, NEW r \in flight, Delivered(r) \/ NotAnswered(r) \/ Discard(r)
  PROVE  ChatIInv'
<1>1. /\ r \in rows /\ flight \subseteq rows /\ rows \subseteq RowTypes
      /\ OneRowPerKey(rows) /\ \A q \in rows : WellFormed(q)
  BY DEF ChatIInv, RowsInv, TypeOK
<1>2. /\ UNCHANGED <<proc, starts, reserved, task, created, call, late, handled, paid, stored>>
      /\ flight' = flight \ {r}
  BY DEF Delivered, NotAnswered, Discard, chat, spring
<1>3. /\ UNCHANGED <<run, usage>> \/ \E q \in rows : MovedBy(q)
      /\ run' \in [Attempts -> [state : {"queued", "running", "answered", "failed", "timedOut"},
                                runner : {0} \union Runners]]
      /\ usage' \in [Attempts -> [Calls -> {"none", "reserved"} \union Kinds]]
  <2>1. UNCHANGED <<run, usage>> \/ Apply(r)
    BY DEF Delivered, NotAnswered, Discard, spring
  <2>2. CASE UNCHANGED <<run, usage>>
    BY <2>2 DEF ChatIInv, TypeOK
  <2>3. CASE Apply(r)
    BY <1>1, <2>3, ApplyMoves
  <2> QED BY <2>1, <2>2, <2>3
<1>4. \A q \in rows : Key(q) = Key(r) <=> q = r
  BY <1>1 DEF OneRowPerKey
<1>5. \/ rows' = rows
      \/ rows' = rows \ {r} /\ (Expired(r) \/ Apply(r))
      \/ rows' = Smaller(r) /\ r.says = "oversized"
  BY <1>4 DEF Delivered, NotAnswered, Discard, Without
<1> DEFINE Kept(S, f) == /\ f = [q \in S |-> f[q]]
                         /\ rows' = {f[q] : q \in S}
                         /\ \A q \in S : /\ SameReport(f[q], q) /\ f[q] \in RowTypes
                                         /\ q # r => f[q] = q
                         /\ rows \ {r} \subseteq S
                         /\ r \in S \/ Expired(r) \/ Apply(r)
<1>10. PICK S \in SUBSET rows : \E f : Kept(S, f)
  <2>1. CASE rows' = rows
    <3> DEFINE f == [q \in rows |-> q]
    <3>1. rows' = {f[q] : q \in rows} /\ \A q \in rows : SameReport(f[q], q) /\ f[q] \in RowTypes
      BY <1>1, <2>1 DEF SameReport
    <3> QED BY <1>1, <3>1
  <2>2. CASE rows' = rows \ {r} /\ (Expired(r) \/ Apply(r))
    <3> DEFINE S == rows \ {r}
               f == [q \in S |-> q]
    <3>1. rows' = {f[q] : q \in S} /\ \A q \in S : SameReport(f[q], q) /\ f[q] \in RowTypes
      BY <1>1, <2>2 DEF SameReport
    <3> QED BY <2>2, <3>1
  <2>3. CASE rows' = Smaller(r) /\ r.says = "oversized"
    <3> DEFINE W(q) == IF Key(q) = Key(r) THEN [q EXCEPT !.says = "limit"] ELSE q
               f == [q \in rows |-> W(q)]
    <3>1. rows' = {f[q] : q \in rows}
      BY <2>3 DEF Smaller
    <3>2. \A q \in rows : SameReport(W(q), q) /\ W(q) \in RowTypes
      <4> SUFFICES ASSUME NEW q \in rows PROVE SameReport(W(q), q) /\ W(q) \in RowTypes
        OBVIOUS
      <4>1. q \in RowTypes /\ "limit" \in Results \union Kinds
        BY <1>1 DEF Results
      <4>2. CASE q = r
        <5>1. W(q) = [q EXCEPT !.says = "limit"]
          BY <4>2
        <5> QED BY <2>3, <4>1, <4>2, <5>1 DEF SameReport, RowTypes
      <4>3. CASE q # r
        BY <1>4, <4>1, <4>3 DEF SameReport
      <4> QED BY <4>2, <4>3
    <3>3. \A q \in rows : q # r => W(q) = q
      BY <1>4
    <3>4. /\ f = [q \in rows |-> f[q]] /\ \A q \in rows : f[q] = W(q)
          /\ rows \in SUBSET rows /\ rows \ {r} \subseteq rows
      OBVIOUS
    <3> HIDE DEF W, f
    <3> QED BY <1>1, <3>1, <3>2, <3>3, <3>4
  <2> QED BY <1>5, <2>1, <2>2, <2>3
<1>6. PICK f : Kept(S, f)
  BY <1>10
<1>7. /\ rows' \subseteq RowTypes /\ IsFiniteSet(rows') /\ Cardinality(rows') \in Nat
      /\ Cardinality(rows') <= Cardinality(rows)
      /\ OneRowPerKey(rows') /\ \A q \in rows' : WellFormed(q)
      /\ \A q \in rows' : \E p \in rows : SameReport(q, p)
  BY <1>6, FewerRows
<1>8. rows \ {r} \subseteq rows' /\ flight' \subseteq rows'
  BY <1>1, <1>2, <1>6
<1>9. AnswersInv'
  <2> SUFFICES ASSUME NEW a \in stored PROVE AnswersInv!(a)'
    BY <1>2 DEF AnswersInv
  <2> a \in Attempts
    BY DEF ChatIInv, TypeOK
  <2>1. CASE a \in late
    BY <1>2, <2>1
  <2>2. CASE a \notin late /\ run[a].state = "answered"
    BY <1>3, <2>2 DEF MovedBy
  <2>3. CASE a \notin late /\ run[a].state # "answered"
    <3>1. PICK q \in rows : /\ ReportOf(q, "finish", a, 0) /\ q.says = "answer"
                            /\ q.runner = run[a].runner
      BY <2>3 DEF ChatIInv, AnswersInv
    <3>2. run[a].state = "running"
      BY <2>3 DEF ChatIInv, AnswersInv
    <3>3. run'[a].state = "answered" \/ run'[a] = run[a]
      <4>1. CASE UNCHANGED <<run, usage>>
        BY <4>1
      <4>2. ASSUME NEW m \in rows, MovedBy(m), run'[a].state # run[a].state
            PROVE  run'[a].state = "answered"
        <5>1. ReportOf(m, "finish", a, 0) /\ m.runner = run[a].runner
          BY <4>2 DEF MovedBy
        <5>2. m = q
          BY <1>1, <3>1, <5>1 DEF OneRowPerKey, Key, ReportOf
        <5> QED BY <3>1, <4>2, <5>2 DEF MovedBy
      <4>3. ASSUME NEW m \in rows, MovedBy(m), run'[a].state = run[a].state
            PROVE  run'[a] = run[a]
        <5>1. run'[a].runner = run[a].runner
          BY <4>3 DEF MovedBy
        <5>2. /\ run'[a] \in [state : {"queued", "running", "answered", "failed", "timedOut"},
                              runner : {0} \union Runners]
              /\ run[a] \in [state : {"queued", "running", "answered", "failed", "timedOut"},
                              runner : {0} \union Runners]
          BY <1>3 DEF ChatIInv, TypeOK
        <5> QED BY <4>3, <5>1, <5>2
      <4> QED BY <1>3, <4>1, <4>2, <4>3
    <3>4. CASE q # r \/ q \in rows'
      <4>1. q \in rows'
        BY <1>8, <3>4
      <4> QED BY <3>1, <3>2, <3>3, <4>1
    <3>5. CASE q = r /\ q \notin rows'
      <4>1. r \notin S
        <5>1. ASSUME r \in S PROVE FALSE
          <6>1. f[r] \in rows' /\ SameReport(f[r], r)
            BY <1>6, <5>1
          <6>2. r.says = "answer" /\ f[r] # r
            BY <3>1, <3>5, <6>1
          <6>3. rows' = rows \/ rows' = rows \ {r} \/ r.says = "oversized"
            BY <1>5
          <6>4. rows' = rows \ {r}
            BY <1>1, <3>5, <6>2, <6>3
          <6>5. f[r] \in rows /\ Key(f[r]) = Key(r)
            BY <6>1, <6>4 DEF SameReport, Key
          <6> QED BY <1>4, <6>2, <6>5
        <5> QED BY <5>1
      <4>2. ~Expired(r)
        BY <2>3, <3>1, <3>5 DEF Expired, ReportOf
      <4>3. Apply(r)
        BY <1>6, <4>1, <4>2
      <4>4. run' = [run EXCEPT ![a].state = "answered"]
        BY <3>1, <3>2, <3>5, <4>3 DEF Apply, ReportOf
      <4>5. run'[a].state = "answered"
        BY <4>4 DEF ChatIInv, TypeOK
      <4> QED BY <4>5
    <3> QED BY <3>4, <3>5
  <2> QED BY <2>1, <2>2, <2>3
<1> QED BY <1>2, <1>3, <1>7, <1>8, <1>9, DeliveryKeeps DEF ChatIInv, TypeOK

\* The process stops, exits, dies and is started again: rows survive, promises and
\* tasks do not.
LEMMA ProcessKeeps ==
  ASSUME ChatIInv, StopServing \/ Exit \/ Crash \/ Boot
  PROVE  ChatIInv'
<1> USE DEF ChatIInv
<1>1. CASE StopServing
  <2>1. /\ UNCHANGED <<starts, reserved, task, created, call, rows, run, usage, late, handled, paid, stored>>
        /\ flight' = {} /\ proc' = "draining"
    BY <1>1 DEF StopServing, spring
  <2>2. TypeOK' /\ RowsInv'
    BY <2>1 DEF TypeOK, RowsInv
  <2>3. OwnersInv' /\ ResultsInv' /\ CallsInv' /\ UnpaidInv' /\ AnswersInv'
    BY <2>1 DEF OwnersInv, ResultsInv, CallsInv, Fresh, UnpaidInv, AnswersInv
  <2>4. AtWork' = AtWork /\ SlotCalls' = SlotCalls
    BY <2>1 DEF AtWork, SlotCalls
  <2> QED BY <2>1, <2>2, <2>3, <2>4 DEF SlotsInv
<1>2. CASE Boot
  <2>1. /\ UNCHANGED <<reserved, task, created, call, rows, flight, run, usage, late, handled, paid, stored>>
        /\ starts' = starts + 1 /\ starts < MaxStarts /\ proc = "down" /\ proc' = "serving"
    BY <1>2 DEF Boot, outbox, spring
  <2>2. starts' \in 1..MaxStarts
    BY <2>1, ChatAssumption DEF TypeOK
  <2>3. TypeOK' /\ RowsInv'
    BY <2>1, <2>2 DEF TypeOK, RowsInv
  <2>4. OwnersInv' /\ ResultsInv' /\ CallsInv' /\ UnpaidInv' /\ AnswersInv'
    BY <2>1 DEF OwnersInv, ResultsInv, CallsInv, Fresh, UnpaidInv, AnswersInv
  <2>5. AtWork' = AtWork /\ SlotCalls' = SlotCalls
    BY <2>1 DEF AtWork, SlotCalls
  <2>6. SlotsInv'
    BY <2>1, <2>5, Sizes DEF SlotsInv
  <2> QED BY <2>3, <2>4, <2>6
<1>3. CASE Exit \/ Crash
  <2>1. /\ UNCHANGED <<starts, created, rows, run, usage, late, handled, stored>>
        /\ proc' = "down" /\ flight' = {} /\ reserved' = 0
        /\ task' = [a \in Attempts |-> NoTask]
        /\ call' = [a \in Attempts |-> NoCalls]
        /\ paid' \subseteq paid
    BY <1>3 DEF Exit, Crash, Gone, spring
  <2>2. /\ \A b \in Attempts : task'[b].pc = "none" /\ task'[b].runner = 0
        /\ \A b \in Attempts, c \in Calls : call'[b][c] = "none"
    BY <2>1 DEF NoTask, NoCalls
  <2>3. TypeOK'
    <3>1. task' \in [Attempts -> [pc : Working \union {"none", "done"}, runner : {0} \union Runners]]
      BY <2>1 DEF NoTask
    <3>2. call' \in [Attempts -> [Calls -> Reserving \union {"none", "over"}]]
      BY <2>1 DEF NoCalls
    <3> QED BY <2>1, <3>1, <3>2 DEF TypeOK
  <2>4. RowsInv'
    BY <2>1 DEF RowsInv
  <2>5. OwnersInv'
    BY <2>1, <2>2 DEF OwnersInv, Working
  <2>6. ResultsInv'
    BY <2>1, <2>2 DEF ResultsInv, TypeOK, RowTypes, Working
  <2>7. CallsInv'
    BY <2>1, <2>2 DEF CallsInv, Fresh, Reserving
  <2>8. UnpaidInv' /\ AnswersInv'
    BY <2>1 DEF UnpaidInv, AnswersInv
  <2>9. SlotsInv'
    <3>1. AtWork' = {} /\ SlotCalls' = {}
      BY <2>2 DEF AtWork, SlotCalls, Working, Reserving
    <3>2. Cardinality({}) = 0
      BY FS_EmptySet
    <3> QED BY <2>1, <3>1, <3>2, Sizes DEF SlotsInv
  <2> QED BY <2>3, <2>4, <2>5, <2>6, <2>7, <2>8, <2>9
<1> QED BY <1>1, <1>2, <1>3

\* The process starts with an empty outbox and nothing promised.
LEMMA ChatStarts == Init => ChatIInv
<1> SUFFICES ASSUME Init PROVE ChatIInv
  OBVIOUS
<1> USE DEF Init
<1>1. MaxStarts \in Nat \ {0} /\ MaxTasks \in Nat \ {0} /\ MaxRows \in Nat \ {0}
  BY ChatAssumption
<1>2. /\ \A b \in Attempts : task[b].pc = "none" /\ task[b].runner = 0
      /\ \A b \in Attempts, c \in Calls : call[b][c] = "none" /\ usage[b][c] = "none"
  BY DEF NoTask, NoCalls
<1>3. TypeOK
  <2>1. task \in [Attempts -> [pc : Working \union {"none", "done"}, runner : {0} \union Runners]]
    BY DEF NoTask
  <2>2. call \in [Attempts -> [Calls -> Reserving \union {"none", "over"}]]
    BY DEF NoCalls
  <2>3. /\ created \in [Attempts -> 0..MaxTasks] /\ starts \in 1..MaxStarts
        /\ usage \in [Attempts -> [Calls -> {"none", "reserved"} \union Kinds]]
        /\ run \in [Attempts -> [state : {"queued", "running", "answered", "failed", "timedOut"},
                                 runner : {0} \union Runners]]
    BY <1>1
  <2> QED BY <2>1, <2>2, <2>3 DEF TypeOK
<1>4. RowsInv
  BY FS_EmptySet DEF RowsInv, OneRowPerKey
<1>5. OwnersInv /\ ResultsInv
  BY <1>2 DEF OwnersInv, ResultsInv, Working
<1>6. CallsInv
  BY <1>2 DEF CallsInv, Fresh, Reserving
<1>7. UnpaidInv /\ AnswersInv
  BY DEF UnpaidInv, AnswersInv
<1>8. SlotsInv
  <2>1. AtWork = {} /\ SlotCalls = {}
    BY <1>2 DEF AtWork, SlotCalls, Working, Reserving
  <2>2. Cardinality({}) = 0
    BY FS_EmptySet
  <2> QED BY <1>1, <2>1, <2>2 DEF SlotsInv
<1> QED BY <1>3, <1>4, <1>5, <1>6, <1>7, <1>8 DEF ChatIInv

\* Every step of the process, of its tasks and of Spring keeps the invariant.
LEMMA ChatInvariance == Spec => []ChatIInv
<1>1. ChatIInv /\ [Next]_vars => ChatIInv'
  <2> SUFFICES ASSUME ChatIInv, [Next]_vars PROVE ChatIInv'
    OBVIOUS
  <2>1. ASSUME NEW a \in Attempts, TaskStep(a) PROVE ChatIInv'
    <3>1. CASE Submit(a)
      BY <3>1, SubmitKeeps
    <3>2. CASE Begin(a) \/ Forget(a) \/ StartGranted(a)
      BY <3>2, TaskMoves
    <3>3. CASE TakeOwnership(a) \/ \E c \in Calls : GrantTokens(a, c)
      BY <3>3, SpringKeeps
    <3>4. CASE StartFails(a) \/ HandlerEnds(a) \/ TimeOut(a) \/ CancelTask(a)
      BY <3>4, TaskEndKeeps
    <3>5. ASSUME NEW c \in Calls,
                 ReserveCall(a, c) \/ CallGranted(a, c) \/ CallDenied(a, c) \/ Invoke(a, c)
          PROVE  ChatIInv'
      BY <3>5, CallKeeps
    <3>6. ASSUME NEW c \in Calls, CallEnds(a, c) PROVE ChatIInv'
      BY <3>6, CallEndKeeps
    <3> QED BY <2>1, <3>1, <3>2, <3>3, <3>4, <3>5, <3>6 DEF TaskStep
  <2>2. ASSUME NEW a \in Attempts, DeadlinePasses(a) PROVE ChatIInv'
    BY <2>2, SpringKeeps
  <2>3. CASE Flush
    BY <2>3, FlushKeeps
  <2>4. ASSUME NEW r \in flight, Delivered(r) \/ NotAnswered(r) \/ Discard(r) PROVE ChatIInv'
    BY <2>4, ReportKeeps
  <2>5. CASE StopServing \/ Exit \/ Crash \/ Boot
    BY <2>5, ProcessKeeps
  <2>6. CASE UNCHANGED vars
    <3>1. UNCHANGED <<proc, starts, reserved, task, created, call, rows, flight,
                      run, usage, late, handled, paid, stored>>
      BY <2>6 DEF vars, chat, outbox, spring
    <3>2. TypeOK' /\ RowsInv' /\ OwnersInv' /\ ResultsInv' /\ UnpaidInv' /\ AnswersInv'
      BY <3>1 DEF ChatIInv, TypeOK, RowsInv, OwnersInv, ResultsInv, UnpaidInv, AnswersInv
    <3>3. CallsInv' /\ SlotsInv'
      BY <3>1 DEF ChatIInv, CallsInv, Fresh, SlotsInv, AtWork, SlotCalls
    <3> QED BY <3>2, <3>3 DEF ChatIInv
  <2> QED BY <2>1, <2>2, <2>3, <2>4, <2>5, <2>6 DEF Next
<1> QED BY <1>1, ChatStarts, PTL DEF Spec

-----------------------------------------------------------------------------
\* What was paid

\* A paid call is accounted for and nothing paid is given back; the process ends its
\* tasks before the last flush.
PaidInv ==
    /\ PaidIsReported /\ ReleasedIsUnpaid
    /\ proc \in {"closing", "down"} => \A a \in Attempts : task[a].pc \notin Working

\* A step that pays for nothing keeps the accounts if it forgets no report and no
\* call under way.
LEMMA AccountsKept ==
  ASSUME PaidInv, paid' \subseteq paid,
         \A a \in Attempts, c \in Calls :
           <<a, c>> \in paid' =>
             /\ call[a][c] = "invoking" =>
                  call'[a][c] = "invoking" \/ \E r \in rows' : ReportOf(r, "usage", a, c)
             /\ usage[a][c] # "reserved" => usage'[a][c] # "reserved"
             /\ (\E r \in rows : ReportOf(r, "usage", a, c)) =>
                  \/ usage'[a][c] # "reserved"
                  \/ \E r \in rows' : ReportOf(r, "usage", a, c)
             /\ usage'[a][c] = "RELEASE" => usage[a][c] = "RELEASE"
  PROVE  PaidIsReported' /\ ReleasedIsUnpaid'
<1>1. PaidIsReported'
  BY DEF PaidInv, PaidIsReported
<1>2. ReleasedIsUnpaid'
  BY DEF PaidInv, ReleasedIsUnpaid
<1> QED BY <1>1, <1>2

\* The end of a task reports the paid calls it cuts short.
LEMMA EndAccounts ==
  ASSUME ChatIInv, PaidInv, NEW a \in Attempts, task[a].pc \in Working,
         NEW finish \in SUBSET Results, \A x, y \in finish : x = y, EndTask(a, finish),
         UNCHANGED spring
  PROVE  PaidInv'
<1>1. /\ rows \subseteq rows'
      /\ \A c \in Calls : call[a][c] \in {"preflight", "invoking"} =>
           \E r \in rows' : ReportOf(r, "usage", a, c)
  BY LeftRows DEF EndTask
<1>2. /\ UNCHANGED <<proc, paid, usage>>
      /\ \A b \in Attempts : task'[b].pc = IF b = a THEN "done" ELSE task[b].pc
      /\ \A b \in Attempts, c \in Calls : b # a => call'[b][c] = call[b][c]
  BY DEF EndTask, spring, ChatIInv, TypeOK
<1>3. PaidIsReported' /\ ReleasedIsUnpaid'
  BY <1>1, <1>2, AccountsKept
<1> QED BY <1>2, <1>3 DEF PaidInv, Working

\* The delivery loop gives up a usage only when Spring has an entry for the call.
LEMMA DeliveryAccounts ==
  ASSUME ChatIInv, PaidInv,
         Flush \/ \E r \in flight : Delivered(r) \/ NotAnswered(r) \/ Discard(r)
  PROVE  PaidInv'
<1>0. /\ \A q \in rows : WellFormed(q)
      /\ OneRowPerKey(rows) /\ flight \subseteq rows /\ rows \subseteq RowTypes
  BY DEF ChatIInv, RowsInv, TypeOK
<1>1. CASE Flush
  <2> DEFINE left == {r \in rows : ~Expired(r)}
  <2>1. PICK f : /\ f = [r \in left |-> f[r]] /\ rows' = {f[r] : r \in left}
                 /\ \A r \in left : SameReport(f[r], r)
    BY <1>1, FlushRows
  <2>2. UNCHANGED <<task, call, usage, paid>>
    BY <1>1 DEF Flush, spring
  <2>3. ASSUME NEW a \in Attempts, NEW c \in Calls, NEW r \in rows, ReportOf(r, "usage", a, c)
        PROVE  \E q \in rows' : ReportOf(q, "usage", a, c)
    <3>1. r \in left
      BY <2>3 DEF Expired, ReportOf
    <3> QED BY <2>1, <2>3, <3>1 DEF SameReport, ReportOf
  <2>4. PaidIsReported' /\ ReleasedIsUnpaid'
    BY <2>2, <2>3, AccountsKept
  <2>5. proc' \in {"closing", "down"} => \A a \in Attempts : task'[a].pc \notin Working
    BY <1>1, <2>2 DEF Flush, AtWork, PaidInv
  <2> QED BY <2>4, <2>5 DEF PaidInv
<1>2. ASSUME NEW r \in flight, Delivered(r) \/ NotAnswered(r) \/ Discard(r) PROVE PaidInv'
  <2>1. r \in rows /\ WellFormed(r)
    BY <1>0
  <2>2. UNCHANGED <<proc, task, call, paid>>
    BY <1>2 DEF Delivered, NotAnswered, Discard, chat
  <2>3. UNCHANGED usage \/ Apply(r)
    BY <1>2 DEF Delivered, NotAnswered, Discard, spring
  <2>4. ASSUME NEW a \in Attempts, NEW c \in Calls, <<a, c>> \in paid
        PROVE  /\ usage[a][c] # "reserved" => usage'[a][c] # "reserved"
               /\ usage'[a][c] = "RELEASE" => usage[a][c] = "RELEASE"
    <3>1. CASE UNCHANGED usage
      BY <3>1
    <3>2. CASE Apply(r)
      <4>1. MovedBy(r)
        BY <2>1, <3>2, ApplyMoves
      <4> QED BY <2>1, <2>4, <4>1 DEF MovedBy, ReportOf, Kinds, ChatIInv, UnpaidInv
    <3> QED BY <2>3, <3>1, <3>2
  <2>5. ASSUME NEW a \in Attempts, NEW c \in Calls, NEW q \in rows, ReportOf(q, "usage", a, c)
        PROVE  usage'[a][c] # "reserved" \/ \E m \in rows' : ReportOf(m, "usage", a, c)
    <3>1. q \in rows' \/ q = r
      BY <1>0, <1>2, <2>1 DEF Delivered, NotAnswered, Discard, Without, Smaller, OneRowPerKey
    <3>2. CASE q \in rows'
      BY <2>5, <3>2
    <3>3. CASE q = r
      <4>1. r.says # "oversized" /\ ~Expired(r)
        BY <2>1, <2>5, <3>3 DEF WellFormed, ReportOf, Kinds, Expired
      <4>2. rows' = rows \/ Apply(r)
        BY <1>2, <4>1 DEF Delivered, NotAnswered, Discard
      <4>3. ASSUME Apply(r) PROVE usage'[a][c] # "reserved"
        BY <2>1, <2>5, <3>3, <4>3, ApplyMoves
      <4> QED BY <2>1, <2>5, <3>3, <4>2, <4>3
    <3> QED BY <3>1, <3>2, <3>3
  <2>6. PaidIsReported' /\ ReleasedIsUnpaid'
    BY <2>2, <2>4, <2>5, AccountsKept
  <2> QED BY <2>2, <2>6 DEF PaidInv
<1> QED BY <1>1, <1>2

\* Every other step of a task or of Spring pays only for calls that Spring has
\* reserved tokens for.
LEMMA CallAccounts ==
  ASSUME ChatIInv, PaidInv, NEW a \in Attempts,
         \/ Submit(a) \/ Begin(a) \/ TakeOwnership(a) \/ StartGranted(a) \/ Forget(a)
         \/ DeadlinePasses(a)
         \/ \E c \in Calls : \/ ReserveCall(a, c) \/ GrantTokens(a, c) \/ CallGranted(a, c)
                             \/ CallDenied(a, c) \/ Invoke(a, c) \/ CallEnds(a, c)
  PROVE  PaidInv'
<1> USE DEF ChatIInv
<1>1. ASSUME Submit(a) \/ Begin(a) \/ TakeOwnership(a) \/ StartGranted(a) \/ Forget(a)
             \/ DeadlinePasses(a)
      PROVE  PaidInv'
  <2>1. UNCHANGED <<proc, rows, usage, paid>>
    BY <1>1 DEF Submit, Begin, TakeOwnership, StartGranted, Forget, DeadlinePasses, chat, outbox, spring
  <2>2. ASSUME NEW b \in Attempts, NEW c \in Calls, call[b][c] = "invoking"
        PROVE  call'[b][c] = "invoking"
    <3>1. CASE Submit(a)
      <4>1. call' = [call EXCEPT ![a] = NoCalls] /\ task[a].pc = "none"
        BY <3>1 DEF Submit
      <4>2. b # a
        BY <2>2, <4>1 DEF CallsInv, Reserving
      <4> QED BY <2>2, <4>1, <4>2 DEF TypeOK
    <3>2. CASE ~Submit(a)
      <4>1. UNCHANGED call
        BY <1>1, <3>2 DEF Begin, TakeOwnership, StartGranted, Forget, DeadlinePasses, chat
      <4> QED BY <2>2, <4>1
    <3> QED BY <3>1, <3>2
  <2>3. PaidIsReported' /\ ReleasedIsUnpaid'
    BY <2>1, <2>2, AccountsKept
  <2>4. proc \in {"closing", "down"} => \A b \in Attempts : task'[b].pc \notin Working
    BY <1>1 DEF Submit, Begin, TakeOwnership, StartGranted, Forget, DeadlinePasses, chat,
                PaidInv, TypeOK, Working
  <2> QED BY <2>1, <2>3, <2>4 DEF PaidInv
<1>2. ASSUME NEW c \in Calls,
             \/ ReserveCall(a, c) \/ GrantTokens(a, c) \/ CallGranted(a, c)
             \/ CallDenied(a, c) \/ Invoke(a, c) \/ CallEnds(a, c)
      PROVE  PaidInv'
  <2>1. UNCHANGED <<proc, task>>
    BY <1>2 DEF ReserveCall, GrantTokens, CallGranted, CallDenied, Invoke, CallEnds, chat
  <2>2. ASSUME PaidIsReported', ReleasedIsUnpaid' PROVE PaidInv'
    BY <2>1, <2>2 DEF PaidInv
  <2>3. CASE ReserveCall(a, c) \/ CallGranted(a, c) \/ CallDenied(a, c)
    <3>1. /\ UNCHANGED <<rows, usage, paid>> /\ call[a][c] # "invoking"
          /\ \A b \in Attempts, d \in Calls : <<b, d>> # <<a, c>> => call'[b][d] = call[b][d]
      BY <2>3 DEF ReserveCall, CallGranted, CallDenied, outbox, spring, TypeOK
    <3>2. \A b \in Attempts, d \in Calls : call[b][d] = "invoking" => call'[b][d] = "invoking"
      BY <3>1
    <3> QED BY <2>2, <3>1, <3>2, AccountsKept
  <2>4. CASE GrantTokens(a, c)
    <3>1. /\ UNCHANGED <<rows, call, paid>> /\ <<a, c>> \notin paid
          /\ \A b \in Attempts, d \in Calls : usage'[b][d] = IF b = a /\ d = c THEN "reserved" ELSE usage[b][d]
      BY <2>4 DEF GrantTokens, chat, outbox, TypeOK, CallsInv, Fresh
    <3>2. \A b \in Attempts, d \in Calls : <<b, d>> \in paid => usage'[b][d] = usage[b][d]
      BY <3>1
    <3> QED BY <2>2, <3>1, <3>2, AccountsKept
  <2>5. CASE Invoke(a, c)
    <3>1. /\ UNCHANGED <<rows, usage>> /\ usage[a][c] = "reserved"
          /\ paid' = paid \union {<<a, c>>}
          /\ \A b \in Attempts, d \in Calls : call'[b][d] = IF b = a /\ d = c THEN "invoking" ELSE call[b][d]
      BY <2>5 DEF Invoke, outbox, spring, TypeOK, CallsInv
    <3>2. PaidIsReported'
      BY <3>1 DEF PaidInv, PaidIsReported
    <3>3. ReleasedIsUnpaid'
      BY <3>1 DEF PaidInv, ReleasedIsUnpaid
    <3> QED BY <2>2, <3>2, <3>3
  <2>6. CASE CallEnds(a, c)
    <3>1. PICK kind \in Measured(a, c) : rows' = Put({Report("usage", a, c, kind)})
      BY <2>6 DEF CallEnds
    <3> DEFINE n == Report("usage", a, c, kind)
    <3>2. /\ UNCHANGED <<usage, paid>>
          /\ \A b \in Attempts, d \in Calls : <<b, d>> # <<a, c>> => call'[b][d] = call[b][d]
      BY <2>6 DEF CallEnds, spring, TypeOK
    <3>3. \E r \in rows' : Key(r) = Key(n)
      BY <3>1 DEF Put
    <3>4. rows \subseteq rows' /\ \E r \in rows' : ReportOf(r, "usage", a, c)
      BY <3>1, <3>3 DEF Put, Key, Report, ReportOf
    <3> QED BY <2>2, <3>2, <3>4, AccountsKept
  <2> QED BY <1>2, <2>3, <2>4, <2>5, <2>6
<1> QED BY <1>1, <1>2

\* The last flush begins when no call is under way, and a crash loses track only of
\* the calls it cuts short.
LEMMA ProcessAccounts ==
  ASSUME ChatIInv, PaidInv, StopServing \/ Exit \/ Crash \/ Boot
  PROVE  PaidInv'
<1>1. UNCHANGED <<rows, usage>> /\ paid' \subseteq paid
  BY DEF StopServing, Exit, Crash, Boot, outbox, spring
<1>2. ASSUME NEW b \in Attempts, NEW c \in Calls, call[b][c] = "invoking", <<b, c>> \in paid'
      PROVE  call'[b][c] = "invoking"
  <2>1. CASE StopServing \/ Boot
    BY <1>2, <2>1 DEF StopServing, Boot
  <2>2. CASE Crash
    BY <1>2, <2>2 DEF Crash
  <2>3. CASE Exit
    BY <1>2, <2>3 DEF Exit, PaidInv, ChatIInv, CallsInv, Working, Reserving
  <2> QED BY <2>1, <2>2, <2>3
<1>3. PaidIsReported' /\ ReleasedIsUnpaid'
  BY <1>1, <1>2, AccountsKept
<1>4. proc' \in {"closing", "down"} => \A b \in Attempts : task'[b].pc \notin Working
  BY DEF StopServing, Exit, Crash, Boot, Gone, NoTask, Working
<1> QED BY <1>3, <1>4 DEF PaidInv

\* Whatever happens to the process, what was paid stays accounted for.
LEMMA PaidInvariance == Spec => []PaidInv
<1>1. Init => PaidInv
  BY DEF Init, PaidInv, PaidIsReported, ReleasedIsUnpaid
<1>2. ChatIInv /\ PaidInv /\ [Next]_vars => PaidInv'
  <2> SUFFICES ASSUME ChatIInv, PaidInv, [Next]_vars PROVE PaidInv'
    OBVIOUS
  <2>1. ASSUME NEW a \in Attempts, StartFails(a) \/ HandlerEnds(a) \/ TimeOut(a) \/ CancelTask(a)
        PROVE  PaidInv'
    <3> DEFINE endings == {{}} \union {{says} : says \in {"answer", "oversized", "failure"}}
               ends == /\ \E finish \in endings : EndTask(a, finish)
                       /\ task[a].pc \in Working /\ UNCHANGED spring
               dropped == /\ task' = [task EXCEPT ![a].pc = "done"]
                          /\ UNCHANGED <<proc, call, rows, usage, paid>>
    <3>1. CASE ends
      <4>1. PICK finish \in endings : EndTask(a, finish)
        BY <3>1
      <4>2. finish \in SUBSET Results /\ \A x, y \in finish : x = y
        BY DEF Results
      <4> QED BY <3>1, <4>1, <4>2, EndAccounts
    <3>2. CASE dropped
      <4>1. \A b \in Attempts : task'[b].pc \in Working => task[b].pc \in Working
        BY <3>2 DEF ChatIInv, TypeOK, Working
      <4>2. PaidIsReported' /\ ReleasedIsUnpaid'
        BY <3>2, AccountsKept
      <4> QED BY <3>2, <4>1, <4>2 DEF PaidInv
    <3>3. ends \/ dropped
      BY <2>1 DEF StartFails, HandlerEnds, TimeOut, CancelTask, Working, outbox, spring
    <3> QED BY <3>1, <3>2, <3>3
  <2>2. ASSUME NEW a \in Attempts, TaskStep(a) \/ DeadlinePasses(a) PROVE PaidInv'
    BY <2>1, <2>2, CallAccounts DEF TaskStep
  <2>3. CASE Flush \/ \E r \in flight : Delivered(r) \/ NotAnswered(r) \/ Discard(r)
    BY <2>3, DeliveryAccounts
  <2>4. CASE StopServing \/ Exit \/ Crash \/ Boot
    BY <2>4, ProcessAccounts
  <2>5. CASE UNCHANGED vars
    BY <2>5 DEF vars, chat, outbox, spring, PaidInv, PaidIsReported, ReleasedIsUnpaid
  <2> QED BY <2>2, <2>3, <2>4, <2>5 DEF Next
<1> QED BY <1>1, <1>2, ChatInvariance, PTL DEF Spec

-----------------------------------------------------------------------------
\* Theorems

\* The outbox stays within its limit with every report it still owes, each promised
\* row has one owner while the process serves, and no paid tokens are released
\* (ChatRuntime.submit, Execution.call, _store and SQLiteOutbox.put together).
THEOREM ReportsHold == Spec => []ReportsInv
<1>1. ChatIInv /\ PaidInv => ReportsInv
  <2> SUFFICES ASSUME ChatIInv, PaidInv PROVE ReportsInv
    OBVIOUS
  <2>1. TypeOK /\ ReleasedIsUnpaid
    BY DEF ChatIInv, PaidInv
  <2>2. CapacityKept /\ SlotsOwned
    BY DEF ChatIInv, SlotsInv, CapacityKept, SlotsOwned
  <2> QED BY <2>1, <2>2 DEF ReportsInv
<1> QED BY <1>1, ChatInvariance, PaidInvariance, PTL

\* However often an attempt is dispatched, to however many processes, and whatever
\* answers are lost, its handler runs at most once (ChatRuntime._run behind the
\* ownership Spring grants).
THEOREM OneHandler == Spec => []HandledOnce
<1>1. ChatIInv => HandledOnce
  <2> SUFFICES ASSUME ChatIInv, NEW a \in Attempts PROVE Cardinality(handled[a]) <= 1
    BY DEF HandledOnce
  <2>1. handled[a] = {} \/ handled[a] = {run[a].runner}
    BY DEF ChatIInv, OwnersInv
  <2>2. CASE handled[a] = {}
    BY <2>2, FS_EmptySet
  <2>3. CASE handled[a] = {run[a].runner}
    <3>1. Cardinality({run[a].runner}) = 1
      BY FS_Singleton
    <3> QED BY <2>3, <3>1
  <2> QED BY <2>1, <2>2, <2>3
<1> QED BY <1>1, ChatInvariance, PTL

\* A paid call is under way, in the outbox or settled: cancelling tasks, refusing
\* repeated reports and restarting lose none (Execution.call and the finally blocks).
THEOREM PaidHold == Spec => []PaidIsReported
<1>1. PaidInv => PaidIsReported
  BY DEF PaidInv
<1> QED BY <1>1, PaidInvariance, PTL

\* A stored answer stays in the outbox until Spring has it or its deadline is over
\* (SQLiteOutbox.put, purge_expired, settle and _replace_oversized_finish).
THEOREM AnswersHold == Spec => []StoredAnswerKept
<1>1. ChatIInv => StoredAnswerKept
  BY DEF ChatIInv, AnswersInv, StoredAnswerKept
<1> QED BY <1>1, ChatInvariance, PTL


-----------------------------------------------------------------------------
\* The exploration of the manuscript

\* The larger and the smaller of two numbers.
LEMMA MaxOfTwo ==
  ASSUME NEW a \in Int, NEW b \in Int
  PROVE  Max({a, b}) = IF a >= b THEN a ELSE b
<1> DEFINE m == IF a >= b THEN a ELSE b
<1>1. m \in {a, b} /\ \A y \in {a, b} : m >= y OBVIOUS
<1>2. \A x \in {a, b} : (\A y \in {a, b} : x >= y) => x = m OBVIOUS
<1> HIDE DEF m
<1>3. Max({a, b}) = m BY <1>1, <1>2 DEF Max
<1> QED BY <1>3 DEF m

\* The lesser of two numbers.
LEMMA MinOfTwo ==
  ASSUME NEW a \in Int, NEW b \in Int
  PROVE  Min({a, b}) = IF a <= b THEN a ELSE b
<1> DEFINE m == IF a <= b THEN a ELSE b
<1>1. m \in {a, b} /\ \A y \in {a, b} : m <= y OBVIOUS
<1>2. \A x \in {a, b} : (\A y \in {a, b} : x <= y) => x = m OBVIOUS
<1> HIDE DEF m
<1>3. Min({a, b}) = m BY <1>1, <1>2 DEF Min
<1> QED BY <1>3 DEF m

\* k receipts register up to k times what one registers, and no more.
LEMMA ReceiptsBound ==
  ASSUME NEW n \in Nat
  PROVE  /\ Receipts(n) \in Nat
         /\ \A k \in Nat : Receipts(n) <= k <=> n <= k * Receipt
<1> DEFINE q == (n + Receipt - 1) \div Receipt
           m == (n + Receipt - 1) % Receipt
<1>0. Receipt \in Nat /\ Receipt >= 1 BY ReceiptAssumption
<1>1. q \in Int /\ m \in Int /\ n + Receipt - 1 = q * Receipt + m /\ 0 <= m /\ m < Receipt
  BY <1>0
<1>2. q \in Nat
  BY <1>0, <1>1
<1> QED BY <1>0, <1>1, <1>2 DEF Receipts
\* What is left unregistered needs at most one more receipt per Receipt chunks, and
\* the room left for registration is what its receipts hold.
LEMMA BudgetFacts ==
  ASSUME tools \in Nat, unregistered \in Nat
  PROVE  /\ Receipts(0) = 0
         /\ Receipts(unregistered) \in Nat
         /\ TailTools \in Nat /\ TailTools >= Receipts(unregistered) + 2 /\ TailTools >= 3
         /\ \A left \in Nat :
              /\ RegisterRoom(left) \in Nat
              /\ \A n \in Nat : n <= RegisterRoom(left) /\ Receipts(unregistered) + 2 <= left
                                  => Receipts(unregistered + n) + 2 <= left
<1>0. Receipt \in Nat /\ Receipt >= 1 BY ReceiptAssumption
<1>1. Receipts(0) = 0
  <2>1. Receipts(0) \in Nat /\ (Receipts(0) <= 0 <=> 0 <= 0 * Receipt) BY ReceiptsBound
  <2> QED BY <1>0, <2>1
<1>2. Receipts(unregistered) \in Nat BY ReceiptsBound
<1>3. TailTools \in Nat /\ TailTools >= Receipts(unregistered) + 2 /\ TailTools >= 3
  <2> DEFINE k == Receipts(unregistered + Receipt)
  <2>1. /\ k \in Nat
        /\ \A j \in Nat : k <= j <=> unregistered + Receipt <= j * Receipt
    BY <1>0, ReceiptsBound
  <2>2. \A j \in Nat : Receipts(unregistered) <= j <=> unregistered <= j * Receipt
    BY ReceiptsBound
  <2>3. unregistered + Receipt <= k * Receipt BY <2>1
  <2>4. Receipts(unregistered) <= k
    <3>1. unregistered <= k * Receipt
      <4> DEFINE p == k * Receipt
      <4>1. p \in Nat BY <1>0, <2>1
      <4>2. unregistered + Receipt <= p BY <2>3
      <4> HIDE DEF p
      <4>3. unregistered <= p BY <1>0, <4>1, <4>2
      <4> QED BY <4>3 DEF p
    <3> QED BY <2>1, <2>2, <3>1
  <2> HIDE DEF k
  <2>5. Max({1, k}) = IF 1 >= k THEN 1 ELSE k BY <2>1, MaxOfTwo
  <2>6. TailTools = Max({1, k}) + 2 BY DEF TailTools, k
  <2> QED BY <1>2, <2>1, <2>4, <2>5, <2>6
<1>4. ASSUME NEW left \in Nat
      PROVE  /\ RegisterRoom(left) \in Nat
             /\ \A n \in Nat : n <= RegisterRoom(left) /\ Receipts(unregistered) + 2 <= left
                                 => Receipts(unregistered + n) + 2 <= left
  <2> DEFINE d == IF left >= 2 THEN left - 2 ELSE 0
             p == d * Receipt
  <2>1. d \in Nat /\ p \in Nat BY <1>0
  <2>2. RegisterRoom(left) = Max({0, p - unregistered}) BY DEF RegisterRoom
  <2>3. \A n \in Nat : Receipts(n) <= d <=> n <= p BY <2>1, ReceiptsBound
  <2>4. \A n \in Nat : Receipts(n) \in Nat BY ReceiptsBound
  <2> HIDE DEF p
  <2>5. p - unregistered \in Int BY <2>1
  <2>6. Max({0, p - unregistered}) = IF 0 >= p - unregistered THEN 0 ELSE p - unregistered
    BY <2>5, MaxOfTwo
  <2>7. RegisterRoom(left) \in Nat BY <2>1, <2>2, <2>5, <2>6
  <2>8. ASSUME NEW n \in Nat, n <= RegisterRoom(left), Receipts(unregistered) + 2 <= left
        PROVE  Receipts(unregistered + n) + 2 <= left
    <3>1. left >= 2 /\ d = left - 2 /\ Receipts(unregistered) <= d BY <1>2, <2>8
    <3>2. unregistered <= p BY <2>3, <3>1
    <3>3. unregistered + n <= p BY <2>1, <2>2, <2>6, <2>8, <3>2
    <3>4. Receipts(unregistered + n) <= d /\ Receipts(unregistered + n) \in Nat
      BY <2>3, <2>4, <3>3
    <3> QED BY <2>1, <3>1, <3>4
  <2> QED BY <2>7, <2>8
<1> QED BY <1>1, <1>2, <1>3, <1>4

\* Where a run still has tools to spend.
Spending == {"search", "vectors", "near", "read", "explore", "decide", "explored", "again",
             "answer", "extract", "write", "drafted", "end", "finish"}

ExplorationTypes ==
  /\ tools \in Nat /\ made \in Nat /\ asked \in Nat
  /\ unregistered \in Nat /\ reserving \in Nat /\ triesLeft \in Nat
  /\ doing \in Spending \union {"idle"} \union RunOver

\* The tools that remain register what was read and finish the answer.
ToolsKept ==
  /\ doing = "idle" => tools = 0 /\ unregistered = 0
  /\ doing \in Spending => tools + Receipts(unregistered) + 2 <= MaxTools

\* The calls that remain are those a step, a group or a draft has been promised: a
\* step leaves one for the answer, the extractions leave one for the draft, and every
\* attempt has its own.
CallsKept ==
  /\ made <= MaxModelCalls /\ asked <= MaxCalls
  /\ doing = "decide" => /\ triesLeft >= 1
                         /\ made + triesLeft + 1 <= MaxModelCalls
                         /\ asked + triesLeft + 1 <= MaxCalls
  /\ doing = "answer" => made + 1 <= MaxModelCalls /\ asked + 1 <= MaxCalls
  /\ doing = "extract" => made + 1 <= MaxModelCalls /\ asked + reserving + 1 <= MaxCalls
  /\ doing = "write" => /\ made + 1 <= MaxModelCalls /\ asked + 1 <= MaxCalls
                        /\ made + triesLeft <= MaxModelCalls
                        /\ asked + triesLeft <= MaxCalls

LimitsKept == ExplorationTypes /\ ToolsKept /\ CallsKept /\ doing # "limit"
\* The numbers the limits are made of.
LEMMA LimitNumbers ==
  /\ MaxTools \in Nat /\ MaxCalls \in Nat /\ MaxModelCalls \in Nat /\ MaxTries \in Nat
  /\ MaxGroups \in Nat /\ ReadLimit \in Nat
BY LimitsAssumption, ReceiptAssumption

\* A reading step puts no more into the pool than the remaining tools register.
LEMMA PoolsKeep ==
  ASSUME LimitsKept, NEW n \in Nat, NEW spent \in {0, 1}, Pools(n, spent),
         tools + spent + Receipts(unregistered) + 2 <= MaxTools
  PROVE  /\ unregistered' \in Nat
         /\ tools + spent + Receipts(unregistered') + 2 <= MaxTools
<1> DEFINE left == MaxTools - tools - spent
           added == Min({n, RegisterRoom(left)})
<1>0. tools \in Nat /\ unregistered \in Nat /\ MaxTools \in Nat
  BY LimitNumbers DEF LimitsKept, ExplorationTypes
<1>1. Receipts(unregistered) \in Nat BY <1>0, BudgetFacts
<1>2. left \in Nat /\ Receipts(unregistered) + 2 <= left BY <1>0, <1>1
<1>3. unregistered' = unregistered + added BY DEF Pools
<1> HIDE DEF left
<1>4. /\ RegisterRoom(left) \in Nat
      /\ \A k \in Nat : k <= RegisterRoom(left) => Receipts(unregistered + k) + 2 <= left
  BY <1>0, <1>2, BudgetFacts
<1>5. added \in Nat /\ added <= RegisterRoom(left) BY <1>4, MinOfTwo
<1> HIDE DEF added
<1>6. Receipts(unregistered + added) + 2 <= left BY <1>4, <1>5
<1>7. Receipts(unregistered + added) \in Nat BY <1>0, <1>5, ReceiptsBound
<1> QED BY <1>0, <1>3, <1>5, <1>6, <1>7 DEF left

\* What the step may ask with.
LEMMA RoomFacts ==
  ASSUME made \in Nat, asked \in Nat
  PROVE  /\ CallRoom \in Int
         /\ CallRoom <= MaxModelCalls - made /\ CallRoom <= MaxCalls - asked
         /\ CallRoom \in {MaxModelCalls - made, MaxCalls - asked}
BY LimitNumbers, MinOfTwo DEF CallRoom

\* A draft or its loss ends the writing.
LEMMA DraftedKeeps ==
  ASSUME LimitsKept, doing \in {"answer", "extract", "write"}, doing' = "drafted",
         UNCHANGED <<tools, unregistered, reserving>>,
         made' \in Nat, asked' \in Nat, made' <= MaxModelCalls, asked' <= MaxCalls,
         triesLeft' \in Nat
  PROVE  LimitsKept'
<1>1. ExplorationTypes' BY DEF LimitsKept, ExplorationTypes, Spending
<1>2. ToolsKept' BY DEF LimitsKept, ToolsKept, Spending
<1> QED BY <1>1, <1>2 DEF LimitsKept, CallsKept

\* Reading spends what leaves the rest of the run its tools.
LEMMA ReadingStep ==
  ASSUME LimitsKept,
         \/ \E t \in 0 .. MaxTools, c \in 1 .. MaxTries : Enter(t, c)
         \/ Search \/ Embed \/ SkipRead
         \/ \E n \in 0 .. ReadLimit : Collect(n) \/ Read(n)
  PROVE  LimitsKept'
<1>0. /\ tools \in Nat /\ made \in Nat /\ asked \in Nat /\ unregistered \in Nat
      /\ reserving \in Nat /\ triesLeft \in Nat
      /\ MaxTools \in Nat /\ MaxCalls \in Nat /\ MaxModelCalls \in Nat /\ MaxTries \in Nat
      /\ ReadLimit \in Nat
  BY LimitNumbers DEF LimitsKept, ExplorationTypes
<1>r. /\ Receipts(0) = 0 /\ Receipts(unregistered) \in Nat
      /\ TailTools \in Nat /\ TailTools >= Receipts(unregistered) + 2 /\ TailTools >= 3
  BY <1>0, BudgetFacts
<1>c. made <= MaxModelCalls /\ asked <= MaxCalls BY DEF LimitsKept, CallsKept
<1>k. ASSUME /\ tools' \in Nat /\ made' \in Nat /\ asked' \in Nat /\ unregistered' \in Nat,
             UNCHANGED <<reserving, triesLeft>>,
             made' <= MaxModelCalls, asked' <= MaxCalls,
             doing' \in {"search", "vectors", "near", "read", "explore"},
             tools' + Receipts(unregistered') + 2 <= MaxTools
      PROVE  LimitsKept'
  <2>1. ExplorationTypes' BY <1>0, <1>k DEF ExplorationTypes, Spending
  <2>2. ToolsKept' BY <1>k DEF ToolsKept
  <2>3. CallsKept' BY <1>k DEF CallsKept
  <2> QED BY <1>k, <2>1, <2>2, <2>3 DEF LimitsKept
<1>1. ASSUME NEW t \in 0 .. MaxTools, NEW c \in 1 .. MaxTries, Enter(t, c) PROVE LimitsKept'
  <2>1. unregistered = 0 BY <1>1 DEF Enter, LimitsKept, ToolsKept
  <2>2. /\ UNCHANGED <<unregistered, reserving, triesLeft>>
        /\ made' = c /\ asked' = c /\ c <= MaxModelCalls /\ c <= MaxCalls
    BY <1>1 DEF Enter, pool, callState
  <2>3. CASE t + 1 + TailTools <= MaxTools
    <3>1. tools' = t + 1 /\ doing' = "search" BY <1>1, <2>3 DEF Enter
    <3>2. Receipts(unregistered') = 0 BY <1>r, <2>1, <2>2
    <3> QED BY <1>0, <1>r, <1>k, <2>2, <2>3, <3>1, <3>2
  <2>4. CASE ~(t + 1 + TailTools <= MaxTools)
    <3>1. tools' = t /\ doing' = "insufficient" BY <1>1, <2>4 DEF Enter
    <3>2. ExplorationTypes' BY <1>0, <2>2, <3>1 DEF ExplorationTypes, RunOver
    <3>3. ToolsKept' BY <3>1 DEF ToolsKept, Spending
    <3>4. CallsKept' BY <2>2, <3>1 DEF CallsKept
    <3> QED BY <3>1, <3>2, <3>3, <3>4 DEF LimitsKept
  <2> QED BY <2>3, <2>4
<1>2. CASE Search
  <2>1. /\ doing \in {"search", "vectors"} /\ tools + 1 + TailTools <= MaxTools
        /\ Spends(1, doing)
        /\ UNCHANGED <<made, asked, unregistered, reserving, triesLeft>>
    BY <1>0, <1>2, <1>r DEF Search, ToolsAvailable, pool, callState
  <2>2. tools' = tools + 1 /\ doing' = doing BY <1>0, <1>r, <2>1 DEF Spends, ToolsAvailable
  <2> QED BY <1>0, <1>r, <1>c, <1>k, <2>1, <2>2
<1>3. CASE Embed
  <2>1. /\ tools + 1 + TailTools <= MaxTools
        /\ made < MaxModelCalls /\ asked + 2 <= MaxCalls
        /\ asked' = asked + 1 /\ doing' = "vectors"
        /\ UNCHANGED <<tools, made, unregistered, reserving, triesLeft>>
    BY <1>0, <1>3, <1>r DEF Embed, ToolsAvailable, pool, callState
  <2> QED BY <1>0, <1>r, <1>c, <1>k, <2>1
<1>4. CASE SkipRead
  <2>1. /\ doing \in {"near", "read"} /\ doing' \in {"read", "explore"}
        /\ UNCHANGED <<tools, made, asked, unregistered, reserving, triesLeft>>
    BY <1>4 DEF SkipRead, pool, callState, budget
  <2>2. tools + Receipts(unregistered) + 2 <= MaxTools
    BY <2>1 DEF LimitsKept, ToolsKept, Spending
  <2> QED BY <1>0, <1>c, <1>k, <2>1, <2>2
<1>5. ASSUME NEW n \in 0 .. ReadLimit, Collect(n) PROVE LimitsKept'
  <2>1. /\ doing \in {"search", "vectors"} /\ doing' = "near" /\ Pools(n, 0)
        /\ UNCHANGED <<tools, made, asked, reserving, triesLeft>>
    BY <1>5 DEF Collect, callState, budget
  <2>2. tools + 0 + Receipts(unregistered) + 2 <= MaxTools
    BY <1>0, <2>1 DEF LimitsKept, ToolsKept, Spending
  <2>3. n \in Nat BY <1>0
  <2>4. unregistered' \in Nat /\ tools + 0 + Receipts(unregistered') + 2 <= MaxTools
    BY <2>1, <2>2, <2>3, PoolsKeep
  <2> QED BY <1>0, <1>c, <1>k, <2>1, <2>4
<1>6. ASSUME NEW n \in 0 .. ReadLimit, Read(n) PROVE LimitsKept'
  <2>1. /\ tools + 1 + TailTools <= MaxTools /\ Pools(n, 1)
        /\ Spends(1, IF doing = "near" THEN "read" ELSE "explore")
        /\ UNCHANGED <<made, asked, reserving, triesLeft>>
    BY <1>0, <1>r, <1>6 DEF Read, ToolsAvailable, callState
  <2>2. tools' = tools + 1 /\ doing' \in {"read", "explore"}
    BY <1>0, <1>r, <2>1 DEF Spends, ToolsAvailable
  <2>3. n \in Nat /\ tools + 1 + Receipts(unregistered) + 2 <= MaxTools
    BY <1>0, <1>r, <2>1
  <2>4. unregistered' \in Nat /\ tools + 1 + Receipts(unregistered') + 2 <= MaxTools
    BY <2>1, <2>3, PoolsKeep
  <2> QED BY <1>0, <1>c, <1>k, <2>1, <2>2, <2>4
<1> QED BY <1>1, <1>2, <1>3, <1>4, <1>5, <1>6
\* A step that may still fail has the calls it needs, and one for the answer.
LEMMA ExploringStep ==
  ASSUME LimitsKept,
         \/ StartStep \/ Explored \/ Register \/ NotAnswerable
         \/ \E then \in {"search", "read", "explored", "decide"} : Decision(then)
  PROVE  LimitsKept'
<1>0. /\ tools \in Nat /\ made \in Nat /\ asked \in Nat /\ unregistered \in Nat
      /\ reserving \in Nat /\ triesLeft \in Nat
      /\ MaxTools \in Nat /\ MaxCalls \in Nat /\ MaxModelCalls \in Nat /\ MaxTries \in Nat
  BY LimitNumbers DEF LimitsKept, ExplorationTypes
<1>c. made <= MaxModelCalls /\ asked <= MaxCalls BY DEF LimitsKept, CallsKept
<1>1. CASE StartStep
  <2>1. /\ made + 3 <= MaxModelCalls /\ asked + 4 <= MaxCalls
        /\ triesLeft' = Max({1, Min({MaxTries, CallRoom - 1})})
        /\ doing = "explore" /\ doing' = "decide"
        /\ UNCHANGED <<tools, made, asked, unregistered, reserving>>
    BY <1>0, <1>1 DEF StartStep, CanStep, budget, pool
  <2>2. /\ CallRoom \in Int /\ CallRoom >= 3
        /\ CallRoom <= MaxModelCalls - made /\ CallRoom <= MaxCalls - asked
    BY <1>0, <2>1, RoomFacts
  <2> DEFINE k == Min({MaxTries, CallRoom - 1})
  <2>3. k \in Int /\ k <= CallRoom - 1 BY <1>0, <2>2, MinOfTwo
  <2> HIDE DEF k
  <2>k. triesLeft' = Max({1, k}) BY <2>1 DEF k
  <2>4. triesLeft' = IF 1 >= k THEN 1 ELSE k BY <2>k, <2>3, MaxOfTwo
  <2>5. triesLeft' \in Nat /\ triesLeft' >= 1 /\ triesLeft' <= CallRoom - 1
    BY <2>2, <2>3, <2>4
  <2>6. CallsKept' BY <1>0, <2>1, <2>2, <2>5 DEF CallsKept
  <2>7. ToolsKept' BY <2>1 DEF LimitsKept, ToolsKept, Spending
  <2>8. ExplorationTypes' BY <1>0, <2>1, <2>5 DEF ExplorationTypes, Spending
  <2> QED BY <2>1, <2>6, <2>7, <2>8 DEF LimitsKept
<1>2. CASE Explored
  <2>1. /\ doing \in {"explore", "decide"} /\ doing' = "explored" /\ triesLeft' = 0
        /\ UNCHANGED <<tools, made, asked, unregistered, reserving>>
    BY <1>2 DEF Explored, budget, pool
  <2>2. CallsKept' BY <1>c, <2>1 DEF CallsKept
  <2>3. ToolsKept' BY <2>1 DEF LimitsKept, ToolsKept, Spending
  <2>4. ExplorationTypes' BY <1>0, <2>1 DEF ExplorationTypes, Spending
  <2> QED BY <2>1, <2>2, <2>3, <2>4 DEF LimitsKept
<1>3. CASE Register
  <2>1. /\ doing \in {"explored", "again"} /\ made < MaxModelCalls /\ asked + 1 <= MaxCalls
        /\ Spends(Receipts(unregistered), "answer")
        /\ unregistered' = 0
        /\ UNCHANGED <<made, asked, reserving, triesLeft>>
    BY <1>3 DEF Register, ModelsAvailable, callState
  <2>2. Receipts(unregistered) \in Nat /\ Receipts(0) = 0 BY <1>0, BudgetFacts
  <2>3. tools + Receipts(unregistered) + 2 <= MaxTools
    BY <2>1 DEF LimitsKept, ToolsKept, Spending
  <2>4. tools' = tools + Receipts(unregistered) /\ doing' = "answer"
    BY <1>0, <2>1, <2>2, <2>3 DEF Spends, ToolsAvailable
  <2>5. Receipts(unregistered') = 0 BY <2>1, <2>2
  <2>6. ToolsKept' BY <1>0, <2>1, <2>2, <2>3, <2>4, <2>5 DEF ToolsKept
  <2>7. CallsKept' BY <1>0, <1>c, <2>1, <2>4 DEF CallsKept
  <2>8. ExplorationTypes' BY <1>0, <2>1, <2>2, <2>4 DEF ExplorationTypes, Spending
  <2> QED BY <2>4, <2>6, <2>7, <2>8 DEF LimitsKept
<1>4. CASE NotAnswerable
  <2>1. /\ doing \in {"explored", "again"} /\ doing' = "end"
        /\ UNCHANGED <<tools, made, asked, unregistered, reserving, triesLeft>>
    BY <1>4 DEF NotAnswerable, budget, pool, callState
  <2>2. CallsKept' BY <1>c, <2>1 DEF CallsKept
  <2>3. ToolsKept' BY <2>1 DEF LimitsKept, ToolsKept, Spending
  <2>4. ExplorationTypes' BY <1>0, <2>1 DEF ExplorationTypes, Spending
  <2> QED BY <2>1, <2>2, <2>3, <2>4 DEF LimitsKept
<1>5. ASSUME NEW then \in {"search", "read", "explored", "decide"}, Decision(then)
      PROVE  LimitsKept'
  <2>1. /\ doing = "decide" /\ triesLeft >= 1
        /\ made + triesLeft + 1 <= MaxModelCalls
        /\ asked + triesLeft + 1 <= MaxCalls
    BY <1>5 DEF Decision, LimitsKept, CallsKept
  <2>2. MayAsk(1) BY <1>0, <2>1 DEF MayAsk
  <2>3. /\ made' = made + 1 /\ asked' = asked + 1
        /\ doing' = IF then = "decide" /\ triesLeft = 1 THEN "explored" ELSE then
        /\ triesLeft' = IF doing' = "decide" THEN triesLeft - 1 ELSE 0
        /\ UNCHANGED <<tools, unregistered, reserving>>
    BY <1>5, <2>2 DEF Decision, pool
  <2>4. doing' \in {"search", "read", "explored", "decide"} BY <2>3
  <2>5. triesLeft' \in Nat /\ (doing' = "decide" => triesLeft' >= 1 /\ triesLeft' = triesLeft - 1)
    BY <1>0, <2>1, <2>3
  <2>6. CallsKept' BY <1>0, <2>1, <2>3, <2>4, <2>5 DEF CallsKept
  <2>7. ToolsKept' BY <2>1, <2>3, <2>4 DEF LimitsKept, ToolsKept, Spending
  <2>8. ExplorationTypes' BY <1>0, <2>3, <2>4, <2>5 DEF ExplorationTypes, Spending
  <2> QED BY <2>4, <2>6, <2>7, <2>8 DEF LimitsKept
<1> QED BY <1>1, <1>2, <1>3, <1>4, <1>5

\* The extractions that run at once, and the draft that follows them, have the calls
\* they were checked for.
LEMMA AnsweringStep ==
  ASSUME LimitsKept,
         \/ ContextLost \/ Reserved \/ ExtractRaises \/ NoFacts \/ Compose \/ SingleStage
         \/ CutOff
         \/ \E n \in 0 .. MaxGroups : Extract(n)
         \/ \E d \in NewDrafts : Written(d)
  PROVE  LimitsKept'
<1>0. /\ tools \in Nat /\ made \in Nat /\ asked \in Nat /\ unregistered \in Nat
      /\ reserving \in Nat /\ triesLeft \in Nat
      /\ MaxTools \in Nat /\ MaxCalls \in Nat /\ MaxModelCalls \in Nat /\ MaxTries \in Nat
      /\ MaxGroups \in Nat
  BY LimitNumbers DEF LimitsKept, ExplorationTypes
<1>c. made <= MaxModelCalls /\ asked <= MaxCalls BY DEF LimitsKept, CallsKept
<1>r. /\ CallRoom \in Int
      /\ CallRoom <= MaxModelCalls - made /\ CallRoom <= MaxCalls - asked
      /\ CallRoom \in {MaxModelCalls - made, MaxCalls - asked}
  BY <1>0, RoomFacts
<1>d. ASSUME doing \in {"answer", "extract", "write"}, Drafted(NoAnswer),
             UNCHANGED <<tools, made, asked, unregistered, reserving>>
      PROVE  LimitsKept'
  BY <1>0, <1>c, <1>d, DraftedKeeps DEF Drafted
<1>k. ASSUME UNCHANGED <<tools, unregistered>>, doing \in {"answer", "extract", "write"},
             doing' \in {"extract", "write"}
      PROVE  ToolsKept'
  BY <1>k DEF LimitsKept, ToolsKept, Spending
<1>1. CASE ContextLost BY <1>d, <1>1 DEF ContextLost, budget, pool
<1>2. CASE NoFacts BY <1>d, <1>2 DEF NoFacts, budget, pool
<1>3. CASE CutOff BY <1>d, <1>3 DEF CutOff, budget, pool
<1>4. CASE Reserved
  <2>1. /\ doing = "extract" /\ reserving > 0 /\ reserving' = reserving - 1
        /\ asked' \in {asked, asked + 1}
        /\ UNCHANGED <<doing, tools, made, unregistered, triesLeft>>
    BY <1>4 DEF Reserved, pool
  <2>2. made + 1 <= MaxModelCalls /\ asked + reserving + 1 <= MaxCalls
    BY <2>1 DEF LimitsKept, CallsKept
  <2>3. CallsKept'
    <3>1. asked' <= MaxCalls /\ asked' + reserving' + 1 <= MaxCalls
      <4>1. CASE asked' = asked BY <1>0, <2>1, <2>2, <4>1
      <4>2. CASE asked' = asked + 1 BY <1>0, <2>1, <2>2, <4>2
      <4> QED BY <2>1, <4>1, <4>2
    <3> QED BY <1>c, <2>1, <2>2, <3>1 DEF CallsKept
  <2>4. ToolsKept' BY <1>k, <2>1
  <2>5. ExplorationTypes' BY <1>0, <2>1 DEF ExplorationTypes, Spending
  <2> QED BY <2>1, <2>3, <2>4, <2>5 DEF LimitsKept
<1>5. CASE ExtractRaises
  <2>1. doing' = "raised" /\ UNCHANGED <<tools, made, asked, unregistered, reserving, triesLeft>>
    BY <1>5 DEF ExtractRaises, budget, pool, callState
  <2>2. ExplorationTypes' BY <1>0, <2>1 DEF ExplorationTypes, RunOver
  <2>3. ToolsKept' BY <2>1 DEF ToolsKept, Spending
  <2>4. CallsKept' BY <1>c, <2>1 DEF CallsKept
  <2> QED BY <2>1, <2>2, <2>3, <2>4 DEF LimitsKept
<1>6. ASSUME NEW k \in Nat, Write(k), doing \in {"answer", "extract"},
             CallRoom >= 1, k <= CallRoom
      PROVE  LimitsKept'
  <2>1. /\ doing' = "write" /\ triesLeft' = k
        /\ UNCHANGED <<tools, made, asked, unregistered, reserving>>
    BY <1>6 DEF Write, budget, pool
  <2>2. ExplorationTypes' BY <1>0, <2>1 DEF ExplorationTypes, Spending
  <2>3. ToolsKept' BY <1>k, <1>6, <2>1
  <2>4. CallsKept' BY <1>0, <1>c, <1>r, <1>6, <2>1 DEF CallsKept
  <2> QED BY <2>1, <2>2, <2>3, <2>4 DEF LimitsKept
<1>7. CASE Compose
  <2> DEFINE m == Min({MaxTries, CallRoom})
  <2>1. doing = "extract" /\ Write(Max({1, m})) BY <1>7 DEF Compose
  <2>2. CallRoom >= 1
    <3>1. made + 1 <= MaxModelCalls /\ asked + reserving + 1 <= MaxCalls
      BY <2>1 DEF LimitsKept, CallsKept
    <3> QED BY <1>0, <1>r, <3>1
  <2>3. m \in Int /\ m <= CallRoom BY <1>0, <1>r, MinOfTwo
  <2> HIDE DEF m
  <2>4. Max({1, m}) = IF 1 >= m THEN 1 ELSE m BY <2>3, MaxOfTwo
  <2>5. Max({1, m}) \in Nat /\ Max({1, m}) <= CallRoom BY <1>r, <2>2, <2>3, <2>4
  <2> QED BY <1>6, <2>1, <2>2, <2>5
<1>8. CASE SingleStage
  <2> DEFINE m == Min({MaxTries, CallRoom})
  <2>1. doing = "answer" /\ Write(m) BY <1>8 DEF SingleStage
  <2>2. CallRoom >= 1
    <3>1. made + 1 <= MaxModelCalls /\ asked + 1 <= MaxCalls
      BY <2>1 DEF LimitsKept, CallsKept
    <3> QED BY <1>0, <1>r, <3>1
  <2>3. m \in Nat /\ m <= CallRoom BY <1>0, <1>r, <2>2, MinOfTwo
  <2> HIDE DEF m
  <2> QED BY <1>6, <2>1, <2>2, <2>3
<1>9. ASSUME NEW n \in 0 .. MaxGroups, Extract(n) PROVE LimitsKept'
  <2> DEFINE g == IF CallRoom >= 2 THEN CallRoom - 2 ELSE 0
             h == Min({MaxGroups, g})
  <2>1. doing = "answer" /\ CallRoom >= 2 /\ n <= Groups BY <1>9 DEF Extract
  <2>2. n \in Nat /\ n + 1 <= CallRoom
    <3>1. h \in Int /\ h <= CallRoom - 2 BY <1>0, <1>r, <2>1, MinOfTwo
    <3>2. Groups = Max({1, h}) BY DEF Groups
    <3> HIDE DEF h
    <3>3. Groups = IF 1 >= h THEN 1 ELSE h BY <3>1, <3>2, MaxOfTwo
    <3> QED BY <1>0, <1>r, <2>1, <3>1, <3>3
  <2>3. MayAsk(n) BY <1>0, <1>r, <2>1, <2>2 DEF MayAsk
  <2>4. /\ made' = made + n /\ reserving' = n /\ doing' = "extract"
        /\ UNCHANGED <<tools, asked, unregistered, triesLeft>>
    BY <1>9, <2>3 DEF Extract, pool
  <2>5. ExplorationTypes' BY <1>0, <2>2, <2>4 DEF ExplorationTypes, Spending
  <2>6. ToolsKept' BY <1>k, <2>1, <2>4
  <2>7. CallsKept' BY <1>0, <1>c, <1>r, <2>2, <2>4 DEF CallsKept
  <2> QED BY <2>4, <2>5, <2>6, <2>7 DEF LimitsKept
<1>10. ASSUME NEW d \in NewDrafts, Written(d) PROVE LimitsKept'
  <2>1. /\ doing = "write"
        /\ made + 1 <= MaxModelCalls /\ asked + 1 <= MaxCalls
        /\ made + triesLeft <= MaxModelCalls /\ asked + triesLeft <= MaxCalls
    BY <1>10 DEF Written, LimitsKept, CallsKept
  <2>2. MayAsk(1) BY <1>0, <2>1 DEF MayAsk
  <2>3. /\ made' = made + 1 /\ asked' = asked + 1
        /\ \/ triesLeft > 1 /\ triesLeft' = triesLeft - 1 /\ doing' = doing
           \/ Drafted(d)
        /\ UNCHANGED <<tools, unregistered, reserving>>
    BY <1>10, <2>2 DEF Written, pool
  <2>4. CASE Drafted(d)
    BY <1>0, <2>1, <2>3, <2>4, DraftedKeeps DEF Drafted
  <2>5. CASE triesLeft > 1 /\ triesLeft' = triesLeft - 1 /\ doing' = doing
    <3>1. ExplorationTypes' BY <1>0, <2>1, <2>3, <2>5 DEF ExplorationTypes, Spending
    <3>2. ToolsKept' BY <1>k, <2>1, <2>3, <2>5
    <3>3. CallsKept' BY <1>0, <2>1, <2>3, <2>5 DEF CallsKept
    <3> QED BY <2>1, <2>5, <3>1, <3>2, <3>3 DEF LimitsKept
  <2> QED BY <2>3, <2>4, <2>5
<1> QED BY <1>1, <1>2, <1>3, <1>4, <1>5, <1>7, <1>8, <1>9, <1>10
\* Judging and publishing spend nothing but the two tools of the end.
LEMMA MergingStep ==
  ASSUME LimitsKept,
         \/ \E fits \in BOOLEAN : Judge(fits)
         \/ PublishBest \/ Finish \/ TooManyCited \/ RunRaises
  PROVE  LimitsKept'
<1>0. /\ tools \in Nat /\ made \in Nat /\ asked \in Nat /\ unregistered \in Nat
      /\ reserving \in Nat /\ triesLeft \in Nat /\ MaxTools \in Nat
  BY LimitNumbers DEF LimitsKept, ExplorationTypes
<1>c. made <= MaxModelCalls /\ asked <= MaxCalls BY DEF LimitsKept, CallsKept
<1>k. ASSUME UNCHANGED <<tools, made, asked, unregistered, reserving, triesLeft>>,
             \/ doing \in Spending /\ doing' \in {"explore", "again", "end", "finish"}
             \/ doing' \in RunOver \ {"limit"}
      PROVE  LimitsKept'
  <2>1. ExplorationTypes' BY <1>0, <1>k DEF ExplorationTypes, Spending, RunOver
  <2>2. ToolsKept' BY <1>k DEF LimitsKept, ToolsKept, Spending, RunOver
  <2>3. CallsKept' BY <1>c, <1>k DEF CallsKept, RunOver
  <2> QED BY <1>k, <2>1, <2>2, <2>3 DEF LimitsKept, RunOver
<1>1. ASSUME NEW fits \in BOOLEAN, Judge(fits) PROVE LimitsKept'
  <2>1. /\ doing = "drafted" /\ doing' \in {"explore", "again", "end", "finish"}
        /\ UNCHANGED <<tools, made, asked, unregistered, reserving, triesLeft>>
    BY <1>1 DEF Judge, GoesOn, budget, callState
  <2> QED BY <1>k, <2>1 DEF Spending
<1>2. CASE PublishBest
  <2>1. /\ doing = "end" /\ doing' \in {"insufficient", "finish"}
        /\ UNCHANGED <<tools, made, asked, unregistered, reserving, triesLeft>>
    BY <1>2 DEF PublishBest, budget, pool, callState
  <2> QED BY <1>k, <2>1 DEF Spending, RunOver
<1>3. CASE Finish
  <2>1. /\ doing = "finish" /\ Spends(2, "published")
        /\ UNCHANGED <<made, asked, unregistered, reserving, triesLeft>>
    BY <1>3 DEF Finish, pool, callState
  <2>2. Receipts(unregistered) \in Nat BY <1>0, ReceiptsBound
  <2>3. tools + Receipts(unregistered) + 2 <= MaxTools
    BY <2>1 DEF LimitsKept, ToolsKept, Spending
  <2>4. tools' = tools + 2 /\ doing' = "published"
    BY <1>0, <2>1, <2>2, <2>3 DEF Spends, ToolsAvailable
  <2>5. ExplorationTypes' BY <1>0, <2>1, <2>4 DEF ExplorationTypes, RunOver
  <2>6. ToolsKept' BY <2>4 DEF ToolsKept, Spending
  <2>7. CallsKept' BY <1>c, <2>1, <2>4 DEF CallsKept
  <2> QED BY <2>4, <2>5, <2>6, <2>7 DEF LimitsKept
<1>4. CASE TooManyCited
  <2>1. /\ doing' = "insufficient"
        /\ UNCHANGED <<tools, made, asked, unregistered, reserving, triesLeft>>
    BY <1>4 DEF TooManyCited, budget, pool, callState
  <2> QED BY <1>k, <2>1 DEF RunOver
<1>5. CASE RunRaises
  <2>1. /\ doing' = "raised"
        /\ UNCHANGED <<tools, made, asked, unregistered, reserving, triesLeft>>
    BY <1>5 DEF RunRaises, budget, pool, callState
  <2> QED BY <1>k, <2>1 DEF RunOver
<1> QED BY <1>1, <1>2, <1>3, <1>4, <1>5

\* The checks made ahead keep what the end of every run needs: it never meets the limit
\* of tools or of calls, and the calls reserved in parallel stay within the execution's.
THEOREM LimitsHold == ExplorationSpec => []WithinLimits
<1>1. ExplorationInit => LimitsKept
  BY LimitNumbers
     DEF ExplorationInit, LimitsKept, ExplorationTypes, ToolsKept, CallsKept, Spending, RunOver
<1>2. LimitsKept /\ [ExplorationNext]_exploration => LimitsKept'
  <2>1. ASSUME LimitsKept, UNCHANGED exploration PROVE LimitsKept'
    <3>1. UNCHANGED <<doing, tools, made, asked, unregistered, reserving, triesLeft>>
      BY <2>1 DEF exploration, budget, pool, callState
    <3>2. ExplorationTypes' BY <2>1, <3>1 DEF LimitsKept, ExplorationTypes
    <3>3. ToolsKept' BY <2>1, <3>1 DEF LimitsKept, ToolsKept
    <3>4. CallsKept' BY <2>1, <3>1 DEF LimitsKept, CallsKept
    <3> QED BY <2>1, <3>1, <3>2, <3>3, <3>4 DEF LimitsKept
  <2> QED BY <2>1, ReadingStep, ExploringStep, AnsweringStep, MergingStep DEF ExplorationNext
<1>3. LimitsKept => WithinLimits BY DEF LimitsKept, CallsKept, WithinLimits
<1> QED BY <1>1, <1>2, <1>3, PTL DEF ExplorationSpec

\* Combining answers a part only the new answer or the old one answers, and loses none
\* of the old one's unless the new one reports a conflict.
LEMMA MergeKeeps ==
  ASSUME NEW old \in [claims : SUBSET (SUBSET Parts), conflict : BOOLEAN, failed : BOOLEAN],
         NEW new \in [claims : SUBSET (SUBSET Parts), conflict : BOOLEAN, failed : BOOLEAN],
         NEW fits \in BOOLEAN
  PROVE  /\ AgentMerged(old, new, fits)
              \in [claims : SUBSET (SUBSET Parts), conflict : BOOLEAN, failed : BOOLEAN]
         /\ AgentMerged(old, new, fits) # old /\ ~new.conflict =>
              /\ Answered(old) \subseteq Answered(AgentMerged(old, new, fits))
              /\ ~old.conflict
<1> DEFINE A == [claims : SUBSET (SUBSET Parts), conflict : BOOLEAN, failed : BOOLEAN]
           kept == {c \in old.claims : ~Superseded(c, new)}
           both == Combined(old, new, fits)
           joined == [old EXCEPT !.claims = {c \in @ : ~Superseded(c, new)} \union new.claims]
<1>1. joined \in A OBVIOUS
<1>2. both \in {new, old, joined} /\ both \in A BY <1>1 DEF Combined
<1>3. Answered(old) \subseteq Answered(joined)
  <2>1. joined.claims = kept \union new.claims OBVIOUS
  <2>2. ASSUME NEW x, NEW c \in old.claims, x \in c
        PROVE  \E d \in kept \union new.claims : x \in d
    <3>1. CASE Superseded(c, new)
      <4>1. x \in Answered(new) BY <2>2, <3>1 DEF Superseded
      <4> QED BY <4>1 DEF Answered
    <3>2. CASE ~Superseded(c, new) BY <2>2, <3>2
    <3> QED BY <3>1, <3>2
  <2> QED BY <2>1, <2>2 DEF Answered
<1>4. both # old /\ ~new.conflict => Answered(old) \subseteq Answered(both) /\ ~old.conflict
  BY <1>3 DEF Combined
<1>5. Empty(old) => Answered(old) = {} /\ ~old.conflict BY DEF Empty, Answered
<1> HIDE DEF both
<1>6. AgentMerged(old, new, fits) =
        IF Empty(old) THEN new
        ELSE IF both # old THEN both
        ELSE IF /\ ~old.conflict /\ Answered(old) \subseteq Answered(new)
                /\ Cardinality(new.claims) >= Cardinality(old.claims)
        THEN new ELSE old
  BY DEF AgentMerged, both
<1> QED BY <1>2, <1>4, <1>5, <1>6

AnswerTypes ==
  /\ draft \in [claims : SUBSET (SUBSET Parts), conflict : BOOLEAN, failed : BOOLEAN]
  /\ best \in [claims : SUBSET (SUBSET Parts), conflict : BOOLEAN, failed : BOOLEAN]

\* No part that is answered is lost by a step, and what is published answers the parts
\* of the kept answer.
LEMMA AnswersStep ==
  ASSUME AnswerTypes, ExplorationNext
  PROVE  /\ AnswerTypes'
         /\ best' # best /\ ~draft.conflict =>
              Answered(best) \subseteq Answered(best') /\ ~best.conflict
         /\ doing' = "finish" => Answered(best') \subseteq published'
<1> DEFINE A == [claims : SUBSET (SUBSET Parts), conflict : BOOLEAN, failed : BOOLEAN]
<1>0. NoAnswer \in A BY DEF NoAnswer, NoDraft
<1>n. \A d \in NewDrafts : d \in A
  <2>1. \A d \in Drafts : d \in SUBSET (SUBSET Parts) BY DraftsAssumption
  <2>2. [claims : Drafts, conflict : BOOLEAN, failed : {FALSE}] \subseteq A BY <2>1
  <2>3. NoDraft(TRUE) \in A BY DEF NoDraft
  <2> QED BY <2>2, <2>3 DEF NewDrafts
<1>k. ASSUME UNCHANGED best, draft' \in A, doing' # "finish"
      PROVE  /\ AnswerTypes'
             /\ best' # best /\ ~draft.conflict =>
                  Answered(best) \subseteq Answered(best') /\ ~best.conflict
             /\ doing' = "finish" => Answered(best') \subseteq published'
  BY <1>k DEF AnswerTypes
<1>t. draft \in A /\ best \in A BY DEF AnswerTypes
<1>1. ASSUME \/ \E t \in 0 .. MaxTools, c \in 1 .. MaxTries : Enter(t, c)
             \/ Search \/ Embed \/ SkipRead
             \/ \E n \in 0 .. ReadLimit : Collect(n) \/ Read(n)
      PROVE  UNCHANGED <<draft, best>> /\ doing' # "finish"
  BY <1>1 DEF Enter, Search, Embed, SkipRead, Collect, Read, Spends, answers
<1>2. ASSUME \/ StartStep \/ Explored \/ Register \/ NotAnswerable
             \/ \E then \in {"search", "read", "explored", "decide"} : Decision(then)
      PROVE  UNCHANGED <<draft, best>> /\ doing' # "finish"
  BY <1>2 DEF StartStep, Explored, Register, NotAnswerable, Decision, Spends, answers
<1>3. ASSUME \/ ContextLost \/ Reserved \/ ExtractRaises \/ NoFacts \/ Compose \/ SingleStage
             \/ CutOff
             \/ \E n \in 0 .. MaxGroups : Extract(n)
             \/ \E d \in NewDrafts : Written(d)
      PROVE  UNCHANGED best /\ draft' \in A /\ doing' # "finish"
  BY <1>0, <1>n, <1>t, <1>3 DEF ContextLost, Reserved, ExtractRaises, NoFacts, Compose,
     SingleStage, CutOff, Extract, Written, Drafted, Write, answers
<1>4. ASSUME NEW fits \in BOOLEAN, Judge(fits)
      PROVE  /\ AnswerTypes'
             /\ best' # best /\ ~draft.conflict =>
                  Answered(best) \subseteq Answered(best') /\ ~best.conflict
             /\ doing' = "finish" => Answered(best') \subseteq published'
  <2>1. draft' \in A BY <1>0, <1>4 DEF Judge
  <2>2. Answered(best) \subseteq Parts BY <1>t DEF Answered
  <2>3. CASE Ready(draft)
    <3>1. best' = best /\ published' = Answered(draft) BY <1>4, <2>3 DEF Judge
    <3> QED BY <1>t, <2>1, <2>2, <2>3, <3>1 DEF AnswerTypes, Ready
  <2>4. CASE ~Ready(draft)
    <3>1. best' \in {best, AgentMerged(best, draft, fits)} BY <1>4, <2>4 DEF Judge
    <3>2. doing' = "finish" => published' = Answered(best')
      BY <1>4, <2>4 DEF Judge, GoesOn
    <3>3. best' \in A /\ (best' # best /\ ~draft.conflict =>
            Answered(best) \subseteq Answered(best') /\ ~best.conflict)
      BY <1>t, <3>1, MergeKeeps
    <3> QED BY <2>1, <3>2, <3>3 DEF AnswerTypes
  <2> QED BY <2>3, <2>4
<1>5. CASE PublishBest BY <1>t, <1>5 DEF PublishBest, AnswerTypes
<1>6. ASSUME Finish \/ TooManyCited \/ RunRaises
      PROVE  UNCHANGED <<draft, best>> /\ doing' # "finish"
  BY <1>6 DEF Finish, TooManyCited, RunRaises, Spends, answers
<1>7. CASE UNCHANGED <<draft, best>> /\ doing' # "finish" BY <1>k, <1>t, <1>7
<1> QED BY <1>1, <1>2, <1>3, <1>4, <1>5, <1>6, <1>7, <1>k DEF ExplorationNext

\* A part that has been answered stays answered unless a draft reports a conflict, and a
\* published answer answers every part of the kept one.
THEOREM AnsweredPartsStay == ExplorationSpec => AnsweredStays
<1>1. ExplorationInit => AnswerTypes BY DEF ExplorationInit, AnswerTypes, NoAnswer, NoDraft
<1>2. AnswerTypes /\ [ExplorationNext]_exploration => AnswerTypes'
  <2>1. ASSUME AnswerTypes, UNCHANGED exploration PROVE AnswerTypes'
    BY <2>1 DEF AnswerTypes, exploration, answers
  <2> QED BY <2>1, AnswersStep
<1>3. AnswerTypes /\ [ExplorationNext]_exploration =>
        [/\ best' # best /\ ~draft.conflict =>
              Answered(best) \subseteq Answered(best') /\ ~best.conflict
         /\ doing' = "finish" => Answered(best') \subseteq published']_exploration
  BY AnswersStep
<1> QED BY <1>1, <1>2, <1>3, PTL DEF ExplorationSpec, AnsweredStays
=============================================================================
