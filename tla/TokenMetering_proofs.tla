------------------------ MODULE TokenMetering_proofs ------------------------
(***************************************************************************)
(* TokenMetering for any number of callers, jobs, permits, retries and     *)
(* posts: IInv is an inductive invariant, and with it every step maps to a *)
(* step of MeteringContract or to a stutter.                               *)
(***************************************************************************)
EXTENDS TokenMetering, FiniteSetTheorems, TLAPS

\* The request a caller works on is one of its own, and no other caller's.
LEMMA CurrentIsRequest ==
  ASSUME TypeOK, NEW c \in Callers
  PROVE  /\ Current(c) \in Requests
         /\ \A d \in Callers, k \in Attempts :
              <<d, k>> = Current(c) => d = c /\ k = attempt[c]
         /\ \A d \in Callers \ {c} : Current(d) # Current(c)
BY DEF TypeOK, Current, Requests

\* Every report has exactly one close; what precedes a report is none.
LEMMA CloseFacts ==
  /\ "abandoned" \in Reports /\ CloseOf["abandoned"] = "RELEASED"
  /\ "notCalled" \notin Reports /\ "running" \notin Reports
  /\ \A report \in Reports : CloseOf[report] \in Closes
BY DEF Reports, CloseOf, Contract!Reports, Contract!CloseOf, Closes

-----------------------------------------------------------------------------
\* The semaphore

\* How the number of permit holders changes when one caller moves.
LEMMA HoldersStep ==
  ASSUME TypeOK, NEW c \in Callers, NEW v, pc' = [pc EXCEPT ![c] = v]
  PROVE  /\ Cardinality(Holders) \in Nat /\ Cardinality(Holders') \in Nat
         /\ pc[c] \in Holding /\ v \notin Holding =>
              Cardinality(Holders') = Cardinality(Holders) - 1
         /\ pc[c] \notin Holding /\ v \in Holding =>
              Cardinality(Holders') = Cardinality(Holders) + 1
         /\ (pc[c] \in Holding <=> v \in Holding) => Holders' = Holders
<1>1. \A x \in Callers : pc'[x] = IF x = c THEN v ELSE pc[x]
  BY DEF TypeOK
<1>2. IsFiniteSet(Holders) /\ IsFiniteSet(Holders')
  <2>1. Holders \subseteq Callers /\ Holders' \subseteq Callers
    BY DEF Holders
  <2> QED BY <2>1, MeteringAssumption, FS_Subset
<1>3. Cardinality(Holders) \in Nat /\ Cardinality(Holders') \in Nat
  BY <1>2, FS_CardinalityType
<1>4. ASSUME pc[c] \in Holding, v \notin Holding
      PROVE  Cardinality(Holders') = Cardinality(Holders) - 1
  <2>1. Holders' = Holders \ {c} /\ c \in Holders
    BY <1>1, <1>4 DEF Holders
  <2> QED BY <2>1, <1>2, FS_RemoveElement
<1>5. ASSUME pc[c] \notin Holding, v \in Holding
      PROVE  Cardinality(Holders') = Cardinality(Holders) + 1
  <2>1. Holders' = Holders \union {c} /\ c \notin Holders
    BY <1>1, <1>5 DEF Holders
  <2> QED BY <2>1, <1>2, FS_AddElement
<1>6. ASSUME pc[c] \in Holding <=> v \in Holding PROVE Holders' = Holders
  BY <1>1, <1>6 DEF Holders
<1> QED BY <1>3, <1>4, <1>5, <1>6

\* Taking, returning and keeping a permit each preserve the balance.
LEMMA PermitMoves ==
  ASSUME TypeOK, PermitsConserved, NEW c \in Callers, NEW v,
         pc' = [pc EXCEPT ![c] = v],
         \/ /\ pc[c] \notin Holding /\ v \in Holding
            /\ permits > 0 /\ permits' = permits - 1
         \/ pc[c] \in Holding /\ v \notin Holding /\ permits' = permits + 1
         \/ (pc[c] \in Holding <=> v \in Holding) /\ permits' = permits
  PROVE  PermitsConserved' /\ permits' \in 0..Permits
<1>1. /\ permits \in 0..Permits
      /\ permits + Cardinality(Holders) = Permits
  BY DEF TypeOK, PermitsConserved
<1>2. Cardinality(Holders) \in Nat /\ Cardinality(Holders') \in Nat
  BY HoldersStep
<1>3. CASE pc[c] \notin Holding /\ v \in Holding
           /\ permits > 0 /\ permits' = permits - 1
  <2>1. Cardinality(Holders') = Cardinality(Holders) + 1
    BY <1>3, HoldersStep
  <2> QED BY <2>1, <1>1, <1>2, <1>3, MeteringAssumption DEF PermitsConserved
<1>4. CASE pc[c] \in Holding /\ v \notin Holding /\ permits' = permits + 1
  <2>1. Cardinality(Holders') = Cardinality(Holders) - 1
    BY <1>4, HoldersStep
  <2> QED BY <2>1, <1>1, <1>2, <1>4, MeteringAssumption DEF PermitsConserved
<1>5. CASE (pc[c] \in Holding <=> v \in Holding) /\ permits' = permits
  BY <1>1, <1>5, HoldersStep DEF PermitsConserved
<1> QED BY <1>3, <1>4, <1>5

\* No step of a caller, a task, Spring or a crash loses or invents a permit.
LEMMA PermitsStep ==
  ASSUME IInv, Next PROVE PermitsConserved' /\ permits' \in 0..Permits
<1> USE DEF IInv, FailureClosed, Holding
<1>1. ASSUME NEW c \in Callers, Acquire(c)
      PROVE  PermitsConserved' /\ permits' \in 0..Permits
  BY <1>1, PermitMoves DEF Acquire
<1>2. ASSUME NEW c \in Callers, CallerStep(c)
      PROVE  PermitsConserved' /\ permits' \in 0..Permits
  <2>1. CASE CallProvider(c) BY <2>1, PermitMoves DEF CallProvider
  <2>2. CASE ReserveRaises(c) BY <2>2, PermitMoves DEF ReserveRaises
  <2>3. CASE Finish(c) BY <2>3, PermitMoves DEF Finish
  <2>4. CASE GiveUp(c) BY <2>4, PermitMoves DEF GiveUp
  <2>5. CASE BackOff(c) BY <2>5, PermitMoves DEF BackOff
  <2>6. CASE Retry(c) BY <2>6, PermitMoves DEF Retry
  <2>7. ASSUME NEW report \in Reports, ProviderReturns(c, report)
        PROVE  PermitsConserved' /\ permits' \in 0..Permits
    BY <2>7, PermitMoves DEF ProviderReturns
  <2> QED BY <1>2, <2>1, <2>2, <2>3, <2>4, <2>5, <2>6, <2>7 DEF CallerStep
<1>3. ASSUME NEW c \in Callers, Cancel(c)
      PROVE  PermitsConserved' /\ permits' \in 0..Permits
  <2>1. CASE CancelIdle(c) BY <2>1, PermitMoves DEF CancelIdle
  <2>2. CASE CancelReserve(c) BY <2>2, PermitMoves DEF CancelReserve
  <2>3. CASE CancelProvider(c) BY <2>3, PermitMoves DEF CancelProvider
  <2>4. CASE CancelClose(c) BY <2>4, PermitMoves DEF CancelClose
  <2> QED BY <1>3, <2>1, <2>2, <2>3, <2>4 DEF Cancel
<1>4. ASSUME Spring \/ \E r \in Requests : LedgerTask(r)
      PROVE  PermitsConserved' /\ permits' \in 0..Permits
  <2>1. pc' = pc /\ permits' = permits
    BY <1>4 DEF Spring, LedgerTask, SpringReserves, SpringRefuses, SpringCloses,
         LeaseExpires, PostAgain, CleanUp, Reply, owner
  <2> QED BY <2>1 DEF PermitsConserved, Holders, TypeOK
<1>5. CASE Crash
  <2>1. Holders' = {} BY <1>5 DEF Crash, Holders, TypeOK, Ended
  <2> QED BY <2>1, <1>5, FS_EmptySet, MeteringAssumption
          DEF Crash, PermitsConserved
<1> QED BY Next, <1>1, <1>2, <1>3, <1>4, <1>5 DEF Next

-----------------------------------------------------------------------------
\* Types and the callers' own facts

\* Every step preserves the types; permits' is in range by PermitsStep.
LEMMA TypeStep == ASSUME IInv, Next PROVE TypeOK'
<1> DEFINE Calls == [Requests ->
                       [op : Ops \union {"none"}, left : 0..Tries,
                        st : {"idle", "running", "ok", "error", "crashed"},
                        detached : BOOLEAN]]
<1> USE PermitsStep DEF IInv, TypeOK, Attempts, Holding, Ended
<1>1. ASSUME NEW c \in Callers, Acquire(c) \/ CallerStep(c) \/ Cancel(c)
      PROVE  TypeOK'
  <2> USE DEF Ops, Closes, FailureClosed
  <2>0. Current(c) \in Requests BY CurrentIsRequest
  <2>1. CASE Acquire(c) BY <2>0, <2>1, MeteringAssumption DEF Acquire, Post
  <2>2. CASE CallProvider(c) BY <2>0, <2>2 DEF CallProvider
  <2>3. CASE ReserveRaises(c) BY <2>3 DEF ReserveRaises
  <2>4. CASE Finish(c) BY <2>4 DEF Finish
  <2>5. CASE GiveUp(c) BY <2>5 DEF GiveUp
  <2>6. CASE BackOff(c) BY <2>6 DEF BackOff
  <2>7. CASE Retry(c) BY <2>7, MeteringAssumption DEF Retry, Phase
  <2>8. ASSUME NEW report \in Reports, ProviderReturns(c, report)
        PROVE  TypeOK'
    BY <2>0, <2>8, CloseFacts, MeteringAssumption DEF ProviderReturns, Post
  <2>9. CASE CancelIdle(c) BY <2>9 DEF CancelIdle
  <2>10. CASE CancelReserve(c) BY <2>0, <2>10, CloseFacts DEF CancelReserve
  <2>11. CASE CancelProvider(c)
    BY <2>0, <2>11, CloseFacts, MeteringAssumption DEF CancelProvider, Post
  <2>12. CASE CancelClose(c) BY <2>0, <2>12 DEF CancelClose
  <2> QED BY <1>1, <2>1, <2>2, <2>3, <2>4, <2>5, <2>6, <2>7, <2>8, <2>9,
             <2>10, <2>11, <2>12 DEF CallerStep, Cancel
<1>2. ASSUME NEW r \in Requests, LedgerTask(r) PROVE TypeOK'
  <2>1. CASE PostAgain(r)
    <3>1. call[r].op \in Ops
      BY <2>1 DEF PostAgain, Acknowledged, AcknowledgedOf
    <3>2. call' \in Calls
      <4>1. CASE call[r].left > 1
        BY <2>1, <4>1, MeteringAssumption DEF PostAgain
      <4>2. CASE ~(call[r].left > 1) BY <2>1, <4>2 DEF PostAgain
      <4> QED BY <4>1, <4>2
    <3>3. net' \subseteq Requests \X Ops BY <2>1, <3>1 DEF PostAgain
    <3> QED BY <2>1, <3>2, <3>3 DEF PostAgain, owner
  <2>2. CASE CleanUp(r)
    BY <2>2, MeteringAssumption DEF CleanUp, Post, Ops, Closes, owner
  <2> QED BY <1>2, <2>1, <2>2 DEF LedgerTask
<1>3. CASE Spring
  <2>1. ASSUME NEW r \in Requests, NEW op \in Ops, NEW st \in {"ok", "error"},
               Reply(r, op, st)
        PROVE  /\ pc' = pc /\ attempt' = attempt
               /\ provider' = provider /\ lease' = lease
               /\ call' \in Calls /\ net' \subseteq Requests \X Ops
    BY <2>1 DEF Reply, owner
  <2>2. ASSUME NEW r \in Requests, SpringReserves(r) PROVE TypeOK'
    <3>1. Reply(r, "RESERVED", "ok") BY <2>2 DEF SpringReserves
    <3>2. ledger' \in [Requests -> Ops \union {"absent", "LEASE_EXPIRED"}]
      BY <2>2 DEF SpringReserves, Ops
    <3> QED BY <2>1, <3>1, <3>2 DEF Ops
  <2>3. ASSUME NEW r \in Requests, SpringRefuses(r) PROVE TypeOK'
    BY <2>1, <2>3 DEF SpringRefuses, Ops
  <2>4. ASSUME NEW r \in Requests, NEW op \in Closes, SpringCloses(r, op)
        PROVE  TypeOK'
    <3>1. Reply(r, op, "ok") BY <2>4 DEF SpringCloses
    <3>2. ledger' \in [Requests -> Ops \union {"absent", "LEASE_EXPIRED"}]
      BY <2>4 DEF SpringCloses, Ops
    <3> QED BY <2>1, <3>1, <3>2 DEF Ops
  <2>5. ASSUME NEW j \in Jobs, LeaseExpires(j) PROVE TypeOK'
    BY <2>5 DEF LeaseExpires, owner
  <2> QED BY <1>3, <2>2, <2>3, <2>4, <2>5 DEF Spring
<1>4. CASE Crash BY <1>4, CloseFacts DEF Crash
<1> QED BY Next, <1>1, <1>2, <1>3, <1>4 DEF Next

\* What the ledger call of q may do while its caller is suspended.
Moved(q) == \/ call'[q] = call[q]
            \/ call[q].op = "RESERVED" /\ call[q].detached
            \/ /\ call[q].st = "running" /\ call'[q].op = call[q].op
               /\ call'[q].detached = call[q].detached

\* Progress of ledger calls does not disturb what callers rely on.
LEMMA CallMoves ==
  ASSUME TypeOK, Fresh, Phase,
         pc' = pc, attempt' = attempt, provider' = provider,
         \A q \in Requests : Moved(q)
  PROVE  Fresh' /\ Phase'
<1>1. Fresh'
  <2> SUFFICES ASSUME NEW c \in Callers, NEW k \in Attempts,
                      k > attempt[c] \/ (k = attempt[c] /\ pc[c] = "waiting")
               PROVE  provider'[<<c, k>>] = "notCalled" /\ call'[<<c, k>>] = Idle
    BY DEF Fresh
  <2>1. <<c, k>> \in Requests BY DEF Requests
  <2> QED BY <2>1 DEF Fresh, Idle, Moved
<1>2. Phase'
  <2> SUFFICES ASSUME NEW c \in Callers PROVE Phase!(c)' BY DEF Phase
  <2>1. Current(c)' = Current(c) /\ Current(c) \in Requests
    BY CurrentIsRequest DEF Current
  <2>2. Phase!(c) BY DEF Phase
  <2> QED BY <2>1, <2>2 DEF Closes, Moved
<1> QED BY <1>1, <1>2

\* A caller disturbs its current request only: later attempts stay untouched
\* and the other callers' facts hold.
LEMMA CallerMoves ==
  ASSUME TypeOK, Fresh, Phase, NEW c \in Callers,
         \A d \in Callers \ {c} : pc'[d] = pc[d],
         pc[c] # "waiting" => pc'[c] # "waiting", attempt' = attempt,
         pc'[c] # "waiting",
         \A q \in Requests \ {Current(c)} :
             call'[q] = call[q] /\ provider'[q] = provider[q],
         Phase!(c)'
  PROVE  Fresh' /\ Phase'
<1>1. Fresh'
  <2> SUFFICES ASSUME NEW d \in Callers, NEW k \in Attempts,
                      k > attempt[d] \/ (k = attempt[d] /\ pc'[d] = "waiting")
               PROVE  provider'[<<d, k>>] = "notCalled" /\ call'[<<d, k>>] = Idle
    BY DEF Fresh
  <2>1. <<d, k>> \in Requests \ {Current(c)}
    <3>1. k > attempt[c] => k # attempt[c] BY DEF TypeOK, Attempts
    <3> QED BY <3>1 DEF Requests, Current
  <2>2. k > attempt[d] \/ (k = attempt[d] /\ pc[d] = "waiting") OBVIOUS
  <2> QED BY <2>1, <2>2 DEF Fresh, Idle
<1>2. ASSUME NEW d \in Callers \ {c} PROVE Phase!(d)'
  <2>1. Current(d)' = Current(d) /\ Current(d) \in Requests \ {Current(c)}
    BY CurrentIsRequest DEF Current
  <2>2. Phase!(d) BY DEF Phase
  <2> QED BY <2>1, <2>2
<1> QED BY <1>1, <1>2 DEF Phase

\* Every step keeps later attempts untouched and each caller's facts true.
LEMMA PhaseStep == ASSUME IInv, Next PROVE Fresh' /\ Phase'
<1> USE DEF IInv, TypeOK
<1>1. ASSUME NEW c \in Callers, Acquire(c) \/ CallerStep(c) \/ Cancel(c)
      PROVE  Fresh' /\ Phase'
  <2>0. Current(c) \in Requests /\ (attempt' = attempt => Current(c)' = Current(c))
    BY CurrentIsRequest DEF Current
  <2>a. Phase!(c) BY DEF Phase
  <2> USE DEF FailureClosed, Closes
  <2>1. CASE Acquire(c)
    <3>1. provider[Current(c)] = "notCalled" BY <2>1, <2>0 DEF Acquire, Fresh, Current
    <3> QED BY <3>1, <2>0, <2>1, CallerMoves DEF Acquire, Post
  <2>2. CASE CallProvider(c) BY <2>0, <2>a, <2>2, CallerMoves DEF CallProvider
  <2>3. CASE ReserveRaises(c) BY <2>0, <2>3, CallerMoves DEF ReserveRaises
  <2>4. CASE Finish(c) BY <2>0, <2>4, CallerMoves DEF Finish
  <2>5. CASE GiveUp(c) BY <2>0, <2>5, CallerMoves DEF GiveUp
  <2>6. CASE BackOff(c) BY <2>0, <2>6, CallerMoves DEF BackOff
  <2>7. CASE Retry(c)
    BY <2>7, <2>a, CurrentIsRequest, MeteringAssumption
       DEF Retry, Fresh, Phase, Current, Attempts
  <2>8. ASSUME NEW report \in Reports, ProviderReturns(c, report)
        PROVE  Fresh' /\ Phase'
    BY <2>0, <2>8, CloseFacts, CallerMoves DEF ProviderReturns, Post
  <2>9. CASE CancelIdle(c) BY <2>0, <2>9, CallerMoves DEF CancelIdle
  <2>10. CASE CancelReserve(c) BY <2>0, <2>10, CallerMoves DEF CancelReserve
  <2>11. CASE CancelProvider(c)
    BY <2>0, <2>11, CallerMoves DEF CancelProvider, Post
  <2>12. CASE CancelClose(c) BY <2>0, <2>12, CallerMoves DEF CancelClose
  <2> QED BY <1>1, <2>1, <2>2, <2>3, <2>4, <2>5, <2>6, <2>7, <2>8, <2>9,
             <2>10, <2>11, <2>12 DEF CallerStep, Cancel
<1>2. ASSUME Spring \/ \E r \in Requests : LedgerTask(r)
      PROVE  Fresh' /\ Phase'
  <2>1. pc' = pc /\ attempt' = attempt /\ provider' = provider
    BY <1>2 DEF Spring, LedgerTask, SpringReserves, SpringRefuses, SpringCloses,
         LeaseExpires, PostAgain, CleanUp, Reply, owner
  <2>2. \A q \in Requests : Moved(q)
    <3>1. ASSUME NEW r \in Requests, PostAgain(r) \/ CleanUp(r) PROVE  \A q \in Requests : Moved(q)
      BY <3>1 DEF PostAgain, CleanUp, Post, Moved
    <3>2. ASSUME NEW r \in Requests, NEW op, NEW st, Reply(r, op, st)
          PROVE  \A q \in Requests : Moved(q)
      BY <3>2 DEF Reply, Moved
    <3> QED BY <1>2, <3>1, <3>2 DEF LedgerTask, Spring, SpringReserves,
              SpringRefuses, SpringCloses, LeaseExpires, Moved
  <2> QED BY <2>1, <2>2, CallMoves
<1>3. CASE Crash
  BY <1>3 DEF Crash, Fresh, Phase, Current, Requests, Ended, Idle
<1> QED BY Next, <1>1, <1>2, <1>3 DEF Next

-----------------------------------------------------------------------------
\* The ledger

\* A step that leaves request q alone, except for losing posts about it.
Same(q) == /\ call'[q] = call[q] /\ ledger'[q] = ledger[q]
           /\ provider'[q] = provider[q]
           /\ \A op \in Ops : <<q, op>> \in net' => <<q, op>> \in net

\* A step that touches one request only has to be checked for that request.
LEMMA Frame ==
  ASSUME Closing, Acknowledged, NEW r \in Requests,
         \A q \in Requests \ {r} : Same(q),
         ClosingOf(r)', AcknowledgedOf(r)'
  PROVE  Closing' /\ Acknowledged'
<1> SUFFICES ASSUME NEW q \in Requests PROVE ClosingOf(q)' /\ AcknowledgedOf(q)'
  BY DEF Closing, Acknowledged
<1>1. CASE q = r BY <1>1
<1>2. CASE q # r
  <2>1. ClosingOf(q) /\ AcknowledgedOf(q) /\ Same(q)
    BY <1>2 DEF Closing, Acknowledged
  <2> QED BY <2>1 DEF Same, ClosingOf, AcknowledgedOf, Ops, Closes
<1> QED BY <1>1, <1>2

\* Every step keeps the closes those the reports justify, and the replies true.
LEMMA LedgerStep == ASSUME IInv, Next PROVE Closing' /\ Acknowledged'
<1> USE DEF IInv, TypeOK
<1>1. ASSUME NEW c \in Callers, Acquire(c) \/ CallerStep(c) \/ Cancel(c)
      PROVE  Closing' /\ Acknowledged'
  <2> PICK r \in Requests : r = Current(c) BY CurrentIsRequest
  <2>a. ClosingOf(r) /\ AcknowledgedOf(r) BY DEF Closing, Acknowledged
  <2> USE DEF Same, Post, ClosingOf, AcknowledgedOf, Closes
  <2>1. CASE Acquire(c)
    <3>1. call[r].op = "none" /\ provider[r] = "notCalled"
      BY <2>1 DEF Acquire, Fresh, Current, Idle
    <3>2. \A q \in Requests \ {r} : Same(q) BY <2>1 DEF Acquire
    <3>3. AcknowledgedOf(r)' BY <2>a, <2>1, <3>1 DEF Acquire
    <3>4. ClosingOf(r)' BY <2>a, <2>1, <3>1 DEF Acquire
    <3> QED BY <3>2, <3>3, <3>4, Frame
  <2>2. CASE CallProvider(c)
    BY <2>a, <2>2, CloseFacts, Frame DEF CallProvider, Phase
  <2>3. CASE ReserveRaises(c) \/ Finish(c) \/ GiveUp(c) \/ BackOff(c)
             \/ Retry(c) \/ CancelIdle(c)
    <3>1. UNCHANGED <<call, net, ledger, provider>>
      BY <2>3 DEF ReserveRaises, Finish, GiveUp, BackOff, Retry, CancelIdle
    <3> QED BY <3>1 DEF Closing, Acknowledged
  <2>4. ASSUME NEW report \in Reports, ProviderReturns(c, report)
        PROVE  Closing' /\ Acknowledged'
    BY <2>a, <2>4, CloseFacts, Frame DEF ProviderReturns, Phase
  <2>5. CASE CancelReserve(c)
    BY <2>a, <2>5, CloseFacts, Frame DEF CancelReserve, Phase
  <2>6. CASE CancelProvider(c)
    BY <2>a, <2>6, CloseFacts, Frame DEF CancelProvider, Phase
  <2>7. CASE CancelClose(c) BY <2>a, <2>7, Frame DEF CancelClose, Phase
  <2> QED BY <1>1, <2>1, <2>2, <2>3, <2>4, <2>5, <2>6, <2>7
          DEF CallerStep, Cancel
<1>2. ASSUME NEW r \in Requests,
             \/ LedgerTask(r) \/ SpringReserves(r) \/ SpringRefuses(r)
             \/ \E op \in Closes : SpringCloses(r, op)
      PROVE  Closing' /\ Acknowledged'
  <2>a. ClosingOf(r) /\ AcknowledgedOf(r) BY DEF Closing, Acknowledged
  <2> USE DEF Same, Post, Reply, ClosingOf, AcknowledgedOf, Closes, owner
  <2>1. CASE PostAgain(r)
    <3>1. /\ call'[r].op = call[r].op /\ call'[r].detached = call[r].detached
          /\ call'[r].st \in {"running", "error"}
          /\ net' \subseteq net \union {<<r, call[r].op>>}
      BY <2>1 DEF PostAgain
    <3>2. \A q \in Requests \ {r} : Same(q) BY <2>1, <3>1 DEF PostAgain
    <3>3. AcknowledgedOf(r)' BY <2>a, <2>1, <3>1 DEF PostAgain
    <3>4. ClosingOf(r)' BY <2>a, <2>1, <3>1 DEF PostAgain
    <3> QED BY <3>2, <3>3, <3>4, Frame
  <2>2. CASE CleanUp(r)
    <3>1. \A q \in Requests \ {r} : Same(q) BY <2>2 DEF CleanUp
    <3>2. AcknowledgedOf(r)' BY <2>a, <2>2 DEF CleanUp
    <3>3. ClosingOf(r)' BY <2>a, <2>2, CloseFacts DEF CleanUp
    <3> QED BY <3>1, <3>2, <3>3, Frame
  <2>3. CASE SpringReserves(r) BY <2>a, <2>3, Frame DEF SpringReserves
  <2>4. CASE SpringRefuses(r) BY <2>a, <2>4, Frame DEF SpringRefuses
  <2>5. ASSUME NEW op \in Closes, SpringCloses(r, op)
        PROVE  Closing' /\ Acknowledged'
    <3>1. \A q \in Requests \ {r} : Same(q) BY <2>5 DEF SpringCloses
    <3>2. AcknowledgedOf(r)' BY <2>a, <2>5 DEF SpringCloses
    <3>3. ClosingOf(r)' BY <2>a, <2>5 DEF SpringCloses
    <3> QED BY <3>1, <3>2, <3>3, Frame
  <2> QED BY <1>2, <2>1, <2>2, <2>3, <2>4, <2>5 DEF LedgerTask
<1>3. ASSUME Crash \/ \E j \in Jobs : LeaseExpires(j)
      PROVE  Closing' /\ Acknowledged'
  <2> SUFFICES ASSUME NEW q \in Requests
               PROVE  ClosingOf(q)' /\ AcknowledgedOf(q)'
    BY DEF Closing, Acknowledged
  <2>1. ClosingOf(q) /\ AcknowledgedOf(q) BY DEF Closing, Acknowledged
  <2> QED BY <2>1, <1>3, CloseFacts
          DEF Crash, LeaseExpires, ClosingOf, AcknowledgedOf, Closes, owner
<1> QED BY Next, <1>1, <1>2, <1>3 DEF Next, Spring

\* A permit holder that may leave its request: the reservation is not open, or
\* its ledger call accounts for it; and no reserve is waiting for the caller.
LeavesSafely(c) ==
  /\ ledger[Current(c)] = "RESERVED" =>
        call[Current(c)].st \in {"running", "error", "crashed"}
  /\ call[Current(c)].op = "RESERVED" => call[Current(c)].st \notin {"running", "ok"}

\* A caller that leaves its request safely forgets no reservation.
LEMMA CallerLeaves ==
  ASSUME ReservationAccounted, Owned, NEW c \in Callers,
         pc[c] \in Holding => LeavesSafely(c), ledger' = ledger,
         \A d \in Callers \ {c} : pc'[d] = pc[d] /\ attempt'[d] = attempt[d],
         \A q \in Requests : /\ call'[q].st = call[q].st
                             /\ call'[q].op = call[q].op
                             /\ call[q].detached => call'[q].detached
  PROVE  ReservationAccounted' /\ Owned'
<1>1. \A d \in Callers \ {c} : Current(d)' = Current(d) BY DEF Current
<1>2. ReservationAccounted'
  BY <1>1 DEF ReservationAccounted, LeavesSafely
<1>3. Owned'
  BY <1>1 DEF Owned, LeavesSafely, Holding
<1> QED BY <1>2, <1>3

\* Every step keeps each open reservation accounted for by somebody.
LEMMA AccountedStep == ASSUME IInv, Next PROVE ReservationAccounted' /\ Owned'
<1> USE DEF IInv, TypeOK
<1>1. ASSUME NEW c \in Callers, Acquire(c) \/ CallerStep(c) \/ Cancel(c)
      PROVE  ReservationAccounted' /\ Owned'
  <2>a. Current(c) \in Requests BY CurrentIsRequest
  <2> USE CurrentIsRequest, CloseFacts
      DEF ReservationAccounted, Owned, Holding, Closes, Current
  <2>1. CASE Acquire(c) BY <2>a, <2>1 DEF Acquire, Post
  <2>2. CASE CallProvider(c) BY <2>a, <2>2 DEF CallProvider
  <2>3. ASSUME \/ ReserveRaises(c) \/ Finish(c) \/ GiveUp(c) \/ BackOff(c)
               \/ Retry(c) \/ CancelIdle(c) \/ CancelClose(c)
        PROVE  ReservationAccounted' /\ Owned'
    <3> HIDE CurrentIsRequest, CloseFacts
    <3>1. pc[c] \in Holding => LeavesSafely(c)
      BY <2>a, <2>3 DEF LeavesSafely, ReserveRaises, Finish, GiveUp, BackOff,
           FailureClosed, Retry, CancelIdle, CancelClose, Phase, Acknowledged,
           AcknowledgedOf
    <3>2. /\ ledger' = ledger
          /\ \A d \in Callers \ {c} : pc'[d] = pc[d] /\ attempt'[d] = attempt[d]
      BY <2>3 DEF ReserveRaises, Finish, GiveUp, BackOff, FailureClosed, Retry,
           CancelIdle, CancelClose
    <3>3. \A q \in Requests : /\ call'[q].st = call[q].st
                              /\ call'[q].op = call[q].op
                              /\ call[q].detached => call'[q].detached
      <4>1. CASE call' = call BY <4>1
      <4>2. CASE CancelClose(c) BY <2>a, <4>2 DEF CancelClose
      <4> QED BY <2>3, <4>1, <4>2 DEF ReserveRaises, Finish, GiveUp, BackOff,
                Retry, CancelIdle
    <3> QED BY <3>1, <3>2, <3>3, CallerLeaves
  <2>6. ASSUME NEW report \in Reports, ProviderReturns(c, report)
        PROVE  ReservationAccounted' /\ Owned'
    BY <2>a, <2>6 DEF ProviderReturns, Post
  <2>7. CASE CancelReserve(c) BY <2>a, <2>7 DEF CancelReserve, Phase
  <2>8. CASE CancelProvider(c) BY <2>a, <2>8 DEF CancelProvider, Post
  <2> QED BY <1>1, <2>1, <2>2, <2>3, <2>6, <2>7, <2>8
          DEF CallerStep, Cancel
<1>2. ASSUME NEW r \in Requests, LedgerTask(r)
      PROVE  ReservationAccounted' /\ Owned'
  <2> USE DEF ReservationAccounted, Owned, Current, owner
  <2>1. CASE PostAgain(r) BY <2>1 DEF PostAgain
  <2>2. CASE CleanUp(r) BY <2>2 DEF CleanUp, Post
  <2> QED BY <1>2, <2>1, <2>2 DEF LedgerTask
<1>3. CASE Spring
  <2>1. ASSUME NEW r \in Requests, NEW op \in Ops, NEW st \in {"ok", "error"},
               Reply(r, op, st)
        PROVE  /\ \A c \in Callers : pc'[c] = pc[c] /\ Current(c)' = Current(c)
               /\ \A q \in Requests : /\ call'[q].op = call[q].op
                                      /\ call'[q].detached = call[q].detached
                                      /\ \/ call'[q] = call[q]
                                         \/ /\ call[q].st = "running"
                                            /\ call'[q].st = st /\ q = r
               /\ Owned'
    BY <2>1 DEF Reply, owner, Current, Owned
  <2> USE DEF ReservationAccounted
  <2>2. ASSUME NEW r \in Requests, SpringReserves(r)
        PROVE  ReservationAccounted' /\ Owned'
    <3>1. Reply(r, "RESERVED", "ok") BY <2>2 DEF SpringReserves
    <3>2. ledger[r] = "absent" =>
             call[r].op = "RESERVED" /\ call[r].st \in {"running", "error", "crashed"}
      BY <2>2 DEF Acknowledged, AcknowledgedOf, SpringReserves, Ops, Closes
    <3>3. \A q \in Requests : ledger'[q] = "RESERVED" =>
             ledger[q] = "RESERVED" \/ (q = r /\ ledger[r] = "absent")
      BY <2>2 DEF SpringReserves
    <3>4. Owned' /\ (\A c \in Callers : pc'[c] = pc[c] /\ Current(c)' = Current(c))
      BY <2>1, <3>1 DEF Ops
    <3>5. \A q \in Requests : call'[q].st = "ok" /\ call'[q].op = "RESERVED" =>
             call'[q].detached \/ \E c \in Callers : q = Current(c)' /\ pc'[c] \in Holding
      BY <3>4 DEF Owned, Holding
    <3>6. \A q \in Requests : /\ call'[q].op = call[q].op
                              /\ call'[q].detached = call[q].detached
                              /\ \/ call'[q] = call[q]
                                 \/ call'[q].st = "ok" /\ q = r /\ call[q].op = "RESERVED"
      BY <2>1, <3>1 DEF Reply, Ops
    <3> QED BY <3>2, <3>3, <3>4, <3>5, <3>6
  <2>3. ASSUME NEW r \in Requests, SpringRefuses(r)
        PROVE  ReservationAccounted' /\ Owned'
    BY <2>1, <2>3 DEF SpringRefuses, Ops
  <2>4. ASSUME NEW r \in Requests, NEW op \in Closes, SpringCloses(r, op)
        PROVE  ReservationAccounted' /\ Owned'
    <3>1. Reply(r, op, "ok") /\ op \in Ops /\ op # "RESERVED"
      BY <2>4 DEF SpringCloses, Ops, Closes
    <3>2. \A q \in Requests : ledger'[q] = "RESERVED" =>
                                ledger[q] = "RESERVED" /\ q # r
      BY <2>4, <3>1 DEF SpringCloses
    <3> QED BY <2>1, <3>1, <3>2
  <2>5. ASSUME NEW j \in Jobs, LeaseExpires(j)
        PROVE  ReservationAccounted' /\ Owned'
    BY <2>5 DEF LeaseExpires, owner, Owned, Current
  <2> QED BY <1>3, <2>2, <2>3, <2>4, <2>5 DEF Spring
<1>4. CASE Crash
  <2>1. \A q \in Requests : /\ call[q].op = "none" => ledger[q] = "absent"
                            /\ call[q].op # "none" => call'[q].st = "crashed"
                            /\ call'[q].op = call[q].op
    BY <1>4 DEF Crash, Acknowledged, AcknowledgedOf
  <2> QED BY <1>4, <2>1 DEF Crash, ReservationAccounted, Owned
<1> QED BY Next, <1>1, <1>2, <1>3, <1>4 DEF Next

-----------------------------------------------------------------------------
\* The invariant and what follows from it

\* The invariant holds initially.
LEMMA InitInv == ASSUME Init PROVE IInv
<1>1. TypeOK
  BY MeteringAssumption DEF Init, TypeOK, Idle, Attempts, Holding, Ended, Ops
<1>2. PermitsConserved
  <2>1. Holders = {} BY DEF Init, Holders, Holding
  <2> QED BY <2>1, FS_EmptySet, MeteringAssumption DEF Init, PermitsConserved
<1>3. Fresh /\ Phase
  BY <1>1, CurrentIsRequest DEF Init, Fresh, Phase, Holding, Requests
<1>4. Closing /\ Acknowledged
  BY DEF Init, Closing, ClosingOf, Acknowledged, AcknowledgedOf, Idle, Closes
<1>5. Owned /\ ReservationAccounted
  BY DEF Init, Owned, ReservationAccounted, Idle
<1> QED BY <1>1, <1>2, <1>3, <1>4, <1>5 DEF IInv

\* The invariant is inductive.
LEMMA NextInv == ASSUME IInv, [Next]_vars PROVE IInv'
<1>1. CASE Next
  BY <1>1, PermitsStep, TypeStep, PhaseStep, LedgerStep, AccountedStep DEF IInv
<1>2. CASE UNCHANGED vars
  <2> USE <1>2 DEF IInv, vars
  <2>1. TypeOK' /\ PermitsConserved' BY DEF TypeOK, PermitsConserved, Holders
  <2>2. Fresh' /\ Phase' BY DEF Fresh, Phase, Current
  <2>3. Closing' /\ Acknowledged'
    BY DEF Closing, ClosingOf, Acknowledged, AcknowledgedOf
  <2>4. Owned' /\ ReservationAccounted'
    BY DEF Owned, ReservationAccounted, Current
  <2> QED BY <2>1, <2>2, <2>3, <2>4
<1> QED BY <1>1, <1>2

\* IInv holds in every reachable state, for every value of the constants.
THEOREM Invariance == Spec => []IInv
<1>1. Init => IInv BY InitInv
<1>2. IInv /\ [Next]_vars => IInv' BY NextInv
<1> QED BY <1>1, <1>2, PTL DEF Spec

\* Every reachable state has the declared types; the semaphore stays in range.
THEOREM TypeCorrect == Spec => []TypeOK
<1>1. IInv => TypeOK BY DEF IInv
<1> QED BY <1>1, Invariance, PTL

\* No way out of the semaphore's block, cancelled or not, leaks a permit.
THEOREM NoPermitLeaks == Spec => []PermitsConserved
<1>1. IInv => PermitsConserved BY DEF IInv
<1> QED BY <1>1, Invariance, PTL

\* An open reservation is held by its caller, by a task or by a failed call.
THEOREM NoReservationForgotten == Spec => []ReservationAccounted
<1>1. IInv => ReservationAccounted BY DEF IInv
<1> QED BY <1>1, Invariance, PTL

\* The provider is called only for requests that Spring has reserved.
THEOREM ProviderNeedsReservation == Spec => []CalledOnlyWhenReserved
<1>1. IInv => CalledOnlyWhenReserved
  BY CurrentIsRequest DEF IInv, CalledOnlyWhenReserved, Phase, Acknowledged,
     AcknowledgedOf, Holding, Closes
<1> QED BY <1>1, Invariance, PTL

\* No step turns a close that has started into another kind of close.
LEMMA OnceStep ==
  ASSUME IInv, Next, NEW r \in Requests, call[r].op \in Closes
  PROVE  call'[r].op = call[r].op
<1>a. CloseOf[provider[r]] = call[r].op /\ provider[r] \in Reports
  BY DEF IInv, Closing, ClosingOf
<1> USE DEF IInv, TypeOK
<1>1. ASSUME NEW c \in Callers, Acquire(c) \/ CallerStep(c) \/ Cancel(c)
      PROVE  call'[r].op = call[r].op
  <2>1. r = Current(c) => /\ pc[c] \notin {"waiting", "reserving", "calling"}
    BY <1>a, CloseFacts DEF Phase, Fresh, Current, Closes
  <2> QED BY <2>1, <1>1, CurrentIsRequest
          DEF Acquire, CallerStep, CallProvider, ReserveRaises, Finish, GiveUp,
              BackOff, Retry, ProviderReturns, Cancel, CancelIdle, CancelReserve,
              CancelProvider, CancelClose, FailureClosed, Post
<1>2. ASSUME NEW q \in Requests, LedgerTask(q) PROVE call'[r].op = call[r].op
  BY <1>2 DEF LedgerTask, PostAgain, CleanUp, Post, Closes
<1>3. CASE Spring
  <2>1. ASSUME NEW q, NEW op, NEW st, Reply(q, op, st)
        PROVE  call'[r].op = call[r].op
    BY <2>1 DEF Reply
  <2> QED BY <1>3, <2>1 DEF Spring, SpringReserves, SpringRefuses, SpringCloses,
            LeaseExpires
<1>4. CASE Crash BY <1>4 DEF Crash
<1> QED BY Next, <1>1, <1>2, <1>3, <1>4 DEF Next

\* A request that starts to settle is never released as well, nor the reverse.
THEOREM ClosesOnce == Spec => CloseDecidedOnce
<1>1. IInv /\ [Next]_vars =>
        [\A r \in Requests : call[r].op \in Closes => call'[r].op = call[r].op]_vars
  BY OnceStep
<1> QED BY <1>1, Invariance, PTL DEF Spec, CloseDecidedOnce

-----------------------------------------------------------------------------
\* Refinement

\* Every step is a step of the contract or leaves ledger and provider alone.
LEMMA RefineStep ==
  ASSUME IInv, Next
  PROVE  Contract!Next \/ UNCHANGED <<ledger, provider>>
<1> USE DEF IInv, TypeOK
<1>1. ASSUME NEW c \in Callers, Acquire(c) \/ CallerStep(c) \/ Cancel(c)
      PROVE  Contract!Next \/ UNCHANGED <<ledger, provider>>
  <2>0. Current(c) \in Requests BY CurrentIsRequest
  <2>1. CASE UNCHANGED <<ledger, provider>> BY <2>1
  <2>2. CASE CallProvider(c)
    <3>1. Contract!Call(Current(c))
      BY <2>0, <2>2 DEF CallProvider, Contract!Call, Phase, Acknowledged,
           AcknowledgedOf, Closing, ClosingOf, Ops, Closes
    <3> QED BY <2>0, <3>1 DEF Contract!Next
  <2>3. ASSUME NEW report \in Reports \ {"abandoned"}, ProviderReturns(c, report)
        PROVE  Contract!Next
    <3>1. Contract!Report(Current(c), report)
      BY <2>0, <2>3 DEF ProviderReturns, Contract!Report, Phase
    <3> QED BY <2>0, <3>1 DEF Contract!Next, Reports
  <2>4. CASE CancelReserve(c) \/ CancelProvider(c)
    <3>1. Contract!Report(Current(c), "abandoned")
      BY <2>0, <2>4 DEF CancelReserve, CancelProvider, Contract!Report, Phase
    <3> QED BY <2>0, <3>1, CloseFacts DEF Contract!Next, Reports
  <2> QED BY <1>1, <2>1, <2>2, <2>3, <2>4
          DEF Acquire, CallerStep, ReserveRaises, Finish, GiveUp, BackOff, Retry,
              Cancel, CancelIdle, CancelClose
<1>2. ASSUME NEW r \in Requests, LedgerTask(r)
      PROVE  UNCHANGED <<ledger, provider>>
  BY <1>2 DEF LedgerTask, PostAgain, CleanUp
<1>3. ASSUME NEW r \in Requests, SpringReserves(r)
      PROVE  Contract!Next \/ UNCHANGED <<ledger, provider>>
  <2>1. provider' = provider BY <1>3 DEF SpringReserves, Reply
  <2>2. CASE ledger[r] = "absent"
    <3>1. Contract!Reserve(r)
      BY <1>3, <2>1, <2>2 DEF SpringReserves, Contract!Reserve, Acknowledged,
           AcknowledgedOf
    <3> QED BY <3>1 DEF Contract!Next
  <2>3. CASE ledger[r] # "absent" BY <1>3, <2>1, <2>3 DEF SpringReserves
  <2> QED BY <2>2, <2>3
<1>4. ASSUME NEW r \in Requests, SpringRefuses(r)
      PROVE  UNCHANGED <<ledger, provider>>
  BY <1>4 DEF SpringRefuses, Reply
<1>5. ASSUME NEW r \in Requests, NEW op \in Closes, SpringCloses(r, op)
      PROVE  Contract!Next \/ UNCHANGED <<ledger, provider>>
  <2>1. provider' = provider BY <1>5 DEF SpringCloses, Reply
  <2>2. CASE ledger[r] = "RESERVED"
    <3>1. provider[r] \in Reports /\ CloseOf[provider[r]] = op
      BY <1>5 DEF SpringCloses, Closing, ClosingOf, Closes
    <3>2. Contract!Close(r)
      BY <1>5, <2>1, <2>2, <3>1
         DEF SpringCloses, Contract!Close, Reports, CloseOf
    <3> QED BY <3>2 DEF Contract!Next
  <2>3. CASE ledger[r] # "RESERVED" BY <1>5, <2>1, <2>3 DEF SpringCloses
  <2> QED BY <2>2, <2>3
<1>6. ASSUME NEW j \in Jobs, LeaseExpires(j) PROVE Contract!Next
  <2> DEFINE Open == {r \in Requests : JobOf[r[1]] = j /\ ledger[r] = "RESERVED"}
  <2>1. Contract!Expire(Open) BY <1>6 DEF LeaseExpires, Contract!Expire
  <2> QED BY <2>1 DEF Contract!Next
<1>7. CASE Crash
  <2> DEFINE Running == {r \in Requests : provider[r] = "running"}
  <2>1. Contract!Die(Running) BY <1>7 DEF Crash, Contract!Die
  <2> QED BY <2>1 DEF Contract!Next
<1> QED BY Next, <1>1, <1>2, <1>3, <1>4, <1>5, <1>6, <1>7 DEF Next, Spring

\* metering.py, with its tasks, retries and lost posts, implements its contract.
THEOREM MeteringRefines == Spec => ImplementsContract
<1>1. Init => Contract!Init BY DEF Init, Contract!Init
<1>2. IInv /\ [Next]_vars => [Contract!Next]_<<ledger, provider>>
  BY RefineStep DEF vars
<1> QED BY <1>1, <1>2, Invariance, PTL
        DEF Spec, ImplementsContract, Contract!Spec
=============================================================================
