------------------------ MODULE ValidationRun_proofs ------------------------
(***************************************************************************)
(* ValidationRun for any number of planner segments, questions, typo       *)
(* segments, judges and executions, overlapping or not: what a completed   *)
(* job reports, what is published a second time, what becomes of a stored  *)
(* decision and what an execution sends once it is stopped.                *)
(***************************************************************************)
EXTENDS ValidationRun, WellFoundedInduction, TLAPS

-----------------------------------------------------------------------------
\* The inductive invariant, in named parts

\* What the branches of execution e have done, as far as they have come.
BranchesInv(e) ==
  /\ run[e] \in {"IDLE", "LOADING", "ENDED"} =>
       /\ setting[e] = "INPUT" /\ typo[e] = 0
       /\ \A i \in Items : At(e, i) = "IDLE"
  /\ run[e] = "COMPLETING" => \A b \in Branches : result[e][b] # "NONE"
  /\ \A i \in Items \ Questions : At(e, i) \notin {"FAILING", "LEFT"}

\* The SETTING branch: planner segments, then the plan, then the judges.
SettingInv(e) ==
  /\ \A s \in Segments : IF setting[e] = "INPUT" THEN At(e, s) \in {"IDLE", "SAVED"}
                                                 ELSE At(e, s) # "IDLE"
  /\ At(e, Plan) \in AtWork => setting[e] = "PLANNING" /\ Planned(e)
  /\ setting[e] = "JUDGING" => Planned(e) /\ At(e, Plan) = "SAVED"
  /\ setting[e] # "JUDGING" => \A q \in Questions : At(e, q) \in {"IDLE", "SAVED"}
  /\ halt[e] = "NONE" => \A q \in Questions : At(e, q) \notin {"FAILED", "STOP"}

\* The TYPO branch: one segment after the other.
TypoInv(e) ==
  /\ \A i \in Typos : At(e, i) \in AtWork => i = Checking(e)
  /\ slip[e] = "CLEAN" =>
       \A t \in 1..NumTypos : t < typo[e] => At(e, <<"TYPO", t>>) = "SAVED"

\* What the result of a branch says of its items: nothing is under way any more,
\* and a branch that names no failure has done everything.
ResultInv(e) ==
  /\ result[e]["SETTING"] # "NONE" => \A i \in Items \ Typos : At(e, i) \notin AtWork
  /\ result[e]["TYPO"] # "NONE" => \A i \in Typos : At(e, i) \notin AtWork
  /\ result[e]["SETTING"] \in {"CLEAN", "QUESTIONS"} =>
       /\ Planned(e) /\ At(e, Plan) = "SAVED"
       /\ \A q \in Questions : At(e, q) \in {"SAVED", "LEFT"}
       /\ result[e]["SETTING"] = "CLEAN" <=> \A q \in Questions : At(e, q) = "SAVED"
  /\ result[e]["TYPO"] = "CLEAN" => \A i \in Typos : At(e, i) = "SAVED"
  /\ result[e]["TYPO"] # "QUESTIONS"

\* Requests come from executions that have run, and their answers from Spring.
WireInv ==
  /\ \A m \in sent :
       /\ m[1] <= claims /\ run[m[1]] \notin {"IDLE", "LOADING"}
       /\ m[2] = "COMPLETE" => run[m[1]] # "RUNNING"
  /\ \A a \in answers : LET m == a[1] IN
       m[2] # "COMPLETE" =>
         /\ m \notin sent
         /\ At(m[1], m[3]) = IF m[2] = "SAVE" THEN "PUBLISHING" ELSE "FAILING"
         /\ m[2] = "SAVE" /\ a[2] => m[3] \in stored

Says(code) ==
  /\ code = "CLEAN" => stored = Items
  /\ code = "QUESTIONS" => left # {} /\ stored = Items \ left

\* What Spring knows of the job.
JobInv ==
  /\ holder \in {0, claims} /\ (holder # 0 => report = "OPEN")
  /\ \A e \in Runs : e > claims => run[e] = "IDLE"
  /\ stored \intersect left = {}
  /\ Says(report)

\* The requests of the execution that holds the lease: no item is published that
\* Spring has, none as saved and as left at once, and complete tells the truth.
HolderInv ==
  /\ \A m \in sent : m[1] = holder =>
       /\ m[2] \in {"SAVE", "FAIL"} => m[3] \notin stored
       /\ m[2] = "SAVE" => <<holder, "FAIL", m[3]>> \notin sent
       /\ m[2] = "COMPLETE" /\ m[3] # "FAILED" =>
            Says(m[3]) /\ \A n \in sent : n[1] = holder => n[2] = "COMPLETE"
  /\ \A a \in answers : a[1][1] = holder /\ a[1][2] = "FAIL" /\ a[2] => a[1][3] \in left

\* What the holder knows of an item against what Spring has and may still get.
ItemInv(e, i) ==
  /\ At(e, i) \in {"IDLE", "CALLING", "LEFT"} =>
       i \notin stored /\ <<e, "SAVE", i>> \notin sent /\ <<e, "FAIL", i>> \notin sent
  /\ At(e, i) = "PUBLISHING" => <<e, "FAIL", i>> \notin sent
  /\ At(e, i) = "FAILING" => <<e, "SAVE", i>> \notin sent
  /\ At(e, i) = "SAVED" => i \in stored
  /\ At(e, i) = "LEFT" => i \in left

KnowsInv ==
  \A e \in Runs : holder = e /\ run[e] \in {"RUNNING", "COMPLETING", "STOPPING"} =>
    \A i \in Items : ItemInv(e, i)

LocalInv == \A e \in Runs : BranchesInv(e) /\ SettingInv(e) /\ TypoInv(e) /\ ResultInv(e)
RunIInv == TypeOK /\ LocalInv /\ WireInv /\ JobInv /\ HolderInv /\ KnowsInv
-----------------------------------------------------------------------------
\* Items and requests

\* The items of a job are of four kinds, told apart by their first component.
LEMMA ItemKinds ==
  /\ Items = Segments \union {Plan} \union Questions \union Typos
  /\ Plan \in Items /\ Plan \notin Segments /\ Plan \notin Questions /\ Plan \notin Typos
  /\ Segments \intersect Questions = {} /\ Segments \intersect Typos = {}
  /\ Questions \intersect Typos = {}
  /\ \A t \in 1..NumTypos : <<"TYPO", t>> \in Typos
  /\ \A i \in Typos : i[2] \in 1..NumTypos /\ i = <<"TYPO", i[2]>>
  /\ \A t : <<"TYPO", t>> \in Typos => t \in 1..NumTypos
BY DEF Items, Segments, Plan, Questions, Typos

\* What a request consists of.
LEMMA RequestFields ==
  /\ \A m \in Requests :
       /\ m = <<m[1], m[2], m[3]>> /\ m[1] \in Runs
       /\ m[2] \in {"SAVE", "FAIL", "COMPLETE"}
       /\ m[2] = "SAVE" => m[3] \in Items
       /\ m[2] = "FAIL" => m[3] \in Questions
       /\ m[2] = "COMPLETE" => m[3] \in Codes
  /\ \A e \in Runs, i \in Items : <<e, "SAVE", i>> \in Requests
  /\ \A e \in Runs, i \in Questions : <<e, "FAIL", i>> \in Requests
  /\ \A e \in Runs, c \in Codes : <<e, "COMPLETE", c>> \in Requests
BY DEF Requests

\* The constants are numbers, and an answer names its request and Spring's verdict.
LEMMA Numbers ==
  /\ NumTypos \in Nat /\ MaxClaims \in Nat \ {0} /\ Runs = 1..MaxClaims
  /\ \A a \in Requests \X BOOLEAN : a = <<a[1], a[2]>> /\ a[1] \in Requests /\ a[2] \in BOOLEAN
BY SizesAssumption DEF Runs

\* A set of numbers has a smallest one.
LEMMA Smallest ==
  ASSUME NEW S \in SUBSET Nat, S # {}
  PROVE  \E n \in S : \A k \in S : ~(k < n)
<1> DEFINE R == {p \in Nat \X Nat : p[1] < p[2]}
<1>1. IsWellFoundedOn(R, Nat)
  BY NatLessThanWellFounded, Zenon DEF OpToRel
<1>2. PICK n \in S : \A k \in S : ~(<<k, n>> \in R)
  <2> HIDE DEF R
  <2> QED BY <1>1, WFMin
<1>3. ASSUME NEW k \in S, k < n PROVE FALSE
  BY <1>2, <1>3
<1> QED BY <1>3

\* A step of one execution leaves the branches of the others as they are.
LEMMA OthersKept ==
  ASSUME LocalInv, NEW e \in Runs,
         \A d \in Runs \ {e} :
           /\ run'[d] = run[d] /\ setting'[d] = setting[d] /\ typo'[d] = typo[d]
           /\ work'[d] = work[d] /\ halt'[d] = halt[d] /\ slip'[d] = slip[d]
           /\ result'[d] = result[d],
         BranchesInv(e)' /\ SettingInv(e)' /\ TypoInv(e)' /\ ResultInv(e)'
  PROVE  LocalInv'
<1> SUFFICES ASSUME NEW d \in Runs
             PROVE  BranchesInv(d)' /\ SettingInv(d)' /\ TypoInv(d)' /\ ResultInv(d)'
  BY DEF LocalInv
<1>1. CASE d = e
  BY <1>1
<1>2. CASE d # e
  <2>1. BranchesInv(d) /\ SettingInv(d) /\ TypoInv(d) /\ ResultInv(d)
    BY DEF LocalInv
  <2>2. BranchesInv(d)' /\ SettingInv(d)' /\ TypoInv(d)' /\ ResultInv(d)'
    BY <1>2, <2>1 DEF BranchesInv, SettingInv, TypoInv, ResultInv, At, Planned, Checking
  <2> QED BY <2>2
<1> QED BY <1>1, <1>2

-----------------------------------------------------------------------------
\* Steps on one item

\* An item that may fail or be published: it is under way, or its turn has come.
Ready(e, i) ==
  \/ At(e, i) \in AtWork
  \/ /\ At(e, i) = "IDLE" /\ i = Plan /\ setting[e] = "PLANNING" /\ Planned(e)
     /\ result[e]["SETTING"] = "NONE"
  \/ At(e, i) = "IDLE" /\ i \in Typos /\ i = Checking(e) /\ result[e]["TYPO"] = "NONE"

\* An item fails in the branch it belongs to.
LEMMA FailsKeeps ==
  ASSUME RunIInv, NEW e \in Runs, NEW i \in Items, NEW code \in {"FAILED", "STOP"},
         Alive(e), Ready(e, i), Fails(e, i, code),
         UNCHANGED <<spring, sent, run>>, answers' \subseteq answers,
         gate' \in [Runs -> BOOLEAN],
         \A a \in answers' : a[1][1] = e /\ a[1][2] # "COMPLETE" => a[1][3] # i
  PROVE  RunIInv'
<1> DEFINE s == IF code = "STOP" THEN "STOP" ELSE "FAILED"
<1>1. /\ UNCHANGED <<holder, claims, stored, left, report, sent, run, setting, failure>>
      /\ s \in {"FAILED", "STOP"} /\ s \notin AtWork
      /\ work' = [work EXCEPT ![e][i] = s]
      /\ halt' = IF i \in Questions /\ halt[e] = "NONE" THEN [halt EXCEPT ![e] = code] ELSE halt
      /\ slip' = IF i \in Typos THEN [slip EXCEPT ![e] = IF @ = "CLEAN" THEN code ELSE @] ELSE slip
      /\ typo' = IF i \in Typos THEN [typo EXCEPT ![e] = @ + 1] ELSE typo
      /\ result' = IF i = Plan THEN [result EXCEPT ![e]["SETTING"] = code] ELSE result
  BY DEF Fails, Does, Ends, spring, AtWork
<1>2. \A d \in Runs, j \in Items : At(d, j)' = IF d = e /\ j = i THEN s ELSE At(d, j)
  BY <1>1 DEF At, RunIInv, TypeOK
<1>3. BranchesInv(e) /\ SettingInv(e) /\ TypoInv(e) /\ ResultInv(e)
  BY DEF RunIInv, LocalInv
<1>4. i \in Typos => i = Checking(e) /\ typo[e] \in 1..NumTypos
  BY <1>3, ItemKinds DEF Ready, TypoInv, Checking
<1>5. TypeOK'
  <2>1. typo' \in [Runs -> 0..(NumTypos + 1)]
    BY <1>1, <1>4, Numbers DEF RunIInv, TypeOK
  <2>2. work' \in [Runs -> [Items -> ItemStates]]
    BY <1>1 DEF RunIInv, TypeOK, ItemStates
  <2>3. result' \in [Runs -> [Branches -> {"NONE", "STOP"} \union Codes]]
    BY <1>1 DEF RunIInv, TypeOK, Codes
  <2>4. /\ halt' \in [Runs -> {"NONE", "FAILED", "STOP"}]
        /\ slip' \in [Runs -> {"CLEAN", "FAILED", "STOP"}]
    BY <1>1 DEF RunIInv, TypeOK
  <2> QED BY <1>1, <2>1, <2>2, <2>3, <2>4 DEF RunIInv, TypeOK
<1>6. /\ setting'[e] = setting[e] /\ run'[e] = run[e] /\ run[e] \in {"RUNNING", "COMPLETING"}
      /\ halt'[e] = IF i \in Questions /\ halt[e] = "NONE" THEN code ELSE halt[e]
      /\ slip'[e] = IF i \in Typos /\ slip[e] = "CLEAN" THEN code ELSE slip[e]
      /\ typo'[e] = IF i \in Typos THEN typo[e] + 1 ELSE typo[e]
      /\ result'[e]["TYPO"] = result[e]["TYPO"]
      /\ result'[e]["SETTING"] = IF i = Plan THEN code ELSE result[e]["SETTING"]
  BY <1>1 DEF RunIInv, TypeOK, Alive, Branches
<1>7. BranchesInv(e)'
  BY <1>2, <1>3, <1>6 DEF BranchesInv, Branches
<1>8. i \in Questions => At(e, i) \in AtWork /\ setting[e] = "JUDGING"
  BY <1>3, ItemKinds DEF Ready, SettingInv, AtWork
<1>9. i \in Segments => At(e, i) \in AtWork /\ setting[e] # "INPUT" /\ ~Planned(e)
  BY <1>3, ItemKinds DEF Ready, SettingInv, AtWork, Planned
<1>10. SettingInv(e)'
  BY <1>2, <1>3, <1>6, <1>8, <1>9, ItemKinds DEF SettingInv, Planned, Ready, AtWork
<1>11. TypoInv(e)'
  <2>1. CASE i \in Typos
    <3>1. slip'[e] # "CLEAN"
      BY <1>6, <2>1
    <3>2. ASSUME NEW j \in Typos PROVE At(e, j)' \notin AtWork
      <4>1. At(e, j) \in AtWork => j = i
        BY <1>3, <1>4, <2>1 DEF TypoInv
      <4>2. j \in Items
        BY ItemKinds
      <4> QED BY <1>1, <1>2, <4>1, <4>2
    <3> QED BY <3>1, <3>2 DEF TypoInv
  <2>2. CASE i \notin Typos
    <3>1. typo'[e] = typo[e] /\ slip'[e] = slip[e]
      BY <1>6, <2>2
    <3>2. \A j \in Typos : At(e, j)' = At(e, j)
      BY <1>2, <2>2, ItemKinds
    <3>3. Checking(e)' = Checking(e)
      BY <3>1 DEF Checking
    <3> QED BY <1>3, <3>1, <3>2, <3>3, ItemKinds DEF TypoInv
  <2> QED BY <2>1, <2>2
<1>12. ResultInv(e)'
  <2>1. i = Plan => \A j \in Items \ Typos : At(e, j) \in AtWork => j = Plan
    BY <1>3, ItemKinds DEF Ready, SettingInv, Planned, AtWork
  <2>2. /\ result[e]["SETTING"] \in {"CLEAN", "QUESTIONS"} => i \in Typos
        /\ result[e]["TYPO"] = "CLEAN" => i \notin Typos
    BY <1>3, ItemKinds DEF ResultInv, Ready, AtWork
  <2>3. /\ result'[e]["SETTING"] # "NONE" => \A j \in Items \ Typos : At(e, j)' \notin AtWork
        /\ result'[e]["TYPO"] # "NONE" => \A j \in Typos : At(e, j)' \notin AtWork
    BY <1>1, <1>2, <1>3, <1>6, <2>1, ItemKinds DEF ResultInv
  <2>4. result'[e]["SETTING"] \in {"CLEAN", "QUESTIONS"} =>
          /\ result[e]["SETTING"] = result'[e]["SETTING"]
          /\ \A j \in Items \ Typos : At(e, j)' = At(e, j)
    BY <1>2, <1>6, <2>2
  <2>5. result'[e]["TYPO"] = "CLEAN" => \A j \in Typos : At(e, j)' = At(e, j)
    BY <1>2, <1>6, <2>2, ItemKinds
  <2> QED BY <1>3, <1>6, <2>3, <2>4, <2>5, ItemKinds DEF ResultInv, Planned
<1>13. LocalInv'
  <2>1. \A d \in Runs \ {e} :
           /\ run'[d] = run[d] /\ setting'[d] = setting[d] /\ typo'[d] = typo[d]
           /\ work'[d] = work[d] /\ halt'[d] = halt[d] /\ slip'[d] = slip[d]
           /\ result'[d] = result[d]
    BY <1>1 DEF RunIInv, TypeOK
  <2>2. LocalInv
    BY DEF RunIInv
  <2> QED BY <1>7, <1>10, <1>11, <1>12, <2>1, <2>2, OthersKept
<1>14. WireInv' /\ JobInv' /\ HolderInv'
  <2>1. /\ answers \subseteq Requests \X BOOLEAN
    BY DEF RunIInv, TypeOK
  <2>2. WireInv'
    <3>1. ASSUME NEW a \in answers', a[1][2] # "COMPLETE"
          PROVE  /\ a[1] \notin sent'
                 /\ At(a[1][1], a[1][3])' = IF a[1][2] = "SAVE" THEN "PUBLISHING" ELSE "FAILING"
                 /\ a[1][2] = "SAVE" /\ a[2] => a[1][3] \in stored'
      <4>1. /\ a[1] \notin sent
            /\ At(a[1][1], a[1][3]) = IF a[1][2] = "SAVE" THEN "PUBLISHING" ELSE "FAILING"
            /\ a[1][2] = "SAVE" /\ a[2] => a[1][3] \in stored
        BY <3>1 DEF RunIInv, WireInv
      <4>2. a[1][1] \in Runs /\ a[1][3] \in Items
        BY <2>1, <3>1, Numbers, RequestFields, ItemKinds
      <4>3. ~(a[1][1] = e /\ a[1][3] = i)
        BY <3>1
      <4> QED BY <1>1, <1>2, <4>1, <4>2, <4>3
    <3> QED BY <1>1, <3>1 DEF RunIInv, WireInv
  <2>3. JobInv' /\ HolderInv'
    BY <1>1 DEF RunIInv, JobInv, HolderInv, Says
  <2> QED BY <2>2, <2>3
<1>15. KnowsInv'
  BY <1>1, <1>2 DEF RunIInv, KnowsInv, ItemInv, AtWork
<1> QED BY <1>5, <1>13, <1>14, <1>15 DEF RunIInv

\* An item is published, unless the gate is stopped: the request is new to Spring,
\* and it is the only one under way for the item.
LEMMA PublishKeeps ==
  ASSUME RunIInv, NEW e \in Runs, NEW i \in Items, NEW kind \in {"SAVE", "FAIL"},
         Alive(e), Ready(e, i), At(e, i) \in {"IDLE", "CALLING"},
         kind = "FAIL" => i \in Questions,
         Publish(e, kind, i), UNCHANGED <<spring, answers, run, gate>>
  PROVE  /\ RunIInv'
         /\ \A m \in sent' \ sent : m[1] = e /\ gate[e] /\ run[e] = "RUNNING"
<1> DEFINE s == IF kind = "FAIL" THEN "FAILING" ELSE "PUBLISHING"
           m == <<e, kind, i>>
<1>0. \A a \in answers : a[1][1] = e /\ a[1][2] # "COMPLETE" => a[1][3] # i
  <2> SUFFICES ASSUME NEW a \in answers, a[1][1] = e, a[1][2] # "COMPLETE", a[1][3] = i PROVE FALSE
    OBVIOUS
  <2>1. At(e, i) \in {"PUBLISHING", "FAILING"}
    BY DEF RunIInv, WireInv
  <2> QED BY <2>1
<1>1. CASE ~gate[e]
  <2>1. Fails(e, i, "STOP") /\ sent' = sent
    BY <1>1 DEF Publish
  <2>2. gate' \in [Runs -> BOOLEAN]
    BY DEF RunIInv, TypeOK
  <2> QED BY <1>0, <2>1, <2>2, FailsKeeps
<1>2. CASE gate[e]
  <2>1. /\ UNCHANGED <<holder, claims, stored, left, report, answers, run, gate,
                       setting, typo, halt, slip, result, failure>>
        /\ work' = [work EXCEPT ![e][i] = s] /\ s \in {"FAILING", "PUBLISHING"}
        /\ sent' = sent \union {m}
    BY <1>2 DEF Publish, Does, spring
  <2>2. \A d \in Runs, j \in Items : At(d, j)' = IF d = e /\ j = i THEN s ELSE At(d, j)
    BY <2>1 DEF At, RunIInv, TypeOK
  <2>3. BranchesInv(e) /\ SettingInv(e) /\ TypoInv(e) /\ ResultInv(e)
    BY DEF RunIInv, LocalInv
  <2>4. /\ m \in Requests /\ m[1] = e /\ m[2] = kind /\ m[3] = i
        /\ i \in Questions => At(e, i) = "CALLING"
        /\ s = "FAILING" => kind = "FAIL"
        /\ s = "PUBLISHING" => kind = "SAVE"
    <3>1. m \in Requests
      BY RequestFields
    <3>2. i \in Questions => At(e, i) = "CALLING"
      BY ItemKinds DEF Ready, AtWork
    <3> QED BY <3>1, <3>2
  <2>5. TypeOK'
    <3>1. work' \in [Runs -> [Items -> ItemStates]]
      BY <2>1 DEF RunIInv, TypeOK, ItemStates, AtWork
    <3> QED BY <2>1, <2>4, <3>1 DEF RunIInv, TypeOK
  <2>6. BranchesInv(e)'
    BY <2>1, <2>2, <2>3 DEF BranchesInv, Alive
  <2>7. SettingInv(e)'
    BY <2>1, <2>2, <2>3, <2>4, ItemKinds DEF SettingInv, Planned, Ready, AtWork
  <2>8. TypoInv(e)'
    <3>1. Checking(e)' = Checking(e) /\ typo'[e] = typo[e] /\ slip'[e] = slip[e]
      BY <2>1 DEF Checking
    <3>2. \A j \in Typos : At(e, j)' \in AtWork => j = Checking(e)
      BY <2>2, <2>3, ItemKinds DEF TypoInv, Ready
    <3>3. \A j \in Typos : At(e, j) = "SAVED" => At(e, j)' = "SAVED"
      BY <2>2, ItemKinds
    <3> QED BY <2>3, <3>1, <3>2, <3>3, ItemKinds DEF TypoInv
  <2>9. ResultInv(e)'
    <3>1. /\ i \in Typos => result[e]["TYPO"] = "NONE"
          /\ i \notin Typos => result[e]["SETTING"] = "NONE"
      BY <2>3, ItemKinds DEF ResultInv, Ready, AtWork
    <3>2. /\ result[e]["SETTING"] # "NONE" => \A j \in Items \ Typos : At(e, j)' = At(e, j)
          /\ result[e]["TYPO"] # "NONE" => \A j \in Typos : At(e, j)' = At(e, j)
          /\ result'[e] = result[e]
      BY <2>1, <2>2, <3>1, ItemKinds
    <3> QED BY <2>3, <3>2, ItemKinds DEF ResultInv, Planned
  <2>10. LocalInv'
    <3>1. LocalInv /\ \A d \in Runs \ {e} : work'[d] = work[d]
      BY <2>1 DEF RunIInv, TypeOK
    <3> QED BY <2>1, <2>6, <2>7, <2>8, <2>9, <3>1, OthersKept
  <2>11. run[e] = "RUNNING"
    <3>1. \E b \in Branches : result[e][b] = "NONE"
      BY <2>3, ItemKinds DEF ResultInv, Ready, AtWork, Branches
    <3> QED BY <2>3, <3>1 DEF BranchesInv, Alive
  <2>12. e <= claims
    BY <2>11, Numbers DEF RunIInv, TypeOK, JobInv
  <2>13. WireInv'
    <3>1. ASSUME NEW n \in sent'
          PROVE  /\ n[1] <= claims /\ run[n[1]] \notin {"IDLE", "LOADING"}
                 /\ n[2] = "COMPLETE" => run[n[1]] # "RUNNING"
      <4>1. CASE n \in sent
        BY <4>1 DEF RunIInv, WireInv
      <4>2. CASE n = m
        BY <2>4, <2>11, <2>12, <4>2
      <4> QED BY <2>1, <4>1, <4>2
    <3>2. ASSUME NEW a \in answers, a[1][2] # "COMPLETE"
          PROVE  /\ a[1] \notin sent'
                 /\ At(a[1][1], a[1][3])' = IF a[1][2] = "SAVE" THEN "PUBLISHING" ELSE "FAILING"
                 /\ a[1][2] = "SAVE" /\ a[2] => a[1][3] \in stored
      <4>1. /\ a[1] \notin sent
            /\ At(a[1][1], a[1][3]) = IF a[1][2] = "SAVE" THEN "PUBLISHING" ELSE "FAILING"
            /\ a[1][2] = "SAVE" /\ a[2] => a[1][3] \in stored
        BY <3>2 DEF RunIInv, WireInv
      <4>2. a[1][1] \in Runs /\ a[1][3] \in Items
        BY <3>2, Numbers, RequestFields, ItemKinds DEF RunIInv, TypeOK
      <4>3. ~(a[1][1] = e /\ a[1][3] = i)
        BY <1>0, <3>2
      <4> QED BY <2>1, <2>2, <2>4, <4>1, <4>2, <4>3
    <3> QED BY <2>1, <3>1, <3>2 DEF WireInv
  <2>14. JobInv'
    BY <2>1 DEF RunIInv, JobInv, Says
  <2>15. /\ sent \subseteq Requests /\ sent' \subseteq Requests
         /\ \A n \in sent : n[1] = e => n[2] # "COMPLETE"
         /\ holder = e => i \notin stored /\ <<e, "SAVE", i>> \notin sent /\ <<e, "FAIL", i>> \notin sent
    BY <2>5, <2>11 DEF RunIInv, TypeOK, WireInv, KnowsInv, ItemInv
  <2>16. HolderInv'
    <3>1. ASSUME NEW n \in sent', n[1] = holder
          PROVE  /\ n[2] \in {"SAVE", "FAIL"} => n[3] \notin stored
                 /\ n[2] = "SAVE" => <<holder, "FAIL", n[3]>> \notin sent'
                 /\ n[2] = "COMPLETE" /\ n[3] # "FAILED" =>
                      Says(n[3]) /\ \A k \in sent' : k[1] = holder => k[2] = "COMPLETE"
      <4>1. CASE n = m
        BY <2>1, <2>4, <2>15, <3>1, <4>1
      <4>2. CASE n \in sent /\ holder = e
        <5>1. /\ n[2] \in {"SAVE", "FAIL"} => n[3] \notin stored
              /\ n[2] = "SAVE" => <<holder, "FAIL", n[3]>> \notin sent
          BY <3>1, <4>2 DEF RunIInv, HolderInv
        <5>2. n[2] = "SAVE" => n[3] # i
          BY <2>15, <3>1, <4>2, RequestFields
        <5> QED BY <2>1, <2>15, <3>1, <4>2, <5>1, <5>2
      <4>3. CASE n \in sent /\ holder # e
        BY <2>1, <2>4, <3>1, <4>3 DEF RunIInv, HolderInv
      <4> QED BY <2>1, <4>1, <4>2, <4>3
    <3> QED BY <2>1, <3>1 DEF RunIInv, HolderInv, Says
  <2>17. KnowsInv'
    <3> SUFFICES ASSUME NEW d \in Runs, holder = d,
                        run[d] \in {"RUNNING", "COMPLETING", "STOPPING"}, NEW j \in Items
                 PROVE  ItemInv(d, j)'
      BY <2>1 DEF KnowsInv
    <3>1. ItemInv(d, j)
      BY DEF RunIInv, KnowsInv
    <3>2. CASE d = e /\ j = i
      BY <2>1, <2>2, <2>4, <2>15, <3>2 DEF ItemInv
    <3>3. CASE ~(d = e /\ j = i)
      <4>1. /\ <<d, "SAVE", j>> \in sent' <=> <<d, "SAVE", j>> \in sent
            /\ <<d, "FAIL", j>> \in sent' <=> <<d, "FAIL", j>> \in sent
            /\ At(d, j)' = At(d, j)
        BY <2>1, <2>2, <3>3
      <4> QED BY <2>1, <3>1, <4>1 DEF ItemInv
    <3> QED BY <3>2, <3>3
  <2> QED BY <1>2, <2>1, <2>4, <2>5, <2>10, <2>11, <2>13, <2>14, <2>16, <2>17 DEF RunIInv
<1> QED BY <1>1, <1>2

\* A failed call, a failed publication and a request nobody waits for any longer end
\* in the failure of the item.
LEMMA ItemFails ==
  ASSUME RunIInv, NEW e \in Runs, NEW i \in Items,
         \/ \E code \in {"FAILED", "STOP"} : CallFails(e, i, code)
         \/ GivesUp(e, i)
         \/ \E a \in answers : a[1][3] = i /\ ~a[2] /\ PublicationAnswered(e, a[1], a[2])
  PROVE  RunIInv'
<1>0. /\ answers \subseteq Requests \X BOOLEAN /\ gate \in [Runs -> BOOLEAN]
      /\ \A a \in answers : a[1][1] = e /\ a[1][2] # "COMPLETE" =>
           At(e, a[1][3]) = IF a[1][2] = "SAVE" THEN "PUBLISHING" ELSE "FAILING"
  BY DEF RunIInv, TypeOK, WireInv
<1>1. ASSUME NEW code \in {"FAILED", "STOP"}, CallFails(e, i, code) PROVE RunIInv'
  <2>1. /\ Alive(e) /\ At(e, i) = "CALLING" /\ Fails(e, i, Code(e, code))
        /\ UNCHANGED <<spring, sent, answers, run, gate>>
    BY <1>1 DEF CallFails, wire
  <2>2. Code(e, code) \in {"FAILED", "STOP"} /\ Ready(e, i)
    BY <2>1 DEF Code, Ready, AtWork
  <2>3. \A a \in answers' : a[1][1] = e /\ a[1][2] # "COMPLETE" => a[1][3] # i
    BY <1>0, <2>1
  <2> QED BY <1>0, <2>1, <2>2, <2>3, FailsKeeps
<1>2. CASE GivesUp(e, i)
  <2>1. /\ Alive(e) /\ At(e, i) \in {"PUBLISHING", "FAILING"} /\ Fails(e, i, "FAILED")
        /\ Forget(<<e, IF At(e, i) = "FAILING" THEN "FAIL" ELSE "SAVE", i>>)
        /\ UNCHANGED <<spring, sent, run, gate>>
    BY <1>2 DEF GivesUp
  <2>2. \A a \in answers' : a[1][1] = e /\ a[1][2] # "COMPLETE" => a[1][3] # i
    <3> SUFFICES ASSUME NEW a \in answers', a[1][1] = e, a[1][2] # "COMPLETE", a[1][3] = i PROVE FALSE
      OBVIOUS
    <3>1. a \in answers /\ a[1] # <<e, IF At(e, i) = "FAILING" THEN "FAIL" ELSE "SAVE", i>>
      BY <2>1 DEF Forget
    <3>2. a[1] \in Requests
      BY <1>0, <3>1, Numbers
    <3>3. a[1] = <<e, a[1][2], i>> /\ a[1][2] \in {"SAVE", "FAIL"}
      BY <3>2, RequestFields
    <3>4. At(e, i) = IF a[1][2] = "SAVE" THEN "PUBLISHING" ELSE "FAILING"
      BY <1>0, <3>1
    <3> QED BY <3>1, <3>3, <3>4
  <2>3. Ready(e, i) /\ answers' \subseteq answers
    BY <2>1 DEF Ready, AtWork, Forget
  <2> QED BY <1>0, <2>1, <2>2, <2>3, FailsKeeps
<1>3. ASSUME NEW a \in answers, a[1][3] = i, ~a[2], PublicationAnswered(e, a[1], a[2])
      PROVE  RunIInv'
  <2>1. /\ a[1][1] = e /\ a[1][2] # "COMPLETE" /\ Alive(e) /\ Forget(a[1])
        /\ gate' = [gate EXCEPT ![e] = FALSE] /\ Fails(e, i, "FAILED")
        /\ UNCHANGED <<spring, sent, run>>
    BY <1>3 DEF PublicationAnswered
  <2>2. \A b \in answers' : b[1][1] = e /\ b[1][2] # "COMPLETE" => b[1][3] # i
    <3> SUFFICES ASSUME NEW b \in answers', b[1][1] = e, b[1][2] # "COMPLETE", b[1][3] = i PROVE FALSE
      OBVIOUS
    <3>1. b \in answers /\ b[1] # a[1]
      BY <2>1 DEF Forget
    <3>2. a[1] \in Requests /\ b[1] \in Requests
      BY <1>0, <3>1, Numbers
    <3>3. /\ a[1] = <<e, a[1][2], i>> /\ a[1][2] \in {"SAVE", "FAIL"}
          /\ b[1] = <<e, b[1][2], i>> /\ b[1][2] \in {"SAVE", "FAIL"}
      BY <1>3, <2>1, <3>2, RequestFields
    <3>4. /\ At(e, i) = IF a[1][2] = "SAVE" THEN "PUBLISHING" ELSE "FAILING"
          /\ At(e, i) = IF b[1][2] = "SAVE" THEN "PUBLISHING" ELSE "FAILING"
      BY <1>0, <1>3, <2>1, <3>1
    <3> QED BY <3>1, <3>3, <3>4
  <2>3. At(e, i) \in {"PUBLISHING", "FAILING"}
    BY <1>0, <1>3, <2>1
  <2>4. Ready(e, i) /\ answers' \subseteq answers /\ gate' \in [Runs -> BOOLEAN]
    BY <1>0, <2>1, <2>3 DEF Ready, AtWork, Forget
  <2> QED BY <2>1, <2>2, <2>4, FailsKeeps
<1> QED BY <1>1, <1>2, <1>3

\* Spring has the item: it is saved, or left with its question.
LEMMA AnswerKeeps ==
  ASSUME RunIInv, NEW e \in Runs, NEW a \in answers, a[2], PublicationAnswered(e, a[1], a[2])
  PROVE  RunIInv'
<1> DEFINE m == a[1]
           i == m[3]
           s == IF m[2] = "FAIL" THEN "LEFT" ELSE "SAVED"
<1>1. /\ UNCHANGED <<holder, claims, stored, left, report, sent, run, gate,
                     setting, halt, slip, result, failure>>
      /\ work' = [work EXCEPT ![e][i] = s] /\ answers' = {b \in answers : b[1] # m}
      /\ typo' = IF i \in Typos THEN [typo EXCEPT ![e] = @ + 1] ELSE typo
      /\ m[1] = e /\ m[2] # "COMPLETE" /\ Alive(e)
  BY DEF PublicationAnswered, Does, Forget, spring
<1>2. /\ answers \subseteq Requests \X BOOLEAN /\ sent \subseteq Requests
      /\ BranchesInv(e) /\ SettingInv(e) /\ TypoInv(e) /\ ResultInv(e)
      /\ LocalInv
  BY DEF RunIInv, TypeOK, LocalInv
<1>3. /\ m = <<e, m[2], i>> /\ m[2] \in {"SAVE", "FAIL"} /\ i \in Items
      /\ m[2] = "FAIL" => i \in Questions
  BY <1>1, <1>2, Numbers, RequestFields, ItemKinds
<1>4. /\ m \notin sent
      /\ At(e, i) = IF m[2] = "SAVE" THEN "PUBLISHING" ELSE "FAILING"
      /\ m[2] = "SAVE" => i \in stored
      /\ m[2] = "FAIL" /\ holder = e => i \in left
  BY <1>1 DEF RunIInv, WireInv, HolderInv
<1>5. \A d \in Runs, j \in Items : At(d, j)' = IF d = e /\ j = i THEN s ELSE At(d, j)
  BY <1>1, <1>3 DEF At, RunIInv, TypeOK
<1>6. /\ At(e, i) \in AtWork /\ s \notin AtWork /\ (s = "SAVED" \/ i \in Questions)
      /\ i \in Typos => i = Checking(e) /\ typo[e] \in 1..NumTypos /\ i[2] = typo[e]
  <2>1. At(e, i) \in AtWork /\ s \notin AtWork /\ (s = "SAVED" \/ i \in Questions)
    BY <1>3, <1>4 DEF AtWork
  <2> QED BY <1>2, <2>1, ItemKinds DEF TypoInv, Checking
<1>7. TypeOK'
  <2>1. typo' \in [Runs -> 0..(NumTypos + 1)]
    BY <1>1, <1>6, Numbers DEF RunIInv, TypeOK
  <2>2. work' \in [Runs -> [Items -> ItemStates]]
    BY <1>1 DEF RunIInv, TypeOK, ItemStates
  <2> QED BY <1>1, <2>1, <2>2 DEF RunIInv, TypeOK
<1>8. typo'[e] = IF i \in Typos THEN typo[e] + 1 ELSE typo[e]
  BY <1>1 DEF RunIInv, TypeOK
<1>9. BranchesInv(e)'
  BY <1>1, <1>2, <1>3, <1>5, <1>6 DEF BranchesInv, Alive
<1>10. SettingInv(e)'
  BY <1>1, <1>2, <1>3, <1>5, <1>6, ItemKinds DEF SettingInv, Planned, AtWork
<1>11. TypoInv(e)'
  <2>1. CASE i \in Typos
    <3>1. ASSUME NEW j \in Typos PROVE At(e, j)' \notin AtWork
      <4>1. At(e, j) \in AtWork => j = i
        BY <1>2, <1>6, <2>1 DEF TypoInv
      <4>2. j \in Items
        BY ItemKinds
      <4> QED BY <1>5, <1>6, <4>1, <4>2
    <3>2. ASSUME slip[e] = "CLEAN", NEW t \in 1..NumTypos, t < typo[e] + 1
          PROVE  At(e, <<"TYPO", t>>)' = "SAVED"
      <4>1. <<"TYPO", t>> \in Items /\ typo[e] \in Nat
        BY <1>6, <2>1, ItemKinds, Numbers
      <4>2. CASE t < typo[e]
        <5>1. At(e, <<"TYPO", t>>) = "SAVED"
          BY <1>2, <3>2, <4>2 DEF TypoInv
        <5> QED BY <1>5, <1>6, <4>1, <5>1 DEF AtWork
      <4>3. CASE t = typo[e]
        <5>1. <<"TYPO", t>> = i
          BY <1>6, <2>1, <4>3 DEF Checking
        <5>2. s = "SAVED"
          BY <1>6, <2>1, ItemKinds
        <5> QED BY <1>3, <1>5, <5>1, <5>2
      <4> QED BY <3>2, <4>1, <4>2, <4>3
    <3> QED BY <1>1, <1>8, <2>1, <3>1, <3>2 DEF TypoInv
  <2>2. CASE i \notin Typos
    <3>1. typo'[e] = typo[e] /\ slip'[e] = slip[e]
      BY <1>1, <1>8, <2>2
    <3>2. \A j \in Typos : At(e, j)' = At(e, j)
      BY <1>5, <2>2, ItemKinds
    <3>3. Checking(e)' = Checking(e)
      BY <3>1 DEF Checking
    <3> QED BY <1>2, <3>1, <3>2, <3>3, ItemKinds DEF TypoInv
  <2> QED BY <2>1, <2>2
<1>12. ResultInv(e)'
  <2>1. /\ i \in Typos => result[e]["TYPO"] = "NONE"
        /\ i \notin Typos => result[e]["SETTING"] = "NONE"
    BY <1>2, <1>3, <1>6, ItemKinds DEF ResultInv
  <2>2. /\ result[e]["SETTING"] # "NONE" => \A j \in Items \ Typos : At(e, j)' = At(e, j)
        /\ result[e]["TYPO"] # "NONE" => \A j \in Typos : At(e, j)' = At(e, j)
        /\ result'[e] = result[e]
    BY <1>1, <1>5, <2>1, ItemKinds
  <2> QED BY <1>2, <2>2, ItemKinds DEF ResultInv, Planned
<1>13. LocalInv'
  <2>1. \A d \in Runs \ {e} : work'[d] = work[d] /\ typo'[d] = typo[d]
    BY <1>1, <1>2 DEF RunIInv, TypeOK
  <2> QED BY <1>1, <1>2, <1>9, <1>10, <1>11, <1>12, <2>1, OthersKept
<1>14. WireInv'
  <2>1. ASSUME NEW b \in answers', b[1][2] # "COMPLETE"
        PROVE  /\ b[1] \notin sent
               /\ At(b[1][1], b[1][3])' = IF b[1][2] = "SAVE" THEN "PUBLISHING" ELSE "FAILING"
               /\ b[1][2] = "SAVE" /\ b[2] => b[1][3] \in stored
    <3>1. /\ b[1] \notin sent
          /\ At(b[1][1], b[1][3]) = IF b[1][2] = "SAVE" THEN "PUBLISHING" ELSE "FAILING"
          /\ b[1][2] = "SAVE" /\ b[2] => b[1][3] \in stored
      BY <1>1, <2>1 DEF RunIInv, WireInv
    <3>2. /\ b[1] = <<b[1][1], b[1][2], b[1][3]>> /\ b[1][2] \in {"SAVE", "FAIL"}
          /\ b[1][1] \in Runs /\ b[1][3] \in Items
      BY <1>1, <1>2, <2>1, Numbers, RequestFields, ItemKinds
    <3>3. ~(b[1][1] = e /\ b[1][3] = i)
      BY <1>1, <1>3, <1>4, <3>1, <3>2
    <3> QED BY <1>5, <3>1, <3>2, <3>3
  <2> QED BY <1>1, <2>1 DEF RunIInv, WireInv
<1>15. JobInv' /\ HolderInv'
  BY <1>1 DEF RunIInv, JobInv, HolderInv, Says
<1>16. KnowsInv'
  <2> SUFFICES ASSUME NEW d \in Runs, holder = d,
                      run[d] \in {"RUNNING", "COMPLETING", "STOPPING"}, NEW j \in Items
               PROVE  ItemInv(d, j)'
    BY <1>1 DEF KnowsInv
  <2>1. ItemInv(d, j)
    BY DEF RunIInv, KnowsInv
  <2>2. CASE d = e /\ j = i
    <3>1. m[2] = "FAIL" => i \notin stored
      BY <1>4, <2>2 DEF RunIInv, JobInv
    <3> QED BY <1>1, <1>3, <1>4, <1>5, <2>1, <2>2, <3>1 DEF ItemInv
  <2>3. CASE ~(d = e /\ j = i)
    BY <1>1, <1>5, <2>1, <2>3 DEF ItemInv
  <2> QED BY <2>2, <2>3
<1> QED BY <1>7, <1>13, <1>14, <1>15, <1>16 DEF RunIInv

-----------------------------------------------------------------------------
\* Steps that send nothing

\* An execution that sends nothing, that learns nothing of Spring and that begins
\* only items whose turn has come, keeps what is known of its items.
LEMMA QuietKeeps ==
  ASSUME RunIInv, NEW e \in Runs, UNCHANGED <<spring>>, TypeOK', LocalInv',
         sent' \subseteq sent, answers' \subseteq answers,
         \A d \in Runs \ {e} : run'[d] = run[d] /\ work'[d] = work[d],
         run[e] = "IDLE" => run'[e] = "IDLE",
         run[e] \notin {"IDLE", "LOADING"} => run'[e] \notin {"IDLE", "LOADING"},
         run'[e] \in {"RUNNING", "COMPLETING"} => run'[e] = run[e],
         run'[e] = "STOPPING" => run[e] \in {"RUNNING", "COMPLETING", "STOPPING"},
         \/ run'[e] = "ENDED" /\ \A a \in answers' : a[1][1] # e
         \/ \A i \in Items : \/ At(e, i)' = At(e, i)
                             \/ At(e, i) = "IDLE" /\ At(e, i)' = "CALLING"
  PROVE  RunIInv'
<1>1. UNCHANGED <<holder, claims, stored, left, report>>
  BY DEF spring
<1>2. WireInv'
  <2>1. ASSUME NEW m \in sent'
        PROVE  /\ m[1] <= claims /\ run'[m[1]] \notin {"IDLE", "LOADING"}
               /\ m[2] = "COMPLETE" => run'[m[1]] # "RUNNING"
    <3>1. /\ m[1] <= claims /\ run[m[1]] \notin {"IDLE", "LOADING"}
          /\ m[2] = "COMPLETE" => run[m[1]] # "RUNNING"
          /\ m[1] \in Runs
      BY RequestFields DEF RunIInv, WireInv, TypeOK
    <3> QED BY <3>1
  <2>2. ASSUME NEW a \in answers', a[1][2] # "COMPLETE"
        PROVE  /\ a[1] \notin sent'
               /\ At(a[1][1], a[1][3])' = IF a[1][2] = "SAVE" THEN "PUBLISHING" ELSE "FAILING"
               /\ a[1][2] = "SAVE" /\ a[2] => a[1][3] \in stored
    <3>1. /\ a[1] \notin sent
          /\ At(a[1][1], a[1][3]) = IF a[1][2] = "SAVE" THEN "PUBLISHING" ELSE "FAILING"
          /\ a[1][2] = "SAVE" /\ a[2] => a[1][3] \in stored
      BY <2>2 DEF RunIInv, WireInv
    <3>2. a[1][1] \in Runs /\ a[1][3] \in Items
      BY <2>2, Numbers, RequestFields, ItemKinds DEF RunIInv, TypeOK
    <3>3. At(a[1][1], a[1][3])' = At(a[1][1], a[1][3])
      BY <3>1, <3>2 DEF At
    <3> QED BY <3>1, <3>3
  <2> QED BY <1>1, <2>1, <2>2 DEF WireInv
<1>3. JobInv'
  BY <1>1 DEF RunIInv, JobInv, Says
<1>4. HolderInv'
  BY <1>1 DEF RunIInv, HolderInv, Says
<1>5. KnowsInv'
  <2> SUFFICES ASSUME NEW d \in Runs, holder = d,
                      run'[d] \in {"RUNNING", "COMPLETING", "STOPPING"}, NEW j \in Items
               PROVE  ItemInv(d, j)'
    BY <1>1 DEF KnowsInv
  <2>1. ItemInv(d, j)
    BY DEF RunIInv, KnowsInv
  <2>2. At(d, j)' = At(d, j) \/ (At(d, j) = "IDLE" /\ At(d, j)' = "CALLING")
    BY DEF At
  <2> QED BY <1>1, <2>1, <2>2 DEF ItemInv
<1> QED BY <1>2, <1>3, <1>4, <1>5 DEF RunIInv

\* The SETTING branch goes from stage to stage, or ends.
LEMMA SettingKeeps ==
  ASSUME RunIInv, NEW e \in Runs,
         \/ ReadInput(e) \/ StartJudging(e) \/ StartJudge(e) \/ JudgingEnds(e)
         \/ \E code \in {"FAILED", "STOP"} : ReadFails(e, code)
         \/ PlanEnds(e) /\ ~Planned(e)
  PROVE  RunIInv'
<1>0. /\ BranchesInv(e) /\ SettingInv(e) /\ TypoInv(e) /\ ResultInv(e) /\ LocalInv
      /\ Waiting(e, "SETTING") /\ result[e]["SETTING"] = "NONE"
      /\ UNCHANGED <<holder, claims, stored, left, report, sent, answers, run, gate, typo,
                     halt, slip, failure>>
  BY DEF RunIInv, LocalInv, ReadInput, StartJudging, StartJudge, JudgingEnds, ReadFails, PlanEnds,
         Waiting, Ends, Does, spring, wire
<1>1. ASSUME \/ UNCHANGED result
             \/ \E r \in {"STOP"} \union Codes : Ends(e, "SETTING", r),
             setting' \in [Runs -> {"INPUT", "PLANNING", "JUDGING"}],
             work' \in [Runs -> [Items -> ItemStates]],
             \A d \in Runs \ {e} : setting'[d] = setting[d] /\ work'[d] = work[d],
             \A i \in Items : \/ At(e, i)' = At(e, i)
                              \/ i \notin Typos /\ At(e, i) = "IDLE" /\ At(e, i)' = "CALLING",
             SettingInv(e)', ResultInv(e)'
      PROVE  RunIInv'
  <2>1. /\ result' \in [Runs -> [Branches -> {"NONE", "STOP"} \union Codes]]
        /\ \A d \in Runs \ {e} : result'[d] = result[d]
    <3>1. result \in [Runs -> [Branches -> {"NONE", "STOP"} \union Codes]]
      BY DEF RunIInv, TypeOK
    <3>2. ASSUME NEW r \in {"STOP"} \union Codes, Ends(e, "SETTING", r)
          PROVE  /\ result' \in [Runs -> [Branches -> {"NONE", "STOP"} \union Codes]]
                 /\ \A d \in Runs \ {e} : result'[d] = result[d]
      BY <3>1, <3>2 DEF Ends
    <3>3. CASE UNCHANGED result
      BY <3>1, <3>3
    <3> QED BY <1>1, <3>2, <3>3
  <2>2. TypeOK'
    BY <1>0, <1>1, <2>1 DEF RunIInv, TypeOK
  <2>3. BranchesInv(e)'
    <3>1. run[e] \notin {"IDLE", "LOADING", "ENDED", "COMPLETING"}
      BY <1>0 DEF Waiting, Alive, BranchesInv, Branches
    <3> QED BY <1>0, <1>1, <3>1 DEF BranchesInv
  <2>4. TypoInv(e)'
    <3>1. Checking(e)' = Checking(e) /\ typo'[e] = typo[e] /\ slip'[e] = slip[e]
      BY <1>0 DEF Checking
    <3>2. \A i \in Typos : At(e, i)' = At(e, i)
      BY <1>1, ItemKinds
    <3> QED BY <1>0, <3>1, <3>2, ItemKinds DEF TypoInv
  <2>5. LocalInv'
    BY <1>0, <1>1, <2>1, <2>3, <2>4, OthersKept
  <2>6. \A d \in Runs \ {e} : run'[d] = run[d] /\ work'[d] = work[d]
    BY <1>0, <1>1
  <2>7. UNCHANGED <<spring>> /\ sent' \subseteq sent /\ answers' \subseteq answers /\ run'[e] = run[e]
    BY <1>0 DEF spring
  <2>8. run[e] \in {"RUNNING", "COMPLETING"}
    BY <1>0 DEF Waiting, Alive
  <2> QED BY <1>1, <2>2, <2>5, <2>6, <2>7, <2>8, QuietKeeps
<1>2. CASE ReadInput(e)
  <2>1. /\ setting[e] = "INPUT" /\ setting' = [setting EXCEPT ![e] = "PLANNING"] /\ result' = result
        /\ work' = [work EXCEPT ![e] =
             [i \in Items |-> IF i \in Segments /\ @[i] = "IDLE" THEN "CALLING" ELSE @[i]]]
    BY <1>2 DEF ReadInput
  <2>2. \A i \in Items : At(e, i)' = IF i \in Segments /\ At(e, i) = "IDLE" THEN "CALLING" ELSE At(e, i)
    BY <2>1 DEF At, RunIInv, TypeOK
  <2>3. /\ setting' \in [Runs -> {"INPUT", "PLANNING", "JUDGING"}] /\ setting'[e] = "PLANNING"
        /\ work' \in [Runs -> [Items -> ItemStates]]
        /\ \A d \in Runs \ {e} : setting'[d] = setting[d] /\ work'[d] = work[d]
    <3>1. work' \in [Runs -> [Items -> ItemStates]]
      BY <2>1 DEF RunIInv, TypeOK, ItemStates, AtWork
    <3> QED BY <2>1, <3>1 DEF RunIInv, TypeOK
  <2>4. SettingInv(e)'
    BY <1>0, <2>1, <2>2, <2>3, ItemKinds DEF SettingInv, Planned, AtWork
  <2>5. ResultInv(e)'
    BY <1>0, <2>1, <2>2, ItemKinds DEF ResultInv
  <2> QED BY <1>1, <2>1, <2>2, <2>3, <2>4, <2>5, ItemKinds
<1>3. CASE StartJudge(e)
  <2>1. PICK q \in 1..NumQuestions : /\ At(e, <<"DECIDE", q>>) = "IDLE"
                                     /\ work' = [work EXCEPT ![e][<<"DECIDE", q>>] = "CALLING"]
    BY <1>3 DEF StartJudge, Does
  <2> DEFINE i == <<"DECIDE", q>>
  <2>2. i \in Questions /\ i \in Items /\ setting[e] = "JUDGING" /\ setting' = setting /\ result' = result
    BY <1>3, ItemKinds DEF StartJudge, Questions
  <2>3. \A j \in Items : At(e, j)' = IF j = i THEN "CALLING" ELSE At(e, j)
    BY <2>1 DEF At, RunIInv, TypeOK
  <2>4. /\ setting' \in [Runs -> {"INPUT", "PLANNING", "JUDGING"}]
        /\ work' \in [Runs -> [Items -> ItemStates]]
        /\ \A d \in Runs \ {e} : setting'[d] = setting[d] /\ work'[d] = work[d]
    <3>1. work' \in [Runs -> [Items -> ItemStates]]
      BY <2>1 DEF RunIInv, TypeOK, ItemStates, AtWork
    <3> QED BY <2>1, <2>2, <3>1 DEF RunIInv, TypeOK
  <2> HIDE DEF i
  <2>5. At(e, i) = "IDLE"
    BY <2>1 DEF i
  <2>6. SettingInv(e)'
    BY <1>0, <2>2, <2>3, <2>5, ItemKinds DEF SettingInv, Planned
  <2>7. ResultInv(e)'
    BY <1>0, <2>2, <2>3, <2>5, ItemKinds DEF ResultInv
  <2> QED BY <1>1, <2>2, <2>3, <2>4, <2>5, <2>6, <2>7, ItemKinds
<1>4. ASSUME UNCHANGED work, setting' \in [Runs -> {"INPUT", "PLANNING", "JUDGING"}],
             \A d \in Runs \ {e} : setting'[d] = setting[d],
             setting'[e] # setting[e] => setting'[e] = "JUDGING" /\ setting[e] # "INPUT"
                                         /\ Planned(e) /\ At(e, Plan) = "SAVED",
             \/ UNCHANGED result
             \/ \E r \in {"STOP"} \union Codes :
                  /\ Ends(e, "SETTING", r)
                  /\ \A i \in Items \ Typos : At(e, i) \notin AtWork
                  /\ r \in {"CLEAN", "QUESTIONS"} =>
                       /\ setting[e] = "JUDGING" /\ \A q \in Questions : At(e, q) \in {"SAVED", "LEFT"}
                       /\ r = "CLEAN" <=> \A q \in Questions : At(e, q) = "SAVED"
      PROVE  RunIInv'
  <2>1. \A i \in Items : At(e, i)' = At(e, i)
    BY <1>4 DEF At
  <2>2. SettingInv(e)'
    BY <1>0, <1>4, <2>1, ItemKinds DEF SettingInv, Planned, AtWork, RunIInv, TypeOK
  <2>3. ResultInv(e)'
    <3>1. CASE UNCHANGED result
      BY <1>0, <2>1, <3>1, ItemKinds DEF ResultInv
    <3>2. CASE ~UNCHANGED result
      <4>1. PICK r \in {"STOP"} \union Codes :
                  /\ Ends(e, "SETTING", r)
                  /\ \A i \in Items \ Typos : At(e, i) \notin AtWork
                  /\ r \in {"CLEAN", "QUESTIONS"} =>
                       /\ setting[e] = "JUDGING" /\ \A q \in Questions : At(e, q) \in {"SAVED", "LEFT"}
                       /\ r = "CLEAN" <=> \A q \in Questions : At(e, q) = "SAVED"
        BY <1>4, <3>2
      <4>2. result'[e]["SETTING"] = r /\ result'[e]["TYPO"] = result[e]["TYPO"]
        BY <4>1 DEF Ends, RunIInv, TypeOK, Branches
      <4> QED BY <1>0, <2>1, <4>1, <4>2, ItemKinds DEF ResultInv, SettingInv, Planned
    <3> QED BY <3>1, <3>2
  <2>4. work' \in [Runs -> [Items -> ItemStates]]
    BY <1>4 DEF RunIInv, TypeOK
  <2> QED BY <1>1, <1>4, <2>1, <2>2, <2>3, <2>4
<1>5. CASE StartJudging(e)
  <2>1. /\ setting[e] = "PLANNING" /\ Planned(e) /\ At(e, Plan) = "SAVED"
        /\ setting' = [setting EXCEPT ![e] = "JUDGING"] /\ UNCHANGED <<work, result>>
    BY <1>5 DEF StartJudging
  <2>2. setting' \in [Runs -> {"INPUT", "PLANNING", "JUDGING"}]
        /\ \A d \in Runs \ {e} : setting'[d] = setting[d]
    BY <2>1 DEF RunIInv, TypeOK
  <2> QED BY <1>4, <2>1, <2>2
<1>6. CASE JudgingEnds(e)
  <2>1. /\ setting[e] = "JUDGING" /\ Judged(e) /\ Ends(e, "SETTING", JudgedCode(e))
        /\ UNCHANGED <<setting, work>>
    BY <1>6 DEF JudgingEnds
  <2>2. \A q \in Questions : At(e, q) \notin AtWork
    BY <2>1 DEF Judged, Judging
  <2>3. \A i \in Items \ Typos : At(e, i) \notin AtWork
    BY <1>0, <2>1, <2>2, ItemKinds DEF SettingInv, Planned, AtWork
  <2>4. halt[e] = "NONE" => \A q \in Questions : At(e, q) \in {"SAVED", "LEFT"}
    <3>1. \A q \in Questions : At(e, q) \in ItemStates
      BY ItemKinds DEF RunIInv, TypeOK, At
    <3> QED BY <1>0, <2>1, <2>2, <3>1 DEF Judged, SettingInv, ItemStates
  <2>5. /\ JudgedCode(e) \in {"STOP"} \union Codes
        /\ JudgedCode(e) \in {"CLEAN", "QUESTIONS"} =>
             /\ \A q \in Questions : At(e, q) \in {"SAVED", "LEFT"}
             /\ JudgedCode(e) = "CLEAN" <=> \A q \in Questions : At(e, q) = "SAVED"
    <3>1. halt[e] \in {"NONE", "FAILED", "STOP"}
      BY DEF RunIInv, TypeOK
    <3>2. CASE halt[e] # "NONE"
      BY <3>1, <3>2 DEF JudgedCode, Codes
    <3>3. CASE halt[e] = "NONE" /\ \E q \in Questions : At(e, q) = "LEFT"
      BY <2>4, <3>3 DEF JudgedCode, Codes
    <3>4. CASE halt[e] = "NONE" /\ ~\E q \in Questions : At(e, q) = "LEFT"
      BY <2>4, <3>4 DEF JudgedCode, Codes
    <3> QED BY <3>2, <3>3, <3>4
  <2>6. setting' \in [Runs -> {"INPUT", "PLANNING", "JUDGING"}]
    BY <2>1 DEF RunIInv, TypeOK
  <2> QED BY <1>4, <2>1, <2>3, <2>5, <2>6
<1>7. ASSUME NEW code \in {"FAILED", "STOP"}, ReadFails(e, code) PROVE RunIInv'
  <2>1. /\ \/ setting[e] = "INPUT"
           \/ setting[e] = "PLANNING" /\ Planned(e) /\ At(e, Plan) \in {"IDLE", "SAVED"}
        /\ Ends(e, "SETTING", Code(e, code)) /\ Code(e, code) \in {"FAILED", "STOP"}
        /\ UNCHANGED <<setting, work>>
    <3>1. Code(e, code) \in {"FAILED", "STOP"}
      BY DEF Code
    <3> QED BY <1>7, <3>1 DEF ReadFails
  <2>2. \A i \in Items \ Typos : At(e, i) \notin AtWork
    <3>1. ASSUME NEW q \in Questions PROVE At(e, q) \in {"IDLE", "SAVED"}
      BY <1>0, <2>1 DEF SettingInv
    <3>2. ASSUME NEW i \in Segments PROVE At(e, i) \in {"IDLE", "SAVED"}
      BY <1>0, <2>1 DEF SettingInv, Planned
    <3>3. At(e, Plan) \notin AtWork
      BY <1>0, <2>1 DEF SettingInv, AtWork
    <3> QED BY <3>1, <3>2, <3>3, ItemKinds DEF AtWork
  <2>3. setting' \in [Runs -> {"INPUT", "PLANNING", "JUDGING"}]
    BY <2>1 DEF RunIInv, TypeOK
  <2> QED BY <1>4, <2>1, <2>2, <2>3 DEF Codes
<1>8. CASE PlanEnds(e) /\ ~Planned(e)
  <2> DEFINE first == CHOOSE n \in 1..NumSegments :
                /\ At(e, <<"PLANNER", n>>) # "SAVED"
                /\ \A k \in 1..(n - 1) : At(e, <<"PLANNER", k>>) = "SAVED"
             code == At(e, <<"PLANNER", first>>)
  <2>1. /\ setting[e] = "PLANNING" /\ At(e, Plan) = "IDLE"
        /\ \A s \in Segments : At(e, s) \notin AtWork
        /\ Ends(e, "SETTING", code) /\ UNCHANGED <<setting, work>>
    BY <1>8 DEF PlanEnds
  <2>2. /\ \E n \in 1..NumSegments : /\ At(e, <<"PLANNER", n>>) # "SAVED"
                                     /\ \A k \in 1..(n - 1) : At(e, <<"PLANNER", k>>) = "SAVED"
    <3> DEFINE S == {n \in 1..NumSegments : At(e, <<"PLANNER", n>>) # "SAVED"}
    <3>1. S # {} /\ S \in SUBSET Nat
      <4>1. PICK s \in Segments : At(e, s) # "SAVED"
        BY <1>8 DEF Planned
      <4>2. PICK n \in 1..NumSegments : s = <<"PLANNER", n>>
        BY DEF Segments
      <4> QED BY <4>1, <4>2
    <3>2. PICK n \in S : \A k \in S : ~(k < n)
      <4> HIDE DEF S
      <4> QED BY <3>1, Smallest
    <3>3. ASSUME NEW k \in 1..(n - 1) PROVE At(e, <<"PLANNER", k>>) = "SAVED"
      <4>1. n \in 1..NumSegments /\ k \in 1..NumSegments /\ k < n
        BY <3>2, SizesAssumption
      <4> QED BY <3>2, <4>1
    <3> QED BY <3>2, <3>3
  <2>3. first \in 1..NumSegments /\ code # "SAVED"
    BY <2>2
  <2> HIDE DEF first
  <2>4. <<"PLANNER", first>> \in Segments
    BY <2>3 DEF Segments
  <2>5. code \in {"FAILED", "STOP"}
    <3>1. code \in ItemStates
      BY <2>4, ItemKinds DEF RunIInv, TypeOK, At
    <3>2. code # "IDLE" /\ code \notin AtWork /\ code # "LEFT"
      BY <1>0, <2>1, <2>4, ItemKinds DEF SettingInv, BranchesInv
    <3> QED BY <2>3, <3>1, <3>2 DEF ItemStates
  <2>6. \A i \in Items \ Typos : At(e, i) \notin AtWork
    BY <1>0, <2>1, ItemKinds DEF SettingInv, AtWork
  <2>7. setting' \in [Runs -> {"INPUT", "PLANNING", "JUDGING"}]
    BY <2>1 DEF RunIInv, TypeOK
  <2> HIDE DEF code
  <2> QED BY <1>4, <2>1, <2>5, <2>6, <2>7 DEF Codes
<1> QED BY <1>2, <1>3, <1>5, <1>6, <1>7, <1>8

\* The TYPO branch goes from segment to segment, or ends.
LEMMA TypoKeeps ==
  ASSUME RunIInv, NEW e \in Runs,
         \/ ReadTypoInput(e) \/ TypoEnds(e)
         \/ \E last \in BOOLEAN : TypoFails(e, last)
         \/ \E code \in {"FAILED", "STOP"} : TypoReadFails(e, code)
         \/ CheckTypos(e) /\ At(e, Checking(e)) = "SAVED"
  PROVE  RunIInv'
<1>0. /\ BranchesInv(e) /\ SettingInv(e) /\ TypoInv(e) /\ ResultInv(e) /\ LocalInv
      /\ Waiting(e, "TYPO") /\ result[e]["TYPO"] = "NONE"
      /\ UNCHANGED <<holder, claims, stored, left, report, sent, answers, run, gate, setting, work,
                     halt, failure>>
  BY DEF RunIInv, LocalInv, ReadTypoInput, TypoEnds, TypoFails, TypoReadFails, CheckTypos,
         Waiting, Ends, spring, wire
<1>1. /\ typo[e] \in 0..(NumTypos + 1) /\ slip[e] \in {"CLEAN", "FAILED", "STOP"}
      /\ typo \in [Runs -> 0..(NumTypos + 1)] /\ slip \in [Runs -> {"CLEAN", "FAILED", "STOP"}]
      /\ result \in [Runs -> [Branches -> {"NONE", "STOP"} \union Codes]]
  BY DEF RunIInv, TypeOK
<1>2. ASSUME typo' \in [Runs -> 0..(NumTypos + 1)], slip' \in [Runs -> {"CLEAN", "FAILED", "STOP"}],
             result' \in [Runs -> [Branches -> {"NONE", "STOP"} \union Codes]],
             \A d \in Runs \ {e} : typo'[d] = typo[d] /\ slip'[d] = slip[d] /\ result'[d] = result[d],
             result'[e]["SETTING"] = result[e]["SETTING"],
             result'[e]["TYPO"] # "NONE" =>
               /\ \A i \in Typos : At(e, i) \notin AtWork
               /\ result'[e]["TYPO"] # "QUESTIONS"
               /\ result'[e]["TYPO"] = "CLEAN" => slip[e] = "CLEAN" /\ typo[e] = NumTypos + 1,
             typo'[e] # typo[e] => \A i \in Typos : At(e, i) \notin AtWork,
             slip'[e] = "CLEAN" =>
               slip[e] = "CLEAN" /\ \/ typo'[e] = typo[e] \/ (typo[e] = 0 /\ typo'[e] = 1)
                                    \/ At(e, Checking(e)) = "SAVED" /\ typo'[e] = typo[e] + 1
      PROVE  RunIInv'
  <2>1. \A i \in Items : At(e, i)' = At(e, i)
    BY <1>0 DEF At
  <2>2. TypeOK'
    BY <1>0, <1>2 DEF RunIInv, TypeOK
  <2>3. BranchesInv(e)'
    <3>1. run[e] \notin {"IDLE", "LOADING", "ENDED", "COMPLETING"}
      BY <1>0 DEF Waiting, Alive, BranchesInv, Branches
    <3> QED BY <1>0, <2>1, <3>1 DEF BranchesInv
  <2>4. SettingInv(e)'
    BY <1>0, <2>1, ItemKinds DEF SettingInv, Planned
  <2>5. TypoInv(e)'
    <3>1. \A i \in Typos : At(e, i)' \in AtWork => i = Checking(e)'
      <4>1. CASE typo'[e] = typo[e]
        <5>1. Checking(e)' = Checking(e)
          BY <4>1 DEF Checking
        <5> QED BY <1>0, <2>1, <5>1, ItemKinds DEF TypoInv
      <4>2. CASE typo'[e] # typo[e]
        BY <1>2, <2>1, <4>2, ItemKinds
      <4> QED BY <4>1, <4>2
    <3>2. ASSUME slip'[e] = "CLEAN", NEW t \in 1..NumTypos, t < typo'[e]
          PROVE  At(e, <<"TYPO", t>>)' = "SAVED"
      <4>1. At(e, <<"TYPO", t>>)' = At(e, <<"TYPO", t>>)
        BY <2>1, ItemKinds
      <4>2. CASE t < typo[e]
        BY <1>0, <1>2, <3>2, <4>1, <4>2 DEF TypoInv
      <4>3. CASE ~(t < typo[e])
        <5>1. t = typo[e] /\ At(e, Checking(e)) = "SAVED"
          BY <1>1, <1>2, <3>2, <4>3, Numbers
        <5> QED BY <4>1, <5>1 DEF Checking
      <4> QED BY <4>2, <4>3
    <3> QED BY <3>1, <3>2 DEF TypoInv
  <2>6. ResultInv(e)'
    <3>1. /\ \A i \in Items : At(e, i)' = At(e, i)
          /\ Planned(e)' = Planned(e)
      BY <2>1, ItemKinds DEF Planned
    <3>2. result'[e]["TYPO"] = "CLEAN" => \A i \in Typos : At(e, i) = "SAVED"
      <4> SUFFICES ASSUME result'[e]["TYPO"] = "CLEAN", NEW i \in Typos PROVE At(e, i) = "SAVED"
        OBVIOUS
      <4>1. slip[e] = "CLEAN" /\ typo[e] = NumTypos + 1
        BY <1>2
      <4>2. i[2] \in 1..NumTypos /\ i = <<"TYPO", i[2]>>
        BY ItemKinds
      <4>3. i[2] < typo[e]
        BY <4>1, <4>2, Numbers
      <4> QED BY <1>0, <4>1, <4>2, <4>3 DEF TypoInv
    <3> QED BY <1>0, <1>2, <3>1, <3>2, ItemKinds DEF ResultInv
  <2>7. LocalInv'
    BY <1>0, <1>2, <2>3, <2>4, <2>5, <2>6, OthersKept
  <2>8. run[e] \in {"RUNNING", "COMPLETING"} /\ UNCHANGED <<spring>>
    BY <1>0 DEF Waiting, Alive, spring
  <2> QED BY <1>0, <2>1, <2>2, <2>7, <2>8, QuietKeeps
<1>3. ASSUME \/ typo[e] = 0 \/ typo[e] = NumTypos + 1
             \/ At(e, Checking(e)) \notin AtWork
      PROVE  \A i \in Typos : At(e, i) \notin AtWork
  <2> SUFFICES ASSUME NEW i \in Typos, At(e, i) \in AtWork PROVE FALSE
    OBVIOUS
  <2>1. i = Checking(e) /\ i = <<"TYPO", i[2]>> /\ i[2] \in 1..NumTypos
    BY <1>0, ItemKinds DEF TypoInv
  <2>2. i[2] = typo[e]
    BY <2>1 DEF Checking
  <2> QED BY <1>3, <2>1, <2>2, Numbers
<1>4. CASE ReadTypoInput(e)
  <2>1. typo[e] = 0 /\ typo' = [typo EXCEPT ![e] = 1] /\ UNCHANGED <<slip, result>>
    BY <1>4 DEF ReadTypoInput
  <2>2. \A i \in Typos : At(e, i) \notin AtWork
    BY <1>3, <2>1
  <2>3. 1 \in 0..(NumTypos + 1) /\ typo'[e] = 1
    BY <1>1, <2>1, Numbers
  <2>4. typo' \in [Runs -> 0..(NumTypos + 1)] /\ \A d \in Runs \ {e} : typo'[d] = typo[d]
    BY <1>1, <2>1, <2>3
  <2> QED BY <1>0, <1>1, <1>2, <2>1, <2>2, <2>3, <2>4
<1>5. CASE CheckTypos(e) /\ At(e, Checking(e)) = "SAVED"
  <2>1. typo[e] \in 1..NumTypos /\ typo' = [typo EXCEPT ![e] = @ + 1] /\ UNCHANGED <<slip, result>>
    BY <1>5 DEF CheckTypos
  <2>2. \A i \in Typos : At(e, i) \notin AtWork
    BY <1>3, <1>5 DEF AtWork
  <2>3. typo[e] + 1 \in 0..(NumTypos + 1) /\ typo'[e] = typo[e] + 1
    BY <1>1, <2>1, Numbers
  <2>4. typo' \in [Runs -> 0..(NumTypos + 1)] /\ \A d \in Runs \ {e} : typo'[d] = typo[d]
    BY <1>1, <2>1, <2>3
  <2> QED BY <1>0, <1>1, <1>2, <1>5, <2>1, <2>2, <2>3, <2>4
<1>6. ASSUME NEW last \in BOOLEAN, TypoFails(e, last) PROVE RunIInv'
  <2>1. /\ typo[e] \in 1..NumTypos /\ At(e, Checking(e)) \in {"IDLE", "SAVED"}
        /\ slip' = [slip EXCEPT ![e] = IF @ = "CLEAN" THEN Code(e, "FAILED") ELSE @]
        /\ typo' = [typo EXCEPT ![e] = IF last THEN NumTypos + 1 ELSE @ + 1]
        /\ UNCHANGED result
    BY <1>6 DEF TypoFails
  <2>2. \A i \in Typos : At(e, i) \notin AtWork
    BY <1>3, <2>1 DEF AtWork
  <2>3. Code(e, "FAILED") \in {"FAILED", "STOP"}
    BY DEF Code
  <2>4. /\ slip' \in [Runs -> {"CLEAN", "FAILED", "STOP"}] /\ slip'[e] # "CLEAN"
        /\ \A d \in Runs \ {e} : slip'[d] = slip[d]
    BY <1>1, <2>1, <2>3
  <2>5. typo[e] + 1 \in 0..(NumTypos + 1) /\ NumTypos + 1 \in 0..(NumTypos + 1)
    BY <2>1, Numbers
  <2>6. typo' \in [Runs -> 0..(NumTypos + 1)] /\ \A d \in Runs \ {e} : typo'[d] = typo[d]
    BY <1>1, <2>1, <2>5
  <2> QED BY <1>0, <1>1, <1>2, <2>1, <2>2, <2>4, <2>6
<1>7. ASSUME NEW r \in {"FAILED", "STOP", "CLEAN"}, Ends(e, "TYPO", r), UNCHANGED <<typo, slip>>,
             \A i \in Typos : At(e, i) \notin AtWork,
             r = "CLEAN" => slip[e] = "CLEAN" /\ typo[e] = NumTypos + 1
      PROVE  RunIInv'
  <2>1. /\ result' \in [Runs -> [Branches -> {"NONE", "STOP"} \union Codes]]
        /\ \A d \in Runs \ {e} : result'[d] = result[d]
        /\ result'[e]["SETTING"] = result[e]["SETTING"] /\ result'[e]["TYPO"] = r
    BY <1>1, <1>7 DEF Ends, Codes, Branches
  <2>2. /\ typo' \in [Runs -> 0..(NumTypos + 1)] /\ slip' \in [Runs -> {"CLEAN", "FAILED", "STOP"}]
        /\ typo'[e] = typo[e] /\ slip'[e] = slip[e] /\ r # "QUESTIONS"
        /\ \A d \in Runs \ {e} : typo'[d] = typo[d] /\ slip'[d] = slip[d]
    BY <1>1, <1>7
  <2>3. result'[e]["TYPO"] # "NONE" =>
          /\ \A i \in Typos : At(e, i) \notin AtWork
          /\ result'[e]["TYPO"] # "QUESTIONS"
          /\ result'[e]["TYPO"] = "CLEAN" => slip[e] = "CLEAN" /\ typo[e] = NumTypos + 1
    BY <1>7, <2>1, <2>2
  <2>4. \A d \in Runs \ {e} : typo'[d] = typo[d] /\ slip'[d] = slip[d] /\ result'[d] = result[d]
    BY <2>1, <2>2
  <2>5. typo'[e] # typo[e] => \A i \in Typos : At(e, i) \notin AtWork
    BY <2>2
  <2>6. slip'[e] = "CLEAN" =>
               slip[e] = "CLEAN" /\ \/ typo'[e] = typo[e] \/ (typo[e] = 0 /\ typo'[e] = 1)
                                    \/ At(e, Checking(e)) = "SAVED" /\ typo'[e] = typo[e] + 1
    <3>1. slip'[e] = slip[e] /\ typo'[e] = typo[e]
      BY <2>2
    <3> QED BY ONLY <3>1
  <2> QED BY <1>2, <2>1, <2>2, <2>3, <2>4, <2>5, <2>6
<1>8. CASE TypoEnds(e)
  <2>1. typo[e] = NumTypos + 1 /\ Ends(e, "TYPO", slip[e]) /\ UNCHANGED <<typo, slip>>
    BY <1>8 DEF TypoEnds
  <2> QED BY <1>1, <1>3, <1>7, <2>1
<1>9. ASSUME NEW code \in {"FAILED", "STOP"}, TypoReadFails(e, code) PROVE RunIInv'
  <2>1. /\ typo[e] \in {0, NumTypos + 1} /\ Ends(e, "TYPO", Code(e, code)) /\ UNCHANGED <<typo, slip>>
    BY <1>9 DEF TypoReadFails
  <2>2. Code(e, code) \in {"FAILED", "STOP"}
    BY DEF Code
  <2> QED BY <1>3, <1>7, <2>1, <2>2
<1> QED BY <1>4, <1>5, <1>6, <1>8, <1>9

\* The execution comes to its end, or its gate is stopped: nothing but its state and
\* its answers change.
LEMMA StopKeeps ==
  ASSUME RunIInv, NEW e \in Runs,
         \/ HeartbeatFails(e) \/ LoadFails(e) \/ GateStops(e) \/ Finishes(e) \/ Cancelled(e)
         \/ BranchesEnd(e) /\ run'[e] # "COMPLETING"
         \/ LoadCheckpoint(e) /\ ~(holder = e /\ report = "OPEN")
  PROVE  RunIInv'
<1> run \in [Runs -> {"IDLE", "LOADING", "RUNNING", "COMPLETING", "STOPPING", "ENDED"}]
  BY DEF RunIInv, TypeOK
<1>1. /\ UNCHANGED <<holder, claims, stored, left, report, sent, setting, typo, work, halt, slip,
                     result, failure>>
      /\ answers' \subseteq answers
      /\ gate' = gate \/ gate' = [gate EXCEPT ![e] = FALSE]
      /\ \/ UNCHANGED run
         \/ run' = [run EXCEPT ![e] = "STOPPING"] /\ run[e] \in {"RUNNING", "COMPLETING"}
         \/ run' = [run EXCEPT ![e] = "ENDED"] /\ run[e] = "LOADING" /\ UNCHANGED gate
  <2>1. CASE HeartbeatFails(e)
    BY <2>1 DEF HeartbeatFails, spring, wire, local
  <2>2. CASE LoadFails(e)
    BY <2>2 DEF LoadFails, spring, wire, local
  <2>3. CASE GateStops(e)
    BY <2>3 DEF GateStops, Stops, spring, wire, local
  <2>4. CASE Finishes(e)
    BY <2>4 DEF Finishes, Stops, spring, local
  <2>5. CASE Cancelled(e)
    BY <2>5 DEF Cancelled, Stops, Alive, spring, local
  <2>6. CASE BranchesEnd(e) /\ run'[e] # "COMPLETING"
    BY <2>6 DEF BranchesEnd, Stops, spring
  <2>7. CASE LoadCheckpoint(e) /\ ~(holder = e /\ report = "OPEN")
    BY <2>7 DEF LoadCheckpoint, spring, wire
  <2> QED BY <2>1, <2>2, <2>3, <2>4, <2>5, <2>6, <2>7
<1>2. /\ run' \in [Runs -> {"IDLE", "LOADING", "RUNNING", "COMPLETING", "STOPPING", "ENDED"}]
      /\ \A d \in Runs \ {e} : run'[d] = run[d]
      /\ \/ run'[e] = run[e]
         \/ run'[e] = "STOPPING" /\ run[e] \in {"RUNNING", "COMPLETING"}
         \/ run'[e] = "ENDED" /\ run[e] = "LOADING"
  BY <1>1
<1>3. TypeOK'
  <2>1. gate' \in [Runs -> BOOLEAN]
    <3>1. gate \in [Runs -> BOOLEAN]
      BY DEF RunIInv, TypeOK
    <3> QED BY <1>1, <3>1
  <2> QED BY <1>1, <1>2, <2>1 DEF RunIInv, TypeOK
<1>4. LocalInv'
  <2>1. BranchesInv(e) /\ SettingInv(e) /\ TypoInv(e) /\ ResultInv(e) /\ LocalInv
    BY DEF RunIInv, LocalInv
  <2>2. \A i : At(e, i)' = At(e, i)
    BY <1>1 DEF At
  <2>3. BranchesInv(e)'
    BY <1>1, <1>2, <2>1, <2>2 DEF BranchesInv
  <2>4. SettingInv(e)' /\ TypoInv(e)' /\ ResultInv(e)'
    BY <1>1, <2>1 DEF SettingInv, TypoInv, ResultInv, Planned, At, Checking
  <2> QED BY <1>1, <1>2, <2>1, <2>3, <2>4, OthersKept
<1>5. \A i \in Items : At(e, i)' = At(e, i)
  BY <1>1 DEF At
<1> QED BY <1>1, <1>2, <1>3, <1>4, <1>5, QuietKeeps DEF spring

\* The branches are gone: nothing of them is left.
LEMMA GoneKeeps ==
  ASSUME RunIInv, NEW e \in Runs, run[e] # "IDLE", Gone(e)
  PROVE  RunIInv'
<1>1. /\ UNCHANGED <<holder, claims, stored, left, report>>
      /\ run' = [run EXCEPT ![e] = "ENDED"] /\ gate' = [gate EXCEPT ![e] = FALSE]
      /\ answers' = {a \in answers : a[1][1] # e} /\ sent' \subseteq sent
      /\ setting' = [setting EXCEPT ![e] = "INPUT"] /\ typo' = [typo EXCEPT ![e] = 0]
      /\ work' = [work EXCEPT ![e] = [i \in Items |-> "IDLE"]]
      /\ halt' = [halt EXCEPT ![e] = "NONE"] /\ slip' = [slip EXCEPT ![e] = "CLEAN"]
      /\ result' = [result EXCEPT ![e] = [b \in Branches |-> "NONE"]]
      /\ failure' = [failure EXCEPT ![e] = "CLEAN"]
  BY DEF Gone, spring
<1>2. TypeOK'
  <2>1. /\ [i \in Items |-> "IDLE"] \in [Items -> ItemStates]
        /\ [b \in Branches |-> "NONE"] \in [Branches -> {"NONE", "STOP"} \union Codes]
        /\ 0 \in 0..(NumTypos + 1) /\ "CLEAN" \in Codes
    BY Numbers DEF ItemStates, Codes
  <2>2. gate' \in [Runs -> BOOLEAN]
    <3>1. gate \in [Runs -> BOOLEAN]
      BY DEF RunIInv, TypeOK
    <3> QED BY <1>1, <3>1
  <2>3. /\ work' \in [Runs -> [Items -> ItemStates]]
        /\ result' \in [Runs -> [Branches -> {"NONE", "STOP"} \union Codes]]
    BY <1>1, <2>1 DEF RunIInv, TypeOK
  <2>4. /\ typo' \in [Runs -> 0..(NumTypos + 1)] /\ failure' \in [Runs -> Codes]
        /\ setting' \in [Runs -> {"INPUT", "PLANNING", "JUDGING"}]
        /\ halt' \in [Runs -> {"NONE", "FAILED", "STOP"}]
        /\ slip' \in [Runs -> {"CLEAN", "FAILED", "STOP"}]
        /\ run' \in [Runs -> {"IDLE", "LOADING", "RUNNING", "COMPLETING", "STOPPING", "ENDED"}]
    BY <1>1, <2>1 DEF RunIInv, TypeOK
  <2>5. /\ sent' \subseteq Requests /\ answers' \subseteq Requests \X BOOLEAN
    BY <1>1 DEF RunIInv, TypeOK
  <2> QED BY <1>1, <2>2, <2>3, <2>4, <2>5 DEF RunIInv, TypeOK
<1>3. /\ run'[e] = "ENDED" /\ setting'[e] = "INPUT" /\ typo'[e] = 0 /\ halt'[e] = "NONE"
      /\ slip'[e] = "CLEAN" /\ result'[e] = [b \in Branches |-> "NONE"]
      /\ \A i \in Items : At(e, i)' = "IDLE"
      /\ \A d \in Runs \ {e} :
           /\ run'[d] = run[d] /\ setting'[d] = setting[d] /\ typo'[d] = typo[d]
           /\ work'[d] = work[d] /\ halt'[d] = halt[d] /\ slip'[d] = slip[d]
           /\ result'[d] = result[d]
  BY <1>1 DEF RunIInv, TypeOK, At
<1>4. LocalInv'
  <2>1. BranchesInv(e)'
    BY <1>3 DEF BranchesInv
  <2>2. SettingInv(e)'
    BY <1>3, ItemKinds DEF SettingInv, AtWork
  <2>3. TypoInv(e)'
    BY <1>3, ItemKinds, Numbers DEF TypoInv, AtWork
  <2>4. ResultInv(e)'
    BY <1>3 DEF ResultInv, Branches
  <2>5. LocalInv
    BY DEF RunIInv
  <2> QED BY <1>3, <2>1, <2>2, <2>3, <2>4, <2>5, OthersKept
<1>5. answers' \subseteq answers /\ \A a \in answers' : a[1][1] # e
  BY <1>1
<1> QED BY <1>1, <1>2, <1>3, <1>4, <1>5, QuietKeeps DEF spring

\* The holder of the lease takes over what Spring has, before it has sent anything.
LEMMA LoadKeeps ==
  ASSUME RunIInv, NEW e \in Runs, LoadCheckpoint(e), holder = e, report = "OPEN"
  PROVE  RunIInv'
<1>1. /\ UNCHANGED <<holder, claims, stored, left, report, sent, answers, gate, setting, typo, halt,
                     slip, result, failure>>
      /\ run' = [run EXCEPT ![e] = "RUNNING"] /\ work' = [work EXCEPT ![e] = Loaded(e)]
      /\ run[e] = "LOADING"
  BY DEF LoadCheckpoint, spring, wire
<1>2. TypeOK'
  <2>1. Loaded(e) \in [Items -> ItemStates]
    BY DEF Loaded, ItemStates
  <2> QED BY <1>1, <2>1 DEF RunIInv, TypeOK
<1>3. /\ run'[e] = "RUNNING"
      /\ \A i \in Items : At(e, i)' = IF i \in stored THEN "SAVED" ELSE "IDLE"
      /\ \A d \in Runs \ {e} : run'[d] = run[d] /\ work'[d] = work[d]
  BY <1>1 DEF RunIInv, TypeOK, At, Loaded
<1>4. /\ BranchesInv(e) /\ SettingInv(e) /\ TypoInv(e) /\ ResultInv(e) /\ LocalInv
      /\ setting[e] = "INPUT" /\ typo[e] = 0 /\ \A i \in Items : At(e, i) = "IDLE"
  BY <1>1 DEF RunIInv, LocalInv, BranchesInv
<1>5. LocalInv'
  <2>1. BranchesInv(e)'
    BY <1>3 DEF BranchesInv
  <2>2. SettingInv(e)'
    BY <1>1, <1>3, <1>4, ItemKinds DEF SettingInv, AtWork
  <2>3. TypoInv(e)'
    BY <1>1, <1>3, <1>4, ItemKinds, Numbers DEF TypoInv, AtWork
  <2>4. ResultInv(e)'
    <3>1. result[e]["SETTING"] \notin {"CLEAN", "QUESTIONS"}
      BY <1>4, ItemKinds DEF ResultInv
    <3>2. result[e]["TYPO"] = "CLEAN" => Typos = {}
      BY <1>4, ItemKinds DEF ResultInv
    <3>3. \A i \in Items : At(e, i)' \notin AtWork
      BY <1>3 DEF AtWork
    <3> QED BY <1>1, <1>4, <3>1, <3>2, <3>3, ItemKinds DEF ResultInv
  <2> QED BY <1>1, <1>3, <1>4, <2>1, <2>2, <2>3, <2>4, OthersKept
<1>6. /\ \A m \in sent : m[1] # e /\ m[1] \in Runs
      /\ \A a \in answers : a[1][2] # "COMPLETE" => a[1][1] # e /\ a[1][1] \in Runs /\ a[1][3] \in Items
  <2>1. \A m \in sent : m[1] # e /\ m[1] \in Runs
    BY <1>1, RequestFields DEF RunIInv, WireInv, TypeOK
  <2>2. ASSUME NEW a \in answers, a[1][2] # "COMPLETE"
        PROVE  a[1][1] # e /\ a[1][1] \in Runs /\ a[1][3] \in Items
    <3>1. a[1][1] \in Runs /\ a[1][3] \in Items
      BY <2>2, Numbers, RequestFields, ItemKinds DEF RunIInv, TypeOK
    <3>2. At(a[1][1], a[1][3]) \in {"PUBLISHING", "FAILING"}
      BY <2>2 DEF RunIInv, WireInv
    <3> QED BY <1>4, <3>1, <3>2
  <2> QED BY <2>1, <2>2
<1>7. WireInv'
  <2>1. \A a \in answers : a[1][2] # "COMPLETE" => At(a[1][1], a[1][3])' = At(a[1][1], a[1][3])
    BY <1>3, <1>6 DEF At
  <2>2. \A m \in sent : run'[m[1]] = run[m[1]]
    BY <1>3, <1>6
  <2> QED BY <1>1, <2>1, <2>2 DEF RunIInv, WireInv
<1>8. JobInv' /\ HolderInv'
  <2>1. \A d \in Runs : d > claims => run'[d] = "IDLE"
    BY <1>1, <1>3 DEF RunIInv, JobInv
  <2> QED BY <1>1, <2>1 DEF RunIInv, JobInv, HolderInv, Says
<1>9. KnowsInv'
  <2> SUFFICES ASSUME NEW i \in Items PROVE ItemInv(e, i)'
    BY <1>1 DEF KnowsInv
  <2>1. <<e, "SAVE", i>> \notin sent /\ <<e, "FAIL", i>> \notin sent
    BY <1>6
  <2> QED BY <1>1, <1>3, <2>1 DEF ItemInv
<1> QED BY <1>2, <1>5, <1>7, <1>8, <1>9 DEF RunIInv

\* Both branches have ended and complete is sent: what it says is what Spring has,
\* and it is the last request of the execution that is under way.
LEMMA CompleteKeeps ==
  ASSUME RunIInv, NEW e \in Runs, BranchesEnd(e), run'[e] = "COMPLETING"
  PROVE  RunIInv'
<1> DEFINE c == failure'[e]
           m == <<e, "COMPLETE", c>>
<1>1. /\ UNCHANGED <<holder, claims, stored, left, report, answers, setting, typo, work, halt, slip,
                     result, gate>>
      /\ \A b \in Branches : result[e][b] \in Codes
      /\ \E b, d \in Branches : /\ b # d
           /\ failure' = [failure EXCEPT ![e] =
                            Outranking(Outranking("CLEAN", result[e][b]), result[e][d])]
      /\ sent' = sent \union {m} /\ run' = [run EXCEPT ![e] = "COMPLETING"] /\ run[e] = "RUNNING"
  BY DEF BranchesEnd, Stops, spring, RunIInv, TypeOK
<1>2. /\ BranchesInv(e) /\ SettingInv(e) /\ TypoInv(e) /\ ResultInv(e) /\ LocalInv
      /\ failure \in [Runs -> Codes]
      /\ result[e]["SETTING"] \in Codes /\ result[e]["TYPO"] \in {"CLEAN", "FAILED"}
  BY <1>1 DEF RunIInv, LocalInv, TypeOK, Branches, ResultInv, Codes
<1>3. /\ c \in Codes /\ failure' \in [Runs -> Codes]
      /\ c = "CLEAN" => result[e]["SETTING"] = "CLEAN" /\ result[e]["TYPO"] = "CLEAN"
      /\ c = "QUESTIONS" => result[e]["SETTING"] = "QUESTIONS" /\ result[e]["TYPO"] = "CLEAN"
  <2>1. PICK b \in Branches, d \in Branches : /\ b # d
           /\ failure' = [failure EXCEPT ![e] =
                            Outranking(Outranking("CLEAN", result[e][b]), result[e][d])]
    BY <1>1
  <2>2. c = Outranking(Outranking("CLEAN", result[e][b]), result[e][d])
    BY <1>2, <2>1
  <2>3. (b = "SETTING" /\ d = "TYPO") \/ (b = "TYPO" /\ d = "SETTING")
    BY <2>1 DEF Branches
  <2>4. c \in Codes
    BY <1>1, <2>2 DEF Outranking, Codes
  <2>5. failure' \in [Runs -> Codes]
    BY <1>2, <2>1, <2>2, <2>4
  <2>6. /\ c = "CLEAN" => result[e]["SETTING"] = "CLEAN" /\ result[e]["TYPO"] = "CLEAN"
        /\ c = "QUESTIONS" => result[e]["SETTING"] = "QUESTIONS" /\ result[e]["TYPO"] = "CLEAN"
    BY <1>2, <2>2, <2>3 DEF Outranking, Codes
  <2> QED BY <2>4, <2>5, <2>6
<1> HIDE DEF c
<1>4. TypeOK'
  <2>1. m \in Requests
    BY <1>3, RequestFields
  <2> QED BY <1>1, <1>3, <2>1 DEF RunIInv, TypeOK
<1>5. /\ run'[e] = "COMPLETING" /\ \A d \in Runs \ {e} : run'[d] = run[d]
      /\ \A d \in Runs, i \in Items : At(d, i)' = At(d, i)
  BY <1>1 DEF RunIInv, TypeOK, At
<1>6. LocalInv'
  <2>1. BranchesInv(e)'
    BY <1>1, <1>2, <1>5 DEF BranchesInv, Codes
  <2>2. SettingInv(e)' /\ TypoInv(e)' /\ ResultInv(e)'
    BY <1>1, <1>2 DEF SettingInv, TypoInv, ResultInv, Planned, At, Checking
  <2> QED BY <1>1, <1>2, <1>5, <2>1, <2>2, OthersKept
<1>7. /\ sent \subseteq Requests /\ \A n \in sent : n[1] \in Runs
      /\ \A n \in sent : n[1] = e => n[2] # "COMPLETE"
      /\ e <= claims /\ m[1] = e /\ m[2] = "COMPLETE" /\ m[3] = c
  BY <1>1, RequestFields, Numbers DEF RunIInv, TypeOK, WireInv, JobInv
<1>8. WireInv'
  <2>1. ASSUME NEW n \in sent'
        PROVE  /\ n[1] <= claims /\ run'[n[1]] \notin {"IDLE", "LOADING"}
               /\ n[2] = "COMPLETE" => run'[n[1]] # "RUNNING"
    BY <1>1, <1>5, <1>7 DEF RunIInv, WireInv
  <2>2. ASSUME NEW a \in answers, a[1][2] # "COMPLETE"
        PROVE  /\ a[1] \notin sent'
               /\ At(a[1][1], a[1][3])' = IF a[1][2] = "SAVE" THEN "PUBLISHING" ELSE "FAILING"
               /\ a[1][2] = "SAVE" /\ a[2] => a[1][3] \in stored
    BY <1>1, <1>7, <2>2 DEF RunIInv, WireInv, At
  <2> QED BY <1>1, <2>1, <2>2 DEF WireInv
<1>9. JobInv'
  <2>1. \A d \in Runs : d > claims => run'[d] = "IDLE"
    BY <1>5, <1>7, Numbers DEF RunIInv, JobInv, TypeOK
  <2> QED BY <1>1, <2>1 DEF RunIInv, JobInv, Says
<1>10. ASSUME holder = e, c # "FAILED"
       PROVE  Says(c) /\ \A n \in sent : n[1] # e
  <2>1. \A i \in Items : ItemInv(e, i)
    BY <1>1, <1>10 DEF RunIInv, KnowsInv
  <2>2. \A i \in Items : At(e, i) = "SAVED" \/ (At(e, i) = "LEFT" /\ i \in Questions)
    BY <1>2, <1>3, <1>10, ItemKinds DEF ResultInv, Planned, Codes
  <2>3. ASSUME NEW n \in sent, n[1] = e PROVE FALSE
    <3>1. n = <<e, n[2], n[3]>> /\ n[2] \in {"SAVE", "FAIL"} /\ n[3] \in Items
      BY <1>7, <2>3, RequestFields, ItemKinds
    <3>2. n[3] \notin stored
      BY <1>10, <2>3, <3>1 DEF RunIInv, HolderInv
    <3>3. At(e, n[3]) = "LEFT"
      BY <2>1, <2>2, <3>1, <3>2 DEF ItemInv
    <3> QED BY <2>1, <3>1, <3>3 DEF ItemInv
  <2>4. CASE c = "CLEAN"
    <3>1. \A i \in Items : At(e, i) = "SAVED"
      BY <1>2, <1>3, <2>4, ItemKinds DEF ResultInv, Planned
    <3>2. stored = Items
      BY <2>1, <3>1 DEF ItemInv, RunIInv, TypeOK
    <3> QED BY <2>3, <2>4, <3>2 DEF Says
  <2>5. CASE c = "QUESTIONS"
    <3>1. PICK q \in Questions : At(e, q) = "LEFT"
      BY <1>2, <1>3, <2>2, <2>5, ItemKinds DEF ResultInv
    <3>2. q \in left
      BY <2>1, <3>1, ItemKinds DEF ItemInv
    <3>3. \A i \in Items : i \in stored \/ i \in left
      BY <2>1, <2>2 DEF ItemInv
    <3>4. stored = Items \ left
      BY <3>3 DEF RunIInv, TypeOK, JobInv
    <3> QED BY <2>3, <2>5, <3>2, <3>4 DEF Says
  <2> QED BY <1>3, <1>10, <2>4, <2>5 DEF Codes
<1>11. HolderInv'
  <2>1. ASSUME NEW n \in sent', n[1] = holder
        PROVE  /\ n[2] \in {"SAVE", "FAIL"} => n[3] \notin stored
               /\ n[2] = "SAVE" => <<holder, "FAIL", n[3]>> \notin sent'
               /\ n[2] = "COMPLETE" /\ n[3] # "FAILED" =>
                    Says(n[3]) /\ \A k \in sent' : k[1] = holder => k[2] = "COMPLETE"
    <3>1. CASE n = m
      BY <1>1, <1>7, <1>10, <2>1, <3>1
    <3>2. CASE n \in sent /\ n # m
      BY <1>1, <1>7, <2>1, <3>2 DEF RunIInv, HolderInv
    <3> QED BY <1>1, <3>1, <3>2
  <2> QED BY <1>1, <2>1 DEF RunIInv, HolderInv, Says
<1>12. KnowsInv'
  <2> SUFFICES ASSUME NEW d \in Runs, holder = d,
                      run'[d] \in {"RUNNING", "COMPLETING", "STOPPING"}, NEW i \in Items
               PROVE  ItemInv(d, i)'
    BY <1>1 DEF KnowsInv
  <2>1. ItemInv(d, i)
    BY <1>1, <1>5 DEF RunIInv, KnowsInv
  <2>2. /\ <<d, "SAVE", i>> \in sent' => <<d, "SAVE", i>> \in sent
        /\ <<d, "FAIL", i>> \in sent' => <<d, "FAIL", i>> \in sent
    BY <1>1
  <2> QED BY <1>1, <1>5, <2>1, <2>2 DEF ItemInv
<1> QED BY <1>4, <1>6, <1>8, <1>9, <1>11, <1>12 DEF RunIInv

-----------------------------------------------------------------------------
\* Steps of Spring

\* Spring handles a request: only the holder's requests change what it has, and each
\* is new to it.
LEMMA ApplyKeeps ==
  ASSUME RunIInv, NEW m \in sent, Apply(m)
  PROVE  RunIInv' /\ stored \subseteq stored'
<1>1. /\ UNCHANGED <<claims, run, gate, setting, typo, work, halt, slip, result, failure>>
      /\ sent' = sent \ {m}
      /\ answers' = IF Awaited(m) THEN answers \union {<<m, Admitted(m)>>} ELSE answers
      /\ ~Admitted(m) => UNCHANGED <<holder, stored, left, report>>
      /\ Admitted(m) /\ m[2] # "COMPLETE" => UNCHANGED <<holder, report>>
      /\ Admitted(m) /\ m[2] = "COMPLETE" =>
           UNCHANGED <<stored, left>> /\ holder' = 0 /\ report' = m[3]
      /\ Admitted(m) /\ m[2] = "SAVE" => stored' = stored \union {m[3]} /\ left' = left \ {m[3]}
      /\ Admitted(m) /\ m[2] = "FAIL" => stored' = stored \ {m[3]} /\ left' = left \union {m[3]}
  BY DEF Apply, spring, local
<1>2. /\ sent \subseteq Requests /\ answers \subseteq Requests \X BOOLEAN /\ 0 \notin Runs
      /\ m \in Requests /\ m = <<m[1], m[2], m[3]>> /\ m[1] \in Runs
      /\ m[2] \in {"SAVE", "FAIL", "COMPLETE"}
      /\ m[2] = "SAVE" => m[3] \in Items
      /\ m[2] = "FAIL" => m[3] \in Questions
      /\ m[2] = "COMPLETE" => m[3] \in Codes
      /\ Admitted(m) \in BOOLEAN /\ (Admitted(m) => m[1] = holder /\ report = "OPEN")
      /\ m[2] # "COMPLETE" => m[3] \in Items
  <2>1. Admitted(m) \in BOOLEAN /\ (Admitted(m) => m[1] = holder /\ report = "OPEN")
    BY DEF Admitted
  <2>2. sent \subseteq Requests /\ answers \subseteq Requests \X BOOLEAN
    BY DEF RunIInv, TypeOK
  <2>3. 0 \notin Runs
    BY Numbers
  <2> QED BY <2>1, <2>2, <2>3, RequestFields, ItemKinds
<1>3. Admitted(m) /\ m[2] # "COMPLETE" => m[3] \notin stored
  BY <1>2 DEF RunIInv, HolderInv
<1>4. stored \subseteq stored'
  BY <1>1, <1>2, <1>3
<1>5. /\ \A n \in sent' : n \in sent /\ n # m
      /\ \A a \in answers' : a \in answers \/ (a = <<m, Admitted(m)>> /\ Awaited(m))
      /\ \A d \in Runs, i \in Items : At(d, i)' = At(d, i)
  BY <1>1 DEF At
<1>6. TypeOK'
  <2>1. <<m, Admitted(m)>> \in Requests \X BOOLEAN
    BY <1>2
  <2>2. answers' \subseteq Requests \X BOOLEAN /\ sent' \subseteq Requests
    BY <1>1, <1>2, <2>1
  <2>3. /\ stored' \subseteq Items /\ left' \subseteq Questions /\ report' \in {"OPEN"} \union Codes
        /\ holder' \in 0..claims
    <3>1. stored \subseteq Items /\ left \subseteq Questions /\ report \in {"OPEN"} \union Codes
          /\ holder \in 0..claims /\ claims \in Nat
      BY Numbers DEF RunIInv, TypeOK
    <3>2. m[2] = "SAVE" /\ Admitted(m) => left' \subseteq Questions
      BY <1>1, <3>1
    <3> QED BY <1>1, <1>2, <3>1, <3>2, ItemKinds
  <2> QED BY <1>1, <2>2, <2>3 DEF RunIInv, TypeOK
<1>7. LocalInv'
  BY <1>1 DEF RunIInv, LocalInv, BranchesInv, SettingInv, TypoInv, ResultInv, At, Planned, Checking
<1>8. WireInv'
  <2>1. ASSUME NEW a \in answers', a[1][2] # "COMPLETE"
        PROVE  /\ a[1] \notin sent'
               /\ At(a[1][1], a[1][3])' = IF a[1][2] = "SAVE" THEN "PUBLISHING" ELSE "FAILING"
               /\ a[1][2] = "SAVE" /\ a[2] => a[1][3] \in stored'
    <3>1. CASE a \in answers
      <4>1. At(a[1][1], a[1][3])' = At(a[1][1], a[1][3])
        BY <1>1 DEF At
      <4> QED BY <1>1, <1>4, <2>1, <3>1, <4>1 DEF RunIInv, WireInv
    <3>2. CASE a = <<m, Admitted(m)>> /\ Awaited(m)
      <4>1. a[1] = m /\ a[2] = Admitted(m)
        BY <3>2
      <4>2. At(m[1], m[3]) = IF m[2] = "SAVE" THEN "PUBLISHING" ELSE "FAILING"
        BY <1>2, <2>1, <3>2, <4>1 DEF Awaited, At
      <4>3. At(m[1], m[3])' = At(m[1], m[3])
        BY <1>1 DEF At
      <4> QED BY <1>1, <2>1, <4>1, <4>2, <4>3
    <3> QED BY <1>5, <3>1, <3>2
  <2>2. \A n \in sent' : /\ n[1] <= claims' /\ run'[n[1]] \notin {"IDLE", "LOADING"}
                         /\ n[2] = "COMPLETE" => run'[n[1]] # "RUNNING"
    BY <1>1 DEF RunIInv, WireInv
  <2> QED BY <2>1, <2>2 DEF WireInv
<1>9. JobInv'
  <2>1. CASE ~Admitted(m)
    BY <1>1, <2>1 DEF RunIInv, JobInv, Says
  <2>2. CASE Admitted(m) /\ m[2] # "COMPLETE"
    <3>1. stored' \intersect left' = {} /\ report' = "OPEN"
      BY <1>1, <1>2, <2>2 DEF RunIInv, JobInv
    <3> QED BY <1>1, <2>2, <3>1 DEF RunIInv, JobInv, Says
  <2>3. CASE Admitted(m) /\ m[2] = "COMPLETE"
    <3>1. m[3] = "FAILED" \/ Says(m[3])
      BY <1>2, <2>3 DEF RunIInv, HolderInv
    <3>2. Says(report)'
      BY <1>1, <2>3, <3>1 DEF Says
    <3> QED BY <1>1, <2>3, <3>2 DEF RunIInv, JobInv
  <2> QED BY <2>1, <2>2, <2>3
<1>10. HolderInv'
  <2>1. CASE ~Admitted(m)
    <3>1. ASSUME NEW a \in answers', a[1][1] = holder, a[1][2] = "FAIL", a[2] PROVE a[1][3] \in left
      <4>1. a \in answers
        BY <1>5, <2>1, <3>1
      <4> QED BY <3>1, <4>1 DEF RunIInv, HolderInv
    <3>2. /\ UNCHANGED <<holder, stored, left>>
          /\ sent' \subseteq sent /\ \A code : Says(code)' <=> Says(code)
      BY <1>1, <2>1 DEF Says
    <3> QED BY <3>1, <3>2 DEF RunIInv, HolderInv
  <2>2. CASE Admitted(m) /\ m[2] = "COMPLETE"
    <3>1. \A n \in sent' : n[1] # holder'
      BY <1>1, <1>2, <2>2, RequestFields
    <3>2. \A a \in answers' : a[1][1] # holder'
      <4>1. answers' \subseteq Requests \X BOOLEAN
        BY <1>6 DEF TypeOK
      <4>2. \A a \in answers' : a[1][1] \in Runs
        BY <4>1, RequestFields, Numbers
      <4> QED BY <1>1, <1>2, <2>2, <4>2
    <3> QED BY <3>1, <3>2 DEF HolderInv
  <2>3. CASE Admitted(m) /\ m[2] # "COMPLETE"
    <3>1. ASSUME NEW n \in sent', n[1] = holder
          PROVE  /\ n[2] \in {"SAVE", "FAIL"} => n[3] \notin stored'
                 /\ n[2] = "SAVE" => <<holder, "FAIL", n[3]>> \notin sent'
                 /\ n[2] = "COMPLETE" => n[3] = "FAILED"
      <4>1. /\ n[2] \in {"SAVE", "FAIL"} => n[3] \notin stored
            /\ n[2] = "SAVE" => <<holder, "FAIL", n[3]>> \notin sent
            /\ n[2] = "COMPLETE" => n[3] = "FAILED"
            /\ m[2] = "SAVE" => <<holder, "FAIL", m[3]>> \notin sent
        BY <1>2, <1>5, <2>3, <3>1 DEF RunIInv, HolderInv
      <4>2. n = <<holder, n[2], n[3]>> /\ n \in sent /\ n # m /\ m = <<holder, m[2], m[3]>>
        BY <1>2, <1>5, <2>3, <3>1, RequestFields
      <4>3. n[2] \in {"SAVE", "FAIL"} /\ m[2] = "SAVE" => n[3] # m[3]
        BY <4>1, <4>2
      <4> QED BY <1>1, <1>2, <2>3, <4>1, <4>3
    <3>2. ASSUME NEW a \in answers', a[1][1] = holder, a[1][2] = "FAIL", a[2] PROVE a[1][3] \in left'
      <4>1. CASE a \in answers
        <5>1. a[1][3] \in left
          BY <3>2, <4>1 DEF RunIInv, HolderInv
        <5>2. a[1] \in Requests /\ a[1] = <<holder, "FAIL", a[1][3]>> /\ a[1][3] \in Items
          BY <1>2, <3>2, <4>1, Numbers, RequestFields, ItemKinds
        <5>3. At(holder, a[1][3]) = "FAILING"
          BY <3>2, <4>1 DEF RunIInv, WireInv
        <5>4. /\ holder \in Runs /\ run[holder] \in {"IDLE", "LOADING", "RUNNING", "COMPLETING", "STOPPING", "ENDED"}
              /\ BranchesInv(holder)
          BY <1>2, <2>3 DEF RunIInv, TypeOK, LocalInv
        <5>5. run[holder] \in {"RUNNING", "COMPLETING", "STOPPING"}
          BY <5>2, <5>3, <5>4 DEF BranchesInv
        <5>6. <<holder, "SAVE", a[1][3]>> \notin sent
          BY <5>2, <5>3, <5>4, <5>5 DEF RunIInv, KnowsInv, ItemInv
        <5>7. m[2] = "SAVE" => m[3] # a[1][3]
          BY <1>2, <2>3, <5>6
        <5> QED BY <1>1, <1>2, <2>3, <5>1, <5>7
      <4>2. CASE a = <<m, Admitted(m)>>
        <5>1. a[1] = m
          BY <4>2
        <5> QED BY <1>1, <2>3, <3>2, <5>1
      <4> QED BY <1>5, <4>1, <4>2
    <3>3. holder' = holder
      BY <1>1, <2>3
    <3> QED BY <3>1, <3>2, <3>3 DEF HolderInv
  <2> QED BY <2>1, <2>2, <2>3
<1>11. KnowsInv'
  <2> SUFFICES ASSUME NEW d \in Runs, holder' = d,
                      run[d] \in {"RUNNING", "COMPLETING", "STOPPING"}, NEW i \in Items
               PROVE  ItemInv(d, i)'
    BY <1>1 DEF KnowsInv
  <2>1. holder = d /\ ~(Admitted(m) /\ m[2] = "COMPLETE")
    BY <1>1, <1>2
  <2>2. /\ ItemInv(d, i) /\ At(d, i)' = At(d, i)
        /\ <<d, "SAVE", i>> \in sent' => <<d, "SAVE", i>> \in sent
        /\ <<d, "FAIL", i>> \in sent' => <<d, "FAIL", i>> \in sent
    BY <1>5, <2>1 DEF RunIInv, KnowsInv
  <2>3. CASE ~(Admitted(m) /\ m[3] = i)
    <3>1. (i \in stored' <=> i \in stored) /\ (i \in left' <=> i \in left)
      BY <1>1, <1>2, <2>1, <2>3
    <3> QED BY <2>2, <3>1 DEF ItemInv
  <2>4. CASE Admitted(m) /\ m[3] = i
    <3>1. m = <<d, m[2], i>> /\ m[2] \in {"SAVE", "FAIL"} /\ i \notin stored
      BY <1>2, <1>3, <2>1, <2>4
    <3>2. At(d, i) \notin {"IDLE", "CALLING", "LEFT", "SAVED"}
      BY <2>2, <3>1 DEF ItemInv
    <3> QED BY <2>2, <3>2 DEF ItemInv
  <2> QED BY <2>3, <2>4
<1> QED BY <1>4, <1>6, <1>7, <1>8, <1>9, <1>10, <1>11 DEF RunIInv

\* The lease runs out, or the job is claimed by its next execution.
LEMMA LeaseKeeps ==
  ASSUME RunIInv, LeaseExpires \/ Claim
  PROVE  RunIInv'
<1>1. /\ sent \subseteq Requests /\ answers \subseteq Requests \X BOOLEAN /\ 0 \notin Runs
      /\ \A n \in sent : n[1] \in Runs /\ n[1] <= claims
      /\ \A a \in answers : a[1] \in Requests /\ a[1][1] \in Runs
      /\ claims \in Nat /\ Runs \subseteq Nat
  <2>1. sent \subseteq Requests /\ answers \subseteq Requests \X BOOLEAN /\ claims \in Nat
    BY Numbers DEF RunIInv, TypeOK
  <2> QED BY <2>1, Numbers, RequestFields DEF RunIInv, WireInv
<1>2. CASE LeaseExpires
  <2>1. /\ UNCHANGED <<claims, stored, left, report, answers, run, gate, setting, typo, work, halt,
                       slip, result, failure>>
        /\ holder' = 0 /\ sent' \subseteq sent
    BY <1>2 DEF LeaseExpires, local
  <2>2. TypeOK'
    BY <1>1, <2>1 DEF RunIInv, TypeOK
  <2>3. LocalInv'
    BY <2>1 DEF RunIInv, LocalInv, BranchesInv, SettingInv, TypoInv, ResultInv, At, Planned, Checking
  <2>4. WireInv' /\ JobInv'
    BY <2>1 DEF RunIInv, WireInv, JobInv, At, Says
  <2>5. HolderInv' /\ KnowsInv'
    BY <1>1, <2>1 DEF HolderInv, KnowsInv
  <2> QED BY <2>2, <2>3, <2>4, <2>5 DEF RunIInv
<1>3. CASE Claim
  <2>0. PICK e \in Runs : e = claims + 1
    BY <1>1, <1>3, Numbers DEF Claim
  <2>1. /\ UNCHANGED <<stored, left, report, sent, answers, gate, setting, typo, work, halt,
                       slip, result, failure>>
        /\ claims' = e /\ holder' = e /\ run' = [run EXCEPT ![e] = "LOADING"]
        /\ holder = 0 /\ report = "OPEN" /\ claims < MaxClaims
    BY <1>3, <2>0 DEF Claim, wire, local
  <2>2. e \in Runs /\ e \in 0..e /\ e \in 0..MaxClaims /\ e > claims
    BY <1>1, <2>0, <2>1, Numbers
  <2>3. run[e] = "IDLE" /\ run \in [Runs -> {"IDLE", "LOADING", "RUNNING", "COMPLETING", "STOPPING", "ENDED"}]
    BY <2>2 DEF RunIInv, JobInv, TypeOK
  <2>4. run'[e] = "LOADING" /\ \A d \in Runs \ {e} : run'[d] = run[d]
    BY <2>1, <2>2, <2>3
  <2>5. TypeOK'
    BY <2>1, <2>2, <2>3 DEF RunIInv, TypeOK
  <2>6. LocalInv'
    <3>1. BranchesInv(e) /\ SettingInv(e) /\ TypoInv(e) /\ ResultInv(e) /\ LocalInv
      BY <2>2 DEF RunIInv, LocalInv
    <3>2. BranchesInv(e)'
      BY <2>1, <2>3, <2>4, <3>1 DEF BranchesInv, At
    <3>3. SettingInv(e)' /\ TypoInv(e)' /\ ResultInv(e)'
      BY <2>1, <3>1 DEF SettingInv, TypoInv, ResultInv, Planned, At, Checking
    <3> QED BY <2>1, <2>2, <2>4, <3>1, <3>2, <3>3, OthersKept
  <2>7. \A n \in sent : n[1] # e
    BY <1>1, <2>2
  <2>8. ASSUME NEW a \in answers, a[1][2] # "COMPLETE" PROVE a[1][1] # e
    <3>1. At(a[1][1], a[1][3]) \in {"PUBLISHING", "FAILING"} /\ a[1][3] \in Items
      BY <1>1, <2>8, RequestFields, ItemKinds DEF RunIInv, WireInv
    <3>2. \A i \in Items : At(e, i) = "IDLE"
      BY <2>2, <2>3 DEF RunIInv, LocalInv, BranchesInv
    <3> QED BY <3>1, <3>2
  <2>9. WireInv'
    <3>1. \A n \in sent : n[1] <= e /\ run'[n[1]] = run[n[1]]
      <4> SUFFICES ASSUME NEW n \in sent PROVE n[1] <= e /\ run'[n[1]] = run[n[1]]
        OBVIOUS
      <4>1. n[1] \in Runs /\ n[1] \in Nat /\ n[1] <= claims
        BY <1>1
      <4>2. n[1] <= e /\ n[1] # e
        BY <1>1, <2>0, <4>1
      <4> QED BY <2>4, <4>1, <4>2
    <3> QED BY <2>1, <3>1 DEF RunIInv, WireInv, At
  <2>10. JobInv'
    <3>1. \A d \in Runs : d > e => run'[d] = "IDLE"
      BY <1>1, <2>0, <2>2, <2>4 DEF RunIInv, JobInv
    <3> QED BY <2>1, <3>1 DEF RunIInv, JobInv, Says
  <2>11. HolderInv' /\ KnowsInv'
    BY <2>1, <2>4, <2>7, <2>8 DEF HolderInv, KnowsInv
  <2> QED BY <2>5, <2>6, <2>9, <2>10, <2>11 DEF RunIInv
<1> QED BY <1>2, <1>3

-----------------------------------------------------------------------------
\* Steps that publish

\* A result or a failed question is published only by a running execution whose gate
\* is open; the code of the branches follows in complete.
LEMMA SendingKeeps ==
  ASSUME RunIInv, NEW e \in Runs,
         \/ \E i \in Items : Called(e, i) \/ QuestionFails(e, i)
         \/ PlanEnds(e) /\ Planned(e)
         \/ CheckTypos(e) /\ At(e, Checking(e)) = "IDLE"
  PROVE  /\ RunIInv'
         /\ \A m \in sent' \ sent : m[1] = e /\ gate[e] /\ run[e] = "RUNNING"
<1>1. ASSUME NEW i \in Items, Called(e, i)
      PROVE  /\ RunIInv'
             /\ \A m \in sent' \ sent : m[1] = e /\ gate[e] /\ run[e] = "RUNNING"
  <2>1. /\ Alive(e) /\ At(e, i) = "CALLING" /\ Publish(e, "SAVE", i)
        /\ UNCHANGED <<spring, answers, run, gate>>
    BY <1>1 DEF Called
  <2>2. Ready(e, i)
    BY <2>1 DEF Ready, AtWork
  <2> QED BY <2>1, <2>2, PublishKeeps
<1>2. ASSUME NEW i \in Items, QuestionFails(e, i)
      PROVE  /\ RunIInv'
             /\ \A m \in sent' \ sent : m[1] = e /\ gate[e] /\ run[e] = "RUNNING"
  <2>1. /\ Alive(e) /\ i \in Questions /\ At(e, i) = "CALLING" /\ Publish(e, "FAIL", i)
        /\ UNCHANGED <<spring, answers, run, gate>>
    BY <1>2 DEF QuestionFails
  <2>2. Ready(e, i)
    BY <2>1 DEF Ready, AtWork
  <2> QED BY <2>1, <2>2, PublishKeeps
<1>3. CASE PlanEnds(e) /\ Planned(e)
  <2>1. /\ Alive(e) /\ At(e, Plan) = "IDLE" /\ Publish(e, "SAVE", Plan)
        /\ UNCHANGED <<spring, answers, run, gate>>
        /\ setting[e] = "PLANNING" /\ result[e]["SETTING"] = "NONE"
    BY <1>3 DEF PlanEnds, Waiting
  <2>2. Ready(e, Plan) /\ Plan \in Items
    BY <1>3, <2>1, ItemKinds DEF Ready
  <2> QED BY <2>1, <2>2, PublishKeeps
<1>4. CASE CheckTypos(e) /\ At(e, Checking(e)) = "IDLE"
  <2> DEFINE i == Checking(e)
  <2>1. /\ Alive(e) /\ At(e, i) = "IDLE" /\ Publish(e, "SAVE", i)
        /\ UNCHANGED <<spring, answers, run, gate>>
        /\ typo[e] \in 1..NumTypos /\ result[e]["TYPO"] = "NONE"
    BY <1>4 DEF CheckTypos, Waiting
  <2>2. i \in Typos /\ i \in Items /\ i = Checking(e)
    BY <2>1, ItemKinds DEF Checking
  <2>3. Ready(e, i)
    BY <2>1, <2>2 DEF Ready
  <2>4. \A j \in Items : At(e, j) = "IDLE" /\ Ready(e, j) /\ Publish(e, "SAVE", j) =>
          /\ RunIInv'
          /\ \A m \in sent' \ sent : m[1] = e /\ gate[e] /\ run[e] = "RUNNING"
    BY <2>1, PublishKeeps
  <2> HIDE DEF i
  <2> QED BY <2>1, <2>2, <2>3, <2>4
<1> QED BY <1>1, <1>2, <1>3, <1>4

-----------------------------------------------------------------------------
\* The invariant holds

\* The invariant of the run holds at the start.
LEMMA RunInit == SizesAssumption /\ Init => RunIInv
<1> SUFFICES ASSUME Init PROVE RunIInv
  BY SizesAssumption
<1>1. /\ \A e \in Runs : /\ run[e] = "IDLE" /\ setting[e] = "INPUT" /\ typo[e] = 0 /\ slip[e] = "CLEAN"
                         /\ result[e] = [b \in Branches |-> "NONE"] /\ halt[e] = "NONE"
                         /\ \A i \in Items : At(e, i) = "IDLE"
      /\ sent = {} /\ answers = {} /\ holder = 0 /\ claims = 0 /\ stored = {} /\ left = {} /\ report = "OPEN"
  BY DEF Init, At
<1>2. TypeOK
  <2>1. 0 \in 0..(NumTypos + 1) /\ 0 \in 0..MaxClaims /\ 0 \in 0..0
    BY Numbers
  <2>2. gate \in [Runs -> BOOLEAN]
    BY DEF Init
  <2>3. /\ work \in [Runs -> [Items -> ItemStates]]
        /\ result \in [Runs -> [Branches -> {"NONE", "STOP"} \union Codes]]
    BY DEF Init, ItemStates
  <2>4. /\ run \in [Runs -> {"IDLE", "LOADING", "RUNNING", "COMPLETING", "STOPPING", "ENDED"}]
        /\ setting \in [Runs -> {"INPUT", "PLANNING", "JUDGING"}]
        /\ typo \in [Runs -> 0..(NumTypos + 1)]
        /\ halt \in [Runs -> {"NONE", "FAILED", "STOP"}]
        /\ slip \in [Runs -> {"CLEAN", "FAILED", "STOP"}]
        /\ failure \in [Runs -> Codes]
    BY <2>1 DEF Init, Codes
  <2> QED BY <1>1, <2>1, <2>2, <2>3, <2>4 DEF TypeOK
<1>3. LocalInv
  <2> SUFFICES ASSUME NEW e \in Runs PROVE BranchesInv(e) /\ SettingInv(e) /\ TypoInv(e) /\ ResultInv(e)
    BY DEF LocalInv
  <2>1. BranchesInv(e) /\ SettingInv(e) /\ ResultInv(e)
    BY <1>1, ItemKinds DEF BranchesInv, SettingInv, ResultInv, Branches, AtWork
  <2>2. TypoInv(e)
    BY <1>1, ItemKinds, Numbers DEF TypoInv, AtWork
  <2> QED BY <2>1, <2>2
<1>4. WireInv /\ JobInv /\ HolderInv /\ KnowsInv
  BY <1>1 DEF WireInv, JobInv, HolderInv, KnowsInv, Says
<1> QED BY <1>2, <1>3, <1>4 DEF RunIInv

\* Every step keeps the invariant, and only a running execution with an open gate
\* sends anything.
LEMMA RunNext ==
  ASSUME RunIInv, [Next]_vars
  PROVE  /\ RunIInv'
         /\ \A m \in sent' \ sent : run[m[1]] = "RUNNING" /\ gate[m[1]]
         /\ Questions \intersect stored \subseteq stored'
<1> DEFINE Goal == /\ RunIInv'
                   /\ \A m \in sent' \ sent : run[m[1]] = "RUNNING" /\ gate[m[1]]
                   /\ Questions \intersect stored \subseteq stored'
<1>1. CASE UNCHANGED vars
  <2>1. /\ UNCHANGED <<holder, claims, stored, left, report, sent, answers, run, gate,
                       setting, typo, work, halt, slip, result, failure>>
    BY <1>1 DEF vars, spring, wire, local
  <2>2. TypeOK' /\ LocalInv'
    BY <2>1 DEF RunIInv, TypeOK, LocalInv, BranchesInv, SettingInv, TypoInv, ResultInv, At, Planned,
                Checking
  <2>3. WireInv' /\ JobInv' /\ HolderInv' /\ KnowsInv'
    BY <2>1 DEF RunIInv, WireInv, JobInv, HolderInv, KnowsInv, ItemInv, At, Says
  <2> QED BY <2>1, <2>2, <2>3 DEF RunIInv
<1>2. CASE LeaseExpires \/ Claim
  <2>1. stored' = stored /\ sent' \subseteq sent
    BY <1>2 DEF LeaseExpires, Claim, wire
  <2> QED BY <1>2, <2>1, LeaseKeeps
<1>3. ASSUME NEW m \in sent, Apply(m) PROVE Goal
  <2>1. sent' \subseteq sent
    BY <1>3 DEF Apply
  <2> QED BY <1>3, <2>1, ApplyKeeps
<1>4. ASSUME NEW e \in Runs, Progress(e) \/ Failures(e) PROVE Goal
  <2>1. stored' = stored
    BY <1>4 DEF Progress, Failures, ReadInput, PlanEnds, StartJudging, StartJudge, JudgingEnds, Called,
         ReadTypoInput, CheckTypos, TypoEnds, PublicationAnswered, LoadCheckpoint, BranchesEnd,
         GateStops, Finishes, Drained, Gone, CallFails, ReadFails, TypoReadFails, QuestionFails,
         GivesUp, TypoFails, HeartbeatFails, LoadFails, Cancelled, Crash, spring
  <2>2. CASE \/ \E i \in Items : Called(e, i) \/ QuestionFails(e, i)
             \/ PlanEnds(e) /\ Planned(e)
             \/ CheckTypos(e) /\ At(e, Checking(e)) = "IDLE"
    BY <2>1, <2>2, SendingKeeps
  <2>3. CASE BranchesEnd(e) /\ run'[e] = "COMPLETING"
    <3>1. RunIInv'
      BY <2>3, CompleteKeeps
    <3>2. \A m \in sent' \ sent : m[1] = e
      BY <2>3 DEF BranchesEnd
    <3>3. run[e] = "RUNNING" /\ gate[e]
      BY <2>3 DEF BranchesEnd
    <3> QED BY <2>1, <3>1, <3>2, <3>3
  <2>4. ASSUME RunIInv', sent' \subseteq sent PROVE Goal
    BY <2>1, <2>4
  <2>5. CASE \/ ReadInput(e) \/ StartJudging(e) \/ StartJudge(e) \/ JudgingEnds(e)
             \/ \E code \in {"FAILED", "STOP"} : ReadFails(e, code)
             \/ PlanEnds(e) /\ ~Planned(e)
    <3>1. sent' \subseteq sent
      BY <2>5 DEF ReadInput, StartJudging, StartJudge, JudgingEnds, ReadFails, PlanEnds, wire
    <3> QED BY <2>4, <2>5, <3>1, SettingKeeps
  <2>6. CASE \/ ReadTypoInput(e) \/ TypoEnds(e)
             \/ \E last \in BOOLEAN : TypoFails(e, last)
             \/ \E code \in {"FAILED", "STOP"} : TypoReadFails(e, code)
             \/ CheckTypos(e) /\ At(e, Checking(e)) = "SAVED"
    <3>1. sent' \subseteq sent
      BY <2>6 DEF ReadTypoInput, TypoEnds, TypoFails, TypoReadFails, CheckTypos, wire
    <3> QED BY <2>4, <2>6, <3>1, TypoKeeps
  <2>7. CASE \/ HeartbeatFails(e) \/ LoadFails(e) \/ GateStops(e) \/ Finishes(e) \/ Cancelled(e)
             \/ BranchesEnd(e) /\ run'[e] # "COMPLETING"
             \/ LoadCheckpoint(e) /\ ~(holder = e /\ report = "OPEN")
    <3>1. sent' \subseteq sent
      <4>1. CASE BranchesEnd(e) /\ run'[e] # "COMPLETING"
        BY <4>1 DEF BranchesEnd, RunIInv, TypeOK
      <4> QED BY <2>7, <4>1 DEF HeartbeatFails, LoadFails, GateStops, Finishes, Cancelled,
                                LoadCheckpoint, wire
    <3> QED BY <2>4, <2>7, <3>1, StopKeeps
  <2>8. CASE LoadCheckpoint(e) /\ holder = e /\ report = "OPEN"
    <3>1. sent' \subseteq sent
      BY <2>8 DEF LoadCheckpoint, wire
    <3> QED BY <2>4, <2>8, <3>1, LoadKeeps
  <2>9. CASE Drained(e) \/ Crash(e)
    <3>1. Gone(e) /\ run[e] # "IDLE" /\ sent' \subseteq sent
      BY <2>9 DEF Drained, Crash, Gone
    <3> QED BY <2>4, <3>1, GoneKeeps
  <2>10. ASSUME NEW i \in Items, NEW code \in {"FAILED", "STOP"}, CallFails(e, i, code) PROVE Goal
    <3>1. sent' \subseteq sent
      BY <2>10 DEF CallFails, wire
    <3> QED BY <2>4, <2>10, <3>1, ItemFails
  <2>11. ASSUME NEW i \in Items, GivesUp(e, i) PROVE Goal
    <3>1. sent' \subseteq sent
      BY <2>11 DEF GivesUp
    <3> QED BY <2>4, <2>11, <3>1, ItemFails
  <2>12. ASSUME NEW a \in answers, PublicationAnswered(e, a[1], a[2]) PROVE Goal
    <3>1. sent' \subseteq sent /\ a[1][2] # "COMPLETE"
      BY <2>12 DEF PublicationAnswered
    <3>2. a[1][3] \in Items /\ a[2] \in BOOLEAN
      BY <3>1, Numbers, RequestFields, ItemKinds DEF RunIInv, TypeOK
    <3>3. CASE a[2]
      BY <2>4, <2>12, <3>1, <3>3, AnswerKeeps
    <3>4. CASE ~a[2]
      BY <2>4, <2>12, <3>1, <3>2, <3>4, ItemFails
    <3> QED BY <3>3, <3>4
  <2>13. CheckTypos(e) => At(e, Checking(e)) \in {"IDLE", "SAVED"}
    BY DEF CheckTypos
  <2> HIDE DEF Goal
  <2> QED BY <1>4, <2>2, <2>3, <2>5, <2>6, <2>7, <2>8, <2>9, <2>10, <2>11, <2>12, <2>13
             DEF Progress, Failures
<1> QED BY <1>1, <1>2, <1>3, <1>4 DEF Next

\* After the failure that stopped the dispatch no question is begun: one that was not
\* begun stays so, or is taken over from Spring by an execution that loads.
LEMMA NotBegun ==
  ASSUME RunIInv, [Next]_vars, NEW e \in Runs, halt[e] # "NONE",
         NEW q \in Questions, At(e, q) = "IDLE"
  PROVE  work'[e][q] \in {"IDLE", "SAVED"}
<1>1. work \in [Runs -> [Items -> ItemStates]] /\ q \in Items /\ q # Plan /\ q \notin Typos /\ q \notin Segments
  BY ItemKinds DEF RunIInv, TypeOK
<1>2. ASSUME NEW d \in Runs, NEW i, NEW s, Does(d, i, s), ~(d = e /\ i = q)
      PROVE  work'[e][q] = "IDLE"
  BY <1>1, <1>2 DEF Does, At
<1>3. ASSUME NEW d \in Runs, NEW i, NEW kind, Publish(d, kind, i), ~(d = e /\ i = q)
      PROVE  work'[e][q] = "IDLE"
  BY <1>2, <1>3 DEF Publish, Fails
<1>4. CASE UNCHANGED work
  BY <1>4 DEF At
<1>5. CASE UNCHANGED vars
  BY <1>4, <1>5 DEF vars, local
<1>6. CASE LeaseExpires \/ Claim \/ \E m \in sent : Apply(m)
  BY <1>4, <1>6 DEF LeaseExpires, Claim, Apply, local
<1>7. ASSUME NEW d \in Runs, Progress(d) \/ Failures(d) PROVE work'[e][q] \in {"IDLE", "SAVED"}
  <2>1. CASE StartJudging(d) \/ JudgingEnds(d) \/ ReadTypoInput(d) \/ TypoEnds(d) \/ BranchesEnd(d)
             \/ GateStops(d) \/ Finishes(d) \/ HeartbeatFails(d) \/ LoadFails(d) \/ Cancelled(d)
             \/ \E last \in BOOLEAN : TypoFails(d, last)
             \/ \E code \in {"FAILED", "STOP"} : ReadFails(d, code) \/ TypoReadFails(d, code)
    BY <1>4, <2>1 DEF StartJudging, JudgingEnds, ReadTypoInput, TypoEnds, BranchesEnd, GateStops,
         Finishes, HeartbeatFails, LoadFails, Cancelled, TypoFails, ReadFails, TypoReadFails, local
  <2>2. CASE ReadInput(d)
    BY <1>1, <2>2 DEF ReadInput, At
  <2>3. CASE PlanEnds(d)
    <3>1. CASE Planned(d)
      BY <1>1, <1>3, <2>3, <3>1 DEF PlanEnds
    <3>2. CASE ~Planned(d)
      BY <1>4, <2>3, <3>2 DEF PlanEnds
    <3> QED BY <3>1, <3>2
  <2>4. CASE StartJudge(d)
    <3>1. d # e
      BY <2>4 DEF StartJudge, Dispatching
    <3>2. PICK k \in 1..NumQuestions : Does(d, <<"DECIDE", k>>, "CALLING")
      BY <2>4 DEF StartJudge
    <3> QED BY <1>2, <3>1, <3>2
  <2>5. CASE \E i \in Items : Called(d, i) \/ QuestionFails(d, i)
    BY <1>3, <2>5 DEF Called, QuestionFails
  <2>6. CASE CheckTypos(d)
    <3>1. CASE UNCHANGED work
      BY <1>4, <3>1
    <3>2. CASE Publish(d, "SAVE", Checking(d))
      <4>1. Checking(d) # q
        BY <2>6, <1>1, ItemKinds DEF CheckTypos, Checking
      <4> QED BY <1>3, <3>2, <4>1
    <3> QED BY <2>6, <3>1, <3>2 DEF CheckTypos
  <2>7. ASSUME NEW a \in answers, PublicationAnswered(d, a[1], a[2]) PROVE work'[e][q] = "IDLE"
    <3>1. a[1][1] = d /\ a[1][2] # "COMPLETE"
      BY <2>7 DEF PublicationAnswered
    <3>2. At(d, a[1][3]) \in {"PUBLISHING", "FAILING"}
      BY <3>1 DEF RunIInv, WireInv
    <3>3. ~(d = e /\ a[1][3] = q)
      BY <3>2
    <3>4. \E s : Does(d, a[1][3], s)
      BY <2>7 DEF PublicationAnswered, Fails
    <3> QED BY <1>2, <3>3, <3>4
  <2>8. CASE LoadCheckpoint(d)
    <3>1. CASE UNCHANGED work
      BY <1>4, <3>1
    <3>2. CASE work' = [work EXCEPT ![d] = Loaded(d)]
      BY <1>1, <3>2 DEF Loaded, At
    <3> QED BY <2>8, <3>1, <3>2 DEF LoadCheckpoint
  <2>9. CASE Drained(d) \/ Crash(d)
    BY <1>1, <2>9 DEF Drained, Crash, Gone, At
  <2>10. CASE \E i \in Items : \/ GivesUp(d, i)
                               \/ \E code \in {"FAILED", "STOP"} : CallFails(d, i, code)
    BY <1>2, <2>10 DEF GivesUp, CallFails, Fails
  <2> QED BY <1>7, <2>1, <2>2, <2>3, <2>4, <2>5, <2>6, <2>7, <2>8, <2>9, <2>10 DEF Progress, Failures
<1> QED BY <1>5, <1>6, <1>7 DEF Next

-----------------------------------------------------------------------------
\* The theorems

\* Any validation, with its take-overs and lost answers, keeps the invariant of the run.
LEMMA RunInvariance == Spec => []RunIInv
<1>1. Init => RunIInv
  BY SizesAssumption, RunInit
<1>2. RunIInv /\ [Next]_vars => RunIInv'
  BY RunNext
<1> QED BY <1>1, <1>2, PTL DEF Spec

\* A job that is reported as completed, or as completed but for its questions, is so,
\* whatever executions did its items and however their requests were delayed.
THEOREM TrueReport == Spec => []ReportIsTrue
<1>1. RunIInv => ReportIsTrue
  BY DEF RunIInv, JobInv, Says, ReportIsTrue, CleanMeansComplete, QuestionsMeansTried
<1> QED BY <1>1, RunInvariance, PTL

\* An execution that resumes a job publishes nothing that Spring has from an earlier one.
THEOREM PublishedOnce == Spec => []NothingPublishedTwice
<1>1. RunIInv => NothingPublishedTwice
  BY DEF RunIInv, HolderInv, NothingPublishedTwice, Admitted
<1> QED BY <1>1, RunInvariance, PTL

\* A published decision is never withdrawn.
THEOREM DecisionsHold == Spec => DecisionsStay
<1>1. RunIInv /\ [Next]_vars => [Questions \intersect stored \subseteq stored']_vars
  BY RunNext
<1> QED BY <1>1, RunInvariance, PTL DEF Spec, DecisionsStay

\* A stopped execution sends nothing, and a stopped dispatch begins no question.
THEOREM StoppedHold == Spec => StoppedIsQuiet
<1>1. RunIInv /\ [Next]_vars =>
        [/\ \A m \in sent' \ sent : run[m[1]] = "RUNNING" /\ gate[m[1]]
         /\ \A e \in Runs : halt[e] # "NONE" => \A q \in Questions :
              At(e, q) = "IDLE" => work'[e][q] \in {"IDLE", "SAVED"}]_vars
  BY RunNext, NotBegun
<1> QED BY <1>1, RunInvariance, PTL DEF Spec, StoppedIsQuiet

=============================================================================
