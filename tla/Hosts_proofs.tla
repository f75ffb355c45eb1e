---------------------------- MODULE Hosts_proofs -----------------------------
(***************************************************************************)
(* What runs on a host, for all sizes: the loop of a worker                *)
(* (WorkerScheduler), whose slots are accounted for wherever it is and     *)
(* which starts no job after a stop request; and the set-up of the hosts   *)
(* (HostBootstrap), which may break off anywhere and be repeated without   *)
(* overruling the operator or making a second secret.                      *)
(***************************************************************************)
EXTENDS WorkerScheduler, HostBootstrap, FiniteSetTheorems, TLAPS

-----------------------------------------------------------------------------
\* WorkerScheduler

\* What SchedulerInv leaves out and its proof needs: a task at work is in
\* active_tasks, only a claim under way has a state, and the tasks that are being
\* cancelled hold no more slots than there are.
SchedulerIInv ==
    /\ SchedulerInv
    /\ Live \subseteq active
    /\ loop # "claiming" => claim = "nothing"
    /\ loop = "cancelling" => slots + Cardinality(Live) <= Concurrency

-----------------------------------------------------------------------------
\* The tasks at work, counted

\* Sets of tasks are finite and have at most Concurrency members.
LEMMA TaskSets ==
  ASSUME NEW A \in SUBSET Tasks, NEW B \in SUBSET Tasks
  PROVE  /\ IsFiniteSet(A) /\ Cardinality(A) \in 0..Concurrency
         /\ A \subseteq B => Cardinality(A) <= Cardinality(B)
<1>1. IsFiniteSet(Tasks) /\ Cardinality(Tasks) = Concurrency
  BY SchedulerAssumption, FS_Interval DEF Tasks
<1>2. IsFiniteSet(A) /\ IsFiniteSet(B) /\ Cardinality(A) <= Concurrency
  <2>1. A \subseteq Tasks /\ B \subseteq Tasks
    OBVIOUS
  <2> QED BY <2>1, <1>1, FS_Subset
<1>3. A \subseteq B => Cardinality(A) <= Cardinality(B)
  BY <1>2, FS_Subset
<1> QED BY <1>2, <1>3, FS_CardinalityType, SchedulerAssumption

\* A task that begins its work or ends it moves the number of them by one.
LEMMA TasksMove ==
  ASSUME NEW A \in SUBSET Tasks, NEW t \in Tasks
  PROVE  /\ t \notin A => Cardinality(A \union {t}) = Cardinality(A) + 1
         /\ t \in A => Cardinality(A \ {t}) = Cardinality(A) - 1
BY TaskSets, FS_AddElement, FS_RemoveElement

\* A step that leaves the tasks alone leaves Live alone.
LEMMA LiveKept == ASSUME UNCHANGED task PROVE Live' = Live
BY DEF Live

\* What is known of Live where the tasks are well typed, here and after a step.
LEMMA LiveCounted ==
  ASSUME Live \subseteq Tasks, active \subseteq Tasks
  PROVE  /\ Cardinality(Live) \in 0..Concurrency /\ Cardinality(active) \in 0..Concurrency
         /\ Live \subseteq active => Cardinality(Live) <= Cardinality(active)
BY TaskSets

-----------------------------------------------------------------------------
\* The invariant

\* The scheduler's invariant holds at the start.
LEMMA SchedulerStarts == ASSUME SchedulerInit PROVE SchedulerIInv
<1>1. Live = {} /\ Cardinality(Live) = 0 /\ Cardinality(active) = 0
  BY FS_EmptySet DEF SchedulerInit, Live
<1>2. SchedulerTypeOK
  <2>1. task \in [Tasks -> [state : {"none", "created", "running", "done"},
                           job : Jobs \union {None}]]
    BY DEF SchedulerInit
  <2>2. pause \in BOOLEAN /\ stop \in BOOLEAN
    BY Zenon DEF SchedulerInit
  <2> QED BY <2>1, <2>2, SchedulerAssumption DEF SchedulerInit, SchedulerTypeOK
<1> QED BY <1>1, <1>2, SchedulerAssumption
        DEF SchedulerInit, SchedulerIInv, SchedulerInv, SlotsAccounted,
            SlotAtHand, ClosedIsQuiet

\* The steps of the loop and of the claim.
LEMMA LoopKeeps ==
  ASSUME SchedulerIInv, LoopStep \/ SpringAnswers \/ GraceExpires \/ RequestStop
  PROVE  SchedulerIInv'
<1> USE SchedulerAssumption
        DEF SchedulerIInv, SchedulerInv, SchedulerTypeOK, SlotsAccounted, SlotAtHand,
            ClosedIsQuiet
<1>a. /\ Live \subseteq Tasks /\ Cardinality(Live) \in 0..Concurrency
      /\ Cardinality(active) \in 0..Concurrency
      /\ Cardinality(Live) <= Cardinality(active)
  <2>1. Live \subseteq Tasks
    BY DEF Live
  <2> QED BY <2>1, LiveCounted
<1>1. CASE StartClaim
  BY <1>1, <1>a, LiveKept DEF StartClaim, LimitReached
<1>2. CASE RunPayload
  <2>1. PICK t \in Tasks \ active :
          /\ task' = [task EXCEPT ![t] = [state |-> "created", job |-> claim]]
          /\ active' = active \union {t}
    BY <1>2 DEF RunPayload
  <2>2. Live' = Live \union {t} /\ Cardinality(Live') = Cardinality(Live) + 1
    <3>1. Live' = Live \union {t}
      BY <2>1 DEF Live
    <3> QED BY <3>1, <1>a, TasksMove
  <2>3. active' \subseteq Tasks /\ Live' \subseteq active'
    BY <2>1, <2>2
  <2>4. Cardinality(Live') <= Cardinality(active') /\ Cardinality(active') \in 0..Concurrency
    BY <2>3, TaskSets
  <2>5. SchedulerTypeOK'
    BY <1>2, <2>1 DEF RunPayload
  <2> QED BY <1>2, <1>a, <2>2, <2>3, <2>4, <2>5 DEF RunPayload
<1>3. CASE GiveBack
  BY <1>3, <1>a, LiveKept DEF GiveBack
<1>4. CASE DropClaim
  <2>1. queue' \in [Jobs -> {"waiting", "leased", "ended"}]
    BY <1>4 DEF DropClaim
  <2> QED BY <1>4, <1>a, <2>1, LiveKept DEF DropClaim
<1>5. CASE AllBusy
  BY <1>5, LiveKept DEF AllBusy
<1>6. CASE Resume
  <2>1. active' \subseteq Tasks /\ Live' = Live /\ Live' \subseteq active'
    BY <1>6, LiveKept DEF Resume, Prune, Live
  <2>2. Cardinality(Live') <= Cardinality(active') /\ Cardinality(active') \in 0..Concurrency
    BY <2>1, <1>a, TaskSets
  <2>3. pause' \in BOOLEAN
    BY <1>6, Zenon DEF Resume
  <2> QED BY <1>6, <1>a, <2>1, <2>2, <2>3 DEF Resume
<1>7. CASE Leave
  BY <1>7, LiveKept DEF Leave
<1>8. CASE Close
  BY <1>8, LiveKept DEF Close
<1>9. CASE SpringAnswers
  BY <1>9, LiveKept DEF SpringAnswers
<1>10. CASE GraceExpires
  BY <1>10, <1>a, LiveKept DEF GraceExpires
<1>11. CASE RequestStop
  <2>1. stop' \in BOOLEAN
    BY <1>11, Zenon DEF RequestStop
  <2> QED BY <1>11, <2>1, LiveKept DEF RequestStop
<1> QED BY <1>1, <1>2, <1>3, <1>4, <1>5, <1>6, <1>7, <1>8, <1>9, <1>10, <1>11 DEF LoopStep

\* The steps of a task.
LEMMA TaskKeeps ==
  ASSUME SchedulerIInv, NEW t \in Tasks, TaskStep(t)
  PROVE  SchedulerIInv'
<1> USE SchedulerAssumption
        DEF SchedulerIInv, SchedulerInv, SchedulerTypeOK, SlotsAccounted, SlotAtHand,
            ClosedIsQuiet
<1>a. /\ Live \subseteq Tasks /\ Cardinality(Live) \in 0..Concurrency
      /\ Cardinality(active) \in 0..Concurrency
  <2>1. Live \subseteq Tasks
    BY DEF Live
  <2> QED BY <2>1, LiveCounted
<1>1. CASE BeginJob(t)
  <2>1. t \in Live /\ loop # "closed"
    BY <1>1 DEF BeginJob, Live
  <2>2. task' = [task EXCEPT ![t] = [task[t] EXCEPT !.state = "running"]]
    BY <1>1 DEF BeginJob
  <2>3. Live' = Live
    BY <2>1, <2>2 DEF Live
  <2> QED BY <1>1, <2>1, <2>2, <2>3 DEF BeginJob
<1>2. CASE EndJob(t)
  <2>1. t \in Live /\ loop # "closed"
    BY <1>2 DEF EndJob, Live
  <2>2. task' = [task EXCEPT ![t] = [task[t] EXCEPT !.state = "done"]]
    BY <1>2 DEF EndJob
  <2>3. Live' = Live \ {t} /\ Cardinality(Live') = Cardinality(Live) - 1
    <3>1. Live' = Live \ {t}
      BY <2>1, <2>2 DEF Live
    <3> QED BY <3>1, <2>1, <1>a, TasksMove
  <2>4. Live' \subseteq Tasks /\ Cardinality(Live') \in 0..Concurrency
    BY <2>3, <1>a, TaskSets
  <2>5. slots + Cardinality(Live) <= Concurrency
    BY <1>2, <1>a, <2>1 DEF EndJob
  <2>6. slots' = slots + 1 /\ loop' = loop /\ active' = active /\ claim' = claim
    BY <1>2 DEF EndJob
  <2>7. SchedulerTypeOK'
    BY <1>2, <1>a, <2>2, <2>3, <2>4, <2>5, <2>6 DEF EndJob
  <2> QED BY <1>a, <2>1, <2>3, <2>4, <2>5, <2>6, <2>7
<1>3. CASE CancelledTaskEnds(t)
  <2>1. t \in Live /\ loop = "cancelling"
    BY <1>3 DEF CancelledTaskEnds
  <2>2. task' = [task EXCEPT ![t] = [task[t] EXCEPT !.state = "done"]]
    BY <1>3 DEF CancelledTaskEnds
  <2>3. Live' = Live \ {t} /\ Cardinality(Live') = Cardinality(Live) - 1
    <3>1. Live' = Live \ {t}
      BY <2>1, <2>2 DEF Live
    <3> QED BY <3>1, <2>1, <1>a, TasksMove
  <2>4. Live' \subseteq Tasks /\ Cardinality(Live') \in 0..Concurrency
    BY <2>3, <1>a, TaskSets
  <2> QED BY <1>3, <1>a, <2>1, <2>2, <2>3, <2>4 DEF CancelledTaskEnds
<1> QED BY <1>1, <1>2, <1>3 DEF TaskStep

\* A process that is killed or started has no task.
LEMMA ProcessKeeps ==
  ASSUME SchedulerIInv, Kill \/ Restart \/ \E j \in Jobs : LeaseLapses(j)
  PROVE  SchedulerIInv'
<1> USE SchedulerAssumption
        DEF SchedulerIInv, SchedulerInv, SchedulerTypeOK, SlotsAccounted, SlotAtHand,
            ClosedIsQuiet
<1>1. CASE Kill \/ Restart
  <2>1. task' = [t \in Tasks |-> [state |-> "none", job |-> None]] /\ active' = {}
    BY <1>1 DEF Kill, Restart, Fresh
  <2>2. Live' = {}
    BY <2>1 DEF Live
  <2>3. Cardinality(Live') = 0 /\ Cardinality(active') = 0
    BY <2>1, <2>2, FS_EmptySet
  <2>4. CASE Kill
    BY <2>1, <2>2, <2>3, <2>4 DEF Kill
  <2>5. CASE Restart
    <3>1. pause' \in BOOLEAN /\ stop' \in BOOLEAN
      BY <2>5, Zenon DEF Restart, Fresh
    <3> QED BY <2>1, <2>2, <2>3, <2>5, <3>1 DEF Restart, Fresh
  <2> QED BY <1>1, <2>4, <2>5
<1>2. CASE \E j \in Jobs : LeaseLapses(j)
  BY <1>2, LiveKept DEF LeaseLapses
<1> QED BY <1>1, <1>2

\* SchedulerIInv is inductive.
LEMMA SchedulerInvariance == SchedulerSpec => []SchedulerIInv
<1>1. SchedulerInit => SchedulerIInv
  BY SchedulerStarts
<1>2. SchedulerIInv /\ [SchedulerNext]_scheduler => SchedulerIInv'
  <2> SUFFICES ASSUME SchedulerIInv, [SchedulerNext]_scheduler PROVE SchedulerIInv'
    OBVIOUS
  <2>1. CASE UNCHANGED scheduler
    BY <2>1, LiveKept
       DEF scheduler, SchedulerIInv, SchedulerInv, SchedulerTypeOK, SlotsAccounted,
           SlotAtHand, ClosedIsQuiet
  <2> QED BY <2>1, LoopKeeps, TaskKeeps, ProcessKeeps DEF SchedulerNext
<1> QED BY <1>1, <1>2, PTL DEF SchedulerSpec

\* Every slot is free, held by the claim or held by one task; the loop has a slot at
\* hand when it claims, and the clients of the worker are closed with no job at work:
\* for any number of slots and jobs (run_worker_loop, _async_main).
THEOREM SlotsHold == SchedulerSpec => []SchedulerInv
<1>1. SchedulerIInv => SchedulerInv
  BY DEF SchedulerIInv
<1> QED BY <1>1, SchedulerInvariance, PTL

-----------------------------------------------------------------------------
\* Once the stop event is set, no step but a new process creates a task: the payload
\* of a claim is looked at after the event.
LEMMA StoppedStep ==
  ASSUME SchedulerIInv, SchedulerNext, stop, stop'
  PROVE  Live' \subseteq Live
<1>1. CASE LoopStep \/ SpringAnswers \/ GraceExpires \/ RequestStop
  <2>1. UNCHANGED task
    BY <1>1 DEF LoopStep, StartClaim, RunPayload, GiveBack, DropClaim, AllBusy, Resume,
                Leave, Close, SpringAnswers, GraceExpires, RequestStop
  <2> QED BY <2>1, LiveKept
<1>2. ASSUME NEW t \in Tasks, TaskStep(t) PROVE Live' \subseteq Live
  <2>1. PICK s \in {"running", "done"} : task' = [task EXCEPT ![t].state = s]
    BY <1>2 DEF TaskStep, BeginJob, EndJob, CancelledTaskEnds
  <2>2. t \in Live
    BY <1>2 DEF TaskStep, BeginJob, EndJob, CancelledTaskEnds, Live
  <2>3. \A u \in Tasks : task'[u].state = IF u = t THEN s ELSE task[u].state
    BY <2>1 DEF SchedulerIInv, SchedulerInv, SchedulerTypeOK
  <2> QED BY <2>2, <2>3 DEF Live
<1>3. CASE Kill
  BY <1>3 DEF Kill, Live
<1>4. CASE Restart
  BY <1>4 DEF Restart, Fresh
<1>5. CASE \E j \in Jobs : LeaseLapses(j)
  BY <1>5, LiveKept DEF LeaseLapses
<1> QED BY <1>1, <1>2, <1>3, <1>4, <1>5 DEF SchedulerNext

\* After a stop request no job is started, not even one that Spring has just handed
\* out (the checks of stop_event around the claim in run_worker_loop).
THEOREM StopStartsNothing == SchedulerSpec => StoppedStartsNothing
<1>1. SchedulerIInv /\ [SchedulerNext]_scheduler
        => [stop /\ stop' => Live' \subseteq Live]_scheduler
  BY StoppedStep
<1> QED BY <1>1, SchedulerInvariance, PTL DEF SchedulerSpec, StoppedStartsNothing

-----------------------------------------------------------------------------
\* HostBootstrap: its invariant

\* The services of the AI host, and what the env files, the state files and the runs hold.
Services == {"chat", "retrieval"}
ServiceEnv == [on : BOOLEAN, marker : BOOLEAN]
ApiEnv == [secret : Nat, ops : BOOLEAN, public : {"unset", "off", "on"}, marker : BOOLEAN,
           activation : Nat]
Envs == [chat : ServiceEnv, retrieval : ServiceEnv, api : ApiEnv]
ApiState == [prepared : BOOLEAN,
             changes : [due : BOOLEAN, secret : Nat, close : BOOLEAN],
             restart : BOOLEAN, pending : BOOLEAN, activation : Nat]
States == [ai : BOOLEAN, api : ApiState]
Runs == [pc : {"begun", "chat", "retrieval", "intended", "written", "served"}, mode : Modes,
         state : States, config : Envs, text : Envs]

\* The types of the state.
BootstrapTypes ==
  /\ env \in Envs /\ saved \in States /\ serving \in ApiEnv
  /\ hostLock \in [{"ai", "api"} -> Rollouts \union {NoRollout}]
  /\ run \in [Rollouts -> {AtRest} \union Runs]
  /\ edits \in [Switches -> Nat] /\ offs \subseteq Switches
  /\ minted \in Nat

\* Who is at work holds the lock of its host, and on the API knows the saved state.
Locked(r) ==
  run[r] # AtRest =>
    /\ hostLock[Host(run[r].mode)] = r
    /\ run[r].mode # "prepare_ai" => run[r].state.api = saved.api

\* The file of service k will be replaced by what run r has read of it.
WillReplace(r, k) ==
  \/ Doing(r, "prepare_ai", "begun")
  \/ k = "retrieval" /\ Doing(r, "prepare_ai", "chat")

\* What the script and the operator have made of the file of a service.
ServiceKept(k) ==
  /\ env[k].marker /\ edits[k] = 0 => env[k].on
  /\ saved.ai => env[k].marker
  /\ k \in offs => env[k].marker /\ ~env[k].on

\* What a run knows of it.
ServiceRead(r, k) ==
  /\ WillReplace(r, k) =>
       /\ edits[k] = 0 => run[r].text[k] = env[k]
       /\ run[r].text[k].marker => env[k].marker
       /\ run[r].state.ai => run[r].text[k].marker
       /\ k \in offs => run[r].text[k].marker /\ ~run[r].text[k].on
  /\ ~WillReplace(r, k) /\ run[r] # AtRest /\ run[r].mode = "prepare_ai" => env[k].marker

\* The saved changes, the env of the API and its container fit together.
SecretKept ==
  /\ secrets = {env.api.secret} \ {0}
  /\ saved.api.changes.due =>
       IF saved.api.changes.secret = 0 THEN env.api.secret # 0
       ELSE env.api.secret \in {0, saved.api.changes.secret}
  /\ env.api.marker => env.api.secret # 0

PreparedKept ==
  /\ saved.api.prepared => env.api.marker /\ ~saved.api.changes.due
  /\ env.api.marker => saved.api.prepared \/ saved.api.changes.due
  /\ env.api.marker /\ edits["ops"] = 0 => env.api.ops
  /\ env.api.activation # 0 => /\ saved.api.prepared
                               /\ env.api.activation = saved.api.activation
                               /\ edits["public"] = 0 => env.api.public = "on"

ServedKept ==
  /\ \/ saved.api.changes.due /\ saved.api.restart
     \/ /\ serving.secret = env.api.secret
        /\ edits["ops"] = 0 => serving.ops = env.api.ops
  /\ saved.api.changes.due /\ ~saved.api.restart =>
       saved.api.changes.secret = 0 /\ (edits["ops"] = 0 => env.api.ops)
  /\ edits["public"] = 0 /\ env.api.public = "on" /\ env.api.activation = 0 =>
       serving.public = "on"
  /\ (saved.api.prepared \/ saved.api.changes.due) /\ ~saved.api.pending
       /\ edits["public"] = 0 =>
          /\ env.api.public = "on" /\ serving.public = "on"
          /\ saved.api.changes.due => ~saved.api.changes.close

OffsKept ==
  /\ "ops" \in offs => env.api.marker /\ ~env.api.ops
  /\ "public" \in offs => env.api.activation # 0 /\ env.api.public # "on"

\* What was read of the env of the API, when only the operator has changed it since.
SameApi(read) ==
  /\ read.secret = env.api.secret /\ read.marker = env.api.marker
  /\ read.activation = env.api.activation
  /\ edits["ops"] = 0 => read.ops = env.api.ops
  /\ edits["public"] = 0 => read.public = env.api.public

\* How far a run has got on the API, and what it has read.
ApiRun(r) ==
  /\ run[r] # AtRest /\ run[r].mode # "prepare_ai" /\ run[r].pc = "begun" =>
       SameApi(run[r].config.api)
  /\ Doing(r, "prepare_api", "intended") =>
       /\ saved.api.changes.due /\ ~saved.api.prepared /\ ~env.api.marker
       /\ SameApi(run[r].text.api)
  /\ Doing(r, "prepare_api", "written") \/ Doing(r, "prepare_api", "served") =>
       saved.api.changes.due /\ ~saved.api.prepared /\ env.api.marker
  /\ Doing(r, "prepare_api", "served") =>
       serving.secret = env.api.secret /\ (edits["ops"] = 0 => serving.ops = env.api.ops)
  /\ Doing(r, "activate_api", "intended") =>
       /\ saved.api.prepared /\ env.api.activation = 0 /\ saved.api.activation # 0
       /\ SameApi(run[r].text.api)
       /\ "ops" \in offs => ~run[r].text.api.ops
  /\ Doing(r, "activate_api", "written") \/ Doing(r, "activate_api", "served") =>
       saved.api.prepared /\ env.api.activation # 0

-----------------------------------------------------------------------------
\* The lock of a run's host is one of the two.
LEMMA HostOfMode == \A mode \in Modes : Host(mode) \in {"ai", "api"}
BY DEF Modes, Host

\* What pendingChanges and updated_env produce is of the shape of the state and the env.
LEMMA ChangedTypes ==
  ASSUME NEW config \in ApiEnv, NEW text \in ApiEnv, minted \in Nat
  PROVE  /\ Changes(config, text) \in [due : BOOLEAN, secret : Nat, close : BOOLEAN]
         /\ \A c \in [due : BOOLEAN, secret : Nat, close : BOOLEAN] :
              Updated(text, c) \in ApiEnv
<1>1. Changes(config, text) \in [due : BOOLEAN, secret : Nat, close : BOOLEAN]
  BY DEF Changes, ApiEnv
<1>2. ASSUME NEW c \in [due : BOOLEAN, secret : Nat, close : BOOLEAN]
      PROVE  Updated(text, c) \in ApiEnv
  <2>1. (IF c.secret = 0 THEN text.secret ELSE c.secret) \in Nat
    BY DEF ApiEnv
  <2>2. (IF c.close THEN "off" ELSE text.public) \in {"unset", "off", "on"}
    BY DEF ApiEnv
  <2>3. Updated(text, c) =
          [text EXCEPT !.ops = TRUE, !.marker = TRUE,
                       !.secret = IF c.secret = 0 THEN text.secret ELSE c.secret,
                       !.public = IF c.close THEN "off" ELSE text.public]
    BY DEF Updated, ApiEnv
  <2> DEFINE secret == IF c.secret = 0 THEN text.secret ELSE c.secret
             public == IF c.close THEN "off" ELSE text.public
  <2>4. secret \in Nat /\ public \in {"unset", "off", "on"}
    BY <2>1, <2>2
  <2>5. Updated(text, c) = [text EXCEPT !.ops = TRUE, !.marker = TRUE, !.secret = secret,
                                        !.public = public]
    BY <2>3
  <2> HIDE DEF secret, public
  <2>6. [text EXCEPT !.ops = TRUE, !.marker = TRUE, !.secret = secret, !.public = public]
          \in ApiEnv
    BY <2>4 DEF ApiEnv
  <2> QED BY <2>5, <2>6
<1> QED BY <1>1, <1>2

\* The types are kept.
LEMMA TypesStep ==
  ASSUME BootstrapTypes, [BootstrapNext]_bootstrap
  PROVE  BootstrapTypes'
<1> USE DEF BootstrapTypes
<1>1. ASSUME NEW r \in Rollouts, NEW mode \in Modes, BeginRun(r, mode)
      PROVE  BootstrapTypes'
  <2>1. [pc |-> "begun", mode |-> mode, state |-> saved, config |-> env, text |-> env] \in Runs
    BY DEF Runs
  <2> QED BY <1>1, <2>1, HostOfMode DEF BeginRun
<1>2. ASSUME NEW r \in Rollouts, run[r] # AtRest
      PROVE  /\ run[r] \in Runs
             /\ \A pc \in {"chat", "retrieval", "intended", "written", "served"} :
                  [run[r] EXCEPT !.pc = pc] \in Runs
             /\ Host(run[r].mode) \in {"ai", "api"}
  BY <1>2, HostOfMode DEF Runs
<1>3. ASSUME NEW r \in Rollouts, run[r] # AtRest, EndRun(r)
      PROVE  /\ run' \in [Rollouts -> {AtRest} \union Runs]
             /\ hostLock' \in [{"ai", "api"} -> Rollouts \union {NoRollout}]
  BY <1>2, <1>3 DEF EndRun
<1>4. ASSUME NEW r \in Rollouts, run[r] # AtRest,
             NEW pc \in {"chat", "retrieval", "intended", "written", "served"}, GoTo(r, pc)
      PROVE  run' \in [Rollouts -> {AtRest} \union Runs]
  BY <1>2, <1>4 DEF GoTo
<1>5. ASSUME NEW api \in ApiState, NEW r \in Rollouts, SaveApi(r, api)
      PROVE  saved' \in States
  BY <1>5 DEF SaveApi, States
<1>6. ASSUME NEW r \in Rollouts, NEW mode, NEW pc, Doing(r, mode, pc), pc # "idle"
      PROVE  run[r] # AtRest
  BY <1>6 DEF Doing, AtRest
<1>7. ASSUME NEW r \in Rollouts, BreakOff(r) PROVE BootstrapTypes'
  BY <1>3, <1>7 DEF BreakOff
<1>8. ASSUME NEW r \in Rollouts, NEW k \in {"chat", "retrieval"}, WriteService(r, k)
      PROVE  BootstrapTypes'
  <2>1. run[r] # AtRest BY <1>6, <1>8 DEF WriteService
  <2>2. run[r].text[k] \in ServiceEnv BY <1>2, <2>1 DEF Runs, Envs
  <2> DEFINE new == [on |-> run[r].text[k].on \/ FirstTime(r, k), marker |-> TRUE]
  <2>3. new \in ServiceEnv
    BY <2>2, <1>2, <2>1 DEF ServiceEnv, FirstTime, Runs, States
  <2> HIDE DEF new
  <2>4. [env EXCEPT ![k] = new] \in Envs BY <2>3 DEF Envs
  <2>5. env' \in Envs BY <1>8, <2>4 DEF WriteService, new
  <2> QED BY <1>4, <1>8, <2>1, <2>5 DEF WriteService
<1>9. ASSUME NEW r \in Rollouts, SaveInitialized(r) PROVE BootstrapTypes'
  <2>1. run[r] # AtRest BY <1>6, <1>9 DEF SaveInitialized
  <2>2. [saved EXCEPT !.ai = TRUE] \in States BY DEF States
  <2> QED BY <1>3, <1>9, <2>1, <2>2 DEF SaveInitialized
<1>10. ASSUME NEW r \in Rollouts, NEW api \in ApiState, run[r] # AtRest
       PROVE [run[r] EXCEPT !.pc = "intended", !.state.api = api, !.text = env] \in Runs
  <2>1. [run[r].state EXCEPT !.api = api] \in States
    BY <1>2, <1>10 DEF Runs, States
  <2>2. \A state \in States :
          [run[r] EXCEPT !.pc = "intended", !.state = state, !.text = env] \in Runs
    BY <1>2, <1>10 DEF Runs
  <2>3. [run[r] EXCEPT !.pc = "intended", !.state.api = api, !.text = env] =
          [run[r] EXCEPT !.pc = "intended", !.state = [run[r].state EXCEPT !.api = api],
                         !.text = env]
    BY <1>2, <1>10 DEF Runs
  <2> QED BY <2>1, <2>2, <2>3
<1>11. ASSUME NEW r \in Rollouts, IntendChanges(r) PROVE BootstrapTypes'
  <2> DEFINE config == run[r].config.api
             api == [run[r].state.api EXCEPT !.changes = Changes(config, env.api),
                                      !.restart = config.secret = 0 \/ ~config.ops,
                                      !.pending = config.public # "on"]
  <2>1. run[r] # AtRest BY <1>6, <1>11 DEF IntendChanges
  <2>2. config \in ApiEnv /\ run[r].state.api \in ApiState /\ env.api \in ApiEnv
    BY <1>2, <2>1 DEF Runs, Envs, States
  <2>3. Changes(config, env.api) \in [due : BOOLEAN, secret : Nat, close : BOOLEAN]
    BY <2>2, ChangedTypes
  <2>4. api \in ApiState BY <2>2, <2>3 DEF ApiState, ApiEnv
  <2>5. /\ run' = [run EXCEPT ![r].pc = "intended", ![r].state.api = api, ![r].text = env]
        /\ SaveApi(r, api) /\ minted' = minted + 1
    BY <1>11 DEF IntendChanges
  <2> HIDE DEF api, config
  <2>6. run' \in [Rollouts -> {AtRest} \union Runs] BY <1>10, <2>1, <2>4, <2>5
  <2> QED BY <1>5, <1>11, <2>4, <2>5, <2>6 DEF IntendChanges
<1>12. ASSUME NEW r \in Rollouts, TakeUpChanges(r) PROVE BootstrapTypes'
  <2>1. run[r] # AtRest BY <1>6, <1>12 DEF TakeUpChanges
  <2>2. ASSUME NEW pc \in {"written", "intended"}
        PROVE  [run[r] EXCEPT !.pc = pc, !.text = env] \in Runs
    BY <1>2, <2>1 DEF Runs
  <2> QED BY <1>12, <2>2 DEF TakeUpChanges
<1>13. ASSUME NEW r \in Rollouts, WriteChanges(r) PROVE BootstrapTypes'
  <2>1. run[r] # AtRest BY <1>6, <1>13 DEF WriteChanges
  <2>2. Updated(run[r].text.api, run[r].state.api.changes) \in ApiEnv
    BY <1>2, <2>1, ChangedTypes DEF Runs, Envs, States, ApiState
  <2>3. env' \in Envs BY <1>13, <2>2 DEF WriteChanges, Envs
  <2> QED BY <1>4, <1>13, <2>1, <2>3 DEF WriteChanges
<1>14. ASSUME NEW r \in Rollouts, RecreateApi(r) \/ RestartApi(r) PROVE BootstrapTypes'
  <2>1. run[r] # AtRest BY <1>6, <1>14 DEF RecreateApi, RestartApi
  <2>2. env.api \in ApiEnv BY DEF Envs
  <2> QED BY <1>4, <1>14, <2>1, <2>2 DEF RecreateApi, RestartApi
<1>15. ASSUME NEW r \in Rollouts,
              \/ SavePrepared(r) \/ FindPrepared(r) \/ LeaveAsItIs(r) \/ SaveActivated(r)
              \/ NothingToActivate(r)
       PROVE  BootstrapTypes'
  <2>1. run[r] # AtRest
    BY <1>6, <1>15 DEF SavePrepared, FindPrepared, LeaveAsItIs, SaveActivated,
                       NothingToActivate, MayActivate
  <2>2. run[r].state.api \in ApiState BY <1>2, <2>1 DEF Runs, States
  <2>3. /\ [run[r].state.api EXCEPT !.changes = NoChange, !.restart = FALSE,
                                    !.prepared = TRUE] \in ApiState
        /\ [run[r].state.api EXCEPT !.pending = FALSE] \in ApiState
    BY <2>2 DEF ApiState, NoChange
  <2>4. saved' \in States
    BY <1>5, <1>15, <2>3 DEF SavePrepared, FindPrepared, LeaveAsItIs, SaveActivated,
                             NothingToActivate
  <2> QED
    BY <1>3, <1>15, <2>1, <2>4 DEF SavePrepared, FindPrepared, LeaveAsItIs, SaveActivated,
                                   NothingToActivate
<1>16. ASSUME NEW r \in Rollouts, IntendActivation(r) PROVE BootstrapTypes'
  <2> DEFINE old == run[r].state.api.activation
             id == IF old # 0 THEN old ELSE minted + 1
             api == [run[r].state.api EXCEPT !.activation = id]
  <2>1. run[r] # AtRest BY <1>6, <1>16 DEF IntendActivation, MayActivate
  <2>2. run[r].state.api \in ApiState BY <1>2, <2>1 DEF Runs, States
  <2>3. id \in Nat BY <2>2 DEF ApiState
  <2>4. /\ run' = [run EXCEPT ![r].pc = "intended", ![r].state.api = api, ![r].text = env]
        /\ SaveApi(r, api) /\ minted' \in {minted, minted + 1}
    BY <1>16 DEF IntendActivation
  <2> HIDE DEF id
  <2>5. api \in ApiState BY <2>2, <2>3 DEF ApiState
  <2> HIDE DEF api
  <2>6. run' \in [Rollouts -> {AtRest} \union Runs] BY <1>10, <2>1, <2>4, <2>5
  <2> QED BY <1>5, <1>16, <2>4, <2>5, <2>6 DEF IntendActivation
<1>17. ASSUME NEW r \in Rollouts, WriteActivation(r) PROVE BootstrapTypes'
  <2>1. run[r] # AtRest BY <1>6, <1>17 DEF WriteActivation
  <2>2. run[r].text.api \in ApiEnv /\ run[r].state.api.activation \in Nat
    BY <1>2, <2>1 DEF Runs, Envs, States, ApiState
  <2>3. [run[r].text.api EXCEPT !.public = "on",
                                !.activation = run[r].state.api.activation] \in ApiEnv
    BY <2>2 DEF ApiEnv
  <2>4. env' \in Envs BY <1>17, <2>3 DEF WriteActivation, Envs
  <2> QED BY <1>4, <1>17, <2>1, <2>4 DEF WriteActivation
<1>18. ASSUME NEW r \in Rollouts, TakeUpActivation(r) PROVE BootstrapTypes'
  BY <1>4, <1>6, <1>18 DEF TakeUpActivation, MayActivate
<1>19. ASSUME DeployApi PROVE BootstrapTypes'
  BY <1>19 DEF DeployApi, Envs
<1>20. ASSUME NEW k \in Switches, Turn(k) PROVE BootstrapTypes'
  <2>1. env' \in Envs
    BY <1>20 DEF Turn, Envs, ServiceEnv, ApiEnv, Switches
  <2> QED BY <1>20, <2>1 DEF Turn, Switches
<1> QED
  BY <1>1, <1>7, <1>8, <1>9, <1>11, <1>12, <1>13, <1>14, <1>15, <1>16, <1>17, <1>18, <1>19,
     <1>20 DEF BootstrapNext, bootstrap

-----------------------------------------------------------------------------
\* The lock

Lockeds == \A r \in Rollouts : Locked(r)

\* Two runs at work are on two hosts.
LEMMA OneRun ==
  ASSUME Lockeds, NEW r \in Rollouts, NEW q \in Rollouts, run[r] # AtRest, run[q] # AtRest,
         Host(run[r].mode) = Host(run[q].mode)
  PROVE  q = r
BY DEF Lockeds, Locked

\* The lock of a host is held as long as its run is at work, and what the run knows of
\* the API's state is what is saved.
LEMMA LockedStep ==
  ASSUME BootstrapTypes, Lockeds, [BootstrapNext]_bootstrap
  PROVE  Lockeds'
<1>1. ASSUME NEW r \in Rollouts, NEW mode, NEW pc, Doing(r, mode, pc), pc # "idle"
      PROVE  run[r] # AtRest
  BY <1>1 DEF Doing, AtRest
<1>2. ASSUME NEW r \in Rollouts, run[r] # AtRest
      PROVE  /\ run[r] \in Runs /\ run[r].pc # "idle" /\ run[r].mode \in Modes
             /\ hostLock[Host(run[r].mode)] = r
             /\ run[r].mode # "prepare_ai" => run[r].state.api = saved.api
  BY <1>2 DEF BootstrapTypes, Runs, Lockeds, Locked
<1>3. NoRollout \notin Rollouts
  BY RolloutsAssumption
<1>4. ASSUME NEW r \in Rollouts, run[r] # AtRest, EndRun(r), saved'.api = saved.api
      PROVE  Lockeds'
  <2>1. ASSUME NEW q \in Rollouts, q # r PROVE Locked(q)'
    BY <1>2, <1>4, <2>1, HostOfMode DEF Locked, EndRun, BootstrapTypes
  <2>2. Locked(r)'
    BY <1>4 DEF Locked, EndRun, BootstrapTypes
  <2> QED BY <2>1, <2>2 DEF Lockeds
<1>5. ASSUME NEW r \in Rollouts, run[r] # AtRest, EndRun(r), Host(run[r].mode) = "api",
             saved'.ai = saved.ai
      PROVE  Lockeds'
  <2>1. ASSUME NEW q \in Rollouts, q # r, run[q] # AtRest PROVE Locked(q)'
    <3>1. run[q].mode = "prepare_ai" BY <1>2, <1>5, <2>1, OneRun DEF Host, Modes
    <3> QED BY <1>2, <1>5, <2>1, <3>1 DEF Locked, EndRun, BootstrapTypes, Host
  <2>2. ASSUME NEW q \in Rollouts, q = r \/ run[q] = AtRest PROVE Locked(q)'
    BY <1>5, <2>2 DEF Locked, EndRun, BootstrapTypes
  <2> QED BY <2>1, <2>2 DEF Lockeds
\* The run stays where it is: what it knows is what is saved then.
<1>6. ASSUME NEW r \in Rollouts, run[r] # AtRest, UNCHANGED hostLock,
             run'[r] # AtRest, run'[r].mode = run[r].mode,
             \A q \in Rollouts \ {r} : run'[q] = run[q],
             \/ saved'.api = saved.api /\ run'[r].state = run[r].state
             \/ run[r].mode # "prepare_ai" /\ run'[r].state.api = saved'.api
      PROVE  Lockeds'
  <2>1. ASSUME NEW q \in Rollouts, q # r, run[q] # AtRest PROVE Locked(q)'
    <3>1. CASE run[r].mode = "prepare_ai" \/ run[q].mode = "prepare_ai"
      BY <1>2, <1>6, <2>1, <3>1 DEF Locked
    <3>2. CASE run[r].mode # "prepare_ai" /\ run[q].mode # "prepare_ai"
      BY <1>2, <1>6, <2>1, <3>2, OneRun DEF Host
    <3> QED BY <3>1, <3>2
  <2>2. ASSUME NEW q \in Rollouts, q # r, run[q] = AtRest PROVE Locked(q)'
    BY <1>6, <2>2 DEF Locked
  <2>3. Locked(r)'
    BY <1>2, <1>6 DEF Locked
  <2> QED BY <2>1, <2>2, <2>3 DEF Lockeds
<1>7. ASSUME NEW r \in Rollouts, NEW pc \in {"chat", "retrieval", "intended", "written", "served"},
             run[r] # AtRest, GoTo(r, pc), UNCHANGED <<hostLock, saved>>
      PROVE  Lockeds'
  <2>1. /\ run'[r] # AtRest /\ run'[r].mode = run[r].mode /\ run'[r].state = run[r].state
        /\ \A q \in Rollouts \ {r} : run'[q] = run[q]
    BY <1>2, <1>7 DEF GoTo, BootstrapTypes, Runs, AtRest
  <2> QED BY <1>6, <1>7, <2>1
<1>8. ASSUME NEW r \in Rollouts, NEW mode \in Modes, BeginRun(r, mode) PROVE Lockeds'
  <2>1. ASSUME NEW q \in Rollouts, q # r PROVE Locked(q)'
    BY <1>2, <1>3, <1>8, <2>1, HostOfMode DEF Locked, BeginRun, BootstrapTypes
  <2>2. Locked(r)'
    BY <1>8, HostOfMode DEF Locked, BeginRun, BootstrapTypes
  <2> QED BY <2>1, <2>2 DEF Lockeds
<1>9. ASSUME NEW r \in Rollouts, BreakOff(r) PROVE Lockeds'
  BY <1>4, <1>9 DEF BreakOff
<1>10. ASSUME NEW r \in Rollouts, NEW k \in {"chat", "retrieval"}, WriteService(r, k)
       PROVE  Lockeds'
  BY <1>1, <1>7, <1>10 DEF WriteService
<1>11. ASSUME NEW r \in Rollouts, SaveInitialized(r) PROVE Lockeds'
  BY <1>1, <1>4, <1>11 DEF SaveInitialized, BootstrapTypes, States
<1>12. ASSUME NEW r \in Rollouts,
              WriteChanges(r) \/ RecreateApi(r) \/ WriteActivation(r) \/ RestartApi(r)
                \/ TakeUpActivation(r)
       PROVE  Lockeds'
  BY <1>1, <1>7, <1>12 DEF WriteChanges, RecreateApi, WriteActivation, RestartApi,
                           TakeUpActivation, MayActivate
<1>13. ASSUME NEW r \in Rollouts,
              FindPrepared(r) \/ NothingToActivate(r)
       PROVE  Lockeds'
  BY <1>1, <1>4, <1>13 DEF FindPrepared, NothingToActivate
<1>14. ASSUME NEW r \in Rollouts, SavePrepared(r) \/ LeaveAsItIs(r) \/ SaveActivated(r)
       PROVE  Lockeds'
  <2>1. run[r] # AtRest /\ run[r].mode # "prepare_ai" /\ EndRun(r)
    BY <1>1, <1>14 DEF SavePrepared, LeaveAsItIs, SaveActivated, MayActivate, Doing
  <2>2. saved'.ai = saved.ai
    BY <1>14 DEF SavePrepared, LeaveAsItIs, SaveActivated, SaveApi, BootstrapTypes, States
  <2> QED BY <1>5, <2>1, <2>2 DEF Host
<1>15. ASSUME NEW r \in Rollouts, IntendChanges(r) \/ IntendActivation(r) PROVE Lockeds'
  <2>1. run[r] # AtRest /\ run[r].mode # "prepare_ai"
    BY <1>1, <1>15 DEF IntendChanges, IntendActivation, MayActivate, Doing
  <2>2. PICK api : /\ run' = [run EXCEPT ![r].pc = "intended", ![r].state.api = api,
                                         ![r].text = env]
                   /\ SaveApi(r, api)
    BY <1>15 DEF IntendChanges, IntendActivation
  <2>3. run'[r] = [run[r] EXCEPT !.pc = "intended", !.state.api = api, !.text = env]
    BY <2>2 DEF BootstrapTypes
  <2>4. run[r] \in Runs /\ run[r].state \in States /\ saved \in States
    BY <1>2, <2>1 DEF Runs, BootstrapTypes
  <2>5. run'[r].pc = "intended" /\ run'[r].mode = run[r].mode /\ run'[r].state.api = api
    BY <2>3, <2>4 DEF Runs, States
  <2>6. saved'.api = api
    BY <2>2, <2>4 DEF SaveApi, States
  <2>7. run'[r] # AtRest
    BY <2>5 DEF AtRest
  <2>8. \A q \in Rollouts \ {r} : run'[q] = run[q]
    BY <2>2 DEF BootstrapTypes
  <2> QED BY <1>6, <1>15, <2>1, <2>5, <2>6, <2>7, <2>8 DEF IntendChanges, IntendActivation
<1>16. ASSUME NEW r \in Rollouts, TakeUpChanges(r) PROVE Lockeds'
  <2>1. run[r] # AtRest /\ run[r].mode # "prepare_ai"
    BY <1>1, <1>16 DEF TakeUpChanges, Doing
  <2>2. PICK pc \in {"written", "intended"} :
          run' = [run EXCEPT ![r].pc = pc, ![r].text = env]
    BY <1>16 DEF TakeUpChanges
  <2>3. run[r] \in Runs
    BY <1>2, <2>1
  <2>4. /\ run'[r].pc = pc /\ run'[r].mode = run[r].mode /\ run'[r].state = run[r].state
        /\ \A q \in Rollouts \ {r} : run'[q] = run[q]
    BY <2>2, <2>3 DEF BootstrapTypes, Runs
  <2>5. run'[r] # AtRest
    BY <2>4 DEF AtRest
  <2> QED BY <1>6, <1>16, <2>1, <2>4, <2>5 DEF TakeUpChanges
<1>17. ASSUME UNCHANGED <<run, hostLock, saved>> PROVE Lockeds'
  BY <1>17 DEF Lockeds, Locked
<1> QED
  BY <1>8, <1>9, <1>10, <1>11, <1>12, <1>13, <1>14, <1>15, <1>16, <1>17
     DEF BootstrapNext, bootstrap, DeployApi, Turn

-----------------------------------------------------------------------------
\* The host of the chat and of the index

\* Both services, whatever any run is about to write.
ServicesInv == \A k \in Services : ServiceKept(k) /\ \A r \in Rollouts : ServiceRead(r, k)

\* What a step leaves alone of a service.
LEMMA ServiceUntouched ==
  ASSUME NEW k \in Services, NEW q \in Rollouts,
         ServiceKept(k), ServiceRead(q, k), env'[k] = env[k],
         UNCHANGED <<saved.ai, edits, offs>>,
         run'[q] = run[q] \/ run'[q] = AtRest
  PROVE  ServiceKept(k)' /\ ServiceRead(q, k)'
BY DEF ServiceKept, ServiceRead, WillReplace, Doing, AtRest, Services

\* A step of a run on the API touches no service.
LEMMA ServicesApart ==
  ASSUME ServicesInv, BootstrapTypes, NEW r \in Rollouts, run[r] # AtRest,
         run[r].mode # "prepare_ai", run'[r] = AtRest \/ run'[r].mode = run[r].mode,
         \A q \in Rollouts \ {r} : run'[q] = run[q],
         env' = [env EXCEPT !.api = env'.api], UNCHANGED <<saved.ai, edits, offs>>
  PROVE  ServicesInv'
<1>1. env'.chat = env.chat /\ env'.retrieval = env.retrieval
  BY DEF BootstrapTypes, Envs
<1>2. \A k \in Services : env'[k] = env[k]
  BY <1>1 DEF Services
<1>3. ASSUME NEW k \in Services PROVE ServiceKept(k)'
  BY <1>2 DEF ServicesInv, ServiceKept
<1>4. ASSUME NEW k \in Services, NEW q \in Rollouts \ {r} PROVE ServiceRead(q, k)'
  BY <1>2, ServiceUntouched DEF ServicesInv
<1>5. ASSUME NEW k \in Services PROVE ServiceRead(r, k)'
  BY DEF ServiceRead, WillReplace, Doing, AtRest
<1> QED BY <1>3, <1>4, <1>5 DEF ServicesInv

\* A service is switched on the first time only, and what the operator has made of it
\* since stands.
LEMMA ServicesStep ==
  ASSUME BootstrapTypes, Lockeds, ServicesInv, [BootstrapNext]_bootstrap
  PROVE  ServicesInv'
<1>1. ASSUME NEW r \in Rollouts, NEW mode, NEW pc, Doing(r, mode, pc), pc # "idle"
      PROVE  run[r] # AtRest
  BY <1>1 DEF Doing, AtRest
<1>2. ASSUME NEW r \in Rollouts, run[r] # AtRest
      PROVE  run[r] \in Runs /\ run[r].pc # "idle" /\ run[r].mode \in Modes
  BY <1>2 DEF BootstrapTypes, Runs
<1>3. ASSUME NEW r \in Rollouts, NEW mode \in Modes, BeginRun(r, mode) PROVE ServicesInv'
  <2>1. ASSUME NEW k \in Services, NEW q \in Rollouts \ {r} PROVE ServiceRead(q, k)'
    BY <1>3, ServiceUntouched DEF BeginRun, ServicesInv, BootstrapTypes
  <2>2. ASSUME NEW k \in Services PROVE ServiceKept(k)'
    BY <1>3 DEF BeginRun, ServicesInv, ServiceKept
  <2>3. ASSUME NEW k \in Services PROVE ServiceRead(r, k)'
    <3>1. run'[r] = [pc |-> "begun", mode |-> mode, state |-> saved, config |-> env,
                     text |-> env]
      BY <1>3 DEF BeginRun, BootstrapTypes
    <3>2. UNCHANGED <<env, saved, edits, offs>> /\ ServiceKept(k)
      BY <1>3 DEF BeginRun, ServicesInv
    <3> QED BY <3>1, <3>2 DEF ServiceRead, ServiceKept, WillReplace, Doing
  <2> QED BY <2>1, <2>2, <2>3 DEF ServicesInv
<1>4. ASSUME NEW r \in Rollouts, EndRun(r), UNCHANGED <<env, saved.ai, edits, offs>>
      PROVE  ServicesInv'
  BY <1>4, ServiceUntouched DEF EndRun, ServicesInv, BootstrapTypes
<1>5. ASSUME NEW r \in Rollouts, NEW s \in Services, WriteService(r, s) PROVE ServicesInv'
  <2> DEFINE old == run[r].text[s]
             new == [on |-> old.on \/ FirstTime(r, s), marker |-> TRUE]
  <2>1. /\ run[r] # AtRest /\ run[r].mode = "prepare_ai" /\ WillReplace(r, s)
        /\ s = "chat" => run[r].pc = "begun"
        /\ s = "retrieval" => run[r].pc = "chat"
    BY <1>1, <1>5 DEF WriteService, WillReplace, Doing, Services
  <2>2. run'[r] = [run[r] EXCEPT !.pc = s] /\ \A q \in Rollouts \ {r} : run'[q] = run[q]
    BY <1>5 DEF WriteService, GoTo, BootstrapTypes
  <2>3. UNCHANGED <<saved, edits, offs>>
    BY <1>5 DEF WriteService
  <2>4. env' = [env EXCEPT ![s] = new] \/ (new = old /\ env' = env)
    BY <1>5 DEF WriteService
  <2>5. /\ \A k \in Services \ {s} : env'[k] = env[k]
        /\ env'[s] = new \/ (new = old /\ env'[s] = env[s])
    BY <2>4 DEF BootstrapTypes, Envs, Services
  <2>6. old \in ServiceEnv /\ env[s] \in ServiceEnv /\ run[r].state.ai \in BOOLEAN
    BY <1>2, <2>1 DEF Runs, States, BootstrapTypes, Envs, Services
  <2>7. ServiceKept(s) /\ ServiceRead(r, s)
    BY DEF ServicesInv
  <2>8. new.marker /\ new.on = (old.on \/ (~run[r].state.ai /\ ~old.marker))
    BY DEF FirstTime
  <2> HIDE DEF new, old
  <2>9. /\ edits[s] = 0 => old = env[s]
        /\ old.marker => env[s].marker
        /\ run[r].state.ai => old.marker
        /\ s \in offs => old.marker /\ ~old.on
    BY <2>1, <2>7 DEF ServiceRead, old
  <2>10. /\ env'[s].marker
         /\ edits[s] = 0 => env'[s].on
         /\ s \in offs => ~env'[s].on
    <3>1. CASE env'[s] = new
      BY <2>6, <2>7, <2>8, <2>9, <3>1 DEF ServiceKept
    <3>2. CASE new = old /\ env'[s] = env[s]
      BY <2>6, <2>7, <2>8, <2>9, <3>2 DEF ServiceKept
    <3> QED BY <2>5, <3>1, <3>2
  <2>11. ASSUME NEW k \in Services PROVE ServiceKept(k)'
    <3>1. CASE k = s BY <2>3, <2>10, <3>1 DEF ServiceKept
    <3>2. CASE k # s BY <2>3, <2>5, <3>2 DEF ServiceKept, ServicesInv
    <3> QED BY <3>1, <3>2
  <2>12. ASSUME NEW k \in Services, NEW q \in Rollouts \ {r} PROVE ServiceRead(q, k)'
    <3>1. CASE run[q] = AtRest
      BY <2>2, <3>1 DEF ServiceRead, WillReplace, Doing, AtRest
    <3>2. CASE run[q] # AtRest
      <4>1. run[q].mode # "prepare_ai"
        BY <2>1, <3>2, OneRun
      <4> QED BY <2>2, <4>1 DEF ServiceRead, WillReplace, Doing
    <3> QED BY <3>1, <3>2
  <2>13. ASSUME NEW k \in Services PROVE ServiceRead(r, k)'
    <3>1. /\ run'[r].pc = s /\ run'[r].mode = "prepare_ai" /\ run'[r].text = run[r].text
          /\ run'[r].state = run[r].state
      BY <1>2, <2>1, <2>2 DEF Runs
    <3>2. CASE k = s
      BY <2>10, <3>1, <3>2 DEF ServiceRead, WillReplace, Doing, Services
    <3>3. CASE k # s
      <4>1. ServiceRead(r, k) /\ env'[k] = env[k]
        BY <2>5, <3>3 DEF ServicesInv
      <4>2. CASE s = "chat"
        <5>1. k = "retrieval" BY <3>3, <4>2 DEF Services
        <5> QED
          BY <2>1, <2>3, <3>1, <4>1, <4>2, <5>1 DEF ServiceRead, WillReplace, Doing
      <4>3. CASE s = "retrieval"
        <5>1. k = "chat" BY <3>3, <4>3 DEF Services
        <5> QED
          BY <2>1, <2>3, <3>1, <4>1, <4>3, <5>1 DEF ServiceRead, WillReplace, Doing
      <4> QED BY <4>2, <4>3 DEF Services
    <3> QED BY <3>2, <3>3
  <2> QED BY <2>11, <2>12, <2>13 DEF ServicesInv
<1>6. ASSUME NEW r \in Rollouts, SaveInitialized(r) PROVE ServicesInv'
  <2>1. /\ run[r] # AtRest /\ Doing(r, "prepare_ai", "retrieval") /\ EndRun(r)
        /\ saved'.ai /\ UNCHANGED <<env, edits, offs>>
    BY <1>1, <1>6 DEF SaveInitialized, BootstrapTypes, States
  <2>2. ASSUME NEW k \in Services PROVE ServiceKept(k)'
    <3>1. env[k].marker
      BY <2>1 DEF ServicesInv, ServiceRead, WillReplace, Doing
    <3> QED BY <2>1, <3>1 DEF ServicesInv, ServiceKept
  <2>3. ASSUME NEW k \in Services, NEW q \in Rollouts PROVE ServiceRead(q, k)'
    BY <2>1 DEF ServicesInv, ServiceRead, WillReplace, Doing, EndRun, AtRest, BootstrapTypes
  <2> QED BY <2>2, <2>3 DEF ServicesInv
<1>7. ASSUME NEW k \in Switches, Turn(k) PROVE ServicesInv'
  <2>1. UNCHANGED <<saved, run>> /\ k \in Switches
    BY <1>7 DEF Turn
  <2>2. \A j \in Switches \ {k} : edits'[j] = edits[j] /\ (j \in offs' <=> j \in offs)
    BY <1>7 DEF Turn, BootstrapTypes
  <2>3. edits'[k] # 0 /\ \A j \in Switches : edits[j] \in Nat
    BY <1>7 DEF Turn, BootstrapTypes
  <2>4. ASSUME NEW j \in Services, j # k
        PROVE  ServiceKept(j)' /\ \A q \in Rollouts : ServiceRead(q, j)'
    <3>1. env'[j] = env[j]
      BY <1>7, <2>4 DEF Turn, BootstrapTypes, Envs, Services, Switches
    <3>2. edits'[j] = edits[j] /\ (j \in offs' <=> j \in offs)
      BY <2>2, <2>4 DEF Services, Switches
    <3> QED BY <2>1, <3>1, <3>2 DEF ServicesInv, ServiceKept, ServiceRead, WillReplace, Doing
  <2>5. ASSUME k \in Services
        PROVE  ServiceKept(k)' /\ \A q \in Rollouts : ServiceRead(q, k)'
    <3>1. /\ env'[k].on = ~env[k].on /\ env'[k].marker = env[k].marker
          /\ IsOn(k) = env[k].on /\ Switched(k) = env[k].marker
      BY <1>7, <2>5 DEF Turn, BootstrapTypes, Envs, ServiceEnv, Services, IsOn, Switched
    <3>2. (\E q \in Rollouts : WillReplace(q, k)) => ToBeReplaced(k)
      BY <2>5 DEF ToBeReplaced, WillReplace, Services
    <3>3. /\ offs' = IF ~env[k].on THEN offs \ {k}
                     ELSE IF env[k].marker /\ ~ToBeReplaced(k) THEN offs \union {k} ELSE offs
      BY <1>7, <3>1 DEF Turn
    <3>4. ServiceKept(k) /\ \A q \in Rollouts : ServiceRead(q, k)
      BY <2>5 DEF ServicesInv
    <3>5. ServiceKept(k)'
      BY <2>1, <2>3, <3>1, <3>3, <3>4 DEF ServiceKept
    <3>6. ASSUME NEW q \in Rollouts PROVE ServiceRead(q, k)'
      BY <2>1, <2>3, <3>1, <3>2, <3>3, <3>4 DEF ServiceRead, WillReplace, Doing, ServiceKept
    <3> QED BY <3>5, <3>6
  <2> QED BY <2>4, <2>5 DEF ServicesInv
<1>8. ASSUME NEW r \in Rollouts,
             WriteChanges(r) \/ RecreateApi(r) \/ WriteActivation(r) \/ RestartApi(r)
               \/ TakeUpActivation(r) \/ IntendChanges(r) \/ IntendActivation(r)
               \/ TakeUpChanges(r) \/ SavePrepared(r) \/ LeaveAsItIs(r) \/ SaveActivated(r)
      PROVE  ServicesInv'
  <2>1. run[r] # AtRest /\ run[r].mode # "prepare_ai"
    BY <1>1, <1>8 DEF WriteChanges, RecreateApi, WriteActivation, RestartApi,
          TakeUpActivation, IntendChanges, IntendActivation, TakeUpChanges, SavePrepared,
          LeaveAsItIs, SaveActivated, MayActivate, Doing
  <2>2. \A q \in Rollouts \ {r} : run'[q] = run[q]
    BY <1>8 DEF WriteChanges, RecreateApi, WriteActivation, RestartApi,
          TakeUpActivation, IntendChanges, IntendActivation, TakeUpChanges, SavePrepared,
          LeaveAsItIs, SaveActivated, GoTo, EndRun, BootstrapTypes
  <2>3. run'[r] = AtRest \/ run'[r].mode = run[r].mode
    BY <1>2, <1>8, <2>1 DEF WriteChanges, RecreateApi, WriteActivation, RestartApi,
          TakeUpActivation, IntendChanges, IntendActivation, TakeUpChanges, SavePrepared,
          LeaveAsItIs, SaveActivated, GoTo, EndRun, BootstrapTypes, Runs
  <2>4. /\ env' = [env EXCEPT !.api = env'.api]
        /\ saved'.ai = saved.ai /\ UNCHANGED <<edits, offs>>
    BY <1>8 DEF WriteChanges, RecreateApi, WriteActivation, RestartApi,
          TakeUpActivation, IntendChanges, IntendActivation, TakeUpChanges, SavePrepared,
          LeaveAsItIs, SaveActivated, SaveApi, BootstrapTypes, Envs, States
  <2> QED BY <2>1, <2>2, <2>3, <2>4, ServicesApart
<1>9. ASSUME NEW r \in Rollouts, BreakOff(r) \/ FindPrepared(r) \/ NothingToActivate(r)
      PROVE  ServicesInv'
  BY <1>4, <1>9 DEF BreakOff, FindPrepared, NothingToActivate
<1>10. ASSUME UNCHANGED <<env, saved, edits, offs, run>> PROVE ServicesInv'
  BY <1>10 DEF ServicesInv, ServiceKept, ServiceRead, WillReplace, Doing
<1> QED
  BY <1>3, <1>5, <1>6, <1>7, <1>8, <1>9, <1>10
     DEF BootstrapNext, bootstrap, DeployApi, Services

-----------------------------------------------------------------------------
\* The host of the API

\* The API's state, and what every run knows of it.
ApiKept == SecretKept /\ PreparedKept /\ ServedKept /\ OffsKept
ApiRuns == \A r \in Rollouts : ApiRun(r)

\* What the state of the API depends on.
api == <<env.api, saved.api, serving, secrets, edits["ops"], edits["public"],
         "ops" \in offs, "public" \in offs>>

\* Nothing changes where none of that does.
LEMMA ApiUntouched ==
  ASSUME ApiKept, UNCHANGED api
  PROVE  /\ ApiKept'
         /\ \A q \in Rollouts :
              ApiRun(q) /\ (run'[q] = run[q] \/ run'[q] = AtRest) => ApiRun(q)'
<1>1. /\ env'.api = env.api /\ saved'.api = saved.api /\ serving' = serving
      /\ secrets' = secrets /\ edits'["ops"] = edits["ops"]
      /\ edits'["public"] = edits["public"] /\ ("ops" \in offs' <=> "ops" \in offs)
      /\ ("public" \in offs' <=> "public" \in offs)
  BY DEF api
<1>2. ApiKept'
  BY <1>1 DEF ApiKept, SecretKept, PreparedKept, ServedKept, OffsKept
<1>3. ASSUME NEW q \in Rollouts, ApiRun(q), run'[q] = run[q] PROVE ApiRun(q)'
  BY <1>1, <1>3 DEF ApiRun, SameApi, Doing
<1>4. ASSUME NEW q \in Rollouts, run'[q] = AtRest PROVE ApiRun(q)'
  BY <1>4 DEF ApiRun, Doing, AtRest
<1> QED BY <1>2, <1>3, <1>4

\* While a run is at work on the API it is the only one.
LEMMA OthersAway ==
  ASSUME BootstrapTypes, Lockeds, NEW r \in Rollouts, run[r] # AtRest,
         run[r].mode # "prepare_ai", \A q \in Rollouts \ {r} : run'[q] = run[q]
  PROVE  \A q \in Rollouts \ {r} : ApiRun(q)'
<1> SUFFICES ASSUME NEW q \in Rollouts \ {r} PROVE ApiRun(q)'
  OBVIOUS
<1>1. CASE run[q] = AtRest
  BY <1>1 DEF ApiRun, Doing, AtRest
<1>2. CASE run[q] # AtRest
  <2>1. run[q].mode = "prepare_ai"
    BY <1>2, OneRun DEF Host
  <2> QED BY <2>1 DEF ApiRun, Doing
<1> QED BY <1>1, <1>2

\* A run on the API knows the saved state, and it reads an env and a state of their shape.
LEMMA KnowsApi ==
  ASSUME BootstrapTypes, Lockeds, NEW r \in Rollouts,
         NEW mode \in {"prepare_api", "activate_api"},
         NEW pc \in {"begun", "intended", "written", "served"}, Doing(r, mode, pc)
  PROVE  /\ run[r] # AtRest /\ run[r].mode # "prepare_ai" /\ run[r].pc = pc
         /\ run[r] \in Runs /\ run[r].state.api = saved.api
         /\ run[r].config.api \in ApiEnv /\ run[r].text.api \in ApiEnv
         /\ env.api \in ApiEnv /\ serving \in ApiEnv /\ saved.api \in ApiState
<1>1. run[r] # AtRest /\ run[r].mode # "prepare_ai" /\ run[r].pc = pc
  BY DEF Doing, AtRest
<1>2. run[r] \in Runs /\ run[r].state.api = saved.api
  BY <1>1 DEF BootstrapTypes, Lockeds, Locked
<1>3. run[r].config.api \in ApiEnv /\ run[r].text.api \in ApiEnv
  BY <1>2 DEF Runs, Envs
<1>4. env.api \in ApiEnv /\ serving \in ApiEnv /\ saved.api \in ApiState
  BY DEF BootstrapTypes, Envs, States
<1> QED BY <1>1, <1>2, <1>3, <1>4

\* The changes are intended as the env is then.
LEMMA ChangesIntended ==
  ASSUME BootstrapTypes, Lockeds, ApiKept, ApiRuns, NEW r \in Rollouts, IntendChanges(r)
  PROVE  ApiKept' /\ ApiRuns'
<1> DEFINE config == run[r].config.api
           next == [run[r].state.api EXCEPT !.changes = Changes(config, env.api),
                                            !.restart = config.secret = 0 \/ ~config.ops,
                                            !.pending = config.public # "on"]
<1>1. Doing(r, "prepare_api", "begun") /\ ~saved.api.prepared /\ ~saved.api.changes.due
  <2>1. Doing(r, "prepare_api", "begun")
    BY DEF IntendChanges
  <2> QED BY <2>1, KnowsApi DEF IntendChanges
<1>2. /\ run[r] # AtRest /\ run[r].mode # "prepare_ai" /\ run[r] \in Runs
      /\ run[r].state.api = saved.api
      /\ config \in ApiEnv /\ env.api \in ApiEnv /\ serving \in ApiEnv
      /\ saved.api \in ApiState
  BY <1>1, KnowsApi
<1>3. SameApi(config)
  BY <1>1, <1>2 DEF ApiRuns, ApiRun, Doing
<1>4. /\ saved'.api = next
      /\ run'[r] = [run[r] EXCEPT !.pc = "intended", !.state.api = next, !.text = env]
      /\ \A q \in Rollouts \ {r} : run'[q] = run[q]
      /\ UNCHANGED <<env, serving, edits, offs, secrets>>
      /\ ~env.api.marker
  BY <1>1 DEF IntendChanges, SaveApi, BootstrapTypes, States
<1>5. /\ next.changes.due /\ (next.changes.secret = 0 <=> env.api.secret # 0)
      /\ next.changes.secret \in Nat
      /\ next.changes.close = (env.api.public = "unset")
      /\ next.restart = (config.secret = 0 \/ ~config.ops)
      /\ next.pending = (config.public # "on")
      /\ ~next.prepared /\ next.activation = saved.api.activation
  BY <1>1, <1>2, <1>3 DEF Changes, SameApi, BootstrapTypes, ApiState
<1> HIDE DEF next
<1>6. /\ run'[r].pc = "intended" /\ run'[r].mode = "prepare_api" /\ run'[r].text = env
  BY <1>1, <1>2, <1>4 DEF Runs, Doing
<1> HIDE DEF config
<1>7. SecretKept' /\ PreparedKept' /\ OffsKept'
  BY <1>1, <1>2, <1>4, <1>5 DEF ApiKept, SecretKept, PreparedKept, OffsKept
<1>8. ServedKept'
  BY <1>1, <1>2, <1>3, <1>4, <1>5 DEF ApiKept, PreparedKept, ServedKept, SameApi
<1>9. ApiRun(r)'
  BY <1>4, <1>5, <1>6 DEF ApiRun, Doing, SameApi
<1> QED BY <1>2, <1>4, <1>7, <1>8, <1>9, OthersAway DEF ApiKept, ApiRuns

\* The env gets what is intended: the secret that is saved, or the one it has.
LEMMA ChangesWritten ==
  ASSUME BootstrapTypes, Lockeds, ApiKept, ApiRuns, NEW r \in Rollouts, WriteChanges(r)
  PROVE  ApiKept' /\ ApiRuns'
<1> DEFINE text == run[r].text.api
           changes == saved.api.changes
<1>1. Doing(r, "prepare_api", "intended")
  BY DEF WriteChanges
<1>2. /\ run[r] # AtRest /\ run[r].mode # "prepare_ai" /\ run[r] \in Runs
      /\ run[r].state.api = saved.api
      /\ text \in ApiEnv /\ env.api \in ApiEnv /\ serving \in ApiEnv
      /\ saved.api \in ApiState
  BY <1>1, KnowsApi
<1>3. changes.due /\ ~saved.api.prepared /\ ~env.api.marker /\ SameApi(text)
  BY <1>1 DEF ApiRuns, ApiRun
<1>4. env.api.activation = 0
  BY <1>3 DEF ApiKept, PreparedKept
<1>5. /\ env'.api = Updated(text, changes)
      /\ secrets' = secrets \union ({env'.api.secret} \ {0})
      /\ UNCHANGED <<saved, serving, edits, offs>>
      /\ run'[r] = [run[r] EXCEPT !.pc = "written"]
      /\ \A q \in Rollouts \ {r} : run'[q] = run[q]
  BY <1>2 DEF WriteChanges, GoTo, BootstrapTypes, Envs
<1>6. /\ env'.api.ops = TRUE /\ env'.api.marker = TRUE /\ env'.api.activation = 0
      /\ env'.api.secret = IF changes.secret = 0 THEN env.api.secret ELSE changes.secret
      /\ env'.api.public = IF changes.close THEN "off" ELSE text.public
  BY <1>2, <1>3, <1>4, <1>5 DEF Updated, ApiEnv, SameApi
<1>7. run'[r].pc = "written" /\ run'[r].mode = "prepare_api"
  BY <1>1, <1>2, <1>5 DEF Runs, Doing
<1>8. /\ edits["public"] = 0 => text.public = env.api.public
      /\ edits["ops"] = 0 => text.ops = env.api.ops
  BY <1>3 DEF SameApi
<1> HIDE DEF text, changes
<1>9. SecretKept'
  <2>1. changes.secret \in Nat
    BY <1>2 DEF ApiState, changes
  <2>2. /\ secrets = {env.api.secret} \ {0}
        /\ IF changes.secret = 0 THEN env.api.secret # 0
           ELSE env.api.secret \in {0, changes.secret}
    BY <1>3 DEF ApiKept, SecretKept, changes
  <2>3. env'.api.secret # 0 /\ secrets' = {env'.api.secret}
    BY <1>5, <1>6, <2>1, <2>2
  <2> QED BY <1>5, <1>6, <2>1, <2>2, <2>3 DEF SecretKept, changes
<1>10. PreparedKept' /\ OffsKept'
  BY <1>3, <1>4, <1>5, <1>6 DEF ApiKept, PreparedKept, OffsKept, changes
<1>11. ServedKept'
  <2>1. ServedKept BY DEF ApiKept
  <2>2. saved'.api = saved.api /\ serving' = serving /\ edits' = edits
    BY <1>5
  <2>3. \/ saved.api.restart
        \/ /\ serving.secret = env'.api.secret
           /\ edits["ops"] = 0 => serving.ops = env'.api.ops
    BY <1>2, <1>3, <1>6, <2>1 DEF ServedKept, changes, ApiEnv
  <2> QED BY <1>3, <1>4, <1>6, <1>8, <2>1, <2>2, <2>3 DEF ServedKept, changes
<1>12. ApiRun(r)'
  BY <1>3, <1>5, <1>6, <1>7 DEF ApiRun, Doing, changes
<1> QED BY <1>2, <1>5, <1>9, <1>10, <1>11, <1>12, OthersAway DEF ApiKept, ApiRuns

\* A container that is created with the env is as the env is.
LEMMA ApiServed ==
  ASSUME ApiKept, serving' = env.api, saved'.api = saved.api, env'.api = env.api,
         UNCHANGED <<secrets, edits, offs>>
  PROVE  ApiKept'
BY DEF ApiKept, SecretKept, PreparedKept, ServedKept, OffsKept

\* Whoever wrote the changes, the container is created anew if they call for it.
LEMMA ApiRecreated ==
  ASSUME BootstrapTypes, Lockeds, ApiKept, ApiRuns, NEW r \in Rollouts, RecreateApi(r)
  PROVE  ApiKept' /\ ApiRuns'
<1>1. Doing(r, "prepare_api", "written")
  BY DEF RecreateApi
<1>2. /\ run[r] # AtRest /\ run[r].mode # "prepare_ai" /\ run[r] \in Runs
      /\ run[r].state.api = saved.api /\ env.api \in ApiEnv /\ serving \in ApiEnv
  BY <1>1, KnowsApi
<1>3. saved.api.changes.due /\ ~saved.api.prepared /\ env.api.marker
  BY <1>1 DEF ApiRuns, ApiRun
<1>4. /\ serving' = IF saved.api.restart THEN env.api ELSE serving
      /\ UNCHANGED <<env, saved, edits, offs, secrets>>
      /\ run'[r] = [run[r] EXCEPT !.pc = "served"]
      /\ \A q \in Rollouts \ {r} : run'[q] = run[q]
  BY <1>2 DEF RecreateApi, GoTo, BootstrapTypes
<1>5. run'[r].pc = "served" /\ run'[r].mode = "prepare_api"
  BY <1>1, <1>2, <1>4 DEF Runs, Doing
<1>6. ApiKept'
  <2>1. CASE saved.api.restart BY <1>4, <2>1, ApiServed
  <2>2. CASE ~saved.api.restart BY <1>4, <2>2, ApiUntouched DEF api
  <2> QED BY <2>1, <2>2
<1>7. /\ serving'.secret = env.api.secret
      /\ edits["ops"] = 0 => serving'.ops = env.api.ops
  BY <1>3, <1>4 DEF ApiKept, ServedKept
<1>8. ApiRun(r)'
  BY <1>3, <1>4, <1>5, <1>7 DEF ApiRun, Doing
<1> QED BY <1>2, <1>4, <1>6, <1>8, OthersAway DEF ApiRuns

\* A run that ends on the API leaves no run there.
LEMMA RunsEnd ==
  ASSUME BootstrapTypes, Lockeds, NEW r \in Rollouts, run[r] # AtRest,
         run[r].mode # "prepare_ai", EndRun(r)
  PROVE  ApiRuns'
<1>1. run'[r] = AtRest /\ \A q \in Rollouts \ {r} : run'[q] = run[q]
  BY DEF EndRun, BootstrapTypes
<1>2. ApiRun(r)'
  BY <1>1 DEF ApiRun, Doing, AtRest
<1> QED BY <1>1, <1>2, OthersAway DEF ApiRuns

\* The API counts as prepared when it is served as its env says.
LEMMA PreparedSaved ==
  ASSUME BootstrapTypes, Lockeds, ApiKept, ApiRuns, NEW r \in Rollouts, SavePrepared(r)
  PROVE  ApiKept' /\ ApiRuns'
<1>1. Doing(r, "prepare_api", "served")
  BY DEF SavePrepared
<1>2. /\ run[r] # AtRest /\ run[r].mode # "prepare_ai"
      /\ run[r].state.api = saved.api /\ saved.api \in ApiState
  BY <1>1, KnowsApi
<1>3. /\ saved.api.changes.due /\ ~saved.api.prepared /\ env.api.marker
      /\ serving.secret = env.api.secret
      /\ edits["ops"] = 0 => serving.ops = env.api.ops
  BY <1>1 DEF ApiRuns, ApiRun
<1>4. /\ saved'.api = [saved.api EXCEPT !.changes = NoChange, !.restart = FALSE,
                                        !.prepared = TRUE]
      /\ EndRun(r) /\ UNCHANGED <<env, serving, edits, offs, secrets>>
  BY <1>2 DEF SavePrepared, SaveApi, BootstrapTypes, States
<1>5. /\ ~saved'.api.changes.due /\ saved'.api.prepared
      /\ saved'.api.pending = saved.api.pending
      /\ saved'.api.activation = saved.api.activation
  BY <1>2, <1>4 DEF ApiState, NoChange
<1>6. ApiKept'
  BY <1>3, <1>4, <1>5 DEF ApiKept, SecretKept, PreparedKept, ServedKept, OffsKept
<1> QED BY <1>2, <1>4, <1>6, RunsEnd

\* The chat counts as opened when it is open, or when the operator has closed it.
LEMMA PendingDone ==
  ASSUME BootstrapTypes, Lockeds, ApiKept, ApiRuns, NEW r \in Rollouts,
         LeaveAsItIs(r) \/ SaveActivated(r)
  PROVE  ApiKept' /\ ApiRuns'
<1>1. PICK pc \in {"begun", "served"} : Doing(r, "activate_api", pc)
  BY DEF LeaveAsItIs, SaveActivated, MayActivate
<1>2. /\ run[r] # AtRest /\ run[r].mode # "prepare_ai" /\ run[r] \in Runs
      /\ run[r].state.api = saved.api /\ saved.api \in ApiState /\ run[r].pc = pc
  BY <1>1, KnowsApi
<1>3. /\ saved'.api = [saved.api EXCEPT !.pending = FALSE]
      /\ EndRun(r) /\ UNCHANGED <<env, serving, edits, offs, secrets>>
  BY <1>2 DEF LeaveAsItIs, SaveActivated, SaveApi, BootstrapTypes, States
<1>4. saved.api.prepared
  <2>1. CASE LeaveAsItIs(r)
    BY <1>2, <2>1 DEF LeaveAsItIs, MayActivate
  <2>2. CASE SaveActivated(r)
    BY <2>2 DEF SaveActivated, ApiRuns, ApiRun
  <2> QED BY <2>1, <2>2
<1>5. edits["public"] = 0 => env.api.public = "on" /\ serving.public = "on"
  <2> SUFFICES ASSUME edits["public"] = 0
               PROVE  env.api.public = "on" /\ serving.public = "on"
    OBVIOUS
  <2>1. env.api.activation # 0 => env.api.public = "on"
    BY DEF ApiKept, PreparedKept
  <2>2. CASE LeaveAsItIs(r)
    <3>1. run[r].config.api.public = env.api.public
      BY <1>2, <2>2 DEF LeaveAsItIs, MayActivate, ApiRuns, ApiRun, SameApi, Doing
    <3> QED BY <1>2, <2>1, <2>2, <3>1 DEF LeaveAsItIs, Activated, Enabled
  <2>3. CASE SaveActivated(r)
    BY <2>1, <2>3 DEF SaveActivated, ApiRuns, ApiRun
  <2> QED BY <2>2, <2>3
<1>6. /\ saved'.api.changes = saved.api.changes /\ saved'.api.prepared = saved.api.prepared
      /\ saved'.api.restart = saved.api.restart
      /\ saved'.api.activation = saved.api.activation
  BY <1>2, <1>3 DEF ApiState
<1>7. ApiKept'
  <2>1. ~saved.api.changes.due
    BY <1>4 DEF ApiKept, PreparedKept
  <2>2. SecretKept' /\ PreparedKept' /\ OffsKept'
    BY <1>3, <1>6 DEF ApiKept, SecretKept, PreparedKept, OffsKept
  <2>3. ServedKept'
    BY <1>3, <1>5, <1>6, <2>1 DEF ApiKept, ServedKept
  <2> QED BY <2>2, <2>3 DEF ApiKept
<1> QED BY <1>2, <1>3, <1>7, RunsEnd

\* An activation gets its id before the env gets it.
LEMMA ActivationIntended ==
  ASSUME BootstrapTypes, Lockeds, ApiKept, ApiRuns, NEW r \in Rollouts, IntendActivation(r)
  PROVE  ApiKept' /\ ApiRuns'
<1> DEFINE id == IF saved.api.activation # 0 THEN saved.api.activation ELSE minted + 1
           next == [saved.api EXCEPT !.activation = id]
<1>1. Doing(r, "activate_api", "begun")
  BY DEF IntendActivation, MayActivate
<1>2. /\ run[r] # AtRest /\ run[r].mode # "prepare_ai" /\ run[r] \in Runs
      /\ run[r].state.api = saved.api /\ saved.api \in ApiState
  BY <1>1, KnowsApi
<1>3. /\ saved'.api = next
      /\ run'[r] = [run[r] EXCEPT !.pc = "intended", !.state.api = next, !.text = env]
      /\ \A q \in Rollouts \ {r} : run'[q] = run[q]
      /\ UNCHANGED <<env, serving, edits, offs, secrets>>
  BY <1>2 DEF IntendActivation, SaveApi, BootstrapTypes, States
<1>4. saved.api.prepared /\ env.api.activation = 0
  BY <1>2 DEF IntendActivation, MayActivate, Activated, ApiKept, PreparedKept
<1>5. /\ next.activation # 0 /\ next.changes = saved.api.changes
      /\ next.prepared = saved.api.prepared /\ next.restart = saved.api.restart
      /\ next.pending = saved.api.pending
  BY <1>2 DEF ApiState, BootstrapTypes
<1> HIDE DEF next
<1>6. /\ run'[r].pc = "intended" /\ run'[r].mode = "activate_api" /\ run'[r].text = env
  BY <1>1, <1>2, <1>3 DEF Runs, Doing
<1>7. ApiKept'
  BY <1>3, <1>4, <1>5 DEF ApiKept, SecretKept, PreparedKept, ServedKept, OffsKept
<1>8. ApiRun(r)'
  BY <1>3, <1>4, <1>5, <1>6 DEF ApiRun, Doing, SameApi, ApiKept, OffsKept
<1> QED BY <1>2, <1>3, <1>7, <1>8, OthersAway DEF ApiRuns

\* The env is opened under the id that is saved.
LEMMA ActivationWritten ==
  ASSUME BootstrapTypes, Lockeds, ApiKept, ApiRuns, NEW r \in Rollouts, WriteActivation(r)
  PROVE  ApiKept' /\ ApiRuns'
<1> DEFINE text == run[r].text.api
<1>1. Doing(r, "activate_api", "intended")
  BY DEF WriteActivation
<1>2. /\ run[r] # AtRest /\ run[r].mode # "prepare_ai" /\ run[r] \in Runs
      /\ run[r].state.api = saved.api /\ text \in ApiEnv
  BY <1>1, KnowsApi
<1>3. /\ saved.api.prepared /\ env.api.activation = 0 /\ saved.api.activation # 0
      /\ SameApi(text)
      /\ "ops" \in offs => ~text.ops
  BY <1>1 DEF ApiRuns, ApiRun
<1>4. /\ env'.api = [text EXCEPT !.public = "on", !.activation = saved.api.activation]
      /\ UNCHANGED <<saved, serving, edits, offs, secrets>>
      /\ run'[r] = [run[r] EXCEPT !.pc = "written"]
      /\ \A q \in Rollouts \ {r} : run'[q] = run[q]
  BY <1>2 DEF WriteActivation, GoTo, BootstrapTypes, Envs
<1>5. /\ env'.api.public = "on" /\ env'.api.activation = saved.api.activation
      /\ env'.api.secret = env.api.secret /\ env'.api.marker = env.api.marker
      /\ env'.api.ops = text.ops
      /\ edits["ops"] = 0 => env'.api.ops = env.api.ops
  BY <1>2, <1>3, <1>4 DEF ApiEnv, SameApi
<1>6. run'[r].pc = "written" /\ run'[r].mode = "activate_api"
  BY <1>1, <1>2, <1>4 DEF Runs, Doing
<1> HIDE DEF text
<1>7. ~saved.api.changes.due /\ env.api.activation = 0
  BY <1>3 DEF ApiKept, PreparedKept
<1>8. SecretKept' /\ PreparedKept' /\ OffsKept'
  BY <1>3, <1>4, <1>5, <1>7 DEF ApiKept, SecretKept, PreparedKept, OffsKept
<1>9. ServedKept'
  BY <1>3, <1>4, <1>5, <1>7 DEF ApiKept, ServedKept
<1>10. ApiRun(r)'
  BY <1>3, <1>4, <1>5, <1>6 DEF ApiRun, Doing
<1> QED BY <1>2, <1>4, <1>8, <1>9, <1>10, OthersAway DEF ApiKept, ApiRuns

\* What an earlier run left is taken up where it was left.
LEMMA TakenUp ==
  ASSUME BootstrapTypes, Lockeds, ApiKept, ApiRuns, NEW r \in Rollouts,
         TakeUpChanges(r) \/ TakeUpActivation(r)
  PROVE  ApiKept' /\ ApiRuns'
<1>1. CASE TakeUpChanges(r)
  <2>1. Doing(r, "prepare_api", "begun")
    BY <1>1 DEF TakeUpChanges
  <2>2. /\ run[r] # AtRest /\ run[r].mode # "prepare_ai" /\ run[r] \in Runs
        /\ run[r].state.api = saved.api
    BY <2>1, KnowsApi
  <2>3. saved.api.changes.due /\ ~saved.api.prepared
    BY <1>1, <2>2 DEF TakeUpChanges, ApiKept, PreparedKept
  <2> DEFINE pc == IF env.api.marker THEN "written" ELSE "intended"
  <2>4. /\ run'[r] = [run[r] EXCEPT !.pc = pc, !.text = env]
        /\ \A q \in Rollouts \ {r} : run'[q] = run[q]
        /\ UNCHANGED <<env, saved, serving, edits, offs, secrets>>
    BY <1>1 DEF TakeUpChanges, BootstrapTypes
  <2> HIDE DEF pc
  <2>5. run'[r].pc = pc /\ run'[r].mode = "prepare_api" /\ run'[r].text = env
    BY <2>1, <2>2, <2>4 DEF Runs, Doing
  <2>6. ApiRun(r)'
    BY <2>3, <2>4, <2>5 DEF ApiRun, Doing, SameApi, pc
  <2>7. ApiKept'
    BY <2>4, ApiUntouched DEF api
  <2> QED BY <2>2, <2>4, <2>6, <2>7, OthersAway DEF ApiRuns
<1>2. CASE TakeUpActivation(r)
  <2>1. Doing(r, "activate_api", "begun")
    BY <1>2 DEF TakeUpActivation, MayActivate
  <2>2. /\ run[r] # AtRest /\ run[r].mode # "prepare_ai" /\ run[r] \in Runs
        /\ run[r].state.api = saved.api
    BY <2>1, KnowsApi
  <2>3. saved.api.prepared /\ env.api.activation # 0
    BY <1>2, <2>2 DEF TakeUpActivation, MayActivate, Activated
  <2>4. /\ run'[r] = [run[r] EXCEPT !.pc = "written"]
        /\ \A q \in Rollouts \ {r} : run'[q] = run[q]
        /\ UNCHANGED <<env, saved, serving, edits, offs, secrets>>
    BY <1>2 DEF TakeUpActivation, GoTo, BootstrapTypes
  <2>5. run'[r].pc = "written" /\ run'[r].mode = "activate_api"
    BY <2>1, <2>2, <2>4 DEF Runs, Doing
  <2>6. ApiRun(r)'
    BY <2>3, <2>4, <2>5 DEF ApiRun, Doing
  <2>7. ApiKept'
    BY <2>4, ApiUntouched DEF api
  <2> QED BY <2>2, <2>4, <2>6, <2>7, OthersAway DEF ApiRuns
<1> QED BY <1>1, <1>2

\* The restart that opens the chat.
LEMMA ApiRestarted ==
  ASSUME BootstrapTypes, Lockeds, ApiKept, ApiRuns, NEW r \in Rollouts, RestartApi(r)
  PROVE  ApiKept' /\ ApiRuns'
<1>1. Doing(r, "activate_api", "written")
  BY DEF RestartApi
<1>2. run[r] # AtRest /\ run[r].mode # "prepare_ai" /\ run[r] \in Runs
  BY <1>1, KnowsApi
<1>3. saved.api.prepared /\ env.api.activation # 0
  BY <1>1 DEF ApiRuns, ApiRun
<1>4. /\ serving' = env.api /\ UNCHANGED <<env, saved, edits, offs, secrets>>
      /\ run'[r] = [run[r] EXCEPT !.pc = "served"]
      /\ \A q \in Rollouts \ {r} : run'[q] = run[q]
  BY DEF RestartApi, GoTo, BootstrapTypes
<1>5. run'[r].pc = "served" /\ run'[r].mode = "activate_api"
  BY <1>1, <1>2, <1>4 DEF Runs, Doing
<1>6. ApiRun(r)'
  BY <1>3, <1>4, <1>5 DEF ApiRun, Doing
<1> QED BY <1>2, <1>4, <1>6, ApiServed, OthersAway DEF ApiRuns

\* A deployment finds no run at work on the API.
LEMMA ApiDeployed ==
  ASSUME BootstrapTypes, Lockeds, ApiKept, ApiRuns, DeployApi
  PROVE  ApiKept' /\ ApiRuns'
<1>1. /\ serving' = env.api /\ hostLock["api"] = NoRollout
      /\ UNCHANGED <<env, saved, edits, offs, secrets, run>>
  BY DEF DeployApi
<1>2. ASSUME NEW q \in Rollouts, run[q] # AtRest PROVE run[q].mode = "prepare_ai"
  BY <1>1, <1>2, RolloutsAssumption DEF Lockeds, Locked, BootstrapTypes, Host
<1>3. ASSUME NEW q \in Rollouts PROVE ApiRun(q)'
  BY <1>1, <1>2 DEF ApiRun, Doing, AtRest
<1> QED BY <1>1, <1>3, ApiServed DEF ApiRuns

\* A run that begins has read what there is.
LEMMA ApiBegun ==
  ASSUME BootstrapTypes, Lockeds, ApiKept, ApiRuns, NEW r \in Rollouts, NEW mode \in Modes,
         BeginRun(r, mode)
  PROVE  ApiKept' /\ ApiRuns'
<1>1. /\ UNCHANGED <<env, saved, serving, edits, offs, secrets>>
      /\ \A q \in Rollouts \ {r} : run'[q] = run[q]
      /\ run'[r] = [pc |-> "begun", mode |-> mode, state |-> saved, config |-> env,
                    text |-> env]
  BY DEF BeginRun, BootstrapTypes
<1>2. ApiKept' /\ \A q \in Rollouts \ {r} : ApiRun(q)'
  BY <1>1, ApiUntouched DEF api, ApiRuns
<1>3. ApiRun(r)'
  BY <1>1 DEF ApiRun, Doing, SameApi
<1> QED BY <1>2, <1>3 DEF ApiRuns

\* The operator's edits of the API's env.
LEMMA ApiTurned ==
  ASSUME BootstrapTypes, Lockeds, ApiKept, ApiRuns, NEW k \in Switches, Turn(k)
  PROVE  ApiKept' /\ ApiRuns'
<1>1. UNCHANGED <<saved, serving, run, secrets>>
  BY DEF Turn
<1>2. /\ \A j \in Switches \ {k} : edits'[j] = edits[j] /\ (j \in offs' <=> j \in offs)
      /\ edits'[k] # 0
  BY DEF Turn, BootstrapTypes
<1>3. /\ offs' = IF ~IsOn(k) THEN offs \ {k}
                 ELSE IF Switched(k) /\ ~ToBeReplaced(k) THEN offs \union {k} ELSE offs
  BY DEF Turn
<1>4. env \in Envs /\ env.api \in ApiEnv
  BY DEF BootstrapTypes, Envs
<1>5. CASE k \in Services
  <2>1. env'.api = env.api
    BY <1>4, <1>5 DEF Turn, Services, Envs
  <2>2. UNCHANGED api
    BY <1>1, <1>2, <1>5, <2>1 DEF api, Services, Switches
  <2> QED BY <1>1, <2>2, ApiUntouched DEF ApiRuns
<1>6. ASSUME NEW q \in Rollouts, Doing(q, "activate_api", "intended"), k \in {"ops", "public"}
      PROVE  ToBeReplaced(k)
  BY <1>6 DEF ToBeReplaced
<1>7. CASE k = "ops"
  <2>1. /\ env'.api.ops = ~env.api.ops /\ env'.api.public = env.api.public
        /\ env'.api.secret = env.api.secret /\ env'.api.marker = env.api.marker
        /\ env'.api.activation = env.api.activation
        /\ IsOn(k) = env.api.ops /\ Switched(k) = env.api.marker
    BY <1>4, <1>7 DEF Turn, Envs, ApiEnv, IsOn, Switched
  <2>2. edits'["public"] = edits["public"] /\ ("public" \in offs' <=> "public" \in offs)
    BY <1>2, <1>7 DEF Switches
  <2>3. edits'["ops"] # 0
    BY <1>2, <1>7
  <2>4. env.api.ops \in BOOLEAN
    BY <1>4 DEF ApiEnv
  <2>5. ApiKept'
    BY <1>1, <1>3, <1>7, <2>1, <2>2, <2>3, <2>4
       DEF ApiKept, SecretKept, PreparedKept, ServedKept, OffsKept
  <2>6. ASSUME NEW q \in Rollouts PROVE ApiRun(q)'
    <3>1. ApiRun(q) BY DEF ApiRuns
    <3>2. Doing(q, "activate_api", "intended") =>
            ("ops" \in offs' => ~run[q].text.api.ops)
      BY <1>3, <1>6, <1>7, <3>1 DEF ApiRun
    <3> QED BY <1>1, <2>1, <2>2, <2>3, <3>1, <3>2 DEF ApiRun, Doing, SameApi
  <2> QED BY <2>5, <2>6 DEF ApiRuns
<1>8. CASE k = "public"
  <2>1. /\ env'.api.public = (IF env.api.public = "on" THEN "off" ELSE "on")
        /\ env'.api.ops = env.api.ops
        /\ env'.api.secret = env.api.secret /\ env'.api.marker = env.api.marker
        /\ env'.api.activation = env.api.activation
        /\ (IsOn(k) <=> env.api.public = "on") /\ (Switched(k) <=> env.api.activation # 0)
    BY <1>4, <1>8 DEF Turn, Envs, ApiEnv, IsOn, Switched
  <2>2. edits'["ops"] = edits["ops"] /\ ("ops" \in offs' <=> "ops" \in offs)
    BY <1>2, <1>8 DEF Switches
  <2>3. edits'["public"] # 0
    BY <1>2, <1>8
  <2>4. ApiKept'
    BY <1>1, <1>3, <1>8, <2>1, <2>2, <2>3
       DEF ApiKept, SecretKept, PreparedKept, ServedKept, OffsKept
  <2>5. ASSUME NEW q \in Rollouts PROVE ApiRun(q)'
    BY <1>1, <2>1, <2>2, <2>3 DEF ApiRuns, ApiRun, Doing, SameApi
  <2> QED BY <2>4, <2>5 DEF ApiRuns
<1> QED BY <1>5, <1>7, <1>8 DEF Switches, Services

\* Whatever a step does to the API, its env, its state and its container fit together.
LEMMA ApiStep ==
  ASSUME BootstrapTypes, Lockeds, ApiKept, ApiRuns, [BootstrapNext]_bootstrap
  PROVE  ApiKept' /\ ApiRuns'
<1>1. ASSUME NEW r \in Rollouts, EndRun(r), UNCHANGED api
      PROVE  ApiKept' /\ ApiRuns'
  <2>1. \A q \in Rollouts : run'[q] = run[q] \/ run'[q] = AtRest
    BY <1>1 DEF EndRun, BootstrapTypes
  <2> QED BY <1>1, <2>1, ApiUntouched DEF ApiRuns
<1>2. ASSUME NEW r \in Rollouts,
             BreakOff(r) \/ FindPrepared(r) \/ NothingToActivate(r) \/ SaveInitialized(r)
      PROVE  ApiKept' /\ ApiRuns'
  <2>1. EndRun(r) /\ UNCHANGED <<env, serving, edits, offs, secrets>>
    BY <1>2 DEF BreakOff, FindPrepared, NothingToActivate, SaveInitialized
  <2>2. saved'.api = saved.api
    BY <1>2 DEF BreakOff, FindPrepared, NothingToActivate, SaveInitialized, BootstrapTypes,
                States
  <2> QED BY <1>1, <2>1, <2>2 DEF api
<1>3. ASSUME NEW r \in Rollouts, NEW k \in {"chat", "retrieval"}, WriteService(r, k)
      PROVE  ApiKept' /\ ApiRuns'
  <2>1. Doing(r, "prepare_ai", "begun") \/ Doing(r, "prepare_ai", "chat")
    BY <1>3 DEF WriteService
  <2>2. run[r] \in Runs /\ run[r].mode = "prepare_ai"
    BY <2>1 DEF BootstrapTypes, Doing, AtRest
  <2>3. env'.api = env.api /\ UNCHANGED <<saved, serving, edits, offs, secrets>>
    BY <1>3 DEF WriteService, BootstrapTypes, Envs
  <2>4. run'[r] = [run[r] EXCEPT !.pc = k] /\ \A q \in Rollouts \ {r} : run'[q] = run[q]
    BY <1>3 DEF WriteService, GoTo, BootstrapTypes
  <2>5. run'[r].mode = "prepare_ai"
    BY <2>2, <2>4 DEF Runs
  <2>6. ApiRun(r)'
    BY <2>5 DEF ApiRun, Doing
  <2>7. ApiKept' /\ \A q \in Rollouts \ {r} : ApiRun(q)'
    BY <2>3, <2>4, ApiUntouched DEF api, ApiRuns
  <2> QED BY <2>6, <2>7 DEF ApiRuns
<1>4. ASSUME UNCHANGED <<env, saved, serving, edits, offs, secrets, run>>
      PROVE  ApiKept' /\ ApiRuns'
  BY <1>4, ApiUntouched DEF api, ApiRuns
<1> QED
  BY <1>2, <1>3, <1>4, ApiBegun, ChangesIntended, ChangesWritten, ApiRecreated, PreparedSaved,
     PendingDone, ActivationIntended, ActivationWritten, TakenUp, ApiRestarted, ApiDeployed,
     ApiTurned DEF BootstrapNext, bootstrap

-----------------------------------------------------------------------------
\* The theorem

\* The inductive invariant.
BootstrapIInv == BootstrapTypes /\ Lockeds /\ ServicesInv /\ ApiKept /\ ApiRuns

\* A host that was never set up, or that was set up by hand.
LEMMA BootstrapStarts == ASSUME BootstrapInit PROVE BootstrapIInv
<1>1. BootstrapTypes
  <2>1. serving \in ApiEnv
    BY DEF BootstrapInit, ApiEnv
  <2>2. env \in Envs
    BY <2>1 DEF BootstrapInit, Envs, ServiceEnv
  <2>3. saved \in States
    BY DEF BootstrapInit, States, ApiState, NoChange
  <2> QED BY <2>1, <2>2, <2>3 DEF BootstrapInit, BootstrapTypes
<1>2. \A r \in Rollouts : run[r] = AtRest
  BY DEF BootstrapInit
<1>3. Lockeds /\ ApiRuns
  BY <1>2 DEF Lockeds, Locked, ApiRuns, ApiRun, Doing, AtRest
<1>4. ServicesInv
  BY <1>2 DEF BootstrapInit, ServicesInv, ServiceKept, ServiceRead, WillReplace, Doing,
              AtRest, Services
<1>5. ApiKept
  BY DEF BootstrapInit, NoChange, ApiKept, SecretKept, PreparedKept, ServedKept, OffsKept
<1> QED BY <1>1, <1>3, <1>4, <1>5 DEF BootstrapIInv

\* It implies what an interrupted set-up must not break.
LEMMA BootstrapMeans == ASSUME BootstrapIInv PROVE BootstrapInv
<1>1. OperatorOffStands
  BY DEF BootstrapIInv, BootstrapTypes, Switches, Services, ServicesInv, ServiceKept, ApiKept,
         OffsKept, OperatorOffStands, IsOn
<1>2. OneSecret
  <2>1. CASE secrets = {}
    BY <2>1, FS_EmptySet DEF OneSecret
  <2>2. CASE secrets = {env.api.secret}
    <3>1. Cardinality({env.api.secret}) = 1
      BY FS_Singleton
    <3> QED BY <2>2, <3>1 DEF OneSecret
  <2> QED BY <2>1, <2>2 DEF BootstrapIInv, ApiKept, SecretKept
<1>3. PreparedIsServed
  <2>1. saved.ai => \A k \in {"chat", "retrieval"} :
          env[k].marker /\ (edits[k] = 0 => env[k].on)
    BY DEF BootstrapIInv, ServicesInv, ServiceKept, Services
  <2>2. saved.api.prepared =>
          /\ serving.secret # 0 /\ serving.secret = env.api.secret
          /\ edits["ops"] = 0 => serving.ops
          /\ edits["public"] = 0 /\ ~saved.api.pending => serving.public = "on"
    BY DEF BootstrapIInv, ApiKept, SecretKept, PreparedKept, ServedKept
  <2> QED BY <2>1, <2>2 DEF PreparedIsServed
<1> QED BY <1>1, <1>2, <1>3 DEF BootstrapInv

\* However often the set-up is begun, broken off and repeated, by any number of rollouts and
\* whatever the operator edits meanwhile: what he turned off stays off, there is one secret,
\* and what counts as prepared is served (bootstrap-chat-runtime.py).
THEOREM BootstrapHolds == BootstrapSpec => []BootstrapInv
<1>1. BootstrapInit => BootstrapIInv
  BY BootstrapStarts
<1>2. BootstrapIInv /\ [BootstrapNext]_bootstrap => BootstrapIInv'
  BY TypesStep, LockedStep, ServicesStep, ApiStep DEF BootstrapIInv
<1>3. BootstrapIInv => BootstrapInv
  BY BootstrapMeans
<1> QED BY <1>1, <1>2, <1>3, PTL DEF BootstrapSpec
==========================================================================
