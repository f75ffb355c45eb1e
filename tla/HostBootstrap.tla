---------------------------- MODULE HostBootstrap -----------------------------
(***************************************************************************)
(* The first set-up of the two hosts (deploy/bootstrap-chat-runtime.py):   *)
(* prepare-ai fills the env files of the chat and of the index and         *)
(* switches both on, prepare-api gives the API a secret and switches its   *)
(* operations on, and activate-api opens the chat to the public, once.     *)
(*                                                                         *)
(* Every rollout runs all of them again, whatever an earlier one left      *)
(* behind when it failed or its host went down, and a rollout that is      *)
(* given up may still be at work on the host.  What happened before is     *)
(* known from two places that are written one after the other: the private *)
(* state file, and markers in the env files, which an operator edits       *)
(* without any lock.  A file is replaced as a whole; an edit made between  *)
(* the reading and the replacing of a file is lost, and no property here   *)
(* speaks of it.                                                           *)
(***************************************************************************)
EXTENDS Naturals, FiniteSets

CONSTANTS Rollouts,  \* the processes that may be at work
          NoRollout, \* nobody holds a lock
          MaxEdits   \* how often the operator turns each switch

ASSUME RolloutsAssumption == NoRollout \notin Rollouts /\ MaxEdits \in Nat

VARIABLES env,      \* the env files: chat, retrieval and api
          saved,    \* state.json of either host; for the AI host, whether it is initialized
          serving,  \* the env with which the API's container was created
          hostLock,   \* who holds the lock of a host
          run,      \* what a rollout does and has read
          edits,    \* history: how often the operator turned each switch
          offs,     \* history: what the operator turned off after it had been switched on
          secrets,  \* history: the secrets the API's env ever had
          minted    \* secrets and activation ids made so far
bootstrap == <<env, saved, serving, hostLock, run, edits, offs, secrets, minted>>

Modes == {"prepare_ai", "prepare_api", "activate_api"}
Host(mode) == IF mode = "prepare_ai" THEN "ai" ELSE "api"
Switches == {"chat", "retrieval", "ops", "public"}

AtRest == [pc |-> "idle"]

\* pendingChanges: whether there are any, the secret among them, and whether the chat is
\* to be entered as closed.  The operations and the marker are always among them.
NoChange == [due |-> FALSE, secret |-> 0, close |-> FALSE]

\* The API may have been set up by hand before, in part or as a whole.
BootstrapInit ==
  /\ \E secret \in {0, 1}, ops \in BOOLEAN, public \in {"unset", "off", "on"} :
       serving = [secret |-> secret, ops |-> ops, public |-> public,
                  marker |-> FALSE, activation |-> 0]
  /\ env = [chat |-> [on |-> FALSE, marker |-> FALSE],
            retrieval |-> [on |-> FALSE, marker |-> FALSE], api |-> serving]
  /\ saved = [ai |-> FALSE,
              api |-> [prepared |-> FALSE, changes |-> NoChange, restart |-> FALSE,
                       pending |-> FALSE, activation |-> 0]]
  /\ hostLock = [h \in {"ai", "api"} |-> NoRollout]
  /\ run = [r \in Rollouts |-> AtRest]
  /\ edits = [k \in Switches |-> 0] /\ offs = {}
  /\ secrets = {serving.secret} \ {0} /\ minted = 1

-----------------------------------------------------------------------------
\* A run of the script

\* Under the host's lock it loads the state and lets Compose render the env.
BeginRun(r, mode) ==
  /\ run[r] = AtRest /\ hostLock[Host(mode)] = NoRollout
  /\ hostLock' = [hostLock EXCEPT ![Host(mode)] = r]
  /\ run' = [run EXCEPT ![r] = [pc |-> "begun", mode |-> mode, state |-> saved,
                                config |-> env, text |-> env]]
  /\ UNCHANGED <<env, saved, serving, edits, offs, secrets, minted>>

Doing(r, mode, pc) == run[r].pc = pc /\ run[r].mode = mode
GoTo(r, pc) == run' = [run EXCEPT ![r].pc = pc]

EndRun(r) ==
  /\ run' = [run EXCEPT ![r] = AtRest]
  /\ hostLock' = [hostLock EXCEPT ![Host(run[r].mode)] = NoRollout]

\* It raises, is killed, or its host goes down.
BreakOff(r) ==
  /\ run[r] # AtRest /\ EndRun(r)
  /\ UNCHANGED <<env, saved, serving, edits, offs, secrets, minted>>

\* self.state and save_state: the whole file is replaced.
SaveApi(r, api) == saved' = [saved EXCEPT !.api = api]

-----------------------------------------------------------------------------
\* prepare-ai

\* Mutant: only the state file tells whether a file was set up.
FirstByState(r, k) == ~run[r].state.ai

\* first_chat, first_retrieval
FirstTime(r, k) == ~run[r].state.ai /\ ~run[r].text[k].marker

\* The database is prepared and the file replaced, if a switch, the marker or something
\* else, the size of the API's pool for one, is to change.
WriteService(r, k) ==
  /\ \/ k = "chat" /\ Doing(r, "prepare_ai", "begun")
     \/ k = "retrieval" /\ Doing(r, "prepare_ai", "chat")
  /\ LET old == run[r].text[k]
         new == [on |-> old.on \/ FirstTime(r, k), marker |-> TRUE]
     IN \E more \in BOOLEAN :
          env' = IF more \/ new # old THEN [env EXCEPT ![k] = new] ELSE env
  /\ GoTo(r, k)
  /\ UNCHANGED <<saved, serving, hostLock, edits, offs, secrets, minted>>

SaveInitialized(r) ==
  /\ Doing(r, "prepare_ai", "retrieval")
  /\ saved' = [saved EXCEPT !.ai = TRUE] /\ EndRun(r)
  /\ UNCHANGED <<env, serving, edits, offs, secrets, minted>>

-----------------------------------------------------------------------------
\* prepare-api

\* What is missing; the operations are switched on in any case.  The URL of the chat is
\* added as the secret is.
Changes(config, text) ==
  [due |-> TRUE, secret |-> IF config.secret = 0 THEN minted + 1 ELSE 0,
   close |-> text.public = "unset"]

\* updated_env
Updated(text, changes) ==
  [text EXCEPT !.ops = TRUE, !.marker = TRUE,
               !.secret = IF changes.secret = 0 THEN @ ELSE changes.secret,
               !.public = IF changes.close THEN "off" ELSE @]

\* Mutant: the secret and the need of a restart are kept in memory only.
IntendUnsaved(r) ==
  LET config == run[r].config.api
      api == [run[r].state.api EXCEPT !.changes = Changes(config, env.api),
                                      !.restart = config.secret = 0 \/ ~config.ops,
                                      !.pending = config.public # "on"]
  IN /\ Doing(r, "prepare_api", "begun") /\ ~run[r].state.api.prepared
     /\ ~run[r].state.api.changes.due /\ ~env.api.marker
     /\ run' = [run EXCEPT ![r].pc = "intended", ![r].state.api = api, ![r].text = env]
     /\ minted' = minted + 1
     /\ UNCHANGED <<saved, env, serving, hostLock, edits, offs, secrets>>

\* The changes are saved before the env is touched, so that a later run repeats them.
IntendChanges(r) ==
  LET config == run[r].config.api
      api == [run[r].state.api EXCEPT !.changes = Changes(config, env.api),
                                      !.restart = config.secret = 0 \/ ~config.ops,
                                      !.pending = config.public # "on"]
  IN /\ Doing(r, "prepare_api", "begun") /\ ~run[r].state.api.prepared
     /\ ~run[r].state.api.changes.due /\ ~env.api.marker
     /\ run' = [run EXCEPT ![r].pc = "intended", ![r].state.api = api, ![r].text = env]
     /\ SaveApi(r, api) /\ minted' = minted + 1
     /\ UNCHANGED <<env, serving, hostLock, edits, offs, secrets>>

\* An earlier run got that far, or even wrote the env.
TakeUpChanges(r) ==
  /\ Doing(r, "prepare_api", "begun") /\ ~run[r].state.api.prepared
  /\ env.api.marker \/ run[r].state.api.changes.due
  /\ run' = [run EXCEPT ![r].pc = IF env.api.marker THEN "written" ELSE "intended",
                        ![r].text = env]
  /\ UNCHANGED <<env, saved, serving, hostLock, edits, offs, secrets, minted>>

WriteChanges(r) ==
  /\ Doing(r, "prepare_api", "intended")
  /\ env' = [env EXCEPT !.api = Updated(run[r].text.api, run[r].state.api.changes)]
  /\ secrets' = secrets \union ({env'.api.secret} \ {0})
  /\ GoTo(r, "written")
  /\ UNCHANGED <<saved, serving, hostLock, edits, offs, minted>>

\* Mutant: it is this run's own writing that calls for a restart.
RecreateIfWritten(r) ==
  /\ Doing(r, "prepare_api", "written")
  /\ serving' = IF run[r].text.api # env.api THEN env.api ELSE serving
  /\ GoTo(r, "served")
  /\ UNCHANGED <<env, saved, hostLock, edits, offs, secrets, minted>>

\* The container is recreated if the saved state says so, whoever wrote the env.
RecreateApi(r) ==
  /\ Doing(r, "prepare_api", "written")
  /\ serving' = IF run[r].state.api.restart THEN env.api ELSE serving
  /\ GoTo(r, "served")
  /\ UNCHANGED <<env, saved, hostLock, edits, offs, secrets, minted>>

SavePrepared(r) ==
  /\ Doing(r, "prepare_api", "served")
  /\ SaveApi(r, [run[r].state.api EXCEPT !.changes = NoChange, !.restart = FALSE,
                                         !.prepared = TRUE])
  /\ EndRun(r)
  /\ UNCHANGED <<env, serving, edits, offs, secrets, minted>>

\* It has been prepared: the API only has to be well.
FindPrepared(r) ==
  /\ Doing(r, "prepare_api", "begun") /\ run[r].state.api.prepared
  /\ EndRun(r)
  /\ UNCHANGED <<env, saved, serving, edits, offs, secrets, minted>>

-----------------------------------------------------------------------------
\* activate-api

\* Prepared, not yet activated, and the running API answers with its flags.
MayActivate(r) ==
  /\ Doing(r, "activate_api", "begun")
  /\ run[r].state.api.prepared /\ run[r].state.api.pending
  /\ serving.ops /\ serving.secret # 0

\* The env has been written for this activation.
Activated(r) ==
  LET id == run[r].state.api.activation IN id # 0 /\ env.api.activation = id

Enabled(r) == run[r].config.api.public = "on"

\* The operator has opened the chat himself, or has closed it after it was opened.
LeaveAsItIs(r) ==
  /\ MayActivate(r)
  /\ IF Activated(r) THEN ~Enabled(r) ELSE Enabled(r) /\ serving.public = "on"
  /\ SaveApi(r, [run[r].state.api EXCEPT !.pending = FALSE]) /\ EndRun(r)
  /\ UNCHANGED <<env, serving, edits, offs, secrets, minted>>

\* Mutant: the id of the activation is not saved before the env is written.
IntendUnnamed(r) ==
  /\ MayActivate(r) /\ ~Activated(r) /\ ~(Enabled(r) /\ serving.public = "on")
  /\ LET old == run[r].state.api.activation
         api == [run[r].state.api EXCEPT !.activation = IF old # 0 THEN old ELSE minted + 1]
     IN /\ run' = [run EXCEPT ![r].pc = "intended", ![r].state.api = api, ![r].text = env]
        /\ minted' = IF old # 0 THEN minted ELSE minted + 1
  /\ UNCHANGED <<saved, env, serving, hostLock, edits, offs, secrets>>

IntendActivation(r) ==
  /\ MayActivate(r) /\ ~Activated(r) /\ ~(Enabled(r) /\ serving.public = "on")
  /\ LET old == run[r].state.api.activation
         api == [run[r].state.api EXCEPT !.activation = IF old # 0 THEN old ELSE minted + 1]
     IN /\ run' = [run EXCEPT ![r].pc = "intended", ![r].state.api = api, ![r].text = env]
        /\ SaveApi(r, api)
        /\ minted' = IF old # 0 THEN minted ELSE minted + 1
  /\ UNCHANGED <<env, serving, hostLock, edits, offs, secrets>>

WriteActivation(r) ==
  /\ Doing(r, "activate_api", "intended")
  /\ env' = [env EXCEPT !.api = [run[r].text.api EXCEPT
                                   !.public = "on",
                                   !.activation = run[r].state.api.activation]]
  /\ GoTo(r, "written")
  /\ UNCHANGED <<saved, serving, hostLock, edits, offs, secrets, minted>>

\* An earlier run wrote the env: what is left is the restart.
TakeUpActivation(r) ==
  /\ MayActivate(r) /\ Activated(r) /\ Enabled(r)
  /\ GoTo(r, "written")
  /\ UNCHANGED <<env, saved, serving, hostLock, edits, offs, secrets, minted>>

RestartApi(r) ==
  /\ Doing(r, "activate_api", "written")
  /\ serving' = env.api /\ GoTo(r, "served")
  /\ UNCHANGED <<env, saved, hostLock, edits, offs, secrets, minted>>

\* The running API must say that it is open.
SaveActivated(r) ==
  /\ Doing(r, "activate_api", "served")
  /\ serving.ops /\ serving.public = "on"
  /\ SaveApi(r, [run[r].state.api EXCEPT !.pending = FALSE]) /\ EndRun(r)
  /\ UNCHANGED <<env, serving, edits, offs, secrets, minted>>

\* There is nothing to activate, or not yet.
NothingToActivate(r) ==
  /\ Doing(r, "activate_api", "begun")
  /\ ~run[r].state.api.prepared \/ ~run[r].state.api.pending
  /\ EndRun(r)
  /\ UNCHANGED <<env, saved, serving, edits, offs, secrets, minted>>

-----------------------------------------------------------------------------
\* The others

\* A deployment of the API, under the same lock.
DeployApi ==
  /\ hostLock["api"] = NoRollout /\ serving' = env.api
  /\ UNCHANGED <<env, saved, hostLock, run, edits, offs, secrets, minted>>

IsOn(k) ==
  CASE k = "ops" -> env.api.ops [] k = "public" -> env.api.public = "on"
    [] OTHER -> env[k].on

\* The script has had this switch in its hands.
Switched(k) ==
  CASE k = "ops" -> env.api.marker [] k = "public" -> env.api.activation # 0
    [] OTHER -> env[k].marker

\* A run has read the file and may still replace it.
ToBeReplaced(k) ==
  \E r \in Rollouts :
    CASE k = "chat" -> Doing(r, "prepare_ai", "begun")
      [] k = "retrieval" -> Doing(r, "prepare_ai", "begun") \/ Doing(r, "prepare_ai", "chat")
      [] OTHER -> Doing(r, "prepare_api", "intended") \/ Doing(r, "activate_api", "intended")

\* The operator edits an env file.
Turn(k) ==
  /\ edits[k] < MaxEdits /\ edits' = [edits EXCEPT ![k] = @ + 1]
  /\ env' = CASE k = "ops" -> [env EXCEPT !.api.ops = ~@]
              [] k = "public" -> [env EXCEPT !.api.public = IF @ = "on" THEN "off" ELSE "on"]
              [] OTHER -> [env EXCEPT ![k].on = ~@]
  /\ offs' = IF ~IsOn(k) THEN offs \ {k}
             ELSE IF Switched(k) /\ ~ToBeReplaced(k) THEN offs \union {k} ELSE offs
  /\ UNCHANGED <<saved, serving, hostLock, run, secrets, minted>>

BootstrapNext ==
  \/ \E r \in Rollouts :
       \/ \E mode \in Modes : BeginRun(r, mode)
       \/ BreakOff(r)
       \/ \E k \in {"chat", "retrieval"} : WriteService(r, k)
       \/ SaveInitialized(r)
       \/ IntendChanges(r) \/ TakeUpChanges(r) \/ WriteChanges(r)
       \/ RecreateApi(r) \/ SavePrepared(r) \/ FindPrepared(r)
       \/ LeaveAsItIs(r) \/ IntendActivation(r) \/ WriteActivation(r)
       \/ TakeUpActivation(r) \/ RestartApi(r) \/ SaveActivated(r)
       \/ NothingToActivate(r)
  \/ DeployApi
  \/ \E k \in Switches : Turn(k)

BootstrapSpec == BootstrapInit /\ [][BootstrapNext]_bootstrap

-----------------------------------------------------------------------------
\* Properties

\* What the script has switched on once and the operator has turned off stays off,
\* however many rollouts follow and wherever one of them broke off.
OperatorOffStands == \A k \in offs : ~IsOn(k)

\* The secret is made once: the API never gets another one, whichever run finishes it.
OneSecret == Cardinality(secrets) <= 1

\* A host that counts as prepared, or as opened, is so in its env files and, for the API,
\* in the running container, unless the operator turned the switch.
PreparedIsServed ==
  /\ saved.ai => \A k \in {"chat", "retrieval"} :
       env[k].marker /\ (edits[k] = 0 => env[k].on)
  /\ saved.api.prepared =>
       /\ serving.secret # 0 /\ serving.secret = env.api.secret
       /\ edits["ops"] = 0 => serving.ops
       /\ edits["public"] = 0 /\ ~saved.api.pending => serving.public = "on"

\* However the first set-up is interrupted and repeated, it ends in what one undisturbed
\* run would have left, and never overrules the operator.
BootstrapInv == OperatorOffStands /\ OneSecret /\ PreparedIsServed
=============================================================================
