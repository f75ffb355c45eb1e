---------------------------- MODULE MCExecutions -----------------------------
(***************************************************************************)
(* Parts of the system for TLC, each alone: the loop that compares the     *)
(* world settings of a job and the recovery of a rejected answer of it, a  *)
(* relationship job, the answer of a chat question from the manuscript,    *)
(* the judges and the typo branch of a validation, the cutting of an       *)
(* episode and the set-up of either host.  They share no state: a          *)
(* behaviour is one of them, and the others stay where they start.         *)
(***************************************************************************)
EXTENDS WorldWindow, WorldRecovery, RelationshipJob, SourceExploration, QuestionJudging, TypoBranch,
        TextSlices, HostBootstrap

VARIABLE part  \* the part of this behaviour

parts == <<window, recovery, relationship, exploration, judging, typing, slicing,
           bootstrap>>

ExecutionsInit ==
  /\ part \in {"window", "recovery", "relationship", "chat", "judging", "typo", "text",
              "ai_host", "api_host"}
  /\ WindowInit /\ RecoveryInit /\ RelationshipInit
  /\ ExplorationInit /\ JudgingInit /\ TypoInit /\ SlicesInit /\ BootstrapInit
  /\ part # "judging" => scope = "empty"
  /\ part # "api_host" => serving.secret = 0 /\ ~serving.ops /\ serving.public = "unset"

ExecutionsNext ==
  /\ \/ /\ part = "window" /\ WindowNext
        /\ UNCHANGED <<recovery, relationship, exploration, judging, typing, slicing, bootstrap>>
     \/ /\ part = "recovery" /\ RecoveryNext
        /\ UNCHANGED <<window, relationship, exploration, judging, typing, slicing, bootstrap>>
     \/ /\ part = "relationship" /\ RelationshipNext
        /\ UNCHANGED <<window, recovery, exploration, judging, typing, slicing, bootstrap>>
     \/ /\ part = "chat" /\ ExplorationNext
        /\ UNCHANGED <<window, recovery, relationship, judging, typing, slicing, bootstrap>>
     \/ /\ part = "judging" /\ JudgingNext
        /\ UNCHANGED <<window, recovery, relationship, exploration, typing, slicing, bootstrap>>
     \/ /\ part = "typo" /\ TypoNext
        /\ UNCHANGED <<window, recovery, relationship, exploration, judging, slicing, bootstrap>>
     \/ /\ part = "text" /\ SlicesNext
        /\ UNCHANGED <<window, recovery, relationship, exploration, judging, typing, bootstrap>>
     \/ /\ part = "ai_host" /\ BootstrapNext
        /\ env.api' = env.api /\ serving' = serving /\ hostLock["api"]' = hostLock["api"]
        /\ UNCHANGED <<window, recovery, relationship, exploration, judging, typing, slicing>>
     \/ /\ part = "api_host" /\ BootstrapNext
        /\ env.chat' = env.chat /\ env.retrieval' = env.retrieval
        /\ saved.ai' = saved.ai /\ hostLock["ai"]' = hostLock["ai"]
        /\ UNCHANGED <<window, recovery, relationship, exploration, judging, typing, slicing>>
  /\ UNCHANGED part

ExecutionsSpec == ExecutionsInit /\ [][ExecutionsNext]_<<part, parts>>

-----------------------------------------------------------------------------
\* A chain of settings: a root setting that is the scope of a child, a decision
\* that reads the child and writes another setting, and two that create a scope.
Touched(r, w, s) == [reads |-> r, writes |-> w, scopes |-> s]
MCUnit == [s \in Sources |-> IF s = 1 THEN "root" ELSE "other"]
MCWithin == {<<"root", "child">>}
MCFootprints == {Touched({}, {"root"}, {}), Touched({"child"}, {"other"}, {}),
                 Touched({}, {"child"}, {"scope"}), Touched({"other"}, {"last"}, {"scope"})}

\* A question of three parts: a draft answers one or two of them, in one claim or two.
MCDrafts == {{}, {{1}}, {{1, 2}}, {{2}, {3}}, {{1, 2}, {3}}}

\* Two questions on the same sentence, one of which has it as its search for changes
\* too, and a third whose target is not searched.
MCTargetQuery == <<"same", "same", "">>
MCChangeQuery == <<"change", "same", "last">>
MCFollowUps == {<<>>, <<"same">>, <<"change", "same">>}
=============================================================================
