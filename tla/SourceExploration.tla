--------------------------- MODULE SourceExploration -------------------------
(***************************************************************************)
(* The answer of a chat question from the manuscript                       *)
(* (app/chatbot/hybrid_agent.py, with the answer and the merge of          *)
(* app/chatbot/hybrid.py).  A model chooses what to search and read, step  *)
(* by step; what was read is registered and answered in two stages, facts  *)
(* extracted from groups of it in parallel and an answer composed of them. *)
(* A partial answer is kept, and the missing parts are explored again.     *)
(* Every search and receipt spends a tool and every request to the         *)
(* provider a call; a run that exceeds either loses all it has paid for.   *)
(* The questions are those without registered settings or items.           *)
(***************************************************************************)
EXTENDS Naturals, FiniteSets, FiniteSetsExt

CONSTANTS Parts,          \* the requested parts of the question
          Drafts,         \* what a draft may claim: sets of claims, a claim a set of parts
          MaxTools,       \* context.max_tool_calls
          MaxCalls,       \* context.max_calls
          MaxModelCalls,  \* max_model_calls
          MaxTries,       \* max_attempts
          MaxGroups,      \* agent_extract_max_groups
          MaxSteps,       \* agent_max_steps
          MaxAnswers,     \* agent_max_answers
          Receipt,        \* RETRIEVAL_SOURCE_LIMIT: chunks of one registration
          ReadLimit       \* EPISODE_READ_LIMIT: chunks of one search

ASSUME DraftsAssumption == Drafts \subseteq SUBSET (SUBSET Parts)
ASSUME ReceiptAssumption == Receipt \in Nat \ {0} /\ ReadLimit \in Nat
ASSUME LimitsAssumption ==
  /\ MaxTools \in Nat /\ MaxCalls \in Nat /\ MaxModelCalls \in Nat /\ MaxTries \in Nat
  /\ MaxGroups \in Nat

VARIABLES
  doing,         \* where the run is
  tools,         \* tool_count
  made,          \* model_calls
  asked,         \* execution.calls
  reserving,     \* extraction calls whose reservation is awaited
  refused,       \* one of them was refused
  triesLeft,     \* attempts of the model call under way
  unregistered,  \* agent_unregistered
  shown,         \* there is evidence to answer from
  found,         \* the pool has grown since the last answer
  agentSteps,    \* agent_steps
  agentAnswers,  \* agent_answers
  gaps,          \* an answer has been tried
  extractOff,    \* agent_extract_off
  draft,         \* the answer that was drafted
  best,          \* the partial answer that is kept
  published      \* the parts the published answer answers

budget == <<tools, made, asked>>
pool == <<unregistered, shown, found>>
counts == <<agentSteps, agentAnswers>>
flags == <<gaps, extractOff>>
answers == <<draft, best, published>>
callState == <<reserving, refused, triesLeft>>
exploration == <<doing, budget, pool, counts, flags, answers, callState>>

\* An answer: its claims, whether it reports a conflict, whether validation failed.
NoDraft(failed) == [claims |-> {}, conflict |-> FALSE, failed |-> failed]
NoAnswer == NoDraft(FALSE)
Answered(a) == UNION a.claims
Ready(a) == Answered(a) = Parts
Empty(a) == a.claims = {} /\ ~a.conflict

ExplorationInit ==
  /\ doing = "idle"
  /\ tools = 0 /\ made = 0 /\ asked = 0
  /\ unregistered = 0 /\ shown = FALSE /\ found = FALSE
  /\ agentSteps = 0 /\ agentAnswers = 0
  /\ gaps = FALSE /\ extractOff = FALSE
  /\ draft = NoAnswer /\ best = NoAnswer /\ published = {}
  /\ reserving = 0 /\ refused = FALSE /\ triesLeft = 0

-----------------------------------------------------------------------------
\* The budget

Receipts(n) == (n + Receipt - 1) \div Receipt

\* agent_tail_tools: the registrations of the pool and of one more search, and the
\* last check of the sources with its receipt.
TailTools == Max({1, Receipts(unregistered + Receipt)}) + 2

ToolsAvailable(cost) == tools + cost <= MaxTools

\* Mutant: whatever was read is put into the pool.
RoomForAll(left) == ReadLimit

\* agent_register_room: what can be registered before the last two tools.
RegisterRoom(left) ==
  Max({0, (IF left >= 2 THEN left - 2 ELSE 0) * Receipt - unregistered})

CallRoom == Min({MaxModelCalls - made, MaxCalls - asked})
ModelsAvailable == made < MaxModelCalls /\ asked + 1 <= MaxCalls

\* agent_can_step, for an answer of one group.
CanStep ==
  /\ agentSteps < MaxSteps
  /\ made + 1 + 2 <= MaxModelCalls /\ asked + 2 + 2 <= MaxCalls
  /\ ToolsAvailable(2 + TailTools)

\* consume
Spends(n, then) ==
  IF ToolsAvailable(n) THEN tools' = tools + n /\ doing' = then
  ELSE tools' = tools /\ doing' = "limit"

\* before_model_call and the check of Execution.call, for n requests at once.
MayAsk(n) == made + n <= MaxModelCalls /\ (n > 0 => asked < MaxCalls)

-----------------------------------------------------------------------------
\* Reading

\* agent_source_span.  The plan has spent c calls, each of them checked as well, and the
\* lookups t tools.
Enter(t, c) ==
  /\ doing = "idle"
  /\ c <= MaxModelCalls /\ c <= MaxCalls
  /\ made' = c /\ asked' = c
  /\ IF t + 1 + TailTools <= MaxTools THEN tools' = t + 1 /\ doing' = "search"
     ELSE tools' = t /\ doing' = "insufficient"
  /\ UNCHANGED <<pool, counts, flags, answers, callState>>

\* A keyword or a vector search, of the seed or of a step.
Search ==
  /\ doing \in {"search", "vectors"} /\ ToolsAvailable(1 + TailTools)
  /\ Spends(1, doing)
  /\ UNCHANGED <<made, asked, pool, counts, flags, answers, callState>>

\* agent_vectors: the queries are embedded in one call.
Embed ==
  /\ doing = "search" /\ ToolsAvailable(1 + TailTools)
  /\ made < MaxModelCalls /\ asked + 2 <= MaxCalls
  /\ asked' = asked + 1 /\ doing' = "vectors"
  /\ UNCHANGED <<tools, made, pool, counts, flags, answers, callState>>

\* agent_pool_add, after spent more tools.
Pools(n, spent) ==
  LET added == Min({n, RegisterRoom(MaxTools - tools - spent)})
  IN /\ unregistered' = unregistered + added
     /\ found' = (found \/ added > 0) /\ shown' = (shown \/ added > 0)

Collect(n) ==
  /\ doing \in {"search", "vectors"}
  /\ Pools(n, 0) /\ doing' = "near"
  /\ UNCHANGED <<budget, counts, flags, answers, callState>>

\* The neighbours of what was found, and then whole episodes.
Read(n) ==
  /\ doing \in {"near", "read"} /\ ToolsAvailable(1 + TailTools)
  /\ Spends(1, IF doing = "near" THEN "read" ELSE "explore")
  /\ Pools(n, 1)
  /\ UNCHANGED <<made, asked, counts, flags, answers, callState>>

\* There are none, or no budget.
SkipRead ==
  /\ doing \in {"near", "read"}
  /\ doing' = IF doing = "near" THEN "read" ELSE "explore"
  /\ UNCHANGED <<budget, pool, counts, flags, answers, callState>>

-----------------------------------------------------------------------------
\* Exploring

StartStep ==
  /\ doing = "explore" /\ CanStep
  /\ agentSteps' = agentSteps + 1
  /\ triesLeft' = Max({1, Min({MaxTries, CallRoom - 1})})
  /\ doing' = "decide"
  /\ UNCHANGED <<budget, pool, agentAnswers, flags, answers, reserving, refused>>

\* No step is affordable, the time is up, or nothing new was found twice.
Explored ==
  /\ doing \in {"explore", "decide"}
  /\ doing' = "explored" /\ triesLeft' = 0
  /\ UNCHANGED <<budget, pool, counts, flags, answers, reserving, refused>>

\* One request of agent_decide: it chooses searches or episodes, has enough, or is
\* refused by validation.
Decision(then) ==
  /\ doing = "decide"
  /\ IF MayAsk(1)
     THEN /\ made' = made + 1 /\ asked' = asked + 1
          /\ doing' = IF then = "decide" /\ triesLeft = 1 THEN "explored" ELSE then
          /\ triesLeft' = IF doing' = "decide" THEN triesLeft - 1 ELSE 0
     ELSE UNCHANGED <<made, asked, triesLeft>> /\ doing' = "limit"
  /\ UNCHANGED <<tools, pool, counts, flags, answers, reserving, refused>>

\* agent_register, if there is something to answer from and a call to ask with.
Register ==
  /\ doing \in {"explored", "again"} /\ ModelsAvailable
  /\ doing = "explored" => shown /\ (gaps => found)
  /\ Spends(Receipts(unregistered), "answer")
  /\ unregistered' = 0 /\ agentAnswers' = agentAnswers + 1
  /\ UNCHANGED <<made, asked, shown, found, agentSteps, flags, answers, callState>>

NotAnswerable ==
  /\ doing \in {"explored", "again"}
  /\ \/ doing = "explored" /\ ~(shown /\ (gaps => found))
     \/ ~ModelsAvailable
  /\ doing' = "end"
  /\ UNCHANGED <<budget, pool, counts, flags, answers, callState>>

-----------------------------------------------------------------------------
\* Answering

Drafted(d) ==
  /\ draft' = d /\ doing' = "drafted" /\ triesLeft' = 0
  /\ UNCHANGED <<best, published>>

\* Mutant: the calls that are left do not limit the groups.
GroupsOfConfig == MaxGroups

\* The groups of agent_extract_facts, but for the answer and its repair.
Groups == Max({1, Min({MaxGroups, IF CallRoom >= 2 THEN CallRoom - 2 ELSE 0})})

\* The evidence does not fit, or has lost what the kept answer needs.
ContextLost ==
  /\ doing = "answer" /\ Drafted(NoAnswer)
  /\ UNCHANGED <<budget, pool, counts, flags, reserving, refused>>

\* All the requests of the groups are checked before the first is reserved; a group
\* that was extracted before, or does not fit, asks nothing.
Extract(n) ==
  /\ doing = "answer" /\ ~extractOff /\ CallRoom >= 2
  /\ n <= Groups
  /\ IF MayAsk(n) THEN made' = made + n /\ reserving' = n /\ doing' = "extract"
     ELSE UNCHANGED <<made, reserving>> /\ doing' = "limit"
  /\ UNCHANGED <<tools, asked, pool, counts, flags, answers, refused, triesLeft>>

Reserved ==
  /\ doing = "extract" /\ reserving > 0
  /\ reserving' = reserving - 1
  /\ \/ asked' = asked + 1 /\ UNCHANGED refused
     \/ refused' = TRUE /\ UNCHANGED asked
  /\ UNCHANGED <<doing, tools, made, pool, counts, flags, answers, triesLeft>>

\* A refusal is raised when all groups have ended; a group that failed has no facts.
ExtractRaises ==
  /\ doing = "extract" /\ reserving = 0 /\ refused
  /\ doing' = "raised"
  /\ UNCHANGED <<budget, pool, counts, flags, answers, callState>>

NoFacts ==
  /\ doing = "extract" /\ reserving = 0 /\ ~refused
  /\ Drafted(NoAnswer)
  /\ UNCHANGED <<budget, pool, counts, flags, reserving, refused>>

\* The answer is composed of the facts, or written from the evidence in one stage.
Write(tries) ==
  /\ doing' = "write" /\ triesLeft' = tries
  /\ UNCHANGED <<budget, pool, counts, flags, answers, reserving, refused>>

Compose ==
  /\ doing = "extract" /\ reserving = 0 /\ ~refused
  /\ Write(Max({1, Min({MaxTries, CallRoom})}))

SingleStage ==
  /\ doing = "answer" /\ (extractOff \/ CallRoom < 2)
  /\ Write(Min({MaxTries, CallRoom}))

\* One request: a draft, or an answer that validation rejects.
Written(d) ==
  /\ doing = "write"
  /\ IF ~MayAsk(1) THEN UNCHANGED <<made, asked, triesLeft, answers>> /\ doing' = "limit"
     ELSE /\ made' = made + 1 /\ asked' = asked + 1
          /\ IF d.failed /\ triesLeft > 1
             THEN triesLeft' = triesLeft - 1 /\ UNCHANGED <<doing, answers>>
             ELSE Drafted(d)
  /\ UNCHANGED <<tools, pool, counts, flags, reserving, refused>>

\* It is truncated, or the time is up before it is asked.
CutOff ==
  /\ doing = "write" /\ Drafted(NoAnswer)
  /\ UNCHANGED <<budget, pool, counts, flags, reserving, refused>>

-----------------------------------------------------------------------------
\* Keeping and merging

\* Mutant: one answered part replaces a claim.
SupersededInPart(c, new) == c \intersect Answered(new) # {}

\* Only a complete replacement wins.
Superseded(c, new) == c # {} /\ c \subseteq Answered(new)

\* merge_partial_snapshot; fits says whether the citations of both fit.
Combined(old, new, fits) ==
  IF new.conflict THEN new
  ELSE IF old.conflict \/ Answered(new) \subseteq Answered(old) THEN old
  ELSE IF fits THEN [old EXCEPT !.claims = {c \in @ : ~Superseded(c, new)} \union new.claims]
  ELSE IF Answered(old) \subseteq Answered(new) THEN new ELSE old

\* agent_merge_partial
AgentMerged(old, new, fits) ==
  LET both == Combined(old, new, fits)
  IN IF Empty(old) THEN new
     ELSE IF both # old THEN both
     ELSE IF /\ ~old.conflict /\ Answered(old) \subseteq Answered(new)
             /\ Cardinality(new.claims) >= Cardinality(old.claims)
     THEN new ELSE old

\* A run that is not ready goes on, with the same sources or with more of them.
GoesOn(kept) ==
  \/ doing' = "end" /\ UNCHANGED <<gaps, found, extractOff>>
  \/ /\ agentAnswers < MaxAnswers
     /\ Empty(draft) /\ (draft.failed \/ ~extractOff)
     /\ doing' = "again" /\ extractOff' = (extractOff \/ ~draft.failed)
     /\ UNCHANGED <<gaps, found>>
  \/ /\ agentAnswers < MaxAnswers /\ CanStep
     /\ ~(Empty(draft) /\ (draft.failed \/ ~extractOff))
     /\ doing' = "explore" /\ gaps' = TRUE /\ found' = FALSE
     /\ UNCHANGED extractOff

Judge(fits) ==
  /\ doing = "drafted"
  /\ draft' = NoAnswer
  /\ IF Ready(draft)
     THEN /\ doing' = "finish" /\ published' = Answered(draft)
          /\ UNCHANGED <<best, gaps, found, extractOff>>
     ELSE /\ best' = IF Empty(draft) THEN best ELSE AgentMerged(best, draft, fits)
          /\ IF ~Empty(draft) /\ ~Empty(best) /\ Ready(best')
             THEN /\ doing' = "finish" /\ published' = Answered(best')
                  /\ UNCHANGED <<gaps, found, extractOff>>
             ELSE GoesOn(best') /\ UNCHANGED published
  /\ UNCHANGED <<budget, unregistered, shown, counts, callState>>

PublishBest ==
  /\ doing = "end"
  /\ doing' = IF Empty(best) THEN "insufficient" ELSE "finish"
  /\ published' = Answered(best)
  /\ UNCHANGED <<budget, pool, counts, flags, draft, best, callState>>

\* finish_answer: the sources are read again and registered, or the answer cites
\* more of them than one receipt holds.
Finish ==
  /\ doing = "finish"
  /\ Spends(2, "published")
  /\ UNCHANGED <<made, asked, pool, counts, flags, answers, callState>>

TooManyCited ==
  /\ doing = "finish"
  /\ doing' = "insufficient" /\ published' = {}
  /\ UNCHANGED <<budget, pool, counts, flags, draft, best, callState>>

RunOver == {"published", "insufficient", "raised", "limit"}

\* A lookup, a request or a reservation fails, or the run is cancelled.
RunRaises ==
  /\ doing \notin RunOver \union {"idle", "extract"}
  /\ doing' = "raised"
  /\ UNCHANGED <<budget, pool, counts, flags, answers, callState>>

-----------------------------------------------------------------------------
NewDrafts ==
  [claims : Drafts, conflict : BOOLEAN, failed : {FALSE}] \union {NoDraft(TRUE)}

ExplorationNext ==
  \/ \E t \in 0 .. MaxTools, c \in 1 .. MaxTries : Enter(t, c)
  \/ Search \/ Embed \/ SkipRead
  \/ \E n \in 0 .. ReadLimit : Collect(n) \/ Read(n)
  \/ StartStep \/ Explored \/ Register \/ NotAnswerable
  \/ \E then \in {"search", "read", "explored", "decide"} : Decision(then)
  \/ ContextLost \/ Reserved \/ ExtractRaises \/ NoFacts \/ Compose \/ SingleStage \/ CutOff
  \/ \E n \in 0 .. MaxGroups : Extract(n)
  \/ \E d \in NewDrafts : Written(d)
  \/ \E fits \in BOOLEAN : Judge(fits)
  \/ PublishBest \/ Finish \/ TooManyCited \/ RunRaises

ExplorationSpec == ExplorationInit /\ [][ExplorationNext]_exploration

-----------------------------------------------------------------------------
\* Properties

\* Whatever a run reads and however many extractions it starts at once, the checks
\* made ahead keep what its end needs: it never meets the limit of tools or of calls,
\* which would discard an answer that has been paid for, and the calls that are
\* reserved in parallel after one check stay within the execution's.
WithinLimits == doing # "limit" /\ asked <= MaxCalls /\ made <= MaxModelCalls

\* A part that has been answered stays answered, whatever later drafts claim, unless a
\* draft reports a conflict; a reported conflict is not combined with other claims;
\* and a published answer answers every part of the kept one.
AnsweredStays ==
  [][/\ best' # best /\ ~draft.conflict =>
          Answered(best) \subseteq Answered(best') /\ ~best.conflict
     /\ doing' = "finish" => Answered(best') \subseteq published']_exploration
=============================================================================
