---------------------------- MODULE Orchestrator ----------------------------
(***************************************************************************)
(* What a chat turn does with a question: routing, the knowledge task, the *)
(* data task, their composition, and the summary kept as a long-term       *)
(* memory.  Each of these asks a model for something, through the gateway  *)
(* that chooses between the local model and the external one by the level  *)
(* it is given.  A text is represented by its label alone; an action ends  *)
(* where the code awaits a model or a store.  One user, whose turns follow *)
(* each other in one conversation.                                         *)
(***************************************************************************)
EXTENDS Naturals, FiniteSets, SequencesExt

CONSTANTS
  AllowInternal,     \* allow_external_for_internal
  Hybrid,            \* intent_router_mode = "hybrid"
  CompositeEnabled,  \* composite_agent_enabled
  Window,            \* turns the recent messages reach back
  TopK,              \* memories a search returns
  TurnLimit          \* bound: turns in a behaviour

ASSUME OrchestratorAssumption ==
  /\ {AllowInternal, Hybrid, CompositeEnabled} \subseteq BOOLEAN
  /\ {Window, TopK, TurnLimit} \subseteq Nat \ {0}

VARIABLES
  turn,      \* the turn in progress
  asked,     \* turns begun
  recent,    \* the recent messages: the labels of the texts of each turn
  memories,  \* long-term memories: the level recorded, the labels summarised
  external   \* history: the texts the external model was given, but public ones

vars == <<turn, asked, recent, memories, external>>

Levels == {"public", "internal", "sensitive"}

(* The label of a knowledge base is whatever string its creator entered:   *)
(* "other" stands for those that are none of the three levels.             *)
Labels == Levels \cup {"other"}

(* The levels whose texts may leave.                                       *)
MayLeave(label) == label = "public" \/ (label = "internal" /\ AllowInternal)

Stages == {"intent", "rewrite", "rerank", "answer", "sql", "explain", "summary"}
Parts  == {"question", "evidence", "memory", "rows", "own", "recent"}

NoTurn == [pc |-> "idle", question |-> "public", plan |-> FALSE, task |-> "knowledge",
           route |-> "public", direct |-> FALSE, memory |-> {}, candidates |-> {},
           citations |-> {}, knowledge |-> "none", outcome |-> "none",
           level |-> "public", texts |-> {}, recalled |-> {}]

Outcomes == {"none", "answered", "refused", "clarified"}

TypeOK ==
  /\ turn \in [pc : {"idle", "intent", "memory", "retrieve", "search", "rerank", "gate",
                     "answer", "datasets", "generate", "execute", "explain", "done", "failed"},
               question : Levels, plan : BOOLEAN, task : {"knowledge", "data"},
               route : Levels, direct : BOOLEAN, memory : SUBSET Labels,
               candidates : SUBSET Labels, citations : SUBSET Labels,
               knowledge : Outcomes, outcome : Outcomes,
               level : Levels, texts : SUBSET Labels, recalled : SUBSET Labels]
  /\ asked \in 0..TurnLimit
  /\ recent \in Seq(SUBSET Labels) /\ Len(recent) <= Window
  /\ memories \subseteq [recorded : Levels, own : SUBSET Labels, texts : SUBSET Labels]
  /\ external \subseteq [by : Stages, part : Parts, label : Labels]

Init ==
  /\ turn = NoTurn
  /\ asked = 0
  /\ recent = <<>>
  /\ memories = {}
  /\ external = {}

-----------------------------------------------------------------------------
(* Levels *)

(* highest_sensitivity: a label it does not know counts as sensitive.      *)
Highest(labels) ==
  IF labels \cap {"sensitive", "other"} # {} THEN "sensitive"
  ELSE IF "internal" \in labels THEN "internal" ELSE "public"

(* _highest_candidate_sensitivity: a label it does not know is ignored.    *)
CandidateLevel(labels) ==
  IF "sensitive" \in labels THEN "sensitive"
  ELSE IF "internal" \in labels THEN "internal" ELSE "public"

(* The level of the prompt the intent is asked with.                       *)
IntentLevel == IF turn.question = "public" THEN "public" ELSE "sensitive"

(* The level of the answer.  Mutants: the citations or the question left   *)
(* out, because the route has a level already.                             *)
RouteOnly     == turn.route
CitationsOnly == Highest({turn.route} \cup turn.citations)
FinalLevel    == Highest({turn.route, turn.question} \cup turn.citations)

(* The level of the prompts of the data task; mutant: that of the question. *)
AsQuestion == turn.question
DataLevel  == "sensitive"

-----------------------------------------------------------------------------
(* The gateway *)

Reaches(level) == level = "public" \/ (level = "internal" /\ AllowInternal)

Ends(level) ==
  IF Reaches(level) THEN {"external", "local", "failed"} ELSE {"local", "unavailable"}

(* A request of a stage, its parts the labels of the texts in its prompts. *)
(* A call of the external model that fails may have delivered them.        *)
Send(stage, level, parts) ==
  external' = IF ~Reaches(level) THEN external
              ELSE external \cup {x \in [by : {stage}, part : DOMAIN parts, label : Labels] :
                                    x.label \in parts[x.part] /\ x.label # "public"}

-----------------------------------------------------------------------------
(* Routing *)

(* The end of a turn: with a result, or by an exception.                   *)
Result(outcome, level, texts) ==
  [NoTurn EXCEPT !.pc = "done", !.question = turn.question, !.outcome = outcome,
                 !.level = level, !.texts = texts,
                 !.recalled = IF outcome = "answered" THEN turn.recalled \cup turn.memory
                              ELSE turn.recalled]

(* The planner finds a composite task in some questions.                   *)
Plans == IF CompositeEnabled THEN BOOLEAN ELSE {FALSE}

(* What the words of a question tell the router: a data query, a domain,   *)
(* or nothing.                                                             *)
Patterns == {"data", "domain", "unclear"}

(* A new turn as the rules route it.                                       *)
Routed(new, pattern) ==
  CASE pattern = "data"   -> [new EXCEPT !.pc = "memory", !.task = "data"]
    [] pattern = "domain" -> [new EXCEPT !.pc = "memory", !.route = new.question]
    [] pattern = "unclear" ->
         IF Hybrid THEN [new EXCEPT !.pc = "intent"]
         ELSE [new EXCEPT !.pc = "done", !.outcome = "clarified", !.level = "internal"]

(* The user's message is stored; it is planned for, or routed.             *)
Ask(question, pattern, plan) ==
  /\ turn.pc = "idle" /\ asked < TurnLimit
  /\ asked' = asked + 1
  /\ LET new == [NoTurn EXCEPT !.question = question, !.plan = plan]
     IN turn' = IF plan THEN [new EXCEPT !.pc = "memory", !.route = "internal"]
                ELSE Routed(new, pattern)
  /\ UNCHANGED <<recent, memories, external>>

(* The level of a score: the model may raise that of the question.         *)
ScoreLevels == {Highest({turn.question, l}) : l \in Levels}

(* The embedding, the model or neither is sure enough.  An answer of the   *)
(* model that is JSON but not an object raises.                            *)
Recognise ==
  /\ turn.pc = "intent"
  /\ Send("intent", IntentLevel, [question |-> {turn.question}])
  /\ \/ \E level \in ScoreLevels :
          turn' \in {[turn EXCEPT !.pc = "memory", !.route = level],
                     [turn EXCEPT !.pc = "memory", !.task = "data"],
                     Result("clarified", level, {})}
     \/ turn' = [turn EXCEPT !.pc = "failed"]
  /\ UNCHANGED <<asked, recent, memories>>

(* What the search for memories can return: the best, if they score enough. *)
Hits == {hits \in SUBSET memories : Cardinality(hits) <= TopK}

(* The texts put before a prompt; a search that failed found no memory.    *)
Context(hits) == UNION {m.texts : m \in hits}

RetrieveMemory ==
  /\ turn.pc = "memory"
  /\ \E hits \in Hits :
       turn' = [turn EXCEPT !.pc = IF turn.task = "knowledge" THEN "retrieve" ELSE "datasets",
                            !.memory = Context(hits)]
  /\ UNCHANGED <<asked, recent, memories, external>>

-----------------------------------------------------------------------------
(* Knowledge task *)

(* A task ends: the result of the turn, or the first half of a composite.  *)
EndTask(outcome, level, texts) ==
  turn' =
    CASE turn.plan /\ turn.task = "knowledge" ->
           [NoTurn EXCEPT !.pc = "memory", !.question = turn.question, !.plan = TRUE,
                          !.task = "data", !.knowledge = outcome, !.texts = texts,
                          !.recalled = IF outcome = "answered" THEN turn.memory ELSE {}]
      [] turn.plan /\ turn.task = "data" ->
           Result(IF {turn.knowledge, outcome} = {"refused"} THEN "refused" ELSE "answered",
                  "sensitive", turn.texts \cup texts)
      [] OTHER -> Result(outcome, level, texts)

(* The tool answers from its cache, with what an earlier search found.     *)
CachedSearch ==
  /\ turn.pc = "retrieve" /\ ~turn.direct
  /\ \E labels \in SUBSET Labels : turn' = [turn EXCEPT !.pc = "gate", !.candidates = labels]
  /\ UNCHANGED <<asked, recent, memories, external>>

Rewrite ==
  /\ turn.pc = "retrieve"
  /\ Send("rewrite", "internal", [question |-> {turn.question}])
  /\ turn' = [turn EXCEPT !.pc = "search"]
  /\ UNCHANGED <<asked, recent, memories>>

(* Searches that fail are left out; when all do, nothing is found.         *)
Search ==
  /\ turn.pc = "search"
  /\ \E labels \in SUBSET Labels :
       turn' = [turn EXCEPT !.pc = IF labels = {} THEN "gate" ELSE "rerank",
                            !.candidates = labels]
  /\ UNCHANGED <<asked, recent, memories, external>>

Rerank ==
  /\ turn.pc = "rerank"
  /\ Send("rerank", CandidateLevel(turn.candidates),
          [question |-> {turn.question}, evidence |-> turn.candidates])
  /\ turn' = [turn EXCEPT !.pc = "gate"]
  /\ UNCHANGED <<asked, recent, memories>>

(* The tool is rejected, raises or runs out of time, wherever its search   *)
(* is; the search is then made once more, without the tool.                *)
ToolFails ==
  /\ turn.pc \in {"retrieve", "search", "rerank", "gate"} /\ ~turn.direct
  /\ turn' = [turn EXCEPT !.pc = "retrieve", !.direct = TRUE, !.candidates = {}]
  /\ UNCHANGED <<asked, recent, memories, external>>

(* EvidenceGate.evaluate keeps some candidates; with none it is a refusal. *)
EvidenceGate ==
  /\ turn.pc = "gate"
  /\ \/ \E labels \in SUBSET turn.candidates :
          labels # {} /\ turn' = [turn EXCEPT !.pc = "answer", !.citations = labels,
                                                !.candidates = {}]
     \/ EndTask("refused", turn.route, {turn.question})
  /\ UNCHANGED <<asked, recent, memories, external>>

Answer ==
  /\ turn.pc = "answer"
  /\ Send("answer", FinalLevel, [question |-> {turn.question}, evidence |-> turn.citations,
                                 memory |-> turn.memory])
  /\ \E end \in Ends(FinalLevel) :
       CASE end = "unavailable" -> EndTask("refused", FinalLevel, {turn.question})
         [] end = "failed"      -> turn' = [turn EXCEPT !.pc = "failed"]
         [] OTHER               -> EndTask("answered", FinalLevel,
                                           {turn.question} \cup turn.citations)
  /\ UNCHANGED <<asked, recent, memories>>

-----------------------------------------------------------------------------
(* Data task *)

(* The data task ends, sensitive whatever came of it; or without answer.   *)
EndData(outcome, texts) == EndTask(outcome, "sensitive", texts)
RefuseData == EndData("refused", {turn.question})

SelectDataset ==
  /\ turn.pc = "datasets"
  /\ RefuseData \/ turn' = [turn EXCEPT !.pc = "generate"]
  /\ UNCHANGED <<asked, recent, memories, external>>

(* The local model is down, or its SQL is none or not allowed: a refusal.  *)
GenerateSql ==
  /\ turn.pc = "generate"
  /\ Send("sql", DataLevel, [question |-> {turn.question}, memory |-> turn.memory])
  /\ RefuseData \/ turn' = [turn EXCEPT !.pc = "execute"]
  /\ UNCHANGED <<asked, recent, memories>>

Execute ==
  /\ turn.pc = "execute"
  /\ turn' = [turn EXCEPT !.pc = "explain"]
  /\ UNCHANGED <<asked, recent, memories, external>>

Explain ==
  /\ turn.pc = "explain"
  /\ Send("explain", DataLevel, [question |-> {turn.question}, memory |-> turn.memory,
                                 rows |-> {"sensitive"}])
  /\ \/ RefuseData
     \/ EndData("answered", {turn.question, "sensitive"})
  /\ UNCHANGED <<asked, recent, memories>>

(* What is awaited of the database fails, and nothing catches it: the      *)
(* prompt's lookup, the datasets, the generated statement.                 *)
DatabaseFails ==
  /\ turn.pc \in {"answer", "datasets", "execute"}
  /\ turn' = [turn EXCEPT !.pc = "failed"]
  /\ UNCHANGED <<asked, recent, memories, external>>

-----------------------------------------------------------------------------
(* The end of a turn *)

Remember(texts) ==
  LET all == Append(recent, texts)
  IN IF Len(all) <= Window THEN all ELSE Tail(all)

(* A memory is upserted under an id made of its turn and its text.         *)
Upsert(memory) == memories' = memories \cup {memory}

(* The answer is stored; what was said lately may be summarised, at the    *)
(* level of this turn, and the summary kept: the turn's own texts, those   *)
(* of earlier turns, and what its answer repeats of the memories.          *)
Conclude ==
  /\ turn.pc = "done"
  /\ turn' = NoTurn
  /\ LET own   == {turn.question} \cup turn.texts
         now   == Remember(own \cup turn.recalled)
         older == turn.recalled \cup UNION {now[i] : i \in DOMAIN now \ {Len(now)}}
     IN /\ recent' = now
        /\ \/ UNCHANGED <<memories, external>>
           \/ /\ Send("summary", turn.level, [own |-> own, recent |-> older])
              /\ \/ Upsert([recorded |-> turn.level, own |-> own, texts |-> own \cup older])
                 \/ UNCHANGED memories
  /\ UNCHANGED asked

(* No answer: the question stays among the messages.                       *)
Abort ==
  /\ turn.pc = "failed"
  /\ turn' = NoTurn
  /\ recent' = Remember({turn.question})
  /\ UNCHANGED <<asked, memories, external>>

Next ==
  \/ \E question \in Levels, pattern \in Patterns, plan \in Plans :
       Ask(question, pattern, plan)
  \/ Recognise \/ RetrieveMemory
  \/ CachedSearch \/ Rewrite \/ Search \/ Rerank \/ ToolFails \/ EvidenceGate \/ Answer
  \/ SelectDataset \/ GenerateSql \/ Execute \/ Explain \/ DatabaseFails
  \/ Conclude \/ Abort

Spec == Init /\ [][Next]_vars

-----------------------------------------------------------------------------
(* Properties *)

(* What the tools found stays in the turn that found it: evidence of a     *)
(* known label that must stay leaves in no request, neither in the answer's *)
(* prompt, whatever route, tool or fallback found it, nor in the reranker's; *)
(* no request of the data task reaches the external model, on its own or as *)
(* half of a composite plan, with its rows or with what its SQL is made     *)
(* from; nor does the summary made after the turn take out the question,    *)
(* the evidence or the rows of that turn, if the router may ask the model.  *)
(* What a later turn does with them is the next property's.                 *)
FindingsStayLocal ==
  \A x \in external :
    /\ x.part = "evidence" /\ x.label # "other" => MayLeave(x.label)
    /\ x.part # "rows" /\ x.by \notin {"sql", "explain"}
    /\ x.part = "own" /\ Hybrid => MayLeave(x.label)

(* A text that must stay reaches the external model in these ways only: a   *)
(* question among candidates none of which is protected, or to be rewritten *)
(* when internal texts may leave; evidence under a label the reranker does  *)
(* not know; the question of a turn the rules could not route, summarised   *)
(* as internal; and what was said before, put before the prompt of a later  *)
(* answer as a memory or summarised after a later turn, at the level of     *)
(* that turn (memory_service.py:186).  The README's promise that sensitive  *)
(* questions stay with the local model holds for none of these.             *)
ProtectedLeavesOnly ==
  \A x \in external :
    \/ MayLeave(x.label)
    \/ x.part = "question" /\ (x.by = "rerank" \/ (x.by = "rewrite" /\ AllowInternal))
    \/ x.part = "evidence" /\ x.label = "other" /\ x.by = "rerank"
    \/ x.part = "own" /\ x.by = "summary" /\ AllowInternal /\ ~Hybrid
    \/ <<x.part, x.by>> \in {<<"memory", "answer">>, <<"recent", "summary">>}

(* The level a memory is recorded with covers the question, the evidence   *)
(* and the rows of the turn that made it, if the router may ask the model. *)
Covers(level, label) ==
  CASE label = "public"   -> TRUE
    [] label = "internal" -> level # "public"
    [] OTHER              -> level = "sensitive"
RecordedCoversTurn ==
  Hybrid => \A m \in memories : \A label \in m.own : Covers(m.recorded, label)
=============================================================================
