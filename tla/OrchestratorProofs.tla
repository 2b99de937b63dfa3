-------------------------- MODULE OrchestratorProofs --------------------------
(***************************************************************************)
(* Proofs about Orchestrator, whether internal texts may leave or not, for *)
(* every mode of the router, every window of recent messages and any       *)
(* number of turns.                                                        *)
(***************************************************************************)
EXTENDS Orchestrator, TLAPS

TurnRecords ==
  [pc : {"idle", "intent", "memory", "retrieve", "search", "rerank", "gate",
         "answer", "datasets", "generate", "execute", "explain", "done", "failed"},
   question : Levels, plan : BOOLEAN, task : {"knowledge", "data"},
   route : Levels, direct : BOOLEAN, memory : SUBSET Labels,
   candidates : SUBSET Labels, citations : SUBSET Labels,
   knowledge : Outcomes, outcome : Outcomes,
   level : Levels, texts : SUBSET Labels, recalled : SUBSET Labels]

(* What is known of a turn: as long as the answer is made, the route covers *)
(* the question; when it is there, its level covers what was said, unless   *)
(* the rules alone could not route the question.                            *)
CoversAll(level, labels) == \A label \in labels : Covers(level, label)
Answering(t) ==
  /\ ~t.plan
  /\ \/ t.pc \in {"retrieve", "search", "rerank", "gate", "answer"}
     \/ t.pc = "memory" /\ t.task = "knowledge"
LevelsKept(t) ==
  /\ Answering(t) => Covers(t.route, t.question)
  /\ t.pc = "done" => \/ CoversAll(t.level, {t.question} \cup t.texts)
                      \/ ~Hybrid /\ t.level = "internal"

TurnInv == turn \in TurnRecords /\ LevelsKept(turn)

RecentTyped == recent \in Seq(SUBSET Labels) /\ Len(recent) <= Window
Memories == [recorded : Levels, own : SUBSET Labels, texts : SUBSET Labels]
Requests == [by : Stages, part : Parts, label : Labels]

(* The two properties of what left, of one text in one request.             *)
Harmless(stage, part, label) ==
  /\ part = "evidence" /\ label # "other" => MayLeave(label)
  /\ part # "rows" /\ stage \notin {"sql", "explain"}
  /\ part = "own" /\ Hybrid => MayLeave(label)
  /\ \/ MayLeave(label)
     \/ part = "question" /\ (stage = "rerank" \/ (stage = "rewrite" /\ AllowInternal))
     \/ part = "evidence" /\ label = "other" /\ stage = "rerank"
     \/ part = "own" /\ stage = "summary" /\ AllowInternal /\ ~Hybrid
     \/ <<part, stage>> \in {<<"memory", "answer">>, <<"recent", "summary">>}
NothingHarmful == external \subseteq Requests /\ \A x \in external : Harmless(x.by, x.part, x.label)

IInv ==
  /\ TurnInv /\ RecentTyped /\ asked \in 0..TurnLimit
  /\ memories \subseteq Memories /\ RecordedCoversTurn
  /\ NothingHarmful

LEMMA InvariantImplies ==
  IInv => TypeOK /\ FindingsStayLocal /\ ProtectedLeavesOnly /\ RecordedCoversTurn
<1> SUFFICES ASSUME IInv PROVE TypeOK /\ FindingsStayLocal /\ ProtectedLeavesOnly /\ RecordedCoversTurn
  OBVIOUS
<1>1. TypeOK
  BY DEF IInv, TurnInv, TurnRecords, RecentTyped, Memories, NothingHarmful, Requests, TypeOK
<1>2. FindingsStayLocal /\ ProtectedLeavesOnly
  BY DEF IInv, NothingHarmful, Harmless, FindingsStayLocal, ProtectedLeavesOnly
<1> QED
  BY <1>1, <1>2 DEF IInv

-----------------------------------------------------------------------------
(* Levels                                                                   *)

LEMMA HighestCovers ==
  ASSUME NEW labels \in SUBSET Labels
  PROVE  Highest(labels) \in Levels /\ CoversAll(Highest(labels), labels)
BY DEF Highest, CoversAll, Covers, Labels, Levels

(* A request at a level that covers a text does not take it out, unless it  *)
(* may leave.                                                               *)
LEMMA CoveredStays ==
  ASSUME NEW level, NEW label \in Labels, Covers(level, label), Reaches(level)
  PROVE  MayLeave(label)
BY DEF Covers, Reaches, MayLeave, Labels, Levels

LEMMA SensitiveCovers == \A labels : CoversAll("sensitive", labels)
BY DEF CoversAll, Covers

LEMMA SensitiveStays == ~Reaches("sensitive")
BY DEF Reaches

-----------------------------------------------------------------------------
(* Requests                                                                 *)

LEMMA SendKeeps ==
  ASSUME NothingHarmful,
         NEW stage \in Stages, NEW level, NEW parts, DOMAIN parts \subseteq Parts,
         Send(stage, level, parts),
         Reaches(level) => \A part \in DOMAIN parts : \A label \in parts[part] \cap Labels :
                             label # "public" => Harmless(stage, part, label)
  PROVE  NothingHarmful'
<1>1. CASE ~Reaches(level)
  BY <1>1 DEF Send, NothingHarmful, Harmless, MayLeave
<1>2. CASE Reaches(level)
  <2> DEFINE new == {x \in [by : {stage}, part : DOMAIN parts, label : Labels] :
                       x.label \in parts[x.part] /\ x.label # "public"}
  <2>1. external' = external \cup new
    BY <1>2 DEF Send
  <2>2. ASSUME NEW x \in new PROVE x \in Requests /\ Harmless(x.by, x.part, x.label)
    <3>1. /\ x \in [by : {stage}, part : DOMAIN parts, label : Labels]
          /\ x.label \in parts[x.part] /\ x.label # "public"
      BY <2>2
    <3>2. x \in Requests
      BY <3>1 DEF Requests
    <3>3. x.by = stage /\ x.part \in DOMAIN parts /\ x.label \in parts[x.part] \cap Labels
      BY <3>1
    <3> HIDE DEF new
    <3>4. Harmless(stage, x.part, x.label)
      BY <1>2, <3>1, <3>3
    <3> QED
      BY <3>2, <3>3, <3>4
  <2> HIDE DEF new
  <2>3. \A x \in external' : x \in Requests /\ Harmless(x.by, x.part, x.label)
    BY <2>1, <2>2 DEF NothingHarmful
  <2> QED
    BY <2>3 DEF NothingHarmful, Harmless, MayLeave
<1> QED
  BY <1>1, <1>2

LEMMA NothingSent == ASSUME NothingHarmful, UNCHANGED external PROVE NothingHarmful'
BY DEF NothingHarmful, Harmless, MayLeave

(* At the level of the question's prompt only a public question leaves.     *)
LEMMA RecogniseSends == ASSUME NothingHarmful, Recognise PROVE NothingHarmful'
<1>1. Send("intent", IntentLevel, [question |-> {turn.question}])
  BY DEF Recognise
<1>2. Reaches(IntentLevel) => turn.question = "public"
  BY DEF Reaches, IntentLevel
<1> QED
  BY <1>1, <1>2, SendKeeps DEF Stages, Parts

(* A question is rewritten outside only where internal texts may leave.     *)
LEMMA RewriteSends == ASSUME NothingHarmful, Rewrite PROVE NothingHarmful'
<1>1. Send("rewrite", "internal", [question |-> {turn.question}])
  BY DEF Rewrite
<1>2. Reaches("internal") => AllowInternal
  BY DEF Reaches
<1>3. \A label : AllowInternal => Harmless("rewrite", "question", label)
  BY DEF Harmless
<1> QED
  BY <1>1, <1>2, <1>3, SendKeeps DEF Stages, Parts

(* Candidates of a known label are covered by the level of the reranker's   *)
(* prompt.                                                                  *)
LEMMA RerankSends == ASSUME NothingHarmful, Rerank PROVE NothingHarmful'
<1> DEFINE parts == [question |-> {turn.question}, evidence |-> turn.candidates]
           level == CandidateLevel(turn.candidates)
<1>1. Send("rerank", level, parts)
  BY DEF Rerank
<1>2. ASSUME Reaches(level), NEW label \in turn.candidates \cap Labels, label # "other"
      PROVE  MayLeave(label)
  BY <1>2 DEF Reaches, CandidateLevel, MayLeave, Labels, Levels
<1>3. ASSUME Reaches(level), NEW part \in DOMAIN parts, NEW label \in parts[part] \cap Labels
      PROVE  Harmless("rerank", part, label)
  <2>1. CASE part = "question"
    BY <2>1 DEF Harmless
  <2>2. CASE part = "evidence"
    BY <1>2, <1>3, <2>2 DEF Harmless
  <2> QED
    BY <2>1, <2>2
<1>4. DOMAIN parts \subseteq Parts /\ "rerank" \in Stages
  BY DEF Parts, Stages
<1> HIDE DEF parts, level
<1> QED
  BY <1>1, <1>3, <1>4, SendKeeps

(* The level of the answer covers the question and all that is cited.       *)
LEMMA FinalLevelCovers ==
  ASSUME turn \in TurnRecords
  PROVE  /\ FinalLevel \in Levels
         /\ CoversAll(FinalLevel, {turn.route, turn.question} \cup turn.citations)
<1>1. {turn.route, turn.question} \cup turn.citations \in SUBSET Labels
  BY DEF TurnRecords, Labels
<1> QED
  BY <1>1, HighestCovers DEF FinalLevel

LEMMA AnswerSends == ASSUME turn \in TurnRecords, NothingHarmful, Answer PROVE NothingHarmful'
<1> DEFINE parts == [question |-> {turn.question}, evidence |-> turn.citations,
                     memory |-> turn.memory]
<1>1. Send("answer", FinalLevel, parts)
  BY DEF Answer
<1>2. ASSUME Reaches(FinalLevel), NEW label \in Labels, label \in {turn.question} \cup turn.citations
      PROVE  MayLeave(label)
  <2>1. Covers(FinalLevel, label)
    BY <1>2, FinalLevelCovers DEF CoversAll
  <2> QED
    BY <1>2, <2>1, CoveredStays
<1>3. ASSUME Reaches(FinalLevel), NEW part \in DOMAIN parts, NEW label \in parts[part] \cap Labels
      PROVE  Harmless("answer", part, label)
  <2>1. CASE part \in {"question", "evidence"}
    <3>1. MayLeave(label)
      BY <1>2, <1>3, <2>1
    <3>2. part # "rows" /\ part # "own"
      BY <2>1
    <3> QED
      BY <3>1, <3>2 DEF Harmless
  <2>2. CASE part = "memory"
    BY <2>2 DEF Harmless
  <2> QED
    BY <2>1, <2>2
<1>4. DOMAIN parts \subseteq Parts /\ "answer" \in Stages
  BY DEF Parts, Stages
<1> HIDE DEF parts
<1> QED
  BY <1>1, <1>3, <1>4, SendKeeps

(* The data task asks the local model only.                                 *)
LEMMA DataTaskSends == ASSUME NothingHarmful, GenerateSql \/ Explain PROVE NothingHarmful'
<1>1. UNCHANGED external
  BY SensitiveStays DEF GenerateSql, Explain, Send, DataLevel
<1> QED
  BY <1>1, NothingSent

(* A summary is asked for at a level that covers the turn's own messages,   *)
(* but for one that only the rules looked at; the earlier ones say anything. *)
LEMMA ConcludeSends == ASSUME TurnInv, NothingHarmful, Conclude PROVE NothingHarmful'
<1>1. CASE UNCHANGED external
  BY <1>1, NothingSent
<1>2. ASSUME NEW own, own = {turn.question} \cup turn.texts, NEW older,
             Send("summary", turn.level, [own |-> own, recent |-> older])
      PROVE  NothingHarmful'
  <2> DEFINE parts == [own |-> own, recent |-> older]
  <2>1. CoversAll(turn.level, own) \/ (~Hybrid /\ turn.level = "internal")
    BY <1>2 DEF TurnInv, LevelsKept, Conclude
  <2>2. ASSUME Reaches(turn.level), NEW label \in own \cap Labels
        PROVE  Harmless("summary", "own", label)
    <3>1. CASE CoversAll(turn.level, own)
      <4>1. MayLeave(label)
        BY <2>2, <3>1, CoveredStays DEF CoversAll
      <4> QED
        BY <4>1 DEF Harmless
    <3>2. CASE ~Hybrid /\ turn.level = "internal"
      <4>1. AllowInternal
        BY <2>2, <3>2 DEF Reaches
      <4> QED
        BY <3>2, <4>1 DEF Harmless
    <3> QED
      BY <2>1, <3>1, <3>2
  <2>3. \A label : Harmless("summary", "recent", label)
    BY DEF Harmless
  <2>4. ASSUME Reaches(turn.level), NEW part \in DOMAIN parts, NEW label \in parts[part] \cap Labels
        PROVE  Harmless("summary", part, label)
    BY <2>2, <2>3, <2>4
  <2>5. DOMAIN parts \subseteq Parts /\ "summary" \in Stages
    BY DEF Parts, Stages
  <2> HIDE DEF parts
  <2>6. Send("summary", turn.level, parts)
    BY <1>2 DEF parts
  <2> QED
    BY <2>4, <2>5, <2>6, SendKeeps
<1> QED
  BY <1>1, <1>2 DEF Conclude

LEMMA NextSends == ASSUME TurnInv, NothingHarmful, [Next]_vars PROVE NothingHarmful'
<1>1. CASE Recognise \/ Rewrite \/ Rerank \/ Answer \/ GenerateSql \/ Explain \/ Conclude
  BY <1>1, RecogniseSends, RewriteSends, RerankSends, AnswerSends, DataTaskSends, ConcludeSends
     DEF TurnInv
<1>2. CASE ~(Recognise \/ Rewrite \/ Rerank \/ Answer \/ GenerateSql \/ Explain \/ Conclude)
  <2>1. UNCHANGED external
    BY <1>2 DEF Next, vars, Ask, RetrieveMemory, CachedSearch, Search, ToolFails, EvidenceGate,
                SelectDataset, Execute, DatabaseFails, Abort
  <2> QED
    BY <2>1, NothingSent
<1> QED
  BY <1>1, <1>2

-----------------------------------------------------------------------------
(* The turn                                                                 *)

LEMMA NoTurnTyped == NoTurn \in TurnRecords
BY DEF NoTurn, TurnRecords, Levels, Labels, Outcomes

(* A result is a turn that keeps its level.                                 *)
LEMMA ResultKeeps ==
  ASSUME turn \in TurnRecords,
         NEW outcome \in Outcomes, NEW level \in Levels, NEW texts \in SUBSET Labels,
         CoversAll(level, {turn.question} \cup texts)
  PROVE  Result(outcome, level, texts) \in TurnRecords /\ LevelsKept(Result(outcome, level, texts))
<1> DEFINE r == Result(outcome, level, texts)
<1>1. turn.question \in Levels /\ turn.recalled \subseteq Labels /\ turn.memory \subseteq Labels
  BY DEF TurnRecords
<1>2. r \in TurnRecords
  BY <1>1, NoTurnTyped DEF Result, TurnRecords
<1>3. r.pc = "done" /\ r.question = turn.question /\ r.level = level /\ r.texts = texts
  BY DEF Result, NoTurn
<1> HIDE DEF r
<1>4. LevelsKept(r)
  BY <1>3 DEF LevelsKept, Answering
<1> QED
  BY <1>2, <1>4 DEF r

(* So does the end of a task, if it says no more than its level covers.     *)
LEMMA EndTaskKeeps ==
  ASSUME turn \in TurnRecords,
         NEW outcome \in Outcomes, NEW level \in Levels, NEW texts \in SUBSET Labels,
         ~turn.plan => CoversAll(level, {turn.question} \cup texts),
         EndTask(outcome, level, texts)
  PROVE  TurnInv'
<1>1. turn.question \in Levels /\ turn.memory \subseteq Labels /\ turn.texts \subseteq Labels
  BY DEF TurnRecords
<1>2. CASE turn.plan /\ turn.task = "knowledge"
  <2>1. turn' = [NoTurn EXCEPT !.pc = "memory", !.question = turn.question, !.plan = TRUE,
                               !.task = "data", !.knowledge = outcome, !.texts = texts,
                               !.recalled = IF outcome = "answered" THEN turn.memory ELSE {}]
    BY <1>2 DEF EndTask
  <2>2. turn' \in TurnRecords
    BY <1>1, <2>1, NoTurnTyped DEF TurnRecords
  <2>3. turn'.pc = "memory" /\ turn'.plan = TRUE
    BY <2>1 DEF NoTurn
  <2> QED
    BY <2>2, <2>3 DEF TurnInv, LevelsKept, Answering
<1>3. CASE turn.plan /\ turn.task = "data"
  <2>1. PICK o \in {"refused", "answered"} : turn' = Result(o, "sensitive", turn.texts \cup texts)
    BY <1>3 DEF EndTask
  <2>2. turn.texts \cup texts \in SUBSET Labels /\ "sensitive" \in Levels /\ o \in Outcomes
    BY <1>1 DEF Levels, Outcomes
  <2>3. Result(o, "sensitive", turn.texts \cup texts) \in TurnRecords
        /\ LevelsKept(Result(o, "sensitive", turn.texts \cup texts))
    BY <2>2, SensitiveCovers, ResultKeeps
  <2> QED
    BY <2>1, <2>3 DEF TurnInv
<1>4. CASE ~turn.plan
  <2>1. turn' = Result(outcome, level, texts)
    BY <1>4 DEF EndTask
  <2>2. Result(outcome, level, texts) \in TurnRecords /\ LevelsKept(Result(outcome, level, texts))
    BY <1>4, ResultKeeps
  <2> QED
    BY <2>1, <2>2 DEF TurnInv
<1> QED
  BY <1>2, <1>3, <1>4 DEF TurnRecords

(* A step within a task leaves the question, the route and the plan alone.  *)
Within ==
  /\ turn' \in TurnRecords
  /\ turn'.pc # "done"
  /\ Answering(turn') =>
       Answering(turn) /\ turn'.route = turn.route /\ turn'.question = turn.question

LEMMA WithinKeeps == ASSUME TurnInv, Within PROVE TurnInv'
BY DEF Within, TurnInv, LevelsKept

LEMMA AskKeeps ==
  ASSUME NEW question \in Levels, NEW pattern \in Patterns, NEW plan \in Plans,
         Ask(question, pattern, plan)
  PROVE  TurnInv'
<1> plan \in BOOLEAN
  BY DEF Plans
<1> DEFINE new == [NoTurn EXCEPT !.question = question, !.plan = plan]
<1>1. new \in TurnRecords /\ new.question = question /\ new.plan = plan /\ new.task = "knowledge"
      /\ new.texts = {}
  BY NoTurnTyped DEF TurnRecords, NoTurn
<1> HIDE DEF new
<1>2. CASE plan
  <2>1. turn' = [new EXCEPT !.pc = "memory", !.route = "internal"]
    BY <1>2 DEF Ask, new
  <2>2. "internal" \in Levels
    BY DEF Levels
  <2>3. turn' \in TurnRecords /\ turn'.pc = "memory" /\ turn'.plan = plan
    BY <1>1, <2>1, <2>2 DEF TurnRecords
  <2> QED
    BY <1>2, <2>3 DEF TurnInv, LevelsKept, Answering
<1>3. CASE ~plan /\ pattern = "data"
  <2>1. turn' = [new EXCEPT !.pc = "memory", !.task = "data"]
    BY <1>3 DEF Ask, Routed, new
  <2>2. turn' \in TurnRecords /\ turn'.pc = "memory" /\ turn'.task = "data"
    BY <1>1, <2>1 DEF TurnRecords
  <2> QED
    BY <2>2 DEF TurnInv, LevelsKept, Answering
<1>4. CASE ~plan /\ pattern = "domain"
  <2>1. turn' = [new EXCEPT !.pc = "memory", !.route = question]
    BY <1>4 DEF Ask, Routed, new
  <2>2. turn' \in TurnRecords /\ turn'.pc = "memory" /\ turn'.route = question /\ turn'.question = question
    BY <1>1, <2>1 DEF TurnRecords
  <2>3. Covers(question, question)
    BY DEF Covers, Levels
  <2> QED
    BY <2>2, <2>3 DEF TurnInv, LevelsKept, Answering
<1>5. CASE ~plan /\ pattern = "unclear" /\ Hybrid
  <2>1. turn' = [new EXCEPT !.pc = "intent"]
    BY <1>5 DEF Ask, Routed, new
  <2>2. turn' \in TurnRecords /\ turn'.pc = "intent"
    BY <1>1, <2>1 DEF TurnRecords
  <2> QED
    BY <2>2 DEF TurnInv, LevelsKept, Answering
<1>6. CASE ~plan /\ pattern = "unclear" /\ ~Hybrid
  <2>1. turn' = [new EXCEPT !.pc = "done", !.outcome = "clarified", !.level = "internal"]
    BY <1>6 DEF Ask, Routed, new
  <2>2. "internal" \in Levels /\ "clarified" \in Outcomes
    BY DEF Levels, Outcomes
  <2>3. turn' \in TurnRecords /\ turn'.pc = "done" /\ turn'.level = "internal"
    BY <1>1, <2>1, <2>2 DEF TurnRecords
  <2> QED
    BY <1>6, <2>3 DEF TurnInv, LevelsKept, Answering
<1> QED
  BY <1>2, <1>3, <1>4, <1>5, <1>6 DEF Patterns

(* The level the router settles on is at least that of the question.        *)
LEMMA RecogniseKeeps == ASSUME TurnInv, Recognise PROVE TurnInv'
<1>1. turn \in TurnRecords /\ turn.pc = "intent" /\ turn.question \in Levels
  BY DEF TurnInv, Recognise, TurnRecords
<1>2. CASE turn' = [turn EXCEPT !.pc = "failed"]
  <2>1. turn' \in TurnRecords /\ turn'.pc = "failed"
    BY <1>1, <1>2 DEF TurnRecords
  <2> QED
    BY <2>1 DEF TurnInv, LevelsKept, Answering
<1>3. ASSUME NEW l \in Levels, NEW level, level = Highest({turn.question, l}),
             turn' \in {[turn EXCEPT !.pc = "memory", !.route = level],
                        [turn EXCEPT !.pc = "memory", !.task = "data"],
                        Result("clarified", level, {})}
      PROVE  TurnInv'
  <2>1. level \in Levels /\ CoversAll(level, {turn.question, l})
    <3>1. {turn.question, l} \in SUBSET Labels
      BY <1>1 DEF Labels
    <3> QED
      BY <1>3, <3>1, HighestCovers
  <2>2. Covers(level, turn.question) /\ CoversAll(level, {turn.question})
    BY <2>1 DEF CoversAll
  <2>3. CASE turn' = [turn EXCEPT !.pc = "memory", !.route = level]
    <3>1. turn' \in TurnRecords /\ turn'.pc = "memory" /\ turn'.route = level
          /\ turn'.question = turn.question
      BY <1>1, <2>1, <2>3 DEF TurnRecords
    <3> QED
      BY <2>2, <3>1 DEF TurnInv, LevelsKept, Answering
  <2>4. CASE turn' = [turn EXCEPT !.pc = "memory", !.task = "data"]
    <3>1. turn' \in TurnRecords /\ turn'.pc = "memory" /\ turn'.task = "data"
      BY <1>1, <2>4 DEF TurnRecords
    <3> QED
      BY <3>1 DEF TurnInv, LevelsKept, Answering
  <2>5. CASE turn' = Result("clarified", level, {})
    <3>1. "clarified" \in Outcomes /\ {} \in SUBSET Labels
      BY DEF Outcomes
    <3>2. CoversAll(level, {turn.question} \cup {})
      BY <2>2 DEF CoversAll
    <3>3. Result("clarified", level, {}) \in TurnRecords /\ LevelsKept(Result("clarified", level, {}))
      BY <1>1, <2>1, <3>1, <3>2, ResultKeeps
    <3> QED
      BY <2>5, <3>3 DEF TurnInv
  <2> QED
    BY <1>3, <2>3, <2>4, <2>5
<1> QED
  BY <1>2, <1>3 DEF Recognise, ScoreLevels

LEMMA RetrieveMemoryKeeps ==
  ASSUME TurnInv, memories \subseteq Memories, RetrieveMemory PROVE TurnInv'
<1>1. PICK hits \in SUBSET memories :
        turn' = [turn EXCEPT !.pc = IF turn.task = "knowledge" THEN "retrieve" ELSE "datasets",
                             !.memory = UNION {m.texts : m \in hits}]
  BY DEF RetrieveMemory, Hits, Context
<1>2. UNION {m.texts : m \in hits} \in SUBSET Labels
  BY DEF Memories
<1>3. turn \in TurnRecords /\ turn.pc = "memory"
  BY DEF TurnInv, RetrieveMemory
<1> HIDE DEF TurnInv
<1>4. Within
  BY <1>1, <1>2, <1>3 DEF Within, TurnRecords, Answering
<1> QED
  BY <1>4, WithinKeeps

LEMMA SearchKeeps ==
  ASSUME TurnInv, CachedSearch \/ Rewrite \/ Search \/ Rerank \/ ToolFails PROVE TurnInv'
<1>1. turn \in TurnRecords
  BY DEF TurnInv
<1>2. CASE CachedSearch
  BY <1>1, <1>2, WithinKeeps DEF CachedSearch, Within, TurnRecords, Answering
<1>3. CASE Rewrite
  BY <1>1, <1>3, WithinKeeps DEF Rewrite, Within, TurnRecords, Answering
<1>4. CASE Search
  BY <1>1, <1>4, WithinKeeps DEF Search, Within, TurnRecords, Answering
<1>5. CASE Rerank
  BY <1>1, <1>5, WithinKeeps DEF Rerank, Within, TurnRecords, Answering
<1>6. CASE ToolFails
  BY <1>1, <1>6, WithinKeeps DEF ToolFails, Within, TurnRecords, Answering
<1> QED
  BY <1>2, <1>3, <1>4, <1>5, <1>6

LEMMA GateKeeps == ASSUME TurnInv, EvidenceGate PROVE TurnInv'
<1>1. turn \in TurnRecords /\ turn.pc = "gate"
  BY DEF TurnInv, EvidenceGate
<1>2. ASSUME NEW labels \in SUBSET turn.candidates,
             turn' = [turn EXCEPT !.pc = "answer", !.citations = labels, !.candidates = {}]
      PROVE  TurnInv'
  BY <1>1, <1>2, WithinKeeps DEF Within, TurnRecords, Answering
<1>3. CASE EndTask("refused", turn.route, {turn.question})
  <2>1. ~turn.plan => CoversAll(turn.route, {turn.question} \cup {turn.question})
    BY <1>1 DEF TurnInv, LevelsKept, Answering, CoversAll
  <2>2. "refused" \in Outcomes /\ turn.route \in Levels /\ {turn.question} \in SUBSET Labels
    BY <1>1 DEF Outcomes, TurnRecords, Labels
  <2> QED
    BY <1>1, <1>3, <2>1, <2>2, EndTaskKeeps
<1> QED
  BY <1>2, <1>3 DEF EvidenceGate

LEMMA AnswerKeeps == ASSUME TurnInv, Answer PROVE TurnInv'
<1>1. turn \in TurnRecords
  BY DEF TurnInv
<1>2. {turn.question} \in SUBSET Labels /\ {turn.question} \cup turn.citations \in SUBSET Labels
  BY <1>1 DEF TurnRecords, Labels
<1>3. FinalLevel \in Levels /\ {"refused", "answered"} \subseteq Outcomes
  BY <1>1, FinalLevelCovers DEF Outcomes
<1>4. /\ CoversAll(FinalLevel, {turn.question} \cup {turn.question})
      /\ CoversAll(FinalLevel, {turn.question} \cup ({turn.question} \cup turn.citations))
  BY <1>1, FinalLevelCovers DEF CoversAll
<1>5. CASE EndTask("refused", FinalLevel, {turn.question})
  BY <1>1, <1>2, <1>3, <1>4, <1>5, EndTaskKeeps
<1>6. CASE EndTask("answered", FinalLevel, {turn.question} \cup turn.citations)
  BY <1>1, <1>2, <1>3, <1>4, <1>6, EndTaskKeeps
<1>7. CASE turn' = [turn EXCEPT !.pc = "failed"]
  BY <1>1, <1>7, WithinKeeps DEF Within, TurnRecords, Answering
<1> QED
  BY <1>5, <1>6, <1>7 DEF Answer

(* What the data task ends with is sensitive, and covers anything.          *)
LEMMA DataTaskKeeps ==
  ASSUME TurnInv, SelectDataset \/ GenerateSql \/ Execute \/ Explain \/ DatabaseFails PROVE TurnInv'
<1>1. turn \in TurnRecords
  BY DEF TurnInv
<1>2. ASSUME NEW outcome \in {"refused", "answered"}, NEW texts \in SUBSET Labels,
             EndTask(outcome, "sensitive", texts)
      PROVE  TurnInv'
  <2>1. outcome \in Outcomes /\ "sensitive" \in Levels
    BY DEF Outcomes, Levels
  <2> QED
    BY <1>1, <1>2, <2>1, SensitiveCovers, EndTaskKeeps
<1>3. {turn.question} \in SUBSET Labels /\ {turn.question, "sensitive"} \in SUBSET Labels
  BY <1>1 DEF TurnRecords, Labels, Levels
<1>4. CASE RefuseData
  BY <1>2, <1>3, <1>4 DEF RefuseData, EndData
<1>5. CASE EndData("answered", {turn.question, "sensitive"})
  BY <1>2, <1>3, <1>5 DEF EndData
<1>6. ASSUME NEW pc \in {"generate", "execute", "explain", "failed"}, turn' = [turn EXCEPT !.pc = pc]
      PROVE  TurnInv'
  BY <1>1, <1>6, WithinKeeps DEF Within, TurnRecords, Answering
<1> QED
  BY <1>4, <1>5, <1>6 DEF SelectDataset, GenerateSql, Execute, Explain, DatabaseFails

LEMMA EndKeeps == ASSUME Conclude \/ Abort PROVE TurnInv'
<1>1. turn' = NoTurn
  BY DEF Conclude, Abort
<1>2. turn'.pc = "idle"
  BY <1>1 DEF NoTurn
<1> QED
  BY <1>1, <1>2, NoTurnTyped DEF TurnInv, LevelsKept, Answering

LEMMA NextKeepsTurn ==
  ASSUME TurnInv, memories \subseteq Memories, [Next]_vars PROVE TurnInv'
<1>1. CASE UNCHANGED vars
  BY <1>1 DEF vars, TurnInv, LevelsKept, Answering
<1> QED
  BY <1>1, AskKeeps, RecogniseKeeps, RetrieveMemoryKeeps, SearchKeeps, GateKeeps, AnswerKeeps,
     DataTaskKeeps, EndKeeps DEF Next

-----------------------------------------------------------------------------
(* Messages and memories                                                    *)

LEMMA RememberTyped ==
  ASSUME OrchestratorAssumption, RecentTyped, NEW texts \in SUBSET Labels
  PROVE  Remember(texts) \in Seq(SUBSET Labels) /\ Len(Remember(texts)) <= Window
<1> DEFINE all == Append(recent, texts)
<1>1. all \in Seq(SUBSET Labels) /\ Len(all) = Len(recent) + 1 /\ Len(all) # 0
  BY DEF RecentTyped
<1>2. Tail(all) \in Seq(SUBSET Labels) /\ Len(Tail(all)) = Len(recent)
  BY <1>1 DEF RecentTyped
<1> HIDE DEF all
<1>3. Remember(texts) = IF Len(all) <= Window THEN all ELSE Tail(all)
  BY DEF Remember, all
<1> QED
  BY <1>1, <1>2, <1>3 DEF RecentTyped

(* A memory is recorded with the level of the turn, which covers what was   *)
(* said in it.                                                              *)
LEMMA ConcludeKeeps ==
  ASSUME OrchestratorAssumption, IInv, Conclude
  PROVE  RecentTyped' /\ (memories \subseteq Memories)' /\ RecordedCoversTurn'
<1> DEFINE own   == {turn.question} \cup turn.texts
           now   == Remember(own \cup turn.recalled)
           older == turn.recalled \cup UNION {now[i] : i \in DOMAIN now \ {Len(now)}}
           texts == own \cup older
<1>1. turn \in TurnRecords /\ turn.pc = "done" /\ LevelsKept(turn)
  BY DEF IInv, TurnInv, Conclude
<1>2. own \in SUBSET Labels /\ own \cup turn.recalled \in SUBSET Labels
  BY <1>1 DEF TurnRecords, Labels
<1>3. now \in Seq(SUBSET Labels) /\ Len(now) <= Window
  BY <1>2, RememberTyped DEF IInv
<1>4. recent' = now /\ memories' \subseteq memories \cup {[recorded |-> turn.level, own |-> own, texts |-> texts]}
  BY DEF Conclude, Upsert
<1>5. texts \in SUBSET Labels
  <2> HIDE DEF now, own
  <2>1. \A i \in DOMAIN now : now[i] \subseteq Labels
    BY <1>3
  <2>2. turn.recalled \subseteq Labels
    BY <1>1 DEF TurnRecords
  <2> QED
    BY <1>2, <2>1, <2>2
<1>6. turn.level \in Levels
  BY <1>1 DEF TurnRecords
<1>7. Hybrid => \A label \in own : Covers(turn.level, label)
  BY <1>1 DEF LevelsKept, CoversAll
<1> HIDE DEF own, now, older, texts
<1> DEFINE new == [recorded |-> turn.level, own |-> own, texts |-> texts]
<1>8. new \in Memories /\ (Hybrid => \A label \in new.own : Covers(new.recorded, label))
  BY <1>2, <1>5, <1>6, <1>7 DEF Memories
<1> HIDE DEF new
<1>9. memories' \subseteq memories \cup {new}
  BY <1>4 DEF new
<1>10. RecentTyped'
  BY <1>3, <1>4 DEF RecentTyped
<1>11. (memories \subseteq Memories)'
  BY <1>8, <1>9 DEF IInv, Memories
<1>12. RecordedCoversTurn'
  BY <1>8, <1>9 DEF IInv, RecordedCoversTurn, Covers
<1> QED
  BY <1>10, <1>11, <1>12

LEMMA AbortKeeps == ASSUME OrchestratorAssumption, IInv, Abort PROVE RecentTyped'
<1>1. {turn.question} \in SUBSET Labels
  BY DEF IInv, TurnInv, TurnRecords, Labels
<1>2. recent' = Remember({turn.question})
  BY DEF Abort
<1> QED
  BY <1>1, <1>2, RememberTyped DEF IInv, RecentTyped

LEMMA NextKeepsRest ==
  ASSUME OrchestratorAssumption, IInv, [Next]_vars
  PROVE  RecentTyped' /\ (asked \in 0..TurnLimit)' /\ (memories \subseteq Memories)' /\ RecordedCoversTurn'
<1>1. (asked \in 0..TurnLimit)'
  <2>1. CASE UNCHANGED asked
    BY <2>1 DEF IInv
  <2>2. CASE asked < TurnLimit /\ asked' = asked + 1
    BY <2>2 DEF IInv, OrchestratorAssumption
  <2> QED
    BY <2>1, <2>2 DEF Next, vars, Ask, Recognise, RetrieveMemory, CachedSearch, Rewrite, Search,
       Rerank, ToolFails, EvidenceGate, Answer, SelectDataset, GenerateSql, Execute, Explain,
       DatabaseFails, Conclude, Abort
<1>2. CASE Conclude
  BY <1>1, <1>2, ConcludeKeeps
<1>3. CASE ~Conclude
  <2>1. UNCHANGED memories /\ (UNCHANGED recent \/ Abort)
    BY <1>3 DEF Next, vars, Ask, Recognise, RetrieveMemory, CachedSearch, Rewrite, Search,
       Rerank, ToolFails, EvidenceGate, Answer, SelectDataset, GenerateSql, Execute, Explain,
       DatabaseFails, Abort
  <2>2. (memories \subseteq Memories)' /\ RecordedCoversTurn'
    BY <2>1 DEF IInv, Memories, RecordedCoversTurn, Covers
  <2>3. RecentTyped'
    BY <2>1, AbortKeeps DEF IInv, RecentTyped
  <2> QED
    BY <1>1, <2>2, <2>3
<1> QED
  BY <1>2, <1>3

-----------------------------------------------------------------------------

LEMMA Initially == ASSUME OrchestratorAssumption, Init PROVE IInv
<1>1. TurnInv
  BY NoTurnTyped DEF Init, NoTurn, TurnInv, LevelsKept, Answering
<1>2. RecentTyped /\ asked \in 0..TurnLimit
  BY DEF Init, RecentTyped, OrchestratorAssumption
<1>3. memories \subseteq Memories /\ RecordedCoversTurn /\ NothingHarmful
  BY DEF Init, RecordedCoversTurn, NothingHarmful
<1> QED
  BY <1>1, <1>2, <1>3 DEF IInv

LEMMA Inductive == Spec => []IInv
<1>1. Init => IInv
  BY Initially, OrchestratorAssumption
<1>2. IInv /\ [Next]_vars => IInv'
  <2> SUFFICES ASSUME IInv, [Next]_vars PROVE IInv'
    OBVIOUS
  <2>1. TurnInv'
    BY NextKeepsTurn DEF IInv
  <2>2. NothingHarmful'
    BY NextSends DEF IInv
  <2>3. RecentTyped' /\ (asked \in 0..TurnLimit)' /\ (memories \subseteq Memories)' /\ RecordedCoversTurn'
    BY NextKeepsRest, OrchestratorAssumption
  <2> QED
    BY <2>1, <2>2, <2>3 DEF IInv
<1> QED
  BY <1>1, <1>2, PTL DEF Spec

(* The turn, the messages, the memories and what left keep their types.     *)
THEOREM TypeCorrect == Spec => []TypeOK
BY Inductive, InvariantImplies, PTL

(* In the turn that finds them, no evidence that must stay leaves, nothing  *)
(* of the data task does, and the summary after it takes out none of its    *)
(* own texts if the router may ask the model, whatever the turn goes through. *)
THEOREM FindingsNeverLeave == Spec => []FindingsStayLocal
BY Inductive, InvariantImplies, PTL

(* A text that must stay leaves in the known ways only: a question with     *)
(* candidates that may leave or to be rewritten, evidence of an unknown     *)
(* label to be ranked, an unroutable question, and what earlier turns said. *)
THEOREM ProtectedLeavesInKnownWays == Spec => []ProtectedLeavesOnly
BY Inductive, InvariantImplies, PTL

(* A memory is recorded at a level that covers the turn it was made after.  *)
THEOREM MemoriesCoverTheirTurn == Spec => []RecordedCoversTurn
BY Inductive, InvariantImplies, PTL
=============================================================================
