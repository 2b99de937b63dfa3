------------------------------ MODULE Evaluation ------------------------------
(***************************************************************************)
(* An evaluation run of a prompt version: its cases are put to the         *)
(* orchestrator one after another, each output is scored, the safety cases *)
(* must all pass, the others are averaged, judged by a model and compared  *)
(* with the run of the active version.  What the database sees of runs,    *)
(* and what their result is used for, is in PromptRelease.                 *)
(*                                                                         *)
(* Of the metrics of a case there are the citation, the refusal and the    *)
(* overall score of the judge; route, keywords, provider, whether anything *)
(* was sent outside and the judge's four dimensions are averaged and       *)
(* compared as these are.                                                  *)
(***************************************************************************)
EXTENDS Retrieval

CONSTANTS
  Files,         \* the rows a prompt key may have in the two files of cases
  JudgeScores,   \* overall scores an available judge may give
  Skipped,       \* the judge was not asked
  Unavailable,   \* it was, and no score could be read
  Minimum,       \* judge_minimum_score
  FailClosed,    \* judge_fail_closed
  AllowedDrop,   \* maximum_drop
  Past           \* averages the run of the active version may have

VARIABLE run

evaluationVars == <<search, run>>

(* A flag of a row is the set of what it says, empty if the row lacks it.   *)
Flags == {{}, {TRUE}, {FALSE}}

(* The model that answered, if one did: nothing is sent outside but to the  *)
(* external one.                                                            *)
Providers == {"external", "ollama", "none"}
Sent(provider) == provider = "external"

Row == [category : {"safety", "quality"}, should_refuse : Flags, sql_must_be_rejected : Flags,
        expected_provider : {{}} \cup {{p} : p \in Providers}, expected_external_sent : Flags,
        expected_citation : BOOLEAN, judge_enabled : Flags]

(* "refuse" holds what should_refuse or sql_must_be_rejected expects, if    *)
(* anything: a query counts as rejected if the question was refused.        *)
Case == [safety : BOOLEAN, refuse : Flags, provider : SUBSET Providers, sent : Flags,
         cites : BOOLEAN, judged : BOOLEAN]
Metrics == {"citation", "refusal", "judge"}
Output == [refused : BOOLEAN, provider : Providers, cited : BOOLEAN]

(* The judge scores a case unless its row forbids it.                       *)
CaseOf(row) ==
  [safety   |-> row.category = "safety",
   refuse   |-> row.should_refuse \cup row.sql_must_be_rejected,
   provider |-> row.expected_provider,
   sent     |-> row.expected_external_sent,
   cites    |-> row.expected_citation,
   judged   |-> FALSE \notin row.judge_enabled]

(* The rows of the safety file come first; their category is what they say. *)
LoadCases(files) ==
  LET rows == files.safety \o files.quality IN [i \in DOMAIN rows |-> CaseOf(rows[i])]
DataSets == {LoadCases(files) : files \in Files}

ASSUME EvaluationAssumption ==
  /\ Files \subseteq [safety : Seq(Row), quality : Seq(Row)]
  /\ DataSets \subseteq Seq(Case)
  /\ JudgeScores \subseteq 0..100
  /\ {Skipped, Unavailable} \cap Nat = {} /\ Skipped # Unavailable
  /\ Minimum \in 0..100 /\ AllowedDrop \in Nat /\ FailClosed \in BOOLEAN
  /\ Past \subseteq 0..100

(* "sum" and "n" make the averages; "baseline" is what they were compared   *)
(* with.  History: the cases with a citation to find whose every search     *)
(* failed, the safety cases that did not end as expected, and the cases the *)
(* judge was not available for.                                             *)
NoRun == [pc |-> "idle"]
Runs ==
  {NoRun}
    \cup [pc : {"executing", "retrieving", "scoring", "failed"},
          cases : DataSets, at : Nat, judge : BOOLEAN, out : Output, passed : SUBSET Nat,
          sum : [Metrics -> Nat], n : [Metrics -> Nat],
          outages : SUBSET Nat, wrong : SUBSET Nat, judgeless : SUBSET Nat]
    \cup [pc : {"completed"},
          cases : DataSets, at : Nat, judge : BOOLEAN, out : Output, passed : SUBSET Nat,
          sum : [Metrics -> Nat], n : [Metrics -> Nat],
          outages : SUBSET Nat, wrong : SUBSET Nat, judgeless : SUBSET Nat,
          baseline : UNION {[M -> Past] : M \in SUBSET Metrics}, allowed : BOOLEAN]

EvaluationTypeOK == search \in Searches /\ run \in Runs

EvaluationInit == search = NoSearch /\ run = NoRun

NoOutput == [refused |-> FALSE, provider |-> "none", cited |-> FALSE]
Nothing == [m \in Metrics |-> 0]

(* Each run may be asked for with or without the judge.                     *)
BeginRun ==
  /\ run.pc \in {"idle", "failed", "completed"}
  /\ \E cases \in DataSets, judge \in BOOLEAN :
       run' = [pc |-> "executing", cases |-> cases, at |-> 1, judge |-> judge, out |-> NoOutput,
               passed |-> {}, sum |-> Nothing, n |-> Nothing,
               outages |-> {}, wrong |-> {}, judgeless |-> {}]
  /\ UNCHANGED search

HasCase == run.at \in DOMAIN run.cases
TheCase == run.cases[run.at]

-----------------------------------------------------------------------------
(* execute() of the case executor *)

(* The question is taken for one of the knowledge agents.                   *)
AskKnowledge ==
  /\ run.pc = "executing" /\ HasCase
  /\ run' = [run EXCEPT !.pc = "retrieving"]
  /\ search' = Asked

(* The tool that searches runs out of time or fails: the search is made     *)
(* again without it.                                                        *)
RetrieveAgain ==
  /\ run.pc = "retrieving" /\ search.pc = "recalled"
  /\ search' = Asked
  /\ UNCHANGED run

Scoring(out, outage) ==
  run' = [run EXCEPT !.pc = "scoring", !.out = out,
                     !.outages = IF outage /\ TheCase.cites THEN @ \cup {run.at} ELSE @]

(* No model answers a refusal, and only the local one the data task, alone  *)
(* or as the second half of a composite question whose first was refused.   *)
Refusal == [refused |-> TRUE, provider |-> "none", cited |-> FALSE]
DataAnswer == [refused |-> FALSE, provider |-> "ollama", cited |-> FALSE]

(* The data task answers or refuses; another agent asks what is meant.      *)
AskOther ==
  /\ run.pc = "executing" /\ HasCase
  /\ \E out \in {Refusal, DataAnswer, [DataAnswer EXCEPT !.provider = "none"]} :
       Scoring(out, FALSE)
  /\ UNCHANGED search

(* Without evidence the agent refuses.  With evidence a model answers, or   *)
(* the agent refuses because the one that may be asked is not there; the    *)
(* file that is expected may be among those it cites.                       *)
AnswerFromEvidence ==
  /\ run.pc = "retrieving" /\ search.pc = "decided"
  /\ \/ /\ search.level = "insufficient"
        /\ \E out \in {Refusal, DataAnswer} : Scoring(out, search.down)
     \/ /\ search.level # "insufficient"
        /\ \/ \E out \in {Refusal, DataAnswer} : Scoring(out, FALSE)
           \/ \E p \in Providers \ {"none"}, cited \in {b \in BOOLEAN : b => search.cited # {}} :
                Scoring([refused |-> FALSE, provider |-> p, cited |-> cited], FALSE)
  /\ search' = NoSearch

(* The user of a case does not exist, a database or a model raises.         *)
RunFails ==
  /\ run.pc \in {"executing", "retrieving", "scoring"}
  /\ run' = [run EXCEPT !.pc = "failed"]
  /\ search' = NoSearch

-----------------------------------------------------------------------------
(* The scores of a case *)

AsExpected == {run.out.refused} = TheCase.refuse
Percent(b) == IF b THEN 100 ELSE 0

(* Mutants of Measured: what was refused has no citation to score, what     *)
(* could not be judged is left out.                                         *)
MeasuredIfAnswered(m, j) ==
  \/ m = "citation" /\ TheCase.cites /\ ~run.out.refused
  \/ m = "refusal" /\ TheCase.refuse # {}
  \/ m = "judge" /\ j # Skipped
MeasuredIfJudged(m, j) ==
  \/ m = "citation" /\ TheCase.cites
  \/ m = "refusal" /\ TheCase.refuse # {}
  \/ m = "judge" /\ j \in JudgeScores
Measured(m, j) ==
  \/ m = "citation" /\ TheCase.cites
  \/ m = "refusal" /\ TheCase.refuse # {}
  \/ m = "judge" /\ j # Skipped

Value(m, j) ==
  CASE m = "citation" -> Percent(run.out.cited)
    [] m = "refusal" -> Percent(AsExpected)
    [] m = "judge" -> IF j = Unavailable THEN 0 ELSE j

(* What the judge may say: no score if its model, or the reading of its     *)
(* reply, fails.                                                            *)
JudgementsOf(case) == IF case.judged THEN {Unavailable} \cup JudgeScores ELSE {Skipped}
JudgementsIn(case) == IF run.judge THEN JudgementsOf(case) ELSE {Skipped}

(* The output is not the one the row of the case tells of.                  *)
Unexpected ==
  \/ run.out.refused /\ FALSE \in TheCase.refuse
  \/ ~run.out.refused /\ TRUE \in TheCase.refuse
  \/ \E p \in TheCase.provider : p # run.out.provider
  \/ Sent(run.out.provider) /\ FALSE \in TheCase.sent
  \/ ~Sent(run.out.provider) /\ TRUE \in TheCase.sent

Scored == [run EXCEPT !.pc = "executing", !.at = @ + 1, !.out = NoOutput]

Expects(case) == case.refuse # {} \/ case.provider # {} \/ case.sent # {}

(* A safety case passes if something is expected and all of it is met.      *)
(* Mutant: whether anything was sent outside is left unchecked.             *)
PassesIfSent ==
  /\ Expects(TheCase)
  /\ TheCase.refuse \subseteq {run.out.refused}
  /\ TheCase.provider \subseteq {run.out.provider}
SafetyCasePasses ==
  /\ Expects(TheCase)
  /\ TheCase.refuse \subseteq {run.out.refused}
  /\ TheCase.provider \subseteq {run.out.provider}
  /\ TheCase.sent \subseteq {Sent(run.out.provider)}

ScoreSafety ==
  /\ run.pc = "scoring" /\ TheCase.safety
  /\ run' = [Scored EXCEPT !.passed = IF SafetyCasePasses THEN @ \cup {run.at} ELSE @,
                            !.wrong = IF Unexpected THEN @ \cup {run.at} ELSE @]
  /\ UNCHANGED search

ScoreQuality ==
  /\ run.pc = "scoring" /\ ~TheCase.safety
  /\ \E j \in JudgementsIn(TheCase) :
       run' = [Scored EXCEPT
                 !.sum = [m \in Metrics |-> IF Measured(m, j) THEN @[m] + Value(m, j) ELSE @[m]],
                 !.n = [m \in Metrics |-> IF Measured(m, j) THEN @[m] + 1 ELSE @[m]],
                 !.judgeless = IF j = Unavailable THEN @ \cup {run.at} ELSE @]
  /\ UNCHANGED search

-----------------------------------------------------------------------------
(* The verdict *)

SafetyCases(cases) == {i \in DOMAIN cases : cases[i].safety}

SafetyPassed == SafetyCases(run.cases) # {} /\ run.passed = SafetyCases(run.cases)

(* A metric the candidate does not have counts as 0.                        *)
FallsBelow(baseline) ==
  \E m \in DOMAIN baseline :
    IF run.n[m] = 0 THEN AllowedDrop < baseline[m]
    ELSE run.sum[m] + AllowedDrop * run.n[m] < baseline[m] * run.n[m]

JudgeGate ==
  \/ ~run.judge
  \/ run.n["judge"] = 0 /\ ~FailClosed
  \/ run.n["judge"] > 0 /\ run.sum["judge"] >= Minimum * run.n["judge"]

(* The baseline is empty if the run is one of the active version, or that   *)
(* was never evaluated; it may lack a metric this run has, and have others. *)
Complete ==
  /\ run.pc = "executing" /\ ~HasCase
  /\ \E M \in SUBSET Metrics : \E baseline \in [M -> Past] :
       run' = [pc |-> "completed", cases |-> run.cases, at |-> run.at, judge |-> run.judge,
               out |-> run.out, passed |-> run.passed, sum |-> run.sum, n |-> run.n,
               outages |-> run.outages, wrong |-> run.wrong, judgeless |-> run.judgeless,
               baseline |-> baseline,
               allowed |-> SafetyPassed /\ ~FallsBelow(baseline) /\ JudgeGate]
  /\ UNCHANGED search

EvaluationNext ==
  \/ BeginRun \/ AskKnowledge \/ AskOther
  \/ RetrievalStep /\ UNCHANGED run
  \/ RetrieveAgain
  \/ AnswerFromEvidence \/ RunFails \/ ScoreSafety \/ ScoreQuality \/ Complete

EvaluationSpec == EvaluationInit /\ [][EvaluationNext]_evaluationVars

-----------------------------------------------------------------------------
(* Properties *)

Released == run.pc = "completed" /\ run.allowed
QualityCases(P(_)) == {i \in DOMAIN run.cases : ~run.cases[i].safety /\ P(run.cases[i])}

(* While the vector store cannot be searched no question finds evidence: it *)
(* is refused, which the retrieval reports as a success and which the cases *)
(* that expect a refusal pass.  It shows in the citations: a version is     *)
(* released only if the share of the citing cases that met the outage is    *)
(* within what the citations may fall below the active version.             *)
OutageCostsRelease ==
  LET citing == QualityCases(LAMBDA c : c.cites)
  IN (Released /\ "citation" \in DOMAIN run.baseline) =>
       100 * Cardinality(citing \ run.outages)
         >= (run.baseline["citation"] - AllowedDrop) * Cardinality(citing)

(* A judge that was not there counts as one that gave nothing: a version is *)
(* released only if it was there for a share of the judged cases at least   *)
(* as large as the minimum score.                                           *)
JudgeWasThere ==
  LET judged == QualityCases(LAMBDA c : c.judged)
  IN (Released /\ run.judge) =>
       100 * Cardinality(judged \ run.judgeless) >= Minimum * Cardinality(judged)

(* A version is released only if there are safety cases, and each of them,  *)
(* wherever it stood among the others, expected something and ended so:     *)
(* refused or answered, by the expected model, sent outside or not.         *)
SafetyHeld ==
  Released => /\ SafetyCases(run.cases) # {}
              /\ \A i \in SafetyCases(run.cases) : Expects(run.cases[i])
              /\ SafetyCases(run.cases) \cap run.wrong = {}
=============================================================================
