------------------------- MODULE PromptReleaseProofs -------------------------
(***************************************************************************)
(* Proofs about PromptRelease for any number of requests at once, any      *)
(* scores and any bound on versions and runs; and about Evaluation, whose  *)
(* verdict is what a request of PromptRelease ends its run with, for any   *)
(* cases, scores and thresholds.                                           *)
(***************************************************************************)
EXTENDS PromptRelease, Evaluation, FiniteSetTheorems, SequenceTheorems,
        WellFoundedInduction, TLAPS

(* What a request holds at each of its places.                              *)
LEMMA RequestFields ==
  ASSUME NEW r \in Requests
  PROVE  /\ r.pc = "retrying" => r.seen \in Nat /\ r.tries \in 1..Attempts
         /\ r.pc = "inserting" => r.seen \in Nat /\ r.tries \in 1..Attempts /\ r.next \in Nat
         /\ r.pc = "executing" => r.run \in Nat
         /\ r.pc = "comparing" => /\ r.run \in Nat /\ r.score \in Scores /\ r.ok \in BOOLEAN
                                  /\ r.baseline \in Nat /\ r.old \in Seq(Run)
         /\ r.pc = "finishing" => /\ r.run \in Nat /\ r.score \in Scores /\ r.allowed \in BOOLEAN
                                  /\ r.truth \in SUBSET Scores
         /\ r.pc = "loaded" => r.version \in Nat /\ r.old \in Seq(Run)
         /\ r.pc = "rollback" => r.version \in Nat
         /\ r.pc = "chosen" => /\ r.version \in Nat /\ r.via \in {"activate", "rollback"}
                               /\ r.old \in Seq(Run)
         /\ r.pc = "updating" => /\ r.version \in Nat /\ r.via \in {"activate", "rollback"}
                                 /\ r.old \in Seq(Run) /\ r.rows \in SUBSET Nat
BY DEF Requests, Idle

LEMMA GoesTyped ==
  ASSUME req \in [Clients -> Requests], NEW c \in Clients, NEW r \in Requests, Goes(c, r)
  PROVE  /\ req' \in [Clients -> Requests]
         /\ req'[c] = r
         /\ \A d \in Clients : d # c => req'[d] = req[d]
BY DEF Goes

LEMMA RunsTyped ==
  ASSUME runs \in Seq(Run), NEW k \in Nat, NEW x, runs' = [runs EXCEPT ![k] = x],
         k \in DOMAIN runs => x \in Run
  PROVE  runs' \in Seq(Run) /\ Len(runs') = Len(runs)
<1>1. Len(runs) \in Nat /\ runs \in [1..Len(runs) -> Run]
  OBVIOUS
<1>2. runs' \in [1..Len(runs) -> Run]
  BY <1>1
<1>3. runs' \in Seq(Run) /\ DOMAIN runs' = 1..Len(runs)
  BY <1>1, <1>2
<1>4. QED
  BY <1>1, <1>3

LEMMA RunUpdates ==
  ASSUME NEW r \in Run
  PROVE  /\ [r EXCEPT !.status = "FAILED"] \in Run
         /\ \A score \in Scores, b \in BOOLEAN :
              [r EXCEPT !.status = "COMPLETED", !.metrics = {score}, !.allowed = b] \in Run
BY DEF Run

LEMMA MetricsTyped ==
  ASSUME runs \in Seq(Run), NEW c, NEW old \in Seq(Run)
  PROVE  BaselineMetrics(c, old) \in SUBSET Scores
<1>1. \A r \in DOMAIN runs : InSession(old, r) \in Run
  BY DEF InSession
<1>2. \A r \in DOMAIN runs : InSession(old, r).metrics \subseteq Scores
  BY <1>1 DEF Run
<1>3. QED
  BY <1>2 DEF BaselineMetrics, CompletedOf

(* A step of one request leaves what the others hold, and versions are only *)
(* added.                                                                   *)
LEMMA OthersWait ==
  ASSUME req \in [Clients -> Requests], NEW c \in Clients, Step(c)
  PROVE  /\ versions' \in {versions, versions + 1}
         /\ \A d \in Clients : d # c => req'[d] = req[d]
<1>1. versions' \in {versions, versions + 1}
  BY DEF Step, Creating, Evaluating, Activating, RollingBack, BeginCreate, ReadMax, Insert,
     InsertConflicts, BeginEvaluation, ReadActive,
       Compare, FinishRun, EvaluationFails, BeginActivate, GateOpens, GateBlocks, BeginRollback,
       ReadPrevious, Deactivate, Commit, Lost
<1>2. \A d \in Clients : d # c => req'[d] = req[d]
  BY DEF Step, Creating, Evaluating, Activating, RollingBack, Goes, BeginCreate, ReadMax, Insert,
     InsertConflicts, BeginEvaluation,
       ReadActive, Compare, FinishRun, EvaluationFails, BeginActivate, GateOpens, GateBlocks,
       BeginRollback, ReadPrevious, Deactivate, Commit, Lost
<1>3. QED
  BY <1>1, <1>2

(* A version that a request has chosen exists.                              *)
TargetsExist ==
  \A c \in Clients :
    req[c].pc \in {"loaded", "rollback", "chosen", "updating"} => req[c].version \in 1..versions

LEMMA TargetsExistStep ==
  ASSUME TypeOK, TargetsExist, [Next]_vars
  PROVE  TargetsExist'
<1>1. CASE UNCHANGED vars
  BY <1>1 DEF TargetsExist, vars
<1>2. ASSUME NEW c \in Clients, Step(c)
      PROVE  TargetsExist'
  <2>1. /\ req \in [Clients -> Requests] /\ versions \in Nat \ {0}
        /\ active \subseteq 1..versions
    BY PromptAssumption DEF PromptAssumption, TypeOK
  <2>2. versions' \in {versions, versions + 1}
    BY <1>2, <2>1, OthersWait
  <2>3. \A d \in Clients : d # c => req'[d] = req[d]
    BY <1>2, <2>1, OthersWait
  <2>4. req'[c].pc \in {"loaded", "rollback", "chosen", "updating"} => req'[c].version \in 1..versions
    <3> SUFFICES ASSUME req'[c].pc \in {"loaded", "rollback", "chosen", "updating"}
                 PROVE  req'[c].version \in 1..versions
      OBVIOUS
    <3>1. \/ BeginActivate(c) \/ GateOpens(c) \/ BeginRollback(c) \/ ReadPrevious(c) \/ Deactivate(c)
      BY <1>2, <2>1 DEF Step, Creating, Evaluating, Activating, RollingBack, Goes, Idle,
         BeginCreate, ReadMax, Insert, InsertConflicts,
           BeginEvaluation, ReadActive, Compare, FinishRun, EvaluationFails, GateBlocks, Commit, Lost
    <3>2. CASE BeginActivate(c)
      BY <2>1, <3>2 DEF BeginActivate, Goes
    <3>3. CASE GateOpens(c)
      BY <2>1, <3>3 DEF GateOpens, Goes, At, TargetsExist
    <3>4. CASE BeginRollback(c)
      BY <2>1, <3>4 DEF BeginRollback, Goes
    <3>5. CASE ReadPrevious(c)
      <4>1. req[c].version \in 1..versions
        BY <3>5 DEF ReadPrevious, At, TargetsExist
      <4>2. req[c].version > 1 /\ req'[c].version = req[c].version - 1
        BY <2>1, <3>5 DEF ReadPrevious, Goes, Idle
      <4>3. QED
        BY <2>1, <4>1, <4>2
    <3>6. CASE Deactivate(c)
      BY <2>1, <3>6 DEF Deactivate, Goes, At, TargetsExist
    <3>7. QED
      BY <3>1, <3>2, <3>3, <3>4, <3>5, <3>6
  <2>5. QED
    BY <2>1, <2>2, <2>3, <2>4 DEF TargetsExist
<1>3. QED
  BY <1>1, <1>2 DEF Next

LEMMA TypesAndTargets == Spec => [](TypeOK /\ TargetsExist)
<1>1. Init => TypeOK
  BY PromptAssumption DEF PromptAssumption, Init, TypeOK, Requests
<1>2. TypeOK /\ TargetsExist /\ [Next]_vars => TypeOK'
  <2> SUFFICES ASSUME TypeOK, TargetsExist, [Next]_vars
               PROVE  TypeOK'
    OBVIOUS
  <2>1. CASE UNCHANGED vars
    BY <2>1 DEF TypeOK, vars
  <2>2. ASSUME NEW c \in Clients, Step(c)
        PROVE  TypeOK'
    <3>1. /\ req \in [Clients -> Requests] /\ req[c] \in Requests
          /\ versions \in Nat \ {0} /\ versions <= MaxVersions /\ MaxVersions \in Nat
          /\ active \subseteq 1..versions /\ highest \in 1..versions
          /\ runs \in Seq(Run) /\ Len(runs) <= MaxRuns
          /\ ahead \in [Clients -> SUBSET Clients]
      BY PromptAssumption DEF PromptAssumption, TypeOK
    <3>2. Idle \in Requests
      BY DEF Requests
    <3>3. ASSUME NEW r \in Requests, Goes(c, r), UNCHANGED <<versions, active, runs, ahead, highest>>
          PROVE  TypeOK'
      BY <3>1, <3>3, GoesTyped DEF TypeOK
    <3>4. CASE BeginCreate(c)
      <4> DEFINE r == [pc |-> "inserting", seen |-> versions, tries |-> 1, next |-> versions + 1]
      <4>1. r \in Requests
        BY <3>1 DEF Requests, Attempts
      <4>2. QED
        BY <3>3, <3>4, <4>1 DEF BeginCreate
    <3>5. CASE ReadMax(c)
      <4> DEFINE r == [pc |-> "inserting", seen |-> req[c].seen, tries |-> req[c].tries,
                       next |-> NextVersion]
      <4>1. r \in Requests
        BY <3>1, <3>5, RequestFields DEF ReadMax, At, Requests, NextVersion
      <4>2. QED
        BY <3>3, <3>5, <4>1 DEF ReadMax
    <3>6. CASE Insert(c)
      <4>1. req' \in [Clients -> Requests]
        BY <3>1, <3>2, <3>6, GoesTyped DEF Insert
      <4>2. versions' \in 1..MaxVersions /\ active' \subseteq 1..versions' /\ highest' \in 1..versions'
        BY <3>1, <3>6 DEF Insert
      <4>3. QED
        BY <3>1, <3>6, <4>1, <4>2 DEF Insert, TypeOK
    <3>7. CASE InsertConflicts(c)
      <4> DEFINE r == [pc |-> "retrying", seen |-> req[c].seen, tries |-> req[c].tries + 1]
      <4>1. req[c].seen \in Nat /\ req[c].tries \in 1..Attempts
        BY <3>1, <3>7, RequestFields DEF InsertConflicts, At
      <4>2. ~LastAttempt(c) => r \in Requests
        BY <4>1 DEF LastAttempt, Attempts, Requests
      <4>3. QED
        BY <3>2, <3>3, <3>7, <4>2 DEF InsertConflicts
    <3>8. CASE BeginEvaluation(c)
      <4> DEFINE r == [pc |-> "executing", run |-> Len(runs) + 1]
      <4>1. r \in Requests
        BY <3>1 DEF Requests
      <4>2. req' \in [Clients -> Requests]
        BY <3>1, <3>8, <4>1, GoesTyped DEF BeginEvaluation
      <4>3. PICK v \in 1..versions :
              runs' = Append(runs, [version |-> v, status |-> "RUNNING", metrics |-> {}, allowed |-> FALSE])
        BY <3>8 DEF BeginEvaluation
      <4>4. [version |-> v, status |-> "RUNNING", metrics |-> {}, allowed |-> FALSE] \in Run
        BY <3>1 DEF Run
      <4>5. runs' \in Seq(Run) /\ Len(runs') <= MaxRuns
        BY <3>1, <3>8, <4>3, <4>4, PromptAssumption DEF BeginEvaluation, PromptAssumption
      <4>6. QED
        BY <3>1, <3>8, <4>2, <4>5 DEF BeginEvaluation, TypeOK
    <3>9. CASE ReadActive(c)
      <4>1. PICK score \in Scores, ok \in BOOLEAN, a \in active :
              Goes(c, [pc |-> "comparing", run |-> req[c].run, score |-> score, ok |-> ok,
                       baseline |-> a, old |-> runs])
        BY <3>9 DEF ReadActive
      <4> DEFINE r == [pc |-> "comparing", run |-> req[c].run, score |-> score, ok |-> ok,
                       baseline |-> a, old |-> runs]
      <4>2. req[c].run \in Nat
        BY <3>1, <3>9, RequestFields DEF ReadActive, At
      <4>3. a \in Nat
        BY <3>1
      <4>4. r \in Requests
        BY <3>1, <4>2, <4>3 DEF Requests
      <4>5. QED
        BY <3>3, <3>9, <4>1, <4>4 DEF ReadActive
    <3>10. CASE Compare(c)
      <4> DEFINE allowed == req[c].ok /\ ~Regressed(req[c].score, BaselineMetrics(c, req[c].old))
                 raced == \E r \in CompletedOf(runs, req[c].baseline) :
                            r \in DOMAIN req[c].old /\ req[c].old[r].status = "RUNNING"
                 truth == BaselineMetrics(c, <<>>)
                 next == [pc |-> "finishing", run |-> req[c].run, score |-> req[c].score,
                          allowed |-> allowed, truth |-> truth, raced |-> raced]
      <4>1. req[c].run \in Nat /\ req[c].score \in Scores /\ req[c].ok \in BOOLEAN
        BY <3>1, <3>10, RequestFields DEF Compare, At
      <4>2. truth \in SUBSET Scores
        <5>1. <<>> \in Seq(Run)
          OBVIOUS
        <5>2. QED
          BY <3>1, <5>1, MetricsTyped
      <4>3. allowed \in BOOLEAN /\ raced \in BOOLEAN
        OBVIOUS
      <4>4. Goes(c, next)
        BY <3>10 DEF Compare
      <4> HIDE DEF allowed, raced, truth
      <4>5. next \in Requests
        BY <4>1, <4>2, <4>3 DEF Requests
      <4>6. QED
        BY <3>3, <3>10, <4>4, <4>5 DEF Compare
    <3>11. CASE FinishRun(c)
      <4> DEFINE x == [runs[req[c].run] EXCEPT !.status = "COMPLETED", !.metrics = {req[c].score},
                                               !.allowed = req[c].allowed]
      <4>1. req[c].score \in Scores /\ req[c].allowed \in BOOLEAN /\ req[c].run \in Nat
        BY <3>1, <3>11, RequestFields DEF FinishRun, At
      <4>2. runs' = [runs EXCEPT ![req[c].run] = x]
        BY <3>11 DEF FinishRun
      <4>3. req[c].run \in DOMAIN runs => x \in Run
        <5>1. req[c].run \in DOMAIN runs => runs[req[c].run] \in Run
          BY <3>1
        <5>2. QED
          BY <4>1, <5>1, RunUpdates
      <4>4. runs' \in Seq(Run) /\ Len(runs') = Len(runs)
        BY <3>1, <4>1, <4>2, <4>3, RunsTyped
      <4>5. req' \in [Clients -> Requests]
        BY <3>1, <3>2, <3>11, GoesTyped DEF FinishRun
      <4>6. QED
        BY <3>1, <3>11, <4>4, <4>5 DEF FinishRun, TypeOK
    <3>12. CASE EvaluationFails(c)
      <4> DEFINE x == [runs[req[c].run] EXCEPT !.status = "FAILED"]
      <4>1. req[c].run \in Nat
        BY <3>1, <3>12, RequestFields DEF EvaluationFails
      <4>2. runs' = [runs EXCEPT ![req[c].run] = x]
        BY <3>12 DEF EvaluationFails
      <4>3. req[c].run \in DOMAIN runs => x \in Run
        <5>1. req[c].run \in DOMAIN runs => runs[req[c].run] \in Run
          BY <3>1
        <5>2. QED
          BY <4>1, <5>1, RunUpdates
      <4>4. runs' \in Seq(Run) /\ Len(runs') = Len(runs)
        BY <3>1, <4>1, <4>2, <4>3, RunsTyped
      <4>5. req' \in [Clients -> Requests]
        BY <3>1, <3>2, <3>12, GoesTyped DEF EvaluationFails
      <4>6. QED
        BY <3>1, <3>12, <4>4, <4>5 DEF EvaluationFails, TypeOK
    <3>13. CASE BeginActivate(c)
      <4>1. PICK v \in 1..versions : Goes(c, [pc |-> "loaded", version |-> v, old |-> runs])
        BY <3>13 DEF BeginActivate
      <4>2. [pc |-> "loaded", version |-> v, old |-> runs] \in Requests
        BY <3>1 DEF Requests
      <4>3. QED
        BY <3>3, <3>13, <4>1, <4>2 DEF BeginActivate
    <3>14. CASE GateOpens(c)
      <4>1. [pc |-> "chosen", version |-> req[c].version, via |-> "activate", old |-> req[c].old]
              \in Requests
        BY <3>1, <3>14, RequestFields DEF GateOpens, At, Requests
      <4>2. QED
        BY <3>3, <3>14, <4>1 DEF GateOpens
    <3>15. CASE GateBlocks(c)
      BY <3>2, <3>3, <3>15 DEF GateBlocks
    <3>16. CASE BeginRollback(c)
      <4>1. PICK a \in active : Goes(c, [pc |-> "rollback", version |-> a])
        BY <3>16 DEF BeginRollback
      <4>2. [pc |-> "rollback", version |-> a] \in Requests
        BY <3>1 DEF Requests
      <4>3. QED
        BY <3>3, <3>16, <4>1, <4>2 DEF BeginRollback
    <3>17. CASE ReadPrevious(c)
      <4> DEFINE r == [pc |-> "chosen", version |-> req[c].version - 1, via |-> "rollback", old |-> <<>>]
      <4>1. req[c].version \in Nat
        BY <3>1, <3>17, RequestFields DEF ReadPrevious, At
      <4>2. req[c].version > 1 => r \in Requests
        BY <4>1 DEF Requests
      <4>3. QED
        BY <3>2, <3>3, <3>17, <4>2 DEF ReadPrevious
    <3>18. CASE Deactivate(c)
      <4> DEFINE r == [pc |-> "updating", version |-> req[c].version, via |-> req[c].via,
                       old |-> req[c].old, rows |-> KeyRows]
      <4>1. KeyRows \in SUBSET Nat
        BY <3>1 DEF KeyRows
      <4>2. req[c].version \in Nat /\ req[c].via \in {"activate", "rollback"} /\ req[c].old \in Seq(Run)
        BY <3>1, <3>18, RequestFields DEF Deactivate, At
      <4>3. r \in Requests
        BY <4>1, <4>2 DEF Requests
      <4>4. req' \in [Clients -> Requests]
        BY <3>1, <3>18, <4>3, GoesTyped DEF Deactivate
      <4>5. ahead' \in [Clients -> SUBSET Clients]
        BY <3>1, <3>18 DEF Deactivate
      <4>6. QED
        BY <3>1, <3>18, <4>4, <4>5 DEF Deactivate, TypeOK
    <3>19. Unlocked(c) \in [Clients -> SUBSET Clients]
      BY <3>1 DEF Unlocked
    <3>20. CASE Lost(c)
      <4>1. req' \in [Clients -> Requests]
        BY <3>1, <3>2, <3>20, GoesTyped DEF Lost
      <4>2. QED
        BY <3>1, <3>19, <3>20, <4>1 DEF Lost, TypeOK
    <3>21. CASE Commit(c)
      <4>1. req[c].version \in 1..versions
        BY <3>21 DEF Commit, At, TargetsExist
      <4>2. req' \in [Clients -> Requests]
        BY <3>1, <3>2, <3>21, GoesTyped DEF Commit
      <4>3. active' \subseteq 1..versions' /\ highest' \in 1..versions'
        BY <3>1, <3>21, <4>1 DEF Commit
      <4>4. QED
        BY <3>1, <3>19, <3>21, <4>2, <4>3 DEF Commit, TypeOK
    <3>22. QED
      BY <2>2, <3>4, <3>5, <3>6, <3>7, <3>8, <3>9, <3>10, <3>11, <3>12, <3>13, <3>14, <3>15, <3>16,
         <3>17, <3>18, <3>20, <3>21 DEF Step, Creating, Evaluating, Activating, RollingBack
  <2>3. QED
    BY <2>1, <2>2 DEF Next
<1>3. Init => TargetsExist
  BY DEF Init, Idle, TargetsExist
<1>4. TypeOK /\ TargetsExist /\ [Next]_vars => TargetsExist'
  BY TargetsExistStep
<1>5. QED
  BY <1>1, <1>2, <1>3, <1>4, PTL DEF Spec

(* The type invariant: no request makes more attempts to create a version   *)
(* than it may, and no more versions or runs appear than are bounded.       *)
THEOREM TypeCorrect == Spec => []TypeOK
BY TypesAndTargets, PTL

-----------------------------------------------------------------------------
(* The version that a request is to insert lies above what it was beaten    *)
(* to by its attempts.                                                      *)
Attempted ==
  \A c \in Clients :
    /\ At(c, "inserting") => /\ req[c].next <= versions + 1
                             /\ req[c].next >= req[c].seen + req[c].tries
    /\ At(c, "retrying") => versions + 1 >= req[c].seen + req[c].tries

LEMMA AttemptedStep ==
  ASSUME TypeOK, Attempted, [Next]_vars
  PROVE  Attempted'
<1>1. CASE UNCHANGED vars
  BY <1>1 DEF Attempted, At, vars
<1>2. ASSUME NEW c \in Clients, Step(c)
      PROVE  Attempted'
  <2>1. req \in [Clients -> Requests] /\ versions \in Nat
    BY PromptAssumption DEF PromptAssumption, TypeOK
  <2>2. versions' \in {versions, versions + 1} /\ \A d \in Clients : d # c => req'[d] = req[d]
    BY <1>2, <2>1, OthersWait
  <2>3. \A d \in Clients :
          /\ req[d].pc = "retrying" => req[d].seen \in Nat /\ req[d].tries \in 1..Attempts
          /\ req[d].pc = "inserting" => /\ req[d].seen \in Nat /\ req[d].tries \in 1..Attempts
                                        /\ req[d].next \in Nat
    BY <2>1, RequestFields
  <2>4. /\ req'[c].pc = "inserting" => /\ req'[c].next <= versions' + 1
                                       /\ req'[c].next >= req'[c].seen + req'[c].tries
        /\ req'[c].pc = "retrying" => versions' + 1 >= req'[c].seen + req'[c].tries
    <3>1. CASE BeginCreate(c)
      BY <2>1, <3>1 DEF BeginCreate, Goes
    <3>2. CASE ReadMax(c)
      BY <2>1, <2>3, <3>2 DEF ReadMax, Goes, At, NextVersion, Attempted
    <3>3. CASE InsertConflicts(c)
      <4>1. /\ req[c].next <= versions /\ req[c].next >= req[c].seen + req[c].tries
            /\ req[c].seen \in Nat /\ req[c].tries \in Nat /\ req[c].next \in Nat /\ versions' = versions
        BY <2>3, <3>3 DEF InsertConflicts, At, Attempted
      <4>2. \/ req'[c] = Idle
            \/ req'[c] = [pc |-> "retrying", seen |-> req[c].seen, tries |-> req[c].tries + 1]
        BY <2>1, <3>3 DEF InsertConflicts, Goes
      <4>3. QED
        BY <2>1, <4>1, <4>2 DEF Idle
    <3>4. CASE ~(BeginCreate(c) \/ ReadMax(c) \/ InsertConflicts(c))
      <4>1. req'[c].pc \notin {"inserting", "retrying"}
        BY <1>2, <2>1, <3>4 DEF Step, Creating, Evaluating, Activating, RollingBack, Goes, Idle,
           Insert, BeginEvaluation, ReadActive, Compare,
             FinishRun, EvaluationFails, BeginActivate, GateOpens, GateBlocks, BeginRollback,
             ReadPrevious, Deactivate, Commit, Lost
      <4>2. QED
        BY <4>1
    <3>5. QED
      BY <3>1, <3>2, <3>3, <3>4
  <2>5. ASSUME NEW d \in Clients, d # c
        PROVE  /\ req'[d].pc = "inserting" => /\ req'[d].next <= versions' + 1
                                              /\ req'[d].next >= req'[d].seen + req'[d].tries
               /\ req'[d].pc = "retrying" => versions' + 1 >= req'[d].seen + req'[d].tries
    BY <2>1, <2>2, <2>3, <2>5 DEF Attempted, At
  <2>6. QED
    BY <2>4, <2>5 DEF Attempted, At
<1>3. QED
  BY <1>1, <1>2 DEF Next

(* No request is told of a conflict that was not one: three others got in   *)
(* first.                                                                   *)
THEOREM ConflictsAreReal == Spec => []ConflictOnlyIfBeaten
<1>1. Init => Attempted
  <2> SUFFICES ASSUME Init, NEW c \in Clients
               PROVE  req[c].pc = "idle"
    BY DEF Attempted, At
  <2>1. req[c] = Idle
    BY DEF Init
  <2>2. QED
    BY <2>1 DEF Idle
<1>2. TypeOK /\ Attempted /\ [Next]_vars => Attempted'
  BY AttemptedStep
<1>3. TypeOK /\ Attempted => ConflictOnlyIfBeaten
  <2> SUFFICES ASSUME TypeOK, Attempted, NEW c \in Clients, At(c, "inserting"),
                      req[c].tries = Attempts, req[c].next <= versions
               PROVE  versions >= req[c].seen + Attempts
    BY DEF ConflictOnlyIfBeaten
  <2>1. req[c].next \in Nat /\ req[c].seen \in Nat /\ versions \in Nat
    BY RequestFields, PromptAssumption DEF At, TypeOK, PromptAssumption
  <2>2. req[c].next >= req[c].seen + Attempts
    BY DEF Attempted
  <2>3. QED
    BY <2>1, <2>2 DEF Attempts
<1>4. QED
  BY <1>1, <1>2, <1>3, TypeCorrect, PTL DEF Spec

-----------------------------------------------------------------------------
(* The updates that are in progress, or wait for locks, are ordered, and a  *)
(* later one takes all rows of an earlier one.  So it clears whatever those *)
(* before it set active.                                                    *)
UpdatesOrdered ==
  /\ \A c \in Clients : At(c, "updating") => /\ req[c].rows \subseteq 1..versions
                                             /\ req[c].version \in req[c].rows
                                             /\ active \subseteq req[c].rows
  /\ \A c, d \in Clients : d \in ahead[c] => /\ At(c, "updating") /\ At(d, "updating") /\ c # d
                                             /\ req[d].rows \subseteq req[c].rows
  /\ \A c, d \in Clients : At(c, "updating") /\ At(d, "updating") /\ c # d
                             => d \in ahead[c] \/ c \in ahead[d]

Switching == OneActive /\ UpdatesOrdered

(* A request that leaves the order keeps the others ordered.                *)
LEMMA UnlockedKeepsOrder ==
  ASSUME UpdatesOrdered, ahead \in [Clients -> SUBSET Clients],
         NEW c \in Clients, ahead' = Unlocked(c), req'[c] = Idle,
         \A d \in Clients : d # c => req'[d] = req[d],
         \A d \in Clients : At(d, "updating")' => /\ req'[d].rows \subseteq 1..versions'
                                                 /\ req'[d].version \in req'[d].rows
                                                 /\ active' \subseteq req'[d].rows
  PROVE  UpdatesOrdered'
<1>1. \A d \in Clients : ahead'[d] = IF d = c THEN {} ELSE ahead[d] \ {c}
  BY DEF Unlocked
<1>2. \A d \in Clients : At(d, "updating")' <=> d # c /\ At(d, "updating")
  BY DEF At, Idle
<1>3. ASSUME NEW d \in Clients, NEW e \in Clients, e \in ahead'[d]
      PROVE  At(d, "updating")' /\ At(e, "updating")' /\ d # e /\ req'[e].rows \subseteq req'[d].rows
  <2>1. d # c /\ e # c /\ e \in ahead[d]
    BY <1>1, <1>3
  <2>2. QED
    BY <1>2, <2>1 DEF UpdatesOrdered
<1>4. ASSUME NEW d \in Clients, NEW e \in Clients, At(d, "updating")', At(e, "updating")', d # e
      PROVE  e \in ahead'[d] \/ d \in ahead'[e]
  <2>1. d # c /\ e # c /\ At(d, "updating") /\ At(e, "updating")
    BY <1>2, <1>4
  <2>2. e \in ahead[d] \/ d \in ahead[e]
    BY <1>4, <2>1 DEF UpdatesOrdered
  <2>3. QED
    BY <1>1, <2>1, <2>2
<1>5. \A d \in Clients : At(d, "updating")' => /\ req'[d].rows \subseteq 1..versions'
                                              /\ req'[d].version \in req'[d].rows
                                              /\ active' \subseteq req'[d].rows
  OBVIOUS
<1>6. QED
  BY <1>3, <1>4, <1>5 DEF UpdatesOrdered, At

LEMMA SwitchingStep ==
  ASSUME TypeOK, TargetsExist, Switching, [Next]_vars
  PROVE  Switching'
<1>1. CASE UNCHANGED vars
  BY <1>1 DEF Switching, OneActive, UpdatesOrdered, At, vars
<1>2. ASSUME NEW c \in Clients, Step(c)
      PROVE  Switching'
  <2>1. /\ req \in [Clients -> Requests] /\ versions \in Nat
        /\ ahead \in [Clients -> SUBSET Clients] /\ active \subseteq 1..versions
    BY PromptAssumption DEF PromptAssumption, TypeOK
  <2>2. versions' \in {versions, versions + 1} /\ \A d \in Clients : d # c => req'[d] = req[d]
    BY <1>2, <2>1, OthersWait
  <2>3. 1..versions \subseteq 1..versions'
    BY <2>1, <2>2
  <2>4. CASE Deactivate(c)
    <3>1. /\ req'[c].pc = "updating" /\ req'[c].rows = 1..versions /\ req'[c].version \in 1..versions
          /\ ~At(c, "updating") /\ versions' = versions /\ active' = active
      BY <2>1, <2>4 DEF Deactivate, Goes, At, KeyRows, TargetsExist
    <3>2. /\ ahead'[c] = {d \in Clients : At(d, "updating")}
          /\ \A d \in Clients : d # c => ahead'[d] = ahead[d] /\ c \notin ahead[d]
      BY <2>1, <2>4, <3>1 DEF Deactivate, Switching, UpdatesOrdered
    <3>3. \A d \in Clients : At(d, "updating")' => req'[d].rows \subseteq 1..versions'
                                /\ req'[d].version \in req'[d].rows /\ active' \subseteq req'[d].rows
      BY <2>1, <2>2, <3>1 DEF At, Switching, UpdatesOrdered
    <3>4. ASSUME NEW d \in Clients, NEW e \in Clients, e \in ahead'[d]
          PROVE  At(d, "updating")' /\ At(e, "updating")' /\ d # e /\ req'[e].rows \subseteq req'[d].rows
      <4>1. CASE d = c
        BY <2>2, <3>1, <3>2, <3>4, <4>1 DEF At, Switching, UpdatesOrdered
      <4>2. CASE d # c
        BY <2>2, <3>2, <3>4, <4>2 DEF At, Switching, UpdatesOrdered
      <4>3. QED
        BY <4>1, <4>2
    <3>5. ASSUME NEW d \in Clients, NEW e \in Clients, At(d, "updating")', At(e, "updating")', d # e
          PROVE  e \in ahead'[d] \/ d \in ahead'[e]
      BY <2>2, <3>2, <3>5 DEF At, Switching, UpdatesOrdered
    <3>6. OneActive'
      BY <3>1 DEF Switching, OneActive
    <3>7. QED
      BY <3>3, <3>4, <3>5, <3>6 DEF Switching, UpdatesOrdered
  <2>5. CASE Commit(c)
    <3>1. /\ At(c, "updating") /\ req'[c] = Idle /\ versions' = versions
          /\ active' = (active \ req[c].rows) \cup {req[c].version}
          /\ ahead' = Unlocked(c) /\ ahead[c] = {}
      BY <2>1, <2>5 DEF Commit, Goes
    <3>2. active' = {req[c].version} /\ req[c].version \in req[c].rows /\ req[c].version \in 1..versions
      BY <3>1 DEF Switching, UpdatesOrdered
    <3>3. ASSUME NEW d \in Clients, d # c, At(d, "updating")
          PROVE  req[c].rows \subseteq req[d].rows
      BY <3>1, <3>3 DEF Switching, UpdatesOrdered
    <3>4. \A d \in Clients : At(d, "updating")' => d # c /\ At(d, "updating")
      BY <2>2, <3>1 DEF At, Idle
    <3>5. \A d \in Clients : At(d, "updating")' => req'[d].rows \subseteq 1..versions'
                                /\ req'[d].version \in req'[d].rows /\ active' \subseteq req'[d].rows
      BY <2>2, <3>1, <3>2, <3>3, <3>4 DEF Switching, UpdatesOrdered
    <3>6. UpdatesOrdered'
      BY <2>1, <2>2, <3>1, <3>4, <3>5, UnlockedKeepsOrder DEF Switching
    <3>7. OneActive'
      BY <3>1, <3>2 DEF OneActive
    <3>8. QED
      BY <3>6, <3>7 DEF Switching
  <2>6. CASE Lost(c)
    <3>1. req'[c] = Idle /\ versions' = versions /\ active' = active /\ ahead' = Unlocked(c)
      BY <2>1, <2>6 DEF Lost, Goes
    <3>2. \A d \in Clients : At(d, "updating")' => req'[d].rows \subseteq 1..versions'
                                /\ req'[d].version \in req'[d].rows /\ active' \subseteq req'[d].rows
      BY <2>2, <3>1 DEF At, Idle, Switching, UpdatesOrdered
    <3>3. UpdatesOrdered'
      BY <2>1, <2>2, <3>1, <3>2, UnlockedKeepsOrder DEF Switching
    <3>4. QED
      BY <3>1, <3>3 DEF Switching, OneActive
  <2>7. CASE ~(Deactivate(c) \/ Commit(c) \/ Lost(c))
    <3>1. /\ active' = active /\ ahead' = ahead /\ req'[c].pc # "updating" /\ ~At(c, "updating")
      BY <1>2, <2>1, <2>7 DEF Step, Creating, Evaluating, Activating, RollingBack, Goes, At,
         Idle, BeginCreate, ReadMax, Insert, InsertConflicts,
           BeginEvaluation, ReadActive, Compare, FinishRun, EvaluationFails, BeginActivate, GateOpens,
           GateBlocks, BeginRollback, ReadPrevious
    <3>2. \A d \in Clients : (At(d, "updating")' <=> At(d, "updating"))
                               /\ (At(d, "updating") => req'[d] = req[d])
      BY <2>2, <3>1 DEF At
    <3>3. UpdatesOrdered'
      <4>1. \A d \in Clients : At(d, "updating")' => req'[d].rows \subseteq 1..versions'
                                  /\ req'[d].version \in req'[d].rows /\ active' \subseteq req'[d].rows
        BY <2>3, <3>1, <3>2 DEF Switching, UpdatesOrdered
      <4>2. QED
        BY <3>1, <3>2, <4>1 DEF Switching, UpdatesOrdered
    <3>4. OneActive'
      BY <2>3, <3>1 DEF Switching, OneActive
    <3>5. QED
      BY <3>3, <3>4 DEF Switching
  <2>8. QED
    BY <2>4, <2>5, <2>6, <2>7
<1>3. QED
  BY <1>1, <1>2 DEF Next

(* Readers see exactly one active version, however many activations and     *)
(* rollbacks overlap, wait for each other's locks or die.                   *)
THEOREM ExactlyOneActive == Spec => []OneActive
<1>1. Init => Switching
  BY DEF Init, Switching, OneActive, UpdatesOrdered, At, Idle
<1>2. TypeOK /\ TargetsExist /\ Switching /\ [Next]_vars => Switching'
  BY SwitchingStep
<1>3. Spec => [](TypeOK /\ TargetsExist)
  BY TypesAndTargets
<1>4. QED
  BY <1>1, <1>2, <1>3, PTL DEF Spec, Switching

-----------------------------------------------------------------------------
(* A request owns the run it began until it ends; an allowed run is done.   *)
Owns(c) == req[c].pc \in {"executing", "comparing", "finishing"}

RunsOwned ==
  /\ \A c \in Clients : Owns(c) => /\ req[c].run \in DOMAIN runs
                                   /\ runs[req[c].run].status = "RUNNING"
  /\ \A c, d \in Clients : Owns(c) /\ Owns(d) /\ req[c].run = req[d].run => c = d
  /\ \A r \in DOMAIN runs : runs[r].allowed => runs[r].status = "COMPLETED"

(* A run that is done stays as it is, and no run changes its version.       *)
Grown(before, after) ==
  \A r \in DOMAIN before :
    /\ r \in DOMAIN after
    /\ after[r].version = before[r].version
    /\ before[r].status # "RUNNING" => after[r] = before[r]

LEMMA GrownTransitive ==
  ASSUME NEW x, NEW y, NEW z, Grown(x, y), Grown(y, z)
  PROVE  Grown(x, z)
BY DEF Grown

LEMMA RunsGrow ==
  ASSUME TypeOK, RunsOwned, NEW c \in Clients, Step(c)
  PROVE  Grown(runs, runs') /\ RunsOwned'
<1>1. req \in [Clients -> Requests] /\ runs \in Seq(Run) /\ Len(runs) \in Nat
  BY DEF TypeOK
<1>2. \A d \in Clients : d # c => req'[d] = req[d]
  BY <1>1, OthersWait
<1>3. CASE BeginEvaluation(c)
  <2>1. PICK v \in 1..versions :
          runs' = Append(runs, [version |-> v, status |-> "RUNNING", metrics |-> {}, allowed |-> FALSE])
    BY <1>3 DEF BeginEvaluation
  <2> DEFINE x == [version |-> v, status |-> "RUNNING", metrics |-> {}, allowed |-> FALSE]
             n == Len(runs) + 1
  <2>2. /\ DOMAIN runs = 1..Len(runs) /\ DOMAIN runs' = 1..n
        /\ \A r \in DOMAIN runs : r \in DOMAIN runs' /\ runs'[r] = runs[r]
        /\ n \in DOMAIN runs' /\ n \notin DOMAIN runs /\ runs'[n] = x
    BY <1>1, <2>1
  <2>3. req'[c].pc = "executing" /\ req'[c].run = n /\ ~Owns(c)
    BY <1>1, <1>3 DEF BeginEvaluation, Goes, At, Owns
  <2>4. \A d \in Clients : d # c => (Owns(d)' <=> Owns(d)) /\ req'[d].run = req[d].run
    BY <1>2 DEF Owns
  <2>5. \A d \in Clients : Owns(d)' => /\ req'[d].run \in DOMAIN runs'
                                       /\ runs'[req'[d].run].status = "RUNNING"
    BY <2>2, <2>3, <2>4 DEF RunsOwned
  <2>6. \A d, e \in Clients : Owns(d)' /\ Owns(e)' /\ req'[d].run = req'[e].run => d = e
    BY <2>2, <2>3, <2>4 DEF RunsOwned
  <2>7. \A r \in DOMAIN runs' : runs'[r].allowed => runs'[r].status = "COMPLETED"
    <3>1. \A r \in DOMAIN runs' : r \in DOMAIN runs \/ r = n
      BY <1>1, <2>2
    <3>2. QED
      BY <2>2, <3>1 DEF RunsOwned
  <2>8. Grown(runs, runs')
    BY <2>2 DEF Grown
  <2>9. QED
    BY <2>5, <2>6, <2>7, <2>8 DEF RunsOwned
<1>4. CASE FinishRun(c) \/ EvaluationFails(c)
  <2> DEFINE k == req[c].run
  <2>1. Owns(c) /\ k \in DOMAIN runs /\ runs[k].status = "RUNNING"
    BY <1>4 DEF FinishRun, EvaluationFails, At, Owns, RunsOwned
  <2>2. PICK x : /\ runs' = [runs EXCEPT ![k] = x] /\ x.version = runs[k].version
                 /\ x.allowed => x.status = "COMPLETED"
    <3>1. runs[k] \in Run /\ runs[k].allowed = FALSE
      <4>1. runs[k] \in Run
        BY <1>1, <2>1
      <4>2. runs[k].allowed \in BOOLEAN
        BY <4>1 DEF Run
      <4>3. ~runs[k].allowed
        BY <2>1 DEF RunsOwned
      <4>4. QED
        BY <4>1, <4>2, <4>3
    <3>2. CASE FinishRun(c)
      <4> DEFINE y == [runs[k] EXCEPT !.status = "COMPLETED", !.metrics = {req[c].score},
                                      !.allowed = req[c].allowed]
      <4>1. runs' = [runs EXCEPT ![k] = y]
        BY <3>2 DEF FinishRun
      <4>2. y.version = runs[k].version /\ y.status = "COMPLETED"
        BY <3>1 DEF Run
      <4>3. QED
        BY <4>1, <4>2
    <3>3. CASE EvaluationFails(c)
      <4> DEFINE y == [runs[k] EXCEPT !.status = "FAILED"]
      <4>1. runs' = [runs EXCEPT ![k] = y]
        BY <3>3 DEF EvaluationFails
      <4>2. y.version = runs[k].version /\ y.allowed = FALSE
        BY <3>1 DEF Run
      <4>3. QED
        BY <4>1, <4>2
    <3>4. QED
      BY <1>4, <3>2, <3>3
  <2>3. /\ DOMAIN runs' = DOMAIN runs /\ runs'[k] = x
        /\ \A r \in DOMAIN runs : r # k => runs'[r] = runs[r]
    BY <1>1, <2>1, <2>2
  <2>4. ~Owns(c)'
    BY <1>1, <1>4 DEF FinishRun, EvaluationFails, Goes, Idle, Owns
  <2>5. \A d \in Clients : Owns(d)' => d # c /\ Owns(d) /\ req'[d].run = req[d].run
    BY <1>2, <2>4 DEF Owns
  <2>6. \A d \in Clients : Owns(d)' => req'[d].run \in DOMAIN runs /\ req'[d].run # k
    BY <2>1, <2>5 DEF RunsOwned
  <2>7. \A d \in Clients : Owns(d)' => runs'[req'[d].run].status = "RUNNING"
    BY <2>3, <2>5, <2>6 DEF RunsOwned
  <2>8. \A d, e \in Clients : Owns(d)' /\ Owns(e)' /\ req'[d].run = req'[e].run => d = e
    BY <2>5 DEF RunsOwned
  <2>9. \A r \in DOMAIN runs' : runs'[r].allowed => runs'[r].status = "COMPLETED"
    BY <2>2, <2>3 DEF RunsOwned
  <2>10. Grown(runs, runs')
    BY <2>1, <2>2, <2>3 DEF Grown
  <2>11. QED
    BY <2>3, <2>6, <2>7, <2>8, <2>9, <2>10 DEF RunsOwned
<1>5. CASE ~(BeginEvaluation(c) \/ FinishRun(c) \/ EvaluationFails(c))
  <2>1. runs' = runs
    BY <1>5 DEF Step, Creating, Evaluating, Activating, RollingBack, BeginCreate, ReadMax,
       Insert, InsertConflicts, ReadActive, Compare,
         BeginActivate, GateOpens, GateBlocks, BeginRollback, ReadPrevious, Deactivate, Commit, Lost
  <2>2. Owns(c)' => Owns(c) /\ req'[c].run = req[c].run
    <3>1. CASE ReadActive(c) \/ Compare(c)
      BY <1>1, <3>1 DEF ReadActive, Compare, Goes, At, Owns
    <3>2. CASE ~(ReadActive(c) \/ Compare(c))
      BY <1>1, <1>5, <3>2 DEF Step, Creating, Evaluating, Activating, RollingBack, Goes, Idle,
         Owns, BeginCreate, ReadMax, Insert,
           InsertConflicts, BeginActivate, GateOpens, GateBlocks, BeginRollback, ReadPrevious,
           Deactivate, Commit, Lost
    <3>3. QED
      BY <3>1, <3>2
  <2>3. \A d \in Clients : Owns(d)' => Owns(d) /\ req'[d].run = req[d].run
    BY <1>2, <2>2 DEF Owns
  <2>4. Grown(runs, runs')
    BY <2>1 DEF Grown
  <2>5. QED
    BY <2>1, <2>3, <2>4 DEF RunsOwned
<1>6. QED
  BY <1>3, <1>4, <1>5

(* What a session loaded of the runs is what they were: those that were     *)
(* done then are the same now.                                              *)
LoadedRuns ==
  \A c \in Clients :
    req[c].pc \in {"comparing", "loaded", "chosen", "updating"} =>
      /\ Grown(req[c].old, runs)
      /\ \A r \in DOMAIN req[c].old : req[c].old[r].allowed => req[c].old[r].status = "COMPLETED"

LEMMA LoadedRunsStep ==
  ASSUME TypeOK, RunsOwned, LoadedRuns, NEW c \in Clients, Step(c)
  PROVE  LoadedRuns'
<1> DEFINE Holds(d) == req[d].pc \in {"comparing", "loaded", "chosen", "updating"}
           Sound(d) == \A r \in DOMAIN req[d].old :
                         req[d].old[r].allowed => req[d].old[r].status = "COMPLETED"
<1>1. req \in [Clients -> Requests] /\ runs \in Seq(Run)
  BY DEF TypeOK
<1>2. \A d \in Clients : d # c => req'[d] = req[d]
  BY <1>1, OthersWait
<1>3. Grown(runs, runs')
  BY RunsGrow
<1>4. ASSUME NEW d \in Clients, Holds(d), req'[d].old = req[d].old
      PROVE  Grown(req'[d].old, runs') /\ Sound(d)'
  <2>1. Grown(req[d].old, runs) /\ Sound(d)
    BY <1>4 DEF LoadedRuns
  <2>2. Grown(req[d].old, runs')
    BY <1>3, <2>1, GrownTransitive
  <2>3. QED
    BY <1>4, <2>1, <2>2
<1>5. ASSUME Holds(c)'
      PROVE  Grown(req'[c].old, runs') /\ Sound(c)'
  <2>1. \/ ReadActive(c) \/ BeginActivate(c) \/ GateOpens(c) \/ ReadPrevious(c) \/ Deactivate(c)
    BY <1>1, <1>5 DEF Step, Creating, Evaluating, Activating, RollingBack, Goes, Idle,
       BeginCreate, ReadMax, Insert, InsertConflicts,
         BeginEvaluation, Compare, FinishRun, EvaluationFails, GateBlocks, BeginRollback, Commit, Lost
  <2>2. CASE ReadActive(c) \/ BeginActivate(c)
    <3>1. req'[c].old = runs /\ runs' = runs
      BY <1>1, <2>2 DEF ReadActive, BeginActivate, Goes
    <3>2. Grown(runs, runs)
      BY DEF Grown
    <3>3. QED
      BY <3>1, <3>2 DEF RunsOwned
  <2>3. CASE GateOpens(c) \/ Deactivate(c)
    <3>1. Holds(c) /\ req'[c].old = req[c].old
      BY <1>1, <2>3 DEF GateOpens, Deactivate, Goes, At
    <3>2. QED
      BY <1>4, <3>1
  <2>4. CASE ReadPrevious(c)
    <3>1. req'[c].old = <<>>
      BY <1>1, <1>5, <2>4 DEF ReadPrevious, Goes, Idle
    <3>2. QED
      BY <3>1 DEF Grown
  <2>5. QED
    BY <2>1, <2>2, <2>3, <2>4
<1>6. ASSUME NEW d \in Clients, d # c, Holds(d)'
      PROVE  Grown(req'[d].old, runs') /\ Sound(d)'
  <2>1. Holds(d) /\ req'[d].old = req[d].old
    BY <1>2, <1>6
  <2>2. QED
    BY <1>4, <2>1
<1>7. QED
  BY <1>5, <1>6 DEF LoadedRuns

RunsInv == RunsOwned /\ LoadedRuns

LEMMA RunsInvariant == Spec => []RunsInv
<1>1. Init => RunsInv
  <2> SUFFICES ASSUME Init
               PROVE  RunsInv
    OBVIOUS
  <2>1. \A c \in Clients : req[c] = Idle
    BY DEF Init
  <2>2. DOMAIN runs = {}
    BY DEF Init
  <2>3. QED
    BY <2>1, <2>2 DEF Idle, RunsInv, RunsOwned, LoadedRuns, Owns
<1>2. TypeOK /\ RunsInv /\ [Next]_vars => RunsInv'
  <2>1. ASSUME TypeOK, RunsInv, NEW c \in Clients, Step(c)
        PROVE  RunsInv'
    BY <2>1, RunsGrow, LoadedRunsStep DEF RunsInv
  <2>2. ASSUME RunsInv, UNCHANGED vars
        PROVE  RunsInv'
    BY <2>2 DEF RunsInv, RunsOwned, LoadedRuns, Owns, vars
  <2>3. QED
    BY <2>1, <2>2 DEF Next
<1>3. QED
  BY <1>1, <1>2, TypeCorrect, PTL DEF Spec

-----------------------------------------------------------------------------
(* A version a request is about to activate was admitted by a completed run *)
(* that none of those the request loaded had superseded.                    *)
AdmittedBy(old, v) ==
  \E r \in CompletedOf(runs, v) : runs[r].allowed /\ Last(r, CompletedOf(old, v))

Switches(c) == req[c].pc \in {"chosen", "updating"}

Admitted ==
  \A c \in Clients : Switches(c) /\ req[c].via = "activate" => AdmittedBy(req[c].old, req[c].version)

LEMMA AdmissionLasts ==
  ASSUME Grown(runs, runs'), NEW old, NEW v, AdmittedBy(old, v)
  PROVE  AdmittedBy(old, v)'
<1>1. PICK r \in CompletedOf(runs, v) : runs[r].allowed /\ Last(r, CompletedOf(old, v))
  BY DEF AdmittedBy
<1>2. r \in CompletedOf(runs', v) /\ runs'[r].allowed
  BY <1>1 DEF Grown, CompletedOf
<1>3. QED
  BY <1>1, <1>2 DEF AdmittedBy

LEMMA GateAdmits ==
  ASSUME RunsInv, NEW c \in Clients, GateOpens(c)
  PROVE  AdmittedBy(req[c].old, req[c].version)
<1> DEFINE old == req[c].old
           v == req[c].version
<1>1. PICK r \in CompletedOf(runs, v) : /\ Last(r, CompletedOf(runs, v))
                                        /\ InSession(old, r).allowed
  BY DEF GateOpens, Admits
<1>2. /\ Grown(old, runs)
      /\ \A q \in DOMAIN old : old[q].allowed => old[q].status = "COMPLETED"
  BY DEF GateOpens, At, RunsInv, LoadedRuns
<1> HIDE DEF old, v
<1>3. runs[r].allowed
  <2>1. CASE r \in DOMAIN old
    BY <1>1, <1>2, <2>1 DEF InSession, Grown
  <2>2. CASE r \notin DOMAIN old
    BY <1>1, <2>2 DEF InSession
  <2>3. QED
    BY <2>1, <2>2
<1>4. \A q \in CompletedOf(old, v) : q \in CompletedOf(runs, v)
  BY <1>2 DEF Grown, CompletedOf
<1>5. Last(r, CompletedOf(old, v))
  BY <1>1, <1>4 DEF Last
<1>6. QED
  BY <1>1, <1>3, <1>5 DEF AdmittedBy, old, v

LEMMA AdmittedStep ==
  ASSUME TypeOK, RunsInv, Admitted, NEW c \in Clients, Step(c)
  PROVE  Admitted'
<1>1. req \in [Clients -> Requests]
  BY DEF TypeOK
<1>2. \A d \in Clients : d # c => req'[d] = req[d]
  BY <1>1, OthersWait
<1>3. Grown(runs, runs')
  BY RunsGrow DEF RunsInv
<1>4. ASSUME NEW d \in Clients, AdmittedBy(req[d].old, req[d].version),
             req'[d].old = req[d].old, req'[d].version = req[d].version
      PROVE  AdmittedBy(req[d].old, req[d].version)'
  BY <1>3, <1>4, AdmissionLasts DEF AdmittedBy
<1>5. ASSUME Switches(c)', req'[c].via = "activate"
      PROVE  AdmittedBy(req[c].old, req[c].version)'
  <2>1. GateOpens(c) \/ ReadPrevious(c) \/ Deactivate(c)
    BY <1>1, <1>5 DEF Switches, Step, Creating, Evaluating, Activating, RollingBack, Goes, Idle,
       BeginCreate, ReadMax, Insert, InsertConflicts,
         BeginEvaluation, ReadActive, Compare, FinishRun, EvaluationFails, BeginActivate, GateBlocks,
         BeginRollback, Commit, Lost
  <2>2. CASE GateOpens(c)
    <3>1. req'[c].old = req[c].old /\ req'[c].version = req[c].version
      BY <1>1, <2>2 DEF GateOpens, Goes
    <3>2. AdmittedBy(req[c].old, req[c].version)
      BY <2>2, GateAdmits
    <3>3. QED
      BY <1>4, <3>1, <3>2
  <2>3. CASE ReadPrevious(c)
    BY <1>1, <1>5, <2>3 DEF ReadPrevious, Goes, Idle, Switches
  <2>4. CASE Deactivate(c)
    <3>1. /\ Switches(c) /\ req'[c].via = req[c].via
          /\ req'[c].old = req[c].old /\ req'[c].version = req[c].version
      BY <1>1, <2>4 DEF Deactivate, Goes, At, Switches
    <3>2. AdmittedBy(req[c].old, req[c].version)
      BY <1>5, <3>1 DEF Admitted
    <3>3. QED
      BY <1>4, <3>1, <3>2
  <2>5. QED
    BY <2>1, <2>2, <2>3, <2>4
<1>6. ASSUME NEW d \in Clients, d # c, Switches(d)', req'[d].via = "activate"
      PROVE  AdmittedBy(req[d].old, req[d].version)'
  <2>1. req'[d] = req[d] /\ Switches(d) /\ req[d].via = "activate"
    BY <1>2, <1>6 DEF Switches
  <2>2. AdmittedBy(req[d].old, req[d].version)
    BY <2>1 DEF Admitted
  <2>3. QED
    BY <1>4, <2>1, <2>2
<1>7. QED
  BY <1>5, <1>6 DEF Admitted

LEMMA AdmittedInvariant == Spec => []Admitted
<1>1. Init => Admitted
  <2> SUFFICES ASSUME Init, NEW c \in Clients
               PROVE  ~Switches(c)
    BY DEF Admitted
  <2>1. req[c] = Idle
    BY DEF Init
  <2>2. QED
    BY <2>1 DEF Idle, Switches
<1>2. TypeOK /\ RunsInv /\ Admitted /\ [Next]_vars => Admitted'
  <2>1. ASSUME TypeOK, RunsInv, Admitted, NEW c \in Clients, Step(c)
        PROVE  Admitted'
    BY <2>1, AdmittedStep
  <2>2. ASSUME Admitted, UNCHANGED vars
        PROVE  Admitted'
    BY <2>2 DEF Admitted, AdmittedBy, Switches, vars
  <2>3. QED
    BY <2>1, <2>2 DEF Next
<1>3. QED
  BY <1>1, <1>2, TypeCorrect, RunsInvariant, PTL DEF Spec

(* An activation goes by the last run there was when its request began, or  *)
(* a later one.                                                             *)
THEOREM LastRunDecides == Spec => ActivatedByLastRun
<1>1. Admitted =>
        \A c \in Clients :
          (At(c, "updating") /\ req[c].via = "activate" /\ req'[c] = Idle /\ req[c].version \in active')
            => \E r \in CompletedOf(runs, req[c].version) :
                 /\ runs[r].allowed
                 /\ Last(r, CompletedOf(req[c].old, req[c].version))
  BY DEF Admitted, AdmittedBy, Switches, At
<1>2. QED
  BY <1>1, AdmittedInvariant, PTL DEF ActivatedByLastRun

-----------------------------------------------------------------------------
(* What can be active without having passed: version 1, and what lies below *)
(* a version that was active.                                               *)
Targets ==
  /\ \A v \in active : v <= highest
  /\ \A c \in Clients :
       /\ At(c, "rollback") => req[c].version <= highest
       /\ Switches(c) /\ req[c].via = "rollback" => req[c].version < highest

UnpassedInv == UnpassedOnlyAfterRollback /\ Targets

LEMMA AdmittedPassed ==
  ASSUME Admitted, NEW c \in Clients, Switches(c), req[c].via = "activate"
  PROVE  Passed(req[c].version)
BY DEF Admitted, AdmittedBy, CompletedOf, Passed

LEMMA UnpassedStep ==
  ASSUME TypeOK, TargetsExist, RunsInv, Admitted, UnpassedInv, NEW c \in Clients, Step(c)
  PROVE  UnpassedInv'
<1>1. /\ req \in [Clients -> Requests] /\ highest \in Nat /\ versions \in Nat
      /\ \A v \in active : v \in Nat
  BY PromptAssumption DEF PromptAssumption, TypeOK
<1>2. \A d \in Clients : d # c => req'[d] = req[d]
  BY <1>1, OthersWait
<1>3. \A v : Passed(v) => Passed(v)'
  <2>1. Grown(runs, runs')
    BY RunsGrow DEF RunsInv
  <2>2. \A r \in DOMAIN runs : runs[r].allowed => runs'[r] = runs[r]
    BY <2>1 DEF Grown, RunsInv, RunsOwned
  <2>3. QED
    BY <2>1, <2>2 DEF Grown, Passed
<1>4. CASE Commit(c)
  <2>1. /\ Switches(c) /\ req[c].version \in Nat /\ req'[c] = Idle
        /\ req[c].via \in {"activate", "rollback"}
        /\ highest' = IF req[c].version > highest THEN req[c].version ELSE highest
        /\ \A v \in active' : v \in active \/ v = req[c].version
    BY <1>1, <1>4, RequestFields DEF Commit, Goes, At, Switches
  <2>2. highest' \in Nat /\ highest' >= highest /\ highest' >= req[c].version
    BY <1>1, <2>1
  <2>3. UnpassedOnlyAfterRollback'
    <3>1. ASSUME NEW v \in active
          PROVE  v = 1 \/ Passed(v)' \/ v < highest'
      BY <1>1, <1>3, <2>2 DEF UnpassedInv, UnpassedOnlyAfterRollback
    <3>2. ASSUME NEW v, v = req[c].version
          PROVE  Passed(v)' \/ v < highest'
      <4>1. CASE req[c].via = "activate"
        <5>1. Passed(v)
          BY <2>1, <3>2, <4>1, AdmittedPassed
        <5>2. QED
          BY <1>3, <5>1
      <4>2. CASE req[c].via = "rollback"
        BY <1>1, <2>1, <2>2, <3>2, <4>2 DEF UnpassedInv, Targets
      <4>3. QED
        BY <2>1, <4>1, <4>2
    <3>3. QED
      BY <2>1, <3>1, <3>2 DEF UnpassedOnlyAfterRollback
  <2>4. Targets'
    <3>1. \A v \in active' : v <= highest'
      BY <1>1, <2>1, <2>2 DEF UnpassedInv, Targets
    <3>2. ASSUME NEW d \in Clients
          PROVE  /\ At(d, "rollback")' => req'[d].version <= highest'
                 /\ Switches(d)' /\ req'[d].via = "rollback" => req'[d].version < highest'
      <4>1. CASE d = c
        BY <2>1, <4>1 DEF At, Switches, Idle
      <4>2. CASE d # c
        <5>1. /\ req'[d] = req[d] /\ (At(d, "rollback") \/ Switches(d) => req[d].version \in Nat)
          BY <1>1, <1>2, <4>2, RequestFields DEF At, Switches
        <5>2. QED
          BY <1>1, <2>2, <5>1 DEF UnpassedInv, Targets, At, Switches
      <4>3. QED
        BY <4>1, <4>2
    <3>3. QED
      BY <3>1, <3>2 DEF Targets
  <2>5. QED
    BY <2>3, <2>4 DEF UnpassedInv
<1>5. CASE ~Commit(c)
  <2>1. active' = active /\ highest' = highest
    BY <1>5 DEF Step, Creating, Evaluating, Activating, RollingBack, BeginCreate, ReadMax,
       Insert, InsertConflicts, BeginEvaluation, ReadActive,
         Compare, FinishRun, EvaluationFails, BeginActivate, GateOpens, GateBlocks, BeginRollback,
         ReadPrevious, Deactivate, Lost
  <2>2. UnpassedOnlyAfterRollback'
    BY <1>3, <2>1 DEF UnpassedInv, UnpassedOnlyAfterRollback
  <2>3. /\ At(c, "rollback")' => req'[c].version <= highest
        /\ Switches(c)' /\ req'[c].via = "rollback" => req'[c].version < highest
    <3>1. CASE BeginRollback(c)
      BY <1>1, <3>1 DEF BeginRollback, Goes, At, Switches, UnpassedInv, Targets
    <3>2. CASE ReadPrevious(c)
      <4>1. req[c].version \in Nat /\ req[c].version <= highest
        BY <1>1, <3>2, RequestFields DEF ReadPrevious, At, UnpassedInv, Targets
      <4>2. \/ req'[c] = Idle
            \/ req'[c].pc = "chosen" /\ req'[c].version = req[c].version - 1
        BY <1>1, <3>2 DEF ReadPrevious, Goes
      <4>3. QED
        BY <1>1, <4>1, <4>2 DEF Idle, At, Switches
    <3>3. CASE GateOpens(c)
      BY <1>1, <3>3 DEF GateOpens, Goes, At, Switches
    <3>4. CASE Deactivate(c)
      BY <1>1, <3>4 DEF Deactivate, Goes, At, Switches, UnpassedInv, Targets
    <3>5. CASE ~(BeginRollback(c) \/ ReadPrevious(c) \/ GateOpens(c) \/ Deactivate(c))
      <4>1. ~At(c, "rollback")' /\ ~Switches(c)'
        BY <1>1, <1>5, <3>5 DEF Step, Creating, Evaluating, Activating, RollingBack, Goes, Idle,
           At, Switches, BeginCreate, ReadMax, Insert,
             InsertConflicts, BeginEvaluation, ReadActive, Compare, FinishRun, EvaluationFails,
             BeginActivate, GateBlocks, Lost
      <4>2. QED
        BY <4>1
    <3>6. QED
      BY <3>1, <3>2, <3>3, <3>4, <3>5
  <2>4. Targets'
    BY <1>2, <2>1, <2>3 DEF UnpassedInv, Targets, At, Switches
  <2>5. QED
    BY <2>2, <2>4 DEF UnpassedInv
<1>6. QED
  BY <1>4, <1>5

(* No activation puts a version to use that never passed: activate() asks   *)
(* the gate.  A rollback from a higher version can, without asking.         *)
THEOREM UnpassedAreRolledBackTo == Spec => []UnpassedOnlyAfterRollback
<1>1. Init => UnpassedInv
  <2> SUFFICES ASSUME Init
               PROVE  UnpassedInv
    OBVIOUS
  <2>1. active = {1} /\ highest = 1 /\ \A c \in Clients : req[c] = Idle
    BY DEF Init
  <2>2. QED
    BY <2>1 DEF Idle, UnpassedInv, UnpassedOnlyAfterRollback, Targets, At, Switches
<1>2. TypeOK /\ TargetsExist /\ RunsInv /\ Admitted /\ UnpassedInv /\ [Next]_vars => UnpassedInv'
  <2>1. ASSUME TypeOK, TargetsExist, RunsInv, Admitted, UnpassedInv, NEW c \in Clients, Step(c)
        PROVE  UnpassedInv'
    BY <2>1, UnpassedStep
  <2>2. ASSUME UnpassedInv, UNCHANGED vars
        PROVE  UnpassedInv'
    BY <2>2 DEF UnpassedInv, UnpassedOnlyAfterRollback, Targets, At, Switches, Passed, vars
  <2>3. QED
    BY <2>1, <2>2 DEF Next
<1>3. UnpassedInv => UnpassedOnlyAfterRollback
  BY DEF UnpassedInv
<1>4. QED
  BY <1>1, <1>2, <1>3, TypesAndTargets, RunsInvariant, AdmittedInvariant, PTL DEF Spec

-----------------------------------------------------------------------------
(* Without a race the session's view of the last run is the table's.        *)
LEMMA FreshBaseline ==
  ASSUME LoadedRuns, NEW c \in Clients, At(c, "comparing"),
         ~\E r \in CompletedOf(runs, req[c].baseline) :
            r \in DOMAIN req[c].old /\ req[c].old[r].status = "RUNNING"
  PROVE  BaselineMetrics(c, req[c].old) = BaselineMetrics(c, <<>>)
<1> DEFINE done == CompletedOf(runs, req[c].baseline)
<1>1. Grown(req[c].old, runs)
  BY DEF LoadedRuns, At
<1>2. \A r \in done : InSession(req[c].old, r) = runs[r]
  BY <1>1 DEF Grown, InSession
<1>3. \A r \in done : InSession(<<>>, r) = runs[r]
  BY DEF InSession
<1>4. \A r \in done : InSession(req[c].old, r).metrics = InSession(<<>>, r).metrics
  BY <1>2, <1>3
<1>5. QED
  BY <1>4 DEF BaselineMetrics

LEMMA ComparisonStep ==
  ASSUME TypeOK, RunsInv, RegressionSlipsOnlyIfRaced, NEW c \in Clients, Step(c)
  PROVE  RegressionSlipsOnlyIfRaced'
<1>1. req \in [Clients -> Requests]
  BY DEF TypeOK
<1>2. \A d \in Clients : d # c => req'[d] = req[d]
  BY <1>1, OthersWait
<1>3. ASSUME At(c, "finishing")', req'[c].allowed, ~req'[c].raced
      PROVE  \A m \in req'[c].truth : req'[c].score + MaximumDrop >= m
  <2>1. Compare(c)
    BY <1>1, <1>3 DEF At, Step, Creating, Evaluating, Activating, RollingBack, Goes, Idle,
       BeginCreate, ReadMax, Insert, InsertConflicts,
         BeginEvaluation, ReadActive, FinishRun, EvaluationFails, BeginActivate, GateOpens, GateBlocks,
         BeginRollback, ReadPrevious, Deactivate, Commit, Lost
  <2>2. /\ req'[c].score = req[c].score /\ req'[c].truth = BaselineMetrics(c, <<>>)
        /\ ~Regressed(req[c].score, BaselineMetrics(c, req[c].old))
        /\ ~\E r \in CompletedOf(runs, req[c].baseline) :
              r \in DOMAIN req[c].old /\ req[c].old[r].status = "RUNNING"
    BY <1>1, <1>3, <2>1 DEF Compare, Goes
  <2>3. ~Regressed(req'[c].score, req'[c].truth)
    BY <2>1, <2>2, FreshBaseline DEF Compare, RunsInv
  <2>4. req[c].score \in Nat /\ req'[c].truth \subseteq Nat /\ MaximumDrop \in Nat
    <3>1. req[c].score \in Scores
      BY <1>1, <2>1, RequestFields DEF Compare, At
    <3>2. <<>> \in Seq(Run)
      OBVIOUS
    <3>3. BaselineMetrics(c, <<>>) \in SUBSET Scores
      BY <3>2, MetricsTyped DEF TypeOK
    <3>4. QED
      <4>1. Scores \subseteq Nat /\ MaximumDrop \in Nat
        BY PromptAssumption DEF PromptAssumption
      <4>2. QED
        BY <2>2, <3>1, <3>3, <4>1
  <2>5. ASSUME NEW m \in req'[c].truth
        PROVE  req'[c].score + MaximumDrop >= m
    <3>1. ~(req'[c].score + MaximumDrop < m)
      BY <2>3 DEF Regressed
    <3>2. m \in Nat /\ req'[c].score \in Nat
      BY <2>2, <2>4
    <3>3. QED
      BY <2>4, <3>1, <3>2
  <2>6. QED
    BY <2>5
<1>4. QED
  BY <1>2, <1>3 DEF RegressionSlipsOnlyIfRaced, At

(* A regression against the active version goes unnoticed in one case only, *)
(* and never otherwise.                                                     *)
THEOREM RegressionsNoticed == Spec => []RegressionSlipsOnlyIfRaced
<1>1. Init => RegressionSlipsOnlyIfRaced
  <2> SUFFICES ASSUME Init, NEW c \in Clients
               PROVE  ~At(c, "finishing")
    BY DEF RegressionSlipsOnlyIfRaced
  <2>1. req[c] = Idle
    BY DEF Init
  <2>2. QED
    BY <2>1 DEF Idle, At
<1>2. TypeOK /\ RunsInv /\ RegressionSlipsOnlyIfRaced /\ [Next]_vars => RegressionSlipsOnlyIfRaced'
  <2>1. ASSUME TypeOK, RunsInv, RegressionSlipsOnlyIfRaced, NEW c \in Clients, Step(c)
        PROVE  RegressionSlipsOnlyIfRaced'
    BY <2>1, ComparisonStep
  <2>2. ASSUME RegressionSlipsOnlyIfRaced, UNCHANGED vars
        PROVE  RegressionSlipsOnlyIfRaced'
    BY <2>2 DEF RegressionSlipsOnlyIfRaced, At, vars
  <2>3. QED
    BY <2>1, <2>2 DEF Next
<1>3. QED
  BY <1>1, <1>2, TypeCorrect, RunsInvariant, PTL DEF Spec

-----------------------------------------------------------------------------
(* The evaluation of a version.  What a completed run is released on was    *)
(* gathered case by case: EvaluationInv follows it, and the comparison with *)
(* the baseline at the end is arithmetic.                                   *)

Unfinished == {"executing", "retrieving", "scoring", "failed"}
Begun ==
  [pc : Unfinished, cases : DataSets, at : Nat, judge : BOOLEAN, out : Output,
   passed : SUBSET Nat, sum : [Metrics -> Nat], n : [Metrics -> Nat],
   outages : SUBSET Nat, wrong : SUBSET Nat, judgeless : SUBSET Nat]

(* A run that was begun and is not completed has the fields of Begun.       *)
LEMMA RunFields ==
  ASSUME run \in Runs, run.pc \in Unfinished
  PROVE  run \in Begun
BY DEF Runs, NoRun, Begun, Unfinished

LEMMA RunInRuns ==
  ASSUME run' \in Begun
  PROVE  (run \in Runs)'
BY DEF Runs, Begun, Unfinished

(* What an output of a case changes, and what it leaves alone.              *)
LEMMA ScoringRun ==
  ASSUME run \in Runs, run.pc \in {"executing", "retrieving"},
         NEW out \in Output, NEW outage, Scoring(out, outage)
  PROVE  /\ (run \in Runs)'
         /\ run'.pc = "scoring" /\ run'.out = out
         /\ run'.outages = IF outage /\ TheCase.cites THEN run.outages \cup {run.at} ELSE run.outages
         /\ run'.cases = run.cases /\ run'.at = run.at /\ run'.judge = run.judge
         /\ run'.passed = run.passed /\ run'.wrong = run.wrong
         /\ run'.judgeless = run.judgeless /\ run'.sum = run.sum /\ run'.n = run.n
<1>1. run \in Begun
  BY RunFields DEF Begun, Unfinished
<1>2. PICK o \in SUBSET Nat :
        o = IF outage /\ TheCase.cites THEN run.outages \cup {run.at} ELSE run.outages
  BY <1>1 DEF Begun
<1>3. out \in Output
  OBVIOUS
<1>4. run' = [run EXCEPT !.pc = "scoring", !.out = out, !.outages = o]
  BY <1>1, <1>2, Zenon DEF Scoring
<1>5. run' \in Begun
  BY <1>1, <1>3, <1>4 DEF Begun, Unfinished
<1>6. (run \in Runs)'
  BY <1>5, RunInRuns
<1> QED
  BY <1>1, <1>2, <1>4, <1>6

(* What the proofs use of EvaluationAssumption.                             *)
LEMMA Setting ==
  /\ DataSets \subseteq Seq(Case)
  /\ JudgeScores \subseteq 0..100
  /\ Skipped \notin Nat /\ Unavailable \notin Nat /\ Skipped # Unavailable
  /\ Minimum \in Nat /\ AllowedDrop \in Nat /\ Past \subseteq Nat
<1>1. 0..100 \subseteq Nat
  OBVIOUS
<1> QED
  BY <1>1, EvaluationAssumption, Zenon

(* The cases that came before the current one.                              *)
Before == 1..(run.at - 1)
Citing == {i \in DOMAIN run.cases : ~run.cases[i].safety /\ run.cases[i].cites}
Judged == {i \in DOMAIN run.cases : ~run.cases[i].safety /\ run.cases[i].judged}

(* What the verdict is made from is what the cases before the current one   *)
(* did: no safety case passed that went wrong or expects nothing, each      *)
(* metric was taken of every case that has it, and what was lost to an      *)
(* outage, or to a judge that was not there, has added nothing.             *)
SafetyTold ==
  /\ run.passed \subseteq Before /\ run.wrong \subseteq Before
  /\ run.passed \cap run.wrong = {}
  /\ \A i \in run.passed : Expects(run.cases[i])
OutagesTold ==
  /\ run.outages \subseteq 1..run.at
  /\ run.at \in run.outages => run.pc = "scoring" /\ run.out.cited = FALSE
  /\ run.n["citation"] = Cardinality(Citing \cap Before)
  /\ run.sum["citation"] <= 100 * Cardinality((Citing \ run.outages) \cap Before)
JudgementsTold ==
  /\ run.judgeless \subseteq Before
  /\ run.judge => /\ run.n["judge"] = Cardinality(Judged \cap Before)
                  /\ run.sum["judge"] <= 100 * Cardinality((Judged \ run.judgeless) \cap Before)

(* The current case is one until all have been scored.                      *)
Placed == run.at # 0 /\ (run.pc \in {"retrieving", "scoring"} => HasCase)

Going == run.pc \in {"executing", "retrieving", "scoring"}

(* A completed run keeps what its properties say; one that is under way is  *)
(* on the way to it.                                                        *)
EvaluationInv ==
  /\ run \in Runs
  /\ Going => Placed /\ SafetyTold /\ OutagesTold /\ JudgementsTold
  /\ SafetyHeld /\ OutageCostsRelease /\ JudgeWasThere

(* A case more among the first k - 1, if it is in S.                        *)
LEMMA OneMore ==
  ASSUME NEW S, NEW k \in Nat \ {0}
  PROVE  /\ Cardinality(S \cap 1..(k - 1)) \in Nat
         /\ k \in S => Cardinality(S \cap 1..k) = Cardinality(S \cap 1..(k - 1)) + 1
         /\ k \notin S => Cardinality(S \cap 1..k) = Cardinality(S \cap 1..(k - 1))
<1> DEFINE T == S \cap 1..(k - 1)
<1>1. IsFiniteSet(T)
  <2>1. IsFiniteSet(1..(k - 1))
    BY FS_Interval
  <2> QED
    BY <2>1, FS_Intersection
<1>2. Cardinality(T) \in Nat
  BY <1>1, FS_CardinalityType
<1>3. k \notin T
  OBVIOUS
<1>4. Cardinality(T \cup {k}) = Cardinality(T) + 1
  BY <1>1, <1>3, FS_AddElement
<1>5. k \in S => S \cap 1..k = T \cup {k}
  OBVIOUS
<1>6. k \notin S => S \cap 1..k = T
  OBVIOUS
<1> QED
  BY <1>2, <1>4, <1>5, <1>6

(* An output tells nothing yet, but an outage has no citation.              *)
LEMMA ScoringKeeps ==
  ASSUME EvaluationInv, run.pc \in {"executing", "retrieving"},
         NEW out \in Output, NEW outage,
         Scoring(out, outage), outage => ~out.cited, HasCase
  PROVE  EvaluationInv'
<1>1. /\ (run \in Runs)'
      /\ run'.pc = "scoring" /\ run'.out = out
      /\ run'.outages = IF outage /\ TheCase.cites THEN run.outages \cup {run.at} ELSE run.outages
      /\ run'.cases = run.cases /\ run'.at = run.at /\ run'.judge = run.judge
      /\ run'.passed = run.passed /\ run'.wrong = run.wrong
      /\ run'.judgeless = run.judgeless /\ run'.sum = run.sum /\ run'.n = run.n
  BY ScoringRun DEF EvaluationInv
<1>2. run \in Begun
  BY RunFields DEF EvaluationInv, Begun, Unfinished
<1>3. run.at \in Nat \ {0} /\ Placed /\ SafetyTold /\ OutagesTold /\ JudgementsTold
  BY <1>2 DEF EvaluationInv, Going, Begun, Placed
<1>4. SafetyTold'
  BY <1>1, <1>3 DEF SafetyTold, Before, Expects
<1>5. JudgementsTold'
  <2>1. Before' = Before /\ Judged' = Judged
    BY <1>1 DEF Before, Judged
  <2> QED
    BY <1>1, <1>3, <2>1 DEF JudgementsTold
<1>6. OutagesTold'
  <2>1. Before' = Before /\ Citing' = Citing
    BY <1>1 DEF Before, Citing
  <2>2. (Citing \ run'.outages) \cap Before = (Citing \ run.outages) \cap Before
    BY <1>1, <1>3 DEF Before
  <2>3. run.at \notin run.outages
    BY <1>3 DEF OutagesTold
  <2>4. run.at \in run'.outages => run'.out.cited = FALSE
    BY <1>1, <2>3 DEF Output
  <2>5. run'.outages \subseteq 1..run.at
    BY <1>1, <1>3 DEF OutagesTold
  <2> QED
    BY <1>1, <1>3, <2>1, <2>2, <2>4, <2>5 DEF OutagesTold
<1>7. (SafetyHeld /\ OutageCostsRelease /\ JudgeWasThere)'
  BY <1>1 DEF SafetyHeld, OutageCostsRelease, JudgeWasThere, Released
<1> QED
  BY <1>1, <1>3, <1>4, <1>5, <1>6, <1>7 DEF EvaluationInv, Placed, HasCase

(* What the score of any case changes.                                      *)
LEMMA ScoredRun ==
  ASSUME run \in Runs, run.pc = "scoring", NEW scored,
         scored = [run EXCEPT !.pc = "executing", !.at = @ + 1, !.out = NoOutput]
  PROVE  /\ scored \in Begun
         /\ scored.pc = "executing" /\ scored.at = run.at + 1
         /\ scored.wrong = run.wrong
         /\ scored.cases = run.cases /\ scored.judge = run.judge /\ scored.passed = run.passed
         /\ scored.outages = run.outages /\ scored.judgeless = run.judgeless
         /\ scored.sum = run.sum /\ scored.n = run.n
<1>1. run \in Begun
  BY RunFields DEF Unfinished
<1>2. NoOutput \in Output
  BY DEF Output, NoOutput, Providers
<1>3. scored \in Begun
  <2>1. run.at + 1 \in Nat /\ "executing" \in Unfinished
    BY <1>1 DEF Begun, Unfinished
  <2>2. PICK k \in Nat : k = run.at + 1
    BY <2>1
  <2>3. scored = [run EXCEPT !.pc = "executing", !.at = k, !.out = NoOutput]
    BY <1>1, <2>2, Zenon
  <2> QED
    BY <1>1, <1>2, <2>1, <2>3 DEF Begun
<1> QED
  BY <1>1, <1>3 DEF Begun

(* A safety case passes only as expected, and no average takes note of it.  *)
LEMMA SafetyScored ==
  ASSUME EvaluationInv, ScoreSafety
  PROVE  EvaluationInv'
<1>1. run \in Runs /\ run.pc = "scoring" /\ TheCase.safety
  BY DEF EvaluationInv, ScoreSafety
<1>2. run \in Begun
  BY <1>1, RunFields DEF Unfinished
<1>3. run.at \in Nat \ {0} /\ Placed /\ SafetyTold /\ OutagesTold /\ JudgementsTold
  BY <1>1, <1>2 DEF EvaluationInv, Going, Begun, Placed
<1>4. PICK s : s = Scored
  OBVIOUS
<1>5. /\ s \in Begun
      /\ s.pc = "executing" /\ s.at = run.at + 1
      /\ s.wrong = run.wrong
      /\ s.cases = run.cases /\ s.judge = run.judge /\ s.passed = run.passed
      /\ s.outages = run.outages /\ s.judgeless = run.judgeless
      /\ s.sum = run.sum /\ s.n = run.n
  <2>1. s = [run EXCEPT !.pc = "executing", !.at = @ + 1, !.out = NoOutput]
    BY <1>4 DEF Scored
  <2> QED
    BY <1>1, <2>1, ScoredRun
<1>6. PICK p \in SUBSET Nat :
        p = IF SafetyCasePasses THEN run.passed \cup {run.at} ELSE run.passed
  BY <1>2 DEF Begun
<1>7. PICK w \in SUBSET Nat :
        w = IF Unexpected THEN run.wrong \cup {run.at} ELSE run.wrong
  BY <1>2 DEF Begun
<1>8. run' = [s EXCEPT !.passed = p, !.wrong = w]
  <2>1. run' = [s EXCEPT !.passed = IF SafetyCasePasses THEN @ \cup {run.at} ELSE @,
                         !.wrong = IF Unexpected THEN @ \cup {run.at} ELSE @]
    BY <1>4 DEF ScoreSafety
  <2> QED
    BY <1>5, <1>6, <1>7, <2>1, Zenon
<1>9. /\ run' \in Begun /\ run'.pc = "executing" /\ run'.at = run.at + 1 /\ run'.passed = p
      /\ run'.wrong = w /\ run'.cases = run.cases /\ run'.judge = run.judge
      /\ run'.outages = run.outages /\ run'.judgeless = run.judgeless
      /\ run'.sum = run.sum /\ run'.n = run.n
  BY <1>5, <1>8 DEF Begun
<1>10. SafetyTold'
  <2>1. SafetyCasePasses => ~Unexpected
    BY <1>2 DEF SafetyCasePasses, Unexpected, Begun, Output
  <2>2. run'.passed \cap run'.wrong = {}
    BY <1>3, <1>6, <1>7, <1>9, <2>1 DEF SafetyTold, Before
  <2>3. SafetyCasePasses => Expects(run.cases[run.at])
    BY DEF SafetyCasePasses, TheCase
  <2>4. \A i \in p : Expects(run.cases[i])
    BY <1>3, <1>6, <2>3, Zenon DEF SafetyTold
  <2>5. (\A i \in run.passed : Expects(run.cases[i]))'
    BY <1>9, <2>4, Zenon DEF Expects
  <2>6. run'.passed \subseteq Before' /\ run'.wrong \subseteq Before'
    BY <1>3, <1>6, <1>7, <1>9 DEF SafetyTold, Before
  <2> QED
    BY <2>2, <2>5, <2>6 DEF SafetyTold
<1>11. Before' = 1..run.at /\ Citing' = Citing /\ Judged' = Judged
  BY <1>3, <1>9 DEF Before, Citing, Judged
<1>12. run.at \notin Citing /\ run.at \notin Judged
  BY <1>1 DEF Citing, Judged, TheCase
<1>13. OutagesTold'
  <2>1. run'.outages \subseteq 1..run'.at /\ run'.at \notin run'.outages
    BY <1>3, <1>9 DEF OutagesTold
  <2>2. Cardinality(Citing' \cap Before') = Cardinality(Citing \cap Before)
    BY <1>3, <1>11, <1>12, OneMore DEF Before
  <2>3. Cardinality((Citing' \ run'.outages) \cap Before')
          = Cardinality((Citing \ run.outages) \cap Before)
    <3>1. Citing' \ run'.outages = Citing \ run.outages /\ run.at \notin Citing \ run.outages
      BY <1>9, <1>11, <1>12
    <3> QED
      BY <1>3, <1>11, <3>1, OneMore DEF Before
  <2> QED
    BY <1>3, <1>9, <2>1, <2>2, <2>3 DEF OutagesTold
<1>14. JudgementsTold'
  <2>1. run'.judgeless \subseteq Before'
    BY <1>3, <1>9 DEF JudgementsTold, Before
  <2>2. Cardinality(Judged' \cap Before') = Cardinality(Judged \cap Before)
    BY <1>3, <1>11, <1>12, OneMore DEF Before
  <2>3. Cardinality((Judged' \ run'.judgeless) \cap Before')
          = Cardinality((Judged \ run.judgeless) \cap Before)
    <3>1. Judged' \ run'.judgeless = Judged \ run.judgeless /\ run.at \notin Judged \ run.judgeless
      BY <1>9, <1>11, <1>12
    <3> QED
      BY <1>3, <1>11, <3>1, OneMore DEF Before
  <2> QED
    BY <1>3, <1>9, <2>1, <2>2, <2>3 DEF JudgementsTold
<1>15. (run \in Runs)'
  BY <1>9, RunInRuns
<1>16. (SafetyHeld /\ OutageCostsRelease /\ JudgeWasThere)'
  BY <1>9 DEF SafetyHeld, OutageCostsRelease, JudgeWasThere, Released
<1> QED
  BY <1>3, <1>9, <1>10, <1>13, <1>14, <1>15, <1>16 DEF EvaluationInv, Placed

(* A quality case adds at most 100 to each of its metrics, nothing to the   *)
(* citations if it met an outage, nothing to the judge if that was not      *)
(* there.                                                                   *)
LEMMA QualityScored ==
  ASSUME EvaluationInv, ScoreQuality
  PROVE  EvaluationInv'
<1>1. run \in Runs /\ run.pc = "scoring" /\ ~TheCase.safety
  BY DEF EvaluationInv, ScoreQuality
<1>2. run \in Begun
  BY <1>1, RunFields DEF Unfinished
<1>3. run.at \in Nat \ {0} /\ Placed /\ SafetyTold /\ OutagesTold /\ JudgementsTold
  BY <1>1, <1>2 DEF EvaluationInv, Going, Begun, Placed
<1>4. /\ Scored \in Begun
      /\ Scored.pc = "executing" /\ Scored.at = run.at + 1
      /\ Scored.wrong = run.wrong
      /\ Scored.cases = run.cases /\ Scored.judge = run.judge
      /\ Scored.passed = run.passed
      /\ Scored.outages = run.outages /\ Scored.judgeless = run.judgeless
      /\ Scored.sum = run.sum /\ Scored.n = run.n
  <2>1. Scored = [run EXCEPT !.pc = "executing", !.at = @ + 1, !.out = NoOutput]
    BY DEF Scored
  <2> QED
    BY <1>1, <2>1, ScoredRun
<1>5. PICK j \in JudgementsIn(TheCase) :
        run' = [Scored EXCEPT
                  !.sum = [m \in Metrics |->
                             IF Measured(m, j) THEN @[m] + Value(m, j) ELSE @[m]],
                  !.n = [m \in Metrics |-> IF Measured(m, j) THEN @[m] + 1 ELSE @[m]],
                  !.judgeless = IF j = Unavailable THEN @ \cup {run.at} ELSE @]
  BY Zenon DEF ScoreQuality
<1>6. PICK sum :
        sum = [m \in Metrics |->
                 IF Measured(m, j) THEN Scored.sum[m] + Value(m, j)
                 ELSE Scored.sum[m]]
  OBVIOUS
<1>7. PICK n :
        n = [m \in Metrics |->
               IF Measured(m, j) THEN Scored.n[m] + 1 ELSE Scored.n[m]]
  OBVIOUS
<1>8. PICK l :
        l = IF j = Unavailable THEN Scored.judgeless \cup {run.at}
            ELSE Scored.judgeless
  OBVIOUS
<1>9. /\ sum = [m \in Metrics |->
                  IF Measured(m, j) THEN run.sum[m] + Value(m, j) ELSE run.sum[m]]
      /\ n = [m \in Metrics |-> IF Measured(m, j) THEN run.n[m] + 1 ELSE run.n[m]]
      /\ l = IF j = Unavailable THEN run.judgeless \cup {run.at} ELSE run.judgeless
  BY <1>4, <1>6, <1>7, <1>8, Zenon
<1>10. /\ j # Skipped => j = Unavailable \/ j \in 0..100
       /\ run.judge => (j # Skipped <=> TheCase.judged)
  <2>1. JudgeScores \subseteq 0..100 /\ Skipped \notin 0..100 /\ Unavailable # Skipped
    <3>1. 0..100 \subseteq Nat
      OBVIOUS
    <3> QED
      BY <3>1, Setting, Zenon
  <2>2. j \in IF run.judge THEN (IF TheCase.judged THEN {Unavailable} \cup JudgeScores
                                ELSE {Skipped})
             ELSE {Skipped}
    BY <1>5, Zenon DEF JudgementsIn, JudgementsOf
  <2> QED
    BY <2>1, <2>2
<1>11. ASSUME NEW m \in Metrics, Measured(m, j)
       PROVE  Value(m, j) \in 0..100
  <2>1. CASE m = "judge"
    BY <1>10, <1>11, <2>1 DEF Measured, Value
  <2>2. CASE m # "judge"
    BY <2>2 DEF Value, Percent, Metrics
  <2> QED
    BY <2>1, <2>2
<1>12. sum \in [Metrics -> Nat]
  <2>1. ASSUME NEW m \in Metrics
        PROVE  (IF Measured(m, j) THEN run.sum[m] + Value(m, j) ELSE run.sum[m]) \in Nat
    <3>1. run.sum[m] \in Nat
      BY <1>2 DEF Begun
    <3>2. ASSUME Measured(m, j)
          PROVE  Value(m, j) \in Nat
      <4>1. Value(m, j) \in 0..100
        BY <1>11, <3>2
      <4> QED
        BY <4>1
    <3> QED
      BY <3>1, <3>2
  <2> QED
    BY <1>9, <2>1
<1>13. n \in [Metrics -> Nat] /\ l \in SUBSET Nat
  BY <1>2, <1>9 DEF Begun
<1>14. run' = [Scored EXCEPT !.sum = sum, !.n = n, !.judgeless = l]
  BY <1>5, <1>6, <1>7, <1>8, Zenon
<1>15. /\ run' \in Begun /\ run'.pc = "executing" /\ run'.at = run.at + 1
       /\ run'.passed = run.passed /\ run'.wrong = Scored.wrong
       /\ run'.cases = run.cases /\ run'.judge = run.judge /\ run'.outages = run.outages
       /\ run'.judgeless = l /\ run'.sum = sum /\ run'.n = n
  BY <1>4, <1>12, <1>13, <1>14 DEF Begun
<1>16. SafetyTold'
  BY <1>3, <1>4, <1>15 DEF SafetyTold, Before, Expects
<1>17. Before' = 1..run.at /\ Citing' = Citing /\ Judged' = Judged
  BY <1>3, <1>15 DEF Before, Citing, Judged
<1>18. /\ run.at \in Citing <=> TheCase.cites
       /\ run.at \in Judged <=> TheCase.judged
  BY <1>1, <1>3 DEF Citing, Judged, TheCase, Placed, HasCase
<1>19. OutagesTold'
  <2>1. run'.outages \subseteq 1..run'.at /\ run'.at \notin run'.outages
    BY <1>3, <1>15 DEF OutagesTold
  <2>2. /\ Measured("citation", j) <=> run.at \in Citing
        /\ Value("citation", j) = IF run.out.cited THEN 100 ELSE 0
    BY <1>18 DEF Measured, Value, Percent
  <2>3. /\ run'.n["citation"] = IF run.at \in Citing THEN run.n["citation"] + 1
                                ELSE run.n["citation"]
        /\ run'.sum["citation"] = IF run.at \in Citing
                                  THEN run.sum["citation"] + (IF run.out.cited THEN 100 ELSE 0)
                                  ELSE run.sum["citation"]
    BY <1>9, <1>15, <2>2 DEF Metrics
  <2>4. run'.n["citation"] = Cardinality(Citing' \cap Before')
    <3>1. /\ run.at \in Citing =>
               Cardinality(Citing \cap 1..run.at) = Cardinality(Citing \cap Before) + 1
          /\ run.at \notin Citing =>
               Cardinality(Citing \cap 1..run.at) = Cardinality(Citing \cap Before)
      BY <1>3, OneMore DEF Before
    <3>2. run.n["citation"] = Cardinality(Citing \cap Before)
      BY <1>3 DEF OutagesTold
    <3> QED
      BY <1>17, <2>3, <3>1, <3>2, Zenon
  <2>5. run'.sum["citation"] <= 100 * Cardinality((Citing' \ run'.outages) \cap Before')
    <3> DEFINE S == Citing \ run.outages
    <3>1. Citing' \ run'.outages = S
      BY <1>15, <1>17
    <3>2. /\ Cardinality(S \cap Before) \in Nat
          /\ run.at \in S => Cardinality(S \cap Before') = Cardinality(S \cap Before) + 1
          /\ run.at \notin S => Cardinality(S \cap Before') = Cardinality(S \cap Before)
      BY <1>3, <1>17, OneMore DEF Before
    <3>3. run.sum["citation"] \in Nat /\ run.sum["citation"] <= 100 * Cardinality(S \cap Before)
      BY <1>2, <1>3 DEF OutagesTold, Begun, Metrics
    <3>4. run.at \in run.outages => run.out.cited = FALSE
      BY <1>3 DEF OutagesTold
    <3> HIDE DEF S
    <3>5. run.at \in S <=> run.at \in Citing /\ run.at \notin run.outages
      BY DEF S
    <3>6. CASE run.at \in S
      <4>1. run'.sum["citation"] <= run.sum["citation"] + 100
        BY <2>3, <3>3, <3>5, <3>6
      <4>2. PICK c \in Nat : c = Cardinality(S \cap Before)
        BY <3>2
      <4>3. PICK a \in Nat : a = run.sum["citation"]
        BY <3>3
      <4>4. PICK b \in Nat : b = run'.sum["citation"]
        BY <1>12, <1>15 DEF Metrics
      <4>5. b <= 100 * (c + 1)
        BY <3>3, <4>1, <4>2, <4>3, <4>4
      <4>6. Cardinality(S \cap Before') = c + 1
        BY <3>2, <3>6, <4>2
      <4> QED
        BY <3>1, <4>4, <4>5, <4>6, Zenon
    <3>7. CASE run.at \notin S
      <4>1. run'.sum["citation"] = run.sum["citation"]
        BY <2>3, <3>3, <3>4, <3>5, <3>7
      <4> QED
        BY <3>1, <3>2, <3>3, <3>7, <4>1
    <3> QED
      BY <3>6, <3>7
  <2> QED
    BY <2>1, <2>4, <2>5 DEF OutagesTold
<1>20. JudgementsTold'
  <2>1. run'.judgeless \subseteq Before'
    BY <1>3, <1>9, <1>15, <1>17 DEF JudgementsTold, Before
  <2> SUFFICES ASSUME run.judge
               PROVE  /\ run'.n["judge"] = Cardinality(Judged' \cap Before')
                      /\ run'.sum["judge"]
                           <= 100 * Cardinality((Judged' \ run'.judgeless) \cap Before')
    BY <1>15, <2>1 DEF JudgementsTold
  <2>2. /\ Measured("judge", j) <=> run.at \in Judged
        /\ Value("judge", j) = IF j = Unavailable THEN 0 ELSE j
    BY <1>10, <1>18 DEF Measured, Value
  <2>3. /\ run'.n["judge"] = IF run.at \in Judged THEN run.n["judge"] + 1 ELSE run.n["judge"]
        /\ run'.sum["judge"] = IF run.at \in Judged
                               THEN run.sum["judge"] + (IF j = Unavailable THEN 0 ELSE j)
                               ELSE run.sum["judge"]
    BY <1>9, <1>15, <2>2 DEF Metrics
  <2>4. run'.n["judge"] = Cardinality(Judged' \cap Before')
    <3>1. /\ run.at \in Judged =>
               Cardinality(Judged \cap 1..run.at) = Cardinality(Judged \cap Before) + 1
          /\ run.at \notin Judged =>
               Cardinality(Judged \cap 1..run.at) = Cardinality(Judged \cap Before)
      BY <1>3, OneMore DEF Before
    <3>2. run.n["judge"] = Cardinality(Judged \cap Before)
      BY <1>3 DEF JudgementsTold
    <3> QED
      BY <1>17, <2>3, <3>1, <3>2, Zenon
  <2>5. run'.sum["judge"] <= 100 * Cardinality((Judged' \ run'.judgeless) \cap Before')
    <3> DEFINE S == Judged \ run.judgeless
               T == Judged \ l
    <3>1. Judged' \ run'.judgeless = T
      BY <1>15, <1>17
    <3>2. /\ Cardinality(S \cap Before) \in Nat
          /\ run.at \in S => Cardinality(S \cap Before') = Cardinality(S \cap Before) + 1
          /\ run.at \notin S => Cardinality(S \cap Before') = Cardinality(S \cap Before)
      BY <1>3, <1>17, OneMore DEF Before
    <3>3. run.sum["judge"] \in Nat /\ run.sum["judge"] <= 100 * Cardinality(S \cap Before)
      BY <1>2, <1>3 DEF JudgementsTold, Begun, Metrics
    <3>4. run.at \notin run.judgeless
      BY <1>3 DEF JudgementsTold, Before
    <3>5. CASE j = Unavailable
      <4>1. T \cap Before' = S \cap Before
        <5>1. T = S \ {run.at}
          BY <1>9, <3>5
        <5>2. Before' = Before \cup {run.at} /\ run.at \notin Before
          <6>1. ASSUME NEW k \in Nat \ {0}
                PROVE  1..k = (1..(k - 1)) \cup {k} /\ k \notin 1..(k - 1)
            OBVIOUS
          <6> QED
            BY <1>3, <1>17, <6>1 DEF Before
        <5> QED
          BY <5>1, <5>2
      <4> HIDE DEF S, T
      <4>2. run'.sum["judge"] = run.sum["judge"]
        BY <2>3, <3>3, <3>5
      <4> QED
        BY <3>1, <3>3, <4>1, <4>2, Zenon
    <3>6. CASE j # Unavailable
      <4>1. T = S /\ (run.at \in Judged => run.at \in S) /\ (run.at \in S => run.at \in Judged)
        BY <1>9, <3>4, <3>6
      <4>2. run.at \in Judged => j \in 0..100
        BY <1>10, <1>18, <3>6
      <4> HIDE DEF S, T
      <4>3. PICK c \in Nat : c = Cardinality(S \cap Before)
        BY <3>2
      <4>4. PICK a \in Nat : a = run.sum["judge"] /\ a <= 100 * c
        BY <3>3, <4>3
      <4>5. CASE run.at \in S
        <5>1. PICK i \in Nat : i = j /\ i <= 100
          BY <4>1, <4>2, <4>5
        <5>2. run'.sum["judge"] = a + i
          BY <2>3, <3>6, <4>1, <4>4, <4>5, <5>1
        <5>3. Cardinality(T \cap Before') = c + 1
          BY <3>2, <4>1, <4>3, <4>5
        <5>4. a + i <= 100 * (c + 1)
          BY <4>4, <5>1
        <5> QED
          BY <3>1, <5>2, <5>3, <5>4, Zenon
      <4>6. CASE run.at \notin S
        <5>1. run'.sum["judge"] = a /\ Cardinality(T \cap Before') = c
          BY <2>3, <3>2, <4>1, <4>3, <4>4, <4>6
        <5> QED
          BY <3>1, <4>4, <5>1
      <4> QED
        BY <4>5, <4>6
    <3> QED
      BY <3>5, <3>6
  <2> QED
    BY <2>4, <2>5
<1>21. (run \in Runs)'
  BY <1>15, RunInRuns
<1>22. (SafetyHeld /\ OutageCostsRelease /\ JudgeWasThere)'
  BY <1>15 DEF SafetyHeld, OutageCostsRelease, JudgeWasThere, Released
<1> QED
  BY <1>3, <1>15, <1>16, <1>19, <1>20, <1>21, <1>22 DEF EvaluationInv, Placed

(* The share that was lost is within what the average may fall.             *)
LEMMA ShareOfDrop ==
  ASSUME NEW n \in Nat, NEW sum \in Nat, NEW most \in Nat, NEW base \in Nat, NEW drop \in Nat,
         sum <= 100 * most, ~(IF n = 0 THEN drop < base ELSE sum + drop * n < base * n)
  PROVE  100 * most >= (base - drop) * n
<1>1. CASE n = 0
  BY <1>1
<1>2. CASE n # 0
  <2>1. (base - drop) * n = base * n - drop * n
    OBVIOUS
  <2>2. base * n \in Int /\ drop * n \in Int
    OBVIOUS
  <2> QED
    BY <1>2, <2>1, <2>2
<1> QED
  BY <1>1, <1>2

(* The verdict is over all cases: the current one is behind the last.       *)
LEMMA Completed ==
  ASSUME EvaluationInv, Complete
  PROVE  EvaluationInv'
<1>1. run \in Runs /\ run.pc = "executing" /\ ~HasCase
  BY DEF EvaluationInv, Complete
<1>2. run \in Begun
  BY <1>1, RunFields DEF Unfinished
<1>3. run.at \in Nat \ {0} /\ Placed /\ SafetyTold /\ OutagesTold /\ JudgementsTold
  BY <1>1, <1>2 DEF EvaluationInv, Going, Begun, Placed
<1>4. PICK M \in SUBSET Metrics : \E baseline \in [M -> Past] :
        run' = [pc |-> "completed", cases |-> run.cases, at |-> run.at, judge |-> run.judge,
                out |-> run.out, passed |-> run.passed, sum |-> run.sum, n |-> run.n,
                outages |-> run.outages, wrong |-> run.wrong, judgeless |-> run.judgeless,
                baseline |-> baseline,
                allowed |-> SafetyPassed /\ ~FallsBelow(baseline) /\ JudgeGate]
  BY Zenon DEF Complete
<1>5. PICK baseline \in [M -> Past] :
        run' = [pc |-> "completed", cases |-> run.cases, at |-> run.at, judge |-> run.judge,
                out |-> run.out, passed |-> run.passed, sum |-> run.sum, n |-> run.n,
                outages |-> run.outages, wrong |-> run.wrong, judgeless |-> run.judgeless,
                baseline |-> baseline,
                allowed |-> SafetyPassed /\ ~FallsBelow(baseline) /\ JudgeGate]
  BY <1>4, Zenon
<1>6. PICK allowed \in BOOLEAN :
        allowed <=> SafetyPassed /\ ~FallsBelow(baseline) /\ JudgeGate
  BY Zenon
<1>7. run' = [pc |-> "completed", cases |-> run.cases, at |-> run.at, judge |-> run.judge,
              out |-> run.out, passed |-> run.passed, sum |-> run.sum, n |-> run.n,
              outages |-> run.outages, wrong |-> run.wrong, judgeless |-> run.judgeless,
              baseline |-> baseline, allowed |-> allowed]
  BY <1>5, <1>6, Zenon
<1>8. baseline \in UNION {[N -> Past] : N \in SUBSET Metrics}
  BY <1>5, Zenon
<1>9. (run \in Runs)'
  BY <1>2, <1>6, <1>7, <1>8 DEF Runs, Begun
<1>10. DOMAIN run.cases \subseteq Before
  <2>1. run.cases \in Seq(Case)
    BY <1>2, Setting DEF Begun
  <2>2. DOMAIN run.cases = 1..Len(run.cases) /\ Len(run.cases) \in Nat
    BY <2>1
  <2>3. run.at \notin 1..Len(run.cases)
    BY <1>1, <2>2, Zenon DEF HasCase
  <2> QED
    BY <1>3, <2>2, <2>3 DEF Before
<1>11. SafetyHeld'
  <2>1. allowed => /\ SafetyCases(run.cases) # {} /\ run.passed = SafetyCases(run.cases)
    BY <1>6, Zenon DEF SafetyPassed
  <2>2. SafetyCases(run'.cases) = SafetyCases(run.cases) /\ run'.wrong = run.wrong
    BY <1>7
  <2>3. \A i \in run.passed : Expects(run'.cases[i])
    BY <1>3, <1>7 DEF SafetyTold, Expects
  <2>4. Released' => allowed
    BY <1>7 DEF Released
  <2>5. run.passed \cap run.wrong = {}
    BY <1>3 DEF SafetyTold
  <2> QED
    BY <2>1, <2>2, <2>3, <2>4, <2>5 DEF SafetyHeld
<1>12. OutageCostsRelease'
  <2> SUFFICES ASSUME allowed, "citation" \in M
               PROVE  100 * Cardinality(Citing \ run.outages)
                        >= (baseline["citation"] - AllowedDrop) * Cardinality(Citing)
    <3>1. {i \in DOMAIN run'.cases : ~run'.cases[i].safety /\ run'.cases[i].cites} = Citing
      BY <1>7 DEF Citing
    <3>2. run'.baseline = baseline /\ DOMAIN baseline = M /\ run'.outages = run.outages
      BY <1>5, <1>7
    <3>3. Released' => allowed
      BY <1>7 DEF Released
    <3>4. QualityCases(LAMBDA c : c.cites)' = Citing
      BY <3>1 DEF QualityCases
    <3> QED
      BY <3>2, <3>3, <3>4 DEF OutageCostsRelease
  <2>1. Citing \cap Before = Citing /\ (Citing \ run.outages) \cap Before = Citing \ run.outages
    BY <1>10 DEF Citing
  <2>2. PICK c : c = Cardinality(Citing)
    OBVIOUS
  <2>3. PICK most : most = Cardinality(Citing \ run.outages)
    OBVIOUS
  <2>4. most \in Nat /\ run.n["citation"] = c /\ run.sum["citation"] <= 100 * most
    BY <1>3, <2>1, <2>2, <2>3, OneMore DEF Before, OutagesTold
  <2>5. c \in Nat /\ run.sum["citation"] \in Nat
    BY <1>2, <2>4 DEF Begun, Metrics
  <2>6. ~(IF run.n["citation"] = 0 THEN AllowedDrop < baseline["citation"]
          ELSE run.sum["citation"] + AllowedDrop * run.n["citation"]
                 < baseline["citation"] * run.n["citation"])
    BY <1>5, <1>6, Zenon DEF FallsBelow
  <2>7. AllowedDrop \in Nat /\ baseline["citation"] \in Nat
    BY <1>5, Setting
  <2> QED
    BY <2>2, <2>3, <2>4, <2>5, <2>6, <2>7, ShareOfDrop
<1>13. JudgeWasThere'
  <2> SUFFICES ASSUME allowed, run.judge
               PROVE  100 * Cardinality(Judged \ run.judgeless) >= Minimum * Cardinality(Judged)
    <3>1. {i \in DOMAIN run'.cases : ~run'.cases[i].safety /\ run'.cases[i].judged} = Judged
      BY <1>7 DEF Judged
    <3>2. run'.judge = run.judge /\ run'.judgeless = run.judgeless
      BY <1>7
    <3>3. Released' => allowed
      BY <1>7 DEF Released
    <3>4. QualityCases(LAMBDA c : c.judged)' = Judged
      BY <3>1 DEF QualityCases
    <3> QED
      BY <3>2, <3>3, <3>4 DEF JudgeWasThere
  <2>1. Judged \cap Before = Judged /\ (Judged \ run.judgeless) \cap Before = Judged \ run.judgeless
    BY <1>10 DEF Judged
  <2>2. PICK c : c = Cardinality(Judged)
    OBVIOUS
  <2>3. PICK most : most = Cardinality(Judged \ run.judgeless)
    OBVIOUS
  <2>4. most \in Nat /\ run.n["judge"] = c /\ run.sum["judge"] <= 100 * most
    <3>1. /\ run.n["judge"] = Cardinality(Judged \cap Before)
          /\ run.sum["judge"] <= 100 * Cardinality((Judged \ run.judgeless) \cap Before)
      BY <1>3, Zenon DEF JudgementsTold
    <3>2. Cardinality((Judged \ run.judgeless) \cap Before) \in Nat
      BY <1>3, OneMore DEF Before
    <3> QED
      BY <2>1, <2>2, <2>3, <3>1, <3>2, Zenon
  <2>5. c \in Nat /\ run.sum["judge"] \in Nat /\ Minimum \in Nat
    BY <1>2, <2>4, Setting DEF Begun, Metrics
  <2>6. (run.n["judge"] = 0) \/ (run.sum["judge"] >= Minimum * run.n["judge"])
    BY <1>6, Zenon DEF JudgeGate
  <2>7. CASE c = 0
    <3>1. Minimum * c = 0
      BY <2>5, <2>7
    <3> QED
      BY <2>2, <2>3, <2>4, <3>1
  <2>8. CASE c # 0
    <3>1. Minimum * c \in Int
      BY <2>5
    <3> QED
      BY <2>2, <2>3, <2>4, <2>5, <2>6, <2>8, <3>1
  <2> QED
    BY <2>7, <2>8
<1>14. ~Going'
  BY <1>7 DEF Going
<1> QED
  BY <1>9, <1>11, <1>12, <1>13, <1>14 DEF EvaluationInv

LEMMA RunBegins ==
  ASSUME EvaluationInv, BeginRun
  PROVE  EvaluationInv'
<1>1. PICK cases \in DataSets, judge \in BOOLEAN :
        run' = [pc |-> "executing", cases |-> cases, at |-> 1, judge |-> judge,
                out |-> NoOutput, passed |-> {}, sum |-> Nothing, n |-> Nothing,
                outages |-> {}, wrong |-> {}, judgeless |-> {}]
  BY Zenon DEF BeginRun
<1>2. NoOutput \in Output /\ Nothing \in [Metrics -> Nat]
  BY DEF NoOutput, Output, Providers, Nothing
<1>3. run' \in Begun
  BY <1>1, <1>2 DEF Begun, Unfinished
<1>4. Before' = {}
  BY <1>1 DEF Before
<1>5. Cardinality({}) = 0
  BY FS_EmptySet
<1>6. /\ run'.n["citation"] = 0 /\ run'.sum["citation"] = 0
      /\ run'.n["judge"] = 0 /\ run'.sum["judge"] = 0
  BY <1>1 DEF Nothing, Metrics
<1>7. SafetyTold'
  BY <1>1 DEF SafetyTold, Expects
<1>8. OutagesTold'
  <2>1. Citing' \cap Before' = {} /\ (Citing' \ run'.outages) \cap Before' = {}
    BY <1>4
  <2>2. run'.outages = {} /\ run'.at = 1
    BY <1>1
  <2> QED
    BY <1>5, <1>6, <2>1, <2>2 DEF OutagesTold
<1>9. JudgementsTold'
  <2>1. Judged' \cap Before' = {} /\ (Judged' \ run'.judgeless) \cap Before' = {}
    BY <1>4
  <2>2. run'.judgeless = {}
    BY <1>1
  <2> QED
    BY <1>5, <1>6, <2>1, <2>2 DEF JudgementsTold
<1>10. Placed'
  BY <1>1 DEF Placed
<1>11. (SafetyHeld /\ OutageCostsRelease /\ JudgeWasThere)'
  BY <1>1 DEF SafetyHeld, OutageCostsRelease, JudgeWasThere, Released
<1> QED
  BY <1>3, <1>7, <1>8, <1>9, <1>10, <1>11, RunInRuns DEF EvaluationInv

LEMMA QuestionPut ==
  ASSUME EvaluationInv, AskKnowledge
  PROVE  EvaluationInv'
<1>1. /\ run \in Runs /\ run.pc = "executing" /\ HasCase
      /\ run' = [run EXCEPT !.pc = "retrieving"]
  BY DEF EvaluationInv, AskKnowledge
<1>2. run \in Begun
  BY <1>1, RunFields DEF Unfinished
<1>3. Placed /\ SafetyTold /\ OutagesTold /\ JudgementsTold
  BY <1>1, <1>2 DEF EvaluationInv, Going
<1>4. /\ run' \in Begun /\ run'.pc = "retrieving" /\ run'.at = run.at
      /\ run'.passed = run.passed /\ run'.wrong = run.wrong
      /\ run'.cases = run.cases /\ run'.judge = run.judge /\ run'.outages = run.outages
      /\ run'.judgeless = run.judgeless /\ run'.sum = run.sum /\ run'.n = run.n
  BY <1>1, <1>2 DEF Begun, Unfinished
<1>5. Before' = Before /\ Citing' = Citing /\ Judged' = Judged
  BY <1>4 DEF Before, Citing, Judged
<1>6. SafetyTold'
  BY <1>3, <1>4, <1>5 DEF SafetyTold, Expects
<1>7. OutagesTold'
  BY <1>1, <1>3, <1>4, <1>5 DEF OutagesTold
<1>8. JudgementsTold'
  BY <1>3, <1>4, <1>5 DEF JudgementsTold
<1>9. Placed'
  BY <1>1, <1>3, <1>4 DEF Placed, HasCase
<1>10. (SafetyHeld /\ OutageCostsRelease /\ JudgeWasThere)'
  BY <1>4 DEF SafetyHeld, OutageCostsRelease, JudgeWasThere, Released
<1> QED
  BY <1>4, <1>6, <1>7, <1>8, <1>9, <1>10, RunInRuns DEF EvaluationInv

LEMMA RunFailed ==
  ASSUME EvaluationInv, RunFails
  PROVE  EvaluationInv'
<1>1. run \in Begun /\ run' = [run EXCEPT !.pc = "failed"]
  BY RunFields DEF EvaluationInv, RunFails, Unfinished
<1>2. run' \in Begun /\ run'.pc = "failed"
  BY <1>1 DEF Begun, Unfinished
<1> QED
  BY <1>2, RunInRuns
     DEF EvaluationInv, Going, SafetyHeld, OutageCostsRelease, JudgeWasThere,
         Released

LEMMA RunUnchanged ==
  ASSUME EvaluationInv, UNCHANGED run
  PROVE  EvaluationInv'
<1>1. SafetyTold' = SafetyTold /\ OutagesTold' = OutagesTold /\ JudgementsTold' = JudgementsTold
  BY DEF SafetyTold, OutagesTold, JudgementsTold, Before, Expects, Citing, Judged
<1>2. Placed' = Placed /\ Going' = Going
  BY DEF Placed, Going, HasCase
<1>3. /\ SafetyHeld' = SafetyHeld /\ OutageCostsRelease' = OutageCostsRelease
      /\ JudgeWasThere' = JudgeWasThere
  BY DEF SafetyHeld, OutageCostsRelease, JudgeWasThere, Released,
         QualityCases, SafetyCases, Expects
<1> QED
  BY <1>1, <1>2, <1>3 DEF EvaluationInv

(* The outputs a case may have without a citation.                          *)
LEMMA Uncited ==
  /\ Refusal \in Output /\ Refusal.cited = FALSE
  /\ DataAnswer \in Output /\ DataAnswer.cited = FALSE
  /\ [DataAnswer EXCEPT !.provider = "none"] \in Output
<1>1. /\ Refusal \in Output /\ Refusal.cited = FALSE
      /\ DataAnswer \in Output /\ DataAnswer.cited = FALSE
  BY DEF Refusal, DataAnswer, Output, Providers
<1>2. "none" \in Providers
  BY DEF Providers
<1>3. [DataAnswer EXCEPT !.provider = "none"] \in Output
  BY <1>1, <1>2 DEF Output
<1> QED
  BY <1>1, <1>3

LEMMA RunStep == ASSUME EvaluationInv, [EvaluationNext]_evaluationVars PROVE EvaluationInv'
<1>1. CASE AskOther
  <2>1. PICK out \in {Refusal, DataAnswer, [DataAnswer EXCEPT !.provider = "none"]} :
          Scoring(out, FALSE)
    BY <1>1 DEF AskOther
  <2>2. out \in Output
    BY <2>1, Uncited, Zenon
  <2>3. run.pc = "executing" /\ HasCase
    BY <1>1 DEF AskOther
  <2> QED
    BY <2>1, <2>2, <2>3, ScoringKeeps
<1>2. CASE AnswerFromEvidence
  <2>1. run.pc = "retrieving" /\ HasCase
    BY <1>2 DEF AnswerFromEvidence, EvaluationInv, Placed, Going
  <2>2. ASSUME NEW out \in {Refusal, DataAnswer}, NEW outage, Scoring(out, outage)
        PROVE  EvaluationInv'
    <3>1. out \in Output /\ ~out.cited
      BY <2>2, Uncited, Zenon
    <3> QED
      BY <2>1, <2>2, <3>1, ScoringKeeps
  <2>3. ASSUME NEW p \in Providers, NEW cited \in BOOLEAN,
               Scoring([refused |-> FALSE, provider |-> p, cited |-> cited], FALSE)
        PROVE  EvaluationInv'
    <3>1. [refused |-> FALSE, provider |-> p, cited |-> cited] \in Output
      BY DEF Output
    <3> QED
      BY <2>1, <2>3, <3>1, ScoringKeeps
  <2> QED
    BY <1>2, <2>2, <2>3, Zenon DEF AnswerFromEvidence
<1>3. CASE evaluationVars' = evaluationVars
  BY <1>3, RunUnchanged DEF evaluationVars
<1>4. CASE RetrieveAgain \/ (RetrievalStep /\ UNCHANGED run)
  BY <1>4, RunUnchanged DEF RetrieveAgain
<1> QED
  BY <1>1, <1>2, <1>3, <1>4, RunBegins, QuestionPut, RunFailed, SafetyScored, QualityScored,
     Completed DEF EvaluationNext

LEMMA EvaluationInvariant == EvaluationSpec => []EvaluationInv
<1>1. EvaluationInit => EvaluationInv
  BY DEF EvaluationInit, NoRun, Runs, EvaluationInv, Going, SafetyHeld,
         OutageCostsRelease, JudgeWasThere, Released
<1>2. EvaluationInv /\ [EvaluationNext]_evaluationVars => EvaluationInv'
  BY RunStep
<1> QED
  BY <1>1, <1>2, PTL DEF EvaluationSpec

(* SafetyHeld: however the cases follow one another, whatever the searches,  *)
(* the models and the judge give, a version is released only with safety     *)
(* cases, each of which was refused or answered, by the model and sent       *)
(* outside or not, as its row expects, and expects something.                *)
THEOREM SafetyOfReleases == EvaluationSpec => []SafetyHeld
<1>1. EvaluationInv => SafetyHeld
  BY DEF EvaluationInv
<1> QED
  BY <1>1, EvaluationInvariant, PTL

(* OutageCostsRelease: an outage of the vector store costs the citations of  *)
(* the cases it met, for every number of cases and every allowed drop.       *)
THEOREM OutagesOfReleases == EvaluationSpec => []OutageCostsRelease
<1>1. EvaluationInv => OutageCostsRelease
  BY DEF EvaluationInv
<1> QED
  BY <1>1, EvaluationInvariant, PTL

(* JudgeWasThere: a released version was judged by a judge that was there    *)
(* for a share of the cases at least as large as the minimum score.          *)
THEOREM JudgeOfReleases == EvaluationSpec => []JudgeWasThere
<1>1. EvaluationInv => JudgeWasThere
  BY DEF EvaluationInv
<1> QED
  BY <1>1, EvaluationInvariant, PTL

-----------------------------------------------------------------------------
(* Induction: every nonempty set of subsets of a finite set has a smallest  *)
(* member, every nonempty set of naturals a least one.                      *)

LEMMA LeastNatural ==
  ASSUME NEW S \in SUBSET Nat, S # {}
  PROVE  \E m \in S : \A k \in S : m <= k
<1> DEFINE R == OpToRel(<, Nat)
<1>1. IsWellFoundedOn(R, Nat)
  BY NatLessThanWellFounded
<1>2. PICK m \in S : \A k \in S : <<k, m>> \notin R
  <2> HIDE DEF R
  <2> QED
    BY <1>1, WFMin
<1>3. \A k \in S : ~(k < m)
  BY <1>2 DEF OpToRel
<1> QED
  BY <1>3

LEMMA SmallestSet ==
  ASSUME NEW S, IsFiniteSet(S), NEW Q \in SUBSET SUBSET S, Q # {}
  PROVE  \E T \in Q : \A U \in Q : ~(U \subseteq T /\ U # T)
<1>1. IsWellFoundedOn(StrictSubsetOrdering(S), SUBSET S)
  BY FS_StrictSubsetOrderingWellFounded, FS_FiniteSubsetsOfFinite
<1>2. PICK T \in Q : \A U \in Q : <<U, T>> \notin StrictSubsetOrdering(S)
  BY <1>1, WFMin
<1> QED
  BY <1>2 DEF StrictSubsetOrdering

(* A strict order on a nonempty finite set has a member nothing is above.   *)
LEMMA Topmost ==
  ASSUME NEW S, IsFiniteSet(S), S # {}, NEW above,
         \A x \in S : <<x, x>> \notin above,
         \A x, y, z \in S : <<x, y>> \in above /\ <<y, z>> \in above => <<x, z>> \in above
  PROVE  \E x \in S : \A y \in S : <<y, x>> \notin above
<1> DEFINE Over(x) == {y \in S : <<y, x>> \in above}
           Q == {Over(x) : x \in S}
<1>1. PICK T \in Q : \A U \in Q : ~(U \subseteq T /\ U # T)
  <2>1. PICK x \in S : TRUE
    OBVIOUS
  <2>2. Over(x) \in Q
    BY <2>1
  <2>3. Q \in SUBSET SUBSET S
    <3>1. \A y \in S : Over(y) \in SUBSET S
      OBVIOUS
    <3> HIDE DEF Over
    <3> QED
      BY <3>1
  <2> HIDE DEF Q
  <2> QED
    BY <2>2, <2>3, SmallestSet
<1>2. PICK x \in S : T = Over(x)
  OBVIOUS
<1>3. ASSUME NEW y \in S, <<y, x>> \in above PROVE FALSE
  <2>1. y \in T /\ y \notin Over(y) /\ Over(y) \subseteq T /\ Over(y) \in Q
    BY <1>2, <1>3
  <2> HIDE DEF Q, Over
  <2> QED
    BY <1>1, <2>1
<1> QED
  BY <1>3

LEMMA MaxOfNaturals ==
  ASSUME NEW S \in SUBSET Nat, IsFiniteSet(S), S # {}
  PROVE  Max(S) \in S /\ \A y \in S : Max(S) >= y
<1> DEFINE above == {x \in S \X S : x[1] > x[2]}
<1>1. /\ \A x \in S : <<x, x>> \notin above
      /\ \A x, y, z \in S : <<x, y>> \in above /\ <<y, z>> \in above => <<x, z>> \in above
      /\ \A x, y \in S : <<x, y>> \in above <=> x > y
  OBVIOUS
<1>2. PICK m \in S : \A y \in S : <<y, m>> \notin above
  <2> HIDE DEF above
  <2> QED
    BY <1>1, Topmost
<1>3. \A y \in S : ~(y > m)
  <2> HIDE DEF above
  <2> QED
    BY <1>1, <1>2
<1>4. m \in S /\ \A y \in S : m >= y
  BY <1>3
<1> QED
  BY <1>4 DEF Max

-----------------------------------------------------------------------------
(* fuse_hits(): what a candidate is made of                                 *)

(* The sum of the weights, whichever order it is taken in.                  *)
LEMMA WeightsAdd ==
  ASSUME NEW results, NEW P, IsFiniteSet(P), \A x \in P : Weight(results, x) \in Nat
  PROVE  TotalWeight(results, P) \in Nat
<1> DEFINE One(s) == CHOOSE x \in s : TRUE
           Stride(g, s) == IF s = {} THEN 0 ELSE Weight(results, One(s)) + g[s \ {One(s)}]
           Upto(n, g) == \A s \in SUBSET P : Cardinality(s) < n => g[s] = Stride(g, s)
           Bad == {n \in Nat : ~\E g \in [SUBSET P -> Nat] : Upto(n, g)}
           Eq(g) == g = [s \in SUBSET P |-> Stride(g, s)]
           total == CHOOSE g : Eq(g)
<1>1. /\ \A s \in SUBSET P : IsFiniteSet(s) /\ Cardinality(s) \in Nat
      /\ \A s \in SUBSET P : s # {} =>
           /\ One(s) \in s /\ s \ {One(s)} \in SUBSET P
           /\ Cardinality(s \ {One(s)}) = Cardinality(s) - 1
  BY FS_Subset, FS_CardinalityType, FS_RemoveElement
<1>2. \A g \in [SUBSET P -> Nat], s \in SUBSET P : Stride(g, s) \in Nat
  BY <1>1
<1>3. Bad = {}
  <2> SUFFICES ASSUME Bad # {} PROVE FALSE
    OBVIOUS
  <2>1. PICK n \in Bad : \A k \in Bad : n <= k
    <3> HIDE DEF Bad
    <3>1. Bad \in SUBSET Nat
      BY DEF Bad
    <3> QED
      BY <3>1, LeastNatural
  <2>2. n # 0
    <3>1. [s \in SUBSET P |-> 0] \in [SUBSET P -> Nat] /\ Upto(0, [s \in SUBSET P |-> 0])
      BY <1>1
    <3> HIDE DEF Upto
    <3> QED
      BY <3>1
  <2>3. n \in Nat /\ n - 1 \in Nat /\ n - 1 \notin Bad
    <3>1. n \in Nat /\ \A k \in Bad : n <= k
      <4> HIDE DEF Upto
      <4> QED
        BY <2>1
    <3> HIDE DEF Bad
    <3> QED
      BY <2>2, <3>1
  <2>4. PICK g \in [SUBSET P -> Nat] : Upto(n - 1, g)
    <3> HIDE DEF Upto
    <3> QED
      BY <2>3
  <2> DEFINE h == [s \in SUBSET P |-> IF Cardinality(s) < n - 1 THEN g[s] ELSE Stride(g, s)]
  <2> HIDE DEF One
  <2>5. h \in [SUBSET P -> Nat]
    BY <1>2
  <2>6. ASSUME NEW s \in SUBSET P, Cardinality(s) < n PROVE h[s] = Stride(h, s)
    <3>1. h[s] = Stride(g, s)
      BY <2>4
    <3>2. CASE s = {}
      BY <3>1, <3>2
    <3>3. CASE s # {}
      <4>1. s \ {One(s)} \in SUBSET P /\ Cardinality(s \ {One(s)}) < n - 1
        BY <1>1, <2>3, <2>6, <3>3
      <4>2. h[s \ {One(s)}] = g[s \ {One(s)}]
        BY <4>1
      <4> HIDE DEF h
      <4> QED
        BY <3>1, <3>3, <4>2
    <3> QED
      BY <3>2, <3>3
  <2>7. Upto(n, h)
    <3> HIDE DEF h, Stride
    <3> QED
      BY <2>6
  <2> HIDE DEF Upto, h
  <2> QED
    BY <2>1, <2>5, <2>7
<1>4. \E g : Eq(g)
  <2>1. Cardinality(P) + 1 \in Nat /\ \A s \in SUBSET P : Cardinality(s) < Cardinality(P) + 1
    BY <1>1, FS_Subset, FS_CardinalityType
  <2>2. PICK g \in [SUBSET P -> Nat] : Upto(Cardinality(P) + 1, g)
    <3> HIDE DEF Upto
    <3> QED
      BY <1>3, <2>1
  <2>3. \A s \in SUBSET P : g[s] = Stride(g, s)
    <3> HIDE DEF Stride
    <3> QED
      BY <2>1, <2>2
  <2>4. g = [s \in SUBSET P |-> g[s]]
    OBVIOUS
  <2>5. Eq(g)
    <3> HIDE DEF Stride
    <3> QED
      BY <2>3, <2>4
  <2> HIDE DEF Eq
  <2> QED
    BY <2>5
<1>5. Eq(total)
  <2> HIDE DEF Eq
  <2> QED
    BY <1>4
<1>6. \A s \in SUBSET P : total[s] = Stride(total, s)
  <2> HIDE DEF Stride, total
  <2> QED
    BY <1>5
<1> DEFINE Odd == {s \in SUBSET P : total[s] \notin Nat}
<1>7. Odd = {}
  <2> HIDE DEF total, One
  <2> SUFFICES ASSUME Odd # {} PROVE FALSE
    OBVIOUS
  <2>1. PICK s \in Odd : \A u \in Odd : ~(u \subseteq s /\ u # s)
    <3> HIDE DEF Odd
    <3>1. Odd \in SUBSET SUBSET P
      BY DEF Odd
    <3> QED
      BY <3>1, SmallestSet
  <2>2. s # {}
    BY <1>6
  <2>3. One(s) \in s /\ s \ {One(s)} \in SUBSET P /\ One(s) \in P
    BY <1>1, <2>2
  <2>4. total[s \ {One(s)}] \in Nat
    BY <2>1, <2>3
  <2>5. total[s] = Weight(results, One(s)) + total[s \ {One(s)}]
    BY <1>6, <2>2
  <2> QED
    BY <2>3, <2>4, <2>5
<1>8. total[P] \in Nat
  <2> HIDE DEF total
  <2> QED
    BY <1>7
<1>9. TotalWeight(results, P) = total[P]
  BY DEF TotalWeight, MapThenSumSet, MapThenFoldSet
<1> QED
  BY <1>8, <1>9

LEMMA PlacesKnown ==
  ASSUME RetrievalAssumption, NEW n \in 1..MaxQueries, NEW results \in [1..n -> Lists \cup {Failed}],
         NEW p
  PROVE  /\ IsFiniteSet(Places(results, p))
         /\ \A x \in Places(results, p) :
              /\ x \in (1..n) \X (1..Recall)
              /\ ScoreAt(results, x) \in SearchScores
              /\ ScoreAt(results, x) \in Nat /\ ScoreAt(results, x) > 0
              /\ Weight(results, x) \in Nat
              /\ (MaxQueries - x[1] + 1) * (Recall + 1) - x[2] \in Nat
<1>1. n \in Nat /\ MaxQueries \in Nat /\ Recall \in Nat /\ n <= MaxQueries
  BY DEF RetrievalAssumption
<1>2. Places(results, p) \in SUBSET ((1..n) \X (1..Recall))
  BY DEF Places
<1>3. IsFiniteSet(Places(results, p))
  <2>1. IsFiniteSet(1..n) /\ IsFiniteSet(1..Recall)
    <3>1. 1 \in Int /\ n \in Int /\ Recall \in Int
      BY <1>1
    <3> QED
      BY <3>1, FS_Interval
  <2> QED
    BY <1>2, <2>1, FS_Product, FS_Subset
<1>4. ASSUME NEW x \in Places(results, p)
      PROVE  /\ x \in (1..n) \X (1..Recall)
             /\ ScoreAt(results, x) \in SearchScores
             /\ ScoreAt(results, x) \in Nat /\ ScoreAt(results, x) > 0
             /\ Weight(results, x) \in Nat
             /\ (MaxQueries - x[1] + 1) * (Recall + 1) - x[2] \in Nat
  <2>1. x \in (1..n) \X (1..Recall) /\ x[1] \in 1..n /\ x[2] \in 1..Recall
    BY <1>2
  <2>2. results[x[1]] \in Lists /\ x[2] \in DOMAIN results[x[1]]
    BY <2>1 DEF Places
  <2>3. results[x[1]][x[2]] \in Hits
    BY <2>2 DEF Lists
  <2>4. ScoreAt(results, x) \in SearchScores
    BY <2>3 DEF ScoreAt, Hits
  <2>5. ScoreAt(results, x) \in 1..100
    BY <2>4 DEF RetrievalAssumption
  <2>6. Weight(results, x) \in Nat
    <3>1. 1000 * ScoreAt(results, x) \in Nat
      <4>1. PICK k \in 1..100 : k = ScoreAt(results, x)
        BY <2>5
      <4>2. 1000 * k \in Nat
        OBVIOUS
      <4> QED
        BY <4>1, <4>2
    <3>2. x[2] + 10 \in Nat \ {0}
      BY <1>1, <2>1
    <3>3. 100000 \div (x[2] + 10) \in Nat
      <4> DEFINE d == x[2] + 10
      <4>1. d \in Nat \ {0}
        BY <3>2
      <4> HIDE DEF d
      <4>2. 100000 \div d \in Nat
        BY <4>1
      <4> QED
        BY <4>2 DEF d
    <3> QED
      BY <3>1, <3>3 DEF Weight
  <2>7. (MaxQueries - x[1] + 1) * (Recall + 1) - x[2] \in Nat
    <3> DEFINE a == MaxQueries - x[1] + 1
    <3>1. a \in Nat \ {0} /\ Recall \in Nat /\ x[2] \in Nat /\ x[2] <= Recall
      BY <1>1, <2>1
    <3> HIDE DEF a
    <3>2. a * (Recall + 1) \in Nat /\ a * (Recall + 1) >= Recall + 1
      <4>1. \A i \in Nat \ {0}, j \in Nat : i * j \in Nat /\ i * j >= j
        OBVIOUS
      <4>2. Recall + 1 \in Nat
        BY <3>1
      <4> QED
        BY <3>1, <4>1, <4>2
    <3>3. a * (Recall + 1) - x[2] \in Nat
      BY <3>1, <3>2
    <3> QED
      BY <3>3 DEF a
  <2>8. ScoreAt(results, x) \in Nat /\ ScoreAt(results, x) > 0
    <3>1. \A k \in 1..100 : k \in Nat /\ k > 0
      OBVIOUS
    <3> QED
      BY <2>5, <3>1
  <2> QED
    BY <2>1, <2>4, <2>6, <2>7, <2>8
<1> QED
  BY <1>3, <1>4

FoundOf(results) ==
  [p \in Passages |-> Max({0} \cup {ScoreAt(results, x) : x \in Places(results, p)})]

(* The best score and the earliest place are there, and are numbers.        *)
LEMMA FusedIsCandidate ==
  ASSUME RetrievalAssumption, NEW n \in 1..MaxQueries, NEW results \in [1..n -> Lists \cup {Failed}],
         NEW p \in Passages, Places(results, p) # {}
  PROVE  /\ FusedOf(results, p) \in Candidate
         /\ FusedOf(results, p).best > 0
         /\ FusedOf(results, p).best = FoundOf(results)[p]
         /\ FusedOf(results, p).passage = p
<1> DEFINE P == Places(results, p)
           scores == {ScoreAt(results, x) : x \in P}
           Early(x) == (MaxQueries - x[1] + 1) * (Recall + 1) - x[2]
           places == {Early(x) : x \in P}
<1>1. /\ IsFiniteSet(P) /\ P # {}
      /\ \A x \in P : /\ ScoreAt(results, x) \in Nat /\ ScoreAt(results, x) > 0
                      /\ Weight(results, x) \in Nat /\ Early(x) \in Nat
  BY PlacesKnown
<1>2. IsFiniteSet(scores) /\ scores # {} /\ scores \in SUBSET Nat /\ \A y \in scores : y > 0
  <2> DEFINE f == [x \in P |-> ScoreAt(results, x)]
  <2> HIDE DEF P
  <2>1. f \in Surjection(P, scores)
    BY DEF Surjection
  <2> HIDE DEF f
  <2>2. IsFiniteSet(scores)
    BY <1>1, <2>1, FS_Surjection
  <2>3. scores # {} /\ scores \in SUBSET Nat /\ \A y \in scores : y > 0
    BY <1>1
  <2> QED
    BY <2>2, <2>3
<1>3. IsFiniteSet(places) /\ places # {} /\ places \in SUBSET Nat
  <2> DEFINE f == [x \in P |-> Early(x)]
  <2> HIDE DEF P, Early
  <2>1. f \in Surjection(P, places)
    BY DEF Surjection
  <2> HIDE DEF f
  <2>2. IsFiniteSet(places)
    BY <1>1, <2>1, FS_Surjection
  <2>3. places # {} /\ places \in SUBSET Nat
    BY <1>1
  <2> QED
    BY <2>2, <2>3
<1>4. Max(scores) \in scores /\ \A y \in scores : Max(scores) >= y
  <2> HIDE DEF scores
  <2> QED
    BY <1>2, MaxOfNaturals
<1>5. Max(places) \in Nat
  <2> HIDE DEF places
  <2> QED
    BY <1>3, MaxOfNaturals
<1>6. Max({0} \cup scores) = Max(scores)
  <2> HIDE DEF scores
  <2>1. IsFiniteSet({0} \cup scores)
    BY <1>2, FS_Union, FS_Singleton
  <2> DEFINE both == {0} \cup scores
  <2>2. both \in SUBSET Nat /\ both # {} /\ IsFiniteSet(both)
    BY <1>2, <2>1
  <2>3. \A y \in both : y \in scores \/ y = 0
    OBVIOUS
  <2>4. scores \subseteq both
    OBVIOUS
  <2> HIDE DEF both
  <2>5. Max(both) \in both /\ \A y \in both : Max(both) >= y
    BY <2>2, MaxOfNaturals
  <2>6. Max(both) \in Nat /\ Max(scores) \in Nat /\ Max(scores) > 0
    BY <1>2, <1>4, <2>2, <2>5
  <2>7. Max(both) >= Max(scores)
    BY <1>4, <2>4, <2>5
  <2>8. Max(both) \in scores
    BY <2>3, <2>5, <2>6, <2>7
  <2>9. Max(scores) >= Max(both)
    BY <1>4, <2>8
  <2>10. Max(both) = Max(scores)
    BY <2>6, <2>7, <2>9
  <2> QED
    BY <2>10 DEF both
<1>7. Cardinality(P) \in Nat
  BY <1>1, FS_CardinalityType
<1>8. TotalWeight(results, P) \in Nat
  <2> HIDE DEF P
  <2> QED
    BY <1>1, WeightsAdd
<1>9. FusedOf(results, p) = [passage |-> p, best |-> Max(scores), count |-> Cardinality(P),
                             fused |-> TotalWeight(results, P),
                             first |-> Max(places)]
  BY DEF FusedOf, Best
<1>10. Max(scores) \in Nat /\ Max(scores) > 0
  BY <1>2, <1>4
<1> HIDE DEF P, scores, places
<1>11. /\ FusedOf(results, p) \in Candidate /\ FusedOf(results, p).best = Max(scores)
       /\ FusedOf(results, p).passage = p
  BY <1>5, <1>7, <1>8, <1>9, <1>10 DEF Candidate
<1> QED
  BY <1>6, <1>10, <1>11 DEF scores, P, FoundOf

LEMMA FusedKnown ==
  ASSUME RetrievalAssumption, NEW n \in 1..MaxQueries, NEW results \in [1..n -> Lists \cup {Failed}]
  PROVE  /\ IsFiniteSet(Fused(results))
         /\ \A c \in Fused(results) : /\ c \in Candidate /\ c.best > 0
                                      /\ FoundOf(results)[c.passage] = c.best
         /\ \A p \in Passages : FoundOf(results)[p] > 0 => \E c \in Fused(results) : c.passage = p
<1>1. ASSUME NEW c \in Fused(results)
      PROVE  c \in Candidate /\ c.best > 0 /\ FoundOf(results)[c.passage] = c.best
  <2>1. PICK p \in Passages : Places(results, p) # {} /\ c = FusedOf(results, p)
    BY DEF Fused
  <2>2. /\ FusedOf(results, p) \in Candidate /\ FusedOf(results, p).best > 0
        /\ FusedOf(results, p).passage = p
        /\ FusedOf(results, p).best = FoundOf(results)[p]
    BY <2>1, FusedIsCandidate
  <2> QED
    BY <2>1, <2>2
<1>2. ASSUME NEW p \in Passages, FoundOf(results)[p] > 0
      PROVE  \E c \in Fused(results) : c.passage = p
  <2>1. CASE Places(results, p) = {}
    <3>1. FoundOf(results)[p] = Max({0})
      BY <2>1 DEF FoundOf
    <3>2. Max({0}) = 0
      BY DEF Max
    <3> QED
      BY <1>2, <3>1, <3>2
  <2>2. CASE Places(results, p) # {}
    <3>1. FusedOf(results, p) \in Fused(results)
      BY <2>2 DEF Fused
    <3> QED
      BY <2>2, <3>1, FusedIsCandidate
  <2> QED
    BY <2>1, <2>2
<1>3. IsFiniteSet(Fused(results))
  <2> DEFINE W == {x \in (1..n) \X (1..Recall) :
                     results[x[1]] # Failed /\ x[2] \in DOMAIN results[x[1]]
                       /\ results[x[1]][x[2]].passage \in Passages}
             f == [x \in W |-> FusedOf(results, results[x[1]][x[2]].passage)]
  <2>1. n \in Nat /\ Recall \in Nat
    BY DEF RetrievalAssumption
  <2> HIDE DEF W, f
  <2>2. IsFiniteSet(1..n) /\ IsFiniteSet(1..Recall)
    <3>1. 1 \in Int /\ n \in Int /\ Recall \in Int
      BY <2>1
    <3> QED
      BY <3>1, FS_Interval
  <2> USE DEF W, f
  <2>3. IsFiniteSet(W)
    <3>1. IsFiniteSet((1..n) \X (1..Recall))
      BY <2>2, FS_Product
    <3>2. W \in SUBSET ((1..n) \X (1..Recall))
      OBVIOUS
    <3> HIDE DEF W
    <3> QED
      BY <3>1, <3>2, FS_Subset
  <2>4. ASSUME NEW x \in W PROVE f[x] \in Fused(results)
    <3>1. x \in Places(results, results[x[1]][x[2]].passage)
      BY DEF Places
    <3> QED
      BY <3>1 DEF Fused
  <2>5. ASSUME NEW c \in Fused(results) PROVE \E x \in W : f[x] = c
    <3>1. PICK p \in Passages : Places(results, p) # {} /\ c = FusedOf(results, p)
      BY DEF Fused
    <3>2. PICK x \in Places(results, p) : TRUE
      BY <3>1
    <3>3. x \in W /\ results[x[1]][x[2]].passage = p
      BY <3>2 DEF Places
    <3> QED
      BY <3>1, <3>3
  <2>6. f \in [W -> Fused(results)]
    <3> HIDE DEF W
    <3> QED
      BY <2>4
  <2>7. f \in Surjection(W, Fused(results))
    <3> HIDE DEF f, W
    <3> QED
      BY <2>5, <2>6 DEF Surjection
  <2> HIDE DEF f, W
  <2> QED
    BY <2>3, <2>7, FS_Surjection
<1> QED
  BY <1>1, <1>2, <1>3

-----------------------------------------------------------------------------
(* The order of the candidates                                              *)

LEMMA HigherIsOrder ==
  ASSUME NEW n \in Nat
  PROVE  /\ \A u \in [1..n -> Nat] : ~Higher(u, u)
         /\ \A u, v, w \in [1..n -> Nat] : Higher(u, v) /\ Higher(v, w) => Higher(u, w)
<1>1. ASSUME NEW u \in [1..n -> Nat] PROVE ~Higher(u, u)
  BY DEF Higher
<1>2. ASSUME NEW u \in [1..n -> Nat], NEW v \in [1..n -> Nat], NEW w \in [1..n -> Nat],
             Higher(u, v), Higher(v, w)
      PROVE  Higher(u, w)
  <2>1. PICK k \in 1..n : u[k] > v[k] /\ \A j \in 1..k - 1 : u[j] = v[j]
    BY <1>2 DEF Higher
  <2>2. PICK l \in 1..n : v[l] > w[l] /\ \A j \in 1..l - 1 : v[j] = w[j]
    BY <1>2 DEF Higher
  <2>3. CASE k < l
    <3>1. v[k] = w[k] /\ \A j \in 1..k - 1 : u[j] = w[j]
      BY <2>1, <2>2, <2>3
    <3> QED
      BY <2>1, <3>1 DEF Higher
  <2>4. CASE k = l
    <3>1. u[k] > w[k] /\ \A j \in 1..k - 1 : u[j] = w[j]
      BY <2>1, <2>2, <2>4
    <3> QED
      BY <3>1 DEF Higher
  <2>5. CASE l < k
    <3>1. u[l] = v[l] /\ \A j \in 1..l - 1 : u[j] = w[j]
      BY <2>1, <2>2, <2>5
    <3> QED
      BY <2>2, <3>1 DEF Higher
  <2> QED
    BY <2>3, <2>4, <2>5
<1> QED
  BY <1>1, <1>2

(* Candidates whose keys are as many numbers each: one is on top.           *)
LEMMA SomeTop ==
  ASSUME NEW U, IsFiniteSet(U), U # {}, NEW n \in Nat, \A c \in U : c.key \in [1..n -> Nat]
  PROVE  \E c \in U : \A d \in U : ~Higher(d.key, c.key)
<1> DEFINE above == {x \in U \X U : Higher(x[1].key, x[2].key)}
<1>1. \A x, y \in U : <<x, y>> \in above <=> Higher(x.key, y.key)
  OBVIOUS
<1> HIDE DEF above
<1>2. \A x \in U : <<x, x>> \notin above
  BY <1>1, HigherIsOrder
<1>3. \A x, y, z \in U : <<x, y>> \in above /\ <<y, z>> \in above => <<x, z>> \in above
  BY <1>1, HigherIsOrder
<1>4. PICK c \in U : \A d \in U : <<d, c>> \notin above
  BY <1>2, <1>3, Topmost
<1> QED
  BY <1>1, <1>4

-----------------------------------------------------------------------------
(* From the fused list to the evidence                                      *)

Clamped == Verdicts \cup {NaN}
LEMMA ClampIsNatural == ASSUME RetrievalAssumption, NEW x \in Clamped PROVE Clamp(x) \in Nat
<1>1. CASE x = NaN
  BY <1>1 DEF Clamp
<1>2. CASE x # NaN
  <2>1. x \in Nat
    BY <1>2 DEF Clamped, RetrievalAssumption
  <2> QED
    BY <2>1 DEF Clamp
<1> QED
  BY <1>1, <1>2

Replies(kept) == [kept -> Opinions \cup {Unscored}]

LEMMA RankedShape ==
  ASSUME RetrievalAssumption, NEW kept \in SUBSET Candidate, IsFiniteSet(kept),
         NEW reply \in Replies(kept), NEW fellBack \in BOOLEAN
  PROVE  /\ IsFiniteSet(Ranked(kept, reply, fellBack))
         /\ \E n \in Nat : \A d \in Ranked(kept, reply, fellBack) : d.key \in [1..n -> Nat]
         /\ \A d \in Ranked(kept, reply, fellBack) : \E c \in kept :
              d.passage = c.passage /\ d.best = c.best /\ d.relevance = Relevance(c, reply[c])
         /\ \A c \in kept : \E d \in Ranked(kept, reply, fellBack) :
              d.passage = c.passage /\ d.best = c.best /\ d.relevance = Relevance(c, reply[c])
<1> DEFINE Key(c) == IF fellBack THEN FusionKey(c)
                     ELSE <<Relevance(c, reply[c]), Coverage(c, reply[c]), c.fused>> \o FusionKey(c)
           Rank(c) == [passage |-> c.passage, best |-> c.best, count |-> c.count,
                       relevance |-> Relevance(c, reply[c]), coverage |-> Coverage(c, reply[c]),
                       key |-> Key(c)]
           R == Ranked(kept, reply, fellBack)
<1>1. R = {Rank(c) : c \in kept}
  BY DEF Ranked
<1>2. IsFiniteSet(R)
  <2> DEFINE f == [c \in kept |-> Rank(c)]
  <2>1. f \in Surjection(kept, R)
    <3> HIDE DEF R, Rank
    <3> QED
      BY <1>1 DEF Surjection
  <2> HIDE DEF f, R
  <2> QED
    BY <2>1, FS_Surjection
<1>3. \A c \in kept : /\ Rank(c).passage = c.passage /\ Rank(c).best = c.best
                      /\ Rank(c).relevance = Relevance(c, reply[c]) /\ Rank(c).key = Key(c)
  OBVIOUS
<1>4. ASSUME NEW c \in kept PROVE FusionKey(c) \in [1..4 -> Nat]
  <2>1. c.count \in Nat /\ c.best \in Nat /\ c.fused \in Nat /\ c.first \in Nat
    BY DEF Candidate
  <2> QED
    BY <2>1 DEF FusionKey
<1>5. ASSUME NEW c \in kept
      PROVE  Relevance(c, reply[c]) \in Nat /\ Coverage(c, reply[c]) \in Nat /\ c.fused \in Nat
  <2>1. c.count \in Nat /\ c.best \in Nat /\ c.fused \in Nat
    BY DEF Candidate
  <2>2. CASE reply[c] = Unscored
    BY <2>1, <2>2 DEF Relevance, Coverage, FallbackRelevance, FallbackCoverage
  <2>3. CASE reply[c] # Unscored
    <3>1. reply[c] \in Opinions
      BY <2>3 DEF Replies
    <3>2. reply[c].relevance \in Clamped /\ reply[c].coverage \in Clamped
      BY <3>1 DEF Opinions, Clamped
    <3> QED
      BY <2>1, <2>3, <3>2, ClampIsNatural DEF Relevance, Coverage
  <2> QED
    BY <2>2, <2>3
<1> DEFINE n == IF fellBack THEN 4 ELSE 7
<1>6. ASSUME NEW c \in kept PROVE Key(c) \in [1..n -> Nat]
  <2>1. CASE fellBack
    BY <1>4, <2>1
  <2>2. CASE ~fellBack
    <3>1. c.count \in Nat /\ c.best \in Nat /\ c.fused \in Nat /\ c.first \in Nat
      BY DEF Candidate
    <3> DEFINE a == Relevance(c, reply[c])
               b == Coverage(c, reply[c])
    <3>2. a \in Nat /\ b \in Nat
      BY <1>5
    <3> HIDE DEF a, b
    <3> DEFINE s == <<a, b, c.fused>>
               k == FusionKey(c)
    <3>3. s \in Seq(Nat) /\ Len(s) = 3 /\ k \in Seq(Nat) /\ Len(k) = 4
      BY <3>1, <3>2 DEF FusionKey
    <3> HIDE DEF s, k
    <3>4. s \o k \in Seq(Nat) /\ Len(s \o k) = 7
      <4>1. s \o k \in Seq(Nat) /\ Len(s \o k) = Len(s) + Len(k)
        BY <3>3, ConcatProperties
      <4> QED
        BY <3>3, <4>1
    <3>5. s \o k \in [1..7 -> Nat]
      BY <3>4, LenProperties
    <3> QED
      BY <2>2, <3>5 DEF a, b, s, k
  <2> QED
    BY <2>1, <2>2
<1>7. \A d \in R : d.key \in [1..n -> Nat]
  <2> HIDE DEF R, Key, n
  <2> QED
    BY <1>1, <1>3, <1>6
<1>8. n \in Nat
  OBVIOUS
<1> HIDE DEF R, Rank, n
<1> QED
  BY <1>1, <1>2, <1>3, <1>7, <1>8 DEF R

(* What is known of a fused list.                                           *)
FromSearches(kept, found, cut) ==
  /\ kept \subseteq Candidate /\ IsFiniteSet(kept)
  /\ \A c \in kept : c.best > 0 /\ found[c.passage] = c.best
  /\ ~cut => \A p \in Passages : found[p] > 0 => \E c \in kept : c.passage = p

EvidenceInv ==
  /\ search.pc = "recalled" => FromSearches(search.kept, search.found, search.cut)
  /\ EvidenceIsWhatWasFound

LEMMA SearchBrings == ASSUME RetrievalAssumption, EvidenceInv, Search PROVE EvidenceInv'
<1>1. PICK n \in 1..MaxQueries, limit \in Limits : \E results \in [1..n -> Lists \cup {Failed}] :
        search' = [pc |-> "recalled", kept |-> Cut(Fused(results), limit),
                   found |-> FoundOf(results), cut |-> Cardinality(Fused(results)) > limit,
                   down |-> \A q \in 1..n : results[q] = Failed]
  BY Zenon DEF Search, FoundOf
<1>2. PICK results \in [1..n -> Lists \cup {Failed}] :
        search' = [pc |-> "recalled", kept |-> Cut(Fused(results), limit),
                   found |-> FoundOf(results), cut |-> Cardinality(Fused(results)) > limit,
                   down |-> \A q \in 1..n : results[q] = Failed]
  BY <1>1
<1> DEFINE C == Fused(results)
           kept == Cut(C, limit)
           Over(c) == {d \in C : Higher(FusionKey(d), FusionKey(c))}
<1>3. /\ IsFiniteSet(C)
      /\ \A c \in C : c \in Candidate /\ c.best > 0 /\ FoundOf(results)[c.passage] = c.best
      /\ \A p \in Passages : FoundOf(results)[p] > 0 => \E c \in C : c.passage = p
  BY FusedKnown
<1>4. kept = {c \in C : Cardinality(Over(c)) < limit}
  BY DEF Cut
<1> HIDE DEF C
<1>5. kept \in SUBSET C /\ IsFiniteSet(kept)
  <2>1. kept \in SUBSET C
    BY <1>4
  <2> HIDE DEF kept
  <2> QED
    BY <1>3, <2>1, FS_Subset
<1>6. limit \in Nat /\ Cardinality(C) \in Nat
  BY <1>3, FS_CardinalityType DEF RetrievalAssumption
<1>7. ASSUME ~(Cardinality(C) > limit), NEW c \in C PROVE c \in kept
  <2>1. c \notin Over(c)
    <3>1. c.count \in Nat /\ c.best \in Nat /\ c.fused \in Nat /\ c.first \in Nat
      BY <1>3 DEF Candidate
    <3>2. FusionKey(c) \in [1..4 -> Nat]
      BY <3>1 DEF FusionKey
    <3>3. ~Higher(FusionKey(c), FusionKey(c))
      BY <3>2, HigherIsOrder
    <3> QED
      BY <3>3
  <2>2. Over(c) \in SUBSET C /\ Over(c) # C
    BY <2>1
  <2>3. Cardinality(Over(c)) \in Nat /\ Cardinality(Over(c)) < Cardinality(C)
    <3> HIDE DEF Over
    <3>1. /\ IsFiniteSet(Over(c)) /\ Cardinality(Over(c)) <= Cardinality(C)
          /\ Cardinality(C) # Cardinality(Over(c))
      BY <1>3, <2>2, FS_Subset
    <3>2. Cardinality(Over(c)) \in Nat
      BY <3>1, FS_CardinalityType
    <3> QED
      BY <1>6, <3>1, <3>2
  <2>4. Cardinality(Over(c)) < limit
    <3> HIDE DEF Over
    <3> QED
      BY <1>6, <1>7, <2>3
  <2> QED
    BY <1>4, <2>4
<1>8. FromSearches(kept, FoundOf(results), Cardinality(C) > limit)
  <2> HIDE DEF kept
  <2> QED
    BY <1>3, <1>5, <1>7 DEF FromSearches
<1>9. /\ search'.pc = "recalled" /\ search'.kept = kept /\ search'.found = FoundOf(results)
      /\ search'.cut = (Cardinality(C) > limit)
  BY <1>2 DEF C
<1> HIDE DEF kept
<1> QED
  BY <1>8, <1>9 DEF EvidenceInv, EvidenceIsWhatWasFound

LEMMA DecisionHolds ==
  ASSUME RetrievalAssumption, EvidenceInv, search.pc = "recalled",
         NEW reply \in Replies(search.kept), NEW fellBack \in BOOLEAN,
         fellBack => \A c \in search.kept : reply[c] = Unscored,
         Decide(reply, fellBack)
  PROVE  EvidenceInv'
<1> DEFINE kept == search.kept
           R == Ranked(kept, reply, fellBack)
           U == Usable(R)
<1>1. /\ kept \in SUBSET Candidate /\ IsFiniteSet(kept)
      /\ \A c \in kept : c.best > 0 /\ search.found[c.passage] = c.best
      /\ ~search.cut => \A p \in Passages : search.found[p] > 0 => \E c \in kept : c.passage = p
  BY DEF EvidenceInv, FromSearches
<1>2. /\ IsFiniteSet(R)
      /\ \E n \in Nat : \A d \in R : d.key \in [1..n -> Nat]
      /\ \A d \in R : \E c \in kept :
           d.passage = c.passage /\ d.best = c.best /\ d.relevance = Relevance(c, reply[c])
      /\ \A c \in kept : \E d \in R :
           d.passage = c.passage /\ d.best = c.best /\ d.relevance = Relevance(c, reply[c])
  <2>1. kept \in SUBSET Candidate /\ reply \in Replies(kept)
    BY <1>1
  <2> HIDE DEF kept
  <2> QED
    <3>1. IsFiniteSet(R)
      BY <1>1, <2>1, RankedShape
    <3>2. \E n \in Nat : \A d \in R : d.key \in [1..n -> Nat]
      BY <1>1, <2>1, RankedShape
    <3>3. \A d \in R : \E c \in kept :
           d.passage = c.passage /\ d.best = c.best /\ d.relevance = Relevance(c, reply[c])
      BY <1>1, <2>1, RankedShape
    <3>4. \A c \in kept : \E d \in R :
           d.passage = c.passage /\ d.best = c.best /\ d.relevance = Relevance(c, reply[c])
      BY <1>1, <2>1, RankedShape
    <3> QED
      BY <3>1, <3>2, <3>3, <3>4
<1>3. search' = [pc |-> "decided", level |-> Level(U), cited |-> Citations(U),
                 found |-> search.found, cut |-> search.cut, down |-> search.down,
                 fellBack |-> fellBack]
  BY DEF Decide
<1>4. /\ search'.pc = "decided" /\ search'.level = Level(U) /\ search'.cited = Citations(U)
      /\ search'.found = search.found /\ search'.cut = search.cut
      /\ search'.fellBack = fellBack
  BY <1>3
<1> HIDE DEF R
<1>5. U \in SUBSET R /\ \A c \in U : c.relevance >= PartialRelevance /\ c.best >= PartialVector
  BY DEF Usable
<1>6. ASSUME NEW p \in Citations(U) PROVE search.found[p] >= PartialVector
  <2>1. PICK d \in U : p = d.passage
    BY DEF Citations
  <2> HIDE DEF U
  <2>2. PICK c \in kept : d.passage = c.passage /\ d.best = c.best
    BY <1>2, <1>5, <2>1
  <2> QED
    BY <1>1, <1>5, <2>1, <2>2
<1>7. ASSUME Level(U) = "full" PROVE \E p \in Citations(U) : search.found[p] >= FullAnswer
  <2>1. U # {} /\ \A c \in Tops(U) : IsFull(c)
    BY <1>7 DEF Level
  <2>2. IsFiniteSet(U)
    <3> HIDE DEF U
    <3> QED
      BY <1>2, <1>5, FS_Subset
  <2>3. PICK t \in U : \A d \in U : ~Higher(d.key, t.key)
    <3> HIDE DEF U
    <3> QED
      BY <1>2, <1>5, <2>1, <2>2, SomeTop
  <2>4. t.best >= FullAnswer
    <3>1. t \in Tops(U)
      BY <2>3 DEF Tops
    <3> QED
      BY <2>1, <3>1 DEF IsFull
  <2>5. t.passage \in Citations(U)
    <3>1. {e \in U : Higher(e.key, t.key)} = {}
      BY <2>3
    <3>2. Cardinality({e \in U : Higher(e.key, t.key)}) < TopK
      <4>1. Cardinality({}) = 0 /\ 0 < TopK
        BY FS_EmptySet DEF RetrievalAssumption
      <4> QED
        BY <3>1, <4>1
    <3> QED
      BY <3>2 DEF Citations
  <2>6. PICK c \in kept : t.passage = c.passage /\ t.best = c.best
    <3> HIDE DEF U
    <3> QED
      BY <1>2, <1>5
  <2>7. search.found[t.passage] >= FullAnswer
    BY <1>1, <2>4, <2>6
  <2> QED
    BY <2>5, <2>7
<1>8. CitedWasFound'
  <2> HIDE DEF U
  <2> QED
    BY <1>4, <1>6, <1>7 DEF CitedWasFound
<1>9. FoundIsAnswered'
  <2> SUFFICES ASSUME fellBack, ~search.cut
               PROVE  Level(U) # "insufficient"
                        <=> \E p \in Passages : /\ search.found[p] > 0
                                                /\ search.found[p] >= PartialVector
                                                /\ search.found[p] >= PartialRelevance
    <3> HIDE DEF U
    <3> QED
      BY <1>4 DEF FoundIsAnswered
  <2>1. \A c \in kept : Relevance(c, reply[c]) = c.best
    BY DEF Relevance, FallbackRelevance
  <2>2. Level(U) # "insufficient" <=> U # {}
    BY DEF Level
  <2>3. ASSUME NEW d \in U
        PROVE  \E p \in Passages : /\ search.found[p] > 0 /\ search.found[p] >= PartialVector
                                   /\ search.found[p] >= PartialRelevance
    <3> HIDE DEF U
    <3>1. PICK c \in kept : /\ d.passage = c.passage /\ d.best = c.best
                            /\ d.relevance = Relevance(c, reply[c])
      BY <1>2, <1>5
    <3>2. c.passage \in Passages
      BY <1>1 DEF Candidate
    <3>3. search.found[c.passage] = c.best /\ c.best > 0 /\ c.best >= PartialVector /\ c.best >= PartialRelevance
      BY <1>1, <1>5, <2>1, <3>1
    <3> QED
      BY <3>2, <3>3
  <2>4. ASSUME NEW p \in Passages, search.found[p] > 0, search.found[p] >= PartialVector,
               search.found[p] >= PartialRelevance
        PROVE  U # {}
    <3>1. PICK c \in kept : c.passage = p
      BY <1>1, <2>4
    <3>2. PICK d \in R : d.best = c.best /\ d.relevance = Relevance(c, reply[c])
      BY <1>2
    <3>3. d.best >= PartialVector /\ d.relevance >= PartialRelevance
      BY <1>1, <2>1, <2>4, <3>1, <3>2
    <3> QED
      BY <3>2, <3>3 DEF Usable
  <2> QED
    BY <2>2, <2>3, <2>4
<1> QED
  BY <1>4, <1>8, <1>9 DEF EvidenceInv, EvidenceIsWhatWasFound

LEMMA EvidenceStep ==
  ASSUME EvidenceInv, [EvaluationNext]_evaluationVars
  PROVE  EvidenceInv'
<1>1. CASE Rerank
  <2>1. PICK reply \in [search.kept -> Opinions \cup {Unscored}] : Decide(reply, FALSE)
    BY <1>1 DEF Rerank
  <2>2. search.pc = "recalled" /\ reply \in Replies(search.kept)
    BY <1>1, <2>1 DEF Rerank, Replies
  <2> QED
    BY <2>1, <2>2, DecisionHolds, RetrievalAssumption
<1>2. CASE FallBack
  <2> DEFINE reply == [c \in search.kept |-> Unscored]
  <2>1. search.pc = "recalled" /\ Decide(reply, TRUE)
    BY <1>2 DEF FallBack
  <2>2. reply \in Replies(search.kept) /\ \A c \in search.kept : reply[c] = Unscored
    BY DEF Replies
  <2> HIDE DEF reply
  <2> QED
    BY <2>1, <2>2, DecisionHolds, RetrievalAssumption
<1>3. CASE Search
  BY <1>3, SearchBrings, RetrievalAssumption
<1>4. CASE search' \in {NoSearch, Asked}
  <2>1. search'.pc = "none" \/ search'.pc = "asked"
    BY <1>4 DEF NoSearch, Asked
  <2> QED
    BY <2>1 DEF EvidenceInv, EvidenceIsWhatWasFound
<1>5. CASE UNCHANGED search
  BY <1>5 DEF EvidenceInv, EvidenceIsWhatWasFound, CitedWasFound, FoundIsAnswered
<1> QED
  BY <1>1, <1>2, <1>3, <1>4, <1>5
     DEF EvaluationNext, evaluationVars, RetrievalStep, BeginRun, AskKnowledge, AskOther,
         RetrieveAgain, AnswerFromEvidence, RunFails, ScoreSafety, ScoreQuality, Complete

(* EvidenceIsWhatWasFound: every citation was found near enough, a full     *)
(* answer rests on one found nearer still, and without the model the gate   *)
(* refuses exactly what no search found, for any number of passages,        *)
(* wordings and hits, any thresholds and whatever the model gives.          *)
THEOREM EvidenceOfSearches == EvaluationSpec => []EvidenceIsWhatWasFound
<1>1. EvaluationInit => EvidenceInv
  BY DEF EvaluationInit, NoSearch, EvidenceInv, EvidenceIsWhatWasFound
<1>2. EvidenceInv /\ [EvaluationNext]_evaluationVars => EvidenceInv'
  BY EvidenceStep
<1>3. EvidenceInv => EvidenceIsWhatWasFound
  BY DEF EvidenceInv
<1> QED
  BY <1>1, <1>2, <1>3, PTL DEF EvaluationSpec

-----------------------------------------------------------------------------
(* The types of a search and of a run                                       *)

(* The best score of each passage is a number.                              *)
LEMMA FoundIsNatural ==
  ASSUME RetrievalAssumption, NEW n \in 1..MaxQueries, NEW results \in [1..n -> Lists \cup {Failed}]
  PROVE  FoundOf(results) \in [Passages -> Nat]
<1>1. ASSUME NEW p \in Passages
      PROVE  Max({0} \cup {ScoreAt(results, x) : x \in Places(results, p)}) \in Nat
  <2>1. CASE Places(results, p) = {}
    <3>1. {0} \cup {ScoreAt(results, x) : x \in Places(results, p)} = {0}
      BY <2>1
    <3>2. Max({0}) = 0
      BY DEF Max
    <3>3. Max({0} \cup {ScoreAt(results, x) : x \in Places(results, p)}) = 0
      BY <3>1, <3>2, Zenon
    <3> QED
      BY <3>3
  <2>2. CASE Places(results, p) # {}
    <3>1. /\ FusedOf(results, p) \in Candidate
          /\ FusedOf(results, p).best = FoundOf(results)[p]
      BY <2>2, FusedIsCandidate
    <3> QED
      BY <3>1 DEF Candidate, FoundOf
  <2> QED
    BY <2>1, <2>2
<1> QED
  BY <1>1 DEF FoundOf

Recalled == [pc : {"recalled"}, kept : SUBSET Candidate, found : [Passages -> Nat],
             cut : BOOLEAN, down : BOOLEAN]
Decided == [pc : {"decided"}, level : Levels, cited : SUBSET Passages,
            found : [Passages -> Nat], cut : BOOLEAN, down : BOOLEAN, fellBack : BOOLEAN]

LEMMA SearchTyped ==
  ASSUME RetrievalAssumption, Search
  PROVE  search' \in Searches
<1>1. PICK n \in 1..MaxQueries, limit \in Limits : \E results \in [1..n -> Lists \cup {Failed}] :
        search' = [pc |-> "recalled", kept |-> Cut(Fused(results), limit),
                   found |-> FoundOf(results), cut |-> Cardinality(Fused(results)) > limit,
                   down |-> \A q \in 1..n : results[q] = Failed]
  BY Zenon DEF Search, FoundOf
<1>2. PICK results \in [1..n -> Lists \cup {Failed}] :
        search' = [pc |-> "recalled", kept |-> Cut(Fused(results), limit),
                   found |-> FoundOf(results), cut |-> Cardinality(Fused(results)) > limit,
                   down |-> \A q \in 1..n : results[q] = Failed]
  BY <1>1
<1>3. \A c \in Fused(results) : c \in Candidate
  BY FusedKnown
<1>4. Cut(Fused(results), limit) \in SUBSET Candidate
  BY <1>3 DEF Cut
<1>5. FoundOf(results) \in [Passages -> Nat]
  BY FoundIsNatural
<1>6. search' \in Recalled
  BY <1>2, <1>4, <1>5 DEF Recalled
<1> QED
  BY <1>6, Zenon DEF Searches, Recalled

(* What is cited are passages.                                              *)
LEMMA DecisionTyped ==
  ASSUME RetrievalAssumption, search \in Searches, search.pc = "recalled",
         NEW reply, NEW fellBack \in BOOLEAN, Decide(reply, fellBack)
  PROVE  search' \in Searches
<1> DEFINE U == Usable(Ranked(search.kept, reply, fellBack))
<1>1. search \in Recalled
  BY DEF Searches, NoSearch, Asked, Recalled
<1>2. /\ search.kept \in SUBSET Candidate /\ search.found \in [Passages -> Nat]
      /\ search.cut \in BOOLEAN /\ search.down \in BOOLEAN
  BY <1>1 DEF Recalled
<1>3. ASSUME NEW p \in Citations(U) PROVE p \in Passages
  <2>1. PICK d \in Ranked(search.kept, reply, fellBack) : p = d.passage
    BY DEF Citations, Usable
  <2>2. PICK c \in search.kept :
          d = [passage |-> c.passage, best |-> c.best, count |-> c.count,
               relevance |-> Relevance(c, reply[c]), coverage |-> Coverage(c, reply[c]),
               key |-> IF fellBack THEN FusionKey(c)
                       ELSE <<Relevance(c, reply[c]), Coverage(c, reply[c]), c.fused>>
                              \o FusionKey(c)]
    BY <2>1, Zenon DEF Ranked
  <2>3. d.passage = c.passage
    BY <2>2
  <2> QED
    BY <1>2, <2>1, <2>3 DEF Candidate
<1>4. Level(U) \in Levels
  BY DEF Level, Levels
<1>5. search' = [pc |-> "decided", level |-> Level(U), cited |-> Citations(U),
                 found |-> search.found, cut |-> search.cut, down |-> search.down,
                 fellBack |-> fellBack]
  BY DEF Decide
<1> HIDE DEF U
<1>6. search' \in Decided
  BY <1>2, <1>3, <1>4, <1>5 DEF Decided
<1> QED
  BY <1>6, Zenon DEF Searches, Decided

LEMMA SearchStaysTyped ==
  ASSUME search \in Searches, [EvaluationNext]_evaluationVars
  PROVE  search' \in Searches
<1>1. CASE Rerank
  <2>1. PICK reply \in [search.kept -> Opinions \cup {Unscored}] : Decide(reply, FALSE)
    BY <1>1 DEF Rerank
  <2>2. search.pc = "recalled"
    BY <1>1 DEF Rerank
  <2> QED
    BY <2>1, <2>2, DecisionTyped, RetrievalAssumption
<1>2. CASE FallBack
  BY <1>2, DecisionTyped, RetrievalAssumption DEF FallBack
<1>3. CASE Search
  BY <1>3, SearchTyped, RetrievalAssumption
<1>4. CASE search' \in {NoSearch, Asked}
  BY <1>4 DEF Searches
<1>5. CASE UNCHANGED search
  BY <1>5
<1> QED
  BY <1>1, <1>2, <1>3, <1>4, <1>5
     DEF EvaluationNext, evaluationVars, RetrievalStep, BeginRun, AskKnowledge, AskOther,
         RetrieveAgain, AnswerFromEvidence, RunFails, ScoreSafety, ScoreQuality, Complete

(* EvaluationTypeOK: scores, counts and keys of any number of passages are  *)
(* numbers and what is cited are passages; sums and counts of the metrics   *)
(* are numbers and the verdict is one.                                      *)
THEOREM EvaluationTypes == EvaluationSpec => []EvaluationTypeOK
<1>1. EvaluationInit => search \in Searches
  BY DEF EvaluationInit, Searches
<1>2. search \in Searches /\ [EvaluationNext]_evaluationVars => (search \in Searches)'
  BY SearchStaysTyped
<1>3. EvaluationInv /\ search \in Searches => EvaluationTypeOK
  BY DEF EvaluationInv, EvaluationTypeOK
<1> QED
  BY <1>1, <1>2, <1>3, EvaluationInvariant, PTL DEF EvaluationSpec
=============================================================================
