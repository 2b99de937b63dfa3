---------------------------- MODULE PromptRelease ----------------------------
(***************************************************************************)
(* The versions of one prompt key: admins create candidates, evaluate      *)
(* them, activate those that passed the release gate and roll back, each   *)
(* in a request of its own with a database session of its own, all of them *)
(* at once.  An action is a statement of PostgreSQL under READ COMMITTED:  *)
(* it sees what is committed when it starts.  The two statements a         *)
(* transaction ends with, the write and the commit, are one action.        *)
(*                                                                         *)
(* seed_stage4.py has created and activated version 1 before requests come.*)
(***************************************************************************)
EXTENDS Naturals, Sequences

CONSTANTS
  Clients,      \* requests that can be in progress at once
  Scores,       \* what an evaluation can measure (one metric stands for all)
  MaximumDrop,  \* maximum_drop
  MaxVersions, MaxRuns  \* bounds

ASSUME PromptAssumption ==
  /\ Scores \subseteq Nat /\ MaximumDrop \in Nat
  /\ MaxVersions \in Nat \ {0} /\ MaxRuns \in Nat

VARIABLES
  versions,   \* prompt_versions has the rows 1..versions
  active,     \* those with is_active
  runs,       \* evaluation_runs, by id
  req,        \* what each client's request has read, and where it is
  ahead,      \* the requests whose row locks a request's update waits for
  highest     \* history: the highest version that was ever active

vars == <<versions, active, runs, req, ahead, highest>>

Attempts == 3
Idle == [pc |-> "idle"]

(* The metrics are a score, once there is one.                              *)
Run == [version : Nat, status : {"RUNNING", "COMPLETED", "FAILED"},
        metrics : SUBSET Scores, allowed : BOOLEAN]

(* What a request holds between two statements.  "old" is what the session  *)
(* loaded of evaluation_runs along with a version.  History: "seen" is how  *)
(* many versions there were when the request began, "truth" the metrics it  *)
(* should have compared with, "raced" says that a run of the baseline       *)
(* finished while they were read.                                           *)
Requests ==
  {Idle}
    \cup [pc : {"retrying"}, seen : Nat, tries : 1..Attempts]
    \cup [pc : {"inserting"}, seen : Nat, tries : 1..Attempts, next : Nat]
    \cup [pc : {"executing"}, run : Nat]
    \cup [pc : {"comparing"}, run : Nat, score : Scores, ok : BOOLEAN, baseline : Nat,
          old : Seq(Run)]
    \cup [pc : {"finishing"}, run : Nat, score : Scores, allowed : BOOLEAN,
          truth : SUBSET Scores, raced : BOOLEAN]
    \cup [pc : {"loaded"}, version : Nat, old : Seq(Run)]
    \cup [pc : {"rollback"}, version : Nat]
    \cup [pc : {"chosen"}, version : Nat, via : {"activate", "rollback"}, old : Seq(Run)]
    \cup [pc : {"updating"}, version : Nat, via : {"activate", "rollback"}, old : Seq(Run),
          rows : SUBSET Nat]

TypeOK ==
  /\ versions \in 1..MaxVersions
  /\ active \subseteq 1..versions
  /\ runs \in Seq(Run) /\ Len(runs) <= MaxRuns
  /\ req \in [Clients -> Requests]
  /\ ahead \in [Clients -> SUBSET Clients]
  /\ highest \in 1..versions

Init ==
  /\ versions = 1 /\ active = {1} /\ highest = 1
  /\ runs = <<>>
  /\ req = [c \in Clients |-> Idle]
  /\ ahead = [c \in Clients |-> {}]

Goes(c, r) == req' = [req EXCEPT ![c] = r]
At(c, pc) == req[c].pc = pc

-----------------------------------------------------------------------------
(* create() *)

BeginCreate(c) ==
  /\ At(c, "idle")
  /\ versions < MaxVersions
  /\ Goes(c, [pc |-> "inserting", seen |-> versions, tries |-> 1, next |-> versions + 1])
  /\ UNCHANGED <<versions, active, runs, ahead, highest>>

NextVersion == versions + 1

ReadMax(c) ==
  /\ At(c, "retrying")
  /\ Goes(c, [pc |-> "inserting", seen |-> req[c].seen, tries |-> req[c].tries, next |-> NextVersion])
  /\ UNCHANGED <<versions, active, runs, ahead, highest>>

Insert(c) ==
  /\ At(c, "inserting") /\ req[c].next = versions + 1
  /\ versions < MaxVersions
  /\ versions' = versions + 1
  /\ Goes(c, Idle)
  /\ UNCHANGED <<active, runs, ahead, highest>>

LastAttempt(c) == req[c].tries = Attempts

(* The unique constraint on key and version refuses the row.                *)
InsertConflicts(c) ==
  /\ At(c, "inserting") /\ req[c].next <= versions
  /\ \/ /\ ~LastAttempt(c)
        /\ Goes(c, [pc |-> "retrying", seen |-> req[c].seen, tries |-> req[c].tries + 1])
     \/ LastAttempt(c) /\ Goes(c, Idle)
  /\ UNCHANGED <<versions, active, runs, ahead, highest>>

-----------------------------------------------------------------------------
(* EvaluationRunner.run() *)

BeginEvaluation(c) ==
  /\ At(c, "idle") /\ Len(runs) < MaxRuns
  /\ \E v \in 1..versions :
       runs' = Append(runs, [version |-> v, status |-> "RUNNING", metrics |-> {}, allowed |-> FALSE])
  /\ Goes(c, [pc |-> "executing", run |-> Len(runs) + 1])
  /\ UNCHANGED <<versions, active, ahead, highest>>

(* The completed runs of version v; is r the last of S?                     *)
CompletedOf(rs, v) == {r \in DOMAIN rs : rs[r].version = v /\ rs[r].status = "COMPLETED"}
Last(r, S) == \A q \in S : q <= r

(* A select returns rows the session already holds as it holds them: a run  *)
(* that was loaded while it was running still has no metrics.               *)
InSession(old, r) == IF r \in DOMAIN old THEN old[r] ELSE runs[r]

(* All cases are executed and scored; the active version is read, and with  *)
(* it its runs.  "ok" is what safety and judge say.                         *)
ReadActive(c) ==
  /\ At(c, "executing")
  /\ \E score \in Scores, ok \in BOOLEAN, a \in active :
       Goes(c, [pc |-> "comparing", run |-> req[c].run, score |-> score, ok |-> ok,
                baseline |-> a, old |-> runs])
  /\ UNCHANGED <<versions, active, runs, ahead, highest>>

(* The metrics to compare with: none if the run is one of the active        *)
(* version, or if that was never evaluated.                                 *)
BaselineMetrics(c, old) ==
  LET a == req[c].baseline
      done == CompletedOf(runs, a)
  IN UNION {InSession(old, r).metrics :
              r \in {q \in done : a # runs[req[c].run].version /\ Last(q, done)}}

(* Mutant of Regressed: no comparison.                                      *)
NeverRegressed(score, metrics) == FALSE
Regressed(score, metrics) == \E m \in metrics : score + MaximumDrop < m

Compare(c) ==
  /\ At(c, "comparing")
  /\ Goes(c, [pc |-> "finishing", run |-> req[c].run, score |-> req[c].score,
              allowed |-> req[c].ok /\ ~Regressed(req[c].score, BaselineMetrics(c, req[c].old)),
              truth |-> BaselineMetrics(c, <<>>),
              raced |-> \E r \in CompletedOf(runs, req[c].baseline) :
                          r \in DOMAIN req[c].old /\ req[c].old[r].status = "RUNNING"])
  /\ UNCHANGED <<versions, active, runs, ahead, highest>>

FinishRun(c) ==
  /\ At(c, "finishing")
  /\ runs' = [runs EXCEPT ![req[c].run].status = "COMPLETED", ![req[c].run].metrics = {req[c].score},
                          ![req[c].run].allowed = req[c].allowed]
  /\ Goes(c, Idle)
  /\ UNCHANGED <<versions, active, ahead, highest>>

(* A case, the judge or a query raises.                                     *)
EvaluationFails(c) ==
  /\ req[c].pc \in {"executing", "comparing"}
  /\ runs' = [runs EXCEPT ![req[c].run].status = "FAILED"]
  /\ Goes(c, Idle)
  /\ UNCHANGED <<versions, active, ahead, highest>>

-----------------------------------------------------------------------------
(* activate() and rollback() *)

BeginActivate(c) ==
  /\ At(c, "idle")
  /\ \E v \in 1..versions : Goes(c, [pc |-> "loaded", version |-> v, old |-> runs])
  /\ UNCHANGED <<versions, active, runs, ahead, highest>>

(* Mutant of Admits: any completed run will do.                             *)
AnyRunAdmits(old, S) == S # {}
Admits(old, S) == \E r \in S : Last(r, S) /\ InSession(old, r).allowed

GateOpens(c) ==
  /\ At(c, "loaded") /\ Admits(req[c].old, CompletedOf(runs, req[c].version))
  /\ Goes(c, [pc |-> "chosen", version |-> req[c].version, via |-> "activate", old |-> req[c].old])
  /\ UNCHANGED <<versions, active, runs, ahead, highest>>

GateBlocks(c) ==
  /\ At(c, "loaded") /\ ~Admits(req[c].old, CompletedOf(runs, req[c].version))
  /\ Goes(c, Idle)
  /\ UNCHANGED <<versions, active, runs, ahead, highest>>

BeginRollback(c) ==
  /\ At(c, "idle")
  /\ \E a \in active : Goes(c, [pc |-> "rollback", version |-> a])
  /\ UNCHANGED <<versions, active, runs, ahead, highest>>

(* The next lower version, if there is one.                                 *)
ReadPrevious(c) ==
  /\ At(c, "rollback")
  /\ \/ req[c].version = 1 /\ Goes(c, Idle)
     \/ /\ req[c].version > 1
        /\ Goes(c, [pc |-> "chosen", version |-> req[c].version - 1, via |-> "rollback", old |-> <<>>])
  /\ UNCHANGED <<versions, active, runs, ahead, highest>>

(* Mutant of KeyRows: the update only takes the rows that are active.       *)
ActiveRows == active
KeyRows == 1..versions

(* _deactivate_key: the update takes all rows there are when it starts, and *)
(* waits for the locks of the updates that came before it.                  *)
Deactivate(c) ==
  /\ At(c, "chosen")
  /\ Goes(c, [pc |-> "updating", version |-> req[c].version, via |-> req[c].via, old |-> req[c].old,
              rows |-> KeyRows])
  /\ ahead' = [ahead EXCEPT ![c] = {d \in Clients : At(d, "updating")}]
  /\ UNCHANGED <<versions, active, runs, highest>>

(* The locks of c's update are released.                                    *)
Unlocked(c) == [d \in Clients |-> IF d = c THEN {} ELSE ahead[d] \ {c}]

(* The update has its locks, the chosen version is set active, and all is   *)
(* committed.                                                               *)
Commit(c) ==
  /\ At(c, "updating") /\ ahead[c] = {}
  /\ active' = (active \ req[c].rows) \cup {req[c].version}
  /\ highest' = IF req[c].version > highest THEN req[c].version ELSE highest
  /\ ahead' = Unlocked(c)
  /\ Goes(c, Idle)
  /\ UNCHANGED <<versions, runs>>

-----------------------------------------------------------------------------
(* A request ends without an answer: its process or its connection is lost, *)
(* or the database aborts it.  What it did not commit is undone; a run it   *)
(* began stays RUNNING.                                                     *)
Lost(c) ==
  /\ ~At(c, "idle")
  /\ Goes(c, Idle)
  /\ ahead' = Unlocked(c)
  /\ UNCHANGED <<versions, active, runs, highest>>

(* The requests, each answered from one session; what an activation or a    *)
(* rollback chose is made active in the same way.                           *)
Creating(c) == BeginCreate(c) \/ ReadMax(c) \/ Insert(c) \/ InsertConflicts(c)
Evaluating(c) ==
  BeginEvaluation(c) \/ ReadActive(c) \/ Compare(c) \/ FinishRun(c) \/ EvaluationFails(c)
Activating(c) == BeginActivate(c) \/ GateOpens(c) \/ GateBlocks(c) \/ Deactivate(c) \/ Commit(c)
RollingBack(c) == BeginRollback(c) \/ ReadPrevious(c) \/ Deactivate(c) \/ Commit(c)

Step(c) == Creating(c) \/ Evaluating(c) \/ Activating(c) \/ RollingBack(c) \/ Lost(c)

Next == \E c \in Clients : Step(c)

Spec == Init /\ [][Next]_vars

-----------------------------------------------------------------------------
(* Properties *)

(* The key has one active version at every moment a reader can look:        *)
(* resolve() never finds two prompts, and never falls back to the built-in. *)
OneActive == \E v \in 1..versions : active = {v}

Passed(v) == \E r \in DOMAIN runs : runs[r].version = v /\ runs[r].allowed

(* What rollback() can do past the release gate: a version that never       *)
(* passed is active only below one that once was active (version 1 is from  *)
(* the seed script).  The page for admins says that a candidate must pass   *)
(* to be enabled; rollback() goes by version number and asks no gate.       *)
UnpassedOnlyAfterRollback == \A v \in active : v = 1 \/ Passed(v) \/ v < highest

(* Activation goes by a version's last run: whatever runs finish and begin  *)
(* meanwhile, a version is activated on the word of a run that no later one *)
(* had superseded when the request began.                                   *)
ActivatedByLastRun ==
  [][\A c \in Clients :
       (At(c, "updating") /\ req[c].via = "activate" /\ req'[c] = Idle /\ req[c].version \in active')
         => \E r \in CompletedOf(runs, req[c].version) :
              /\ runs[r].allowed
              /\ Last(r, CompletedOf(req[c].old, req[c].version))]_vars

(* create() only gives up if other requests created as many versions, since *)
(* it began, as it made attempts.                                           *)
ConflictOnlyIfBeaten ==
  \A c \in Clients :
    (At(c, "inserting") /\ req[c].tries = Attempts /\ req[c].next <= versions)
      => versions >= req[c].seen + Attempts

(* A run that fell below the last metrics of the active version does not    *)
(* allow a release, as the tests say of the gate, unless a run of that      *)
(* version finished between the two statements that read its metrics.       *)
RegressionSlipsOnlyIfRaced ==
  \A c \in Clients :
    (At(c, "finishing") /\ req[c].allowed /\ ~req[c].raced) =>
      \A m \in req[c].truth : req[c].score + MaximumDrop >= m
=============================================================================
