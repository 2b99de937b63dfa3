-------------------------- MODULE DocumentLifecycle --------------------------
(***************************************************************************)
(* What the documents table promises to its readers, without files,        *)
(* vectors, jobs or crashes: a document is uploaded once, every run starts *)
(* by being counted and there are at most MaxRuns of them, READY is only   *)
(* reached from a counted run in progress, and deletion is final.          *)
(***************************************************************************)
EXTENDS Naturals

CONSTANTS DocIds, MaxRuns

VARIABLES status, runs

Live == {d \in DocIds : status[d] \in {"PROCESSING", "READY", "FAILED"}}

Init ==
  /\ status = [d \in DocIds |-> "FREE"]
  /\ runs = [d \in DocIds |-> 0]

Upload(d) ==
  /\ status[d] = "FREE"
  /\ status' = [status EXCEPT ![d] = "PROCESSING"]
  /\ UNCHANGED runs

StartRun(d) ==
  /\ d \in Live
  /\ runs[d] < MaxRuns
  /\ status' = [status EXCEPT ![d] = "PROCESSING"]
  /\ runs' = [runs EXCEPT ![d] = @ + 1]

Succeed(d) ==
  /\ status[d] = "PROCESSING"
  /\ runs[d] > 0
  /\ status' = [status EXCEPT ![d] = "READY"]
  /\ UNCHANGED runs

Fail(d) ==
  /\ d \in Live
  /\ status' = [status EXCEPT ![d] = "FAILED"]
  /\ UNCHANGED runs

Delete(gone) ==
  /\ gone \subseteq Live
  /\ status' = [d \in DocIds |-> IF d \in gone THEN "DELETED" ELSE status[d]]
  /\ UNCHANGED runs

Next ==
  \/ \E d \in DocIds : Upload(d) \/ StartRun(d) \/ Succeed(d) \/ Fail(d)
  \/ \E gone \in SUBSET DocIds : Delete(gone)

Spec == Init /\ [][Next]_<<status, runs>>
=============================================================================
