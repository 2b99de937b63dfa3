------------------------------ MODULE Monitoring ------------------------------
(***************************************************************************)
(* MonitoringService: requests record events into a bounded queue without  *)
(* waiting, one consumer task writes them to PostgreSQL in batches, and    *)
(* the application's lifespan starts and stops the consumer.  All of it    *)
(* runs on one event loop, so an action ends where the code awaits.        *)
(*                                                                         *)
(* Events are numbered in the order record() is called for them.           *)
(***************************************************************************)
EXTENDS Naturals, Sequences, FiniteSets

CONSTANTS
  QueueMax,   \* queue_max_size
  BatchSize,  \* batch_size
  MaxEvents   \* bound on the events recorded

ASSUME MonitoringAssumption ==
  QueueMax \in Nat \ {0} /\ BatchSize \in Nat \ {0} /\ MaxEvents \in Nat

VARIABLES
  recorded,  \* how many events were recorded so far
  queue,     \* the events that wait
  task,      \* the consumer task: where it is, and the batch it writes
  stopping,  \* is stop() waiting for the task?
  stopFlag,  \* _stop_requested
  stopMark,  \* history: recorded when stop() was last called
  log,       \* rows of the table, in the order of their commits
  lost       \* history: events refused, of a failed write, of a cancelled one

vars == <<recorded, queue, task, stopping, stopFlag, stopMark, log, lost>>

NoTask == [pc |-> "none", batch |-> <<>>]

RangeOf(s) == {s[i] : i \in 1..Len(s)}
Events == 1..MaxEvents

TypeOK ==
  /\ recorded \in 0..MaxEvents
  /\ queue \in Seq(Events) /\ Len(queue) <= QueueMax
  /\ task \in [pc : {"none", "created", "waiting", "writing", "done"}, batch : Seq(Events)]
  /\ Len(task.batch) <= BatchSize /\ (task.pc = "writing" <=> task.batch # <<>>)
  /\ stopping \in BOOLEAN /\ stopFlag \in BOOLEAN /\ stopMark \in 0..MaxEvents
  /\ log \in Seq(Events)
  /\ lost \in [refused : SUBSET Events, failed : SUBSET Events, cancelled : SUBSET Events]

Init ==
  /\ recorded = 0 /\ queue = <<>> /\ log = <<>>
  /\ task = NoTask
  /\ stopping = FALSE /\ stopFlag = FALSE /\ stopMark = 0
  /\ lost = [refused |-> {}, failed |-> {}, cancelled |-> {}]

-----------------------------------------------------------------------------
(* record() *)

HasRoom == Len(queue) < QueueMax

(* put_nowait, or the event is dropped.                                     *)
Record ==
  /\ recorded < MaxEvents
  /\ recorded' = recorded + 1
  /\ \/ HasRoom /\ queue' = Append(queue, recorded + 1) /\ lost' = lost
     \/ /\ ~HasRoom
        /\ lost' = [lost EXCEPT !.refused = @ \cup {recorded + 1}]
        /\ queue' = queue
  /\ UNCHANGED <<task, stopping, stopFlag, stopMark, log>>

-----------------------------------------------------------------------------
(* The consumer *)

(* Mutant of Finished: the loop ends as soon as it is asked to.             *)
FinishedUndrained == stopFlag
Finished == stopFlag /\ queue = <<>>

(* Mutant of NextBatch: the newest events first.                            *)
NewestFirst == [batch |-> <<queue[Len(queue)]>>, rest |-> SubSeq(queue, 1, Len(queue) - 1)]

(* The batch _next_batch takes from a queue that is not empty.              *)
NextBatch ==
  LET n == IF Len(queue) < BatchSize THEN Len(queue) ELSE BatchSize IN
  [batch |-> SubSeq(queue, 1, n), rest |-> SubSeq(queue, n + 1, Len(queue))]

(* The loop from its test to the next await: it ends, or writes a batch if  *)
(* there are events, or waits for the first one.                            *)
Iterate ==
  \/ /\ Finished
     /\ task' = [pc |-> "done", batch |-> <<>>]
     /\ UNCHANGED queue
  \/ /\ ~Finished /\ queue # <<>>
     /\ task' = [pc |-> "writing", batch |-> NextBatch.batch]
     /\ queue' = NextBatch.rest
  \/ /\ ~Finished /\ queue = <<>>
     /\ task' = [pc |-> "waiting", batch |-> <<>>]
     /\ UNCHANGED queue

TaskBegins ==
  /\ task.pc = "created"
  /\ Iterate
  /\ UNCHANGED <<recorded, stopping, stopFlag, stopMark, log, lost>>

(* queue.get() returns the first event of a batch; the stop flag is not     *)
(* asked again before the batch is written.                                 *)
GetReturns ==
  /\ task.pc = "waiting"
  /\ queue # <<>>
  /\ task' = [pc |-> "writing", batch |-> NextBatch.batch]
  /\ queue' = NextBatch.rest
  /\ UNCHANGED <<recorded, stopping, stopFlag, stopMark, log, lost>>

(* The flush interval ends without an event, or just as one arrives, which  *)
(* then stays in the queue.                                                 *)
FlushInterval ==
  /\ task.pc = "waiting"
  /\ Iterate
  /\ UNCHANGED <<recorded, stopping, stopFlag, stopMark, log, lost>>

WriteReturns ==
  /\ task.pc = "writing"
  /\ log' = log \o task.batch
  /\ Iterate
  /\ UNCHANGED <<recorded, stopping, stopFlag, stopMark, lost>>

(* Mutant of AfterWriteError: the exception ends the task.                  *)
ErrorEndsTask == task' = [pc |-> "done", batch |-> <<>>] /\ UNCHANGED queue
AfterWriteError == Iterate

(* write() raises: the batch is given up, also if the commit went through   *)
(* and only its confirmation was lost.                                      *)
WriteRaises ==
  /\ task.pc = "writing"
  /\ \/ log' = log \o task.batch /\ lost' = lost
     \/ log' = log /\ lost' = [lost EXCEPT !.failed = @ \cup RangeOf(task.batch)]
  /\ AfterWriteError
  /\ UNCHANGED <<recorded, stopping, stopFlag, stopMark>>

-----------------------------------------------------------------------------
(* start() and stop(), which the lifespan calls in turn *)

Start ==
  /\ ~stopping
  /\ task.pc \in {"none", "done"}
  /\ stopFlag' = FALSE
  /\ task' = [pc |-> "created", batch |-> <<>>]
  /\ UNCHANGED <<recorded, queue, stopping, stopMark, log, lost>>

Stop ==
  /\ ~stopping
  /\ task.pc # "none"
  /\ stopping' = TRUE
  /\ stopFlag' = TRUE
  /\ stopMark' = recorded
  /\ UNCHANGED <<recorded, queue, task, log, lost>>

(* The task ended within the timeout of stop().                             *)
StopReturns ==
  /\ stopping
  /\ task.pc = "done"
  /\ stopping' = FALSE
  /\ task' = NoTask
  /\ UNCHANGED <<recorded, queue, stopFlag, stopMark, log, lost>>

(* Mutant of TimeIsUp: stop() waits for the task however long it takes.     *)
NeverUp == FALSE
TimeIsUp == stopping /\ task.pc # "done"

(* The task is cancelled where it waits.  A write that is interrupted may   *)
(* have been committed or not.                                              *)
StopTimesOut ==
  /\ TimeIsUp
  /\ \/ log' = log \o task.batch /\ lost' = lost
     \/ log' = log /\ lost' = [lost EXCEPT !.cancelled = @ \cup RangeOf(task.batch)]
  /\ stopping' = FALSE
  /\ task' = NoTask
  /\ UNCHANGED <<recorded, queue, stopFlag, stopMark>>

-----------------------------------------------------------------------------
Write == WriteReturns \/ WriteRaises
Consume == TaskBegins \/ GetReturns \/ FlushInterval

Next == Record \/ Consume \/ Write \/ Start \/ Stop \/ StopReturns \/ StopTimesOut

Spec == Init /\ [][Next]_vars

(* The event loop runs what is ready and fires the timers of wait_for.  No  *)
(* write need ever end.                                                     *)
Fairness ==
  WF_vars(Consume) /\ WF_vars(StopReturns) /\ WF_vars(StopTimesOut)

FairSpec == Spec /\ Fairness

-----------------------------------------------------------------------------
(* Properties *)

(* The table keeps the promise of LossyLog to its readers: events appear in *)
(* the order they were recorded, none twice, batch by batch, across         *)
(* failures, stops and restarts.                                            *)
Excerpt == INSTANCE LossyLog WITH
             MaxPending <- QueueMax + BatchSize,
             MaxBlock   <- BatchSize,
             pending    <- task.batch \o queue
ImplementsLossyLog == Excerpt!Spec

(* No event disappears without a cause: each one that was recorded is in    *)
(* the queue, being written, in the table, or it was refused by a full      *)
(* queue, part of a failed write, or cut off by a stop that timed out.      *)
AccountedFor ==
  1..recorded = RangeOf(queue) \cup RangeOf(task.batch) \cup RangeOf(log)
                  \cup lost.refused \cup lost.failed \cup lost.cancelled

(* A stop that need not cancel the consumer leaves nothing of what was      *)
(* recorded before it: the queue then only holds later events.              *)
StopDrains ==
  task.pc = "done" => \A e \in RangeOf(queue) : e > stopMark

(* stop() returns, also when a write hangs and when requests keep recording *)
(* events that keep the consumer from finding the queue empty.              *)
StopEnds == stopping ~> ~stopping

(* As long as writes end, by success or failure, and the service is not     *)
(* stopped, every event leaves the queue: no failed write ends the consumer.*)
WritesEnd == WF_vars(Write)
Running == task.pc # "none" /\ ~stopping
QueueMoves ==
  WritesEnd =>
    \A e \in Events : Running /\ e \in RangeOf(queue) ~> (e \notin RangeOf(queue) \/ ~Running)
=============================================================================
