--------------------------- MODULE MonitoringProofs ---------------------------
(***************************************************************************)
(* Proofs about Monitoring for every queue, every batch size and every     *)
(* number of events.                                                       *)
(***************************************************************************)
EXTENDS Monitoring, SequenceTheorems, TLAPS

(* Two pieces of a sequence: their members, and what they are together.     *)
LEMMA RangeOfAppend ==
  ASSUME NEW S, NEW s \in Seq(S), NEW e \in S
  PROVE  RangeOf(Append(s, e)) = RangeOf(s) \cup {e}
<1>1. Len(Append(s, e)) = Len(s) + 1 /\ Len(s) \in Nat
  OBVIOUS
<1>2. \A i \in 1..Len(s) : Append(s, e)[i] = s[i]
  OBVIOUS
<1>3. Append(s, e)[Len(s) + 1] = e
  OBVIOUS
<1>4. 1..Len(s) + 1 = (1..Len(s)) \cup {Len(s) + 1}
  BY <1>1
<1> QED
  BY <1>1, <1>2, <1>3, <1>4 DEF RangeOf

LEMMA RangeOfConcat ==
  ASSUME NEW S, NEW s \in Seq(S), NEW t \in Seq(S)
  PROVE  RangeOf(s \o t) = RangeOf(s) \cup RangeOf(t)
<1> DEFINE u == s \o t
<1>1. Len(s) \in Nat /\ Len(t) \in Nat /\ Len(u) = Len(s) + Len(t)
  OBVIOUS
<1>2. \A i \in 1..Len(s) : u[i] = s[i]
  OBVIOUS
<1>3. \A i \in 1..Len(t) : u[Len(s) + i] = t[i]
  OBVIOUS
<1> HIDE DEF u
<1>4. ASSUME NEW e \in RangeOf(u)
      PROVE  e \in RangeOf(s) \cup RangeOf(t)
  <2>1. PICK i \in 1..Len(u) : e = u[i]
    BY <1>4 DEF RangeOf
  <2>2. CASE i <= Len(s)
    BY <1>1, <1>2, <2>1, <2>2 DEF RangeOf
  <2>3. CASE ~(i <= Len(s))
    <3>1. i - Len(s) \in 1..Len(t) /\ i = Len(s) + (i - Len(s))
      BY <1>1, <2>1, <2>3
    <3> QED
      BY <1>3, <2>1, <3>1 DEF RangeOf
  <2> QED
    BY <2>2, <2>3
<1>5. ASSUME NEW e \in RangeOf(s) \cup RangeOf(t)
      PROVE  e \in RangeOf(u)
  <2>1. CASE e \in RangeOf(s)
    BY <1>1, <1>2, <2>1 DEF RangeOf
  <2>2. CASE e \in RangeOf(t)
    <3>1. PICK i \in 1..Len(t) : e = t[i]
      BY <2>2 DEF RangeOf
    <3>2. Len(s) + i \in 1..Len(u)
      BY <1>1, <3>1
    <3> QED
      BY <1>3, <3>1, <3>2 DEF RangeOf
  <2> QED
    BY <1>5, <2>1, <2>2
<1> QED
  BY <1>4, <1>5 DEF u

(* What _next_batch takes is the front of the queue, no more than a batch.  *)
LEMMA BatchAndRest ==
  ASSUME MonitoringAssumption, queue \in Seq(Events), queue # <<>>
  PROVE  \E n \in 1..BatchSize :
           /\ n <= Len(queue)
           /\ NextBatch.batch = SubSeq(queue, 1, n)
           /\ NextBatch.rest = SubSeq(queue, n + 1, Len(queue))
<1> DEFINE n == IF Len(queue) < BatchSize THEN Len(queue) ELSE BatchSize
<1>1. Len(queue) \in Nat \ {0} /\ BatchSize \in Nat \ {0}
  BY DEF MonitoringAssumption
<1>2. n \in 1..BatchSize /\ n <= Len(queue)
  BY <1>1
<1>3. NextBatch.batch = SubSeq(queue, 1, n) /\ NextBatch.rest = SubSeq(queue, n + 1, Len(queue))
  BY DEF NextBatch
<1> QED
  BY <1>2, <1>3

LEMMA Split ==
  ASSUME NEW S, NEW s \in Seq(S), NEW n \in 1..Len(s)
  PROVE  /\ SubSeq(s, 1, n) \in Seq(S) /\ SubSeq(s, n + 1, Len(s)) \in Seq(S)
         /\ Len(SubSeq(s, 1, n)) = n /\ Len(SubSeq(s, n + 1, Len(s))) = Len(s) - n
         /\ SubSeq(s, 1, n) # <<>>
         /\ SubSeq(s, 1, n) \o SubSeq(s, n + 1, Len(s)) = s
<1>1. Len(s) \in Nat
  OBVIOUS
<1>2. SubSeq(s, 1, n) \in Seq(S) /\ Len(SubSeq(s, 1, n)) = n
  BY <1>1
<1>3. SubSeq(s, n + 1, Len(s)) \in Seq(S) /\ Len(SubSeq(s, n + 1, Len(s))) = Len(s) - n
  BY <1>1
<1>4. SubSeq(s, 1, n) \o SubSeq(s, n + 1, Len(s)) = SubSeq(s, 1, Len(s))
  BY <1>1, ConcatAdjacentSubSeq
<1>5. SubSeq(s, 1, Len(s)) = s
  BY SubSeqFull
<1>6. SubSeq(s, 1, n) # <<>>
  BY <1>2
<1> QED
  BY <1>2, <1>3, <1>4, <1>5, <1>6

(* What the consumer does between two awaits: it puts the front of the      *)
(* queue into its batch, or nothing, and ends only if the queue is empty.   *)
Tasks == [pc : {"none", "created", "waiting", "writing", "done"}, batch : Seq(Events)]

TakesBatch ==
  /\ queue' \in Seq(Events) /\ Len(queue') <= QueueMax
  /\ task' \in Tasks /\ task'.pc # "none"
  /\ Len(task'.batch) <= BatchSize /\ (task'.pc = "writing" <=> task'.batch # <<>>)
  /\ task'.batch \o queue' = queue
  /\ task'.pc = "done" => stopFlag /\ queue' = <<>>

LEMMA TakingABatch ==
  ASSUME MonitoringAssumption, TypeOK, queue # <<>>,
         task' = [pc |-> "writing", batch |-> NextBatch.batch],
         queue' = NextBatch.rest
  PROVE  TakesBatch
<1>1. queue \in Seq(Events) /\ Len(queue) <= QueueMax /\ Len(queue) \in Nat
      /\ QueueMax \in Nat /\ BatchSize \in Nat
  BY DEF TypeOK, MonitoringAssumption
<1>2. PICK n \in 1..BatchSize :
        /\ n <= Len(queue)
        /\ NextBatch.batch = SubSeq(queue, 1, n)
        /\ NextBatch.rest = SubSeq(queue, n + 1, Len(queue))
  BY <1>1, BatchAndRest
<1>3. n \in 1..Len(queue)
  BY <1>1, <1>2
<1> DEFINE b == NextBatch.batch
           r == NextBatch.rest
<1>4. /\ b \in Seq(Events) /\ r \in Seq(Events)
      /\ Len(b) = n /\ Len(r) = Len(queue) - n
      /\ b # <<>> /\ b \o r = queue
  <2>1. b = SubSeq(queue, 1, n) /\ r = SubSeq(queue, n + 1, Len(queue))
    BY <1>2
  <2> HIDE DEF b, r
  <2> QED
    BY <1>1, <1>3, <2>1, Split
<1> HIDE DEF b, r
<1>5. task' = [pc |-> "writing", batch |-> b] /\ queue' = r
  BY DEF b, r
<1>6. task' \in Tasks /\ task'.pc = "writing" /\ task'.batch = b
  BY <1>4, <1>5 DEF Tasks
<1>7. Len(queue') <= QueueMax /\ Len(task'.batch) <= BatchSize
  BY <1>1, <1>2, <1>4, <1>5, <1>6
<1> QED
  BY <1>4, <1>5, <1>6, <1>7 DEF TakesBatch

LEMMA TakingNothing ==
  ASSUME MonitoringAssumption, TypeOK, UNCHANGED queue,
         NEW pc \in {"done", "waiting"}, pc = "done" => Finished,
         task' = [pc |-> pc, batch |-> <<>>]
  PROVE  TakesBatch
<1>1. queue \in Seq(Events) /\ Len(queue) <= QueueMax /\ BatchSize \in Nat
  BY DEF TypeOK, MonitoringAssumption
<1>2. task' \in Tasks /\ task'.pc = pc /\ task'.batch = <<>>
  BY DEF Tasks
<1>3. <<>> \o queue = queue
  BY <1>1
<1>4. Len(<<>>) <= BatchSize
  BY <1>1
<1> QED
  BY <1>1, <1>2, <1>3, <1>4 DEF TakesBatch, Finished

LEMMA Iterating ==
  ASSUME MonitoringAssumption, TypeOK, Iterate
  PROVE  TakesBatch
<1>1. CASE Finished /\ task' = [pc |-> "done", batch |-> <<>>] /\ UNCHANGED queue
  BY <1>1, TakingNothing
<1>2. CASE /\ queue # <<>>
           /\ task' = [pc |-> "writing", batch |-> NextBatch.batch]
           /\ queue' = NextBatch.rest
  BY <1>2, TakingABatch
<1>3. CASE task' = [pc |-> "waiting", batch |-> <<>>] /\ UNCHANGED queue
  BY <1>3, TakingNothing
<1> QED
  BY <1>1, <1>2, <1>3 DEF Iterate

LEMMA NothingLostInTaking ==
  ASSUME TakesBatch
  PROVE  RangeOf(queue) = RangeOf(task'.batch) \cup RangeOf(queue')
<1> DEFINE b == task'.batch
           q == queue'
<1>1. b \in Seq(Events) /\ q \in Seq(Events)
  BY DEF TakesBatch, Tasks
<1>2. b \o q = queue
  BY DEF TakesBatch
<1> HIDE DEF b, q
<1>3. RangeOf(b \o q) = RangeOf(b) \cup RangeOf(q)
  BY <1>1, RangeOfConcat
<1> QED
  BY <1>2, <1>3 DEF b, q

-----------------------------------------------------------------------------
(* A task that is asked to stop is waited for, until it has ended or is     *)
(* cancelled: only then can it be "done".                                   *)
AskedToStop ==
  /\ stopMark <= recorded
  /\ task.pc = "done" => stopping /\ stopFlag
  /\ stopFlag /\ task.pc # "none" => stopping

IInv == TypeOK /\ AccountedFor /\ StopDrains /\ AskedToStop

LEMMA Initially == ASSUME MonitoringAssumption, Init PROVE IInv
<1>1. RangeOf(<<>>) = {}
  BY DEF RangeOf
<1>2. TypeOK
  <2>1. <<>> \in Seq(Events) /\ Len(<<>>) = 0 /\ 0 \in 0..MaxEvents
    BY DEF MonitoringAssumption
  <2>2. QueueMax \in Nat /\ BatchSize \in Nat
    BY DEF MonitoringAssumption
  <2>3. lost \in [refused : SUBSET Events, failed : SUBSET Events, cancelled : SUBSET Events]
    BY DEF Init
  <2>4. task \in [pc : {"none", "created", "waiting", "writing", "done"}, batch : Seq(Events)]
        /\ task.pc = "none" /\ task.batch = <<>>
    BY <2>1 DEF Init, NoTask
  <2>5. Len(queue) <= QueueMax /\ Len(task.batch) <= BatchSize
    BY <2>1, <2>2, <2>4 DEF Init
  <2>6. task.pc = "writing" <=> task.batch # <<>>
    BY <2>4
  <2> QED
    BY <2>1, <2>3, <2>4, <2>5, <2>6 DEF Init, TypeOK
<1>3. AccountedFor
  BY <1>1 DEF Init, AccountedFor, NoTask
<1>4. StopDrains /\ AskedToStop
  BY DEF Init, StopDrains, AskedToStop, NoTask
<1> QED
  BY <1>2, <1>3, <1>4 DEF IInv

(* Shape of the state, in the form the steps use.                           *)
LEMMA Shape ==
  ASSUME MonitoringAssumption, IInv
  PROVE  /\ recorded \in 0..MaxEvents /\ MaxEvents \in Nat /\ stopMark \in 0..MaxEvents
         /\ queue \in Seq(Events) /\ Len(queue) \in Nat
         /\ task \in Tasks /\ task.batch \in Seq(Events) /\ log \in Seq(Events)
         /\ lost.refused \subseteq Events /\ lost.failed \subseteq Events
         /\ lost.cancelled \subseteq Events
         /\ lost = [refused |-> lost.refused, failed |-> lost.failed, cancelled |-> lost.cancelled]
         /\ RangeOf(queue) \subseteq 1..recorded /\ RangeOf(task.batch) \subseteq Events
BY DEF MonitoringAssumption, IInv, TypeOK, Tasks, AccountedFor, RangeOf

(* The consumer's steps that take a batch while it holds none.              *)
LEMMA ConsumeStep ==
  ASSUME MonitoringAssumption, IInv, Consume
  PROVE  IInv' /\ TakesBatch /\ task.batch = <<>> /\ UNCHANGED <<recorded, stopMark, log, lost>>
<1>1. TakesBatch
  BY Iterating, TakingABatch DEF IInv, Consume, TaskBegins, GetReturns, FlushInterval
<1>2. /\ task.batch = <<>> /\ task.pc \in {"created", "waiting"}
      /\ UNCHANGED <<recorded, stopping, stopFlag, stopMark, log, lost>>
  BY DEF IInv, TypeOK, Consume, TaskBegins, GetReturns, FlushInterval
<1>3. TypeOK'
  BY <1>1, <1>2 DEF IInv, TypeOK, TakesBatch, Tasks
<1>4. RangeOf(queue) = RangeOf(task'.batch) \cup RangeOf(queue') /\ RangeOf(<<>>) = {}
  <2>1. RangeOf(queue) = RangeOf(task'.batch) \cup RangeOf(queue')
    BY <1>1, NothingLostInTaking
  <2>2. RangeOf(<<>>) = {}
    BY DEF RangeOf
  <2> QED
    BY <2>1, <2>2
<1>5. AccountedFor'
  BY <1>2, <1>4 DEF IInv, AccountedFor
<1>6. StopDrains' /\ AskedToStop'
  BY <1>1, <1>2, <1>4 DEF IInv, StopDrains, AskedToStop, TakesBatch
<1> QED
  BY <1>1, <1>2, <1>3, <1>5, <1>6 DEF IInv

(* What the end of a write leaves: the events of the batch are in the table *)
(* or counted as lost, and the next batch is taken.                         *)
LEMMA WriteStep ==
  ASSUME MonitoringAssumption, IInv, Write
  PROVE  /\ IInv' /\ TakesBatch /\ task.batch # <<>> /\ UNCHANGED <<recorded, stopMark>>
         /\ log' = log \o task.batch \/ log' = log
<1>1. /\ TakesBatch
      /\ task.pc = "writing"
      /\ UNCHANGED <<recorded, stopping, stopFlag, stopMark>>
      /\ \/ log' = log \o task.batch /\ lost' = lost
         \/ log' = log /\ lost' = [lost EXCEPT !.failed = @ \cup RangeOf(task.batch)]
  BY Iterating DEF IInv, Write, WriteReturns, WriteRaises, AfterWriteError
<1>2. /\ log' \in Seq(Events)
      /\ RangeOf(log') \cup lost'.refused \cup lost'.failed \cup lost'.cancelled
           = RangeOf(log) \cup lost.refused \cup lost.failed \cup lost.cancelled
               \cup RangeOf(task.batch)
      /\ lost' \in [refused : SUBSET Events, failed : SUBSET Events, cancelled : SUBSET Events]
  <2>1. CASE log' = log \o task.batch /\ lost' = lost
    <3>1. log \o task.batch \in Seq(Events)
          /\ RangeOf(log \o task.batch) = RangeOf(log) \cup RangeOf(task.batch)
      BY Shape, RangeOfConcat
    <3> QED
      BY <2>1, <3>1 DEF IInv, TypeOK
  <2>2. CASE log' = log /\ lost' = [lost EXCEPT !.failed = @ \cup RangeOf(task.batch)]
    <3> DEFINE f == lost.failed \cup RangeOf(task.batch)
    <3>1. f \subseteq Events
      BY Shape
    <3>2. lost' = [refused |-> lost.refused, failed |-> f, cancelled |-> lost.cancelled]
      BY <2>2, Shape
    <3> HIDE DEF f
    <3>3. lost'.refused = lost.refused /\ lost'.failed = f /\ lost'.cancelled = lost.cancelled
          /\ lost' \in [refused : SUBSET Events, failed : SUBSET Events, cancelled : SUBSET Events]
      BY <3>1, <3>2, Shape
    <3> QED
      BY <2>2, <3>3, Shape DEF f
  <2> QED
    BY <1>1, <2>1, <2>2
<1>3. TypeOK'
  BY <1>1, <1>2 DEF IInv, TypeOK, TakesBatch, Tasks
<1>4. RangeOf(queue) = RangeOf(task'.batch) \cup RangeOf(queue')
  BY <1>1, NothingLostInTaking
<1>5. AccountedFor'
  BY <1>1, <1>2, <1>4 DEF IInv, AccountedFor
<1>6. StopDrains' /\ AskedToStop'
  BY <1>1 DEF IInv, StopDrains, AskedToStop, TakesBatch, RangeOf
<1>7. task.batch # <<>>
  BY <1>1 DEF IInv, TypeOK
<1> QED
  BY <1>1, <1>3, <1>5, <1>6, <1>7 DEF IInv

LEMMA RecordStep ==
  ASSUME MonitoringAssumption, IInv, Record
  PROVE  IInv'
<1> DEFINE new == recorded + 1
<1>1. new \in Events /\ new \in 0..MaxEvents /\ recorded' = new
      /\ 1..new = (1..recorded) \cup {new} /\ new > stopMark
      /\ UNCHANGED <<task, stopping, stopFlag, stopMark, log>>
  BY Shape DEF Record, Events, IInv, AskedToStop
<1> HIDE DEF new
<1>2. CASE HasRoom /\ queue' = Append(queue, new) /\ lost' = lost
  <2>1. queue' \in Seq(Events) /\ Len(queue') <= QueueMax
    BY <1>1, <1>2, Shape DEF HasRoom, MonitoringAssumption
  <2>2. RangeOf(queue') = RangeOf(queue) \cup {new}
    BY <1>1, <1>2, Shape, RangeOfAppend
  <2>3. TypeOK'
    BY <1>1, <1>2, <2>1 DEF IInv, TypeOK
  <2>4. AccountedFor'
    BY <1>1, <1>2, <2>2 DEF IInv, AccountedFor
  <2>5. StopDrains' /\ AskedToStop'
    BY <1>1, <1>2, <2>2, Shape DEF IInv, StopDrains, AskedToStop
  <2> QED
    BY <2>3, <2>4, <2>5 DEF IInv
<1>3. CASE queue' = queue /\ lost' = [lost EXCEPT !.refused = @ \cup {new}]
  <2> DEFINE f == lost.refused \cup {new}
  <2>1. f \subseteq Events
    BY <1>1, Shape
  <2>2. lost' = [refused |-> f, failed |-> lost.failed, cancelled |-> lost.cancelled]
    BY <1>3, Shape
  <2> HIDE DEF f
  <2>3. lost'.refused = f /\ lost'.failed = lost.failed /\ lost'.cancelled = lost.cancelled
        /\ lost' \in [refused : SUBSET Events, failed : SUBSET Events, cancelled : SUBSET Events]
    BY <2>1, <2>2, Shape
  <2>4. TypeOK'
    BY <1>1, <1>3, <2>3 DEF IInv, TypeOK
  <2>5. AccountedFor'
    BY <1>1, <1>3, <2>3 DEF IInv, AccountedFor, f
  <2>6. StopDrains' /\ AskedToStop'
    BY <1>1, <1>3, Shape DEF IInv, StopDrains, AskedToStop
  <2> QED
    BY <2>4, <2>5, <2>6 DEF IInv
<1> QED
  BY <1>2, <1>3 DEF Record, new

(* start() and the two ends of stop() leave no batch; what a cancelled      *)
(* write was about is in the table or counted as cancelled.                 *)
LEMMA LifespanStep ==
  ASSUME MonitoringAssumption, IInv, Start \/ Stop \/ StopReturns \/ StopTimesOut
  PROVE  /\ IInv'
         /\ \/ task'.batch = task.batch /\ log' = log
            \/ task'.batch = <<>> /\ (log' = log \o task.batch \/ log' = log)
         /\ UNCHANGED <<recorded, queue>>
<1>1. CASE Start
  <2>1. /\ task' = [pc |-> "created", batch |-> <<>>] /\ task.batch = <<>>
        /\ stopFlag' = FALSE /\ ~stopping
        /\ UNCHANGED <<recorded, queue, stopping, stopMark, log, lost>>
    BY <1>1 DEF IInv, TypeOK, Start
  <2>2. task' \in Tasks /\ task'.pc = "created" /\ task'.batch = <<>>
        /\ Len(<<>>) <= BatchSize
    BY <2>1 DEF Tasks, MonitoringAssumption
  <2>3. TypeOK'
    BY <2>1, <2>2 DEF IInv, TypeOK, Tasks
  <2>4. AccountedFor' /\ StopDrains' /\ AskedToStop'
    BY <2>1, <2>2 DEF IInv, AccountedFor, StopDrains, AskedToStop
  <2> QED
    BY <2>1, <2>2, <2>3, <2>4 DEF IInv
<1>2. CASE Stop
  <2>1. /\ stopping' = TRUE /\ stopFlag' = TRUE /\ stopMark' = recorded
        /\ ~stopping /\ task.pc # "none"
        /\ UNCHANGED <<recorded, queue, task, log, lost>>
    BY <1>2 DEF Stop
  <2>2. TypeOK'
    BY <2>1 DEF IInv, TypeOK
  <2>3. task.pc # "done"
    BY <2>1 DEF IInv, AskedToStop
  <2>4. AccountedFor' /\ StopDrains' /\ AskedToStop'
    BY <2>1, <2>3, Shape DEF IInv, AccountedFor, StopDrains, AskedToStop
  <2> QED
    BY <2>1, <2>2, <2>4 DEF IInv
<1>3. CASE StopReturns
  <2>1. /\ task' = [pc |-> "none", batch |-> <<>>] /\ task.batch = <<>>
        /\ stopping' = FALSE
        /\ UNCHANGED <<recorded, queue, stopFlag, stopMark, log, lost>>
    BY <1>3 DEF IInv, TypeOK, StopReturns, NoTask
  <2>2. task' \in Tasks /\ task'.pc = "none" /\ task'.batch = <<>>
        /\ Len(<<>>) <= BatchSize
    BY <2>1 DEF Tasks, MonitoringAssumption
  <2>3. TypeOK'
    BY <2>1, <2>2 DEF IInv, TypeOK, Tasks
  <2>4. AccountedFor' /\ StopDrains' /\ AskedToStop'
    BY <2>1, <2>2 DEF IInv, AccountedFor, StopDrains, AskedToStop
  <2> QED
    BY <2>1, <2>2, <2>3, <2>4 DEF IInv
<1>4. CASE StopTimesOut
  <2>1. /\ task' = [pc |-> "none", batch |-> <<>>]
        /\ stopping' = FALSE
        /\ \/ log' = log \o task.batch /\ lost' = lost
           \/ log' = log /\ lost' = [lost EXCEPT !.cancelled = @ \cup RangeOf(task.batch)]
        /\ UNCHANGED <<recorded, queue, stopFlag, stopMark>>
    BY <1>4 DEF StopTimesOut, NoTask
  <2>2. task' \in Tasks /\ task'.pc = "none" /\ task'.batch = <<>>
        /\ Len(<<>>) <= BatchSize /\ RangeOf(<<>>) = {}
    BY <2>1 DEF Tasks, MonitoringAssumption, RangeOf
  <2>3. /\ log' \in Seq(Events)
        /\ RangeOf(log') \cup lost'.refused \cup lost'.failed \cup lost'.cancelled
             = RangeOf(log) \cup lost.refused \cup lost.failed \cup lost.cancelled
                 \cup RangeOf(task.batch)
        /\ lost' \in [refused : SUBSET Events, failed : SUBSET Events, cancelled : SUBSET Events]
    <3>1. CASE log' = log \o task.batch /\ lost' = lost
      <4>1. log \o task.batch \in Seq(Events)
            /\ RangeOf(log \o task.batch) = RangeOf(log) \cup RangeOf(task.batch)
        BY Shape, RangeOfConcat
      <4> QED
        BY <3>1, <4>1 DEF IInv, TypeOK
    <3>2. CASE log' = log /\ lost' = [lost EXCEPT !.cancelled = @ \cup RangeOf(task.batch)]
      <4> DEFINE f == lost.cancelled \cup RangeOf(task.batch)
      <4>1. f \subseteq Events
        BY Shape
      <4>2. lost' = [refused |-> lost.refused, failed |-> lost.failed, cancelled |-> f]
        BY <3>2, Shape
      <4> HIDE DEF f
      <4>3. lost'.refused = lost.refused /\ lost'.failed = lost.failed /\ lost'.cancelled = f
            /\ lost' \in [refused : SUBSET Events, failed : SUBSET Events, cancelled : SUBSET Events]
        BY <4>1, <4>2, Shape
      <4> QED
        BY <3>2, <4>3, Shape DEF f
    <3> QED
      BY <2>1, <3>1, <3>2
  <2>4. TypeOK'
    BY <2>1, <2>2, <2>3 DEF IInv, TypeOK, Tasks
  <2>5. AccountedFor'
    BY <2>1, <2>2, <2>3 DEF IInv, AccountedFor
  <2>6. StopDrains' /\ AskedToStop'
    BY <2>1, <2>2 DEF IInv, StopDrains, AskedToStop
  <2> QED
    BY <2>1, <2>2, <2>4, <2>5, <2>6 DEF IInv
<1> QED
  BY <1>1, <1>2, <1>3, <1>4

LEMMA Inductive == ASSUME MonitoringAssumption PROVE Spec => []IInv
<1>1. Init => IInv
  BY Initially
<1>2. IInv /\ [Next]_vars => IInv'
  <2>1. ASSUME IInv, Next PROVE IInv'
    BY <2>1, RecordStep, ConsumeStep, WriteStep, LifespanStep DEF Next
  <2>2. ASSUME IInv, UNCHANGED vars PROVE IInv'
    BY <2>2 DEF vars, IInv, TypeOK, AccountedFor, StopDrains, AskedToStop
  <2> QED
    BY <2>1, <2>2
<1> QED
  BY <1>1, <1>2, PTL DEF Spec

-----------------------------------------------------------------------------
(* Every variable has its type, the queue and the batch stay within their   *)
(* sizes, and a batch is only held while it is written.                     *)
THEOREM TypeCorrect == Spec => []TypeOK
<1>1. IInv => TypeOK
  BY DEF IInv
<1> QED
  BY <1>1, Inductive, MonitoringAssumption, PTL

(* No event disappears without a cause, through every failure and stop.     *)
THEOREM EventsAreAccountedFor == Spec => []AccountedFor
<1>1. IInv => AccountedFor
  BY DEF IInv
<1> QED
  BY <1>1, Inductive, MonitoringAssumption, PTL

(* A stop that waits for the consumer to end drains what was recorded       *)
(* before it.                                                               *)
THEOREM StoppedIsDrained == Spec => []StopDrains
<1>1. IInv => StopDrains
  BY DEF IInv
<1> QED
  BY <1>1, Inductive, MonitoringAssumption, PTL

-----------------------------------------------------------------------------
(* Refinement.  The pending events of LossyLog are the batch and the queue. *)

LEMMA AppendBehind ==
  ASSUME NEW S, NEW s \in Seq(S), NEW t \in Seq(S), NEW e \in S
  PROVE  s \o Append(t, e) = Append(s \o t, e)
<1>1. Append(t, e) = t \o <<e>> /\ Append(s \o t, e) = (s \o t) \o <<e>>
  <2>1. s \o t \in Seq(S)
    OBVIOUS
  <2> QED
    BY <2>1, AppendIsConcat
<1>2. <<e>> \in Seq(S)
  OBVIOUS
<1>3. s \o (t \o <<e>>) = (s \o t) \o <<e>>
  BY <1>2, ConcatAssociative
<1> QED
  BY <1>1, <1>3

(* A write that ends, or is cut off, removes its batch from the front of    *)
(* the pending events, which the table has then or never will.              *)
LEMMA BlockLeaves ==
  ASSUME MonitoringAssumption, IInv, task.batch # <<>>,
         log' = log \o task.batch \/ log' = log,
         task'.batch \o queue' = queue, UNCHANGED recorded
  PROVE  Excerpt!Next
<1> DEFINE n == Len(task.batch)
           p == task.batch \o queue
<1>1. /\ task.batch \in Seq(Events) /\ queue \in Seq(Events)
      /\ n \in 1..BatchSize /\ BatchSize \in Nat
  BY DEF MonitoringAssumption, IInv, TypeOK
<1>2. p \in Seq(Events) /\ Len(p) = n + Len(queue) /\ n <= Len(p) /\ Len(queue) \in Nat
  BY <1>1
<1>3. SubSeq(p, 1, n) = task.batch
  <2>1. SubSeq(p, 1, n) = SubSeq(task.batch, 1, n)
    BY <1>1, SubSeqOfConcat1
  <2> QED
    BY <1>1, <2>1, SubSeqFull
<1>4. SubSeq(p, n + 1, Len(p)) = queue
  <2>1. CASE queue = <<>>
    <3>1. Len(p) = n
      BY <1>2, <2>1
    <3> QED
      BY <1>1, <2>1, <3>1, SubSeqEmpty
  <2>2. CASE queue # <<>>
    <3>1. Len(queue) \in Nat \ {0}
      BY <1>1, <2>2
    <3>2. SubSeq(p, n + 1, Len(p)) = SubSeq(queue, 1, Len(queue))
      <4>1. n + 1 \in Len(task.batch) + 1 .. Len(task.batch) + Len(queue)
            /\ Len(p) \in n + 1 .. Len(task.batch) + Len(queue)
            /\ n + 1 - Len(task.batch) = 1 /\ Len(p) - Len(task.batch) = Len(queue)
        BY <1>1, <1>2, <3>1
      <4> QED
        BY <1>1, <4>1, SubSeqOfConcat2
    <3> QED
      BY <1>1, <3>2, SubSeqFull
  <2> QED
    BY <2>1, <2>2
<1> HIDE DEF n, p
<1>5. CASE log' = log \o task.batch
  <2>1. Excerpt!Store(n)
    BY <1>3, <1>4, <1>5 DEF Excerpt!Store, Excerpt!Rest, Excerpt!Block, p
  <2> QED
    BY <1>1, <1>2, <2>1 DEF Excerpt!Next, p
<1>6. CASE log' = log
  <2>1. Excerpt!Lose(n)
    BY <1>3, <1>4, <1>6 DEF Excerpt!Lose, Excerpt!Rest, p
  <2> QED
    BY <1>1, <1>2, <2>1 DEF Excerpt!Next, p
<1> QED
  BY <1>5, <1>6

(* The table is an ordered excerpt of what was recorded, whatever the sizes *)
(* of queue and batches, and whatever fails: the consumer implements the    *)
(* abstract log.                                                            *)
THEOREM MonitoringImplementsLossyLog == Spec => ImplementsLossyLog
<1>1. Init => Excerpt!Init
  BY DEF Init, NoTask, Excerpt!Init
<1>2. IInv /\ [Next]_vars => [Excerpt!Next]_<<recorded, task.batch \o queue, log>>
  <2> SUFFICES ASSUME IInv, [Next]_vars
               PROVE  [Excerpt!Next]_<<recorded, task.batch \o queue, log>>
    OBVIOUS
  <2> USE MonitoringAssumption
  <2>1. CASE Record
    <3>1. recorded' = recorded + 1 /\ UNCHANGED <<task, log>>
      BY <2>1 DEF Record
    <3>2. CASE HasRoom /\ queue' = Append(queue, recorded + 1)
      <4>1. task.batch \in Seq(Events) /\ queue \in Seq(Events) /\ recorded + 1 \in Events
        BY <2>1, Shape DEF Record, Events
      <4>2. Len(task.batch) <= BatchSize /\ Len(queue) < QueueMax
            /\ BatchSize \in Nat /\ QueueMax \in Nat
        BY <3>2 DEF IInv, TypeOK, HasRoom, MonitoringAssumption
      <4>3. Len(task.batch \o queue) < QueueMax + BatchSize
        BY <4>1, <4>2
      <4>4. task.batch \o Append(queue, recorded + 1) = Append(task.batch \o queue, recorded + 1)
        <5> DEFINE b == task.batch
                   e == recorded + 1
        <5>1. b \in Seq(Events) /\ queue \in Seq(Events) /\ e \in Events
          BY <4>1
        <5> HIDE DEF b, e
        <5>2. b \o Append(queue, e) = Append(b \o queue, e)
          BY <5>1, AppendBehind, SMTT(30)
        <5> QED
          BY <5>2 DEF b, e
      <4>5. Excerpt!Accept
        BY <3>1, <3>2, <4>3, <4>4 DEF Excerpt!Accept
      <4> QED
        BY <4>5 DEF Excerpt!Next
    <3>3. CASE queue' = queue
      <4>1. Excerpt!Refuse
        BY <3>1, <3>3 DEF Excerpt!Refuse
      <4> QED
        BY <4>1 DEF Excerpt!Next
    <3> QED
      BY <2>1, <3>2, <3>3 DEF Record
  <2>2. CASE Consume
    <3>1. /\ task'.batch \o queue' = queue /\ task.batch = <<>>
          /\ queue \in Seq(Events) /\ UNCHANGED <<recorded, log>>
      BY <2>2, ConsumeStep, Shape DEF TakesBatch
    <3>2. <<>> \o queue = queue
      BY <3>1
    <3> QED
      BY <3>1, <3>2
  <2>3. CASE Write
    BY <2>3, WriteStep, BlockLeaves DEF TakesBatch
  <2>4. CASE Start \/ Stop \/ StopReturns \/ StopTimesOut
    <3>1. /\ \/ task'.batch = task.batch /\ log' = log
             \/ task'.batch = <<>> /\ (log' = log \o task.batch \/ log' = log)
          /\ UNCHANGED <<recorded, queue>>
      BY <2>4, LifespanStep
    <3>2. CASE task'.batch = task.batch /\ log' = log
      BY <3>1, <3>2
    <3>3. CASE task'.batch = <<>> /\ (log' = log \o task.batch \/ log' = log)
      <4>1. <<>> \o queue = queue /\ log \o <<>> = log
        BY Shape
      <4>2. CASE task.batch = <<>>
        BY <3>1, <3>3, <4>1, <4>2
      <4>3. CASE task.batch # <<>>
        BY <3>1, <3>3, <4>1, <4>3, BlockLeaves
      <4> QED
        BY <4>2, <4>3
    <3> QED
      BY <3>1, <3>2, <3>3
  <2>5. CASE UNCHANGED vars
    BY <2>5 DEF vars
  <2> QED
    BY <2>1, <2>2, <2>3, <2>4, <2>5 DEF Next
<1> QED
  BY <1>1, <1>2, Inductive, MonitoringAssumption, PTL DEF Spec, ImplementsLossyLog, Excerpt!Spec
=============================================================================
