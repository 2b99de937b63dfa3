-------------------------- MODULE ToolManagerProofs --------------------------
(***************************************************************************)
(* Proofs about ToolManager for every number of calls and keys and every   *)
(* threshold, recovery time, timeout and lifetime.                         *)
(***************************************************************************)
EXTENDS ToolManager, TLAPS

CallRecords == [key : Keys \cup {None}, age : 0..Timeout]

LEMMA LaterBounded ==
  ASSUME NEW max \in Nat, NEW age \in 0..max
  PROVE  /\ Later(age, max) \in 0..max
         /\ Later(age, max) >= age /\ Later(age, max) <= age + 1
         /\ age < max => Later(age, max) = age + 1
BY DEF Later

(* The breaker's own operations keep its type, and close it exactly below   *)
(* the threshold.                                                           *)
LEMMA BreakerOperations ==
  ASSUME ToolManagerAssumption, breaker \in Breakers, ClosedBelowThreshold,
         NEW b, b \in {AfterAllow, AfterSuccess, AfterFailure}
  PROVE  /\ b \in Breakers
         /\ b.state = "CLOSED" <=> b.failures < Threshold
<1> USE DEF ToolManagerAssumption, Breakers, MaxOpenAge
<1>1. /\ breaker.state \in {"CLOSED", "OPEN", "HALF_OPEN"}
      /\ breaker.failures \in 0..Threshold /\ breaker.age \in 0..MaxOpenAge
  OBVIOUS
<1>2. CASE b = AfterAllow
  BY <1>1, <1>2 DEF AfterAllow, Recovered, ClosedBelowThreshold
<1>3. CASE b = AfterSuccess
  BY <1>3 DEF AfterSuccess
<1>4. CASE b = AfterFailure
  <2> DEFINE count == Later(breaker.failures, Threshold)
  <2>1. count \in 0..Threshold
    BY <1>1, LaterBounded
  <2> HIDE DEF count
  <2>2. AfterFailure = IF count >= Threshold
                       THEN [state |-> "OPEN", failures |-> count, age |-> 0]
                       ELSE [breaker EXCEPT !.failures = count]
    BY DEF AfterFailure, count
  <2>3. CASE count >= Threshold
    BY <1>4, <2>1, <2>2, <2>3
  <2>4. CASE ~(count >= Threshold)
    <3>1. breaker.failures < Threshold
      BY <1>1, <2>1, <2>4, LaterBounded DEF count
    <3>2. breaker.state = "CLOSED"
      BY <3>1 DEF ClosedBelowThreshold
    <3>3. /\ b = [breaker EXCEPT !.failures = count]
          /\ b.state = breaker.state /\ b.failures = count /\ b \in Breakers
      BY <1>1, <1>4, <2>1, <2>2, <2>4
    <3>4. QED
      BY <2>1, <2>4, <3>2, <3>3
  <2>5. QED
    BY <2>3, <2>4
<1>5. QED
  BY <1>2, <1>3, <1>4

(* What every run in flight and every cache entry is known to be no         *)
(* younger, or no older, than.                                              *)
StragglersAreOlder ==
  BreakerEnabled /\ breaker.state = "OPEN" =>
    \A c \in Calls : Running(c) => calls[c].age >= breaker.age

ReadBounded ==
  \A k \in Keys : cache[k] # None => cache[k].read <= cache[k].age + Timeout

TInv == TypeOK /\ ClosedBelowThreshold /\ StragglersAreOlder /\ ReadBounded

(* No step of the breaker, and no call that ends, makes a run in flight     *)
(* younger than an open circuit.                                            *)
LEMMA CallStep ==
  ASSUME ToolManagerAssumption, TInv, NEW c \in Calls, Call(c)
  PROVE  TInv'
<1> USE DEF ToolManagerAssumption
<1>1. /\ breaker \in Breakers /\ breaker.age \in Nat /\ None \notin Keys /\ Timeout \in Nat /\ TTL \in Nat
      /\ \A e \in Calls : calls[e] \in CallRecords /\ calls[e].age \in 0..Timeout
  BY DEF TInv, TypeOK, CallRecords, Breakers, MaxOpenAge
<1>2. ASSUME breaker' \in {breaker, AfterAllow, AfterSuccess, AfterFailure}
      PROVE  breaker' \in Breakers /\ ClosedBelowThreshold'
  BY <1>1, <1>2, BreakerOperations DEF ClosedBelowThreshold, TInv
<1>3. ASSUME NEW k \in Keys, AnswerFromCache(c, k) PROVE TInv'
  <2>1. UNCHANGED <<cache, calls, healthy>> /\ breaker' = AfterAllow
    BY <1>3 DEF AnswerFromCache
  <2>2. breaker'.state = "OPEN" => breaker' = breaker
    BY <1>1, <2>1 DEF AfterAllow, Breakers
  <2>3. StragglersAreOlder' /\ ReadBounded'
    BY <2>1, <2>2 DEF TInv, StragglersAreOlder, ReadBounded, Running
  <2>4. QED
    BY <1>2, <2>1, <2>3 DEF TInv, TypeOK
<1>4. ASSUME NEW k \in Keys, StartRun(c, k) PROVE TInv'
  <2>1. /\ cache' = [cache EXCEPT ![k] = None] /\ breaker' = AfterAllow /\ healthy' = healthy
        /\ calls' = [calls EXCEPT ![c] = [key |-> k, age |-> 0]] /\ Allowed
    BY <1>4 DEF StartRun
  <2>2. BreakerEnabled => breaker'.state # "OPEN"
    BY <1>1, <2>1 DEF AfterAllow, Allowed, Recovered, Breakers
  <2>3. StragglersAreOlder'
    BY <2>2 DEF StragglersAreOlder
  <2>4. ReadBounded'
    BY <2>1 DEF ReadBounded, TInv, TypeOK
  <2>5. calls' \in [Calls -> CallRecords] /\ cache' \in [Keys -> Entries \cup {None}]
    BY <1>1, <2>1 DEF TInv, TypeOK, CallRecords
  <2>6. QED
    BY <1>2, <2>1, <2>3, <2>4, <2>5 DEF TInv, TypeOK, CallRecords
<1>5. ASSUME calls' = [calls EXCEPT ![c] = IdleCall]
      PROVE  /\ calls' \in [Calls -> CallRecords]
             /\ \A e \in Calls : Running(e)' => Running(e) /\ calls'[e] = calls[e]
  BY <1>1, <1>5 DEF TInv, TypeOK, CallRecords, Running, IdleCall
<1>6. CASE RunReturns(c)
  <2> DEFINE entry == [age |-> 0, read |-> calls[c].age]
  <2>1. /\ breaker' = AfterSuccess /\ calls' = [calls EXCEPT ![c] = IdleCall]
        /\ healthy' = healthy /\ Running(c)
        /\ cache' \in {cache, [cache EXCEPT ![calls[c].key] = entry]}
    BY <1>6 DEF RunReturns
  <2>2. calls[c].key \in Keys
    BY <1>1, <2>1 DEF CallRecords, Running
  <2>3. entry \in Entries /\ entry.read <= entry.age + Timeout
    BY <1>1 DEF Entries, MaxReadAge
  <2> HIDE DEF entry
  <2>4. cache' \in [Keys -> Entries \cup {None}] /\ ReadBounded'
    BY <2>1, <2>2, <2>3 DEF TInv, TypeOK, ReadBounded
  <2>5. StragglersAreOlder'
    BY <2>1 DEF StragglersAreOlder, AfterSuccess
  <2>6. QED
    BY <1>2, <1>5, <2>1, <2>4, <2>5 DEF TInv, TypeOK, CallRecords
<1>7. CASE RunRaises(c) \/ RunTimesOut(c)
  <2>1. /\ breaker' = AfterFailure /\ calls' = [calls EXCEPT ![c] = IdleCall]
        /\ UNCHANGED <<cache, healthy>>
    BY <1>7 DEF RunRaises, RunTimesOut
  <2>2. breaker'.state = "OPEN" => breaker'.age = 0 \/ (breaker.state = "OPEN" /\ breaker'.age = breaker.age)
    BY <1>1, <2>1 DEF AfterFailure, Breakers
  <2>3. \A e \in Calls : Running(e)' => Running(e) /\ calls'[e].age = calls[e].age /\ calls[e].age >= 0
    BY <1>1, <1>5, <2>1
  <2>4. StragglersAreOlder'
    BY <2>2, <2>3 DEF StragglersAreOlder, TInv
  <2>5. QED
    BY <1>2, <1>5, <2>1, <2>4 DEF TInv, TypeOK, CallRecords, ReadBounded
<1>8. CASE CallCancelled(c)
  <2>1. calls' = [calls EXCEPT ![c] = IdleCall] /\ UNCHANGED <<breaker, cache, healthy>>
    BY <1>8 DEF CallCancelled
  <2>2. StragglersAreOlder'
    BY <1>5, <2>1 DEF StragglersAreOlder, TInv
  <2>3. QED
    BY <1>2, <1>5, <2>1, <2>2 DEF TInv, TypeOK, CallRecords, ReadBounded
<1>9. QED
  BY <1>3, <1>4, <1>6, <1>7, <1>8 DEF Call

LEMMA TickStep ==
  ASSUME ToolManagerAssumption, TInv, Tick
  PROVE  TInv'
<1> USE DEF ToolManagerAssumption
<1>1. /\ breaker.state \in {"CLOSED", "OPEN", "HALF_OPEN"}
      /\ breaker.failures \in 0..Threshold /\ breaker.age \in 0..MaxOpenAge /\ MaxOpenAge \in Nat
      /\ MaxReadAge \in Nat /\ healthy' = healthy
  BY DEF TInv, TypeOK, Breakers, MaxOpenAge, MaxReadAge, Tick
<1>2. /\ breaker'.state = breaker.state /\ breaker'.failures = breaker.failures
      /\ breaker'.age \in 0..MaxOpenAge /\ breaker'.age <= breaker.age + 1
      /\ breaker' \in Breakers
  <2> DEFINE older == Later(breaker.age, MaxOpenAge)
  <2>1. older \in 0..MaxOpenAge /\ older <= breaker.age + 1
    BY <1>1, LaterBounded
  <2> HIDE DEF older
  <2>2. breaker' = breaker \/ breaker' = [breaker EXCEPT !.age = older]
    BY DEF Tick, older
  <2>3. breaker \in Breakers
    BY DEF TInv, TypeOK
  <2>4. QED
    BY <1>1, <2>1, <2>2, <2>3 DEF Breakers
<1>3. ClosedBelowThreshold'
  BY <1>2 DEF ClosedBelowThreshold, TInv
<1>4. ASSUME NEW c \in Calls
      PROVE  /\ calls'[c] \in CallRecords
             /\ Running(c)' => Running(c) /\ calls'[c].age = calls[c].age + 1
  <2>1. calls[c] \in CallRecords /\ calls[c].age < Timeout
    BY DEF TInv, TypeOK, CallRecords, Tick, InTime
  <2>2. calls'[c] = IF Running(c) THEN [calls[c] EXCEPT !.age = calls[c].age + 1] ELSE calls[c]
    BY DEF Tick
  <2>3. QED
    BY <2>1, <2>2 DEF CallRecords, Running
<1>5. calls' \in [Calls -> CallRecords]
  BY <1>4 DEF Tick
<1>6. StragglersAreOlder'
  <2>1. \A c \in Calls : calls[c].age \in Nat
    BY DEF TInv, TypeOK, CallRecords
  <2>2. QED
    BY <1>1, <1>2, <1>4, <2>1 DEF StragglersAreOlder, TInv
<1>7. ASSUME NEW k \in Keys
      PROVE  /\ cache'[k] \in Entries \cup {None}
             /\ cache'[k] # None => cache'[k].read <= cache'[k].age + Timeout
  <2>1. CASE cache[k] = None
    BY <2>1 DEF Tick
  <2>2. CASE cache[k] # None
    <3> DEFINE a == Later(cache[k].age, TTL)
               r == Later(cache[k].read, MaxReadAge)
    <3>1. /\ cache[k].age \in 0..TTL /\ cache[k].read \in 0..MaxReadAge
          /\ cache[k].read <= cache[k].age + Timeout
      BY <2>2 DEF TInv, TypeOK, Entries, ReadBounded
    <3>2. /\ a \in 0..TTL /\ (cache[k].age < TTL => a = cache[k].age + 1) /\ a >= cache[k].age
          /\ r \in 0..MaxReadAge /\ r <= cache[k].read + 1
      BY <1>1, <3>1, LaterBounded
    <3>3. cache'[k] = [age |-> a, read |-> r]
      BY <2>2 DEF Tick
    <3> HIDE DEF a, r
    <3>4. r <= a + Timeout
      BY <3>1, <3>2 DEF MaxReadAge
    <3>5. QED
      BY <3>2, <3>3, <3>4 DEF Entries
  <2>3. QED
    BY <2>1, <2>2
<1>8. cache' \in [Keys -> Entries \cup {None}] /\ ReadBounded'
  BY <1>7 DEF Tick, ReadBounded
<1>9. QED
  BY <1>1, <1>2, <1>3, <1>5, <1>6, <1>8 DEF TInv, TypeOK, CallRecords

LEMMA ToolInvariant == Spec => []TInv
<1>1. Init => TInv
  <2> SUFFICES ASSUME Init PROVE TInv
    OBVIOUS
  <2> USE ToolManagerAssumption DEF ToolManagerAssumption, Init
  <2>1. breaker \in Breakers /\ ClosedBelowThreshold
    BY DEF Breakers, MaxOpenAge, ClosedBelowThreshold
  <2>2. cache \in [Keys -> Entries \cup {None}] /\ healthy \in BOOLEAN
    OBVIOUS
  <2>3. calls \in [Calls -> [key : Keys \cup {None}, age : 0..Timeout]]
    BY DEF IdleCall
  <2>4. StragglersAreOlder /\ ReadBounded
    BY DEF StragglersAreOlder, ReadBounded
  <2>5. QED
    BY <2>1, <2>2, <2>3, <2>4 DEF TInv, TypeOK
<1>2. TInv /\ [Next]_vars => TInv'
  <2>1. ASSUME TInv, ToolChanges PROVE TInv'
    BY <2>1 DEF ToolChanges, TInv, TypeOK, ClosedBelowThreshold, StragglersAreOlder, ReadBounded,
       Running
  <2>2. ASSUME TInv, UNCHANGED vars PROVE TInv'
    BY <2>2 DEF vars, TInv, TypeOK, ClosedBelowThreshold, StragglersAreOlder, ReadBounded, Running
  <2>3. QED
    BY <2>1, <2>2, CallStep, TickStep, ToolManagerAssumption DEF Next
<1>3. QED
  BY <1>1, <1>2, PTL DEF Spec

-----------------------------------------------------------------------------
(* Type correctness: no run outlives its timeout, no count its cap.         *)
THEOREM TypeCorrect == Spec => []TypeOK
<1>1. TInv => TypeOK
  BY DEF TInv
<1>2. QED
  BY <1>1, ToolInvariant, PTL

(* A circuit is closed exactly while fewer than Threshold failures are      *)
(* counted.                                                                 *)
THEOREM ClosedIffBelowThreshold == Spec => []ClosedBelowThreshold
<1>1. TInv => ClosedBelowThreshold
  BY DEF TInv
<1>2. QED
  BY <1>1, ToolInvariant, PTL

(* A circuit that has been open for longer than the timeout is silent.      *)
THEOREM OpenIsSilent == Spec => []SilentWhenOpen
<1>1. TInv => SilentWhenOpen
  <2> SUFFICES ASSUME TInv, BreakerEnabled, breaker.state = "OPEN", breaker.age > Timeout,
                      NEW c \in Calls, Running(c)
               PROVE  FALSE
    BY DEF SilentWhenOpen
  <2>1. calls[c].age >= breaker.age /\ calls[c].age \in 0..Timeout /\ Timeout \in Nat
    BY ToolManagerAssumption DEF ToolManagerAssumption, TInv, TypeOK, StragglersAreOlder
  <2>2. breaker.age \in Nat
    BY ToolManagerAssumption DEF ToolManagerAssumption, TInv, TypeOK, Breakers, MaxOpenAge
  <2>3. QED
    BY <2>1, <2>2
<1>2. QED
  BY <1>1, ToolInvariant, PTL

(* Only a run that was in flight when the circuit opened closes it without  *)
(* a probe.                                                                 *)
THEOREM OnlyStragglersCloseEarly == Spec => ClosedEarlyOnlyByStraggler
<1>1. TInv /\ [Next]_vars =>
        [BreakerEnabled /\ breaker.state = "OPEN" /\ breaker'.state = "CLOSED"
           => breaker.age <= Timeout]_vars
  <2> SUFFICES ASSUME TInv, Next, BreakerEnabled, breaker.state = "OPEN",
                      breaker'.state = "CLOSED"
               PROVE  breaker.age <= Timeout
    BY DEF vars, TInv, TypeOK
  <2>1. /\ breaker.state = "OPEN" /\ breaker.failures = Threshold /\ Threshold \in Nat
        /\ breaker \in Breakers /\ breaker.age \in Nat /\ Timeout \in Nat
    BY ToolManagerAssumption DEF ToolManagerAssumption, TInv, TypeOK, Breakers, MaxOpenAge,
       ClosedBelowThreshold
  <2>2. AfterAllow.state # "CLOSED" /\ AfterFailure.state # "CLOSED"
    BY <2>1 DEF AfterAllow, AfterFailure, Breakers, Later
  <2>3. PICK c \in Calls : RunReturns(c)
    <3>1. ~Tick
      BY <2>1 DEF Tick, Breakers
    <3>2. QED
      BY <2>1, <2>2, <3>1 DEF Next, Call, AnswerFromCache, StartRun, RunRaises, RunTimesOut,
         CallCancelled, ToolChanges
  <2>4. calls[c].age >= breaker.age /\ calls[c].age \in 0..Timeout
    BY <2>3 DEF RunReturns, TInv, TypeOK, StragglersAreOlder
  <2>5. QED
    BY <2>1, <2>4
<1>2. QED
  BY <1>1, ToolInvariant, PTL DEF Spec, ClosedEarlyOnlyByStraggler

(* One failed probe opens a half-open circuit again.                        *)
THEOREM ProbeFailures == Spec => ProbeFailureReopens
<1>1. TInv /\ [Next]_vars =>
        [\A c \in Calls : breaker.state = "HALF_OPEN" /\ (RunRaises(c) \/ RunTimesOut(c))
           => breaker'.state = "OPEN" /\ breaker'.age = 0]_vars
  <2> SUFFICES ASSUME TInv, NEW c \in Calls, breaker.state = "HALF_OPEN",
                      RunRaises(c) \/ RunTimesOut(c)
               PROVE  breaker'.state = "OPEN" /\ breaker'.age = 0
    OBVIOUS
  <2>1. breaker' = AfterFailure
    BY DEF RunRaises, RunTimesOut
  <2>2. breaker.failures = Threshold /\ Threshold \in Nat
    BY ToolManagerAssumption DEF ToolManagerAssumption, TInv, TypeOK, Breakers,
       ClosedBelowThreshold
  <2>3. QED
    BY <2>1, <2>2 DEF AfterFailure, Later
<1>2. QED
  BY <1>1, ToolInvariant, PTL DEF Spec, ProbeFailureReopens

(* A cached answer was computed by a run that began less than TTL + Timeout *)
(* before it is given.                                                      *)
THEOREM CachedAnswersAreRecent == Spec => AnswersAreRecent
<1>1. TInv /\ [Next]_vars =>
        [\A c \in Calls, k \in Keys : AnswerFromCache(c, k) => cache[k].read < TTL + Timeout]_vars
  <2> SUFFICES ASSUME TInv, NEW c \in Calls, NEW k \in Keys, AnswerFromCache(c, k)
               PROVE  cache[k].read < TTL + Timeout
    OBVIOUS
  <2>1. cache[k] # None /\ cache[k].age < TTL
    BY DEF AnswerFromCache, Fresh
  <2>2. cache[k].age \in Nat /\ cache[k].read \in Nat /\ cache[k].read <= cache[k].age + Timeout
    BY <2>1, ToolManagerAssumption DEF ToolManagerAssumption, TInv, TypeOK, Entries, MaxReadAge,
       ReadBounded
  <2>3. QED
    BY <2>1, <2>2, ToolManagerAssumption DEF ToolManagerAssumption
<1>2. QED
  BY <1>1, ToolInvariant, PTL DEF Spec, AnswersAreRecent
=============================================================================
