----------------------------- MODULE ToolManager -----------------------------
(***************************************************************************)
(* EnterpriseToolManager, for one registered tool: concurrent calls share  *)
(* the tool's circuit breaker and its answer cache.  Everything between    *)
(* two awaits is one action, since all calls run on one event loop; the    *)
(* only await is the run of the tool under asyncio.wait_for.               *)
(*                                                                         *)
(* A time stamp of the code is an age here: the ticks since the stamp,     *)
(* counted no further than the code or a property can tell.  Calls refused *)
(* for a missing tool, role or field change nothing and are left out.      *)
(***************************************************************************)
EXTENDS Naturals

CONSTANTS
  Calls,           \* calls that may be in flight together
  Keys,            \* cache keys: question, user, department and roles
  None,            \* no cache entry, and the key of an idle call
  Threshold,       \* tool_circuit_failure_threshold
  Recovery,        \* tool_circuit_recovery_seconds, in ticks
  Timeout,         \* timeout of a run, in ticks
  TTL,             \* lifetime of a cache entry, in ticks
  BreakerEnabled,  \* circuit_breaker_enabled of the tool
  CacheEnabled     \* does _cache_key return a key for the tool?

ASSUME ToolManagerAssumption ==
  /\ Threshold \in Nat \ {0} /\ Recovery \in Nat /\ Timeout \in Nat \ {0} /\ TTL \in Nat \ {0}
  /\ BreakerEnabled \in BOOLEAN /\ CacheEnabled \in BOOLEAN
  /\ None \notin Keys

VARIABLES
  breaker,  \* the CircuitBreaker: state, failure_count, ticks since opened_at
  cache,    \* per key: ticks since the entry was set, and since its run began
  calls,    \* calls that wait for the tool: their key, ticks since they began
  healthy   \* does the tool answer at present?

vars == <<breaker, cache, calls, healthy>>

(* Where counting stops: no comparison of the code or of a property looks   *)
(* beyond it.                                                               *)
MaxOpenAge == Recovery + Timeout + 1
MaxReadAge == TTL + Timeout

Later(age, max) == IF age < max THEN age + 1 ELSE age

IdleCall == [key |-> None, age |-> 0]
Breakers == [state : {"CLOSED", "OPEN", "HALF_OPEN"}, failures : 0..Threshold,
             age : 0..MaxOpenAge]
Entries  == [age : 0..TTL, read : 0..MaxReadAge]

TypeOK ==
  /\ breaker \in Breakers
  /\ cache \in [Keys -> Entries \cup {None}]
  /\ calls \in [Calls -> [key : Keys \cup {None}, age : 0..Timeout]]
  /\ healthy \in BOOLEAN

Init ==
  /\ breaker = [state |-> "CLOSED", failures |-> 0, age |-> 0]
  /\ cache = [k \in Keys |-> None]
  /\ calls = [c \in Calls |-> IdleCall]
  /\ healthy = TRUE

Running(c) == calls[c].key # None

-----------------------------------------------------------------------------
(* CircuitBreaker *)

(* Mutant of Recovered: opened_at is never compared.                        *)
NeverRecovered == FALSE

Recovered == breaker.state = "OPEN" /\ breaker.age >= Recovery

Allowed == BreakerEnabled => breaker.state # "OPEN" \/ Recovered

(* What allow() leaves when it returns True.                                *)
AfterAllow ==
  IF BreakerEnabled /\ Recovered THEN [breaker EXCEPT !.state = "HALF_OPEN"] ELSE breaker

(* record_success forgets opened_at; its age is kept at 0 meanwhile.        *)
AfterSuccess == [state |-> "CLOSED", failures |-> 0, age |-> 0]

(* record_failure, in whatever state the failure arrives.  The count is     *)
(* only compared with the threshold, so it stops there.                     *)
AfterFailure ==
  LET count == Later(breaker.failures, Threshold) IN
  IF count >= Threshold
  THEN [state |-> "OPEN", failures |-> count, age |-> 0]
  ELSE [breaker EXCEPT !.failures = count]

-----------------------------------------------------------------------------
(* Calls *)

(* Mutant of Fresh: an entry never expires.                                 *)
EverFresh(k) == CacheEnabled /\ cache[k] # None

Fresh(k) == CacheEnabled /\ cache[k] # None /\ cache[k].age < TTL

(* A call that is let through and finds its answer ends without a run.  It  *)
(* has passed allow(), and records nothing with the breaker.                *)
AnswerFromCache(c, k) ==
  /\ ~Running(c)
  /\ Allowed
  /\ Fresh(k)
  /\ breaker' = AfterAllow
  /\ UNCHANGED <<cache, calls, healthy>>

StartRun(c, k) ==
  /\ ~Running(c)
  /\ Allowed
  /\ ~Fresh(k)
  /\ breaker' = AfterAllow
  /\ cache' = [cache EXCEPT ![k] = None]
  /\ calls' = [calls EXCEPT ![c] = [key |-> k, age |-> 0]]
  /\ UNCHANGED healthy

RunReturns(c) ==
  /\ Running(c)
  /\ healthy
  /\ breaker' = AfterSuccess
  /\ cache' = IF CacheEnabled
              THEN [cache EXCEPT ![calls[c].key] = [age |-> 0, read |-> calls[c].age]]
              ELSE cache
  /\ calls' = [calls EXCEPT ![c] = IdleCall]
  /\ UNCHANGED healthy

RunRaises(c) ==
  /\ Running(c)
  /\ ~healthy
  /\ breaker' = AfterFailure
  /\ calls' = [calls EXCEPT ![c] = IdleCall]
  /\ UNCHANGED <<cache, healthy>>

(* wait_for cancels the run and raises TimeoutError.                        *)
RunTimesOut(c) ==
  /\ Running(c)
  /\ ~healthy
  /\ calls[c].age = Timeout
  /\ breaker' = AfterFailure
  /\ calls' = [calls EXCEPT ![c] = IdleCall]
  /\ UNCHANGED <<cache, healthy>>

(* The request is cancelled while it waits: CancelledError is no Exception, *)
(* neither branch records it.                                               *)
CallCancelled(c) ==
  /\ Running(c)
  /\ calls' = [calls EXCEPT ![c] = IdleCall]
  /\ UNCHANGED <<breaker, cache, healthy>>

(* The event loop is on time: a tick does not pass while a run is due to be *)
(* cancelled.                                                               *)
InTime == \A c \in Calls : calls[c].age < Timeout

Tick ==
  /\ InTime
  /\ breaker' = IF breaker.state = "CLOSED" THEN breaker
                ELSE [breaker EXCEPT !.age = Later(@, MaxOpenAge)]
  /\ cache' = [k \in Keys |->
                 IF cache[k] = None THEN None
                 ELSE [age  |-> Later(cache[k].age, TTL),
                       read |-> Later(cache[k].read, MaxReadAge)]]
  /\ calls' = [c \in Calls |->
                 IF Running(c) THEN [calls[c] EXCEPT !.age = @ + 1] ELSE calls[c]]
  /\ UNCHANGED healthy

ToolChanges ==
  /\ healthy' = ~healthy
  /\ UNCHANGED <<breaker, cache, calls>>

-----------------------------------------------------------------------------
Call(c) ==
  \/ \E k \in Keys : AnswerFromCache(c, k) \/ StartRun(c, k)
  \/ RunReturns(c) \/ RunRaises(c) \/ RunTimesOut(c) \/ CallCancelled(c)

Next == (\E c \in Calls : Call(c)) \/ Tick \/ ToolChanges

Spec == Init /\ [][Next]_vars

(* Time passes and every run ends, by its result or its timeout.            *)
Fairness ==
  /\ WF_vars(Tick)
  /\ \A c \in Calls : WF_vars(RunReturns(c) \/ RunRaises(c) \/ RunTimesOut(c))

FairSpec == Spec /\ Fairness

-----------------------------------------------------------------------------
(* Properties *)

(* A circuit is closed exactly while fewer than Threshold failures are      *)
(* counted, however the results of overlapping calls are interleaved.       *)
ClosedBelowThreshold == breaker.state = "CLOSED" <=> breaker.failures < Threshold

(* One failed probe opens a half-open circuit again, at once and for the    *)
(* whole recovery time, whichever of the admitted probes it is.             *)
ProbeFailureReopens ==
  [][\A c \in Calls :
       breaker.state = "HALF_OPEN" /\ (RunRaises(c) \/ RunTimesOut(c))
       => breaker'.state = "OPEN" /\ breaker'.age = 0]_vars

(* An open circuit falls silent: once it has been open for longer than the  *)
(* timeout of a run, no run of the tool is in flight.                       *)
SilentWhenOpen ==
  BreakerEnabled /\ breaker.state = "OPEN" /\ breaker.age > Timeout =>
    \A c \in Calls : ~Running(c)

(* A circuit that opened is closed without a probe only by a run that was   *)
(* in flight when it opened, hence within the timeout of a run; after that  *)
(* it stays open until the recovery time has passed.                        *)
ClosedEarlyOnlyByStraggler ==
  [][BreakerEnabled /\ breaker.state = "OPEN" /\ breaker'.state = "CLOSED"
       => breaker.age <= Timeout]_vars

(* An answer from the cache comes from a run that began less than TTL +     *)
(* Timeout before, although a slow run may replace the entry of a faster    *)
(* one that began later: a deleted document stays in answers no longer.     *)
AnswersAreRecent ==
  [][\A c \in Calls, k \in Keys :
       AnswerFromCache(c, k) => cache[k].read < TTL + Timeout]_vars

(* If the tool answers from some time on, questions keep coming and not     *)
(* every run is cancelled, the circuit closes for good: no failure of the   *)
(* past and no cache hit on a half-open circuit keeps it open.              *)
QuestionsKeepComing ==
  \A k \in Keys : WF_vars(\E c \in Calls : AnswerFromCache(c, k) \/ StartRun(c, k))
NotAllCancelled == SF_vars(\E c \in Calls : RunReturns(c))

ClosesForGood ==
  <>[]healthy /\ QuestionsKeepComing /\ NotAllCancelled => <>[](breaker.state = "CLOSED")
=============================================================================
