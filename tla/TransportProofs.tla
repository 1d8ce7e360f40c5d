-------------------------- MODULE TransportProofs --------------------------
(***************************************************************************)
(* Theorems about Transport for any finite set of callers, any concurrency *)
(* limit, retry count, verbs, deadlines and status codes.                  *)
(***************************************************************************)
EXTENDS Transport, FiniteSetTheorems, TLAPS

USE DEF Phases

(* Where a caller moves decides what becomes of the set of slot holders.    *)
HolderPhases == Phases \ {"idle", "acquiring"}

LEMMA HoldersFinite == IsFiniteSet(Holders) /\ Cardinality(Holders) \in Nat
BY TransportAssumption, FS_Subset, FS_CardinalityType DEF Holders, TransportAssumption

LEMMA HolderJoins ==
  ASSUME TypeOK, NEW c \in Callers, NEW p \in HolderPhases,
         pc[c] \notin HolderPhases, GoTo(c, p)
  PROVE  Holders' = Holders \cup {c} /\ c \notin Holders
BY DEF TypeOK, GoTo, Holders, HolderPhases

LEMMA HolderLeaves ==
  ASSUME TypeOK, NEW c \in Callers, pc[c] \in HolderPhases, GoTo(c, "idle")
  PROVE  Holders' = Holders \ {c} /\ c \in Holders
BY DEF TypeOK, GoTo, Holders, HolderPhases

LEMMA HoldersKept ==
  ASSUME TypeOK, NEW c \in Callers, NEW p \in Phases, GoTo(c, p),
         (pc[c] \in HolderPhases) <=> (p \in HolderPhases)
  PROVE  Holders' = Holders
BY DEF TypeOK, GoTo, Holders, HolderPhases

(* Taking a slot adds one element to the channel, releasing removes one.    *)
LEMMA SlotTaken ==
  ASSUME SlotsMatchHolders, NEW c, c \notin Holders, Holders' = Holders \cup {c},
         tokens' = IF HasSemaphore THEN tokens + 1 ELSE tokens
  PROVE  SlotsMatchHolders'
BY HoldersFinite, FS_AddElement DEF SlotsMatchHolders, HasSemaphore

LEMMA SlotReleased ==
  ASSUME SlotsMatchHolders, NEW c, c \in Holders, Holders' = Holders \ {c}, Release
  PROVE  SlotsMatchHolders'
<1>1. /\ Cardinality(Holders') = Cardinality(Holders) - 1
      /\ Cardinality(Holders) > 0
  BY HoldersFinite, FS_RemoveElement, FS_EmptySet
<1> QED BY <1>1, HoldersFinite DEF SlotsMatchHolders, Release, HasSemaphore

(***************************************************************************)
(* The inductive invariant.                                                *)
(***************************************************************************)
LEMMA Initially == Init => IInv
<1> SUFFICES ASSUME Init PROVE IInv
  OBVIOUS
<1>1. TypeOK
  <2>1. NoContext \in Contexts
    BY DEF NoContext, Contexts
  <2>2. NoResult \in Results
    BY DEF NoResult, NoResponse, Results
  <2> QED BY <2>1, <2>2, TransportAssumption DEF Init, TypeOK
<1>2. Holders = {}
  BY DEF Init, Holders
<1>3. SlotsMatchHolders
  BY <1>2, FS_EmptySet DEF Init, SlotsMatchHolders
<1>4. \A c \in Callers : CallState(c)
  BY DEF Init, CallState
<1> QED BY <1>1, <1>3, <1>4 DEF IInv

(* What the retry loop hands back about a request belongs to that request, so
   that its verdict is one about what the caller asked for.                 *)
LEMMA VerdictIsAboutRequest ==
  ASSUME NEW c \in Callers, ctx[c].noRetry = request[c].noRetry,
         NEW status, NEW err \in BOOLEAN, NEW temporary \in BOOLEAN,
         NEW resp \in {NoResponse, Answered(c, status)},
         NEW result, result = [err |-> err, temporary |-> temporary, resp |-> resp],
         RestyIdempotent(request[c].method),
         RestyRetries(result) \/ SDKRetries(result)
  PROVE  Warranted(request[c], result)
<1>1. CASE RestyRetries(result)
  BY <1>1 DEF Warranted
<1>2. CASE SDKRetries(result)
  <2>1. result.err = err /\ result.resp = resp
    OBVIOUS
  <2>2. RetryCondition(resp, err)
    BY <1>2, <2>1 DEF SDKRetries
  <2>3. resp # NoResponse
    <3> SUFFICES ASSUME resp = NoResponse PROVE FALSE
      OBVIOUS
    <3>1. RequestMethod(resp) = ""
      BY DEF RequestMethod, NoResponse
    <3> QED BY <2>2, <3>1 DEF RetryCondition, IsIdempotentMethod, IdempotentMethods
  <2>4. ~resp.nil /\ resp.noRetry = request[c].noRetry
    BY <2>3 DEF Answered, Response
  <2>5. ~request[c].noRetry /\ (err \/ IsTransientStatusCode(resp.status))
    BY <2>2, <2>4 DEF RetryCondition, RetryDisabled
  <2> QED BY <2>1, <2>5 DEF Warranted
<1> QED BY <1>1, <1>2

LEMMA ResultTyped ==
  ASSUME TypeOK, NEW c \in Callers, NEW status \in Nat, NEW err \in BOOLEAN,
         NEW temporary \in BOOLEAN, NEW resp \in {NoResponse, Answered(c, status)}
  PROVE  [err |-> err, temporary |-> temporary, resp |-> resp] \in Results
<1>1. request[c].method \in Methods \cup {""} /\ ctx[c].noRetry \in BOOLEAN
  <2>1. request[c] \in Requests \/ request[c] = NoRequest
    BY DEF TypeOK
  <2>2. request[c].method \in Methods \cup {""}
    <3>1. CASE request[c] \in Requests
      BY <3>1 DEF Requests
    <3>2. CASE request[c] = NoRequest
      <4>1. NoRequest.method = ""
        BY DEF NoRequest
      <4> QED BY <3>2, <4>1
    <3> QED BY <2>1, <3>1, <3>2
  <2>3. ctx[c].noRetry \in BOOLEAN
    BY DEF TypeOK, Contexts
  <2> QED BY <2>2, <2>3
<1>2. resp \in [nil : BOOLEAN, method : Methods \cup {""}, noRetry : BOOLEAN, status : Nat]
  <2>1. CASE resp = NoResponse
    BY <2>1 DEF NoResponse
  <2>2. CASE resp = Answered(c, status)
    BY <1>1, <2>2 DEF Answered, Response
  <2> QED BY <2>1, <2>2
<1> QED BY <1>2 DEF Results

LEMMA TypeKept == ASSUME IInv, [Next]_vars PROVE TypeOK'
<1> USE DEF IInv
<1> SUFFICES ASSUME NEW c \in Callers,
                    Begin(c) \/ ContextDone(c) \/ SDKStep(c) \/ Reply(c) \/ NetworkError(c)
             PROVE  TypeOK'
  BY DEF Next, vars, TypeOK
<1>1. ASSUME Return(c), tokens' \in 0 .. MaxConcurrent PROVE TypeOK'
  <2>1. NoContext \in Contexts
    BY DEF NoContext, Contexts
  <2>2. NoResult \in Results
    BY DEF NoResult, NoResponse, Results
  <2> QED BY <1>1, <2>1, <2>2, TransportAssumption DEF Return, GoTo, TypeOK
<1>2. ASSUME Attempt(c), attempts[c] <= RetryCount PROVE TypeOK'
  BY <1>2, TransportAssumption DEF Attempt, GoTo, TypeOK
<1>3. ASSUME NEW status \in Nat, NEW err \in BOOLEAN, NEW temporary \in BOOLEAN,
             NEW resp \in {NoResponse, Answered(c, status)}, pc[c] = "inflight",
             AttemptEnds(c, [err |-> err, temporary |-> temporary, resp |-> resp])
      PROVE  TypeOK'
  <2>1. [err |-> err, temporary |-> temporary, resp |-> resp] \in Results
    BY <1>3, ResultTyped
  <2> QED BY <1>3, <2>1 DEF AttemptEnds, GoTo, TypeOK
<1>4. CASE Begin(c)
  <2> PICK r \in Requests, d \in Deadlines :
        /\ request' = [request EXCEPT ![c] = r]
        /\ ctx' = [ctx EXCEPT ![c] =
             WithBudget([deadline |-> d, noRetry |-> r.noRetry, done |-> FALSE])]
    BY <1>4 DEF Begin
  <2>1. WithBudget([deadline |-> d, noRetry |-> r.noRetry, done |-> FALSE]) \in Contexts
    BY TransportAssumption DEF WithBudget, Contexts, Requests
  <2> QED BY <1>4, <2>1 DEF Begin, GoTo, TypeOK
<1>5. CASE ContextDone(c)
  BY <1>5 DEF ContextDone, TypeOK, Contexts
<1>6. CASE Acquire(c)
  BY <1>6, TransportAssumption DEF Acquire, HasSemaphore, GoTo, TypeOK
<1>7. CASE AcquireCancelled(c)
  BY <1>1, <1>7 DEF AcquireCancelled, TypeOK
<1>8. CASE Send(c)
  BY <1>2, <1>8, TransportAssumption DEF Send, CallState
<1>9. CASE BackoffElapsed(c)
  BY <1>2, <1>9 DEF BackoffElapsed, CallState
<1>10. CASE AttemptAborted(c) \/ NetworkError(c)
  BY <1>3, <1>10 DEF AttemptAborted, NetworkError, AttemptFails
<1>11. CASE Reply(c)
  BY <1>3, <1>11, TransportAssumption DEF Reply
<1>12. CASE BackoffCancelled(c)
  BY <1>12 DEF BackoffCancelled, GoTo, TypeOK, Results
<1>13. CASE ReturnError(c) \/ ReturnResponse(c)
  <2>1. tokens' \in 0 .. MaxConcurrent
    BY <1>13, TransportAssumption DEF ReturnError, ReturnResponse, Release, TypeOK
  <2> QED BY <1>1, <1>13, <2>1 DEF ReturnError, ReturnResponse
<1>14. CASE Pause(c)
  BY <1>14 DEF Pause, GoTo, TypeOK
<1> QED
  BY <1>4, <1>5, <1>6, <1>7, <1>8, <1>9, <1>10, <1>11, <1>12, <1>13, <1>14 DEF SDKStep

LEMMA SlotsKept == ASSUME IInv, [Next]_vars PROVE SlotsMatchHolders'
<1> USE DEF IInv
<1>1. CASE UNCHANGED vars
  BY <1>1 DEF vars, SlotsMatchHolders, Holders
<1> SUFFICES ASSUME NEW c \in Callers,
                    Begin(c) \/ ContextDone(c) \/ SDKStep(c) \/ Reply(c) \/ NetworkError(c)
             PROVE  SlotsMatchHolders'
  BY <1>1 DEF Next
<1>2. ASSUME Holders' = Holders, UNCHANGED tokens PROVE SlotsMatchHolders'
  BY <1>2 DEF SlotsMatchHolders
<1>3. ASSUME NEW p \in Phases, GoTo(c, p), UNCHANGED tokens,
             (pc[c] \in HolderPhases) <=> (p \in HolderPhases)
      PROVE  SlotsMatchHolders'
  BY <1>2, <1>3, HoldersKept
<1>4. CASE Begin(c) \/ AcquireCancelled(c)
  BY <1>3, <1>4 DEF Begin, AcquireCancelled, Return, HolderPhases
<1>5. CASE ContextDone(c)
  BY <1>2, <1>5 DEF ContextDone, Holders
<1>6. CASE Acquire(c)
  BY <1>6, HolderJoins, SlotTaken DEF Acquire, HolderPhases
<1>7. CASE Send(c) \/ BackoffElapsed(c)
  BY <1>3, <1>7 DEF Send, BackoffElapsed, Attempt, HolderPhases
<1>8. ASSUME NEW result, pc[c] = "inflight", AttemptEnds(c, result)
      PROVE  SlotsMatchHolders'
  BY <1>3, <1>8 DEF AttemptEnds, HolderPhases
<1>9. CASE AttemptAborted(c) \/ NetworkError(c) \/ Reply(c)
  BY <1>8, <1>9 DEF AttemptAborted, NetworkError, AttemptFails, Reply
<1>10. CASE BackoffCancelled(c) \/ Pause(c)
  BY <1>3, <1>10 DEF BackoffCancelled, Pause, HolderPhases
<1>11. CASE ReturnError(c) \/ ReturnResponse(c)
  BY <1>11, HolderLeaves, SlotReleased DEF ReturnError, ReturnResponse, Return, HolderPhases
<1> QED
  BY <1>4, <1>5, <1>6, <1>7, <1>9, <1>10, <1>11 DEF SDKStep

(* A step of one caller leaves every other one as it was.                   *)
LEMMA OthersUntouched ==
  ASSUME TypeOK, NEW c \in Callers, NEW d \in Callers, d # c,
         Begin(c) \/ ContextDone(c) \/ SDKStep(c) \/ Reply(c) \/ NetworkError(c)
  PROVE  /\ pc'[d] = pc[d] /\ request'[d] = request[d] /\ ctx'[d] = ctx[d]
         /\ attempts'[d] = attempts[d] /\ last'[d] = last[d]
<1> DEFINE Untouched == /\ pc'[d] = pc[d] /\ request'[d] = request[d] /\ ctx'[d] = ctx[d]
                       /\ attempts'[d] = attempts[d] /\ last'[d] = last[d]
<1>1. CASE Begin(c) \/ ContextDone(c)
  BY <1>1 DEF Begin, ContextDone, GoTo, TypeOK
<1>2. CASE Acquire(c) \/ Pause(c) \/ BackoffCancelled(c)
  BY <1>2 DEF Acquire, Pause, BackoffCancelled, GoTo, TypeOK
<1>3. CASE Send(c) \/ BackoffElapsed(c)
  BY <1>3 DEF Send, BackoffElapsed, Attempt, GoTo, TypeOK
<1>4. CASE AcquireCancelled(c) \/ ReturnError(c) \/ ReturnResponse(c)
  BY <1>4 DEF AcquireCancelled, ReturnError, ReturnResponse, Return, GoTo, TypeOK
<1>5. ASSUME NEW result, AttemptEnds(c, result) PROVE Untouched
  BY <1>5 DEF AttemptEnds, GoTo, TypeOK
<1>6. CASE AttemptAborted(c) \/ NetworkError(c) \/ Reply(c)
  <2> HIDE DEF Untouched
  <2>1. Untouched
    BY <1>5, <1>6 DEF AttemptAborted, NetworkError, AttemptFails, Reply
  <2> QED BY <2>1 DEF Untouched
<1> QED BY <1>1, <1>2, <1>3, <1>4, <1>6 DEF SDKStep

LEMMA CallKept ==
  ASSUME IInv, NEW c \in Callers,
         Begin(c) \/ ContextDone(c) \/ SDKStep(c) \/ Reply(c) \/ NetworkError(c)
  PROVE  CallState(c)'
<1> USE DEF IInv
<1>0. CallState(c)
  OBVIOUS
<1>1. ASSUME Return(c) PROVE CallState(c)'
  BY <1>1 DEF Return, GoTo, TypeOK, CallState
<1>2. ASSUME Attempt(c), pc[c] # "idle" PROVE CallState(c)'
  BY <1>0, <1>2 DEF Attempt, GoTo, TypeOK, CallState
<1>3. ASSUME NEW status, NEW err \in BOOLEAN, NEW temporary \in BOOLEAN,
             NEW resp \in {NoResponse, Answered(c, status)}, pc[c] = "inflight",
             AttemptEnds(c, [err |-> err, temporary |-> temporary, resp |-> resp])
      PROVE  CallState(c)'
  <2> DEFINE result == [err |-> err, temporary |-> temporary, resp |-> resp]
  <2> HIDE DEF result
  <2>1. /\ request' = request /\ ctx' = ctx /\ attempts' = attempts
        /\ last'[c] = result
        /\ pc'[c] \in {"backoff", "settled"}
        /\ pc'[c] = "backoff" => /\ attempts[c] <= RetryCount
                                 /\ RestyIdempotent(request[c].method)
                                 /\ RestyRetries(result) \/ SDKRetries(result)
    BY <1>3 DEF AttemptEnds, GoTo, TypeOK, result
  <2>2. ctx[c].noRetry = request[c].noRetry
    BY <1>0, <1>3 DEF CallState
  <2>3. pc'[c] = "backoff" => Warranted(request[c], result)
    BY <1>3, <2>1, <2>2, VerdictIsAboutRequest DEF result
  <2> QED BY <1>0, <1>3, <2>1, <2>2, <2>3 DEF CallState, Warranted
<1>4. CASE Begin(c)
  <2> PICK r \in Requests, d \in Deadlines :
        /\ request' = [request EXCEPT ![c] = r]
        /\ ctx' = [ctx EXCEPT ![c] =
             WithBudget([deadline |-> d, noRetry |-> r.noRetry, done |-> FALSE])]
    BY <1>4 DEF Begin
  <2>1. request'[c] = r /\ ctx'[c].noRetry = r.noRetry
    BY DEF WithBudget, TypeOK
  <2> QED BY <1>0, <1>4, <2>1 DEF Begin, GoTo, TypeOK, CallState
<1>5. CASE ContextDone(c)
  <2>1. ctx'[c].noRetry = ctx[c].noRetry
    BY <1>5 DEF ContextDone, TypeOK, Contexts
  <2> QED BY <1>0, <1>5, <2>1 DEF ContextDone, CallState
<1>6. CASE Acquire(c) \/ Pause(c) \/ BackoffCancelled(c)
  BY <1>0, <1>6 DEF Acquire, Pause, BackoffCancelled, GoTo, TypeOK, CallState
<1>7. CASE AcquireCancelled(c) \/ ReturnError(c) \/ ReturnResponse(c)
  BY <1>1, <1>7 DEF AcquireCancelled, ReturnError, ReturnResponse
<1>8. CASE Send(c) \/ BackoffElapsed(c)
  BY <1>2, <1>8 DEF Send, BackoffElapsed
<1>9. CASE AttemptAborted(c) \/ NetworkError(c) \/ Reply(c)
  BY <1>3, <1>9 DEF AttemptAborted, NetworkError, AttemptFails, Reply
<1> QED BY <1>4, <1>5, <1>6, <1>7, <1>8, <1>9 DEF SDKStep

LEMMA Inductive == IInv /\ [Next]_vars => IInv'
<1> SUFFICES ASSUME IInv, [Next]_vars PROVE IInv'
  OBVIOUS
<1>1. ASSUME NEW d \in Callers PROVE CallState(d)'
  <2>0. CallState(d)
    BY DEF IInv
  <2>1. CASE UNCHANGED vars
    BY <2>0, <2>1 DEF vars, CallState
  <2>2. ASSUME NEW c \in Callers,
               Begin(c) \/ ContextDone(c) \/ SDKStep(c) \/ Reply(c) \/ NetworkError(c)
        PROVE  CallState(d)'
    <3>1. CASE d = c
      BY <2>2, <3>1, CallKept
    <3>2. CASE d # c
      BY <2>0, <2>2, <3>2, OthersUntouched DEF IInv, CallState
    <3> QED BY <3>1, <3>2
  <2> QED BY <2>1, <2>2 DEF Next
<1>2. (\A d \in Callers : CallState(d))'
  BY <1>1
<1> QED BY <1>2, TypeKept, SlotsKept DEF IInv

(* The inductive invariant holds in every state of every execution.         *)
THEOREM AlwaysConsistent == Spec => []IInv
BY Initially, Inductive, PTL DEF Spec

(* Every variable keeps its type, and no call makes more attempts than the
   first and RetryCount retries.                                            *)
THEOREM TypeCorrect == Spec => []TypeOK
<1>1. IInv => TypeOK
  BY DEF IInv
<1> QED BY <1>1, AlwaysConsistent, PTL

(* The semaphore's channel always holds one element per slot holder, so no
   sequence of cancellations, failures and sleeps leaks or doubles a slot.  *)
THEOREM NoSlotLost == Spec => []SlotsMatchHolders
<1>1. IInv => SlotsMatchHolders
  BY DEF IInv
<1> QED BY <1>1, AlwaysConsistent, PTL

(* No more requests are in flight than the configured limit.                *)
THEOREM InFlightCapped == Spec => []ConcurrencyCap
<1>1. ASSUME IInv, HasSemaphore PROVE Cardinality(InFlight) <= MaxConcurrent
  <2>1. InFlight \subseteq Holders
    BY DEF InFlight, Holders
  <2>2. Cardinality(InFlight) \in Nat /\ Cardinality(InFlight) <= Cardinality(Holders)
    BY <2>1, HoldersFinite, FS_Subset, FS_CardinalityType
  <2>3. Cardinality(Holders) = tokens /\ tokens <= MaxConcurrent
    BY <1>1 DEF IInv, SlotsMatchHolders, TypeOK
  <2> QED BY <2>2, <2>3, HoldersFinite, TransportAssumption
<1>2. IInv => ConcurrencyCap
  BY <1>1 DEF ConcurrencyCap
<1> QED BY <1>2, AlwaysConsistent, PTL

(* A call makes another attempt only with a verb that may be repeated, and only
   where resty itself holds the failure temporary, or the caller has not opted out
   and the attempt before met a network error or a transient status.        *)
THEOREM RetriesWarranted == Spec => RetriedForCause
<1> DEFINE Step(c) == Begin(c) \/ ContextDone(c) \/ SDKStep(c) \/ Reply(c) \/ NetworkError(c)
<1>1. ASSUME IInv, NEW c \in Callers, Step(c) PROVE RetryHasCause(c)
  <2> USE <1>1 DEF IInv, RetryHasCause
  <2>1. CASE Begin(c) \/ ContextDone(c)
    BY <2>1 DEF Begin, ContextDone, TypeOK
  <2>2. CASE Acquire(c) \/ Pause(c) \/ BackoffCancelled(c)
    BY <2>2 DEF Acquire, Pause, BackoffCancelled, TypeOK
  <2>3. CASE Send(c)
    BY <2>3 DEF Send, CallState
  <2>4. CASE BackoffElapsed(c)
    BY <2>4 DEF BackoffElapsed, CallState
  <2>5. CASE AcquireCancelled(c) \/ ReturnError(c) \/ ReturnResponse(c)
    BY <2>5 DEF AcquireCancelled, ReturnError, ReturnResponse, Return, TypeOK
  <2>6. CASE AttemptAborted(c) \/ NetworkError(c) \/ Reply(c)
    <3>1. attempts' = attempts
      BY <2>6 DEF AttemptAborted, NetworkError, AttemptFails, Reply, AttemptEnds
    <3> QED BY <3>1 DEF TypeOK
  <2> QED BY <1>1, <2>1, <2>2, <2>3, <2>4, <2>5, <2>6 DEF SDKStep
<1>2. ASSUME IInv, [Next]_vars, NEW d \in Callers PROVE RetryHasCause(d)
  <2>1. CASE UNCHANGED vars
    BY <1>2, <2>1 DEF vars, IInv, TypeOK, RetryHasCause
  <2>2. ASSUME NEW c \in Callers, Step(c) PROVE RetryHasCause(d)
    <3>1. CASE d = c
      BY <1>1, <1>2, <2>2, <3>1
    <3>2. CASE d # c
      BY <1>2, <2>2, <3>2, OthersUntouched DEF IInv, TypeOK, RetryHasCause
    <3> QED BY <3>1, <3>2
  <2> QED BY <1>2, <2>1, <2>2 DEF Next
<1>3. IInv /\ [Next]_vars => [\A c \in Callers : RetryHasCause(c)]_vars
  BY <1>2
<1> QED BY <1>3, AlwaysConsistent, PTL DEF Spec, RetriedForCause

(***************************************************************************)
(* Why calls return: the steps a call still has before it.                 *)
(***************************************************************************)
AttemptsLeft(c) == RetryCount + 1 - attempts[c]

StepsLeft(c) ==
  CASE pc[c] = "acquiring" -> 2 * AttemptsLeft(c) + 3
    [] pc[c] = "ready"     -> 2 * AttemptsLeft(c) + 2
    [] pc[c] = "inflight"  -> 2 * AttemptsLeft(c) + 3
    [] pc[c] = "backoff"   -> 2 * AttemptsLeft(c) + 2
    [] pc[c] = "settled"   -> 2
    [] pc[c] = "pausing"   -> 1
    [] pc[c] = "idle"      -> 0

OwnStep(c) == SDKStep(c) \/ Reply(c) \/ NetworkError(c)

(* A step of its own brings a call closer to its return, the end of its context
   changes nothing about it, and a call in the queue finds the slots taken by
   others: all of them, each of whom has steps before it.                   *)
Closer(c) ==
  /\ OwnStep(c) => StepsLeft(c)' < StepsLeft(c)
  /\ pc[c] # "idle" /\ ~OwnStep(c) => StepsLeft(c)' = StepsLeft(c)

BehindHolders ==
  HasSemaphore /\ tokens >= MaxConcurrent =>
    Holders # {} /\ \A h \in Holders : StepsLeft(h) > 0

LEMMA StepsCounted ==
  ASSUME IInv, NEW c \in Callers
  PROVE  /\ StepsLeft(c) \in 0 .. 2 * RetryCount + 5
         /\ StepsLeft(c) = 0 <=> pc[c] = "idle"
<1>1. /\ RetryCount \in Nat /\ pc[c] \in Phases /\ attempts[c] \in 0 .. RetryCount + 1
      /\ pc[c] \in {"idle", "acquiring", "ready"} => attempts[c] = 0
  BY TransportAssumption DEF IInv, TypeOK, CallState
<1> QED BY <1>1 DEF StepsLeft, AttemptsLeft

LEMMA OwnStepCounts ==
  ASSUME IInv, NEW c \in Callers, OwnStep(c)
  PROVE  StepsLeft(c)' < StepsLeft(c)
<1>1. /\ RetryCount \in Nat /\ pc[c] \in Phases /\ attempts[c] \in 0 .. RetryCount + 1
      /\ pc[c] \in {"idle", "acquiring", "ready"} => attempts[c] = 0
      /\ pc[c] = "backoff" => attempts[c] <= RetryCount
      /\ DOMAIN pc = Callers /\ DOMAIN attempts = Callers
  BY TransportAssumption DEF IInv, TypeOK, CallState
<1> USE <1>1 DEF GoTo, StepsLeft, AttemptsLeft
<1>2. CASE Acquire(c)
  BY <1>2 DEF Acquire
<1>3. CASE AcquireCancelled(c) \/ ReturnError(c) \/ ReturnResponse(c)
  <2>1. pc[c] # "idle" /\ pc'[c] = "idle"
    BY <1>3 DEF AcquireCancelled, ReturnError, ReturnResponse, Return
  <2> QED BY <2>1
<1>4. CASE Send(c) \/ BackoffElapsed(c)
  <2>1. /\ pc[c] \in {"ready", "backoff"} /\ pc'[c] = "inflight"
        /\ attempts'[c] = attempts[c] + 1
    BY <1>4 DEF Send, BackoffElapsed, Attempt
  <2> QED BY <2>1
<1>5. ASSUME NEW result, pc[c] = "inflight", AttemptEnds(c, result)
      PROVE  StepsLeft(c)' < StepsLeft(c)
  <2>1. pc'[c] \in {"backoff", "settled"} /\ attempts'[c] = attempts[c]
    BY <1>5 DEF AttemptEnds
  <2> QED BY <1>5, <2>1
<1>6. CASE AttemptAborted(c) \/ NetworkError(c) \/ Reply(c)
  <2>1. PICK result : pc[c] = "inflight" /\ AttemptEnds(c, result)
    BY <1>6 DEF AttemptAborted, NetworkError, AttemptFails, Reply
  <2> QED BY <1>5, <2>1
<1>7. CASE BackoffCancelled(c) \/ Pause(c)
  <2>1. \/ pc[c] = "backoff" /\ pc'[c] = "settled"
        \/ pc[c] = "settled" /\ pc'[c] = "pausing"
    BY <1>7 DEF BackoffCancelled, Pause
  <2> QED BY <2>1
<1> QED BY <1>2, <1>3, <1>4, <1>6, <1>7 DEF OwnStep, SDKStep

(* A call takes at most 2 * RetryCount + 5 steps of its own, whatever the server
   answers and others do in between; while it waits for a slot, every slot is with
   a call that has steps to take. It is what is left of EveryCallReturns and
   CancelledCallReturns when fairness sees to it that steps are taken.      *)
THEOREM CallsGetCloser ==
  Spec => /\ [](\A c \in Callers : /\ StepsLeft(c) \in 0 .. 2 * RetryCount + 5
                                   /\ StepsLeft(c) = 0 <=> pc[c] = "idle")
          /\ []BehindHolders
          /\ [][\A c \in Callers : Closer(c)]_vars
<1> DEFINE Bounded == \A c \in Callers : /\ StepsLeft(c) \in 0 .. 2 * RetryCount + 5
                                         /\ StepsLeft(c) = 0 <=> pc[c] = "idle"
<1>1. IInv => Bounded
  BY StepsCounted
<1>2. IInv => BehindHolders
  <2> SUFFICES ASSUME IInv, HasSemaphore, tokens >= MaxConcurrent
               PROVE  Holders # {} /\ \A h \in Holders : StepsLeft(h) > 0
    BY DEF BehindHolders
  <2>1. Cardinality(Holders) > 0
    BY TransportAssumption DEF IInv, TypeOK, SlotsMatchHolders, HasSemaphore
  <2>2. Holders # {}
    BY <2>1, FS_EmptySet
  <2>3. ASSUME NEW h \in Holders PROVE StepsLeft(h) > 0
    <3>1. h \in Callers /\ pc[h] # "idle"
      BY DEF Holders
    <3>2. StepsLeft(h) \in 0 .. 2 * RetryCount + 5 /\ StepsLeft(h) # 0
      BY <3>1, StepsCounted
    <3> QED BY <3>2, TransportAssumption
  <2> QED BY <2>2, <2>3
<1>3. ASSUME IInv, Next, NEW c \in Callers PROVE Closer(c)
  <2>1. OwnStep(c) => StepsLeft(c)' < StepsLeft(c)
    BY <1>3, OwnStepCounts
  <2>2. ASSUME pc[c] # "idle", ~OwnStep(c) PROVE StepsLeft(c)' = StepsLeft(c)
    <3>1. PICK d \in Callers :
            Begin(d) \/ ContextDone(d) \/ SDKStep(d) \/ Reply(d) \/ NetworkError(d)
      BY <1>3 DEF Next
    <3>2. pc'[c] = pc[c] /\ attempts'[c] = attempts[c]
      <4>1. CASE d # c
        BY <1>3, <3>1, <4>1, OthersUntouched DEF IInv
      <4>2. CASE d = c
        BY <2>2, <3>1, <4>2 DEF OwnStep, Begin, ContextDone
      <4> QED BY <4>1, <4>2
    <3> QED BY <3>2 DEF StepsLeft, AttemptsLeft
  <2> QED BY <2>1, <2>2 DEF Closer
<1>4. IInv /\ [Next]_vars => [\A c \in Callers : Closer(c)]_vars
  BY <1>3
<1> HIDE DEF Bounded
<1>5. Spec => []Bounded /\ []BehindHolders /\ [][\A c \in Callers : Closer(c)]_vars
  BY <1>1, <1>2, <1>4, AlwaysConsistent, PTL DEF Spec
<1> QED BY <1>5 DEF Bounded

(***************************************************************************)
(* Refinement: every step of the transport is a step of CallSlots.         *)
(***************************************************************************)
LEMMA SlotFree ==
  ASSUME TypeOK, SlotsMatchHolders, HasSemaphore => tokens < MaxConcurrent
  PROVE  Slots!SlotFree
<1>1. Slots!Cardinality(Holders) = Cardinality(Holders)
  BY DEF Slots!Cardinality, Cardinality
<1> QED
  BY <1>1, TransportAssumption DEF TypeOK, SlotsMatchHolders, HasSemaphore, Slots!SlotFree

LEMMA SlotStep ==
  ASSUME IInv, NEW c \in Callers,
         Begin(c) \/ ContextDone(c) \/ SDKStep(c) \/ Reply(c) \/ NetworkError(c)
  PROVE  [Slots!Next]_Slots!slotVars
<1> USE DEF IInv
<1>1. ASSUME NEW p \in Phases, GoTo(c, p), p # "acquiring", pc[c] # "acquiring"
      PROVE  Waiting' = Waiting
  BY <1>1 DEF Waiting, GoTo, TypeOK
<1>2. ASSUME NEW p \in HolderPhases, pc[c] \in HolderPhases, GoTo(c, p)
      PROVE  UNCHANGED Slots!slotVars
  <2>1. Waiting' = Waiting
    BY <1>1, <1>2 DEF HolderPhases
  <2>2. Holders' = Holders
    BY <1>2, HoldersKept DEF HolderPhases
  <2> QED BY <2>1, <2>2 DEF Slots!slotVars
<1>3. CASE Begin(c)
  <2>1. Holders' = Holders
    BY <1>3, HoldersKept DEF Begin, HolderPhases
  <2>2. Waiting' = Waiting \cup {c} /\ c \notin Waiting \cup Holders
    BY <1>3 DEF Begin, GoTo, TypeOK, Waiting, Holders
  <2> QED BY <2>1, <2>2 DEF Slots!Next, Slots!Arrive
<1>4. CASE ContextDone(c)
  BY <1>4 DEF ContextDone, Waiting, Holders, Slots!slotVars
<1>5. CASE Acquire(c)
  <2>1. Holders' = Holders \cup {c}
    BY <1>5, HolderJoins DEF Acquire, HolderPhases
  <2>2. Waiting' = Waiting \ {c} /\ c \in Waiting
    BY <1>5 DEF Acquire, GoTo, TypeOK, Waiting
  <2>3. Slots!SlotFree
    BY <1>5, SlotFree DEF Acquire
  <2> QED BY <2>1, <2>2, <2>3 DEF Slots!Next, Slots!Grant
<1>6. CASE AcquireCancelled(c)
  <2>1. Holders' = Holders
    BY <1>6, HoldersKept DEF AcquireCancelled, Return, HolderPhases
  <2>2. Waiting' = Waiting \ {c} /\ c \in Waiting
    BY <1>6 DEF AcquireCancelled, Return, GoTo, TypeOK, Waiting
  <2> QED BY <2>1, <2>2 DEF Slots!Next, Slots!GiveUp
<1>7. CASE Send(c) \/ BackoffElapsed(c) \/ BackoffCancelled(c) \/ Pause(c)
  BY <1>2, <1>7 DEF Send, BackoffElapsed, Attempt, BackoffCancelled, Pause, HolderPhases
<1>8. ASSUME NEW result, pc[c] = "inflight", AttemptEnds(c, result)
      PROVE  UNCHANGED Slots!slotVars
  BY <1>2, <1>8 DEF AttemptEnds, HolderPhases
<1>9. CASE AttemptAborted(c) \/ NetworkError(c) \/ Reply(c)
  BY <1>8, <1>9 DEF AttemptAborted, NetworkError, AttemptFails, Reply
<1>10. CASE ReturnError(c) \/ ReturnResponse(c)
  <2>1. Holders' = Holders \ {c} /\ c \in Holders
    BY <1>10, HolderLeaves DEF ReturnError, ReturnResponse, Return, HolderPhases
  <2>2. Waiting' = Waiting
    BY <1>1, <1>10 DEF ReturnError, ReturnResponse, Return
  <2> QED BY <2>1, <2>2 DEF Slots!Next, Slots!Leave
<1> QED BY <1>3, <1>4, <1>5, <1>6, <1>7, <1>9, <1>10 DEF SDKStep

(* The transport grants, keeps and returns slots exactly as CallSlots does.  *)
THEOREM TransportKeepsSlots == Spec => KeepsSlots
<1>1. Init => Slots!Init
  BY DEF Init, Slots!Init, Waiting, Holders
<1>2. IInv /\ [Next]_vars => [Slots!Next]_Slots!slotVars
  <2> SUFFICES ASSUME IInv, [Next]_vars PROVE [Slots!Next]_Slots!slotVars
    OBVIOUS
  <2>1. CASE UNCHANGED vars
    BY <2>1 DEF vars, Slots!slotVars, Waiting, Holders
  <2> QED BY <2>1, SlotStep DEF Next
<1> QED BY <1>1, <1>2, AlwaysConsistent, PTL DEF Spec, KeepsSlots, Slots!SafeSpec

=============================================================================
