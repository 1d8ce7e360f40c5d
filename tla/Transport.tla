----------------------------- MODULE Transport -----------------------------
(***************************************************************************)
(* executeRequest of thousandeyes/client/transport.go, run by several      *)
(* goroutines that share one Transport, with the semaphore of              *)
(* concurrency.go, the retry verdict of retry.go and the part of resty's   *)
(* retry loop those functions rely on.                                     *)
(*                                                                         *)
(*   idle -> acquiring -> ready -> inflight <-> backoff                    *)
(*                                    |            |                       *)
(*            idle <- pausing <---- settled <------+                       *)
(*                                                                         *)
(* Time is left out: a context is done or it is not, and a sleep ends some *)
(* time after it begins. Pacing.tla is about how long the sleeps are.      *)
(***************************************************************************)
EXTENDS Retry, FiniteSets

CONSTANTS
  Callers,        \* the goroutines that share the Transport
  MaxConcurrent,  \* WithMaxConcurrentRequests; with 0 there is no semaphore
  RetryCount,     \* the retries resty makes after the first attempt
  Budgeted,       \* whether WithTotalRetryDuration set a budget
  Methods,        \* the verbs callers use
  Deadlines,      \* the deadlines callers put on their contexts: "none", or
                  \* one that falls "sooner" or "later" than the budget would
  Statuses        \* the status codes the server may answer with

ASSUME TransportAssumption ==
  /\ IsFiniteSet(Callers)
  /\ MaxConcurrent \in Nat
  /\ RetryCount \in Nat
  /\ Budgeted \in BOOLEAN
  /\ Deadlines \subseteq {"none", "sooner", "later"}
  /\ Statuses \subseteq Nat

VARIABLES
  pc,       \* where each caller is in executeRequest
  request,  \* what the caller asked for: the verb, and whether to never retry
  ctx,      \* the context of the request as executeRequest holds it
  attempts, \* attempts made for the current call
  last,     \* what the latest of them returned
  tokens    \* elements in the semaphore's channel

vars == <<pc, request, ctx, attempts, last, tokens>>

Phases == {"idle", "acquiring", "ready", "inflight", "backoff", "settled", "pausing"}

Requests == [method : Methods, noRetry : BOOLEAN]
Contexts == [deadline : {"none", "budget", "sooner", "later"},
             noRetry : BOOLEAN, done : BOOLEAN]
Results  == [err : BOOLEAN, temporary : BOOLEAN,
             resp : [nil : BOOLEAN, method : Methods \cup {""}, noRetry : BOOLEAN, status : Nat]]

NoRequest == [method |-> "", noRetry |-> FALSE]
NoContext == [deadline |-> "none", noRetry |-> FALSE, done |-> FALSE]
NoResult  == [err |-> FALSE, temporary |-> FALSE, resp |-> NoResponse]

Init ==
  /\ pc       = [c \in Callers |-> "idle"]
  /\ request  = [c \in Callers |-> NoRequest]
  /\ ctx      = [c \in Callers |-> NoContext]
  /\ attempts = [c \in Callers |-> 0]
  /\ last     = [c \in Callers |-> NoResult]
  /\ tokens   = 0

GoTo(c, phase) == pc' = [pc EXCEPT ![c] = phase]

(* executeRequest returns: what was local to the call is gone.              *)
Return(c) ==
  /\ GoTo(c, "idle")
  /\ request'  = [request EXCEPT ![c] = NoRequest]
  /\ ctx'      = [ctx EXCEPT ![c] = NoContext]
  /\ attempts' = [attempts EXCEPT ![c] = 0]
  /\ last'     = [last EXCEPT ![c] = NoResult]

(***************************************************************************)
(* The semaphore. acquire selects between sending to the channel and the   *)
(* context; when both are ready Go picks either.                           *)
(***************************************************************************)
HasSemaphore == MaxConcurrent > 0

\* Mutant of Release: the early return forgets the slot.
ReleaseForgotten == UNCHANGED tokens

Release == tokens' = IF HasSemaphore /\ tokens > 0 THEN tokens - 1 ELSE tokens

\* Mutant of WithBudget: the wrapped context starts over from the background.
WithBudgetOnBackground(context) ==
  IF Budgeted /\ context.deadline = "none"
    THEN [NoContext EXCEPT !.deadline = "budget"] ELSE context

(* The total retry budget is put on a context that carries no deadline. The
   wrapped context still carries what the caller's one did.                 *)
WithBudget(context) ==
  IF Budgeted /\ context.deadline = "none"
    THEN [context EXCEPT !.deadline = "budget"] ELSE context

Begin(c) ==
  /\ pc[c] = "idle"
  /\ \E r \in Requests, d \in Deadlines :
       /\ request' = [request EXCEPT ![c] = r]
       /\ ctx' = [ctx EXCEPT ![c] =
            WithBudget([deadline |-> d, noRetry |-> r.noRetry, done |-> FALSE])]
  /\ GoTo(c, "acquiring")
  /\ UNCHANGED <<attempts, last, tokens>>

(* The caller cancels, or a deadline passes.                                *)
ContextDone(c) ==
  /\ pc[c] # "idle"
  /\ ~ctx[c].done
  /\ ctx' = [ctx EXCEPT ![c].done = TRUE]
  /\ UNCHANGED <<pc, request, attempts, last, tokens>>

\* Mutant of Acquire: the channel has room for one element too many.
AcquireOneTooMany(c) ==
  /\ pc[c] = "acquiring"
  /\ HasSemaphore => tokens <= MaxConcurrent
  /\ tokens' = IF HasSemaphore THEN tokens + 1 ELSE tokens
  /\ GoTo(c, "ready")
  /\ UNCHANGED <<request, ctx, attempts, last>>

Acquire(c) ==
  /\ pc[c] = "acquiring"
  /\ HasSemaphore => tokens < MaxConcurrent
  /\ tokens' = IF HasSemaphore THEN tokens + 1 ELSE tokens
  /\ GoTo(c, "ready")
  /\ UNCHANGED <<request, ctx, attempts, last>>

\* Mutant of AcquireCancelled: the release is deferred before the error check.
AcquireCancelledReleases(c) ==
  /\ pc[c] = "acquiring"
  /\ HasSemaphore
  /\ ctx[c].done
  /\ Return(c)
  /\ Release

\* Mutant of AcquireCancelled: acquire sends to the channel without a select.
AcquireIgnoresContext(c) == FALSE

(* acquire returned ctx.Err(), before the release was deferred.             *)
AcquireCancelled(c) ==
  /\ pc[c] = "acquiring"
  /\ HasSemaphore
  /\ ctx[c].done
  /\ Return(c)
  /\ UNCHANGED tokens

(***************************************************************************)
(* req.Execute: resty's retry loop.                                        *)
(***************************************************************************)
Attempt(c) ==
  /\ attempts' = [attempts EXCEPT ![c] = @ + 1]
  /\ GoTo(c, "inflight")
  /\ UNCHANGED <<request, ctx, last, tokens>>

Send(c) == pc[c] = "ready" /\ Attempt(c)

(* What resty decides an attempt by. retryCondition judges what it is handed,
   the context that executeRequest has wrapped included.                    *)
RestyRetries(result) == RestyDefaultConditions(result.resp, result.err, result.temporary)
SDKRetries(result)   == RetryCondition(result.resp, result.err)

(* A further attempt needs one to be left, a verb that resty repeats, a yes of
   either kind, and a context that has not just ended the attempt.          *)
AttemptEnds(c, result) ==
  /\ last' = [last EXCEPT ![c] = result]
  /\ GoTo(c, IF /\ attempts[c] <= RetryCount
                /\ RestyIdempotent(request[c].method)
                /\ RestyRetries(result) \/ SDKRetries(result)
                /\ ~(result.err /\ ctx[c].done)
             THEN "backoff" ELSE "settled")
  /\ UNCHANGED <<request, ctx, attempts, tokens>>

Answered(c, status) == Response(request[c].method, ctx[c].noRetry, status)

Reply(c) ==
  /\ pc[c] = "inflight"
  /\ \E status \in Statuses :
       AttemptEnds(c, [err |-> FALSE, temporary |-> FALSE, resp |-> Answered(c, status)])

(* Connection refused or reset, a timeout of the attempt or the end of the
   context: an error, temporary or not, with or without a response that names
   the request.                                                             *)
AttemptFails(c) ==
  \E resp \in {NoResponse, Answered(c, 0)}, temporary \in BOOLEAN :
    AttemptEnds(c, [err |-> TRUE, temporary |-> temporary, resp |-> resp])

NetworkError(c) == pc[c] = "inflight" /\ ~ctx[c].done /\ AttemptFails(c)
AttemptAborted(c) == pc[c] = "inflight" /\ ctx[c].done /\ AttemptFails(c)

BackoffElapsed(c) == pc[c] = "backoff" /\ Attempt(c)

BackoffCancelled(c) ==
  /\ pc[c] = "backoff"
  /\ ctx[c].done
  /\ last' = [last EXCEPT ![c].err = TRUE]
  /\ GoTo(c, "settled")
  /\ UNCHANGED <<request, ctx, attempts, tokens>>

(***************************************************************************)
(* What executeRequest does with the outcome. Both returns run the         *)
(* deferred release.                                                       *)
(***************************************************************************)
Failed(result) == result.err \/ result.resp.status > 399

ReturnError(c) ==
  /\ pc[c] = "settled"
  /\ Failed(last[c])
  /\ Return(c)
  /\ Release

(* The sleeps on the success path do not watch the context.                 *)
Pause(c) ==
  /\ pc[c] = "settled"
  /\ ~Failed(last[c])
  /\ GoTo(c, "pausing")
  /\ UNCHANGED <<request, ctx, attempts, last, tokens>>

ReturnResponse(c) ==
  /\ pc[c] = "pausing"
  /\ Return(c)
  /\ Release

SDKStep(c) ==
  \/ Acquire(c) \/ AcquireCancelled(c)
  \/ Send(c) \/ AttemptAborted(c) \/ BackoffElapsed(c) \/ BackoffCancelled(c)
  \/ ReturnError(c) \/ Pause(c) \/ ReturnResponse(c)

Next == \E c \in Callers :
          Begin(c) \/ ContextDone(c) \/ SDKStep(c) \/ Reply(c) \/ NetworkError(c)

Spec == Init /\ [][Next]_vars

(***************************************************************************)
(* Fairness. A runnable goroutine runs, timers fire and the HTTP client    *)
(* gives up an attempt whose context is done. Acquire is strongly fair: Go *)
(* queues the senders blocked on a channel and serves them first come,     *)
(* first served. That an attempt ends on its own rests on the timeout      *)
(* NewTransport always sets, so it is kept apart: under FairSpec the server *)
(* may hang.                                                               *)
(***************************************************************************)
SDKFairness    == \A c \in Callers : SF_vars(Acquire(c)) /\ WF_vars(SDKStep(c))
ServerFairness == \A c \in Callers : WF_vars(Reply(c) \/ NetworkError(c))

FairSpec == Spec /\ SDKFairness

-----------------------------------------------------------------------------
(* Every variable has its type, and no call makes more than the first
   attempt and the configured retries.                                      *)
TypeOK ==
  /\ pc \in [Callers -> Phases]
  /\ request \in [Callers -> Requests \cup {NoRequest}]
  /\ ctx \in [Callers -> Contexts]
  /\ attempts \in [Callers -> 0 .. RetryCount + 1]
  /\ last \in [Callers -> Results]
  /\ tokens \in 0 .. MaxConcurrent

Holders  == {c \in Callers : pc[c] \in Phases \ {"idle", "acquiring"}}
InFlight == {c \in Callers : pc[c] = "inflight"}

(* The channel holds one element for each caller between its acquire and its
   deferred release: a cancelled acquire, an error return or a sleeping call
   neither loses a slot nor frees one that is still in use.                 *)
SlotsMatchHolders == tokens = IF HasSemaphore THEN Cardinality(Holders) ELSE 0

(* MaxConcurrentRequests "caps parallel in-flight API requests".            *)
ConcurrencyCap == HasSemaphore => Cardinality(InFlight) <= MaxConcurrent

(* What warrants another attempt of a request, given what the last one returned. *)
Warranted(r, result) ==
  /\ RestyIdempotent(r.method)
  /\ \/ RestyRetries(result)
     \/ /\ ~r.noRetry
        /\ result.err \/ IsTransientStatusCode(result.resp.status)

(* What makes the promises inductive: a call has not sent anything until it
   holds its slot, waits only for a retry that a verdict allowed and for which
   an attempt is left, and its context still carries the caller's opt-out.  *)
CallState(c) ==
  /\ pc[c] \in {"idle", "acquiring", "ready"} => attempts[c] = 0
  /\ pc[c] = "idle" => request[c] = NoRequest
  /\ pc[c] # "idle" => ctx[c].noRetry = request[c].noRetry
  /\ pc[c] = "backoff" => attempts[c] <= RetryCount /\ Warranted(request[c], last[c])

IInv == TypeOK /\ SlotsMatchHolders /\ \A c \in Callers : CallState(c)

(* An attempt after the first repeats a verb that may be repeated. Unless resty
   itself holds the failure temporary, the caller has not opted out with
   DisableRetry, however executeRequest wrapped the context since, and the attempt
   before met a network error or a transient status: never a definitive one such
   as 404, and never a success.                                             *)
RetryHasCause(c) ==
  attempts[c] > 0 /\ attempts'[c] > attempts[c] => Warranted(request[c], last[c])

RetriedForCause == [][\A c \in Callers : RetryHasCause(c)]_vars

(* no_retry.go has "noRetryKey marks a request that must never be retried by the
   transport"; resty's own conditions do not look at the mark.              *)
NeverRetried == \A c \in Callers : request[c].noRetry => attempts[c] <= 1

(* Every call returns, provided every attempt ends.                         *)
EveryCallReturns ==
  ServerFairness => \A c \in Callers : pc[c] # "idle" ~> pc[c] = "idle"

(* Once its context is done a call returns even when no server ever answers
   anybody: it cannot be stuck behind the callers that hold the slots.      *)
CancelledCallReturns ==
  \A c \in Callers : pc[c] # "idle" /\ ctx[c].done ~> pc[c] = "idle"

(* The transport keeps the promise of CallSlots, whose clients are the callers
   of executeRequest.                                                       *)
Waiting == {c \in Callers : pc[c] = "acquiring"}

Slots == INSTANCE CallSlots
           WITH Clients <- Callers, Slots <- MaxConcurrent,
                waiting <- Waiting, holding <- Holders

KeepsSlots == Slots!SafeSpec

=============================================================================
