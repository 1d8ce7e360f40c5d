------------------------------- MODULE Pacing -------------------------------
(***************************************************************************)
(* The throttles: goroutines that share one Transport spend the            *)
(* organization's quota, which the server counts in windows of a fixed     *)
(* length and reports in the headers of its answers. A worker whose call   *)
(* succeeds lets rateLimitTracker observe the headers and sleeps for as    *)
(* long as it is told; if it is told nothing, responseTimeTracker records  *)
(* how long the response took, and may have it sleep instead.              *)
(*                                                                         *)
(* The server is external; ratelimit.go and its tests say what it reports. *)
(***************************************************************************)
EXTENDS RateLimit

CONSTANTS
  Workers,   \* the goroutines that share the Transport
  Limit,     \* requests the server accepts in one window
  Window,    \* the length of a window
  Reported,  \* what answers carry: "all" headers, "no reset", or "none"
  Faults,    \* whether the server may fail a request it has counted
  Durations, \* how long a response may take
  MaxTime    \* bound on the clock

ASSUME PacingAssumption ==
  /\ Limit \in Nat \ {0} /\ Window \in Nat \ {0}
  /\ Reported \subseteq {"all", "no reset", "none"}
  /\ Faults \in BOOLEAN
  /\ Durations \subseteq Nat
  /\ MaxTime \in Nat

VARIABLES
  now,        \* the clock
  windowEnd,  \* when the server's current window rolls over
  used,       \* requests the server has counted in it
  rejected,   \* whether the server has ever answered 429
  quota,      \* the tracker's snapshot
  average,    \* the other tracker's average of the times responses took
  pc,         \* "idle", "answered" or "asleep", for each worker
  answer,     \* the answer a worker has yet to handle: success, headers, and time taken
  wake,       \* when a worker that is asleep wakes
  impaired,   \* whether a counted request has failed or its answer has come
              \* without all headers; read by no action
  fastest     \* the shortest time recorded; another history variable

server   == <<now, windowEnd, used, rejected>>
trackers == <<quota, average>>
history  == <<impaired, fastest>>
vars     == <<now, windowEnd, used, rejected, quota, average, pc, answer, wake, impaired,
              fastest>>

NoHeaders == [limit |-> Absent, remaining |-> Absent, reset |-> Absent]
NoAnswer  == [ok |-> FALSE, headers |-> NoHeaders, took |-> 0]

Init ==
  /\ now = 0 /\ windowEnd = Window /\ used = 0 /\ rejected = FALSE
  /\ quota  = NoQuota /\ average = Absent
  /\ pc     = [w \in Workers |-> "idle"]
  /\ answer = [w \in Workers |-> NoAnswer]
  /\ wake   = [w \in Workers |-> 0]
  /\ impaired = FALSE /\ fastest = Absent

HeadersOf(remaining, what) ==
  IF what = "none" THEN NoHeaders
  ELSE [limit |-> Limit, remaining |-> remaining,
        reset |-> IF what = "all" THEN windowEnd ELSE Absent]

(***************************************************************************)
(* The server answers an attempt: it counts the request while the window   *)
(* has room and refuses it with 429 afterwards. A counted request may fail *)
(* all the same.                                                           *)
(***************************************************************************)
Accept(w) ==
  /\ pc[w] = "idle"
  /\ used < Limit
  /\ used' = used + 1
  /\ \E what \in Reported, ok \in BOOLEAN :
       /\ ok \/ Faults
       /\ \E took \in (IF ok THEN Durations ELSE {0}) :
            answer' = [answer EXCEPT ![w] =
                         [ok |-> ok, headers |-> HeadersOf(Limit - used', what), took |-> took]]
       /\ impaired' = (impaired \/ ~ok \/ what # "all")
  /\ pc' = [pc EXCEPT ![w] = "answered"]
  /\ UNCHANGED <<now, windowEnd, rejected, trackers, wake, fastest>>

Refuse(w) ==
  /\ pc[w] = "idle"
  /\ used = Limit
  /\ rejected' = TRUE
  /\ \E what \in Reported :
       answer' = [answer EXCEPT ![w] =
                    [NoAnswer EXCEPT !.headers = HeadersOf(0, what)]]
  /\ pc' = [pc EXCEPT ![w] = "answered"]
  /\ UNCHANGED <<now, windowEnd, used, trackers, wake, history>>

Shorter(fast, took) == IF fast = Absent \/ took < fast THEN took ELSE fast

(* The end of executeRequest for a success: observe, then sleep; record only where
   observe asks for no sleep, whether or not there were headers.            *)
Observe(w) ==
  /\ pc[w] = "answered"
  /\ answer[w].ok
  /\ LET headers == answer[w].headers
         took    == answer[w].took
         pace    == Delay(headers, now)
     IN
       /\ quota' = Recorded(quota, headers)
       /\ IF pace > 0
            THEN /\ wake' = [wake EXCEPT ![w] = now + pace]
                 /\ UNCHANGED <<average, fastest>>
            ELSE /\ wake' = [wake EXCEPT ![w] = now + AdaptiveDelay(average, took)]
                 /\ average' = Averaged(average, took)
                 /\ fastest' = Shorter(fastest, took)
  /\ answer' = [answer EXCEPT ![w] = NoAnswer]
  /\ pc' = [pc EXCEPT ![w] = "asleep"]
  /\ UNCHANGED <<server, impaired>>

(* A failure returns, or is retried by resty, before observe is reached: of what
   its headers say the trackers learn nothing.                              *)
Fail(w) ==
  /\ pc[w] = "answered"
  /\ ~answer[w].ok
  /\ answer' = [answer EXCEPT ![w] = NoAnswer]
  /\ pc' = [pc EXCEPT ![w] = "idle"]
  /\ UNCHANGED <<server, trackers, wake, history>>

Wake(w) ==
  /\ pc[w] = "asleep"
  /\ now >= wake[w]
  /\ wake' = [wake EXCEPT ![w] = 0]
  /\ pc' = [pc EXCEPT ![w] = "idle"]
  /\ UNCHANGED <<server, trackers, answer, history>>

(* Time passes, and a new window opens when the current one is over.        *)
Tick ==
  /\ now < MaxTime
  /\ now' = now + 1
  /\ IF now' = windowEnd
       THEN windowEnd' = windowEnd + Window /\ used' = 0
       ELSE UNCHANGED <<windowEnd, used>>
  /\ UNCHANGED <<rejected, trackers, pc, answer, wake, history>>

(* The bounded clock has stopped, which is the model's end, not the code's.  *)
Horizon == now = MaxTime /\ UNCHANGED vars

Next ==
  \/ \E w \in Workers : Accept(w) \/ Refuse(w) \/ Observe(w) \/ Fail(w) \/ Wake(w)
  \/ Tick \/ Horizon

Spec == Init /\ [][Next]_vars

-----------------------------------------------------------------------------
(* Every variable has its type, and the clock is inside the window.         *)
TypeOK ==
  /\ now \in Nat /\ windowEnd \in Nat /\ now < windowEnd
  /\ used \in 0 .. Limit
  /\ rejected \in BOOLEAN
  /\ quota \in Quotas
  /\ pc \in [Workers -> {"idle", "answered", "asleep"}]
  /\ answer \in [Workers -> [ok : BOOLEAN, headers : Headers, took : Nat]]
  /\ wake \in [Workers -> Nat]
  /\ impaired \in BOOLEAN
  /\ {average, fastest} \subseteq Nat \cup {Absent}

(* Pacing stalls no caller past the end of the window it is meant to stretch
   the budget over, however late the answer is handled and however many
   workers share the trackers; a slow response, no longer than the ceiling
   ("so a single slow response cannot stall the client").                    *)
SleepsWithinWindow ==
  \A w \in Workers : pc[w] = "asleep" => wake[w] <= windowEnd \/ wake[w] <= now + AdaptiveMax

(* ratelimit.go: the response-time tracker reacts to "a sustained slowdown". What
   it averages, in whatever order workers record, was slowed down before anybody
   is delayed: whoever sleeps without a pace waited more than twice as long for
   its response as somebody did before.                                     *)
DelayedForSlowness ==
  [][\A w \in Workers :
       /\ pc[w] = "answered" /\ pc'[w] = "asleep"
       /\ Delay(answer[w].headers, now) = 0 /\ wake'[w] > now
       => fastest # Absent /\ answer[w].took > 2 * fastest]_vars

(* ratelimit.go, observe: the delay makes "the budget last until reset rather
   than being exhausted early and earning a 429". It is so for one worker, and
   for two when the limit is at least 10, until a counted request fails or is
   answered without all headers: see PacingProofs.                          *)
BudgetLasts == rejected => impaired

(* RateLimit, "the organization quota as last reported", may lag behind what
   the workers have sent since, and answers may be observed in any order, but
   for the window it names it never says that less is left than there is.    *)
Honest(headers) == headers.reset = windowEnd => headers.remaining >= Limit - used

QuotaNotPessimistic == Honest(quota)

=============================================================================
