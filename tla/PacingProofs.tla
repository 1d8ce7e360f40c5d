---------------------------- MODULE PacingProofs ----------------------------
(***************************************************************************)
(* Theorems about Pacing, for any workers, limit, window length, response  *)
(* times and clock bound.                                                  *)
(***************************************************************************)
EXTENDS Pacing, TLAPS

LEMMA Constants == Limit \in Nat /\ Limit > 0 /\ Window \in Nat /\ Window > 0
<1>1. Limit \in Nat \ {0} /\ Window \in Nat \ {0}
  BY PacingAssumption
<1> QED BY <1>1

(* A tracker never asks for a sleep past the reset it was told, and asks for
   all of it when nothing, or a single request, is left.                    *)
LEMMA DivisionBound ==
  ASSUME NEW t \in Nat, NEW n \in Nat \ {0}
  PROVE  t \div n \in 0 .. t
OBVIOUS

LEMMA DelayBound ==
  ASSUME NEW t \in Nat, NEW headers \in Headers
  PROVE  /\ Delay(headers, t) \in Nat
         /\ headers.reset # Absent /\ headers.reset > t => t + Delay(headers, t) <= headers.reset
         /\ headers.reset = Absent \/ headers.reset <= t => Delay(headers, t) = 0
<1>1. CASE ~NeedsPacing(headers, t)
  BY <1>1 DEF Delay, Headers, Header
<1>2. CASE NeedsPacing(headers, t)
  <2>1. /\ headers.remaining \in Nat /\ headers.reset \in Int
        /\ headers.reset - t \in Nat /\ headers.reset > t /\ headers.reset # Absent
    BY <1>2 DEF NeedsPacing, Reports, Headers, Header
  <2>2. CASE headers.remaining = 0
    BY <1>2, <2>1, <2>2 DEF Delay
  <2>3. CASE headers.remaining # 0
    <3>1. (headers.reset - t) \div headers.remaining \in 0 .. headers.reset - t
      BY <2>1, <2>3, DivisionBound
    <3>2. Delay(headers, t) = (headers.reset - t) \div headers.remaining
      BY <1>2, <2>3 DEF Delay
    <3> QED BY <2>1, <3>1, <3>2
  <2> QED BY <2>2, <2>3
<1> QED BY <1>1, <1>2

LEMMA DelayWhenSpent ==
  ASSUME NEW t \in Nat, NEW headers \in Headers,
         headers.limit # Absent, headers.limit > 0,
         headers.remaining = 0, headers.reset # Absent, headers.reset > t
  PROVE  t + Delay(headers, t) = headers.reset
BY AbsentAssumption DEF Delay, NeedsPacing, Reports, InReserve, Headers, Header

LEMMA DelayForLast ==
  ASSUME NEW t \in Nat, NEW headers \in Headers,
         headers.limit # Absent, headers.limit >= 10,
         headers.remaining = 1, headers.reset # Absent, headers.reset > t
  PROVE  t + Delay(headers, t) = headers.reset
<1>1. headers.limit \in Int /\ headers.reset \in Int
  BY DEF Headers, Header
<1>2. NeedsPacing(headers, t)
  BY <1>1, AbsentAssumption DEF NeedsPacing, Reports, InReserve
<1>3. (headers.reset - t) \div 1 = headers.reset - t
  BY <1>1
<1> QED BY <1>1, <1>2, <1>3 DEF Delay

(* The moving average of times is a time between the shortest and the longest;
   a delay needs a response of more than twice the average, and is cut off.  *)
LEMMA FifthBounds ==
  ASSUME NEW a \in Nat, NEW b \in Nat
  PROVE  /\ (a + 4 * b) \div 5 \in Nat
         /\ \A f \in Nat : f <= a /\ f <= b => f <= (a + 4 * b) \div 5
OBVIOUS

Times == Nat \cup {Absent}

(* An average is never shorter than everything it averages.                  *)
NotBelow(avg, fast) ==
  /\ avg \in Times /\ fast \in Times
  /\ avg = Absent <=> fast = Absent
  /\ avg # Absent => fast <= avg

LEMMA AveragedBounds ==
  ASSUME NEW avg, NEW fast, NotBelow(avg, fast), NEW took \in Nat
  PROVE  /\ Averaged(avg, took) \in Nat
         /\ NotBelow(Averaged(avg, took), Shorter(fast, took))
<1>1. CASE avg = Absent
  BY <1>1, AbsentAssumption DEF NotBelow, Averaged, Shorter, Times
<1>2. CASE avg # Absent
  <2>1. avg \in Nat /\ fast \in Nat /\ fast <= avg /\ fast # Absent
    BY <1>2 DEF NotBelow, Times
  <2>2. Averaged(avg, took) = (took + 4 * avg) \div 5
    BY <1>2 DEF Averaged
  <2>3. /\ Averaged(avg, took) \in Nat
        /\ \A f \in Nat : f <= took /\ f <= avg => f <= Averaged(avg, took)
    BY <2>1, <2>2, FifthBounds
  <2>4. /\ Shorter(fast, took) \in Nat
        /\ Shorter(fast, took) <= took /\ Shorter(fast, took) <= avg
    BY <2>1 DEF Shorter
  <2>5. Averaged(avg, took) # Absent /\ Shorter(fast, took) # Absent
    BY <2>3, <2>4, AbsentAssumption
  <2> QED BY <2>3, <2>4, <2>5 DEF NotBelow, Times
<1> QED BY <1>1, <1>2

LEMMA AdaptiveBounds ==
  ASSUME NEW avg, NEW fast, NotBelow(avg, fast), NEW took \in Nat
  PROVE  /\ AdaptiveDelay(avg, took) \in 0 .. AdaptiveMax
         /\ AdaptiveDelay(avg, took) > 0 => fast # Absent /\ took > 2 * fast
<1>1. Averaged(avg, took) \in Nat /\ AdaptiveMax \in Nat
  BY AveragedBounds, AdaptiveAssumption
<1>2. AdaptiveDelay(avg, took) \in 0 .. AdaptiveMax
  BY <1>1 DEF AdaptiveDelay
<1>3. ASSUME AdaptiveDelay(avg, took) > 0 PROVE fast # Absent /\ took > 2 * fast
  <2>1. took > 2 * Averaged(avg, took)
    BY <1>1, <1>3 DEF AdaptiveDelay
  <2>2. avg # Absent
    BY <1>1, <2>1 DEF Averaged
  <2>3. fast \in Nat /\ fast # Absent /\ avg \in Nat /\ fast <= avg
    BY <2>2 DEF NotBelow, Times
  <2>4. Averaged(avg, took) = (took + 4 * avg) \div 5
    BY <2>2 DEF Averaged
  <2>5. fast <= took => fast <= Averaged(avg, took)
    BY <2>3, <2>4, FifthBounds
  <2>6. fast <= took
    BY <2>1, <2>3, <2>4
  <2>7. fast <= Averaged(avg, took)
    BY <2>5, <2>6
  <2> QED BY <1>1, <2>1, <2>3, <2>7
<1> QED BY <1>2, <1>3

(***************************************************************************)
(* The inductive invariant: answers carry nothing, or the limit, what was  *)
(* left and no reset later than the current window's end, and sleeps end   *)
(* with the window or the ceiling. The average is of times that responses  *)
(* took.                                                                   *)
(***************************************************************************)
ServerHeaders ==
  {NoHeaders} \cup [limit : {Limit}, remaining : 0 .. Limit,
                    reset : {Absent} \cup 0 .. windowEnd]

SleeperState(w) ==
  /\ answer[w].headers \in ServerHeaders
  /\ pc[w] = "asleep" => wake[w] <= windowEnd \/ wake[w] <= now + AdaptiveMax

IInv == TypeOK /\ NotBelow(average, fastest) /\ \A w \in Workers : SleeperState(w)

LEMMA ServerHeadersTyped ==
  ASSUME windowEnd \in Nat PROVE ServerHeaders \subseteq Headers
<1>1. NoHeaders \in Headers
  BY DEF NoHeaders, Headers, Header
<1>2. [limit : {Limit}, remaining : 0 .. Limit, reset : {Absent} \cup 0 .. windowEnd]
        \subseteq Headers
  BY Constants DEF Headers, Header
<1> QED BY <1>1, <1>2 DEF ServerHeaders

LEMMA HeadersOfServer ==
  ASSUME windowEnd \in Nat, NEW n \in 0 .. Limit, NEW what
  PROVE  HeadersOf(n, what) \in ServerHeaders
BY Constants DEF HeadersOf, ServerHeaders

LEMMA Initially == Init => IInv
<1> SUFFICES ASSUME Init PROVE IInv
  OBVIOUS
<1>1. NoHeaders \in Headers /\ NoQuota \in Quotas
  BY DEF NoHeaders, Headers, Header, NoQuota, Quotas
<1>2. NoAnswer \in [ok : BOOLEAN, headers : Headers, took : Nat]
  BY <1>1 DEF NoAnswer
<1>3. TypeOK
  <2>1. now \in Nat /\ windowEnd \in Nat /\ now < windowEnd /\ used \in 0 .. Limit
    BY Constants DEF Init
  <2>2. wake \in [Workers -> Nat]
    BY DEF Init
  <2> QED BY <1>1, <1>2, <2>1, <2>2 DEF Init, TypeOK
<1>4. \A w \in Workers : SleeperState(w)
  BY DEF Init, SleeperState, NoAnswer, ServerHeaders
<1>5. NotBelow(average, fastest)
  BY DEF Init, NotBelow, Times
<1> QED BY <1>3, <1>4, <1>5 DEF IInv

(* What observe leaves behind for the worker that calls it.                 *)
LEMMA ObserveSleeps ==
  ASSUME IInv, NEW w \in Workers, Observe(w)
  PROVE  /\ quota' \in Quotas
         /\ wake'[w] \in Nat
         /\ wake'[w] <= windowEnd \/ wake'[w] <= now + AdaptiveMax
<1> DEFINE headers == answer[w].headers
          slow    == AdaptiveDelay(average, answer[w].took)
<1>1. /\ now \in Nat /\ windowEnd \in Nat /\ now < windowEnd
      /\ AdaptiveMax \in Nat /\ slow \in 0 .. AdaptiveMax
  BY AdaptiveBounds, AdaptiveAssumption DEF IInv, TypeOK
<1>2. headers \in ServerHeaders /\ headers \in Headers
  BY <1>1, ServerHeadersTyped DEF IInv, SleeperState
<1>3. /\ wake'[w] = now + (IF Delay(headers, now) > 0 THEN Delay(headers, now) ELSE slow)
      /\ quota' = Recorded(quota, headers)
  BY DEF Observe, IInv, TypeOK
<1> HIDE DEF headers, slow
<1>4. Recorded(quota, headers) \in Quotas
  <2>1. CASE Reports(headers)
    BY <1>2, <2>1 DEF Recorded, Reports, Quotas, Headers, Header
  <2>2. CASE ~Reports(headers)
    BY <2>2 DEF Recorded, IInv, TypeOK
  <2> QED BY <2>1, <2>2
<1>5. headers.reset = Absent \/ (headers.reset \in Nat /\ headers.reset <= windowEnd)
  <2>1. NoHeaders.reset = Absent
    BY DEF NoHeaders
  <2> QED BY <1>1, <1>2, <2>1 DEF ServerHeaders
<1>6. wake'[w] \in Nat /\ (wake'[w] <= windowEnd \/ wake'[w] <= now + AdaptiveMax)
  BY <1>1, <1>2, <1>3, <1>5, DelayBound
<1> QED BY <1>3, <1>4, <1>6

LEMMA Inductive == IInv /\ [Next]_vars => IInv'
<1> SUFFICES ASSUME IInv, [Next]_vars PROVE IInv'
  OBVIOUS
<1> USE DEF IInv
<1>0. /\ now \in Nat /\ windowEnd \in Nat /\ now < windowEnd /\ used \in 0 .. Limit
      /\ ServerHeaders \subseteq Headers
  BY ServerHeadersTyped DEF TypeOK
<1>1. CASE UNCHANGED vars
  BY <1>1 DEF vars, TypeOK, SleeperState, ServerHeaders
<1>2. ASSUME NEW w \in Workers, Accept(w) \/ Refuse(w) PROVE IInv'
  <2>1. PICK a \in [ok : BOOLEAN, headers : ServerHeaders, took : Nat] :
          answer' = [answer EXCEPT ![w] = a]
    <3>1. CASE Accept(w)
      <4>1. PICK what \in Reported, ok \in BOOLEAN :
              \E took \in (IF ok THEN Durations ELSE {0}) :
                answer' = [answer EXCEPT ![w] =
                             [ok |-> ok, headers |-> HeadersOf(Limit - used', what),
                              took |-> took]]
        BY <3>1 DEF Accept
      <4>2. Limit - used' \in 0 .. Limit
        BY <1>0, <3>1, Constants DEF Accept
      <4>3. PICK took \in Nat :
              answer' = [answer EXCEPT ![w] =
                           [ok |-> ok, headers |-> HeadersOf(Limit - used', what),
                            took |-> took]]
        BY <4>1, PacingAssumption
      <4>4. HeadersOf(Limit - used', what) \in ServerHeaders
        BY <1>0, <4>2, HeadersOfServer
      <4> QED BY <4>3, <4>4
    <3>2. CASE Refuse(w)
      <4>1. 0 \in 0 .. Limit
        BY Constants
      <4>2. PICK what \in Reported :
              answer' = [answer EXCEPT ![w] =
                           [ok |-> FALSE, headers |-> HeadersOf(0, what), took |-> 0]]
        BY <3>2 DEF Refuse, NoAnswer
      <4> QED BY <1>0, <4>1, <4>2, HeadersOfServer
    <3> QED BY <1>2, <3>1, <3>2
  <2>2. /\ pc' = [pc EXCEPT ![w] = "answered"] /\ pc[w] = "idle"
        /\ used' \in 0 .. Limit /\ rejected' \in BOOLEAN
        /\ UNCHANGED <<now, windowEnd, quota, average, fastest, wake>>
        /\ impaired' \in BOOLEAN
    <3>1. CASE Accept(w)
      <4>1. used' \in 0 .. Limit
        BY <1>0, <3>1, Constants DEF Accept
      <4> QED BY <3>1, <4>1 DEF Accept, trackers, TypeOK
    <3>2. CASE Refuse(w)
      BY <1>0, <3>2 DEF Refuse, trackers, history, TypeOK
    <3> QED BY <1>2, <3>1, <3>2
  <2>3. TypeOK'
    BY <1>0, <2>1, <2>2 DEF TypeOK
  <2>4. ASSUME NEW v \in Workers PROVE SleeperState(v)'
    BY <2>1, <2>2 DEF TypeOK, SleeperState, ServerHeaders
  <2> QED BY <2>2, <2>3, <2>4
<1>3. ASSUME NEW w \in Workers, Observe(w) PROVE IInv'
  <2>1. /\ quota' \in Quotas /\ wake'[w] \in Nat
        /\ wake'[w] <= windowEnd \/ wake'[w] <= now + AdaptiveMax
    BY <1>3, ObserveSleeps
  <2>2. /\ pc' = [pc EXCEPT ![w] = "asleep"]
        /\ answer' = [answer EXCEPT ![w] = NoAnswer]
        /\ wake' = [wake EXCEPT ![w] = wake'[w]]
        /\ UNCHANGED <<now, windowEnd, used, rejected, impaired>>
    BY <1>3 DEF Observe, server, TypeOK
  <2>3. NoAnswer \in [ok : BOOLEAN, headers : ServerHeaders, took : Nat]
    BY DEF NoAnswer, ServerHeaders
  <2>4. NotBelow(average, fastest)'
    <3>1. answer[w].took \in Nat
      BY DEF TypeOK
    <3>2. NotBelow(average, fastest)
      OBVIOUS
    <3>3. \/ average' = average /\ fastest' = fastest
          \/ /\ average' = Averaged(average, answer[w].took)
             /\ fastest' = Shorter(fastest, answer[w].took)
      BY <1>3 DEF Observe
    <3>4. NotBelow(Averaged(average, answer[w].took), Shorter(fastest, answer[w].took))
      BY <3>1, <3>2, AveragedBounds
    <3> HIDE DEF IInv
    <3> QED BY <3>2, <3>3, <3>4 DEF NotBelow
  <2>5. TypeOK'
    BY <1>0, <2>1, <2>2, <2>3, <2>4 DEF TypeOK, NotBelow, Times
  <2>6. ASSUME NEW v \in Workers PROVE SleeperState(v)'
    BY <2>1, <2>2, <2>3 DEF TypeOK, SleeperState, ServerHeaders
  <2> QED BY <2>4, <2>5, <2>6
<1>4. ASSUME NEW w \in Workers, Fail(w) PROVE IInv'
  <2>1. NoAnswer \in [ok : BOOLEAN, headers : ServerHeaders, took : Nat]
    BY DEF NoAnswer, ServerHeaders
  <2>2. TypeOK'
    BY <1>0, <1>4, <2>1 DEF Fail, server, trackers, history, TypeOK
  <2>3. ASSUME NEW v \in Workers PROVE SleeperState(v)'
    BY <1>4, <2>1 DEF Fail, server, trackers, history, TypeOK, SleeperState, ServerHeaders
  <2> QED BY <1>4, <2>2, <2>3 DEF Fail, trackers, history
<1>5. ASSUME NEW w \in Workers, Wake(w) PROVE IInv'
  <2>1. TypeOK'
    BY <1>5 DEF Wake, server, trackers, history, TypeOK
  <2>2. ASSUME NEW v \in Workers PROVE SleeperState(v)'
    BY <1>0, <1>5 DEF Wake, server, trackers, history, TypeOK, SleeperState, ServerHeaders
  <2> QED BY <1>5, <2>1, <2>2 DEF Wake, trackers, history
<1>6. CASE Tick
  <2>1. /\ now' = now + 1 /\ now' < windowEnd' /\ windowEnd' \in Nat
        /\ windowEnd <= windowEnd' /\ used' \in 0 .. Limit
    BY <1>0, <1>6, Constants DEF Tick
  <2>2. TypeOK'
    BY <1>6, <2>1 DEF Tick, trackers, history, TypeOK
  <2>3. ServerHeaders \subseteq ServerHeaders'
    BY <1>0, <2>1 DEF ServerHeaders
  <2>4. ASSUME NEW v \in Workers PROVE SleeperState(v)'
    <3>1. wake[v] \in Nat
      BY DEF TypeOK
    <3> QED BY <1>0, <1>6, <2>1, <2>3, <3>1, AdaptiveAssumption DEF Tick, trackers, history, SleeperState
  <2> QED BY <1>6, <2>2, <2>4 DEF Tick, trackers, history
<1> QED BY <1>1, <1>2, <1>3, <1>4, <1>5, <1>6 DEF Next, Horizon

(* The inductive invariant holds in every state of every execution.         *)
THEOREM AlwaysConsistent == Spec => []IInv
BY Initially, Inductive, PTL DEF Spec

(* Every variable keeps its type.                                           *)
THEOREM TypeCorrect == Spec => []TypeOK
<1>1. IInv => TypeOK
  BY DEF IInv
<1> QED BY <1>1, AlwaysConsistent, PTL

(* A worker that no pace puts to sleep is delayed only for a response that took
   more than twice as long as another one did before.                       *)
THEOREM OnlySlownessDelays == Spec => DelayedForSlowness
<1> DEFINE Delayed(w) ==
      /\ pc[w] = "answered" /\ pc'[w] = "asleep"
      /\ Delay(answer[w].headers, now) = 0 /\ wake'[w] > now
<1>1. ASSUME IInv, [Next]_vars, NEW w \in Workers, Delayed(w)
      PROVE  fastest # Absent /\ answer[w].took > 2 * fastest
  <2>1. Observe(w)
    BY <1>1 DEF Next, vars, Horizon, Tick, Accept, Refuse, Observe, Fail, Wake, IInv, TypeOK
  <2>2. wake'[w] = now + AdaptiveDelay(average, answer[w].took)
    BY <1>1, <2>1 DEF Observe, IInv, TypeOK
  <2>3. now \in Nat /\ answer[w].took \in Nat /\ AdaptiveMax \in Nat
    BY <1>1, AdaptiveAssumption DEF IInv, TypeOK
  <2>4. /\ AdaptiveDelay(average, answer[w].took) \in 0 .. AdaptiveMax
        /\ AdaptiveDelay(average, answer[w].took) > 0
             => fastest # Absent /\ answer[w].took > 2 * fastest
    BY <1>1, <2>3, AdaptiveBounds DEF IInv
  <2> QED BY <1>1, <2>2, <2>3, <2>4
<1>2. IInv /\ [Next]_vars
        => [\A w \in Workers :
              Delayed(w) => fastest # Absent /\ answer[w].took > 2 * fastest]_vars
  BY <1>1
<1> QED BY <1>2, AlwaysConsistent, PTL DEF Spec, DelayedForSlowness

(* No number of workers makes the pace computed from an answer, however late
   it is handled, put a worker to sleep past the end of the window, and no slow
   response puts one to sleep for longer than the ceiling.                  *)
THEOREM PaceEndsWithWindow == Spec => []SleepsWithinWindow
<1>1. IInv => SleepsWithinWindow
  BY DEF IInv, SleeperState, SleepsWithinWindow
<1> QED BY <1>1, AlwaysConsistent, PTL

(***************************************************************************)
(* The tracker's quota. Within a window the count of the server only       *)
(* grows, so what an answer of that window carries is not less than what   *)
(* is left; and neither an answer nor the tracker names a window that is   *)
(* still to come.                                                          *)
(***************************************************************************)
QuotaState ==
  /\ Honest(quota)
  /\ quota.reset = Absent \/ quota.reset <= windowEnd
  /\ \A w \in Workers : Honest(answer[w].headers)

LEMMA QuotaInitially == Init => QuotaState
BY AbsentAssumption, Constants DEF Init, QuotaState, Honest, NoQuota, NoAnswer, NoHeaders

LEMMA QuotaInductive == IInv /\ IInv' /\ QuotaState /\ [Next]_vars => QuotaState'
<1> SUFFICES ASSUME IInv, IInv', QuotaState, [Next]_vars PROVE QuotaState'
  OBVIOUS
<1>0. /\ now \in Nat /\ windowEnd \in Nat /\ now < windowEnd
      /\ used \in 0 .. Limit /\ used' \in 0 .. Limit /\ Limit \in Nat
      /\ quota \in Quotas
      /\ ServerHeaders \subseteq Headers
      /\ \A w \in Workers : answer[w].headers \in ServerHeaders
  BY ServerHeadersTyped, Constants DEF IInv, TypeOK, SleeperState
<1>1. windowEnd' # Absent /\ NoAnswer.headers.reset = Absent
  BY AbsentAssumption DEF IInv, TypeOK, NoHeaders, NoAnswer
<1>2. CASE UNCHANGED vars
  BY <1>2 DEF vars, QuotaState, Honest
<1>3. ASSUME NEW w \in Workers, Accept(w) \/ Refuse(w) PROVE QuotaState'
  <2>1. used' >= used /\ UNCHANGED <<windowEnd, quota>>
    BY <1>0, <1>3 DEF Accept, Refuse, trackers
  <2>2. PICK what \in Reported, ok \in BOOLEAN, took \in Nat :
          answer' = [answer EXCEPT ![w] =
                       [ok |-> ok, headers |-> HeadersOf(Limit - used', what), took |-> took]]
    <3>1. CASE Accept(w)
      <4>1. PICK what \in Reported, ok \in BOOLEAN :
              \E took \in (IF ok THEN Durations ELSE {0}) :
                answer' = [answer EXCEPT ![w] =
                             [ok |-> ok, headers |-> HeadersOf(Limit - used', what),
                              took |-> took]]
        BY <3>1 DEF Accept
      <4> QED BY <4>1, PacingAssumption
    <3>2. CASE Refuse(w)
      <4>1. Limit - used' = 0
        BY <1>0, <3>2 DEF Refuse
      <4>2. \E what \in Reported :
              answer' = [answer EXCEPT ![w] =
                           [ok |-> FALSE, headers |-> HeadersOf(0, what), took |-> 0]]
        BY <3>2 DEF Refuse, NoAnswer
      <4> QED BY <4>1, <4>2
    <3> QED BY <1>3, <3>1, <3>2
  <2> DEFINE given == HeadersOf(Limit - used', what)
  <2>3. given.reset = windowEnd => given.remaining >= Limit - used'
    <3>1. NoHeaders.reset # windowEnd
      BY <1>0, AbsentAssumption DEF NoHeaders
    <3>2. Limit - used' >= Limit - used'
      <4>1. Limit - used' \in Int
        BY <1>0
      <4> QED BY <4>1
    <3> QED BY <3>1, <3>2 DEF HeadersOf
  <2> HIDE DEF given
  <2>4. ASSUME NEW v \in Workers PROVE Honest(answer[v].headers)'
    <3>1. CASE v = w
      <4>1. answer'[v].headers = given
        BY <2>2, <3>1 DEF IInv, TypeOK, given
      <4> QED BY <2>1, <2>3, <4>1 DEF Honest
    <3>2. CASE v # w
      <4>1. answer'[v] = answer[v]
        BY <2>2, <3>2 DEF IInv, TypeOK
      <4>2. answer[v].headers = NoHeaders \/ answer[v].headers.remaining \in Nat
        BY <1>0 DEF ServerHeaders
      <4> QED BY <1>0, <2>1, <4>1, <4>2, AbsentAssumption DEF QuotaState, Honest, NoHeaders
    <3> QED BY <3>1, <3>2
  <2> QED BY <1>0, <2>1, <2>4 DEF QuotaState, Honest, Quotas
<1>4. ASSUME NEW w \in Workers, Observe(w) PROVE QuotaState'
  <2>1. /\ quota' = Recorded(quota, answer[w].headers)
        /\ answer' = [answer EXCEPT ![w] = NoAnswer]
        /\ UNCHANGED <<windowEnd, used>>
    BY <1>4 DEF Observe, server
  <2>2. answer[w].headers.reset = Absent \/ answer[w].headers.reset <= windowEnd
    BY <1>0 DEF ServerHeaders, NoHeaders
  <2>3. Honest(quota)' /\ (quota'.reset = Absent \/ quota'.reset <= windowEnd)
    BY <2>1, <2>2 DEF QuotaState, Honest, Recorded
  <2> QED BY <1>1, <2>1, <2>3 DEF QuotaState, Honest, IInv, TypeOK
<1>5. ASSUME NEW w \in Workers, Fail(w) \/ Wake(w) PROVE QuotaState'
  BY <1>1, <1>5 DEF Fail, Wake, server, trackers, QuotaState, Honest, IInv, TypeOK
<1>6. CASE Tick
  <2>1. UNCHANGED <<quota, answer>>
    BY <1>6 DEF Tick, trackers
  <2>2. CASE now + 1 # windowEnd
    BY <1>6, <2>1, <2>2 DEF Tick, QuotaState, Honest
  <2>3. CASE now + 1 = windowEnd
    <3>1. windowEnd' > windowEnd /\ windowEnd' \in Nat
      BY <1>0, <1>6, <2>3, Constants DEF Tick
    <3>2. quota.reset # windowEnd'
      BY <1>0, <3>1, AbsentAssumption DEF QuotaState, Quotas, Header
    <3>3. \A w \in Workers : answer[w].headers.reset # windowEnd'
      BY <1>0, <3>1, AbsentAssumption DEF ServerHeaders, NoHeaders
    <3> QED BY <1>0, <2>1, <3>1, <3>2, <3>3 DEF QuotaState, Honest, Quotas, Header
  <2> QED BY <2>2, <2>3
<1> QED BY <1>2, <1>3, <1>4, <1>5, <1>6 DEF Next, Horizon

(* Whatever order answers are observed in, the quota the tracker has for the
   running window never says that less is left than there is.               *)
THEOREM QuotaStaysTrue == Spec => []QuotaNotPessimistic
<1>1. QuotaState => QuotaNotPessimistic
  BY DEF QuotaState, QuotaNotPessimistic
<1> QED BY <1>1, QuotaInitially, QuotaInductive, AlwaysConsistent, PTL DEF Spec

(***************************************************************************)
(* When the budget lasts. Where all counted requests succeed with all      *)
(* headers, the worker told that nothing is left rests until the window    *)
(* ends, and so does the one told that one request is left, if a tenth of  *)
(* the limit is at least 1. However many workers there are, a refusal thus *)
(* finds others at rest, who send nothing before the next window: a lone   *)
(* worker is never refused, and neither is one of a pair.                  *)
(***************************************************************************)
RestsWith(w, n) ==
  \/ pc[w] = "asleep" /\ wake[w] >= windowEnd
  \/ /\ pc[w] = "answered" /\ answer[w].ok
     /\ answer[w].headers = [limit |-> Limit, remaining |-> n, reset |-> windowEnd]

LastOnesRest ==
  /\ used = Limit => \E a \in Workers : RestsWith(a, 0)
  /\ Limit >= 10 /\ used = Limit - 1 => \E b \in Workers : RestsWith(b, 1)
  /\ Limit >= 10 /\ used = Limit =>
       \E a, b \in Workers : a # b /\ RestsWith(a, 0) /\ RestsWith(b, 1)

RestInv == IInv /\ (~impaired => LastOnesRest)

(* A worker that rests goes on resting while the window lasts, whoever moves. *)
LEMMA StillRests ==
  ASSUME IInv, NEW v \in Workers, NEW n \in {0, 1}, n = 1 => Limit >= 10, RestsWith(v, n),
         NEW w \in Workers, Accept(w) \/ Refuse(w) \/ Observe(w) \/ Fail(w) \/ Wake(w)
  PROVE  RestsWith(v, n)'
<1>0. /\ now \in Nat /\ windowEnd \in Nat /\ now < windowEnd
      /\ ServerHeaders \subseteq Headers /\ wake[v] \in Nat
      /\ answer[v].headers \in ServerHeaders
  BY ServerHeadersTyped DEF IInv, TypeOK, SleeperState
<1>1. windowEnd' = windowEnd
  BY DEF Accept, Refuse, Observe, Fail, Wake, server
<1>2. CASE v # w
  <2>1. pc'[v] = pc[v] /\ wake'[v] = wake[v] /\ answer'[v] = answer[v]
    BY <1>2 DEF Accept, Refuse, Observe, Fail, Wake, IInv, TypeOK
  <2> QED BY <1>1, <2>1 DEF RestsWith
<1>3. CASE v = w
  <2>1. /\ pc[w] # "idle" /\ ~(pc[w] = "asleep" /\ now >= wake[w])
        /\ ~(pc[w] = "answered" /\ ~answer[w].ok)
    BY <1>0, <1>3 DEF RestsWith
  <2>2. Observe(w)
    BY <2>1 DEF Accept, Refuse, Fail, Wake
  <2>3. /\ pc[w] = "answered" /\ pc'[w] = "asleep"
        /\ Delay(answer[w].headers, now) > 0
             => wake'[w] = now + Delay(answer[w].headers, now)
    BY <2>2 DEF Observe, IInv, TypeOK
  <2>4. /\ answer[w].headers \in Headers /\ answer[w].headers.limit = Limit
        /\ answer[w].headers.remaining = n /\ answer[w].headers.reset = windowEnd
    BY <1>0, <1>3, <2>3 DEF RestsWith
  <2>5. Limit # Absent /\ windowEnd # Absent
    BY <1>0, Constants, AbsentAssumption
  <2>6. now + Delay(answer[w].headers, now) = windowEnd
    <3>1. CASE n = 0
      BY <1>0, <2>4, <2>5, <3>1, Constants, DelayWhenSpent
    <3>2. CASE n = 1
      BY <1>0, <2>4, <2>5, <3>2, Constants, DelayForLast
    <3> QED BY <3>1, <3>2
  <2>7. Delay(answer[w].headers, now) > 0
    BY <1>0, <2>4, <2>6, DelayBound
  <2>8. wake'[w] = windowEnd
    BY <2>3, <2>6, <2>7
  <2> QED BY <1>0, <1>1, <1>3, <2>3, <2>8 DEF RestsWith
<1> QED BY <1>2, <1>3

(* Who sends a request that is counted is told what it leaves.              *)
LEMMA TellsWhatIsLeft ==
  ASSUME IInv, NEW w \in Workers, Accept(w), ~impaired', NEW n, n = Limit - used'
  PROVE  RestsWith(w, n)'
<1>1. PICK what \in Reported, ok \in BOOLEAN :
        /\ \E took \in (IF ok THEN Durations ELSE {0}) :
             answer' = [answer EXCEPT ![w] =
                          [ok |-> ok, headers |-> HeadersOf(Limit - used', what),
                           took |-> took]]
        /\ impaired' = (impaired \/ ~ok \/ what # "all")
  BY DEF Accept
<1>2. ok = TRUE /\ what = "all"
  BY <1>1
<1>3. /\ pc'[w] = "answered" /\ answer'[w].ok
      /\ answer'[w].headers = HeadersOf(Limit - used', "all")
  BY <1>1, <1>2 DEF Accept, IInv, TypeOK
<1>4. windowEnd' = windowEnd
  BY DEF Accept
<1> QED BY <1>3, <1>4 DEF RestsWith, HeadersOf

LEMMA RestKept ==
  ASSUME IInv, LastOnesRest, ~impaired', [Next]_vars
  PROVE  LastOnesRest'
<1>0. used \in 0 .. Limit
  BY DEF IInv, TypeOK
<1>1. CASE UNCHANGED vars \/ Horizon
  BY <1>1 DEF vars, Horizon, LastOnesRest, RestsWith
<1>2. ASSUME NEW w \in Workers, Accept(w)
      PROVE  LastOnesRest'
  <2>1. ASSUME NEW n, n = Limit - used' PROVE RestsWith(w, n)'
    BY <1>2, <2>1, TellsWhatIsLeft
  <2>2. used' = used + 1 /\ pc[w] = "idle"
    BY <1>2 DEF Accept
  <2>3. ASSUME used' = Limit, Limit >= 10
        PROVE  \E b \in Workers : b # w /\ RestsWith(b, 1)'
    <3>1. PICK b \in Workers : RestsWith(b, 1)
      BY <1>0, <2>2, <2>3, Constants DEF LastOnesRest
    <3>2. RestsWith(b, 1)' /\ b # w
      BY <1>2, <2>2, <2>3, <3>1, StillRests DEF RestsWith
    <3> QED BY <3>2
  <2>4. CASE used' = Limit
    <3>1. RestsWith(w, 0)'
      BY <2>1, <2>4, Constants
    <3> QED BY <2>2, <2>3, <2>4, <3>1, Constants DEF LastOnesRest
  <2>5. CASE used' = Limit - 1
    <3>1. RestsWith(w, 1)' /\ used' # Limit
      BY <2>1, <2>5, Constants
    <3> QED BY <2>2, <3>1 DEF LastOnesRest
  <2>6. CASE used' # Limit /\ used' # Limit - 1
    BY <2>2, <2>6 DEF LastOnesRest
  <2> QED BY <2>4, <2>5, <2>6
<1>3. ASSUME NEW w \in Workers, Refuse(w) \/ Observe(w) \/ Fail(w) \/ Wake(w)
      PROVE  LastOnesRest'
  <2>1. used' = used
    BY <1>3 DEF Refuse, Observe, Fail, Wake, server
  <2>2. ASSUME NEW v \in Workers, NEW n \in {0, 1}, n = 1 => Limit >= 10, RestsWith(v, n)
        PROVE  RestsWith(v, n)'
    BY <1>3, <2>2, StillRests
  <2> QED BY <2>1, <2>2 DEF LastOnesRest
<1>4. CASE Tick
  <2>1. CASE now' = windowEnd
    <3>1. used' = 0 /\ used' # Limit /\ (Limit >= 10 => used' # Limit - 1)
      BY <1>4, <2>1, Constants DEF Tick
    <3> QED BY <3>1 DEF LastOnesRest
  <2>2. CASE now' # windowEnd
    BY <1>4, <2>2 DEF Tick, LastOnesRest, RestsWith
  <2> QED BY <2>1, <2>2
<1> QED BY <1>1, <1>2, <1>3, <1>4 DEF Next

LEMMA ImpairedStays == ASSUME IInv, [Next]_vars, ~impaired' PROVE ~impaired
<1>1. impaired \in BOOLEAN
  BY DEF IInv, TypeOK
<1>2. CASE UNCHANGED vars \/ Horizon \/ Tick
  BY <1>2 DEF vars, Horizon, Tick, history
<1>3. ASSUME NEW w \in Workers, Accept(w) PROVE ~impaired
  BY <1>1, <1>3 DEF Accept
<1>4. ASSUME NEW w \in Workers, Refuse(w) \/ Observe(w) \/ Fail(w) \/ Wake(w)
      PROVE  ~impaired
  BY <1>4 DEF Refuse, Observe, Fail, Wake, history
<1> QED BY <1>2, <1>3, <1>4 DEF Next

LEMMA AlwaysRest == Spec => []RestInv
<1>1. Init => RestInv
  BY Initially, Constants DEF Init, RestInv, LastOnesRest
<1>2. RestInv /\ [Next]_vars => RestInv'
  BY Inductive, RestKept, ImpairedStays DEF RestInv
<1> QED BY <1>1, <1>2, PTL DEF Spec

(* Whoever is refused, before a counted request fails or is answered without all
   headers, is another than the one that sent the window's last request, or the
   last two when the limit is at least 10: these rest, or are about to, until the
   window ends. Of n workers at most n - 1, or n - 2, are refused in one window. *)
Resting(w) == RestsWith(w, 0) \/ RestsWith(w, 1)

OthersRest(w) ==
  /\ ~Resting(w)
  /\ \E a \in Workers \ {w} : Resting(a) /\ Resting(a)'
  /\ Limit >= 10 => \E a, b \in Workers \ {w} :
                      a # b /\ Resting(a) /\ Resting(a)' /\ Resting(b) /\ Resting(b)'

THEOREM LastOnesNotRefused ==
  Spec => [][\A w \in Workers : Refuse(w) /\ ~impaired => OthersRest(w)]_vars
<1>1. ASSUME RestInv, NEW w \in Workers, Refuse(w), ~impaired PROVE OthersRest(w)
  <2>1. pc[w] = "idle" /\ used = Limit /\ IInv /\ LastOnesRest
    BY <1>1 DEF Refuse, RestInv
  <2>2. ~RestsWith(w, 0) /\ ~RestsWith(w, 1)
    BY <2>1 DEF RestsWith
  <2>3. ASSUME NEW v \in Workers, NEW n \in {0, 1}, n = 1 => Limit >= 10, RestsWith(v, n)
        PROVE  v # w /\ Resting(v) /\ Resting(v)'
    <3>1. RestsWith(v, n)'
      BY <1>1, <2>1, <2>3, StillRests
    <3> QED BY <2>2, <2>3, <3>1 DEF Resting
  <2>4. \E a \in Workers \ {w} : Resting(a) /\ Resting(a)'
    BY <2>1, <2>3 DEF LastOnesRest
  <2>5. ASSUME Limit >= 10
        PROVE  \E a, b \in Workers \ {w} :
                 a # b /\ Resting(a) /\ Resting(a)' /\ Resting(b) /\ Resting(b)'
    <3>1. PICK a \in Workers, b \in Workers : a # b /\ RestsWith(a, 0) /\ RestsWith(b, 1)
      BY <2>1, <2>5 DEF LastOnesRest
    <3> QED BY <2>3, <2>5, <3>1
  <2> QED BY <2>2, <2>4, <2>5 DEF Resting, OthersRest
<1>2. RestInv /\ [Next]_vars
        => [\A w \in Workers : Refuse(w) /\ ~impaired => OthersRest(w)]_vars
  BY <1>1
<1> QED BY <1>2, AlwaysRest, PTL DEF Spec

Alone       == \A v, w \in Workers : v = w
Pair        == Limit >= 10 /\ \A u, v, w \in Workers : u # v => w \in {u, v}

BInv == RestInv /\ (~impaired => ~rejected)

(* A lone worker, or one of a pair whose limit is at least 10, never earns a
   429 before a counted request fails or is answered without all headers.   *)
THEOREM BudgetSuffices ==
  ASSUME Alone \/ Pair PROVE Spec => []BudgetLasts
<1>1. Init => BInv
  BY Initially, Constants DEF Init, BInv, RestInv, LastOnesRest
<1>2. ASSUME BInv, [Next]_vars PROVE BInv'
  <2>1. RestInv'
    BY <1>2, Inductive, RestKept, ImpairedStays DEF BInv, RestInv
  <2>2. ASSUME ~impaired' PROVE ~rejected'
    <3>1. ~impaired /\ ~rejected /\ LastOnesRest
      BY <1>2, <2>2, ImpairedStays DEF BInv, RestInv
    <3>2. ASSUME NEW w \in Workers, Refuse(w) PROVE FALSE
      <4>1. used = Limit /\ pc[w] = "idle"
        BY <3>2 DEF Refuse
      <4>2. CASE Alone
        BY <3>1, <4>1, <4>2 DEF Alone, LastOnesRest, RestsWith
      <4>3. CASE Pair
        BY <3>1, <4>1, <4>3 DEF Pair, LastOnesRest, RestsWith
      <4> QED BY <4>2, <4>3
    <3>3. rejected' = rejected
      <4>1. CASE UNCHANGED vars \/ Horizon \/ Tick
        BY <4>1 DEF vars, Horizon, Tick
      <4>2. ASSUME NEW w \in Workers, Accept(w) \/ Observe(w) \/ Fail(w) \/ Wake(w)
            PROVE  rejected' = rejected
        BY <4>2 DEF Accept, Observe, Fail, Wake, server
      <4> QED BY <1>2, <3>2, <4>1, <4>2 DEF Next
    <3> QED BY <3>1, <3>3
  <2> QED BY <2>1, <2>2 DEF BInv
<1>3. BInv => BudgetLasts
  BY DEF BInv, BudgetLasts
<1> QED BY <1>1, <1>2, <1>3, PTL DEF Spec

=============================================================================
