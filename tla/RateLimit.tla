----------------------------- MODULE RateLimit -----------------------------
(***************************************************************************)
(* The trackers of thousandeyes/client/ratelimit.go as functions: what     *)
(* observe stores of a response's quota headers, what record makes of the  *)
(* time a response took, and how long they tell the caller to wait.        *)
(*                                                                         *)
(* A header that is missing, or that Atoi rejects, is Absent. Times are in *)
(* the unit of the clock; a delay is a number of such units.               *)
(***************************************************************************)
EXTENDS Integers

CONSTANTS
  Absent,
  AdaptiveMax  \* adaptiveDelayMax, the longest wait for a slow response

ASSUME AbsentAssumption == Absent \notin Int
ASSUME AdaptiveAssumption == AdaptiveMax \in Nat

Header  == Int \cup {Absent}
Headers == [limit : Header, remaining : Header, reset : Header]

(* The zero RateLimit of a new tracker. A snapshot without a reset time has
   Absent for Go's zero time.                                               *)
NoQuota == [limit |-> 0, remaining |-> 0, reset |-> Absent, known |-> FALSE]

Quotas == [limit : Int, remaining : Int, reset : Header, known : BOOLEAN]

Reports(header) == header.limit # Absent /\ header.remaining # Absent

\* Mutant of Recorded: the fields are set one by one, and the reset time stays
\* when the response has none.
RecordedKeepsReset(state, header) ==
  IF Reports(header)
    THEN [limit |-> header.limit, remaining |-> header.remaining,
          reset |-> IF header.reset = Absent THEN state.reset ELSE header.reset,
          known |-> TRUE]
    ELSE state

(* The snapshot is replaced as a whole: a response without a reset header
   drops the reset time an earlier one brought.                             *)
Recorded(state, header) ==
  IF Reports(header)
    THEN [limit |-> header.limit, remaining |-> header.remaining,
          reset |-> header.reset, known |-> TRUE]
    ELSE state

\* Mutant of InReserve: the comparison is strict.
InReserveStrict(header) == header.remaining * 10 < header.limit

(* At most rateLimitReserve, a tenth, of the limit is left. The comparison of
   floats in observe agrees with this one: 0.1 is rounded up as a double.   *)
InReserve(header) == header.remaining * 10 <= header.limit

NeedsPacing(header, now) ==
  /\ Reports(header)
  /\ header.limit > 0 /\ header.remaining >= 0
  /\ InReserve(header)
  /\ header.reset # Absent
  /\ header.reset > now

\* Mutant of Delay: the reset is divided as it stands, an instant and not a
\* duration from now.
DelayFromEpoch(header, now) ==
  IF ~NeedsPacing(header, now) THEN 0
  ELSE IF header.remaining = 0 THEN header.reset - now
  ELSE header.reset \div header.remaining

Delay(header, now) ==
  IF ~NeedsPacing(header, now) THEN 0
  ELSE IF header.remaining = 0 THEN header.reset - now
  ELSE (header.reset - now) \div header.remaining

-----------------------------------------------------------------------------
\* Mutant of Averaged: the first sample is averaged with the zero of a new tracker.
AveragedWithZero(average, took) ==
  (took + 4 * (IF average = Absent THEN 0 ELSE average)) \div 5

(* The moving average, with a weight of a fifth for the latest sample. The result
   of the floats is cut off, as that of \div is.                             *)
Averaged(average, took) ==
  IF average = Absent THEN took ELSE (took + 4 * average) \div 5

(* What a response that took more than twice the average, its own time included,
   is over it.                                                              *)
AdaptiveDelay(average, took) ==
  LET excess == took - Averaged(average, took) IN
  IF took <= 2 * Averaged(average, took) THEN 0
  ELSE IF excess > AdaptiveMax THEN AdaptiveMax ELSE excess

=============================================================================
