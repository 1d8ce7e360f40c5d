------------------------------- MODULE Retry -------------------------------
(***************************************************************************)
(* The retry verdict of thousandeyes/client/retry.go and no_retry.go: the  *)
(* callback the transport gives resty, asked after every attempt whether   *)
(* another one is warranted. NewTransport adds it to conditions of resty's *)
(* own, which it leaves switched on: either verdict is enough.             *)
(*                                                                         *)
(* A response is the part of *resty.Response the callback reads: whether   *)
(* it is nil, the verb and the opt-out mark of the request it belongs to,  *)
(* and its status code, which is 0 when no HTTP response was received.     *)
(***************************************************************************)
EXTENDS Integers

IdempotentMethods   == {"GET", "HEAD", "OPTIONS", "PUT", "DELETE"}
TransientStatuses   == {408, 500, 502, 503, 504}
DefinitiveStatuses  == (400 .. 407) \cup (409 .. 417)
                         \cup {422, 423, 424, 426, 428, 429, 431, 451}

IsIdempotentMethod(method)     == method \in IdempotentMethods
IsTransientStatusCode(code)    == code \in TransientStatuses
IsNonRetryableStatusCode(code) == code \in DefinitiveStatuses

NoResponse == [nil |-> TRUE, method |-> "", noRetry |-> FALSE, status |-> 0]

Response(method, noRetry, status) ==
  [nil |-> FALSE, method |-> method, noRetry |-> noRetry, status |-> status]

(* The mark DisableRetry left in the context of the answered request. A nil
   response gives the callback no request to look at.                      *)
RetryDisabled(resp) == ~resp.nil /\ resp.noRetry

RequestMethod(resp) == IF resp.nil THEN "" ELSE resp.method

RetryCondition(resp, err) ==
  /\ ~RetryDisabled(resp)
  /\ \/ /\ err
        /\ IsIdempotentMethod(RequestMethod(resp))
     \/ /\ ~err
        /\ ~resp.nil
        /\ ~IsNonRetryableStatusCode(resp.status)
        /\ IsIdempotentMethod(RequestMethod(resp))
        /\ IsTransientStatusCode(resp.status)

(* resty retries nothing that it takes for unsafe to repeat. Apart from that its
   own conditions look at neither the verb nor the context: an error is retried
   if it is temporary, an answer if its status says so. An attempt without a
   response that is no error does not occur.                                *)
RestyIdempotent(method) == method \in IdempotentMethods \cup {"TRACE"}

RestyDefaultConditions(resp, err, temporary) ==
  IF err THEN temporary
         ELSE /\ ~resp.nil
              /\ resp.status \in {0, 429} \/ (resp.status >= 500 /\ resp.status # 501)

=============================================================================
