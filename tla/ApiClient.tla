----------------------------- MODULE ApiClient ------------------------------
(***************************************************************************)
(* The HTTP client of the mobile app (EHApiClient): every call checks the  *)
(* connectivity, is sent, and is sent again after a timeout, at most       *)
(* MaxRetries times and whatever its method.  Status codes never raise     *)
(* (validateStatus), so that what else the error interceptor does on a 401 *)
(* is not reached.  A copy that timed out may still reach the server.      *)
(***************************************************************************)
EXTENDS Naturals

CONSTANTS
    MaxCalls,       \* bound of the model: calls in all
    MaxRetries      \* _maxRetries

ASSUME CallsAssumption == MaxCalls \in Nat
ASSUME RetriesAssumption == MaxRetries \in Nat

VARIABLES
    calls           \* the calls of the app, and the copies of each it sent

Calls == 1..MaxCalls
Copies == 0..MaxRetries

None == [at |-> "none"]

Unused == [state |-> "unused", request |-> [kind |-> "none"], retry |-> 0,
           copies |-> [i \in Copies |-> None]]

CallStates == {"unused", "checking", "waiting", "ended"}

Kind(c) == calls[c].request.kind

(* The last copy sent has its answer: a status code, and what goes with it.*)
Answer(c) == calls[c].copies[calls[c].retry]

ApiTypeOK ==
    \A c \in Calls :
          /\ calls[c].state \in CallStates /\ calls[c].retry \in Copies
          /\ \A i \in Copies :
                calls[c].copies[i].at \in {"none", "sent", "read", "ok", "error"}

ApiInit == calls = [c \in Calls |-> Unused]

(* The next call: get, post or put.                                        *)
Request(c, request) ==
    /\ calls[c] = Unused /\ \A d \in 1..c - 1 : calls[d] # Unused
    /\ calls' = [calls EXCEPT ![c].state = "checking", ![c].request = request]

(* onRequest of a device that is online.                                   *)
Check(c) ==
    /\ calls[c].state = "checking"
    /\ calls' = [calls EXCEPT ![c].state = "waiting",
                              ![c].copies[calls[c].retry] = [at |-> "sent"]]


(* onError of a timeout: after a delay the call is sent again.              *)
Retry(c) ==
    /\ calls[c].state = "waiting" /\ calls[c].retry < MaxRetries
    /\ calls' = [calls EXCEPT ![c].state = "checking", ![c].retry = @ + 1]

(* The call returns: the last copy was answered with a 2xx.                *)
Returns(c) == calls[c].state = "waiting" /\ Answer(c).at = "ok"

(* The call raises: the device is offline, or for the last copy there is   *)
(* another status code, a lost connection, or one timeout too many.        *)
Raises(c) ==
    \/ calls[c].state = "checking"
    \/ /\ calls[c].state = "waiting"
       /\ Answer(c).at # "ok" \/ calls[c].retry = MaxRetries

(* What becomes of a call that returned or raised: its copies may still be *)
(* on their way, or cannot matter any more.                                *)
Ended(c) == calls' = [calls EXCEPT ![c].state = "ended"]
Forgotten(c) == calls' = [calls EXCEPT ![c] = [Unused EXCEPT !.state = "ended"]]

(* The server answers copy i.                                              *)
Answered(c, i, answer) == calls' = [calls EXCEPT ![c].copies[i] = answer]

(* A refusal matters to a call that waits for it.                          *)
Refuses(c) ==
    /\ calls[c].state = "waiting" /\ Answer(c).at \in {"sent", "read"}
    /\ Answered(c, calls[c].retry, [at |-> "error"])

Transport(c) == Check(c) \/ Retry(c)
=============================================================================
