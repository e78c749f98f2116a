---------------------------- MODULE GuardedCalls ----------------------------
(***************************************************************************)
(* What the Bedrock client promises its callers, whatever its breaker does *)
(* inside: a call ends in exactly one outcome, sends a bounded number of   *)
(* requests, and once the guard has shut sends at most one more request    *)
(* before the guard opens again.  CircuitBreaker implements this module.   *)
(***************************************************************************)
EXTENDS Naturals

CONSTANTS
    Calls,          \* the concurrent calls of one client
    MaxRequests     \* how many requests one call may send, positive

VARIABLES
    phase,          \* per call: ready, pending, or how it ended
    left,           \* per call: requests it may still send in this life
    grace,          \* per call: requests it may still send while shut
    shut            \* whether the guard refuses new calls

vars == <<phase, left, grace, shut>>

Outcomes == {"answered", "degraded", "cancelled"}

TypeOK ==
    /\ phase \in [Calls -> {"ready", "pending"} \cup Outcomes]
    /\ left \in [Calls -> 0..MaxRequests]
    /\ grace \in [Calls -> 0..1]
    /\ shut \in BOOLEAN

Init ==
    /\ phase = [c \in Calls |-> "ready"]
    /\ left = [c \in Calls |-> 0]
    /\ grace = [c \in Calls |-> 1]
    /\ shut = FALSE

\* An open guard admits a call, which sends its first request.
Admit(c) ==
    /\ phase[c] # "pending"
    /\ shut' = FALSE
    /\ phase' = [phase EXCEPT ![c] = "pending"]
    /\ \E n \in 0..MaxRequests - 1 : left' = [left EXCEPT ![c] = n]
    /\ grace' = [d \in Calls |-> 1]

\* A shut guard answers a new call at once, without a request.
Refuse(c) ==
    /\ phase[c] # "pending"
    /\ shut
    /\ phase' = [phase EXCEPT ![c] = "degraded"]
    /\ UNCHANGED <<left, grace, shut>>

\* A pending call tries again; while the guard is shut, at most once.
Retry(c) ==
    /\ phase[c] = "pending"
    /\ left[c] > 0
    /\ shut => grace[c] > 0
    /\ left' = [left EXCEPT ![c] = @ - 1]
    /\ grace' = IF shut THEN [grace EXCEPT ![c] = @ - 1] ELSE grace
    /\ UNCHANGED <<phase, shut>>

\* Every call gets a fresh grace request whenever the guard shuts or opens.
Regrace == grace' = IF shut' # shut THEN [c \in Calls |-> 1] ELSE grace

\* A call ends.  An answer shows the service is up, so it opens the guard; a
\* failure may shut it; a cancelled call says nothing about the service.
End(c) ==
    /\ phase[c] = "pending"
    /\ \/ phase' = [phase EXCEPT ![c] = "answered"]  /\ shut' = FALSE
       \/ phase' = [phase EXCEPT ![c] = "degraded"]  /\ shut' \in {shut, TRUE}
       \/ phase' = [phase EXCEPT ![c] = "cancelled"] /\ shut' = shut
    /\ left' = [left EXCEPT ![c] = 0]
    /\ Regrace

\* The guard reopens because of a pending call that may go on trying.
Reopen(c) ==
    /\ phase[c] = "pending"
    /\ left[c] > 0
    /\ shut' = FALSE
    /\ Regrace
    /\ UNCHANGED <<phase, left>>

Next == \E c \in Calls : Admit(c) \/ Refuse(c) \/ Retry(c) \/ End(c) \/ Reopen(c)

Spec == Init /\ [][Next]_vars
=============================================================================
