--------------------------- MODULE CircuitBreaker ---------------------------
(***************************************************************************)
(* The Bedrock client of the LLM layer: one circuit breaker per client and *)
(* the calls that share it, invoke_model (bounded retries with a backoff)  *)
(* and invoke_model_stream (one attempt).  The calls are coroutines of one *)
(* event loop: an action is the code between two awaits.                   *)
(*                                                                         *)
(* The code reads wall-clock times only to compare their distance from now *)
(* with window_seconds and reset_seconds.  The model keeps the distances   *)
(* ("ages") instead; Tick lets one second pass, and an age beyond the last *)
(* value the code can tell apart is not counted further.                   *)
(***************************************************************************)
EXTENDS Integers, Sequences, FiniteSets

CONSTANTS
    Invokes,        \* concurrent invoke_model calls
    Streams,        \* concurrent invoke_model_stream calls
    Threshold,      \* failures within the window that open the breaker
    Window,         \* window_seconds
    Reset,          \* reset_seconds
    MaxRetries      \* max_retries: attempts of one invoke_model call

ASSUME CallsAssumption == Invokes \cap Streams = {}
ASSUME ThresholdAssumption == Threshold \in Nat \ {0}
ASSUME WindowAssumption == Window \in Nat
ASSUME ResetAssumption == Reset \in Nat \ {0}
ASSUME MaxRetriesAssumption == MaxRetries \in Nat \ {0}

Calls == Invokes \cup Streams
Never == -1         \* opened_at is 0.0: no failure has opened the breaker

VARIABLES
    state,          \* _state of the breaker
    failures,       \* ages of _failures, oldest first
    openAge,        \* time since opened_at, up to Reset
    pc,             \* where each call is, or how its last life ended
    attempt,        \* requests the call has sent
    hasTask,        \* the call named a task, so a fallback exists for it
    sentOpen        \* history: requests the call sent since the last opening

breaker == <<state, failures, openAge>>
vars == <<state, failures, openAge, pc, attempt, hasTask, sentOpen>>

InFlight == {"sending", "backoff"}
Outcomes == {"answered", "fallback", "raised", "cancelled"}

TypeOK ==
    /\ state \in {"closed", "open", "half_open"}
    /\ failures \in Seq(0..Window + 1)
    /\ openAge \in {Never} \cup 0..Reset
    /\ pc \in [Calls -> {"ready"} \cup InFlight \cup Outcomes]
    /\ attempt \in [Calls -> 0..MaxRetries]
    /\ hasTask \in [Calls -> BOOLEAN]
    /\ sentOpen \in [Calls -> 0..1]

Init ==
    /\ state = "closed"
    /\ failures = <<>>
    /\ openAge = Never
    /\ pc = [c \in Calls |-> "ready"]
    /\ attempt = [c \in Calls |-> 0]
    /\ hasTask = [c \in Calls |-> FALSE]
    /\ sentOpen = [c \in Calls |-> 0]

-----------------------------------------------------------------------------
(* The breaker: allow, record_success, record_failure.                     *)

NeverReadmits(st, age) == st # "open"                           \* mutant
Admits(st, age) == st # "open" \/ age >= Reset

AfterAllow(st, age) == IF st = "open" /\ age >= Reset THEN "half_open" ELSE st

\* _prune: failures are in time order, so dropping the old ones drops a prefix.
Recent(f) == SubSeq(f, 1 + Cardinality({i \in DOMAIN f : f[i] > Window}), Len(f))

FailuresAfter == Recent(Append(failures, 0))

Trips == Len(FailuresAfter) >= Threshold

FailureCloses == IF Trips THEN "open" ELSE "closed"             \* mutant
StateAfterFailure == IF Trips THEN "open" ELSE state
AgeAfterFailure == IF Trips THEN 0 ELSE openAge

RecordFailure ==
    /\ failures' = FailuresAfter
    /\ openAge' = AgeAfterFailure

SuccessKeepsFailures ==                                         \* mutant
    /\ state' = "closed"
    /\ openAge' = Never
    /\ UNCHANGED failures

RecordSuccess ==
    /\ state' = "closed"
    /\ failures' = <<>>
    /\ openAge' = Never

\* History: the count of requests since the last opening starts again
\* whenever the breaker opens or stops being open.
Recount ==
    sentOpen' = IF (state = "open") # (state' = "open")
                THEN [c \in Calls |-> 0] ELSE sentOpen

-----------------------------------------------------------------------------
(* The calls.                                                              *)

\* A call that ends without an answer returns the fallback of its task, or
\* raises when it has none.
Degraded(task) == IF task THEN "fallback" ELSE "raised"

\* invoke_model takes an optional task, invoke_model_stream takes none.
TaskChoice(c) == IF c \in Invokes THEN BOOLEAN ELSE {FALSE}

\* The breaker lets the call in: it sends its first request and awaits.
Admit(c) ==
    /\ pc[c] \notin InFlight
    /\ Admits(state, openAge)
    /\ state' = AfterAllow(state, openAge)
    /\ pc' = [pc EXCEPT ![c] = "sending"]
    /\ attempt' = [attempt EXCEPT ![c] = 1]
    /\ \E t \in TaskChoice(c) : hasTask' = [hasTask EXCEPT ![c] = t]
    /\ Recount
    /\ UNCHANGED <<failures, openAge>>

\* The breaker is open: no request, the fallback or CircuitOpenError.
ShortCircuit(c) ==
    /\ pc[c] \notin InFlight
    /\ ~Admits(state, openAge)
    /\ \E t \in TaskChoice(c) :
          /\ hasTask' = [hasTask EXCEPT ![c] = t]
          /\ pc' = [pc EXCEPT ![c] = Degraded(t)]
    /\ attempt' = [attempt EXCEPT ![c] = 0]
    /\ UNCHANGED <<breaker, sentOpen>>

Succeed(c) ==
    /\ pc[c] = "sending"
    /\ RecordSuccess
    /\ pc' = [pc EXCEPT ![c] = "answered"]
    /\ Recount
    /\ UNCHANGED <<attempt, hasTask>>

\* After a failed attempt, whether the loop goes on; allow() is asked second.
RetryUnasked(c) == c \in Invokes /\ attempt[c] < MaxRetries      \* mutant
MayRetry(c) ==
    /\ c \in Invokes
    /\ attempt[c] < MaxRetries
    /\ Admits(StateAfterFailure, AgeAfterFailure)

\* An attempt of invoke_model fails with attempts left and the breaker still
\* willing: the call sleeps.  The allow() of this test may half-open.
FailAndBackOff(c) ==
    /\ pc[c] = "sending"
    /\ MayRetry(c)
    /\ RecordFailure
    /\ state' = AfterAllow(StateAfterFailure, AgeAfterFailure)
    /\ pc' = [pc EXCEPT ![c] = "backoff"]
    /\ Recount
    /\ UNCHANGED <<attempt, hasTask>>

\* The last attempt fails, or the breaker is open after it: the call gives up.
\* With no attempt left, allow() is not evaluated.
FailAndGiveUp(c) ==
    /\ pc[c] = "sending"
    /\ ~MayRetry(c)
    /\ RecordFailure
    /\ state' = StateAfterFailure
    /\ pc' = [pc EXCEPT ![c] = Degraded(hasTask[c])]
    /\ Recount
    /\ UNCHANGED <<attempt, hasTask>>

UncountedAttempt(c) == attempt[c]                               \* mutant
NextAttempt(c) == attempt[c] + 1

\* The backoff ends and the next request goes out; allow() is not asked again.
Resend(c) ==
    /\ pc[c] = "backoff"
    /\ pc' = [pc EXCEPT ![c] = "sending"]
    /\ attempt' = [attempt EXCEPT ![c] = NextAttempt(c)]
    /\ sentOpen' = IF state = "open" THEN [sentOpen EXCEPT ![c] = @ + 1]
                                     ELSE sentOpen
    /\ UNCHANGED <<breaker, hasTask>>

\* The awaiting task is cancelled, or the consumer drops the stream: neither
\* CancelledError nor GeneratorExit is an Exception, so nothing is recorded.
Cancel(c) ==
    /\ pc[c] \in InFlight
    /\ pc' = [pc EXCEPT ![c] = "cancelled"]
    /\ UNCHANGED <<breaker, attempt, hasTask, sentOpen>>

\* One second passes.
Tick ==
    /\ failures' = [i \in DOMAIN failures |->
                       IF failures[i] <= Window THEN failures[i] + 1 ELSE failures[i]]
    /\ openAge' = IF openAge = Never \/ openAge = Reset THEN openAge ELSE openAge + 1
    /\ UNCHANGED <<state, pc, attempt, hasTask, sentOpen>>

Fail(c) == FailAndBackOff(c) \/ FailAndGiveUp(c)

Next ==
    \/ \E c \in Calls :
          \/ Admit(c) \/ ShortCircuit(c)
          \/ Succeed(c) \/ Fail(c)
          \/ Resend(c) \/ Cancel(c)
    \/ Tick

Spec == Init /\ [][Next]_vars

\* wait_for bounds every attempt of invoke_model and sleep every backoff, so
\* the event loop moves each such call on; clocks advance.  Nothing bounds a
\* stream, and nobody is obliged to call.
Fairness ==
    /\ WF_vars(Tick)
    /\ \A c \in Invokes :
          /\ WF_vars(Succeed(c) \/ Fail(c))
          /\ WF_vars(Resend(c))

FairSpec == Spec /\ Fairness

-----------------------------------------------------------------------------
(* Properties.                                                             *)

(***************************************************************************)
(* The state agrees with the record it is derived from: a closed breaker   *)
(* has fewer failures on file than the threshold, an open or half-open one *)
(* knows when it opened, and a half-open one opened a full reset ago.      *)
(* (record_success clears what record_failure counted, opened_at moves     *)
(* only when the threshold is met.)                                        *)
(***************************************************************************)
StateMatchesRecord ==
    /\ state = "closed" => Len(failures) < Threshold /\ openAge = Never
    /\ state = "open" => openAge # Never
    /\ state = "half_open" => openAge = Reset

(***************************************************************************)
(* A call that was already running when the breaker opened reaches the     *)
(* provider at most once before the breaker stops being open, even though  *)
(* the retry after a backoff does not ask allow() again.                   *)
(***************************************************************************)
AtMostOneRequestWhileOpen ==
    state = "open" =>
        \A c \in Calls :
            /\ sentOpen[c] <= 1
            /\ pc[c] = "backoff" => sentOpen[c] = 0

(***************************************************************************)
(* Every invoke_model call ends: retries are bounded.                      *)
(***************************************************************************)
InvokesEnd == \A c \in Invokes : pc[c] \in InFlight ~> pc[c] \notin InFlight

(***************************************************************************)
(* While calls keep coming, an open breaker does not stay open: failures   *)
(* of calls that were already running may push opened_at forward, but only *)
(* a bounded number of times, and then the next call is let through.       *)
(***************************************************************************)
CallArrives == \E c \in Calls : Admit(c) \/ ShortCircuit(c)

OpenIsTemporary == []<><<CallArrives>>_vars => (state = "open" ~> state # "open")

-----------------------------------------------------------------------------
(* The client implements the promise of GuardedCalls.                      *)

Phase == [c \in Calls |->
    CASE pc[c] \in InFlight -> "pending"
      [] pc[c] \in {"fallback", "raised"} -> "degraded"
      [] OTHER -> pc[c]]

Left == [c \in Calls |->
    IF pc[c] \in InFlight /\ c \in Invokes THEN MaxRetries - attempt[c] ELSE 0]

Grace == [c \in Calls |-> 1 - sentOpen[c]]

Promise == INSTANCE GuardedCalls WITH
    MaxRequests <- MaxRetries,
    phase <- Phase, left <- Left, grace <- Grace, shut <- state = "open"

(***************************************************************************)
(* Whatever the breaker does, callers see GuardedCalls: bounded requests,  *)
(* one outcome per call, refusal only while shut, an answer reopens.       *)
(***************************************************************************)
KeepsPromise == Promise!Spec
=============================================================================
