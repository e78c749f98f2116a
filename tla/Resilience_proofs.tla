-------------------------- MODULE Resilience_proofs -------------------------
(***************************************************************************)
(* What shields the callers of the models, for every number of calls.      *)
(* CircuitBreaker: its type, its two main invariants for any threshold,    *)
(* window, reset and retry bound, and the promise it keeps to its callers  *)
(* (GuardedCalls).  CacheEngine: a worker finds what it wrote, and the     *)
(* index of a task outgrows its cap only by the writes that are trimming   *)
(* it and those an outage kept from it.                                    *)
(***************************************************************************)
EXTENDS CircuitBreaker, CacheEngine, FiniteSetTheorems, SequenceTheorems, TLAPS

\* Only a retry sleeps, so the attempt it goes on to is within the bound, and
\* requests are counted only while the breaker is open.
BackoffHasAttemptLeft ==
    \A c \in Calls : /\ pc[c] = "backoff" => c \in Invokes /\ attempt[c] < MaxRetries
                     /\ pc[c] \in InFlight => attempt[c] >= 1

CountedOnlyWhileOpen == state # "open" => \A c \in Calls : sentOpen[c] = 0

IndInv ==
    /\ TypeOK
    /\ StateMatchesRecord
    /\ AtMostOneRequestWhileOpen
    /\ BackoffHasAttemptLeft
    /\ CountedOnlyWhileOpen

-----------------------------------------------------------------------------
(* Lemmas about the breaker's operators.                                   *)

\* Pruning a list of ages leaves a list of ages.
LEMMA RecentType ==
    ASSUME NEW f \in Seq(0..Window + 1)
    PROVE  Recent(f) \in Seq(0..Window + 1)
<1> DEFINE Old == {i \in DOMAIN f : f[i] > Window}
<1>1. DOMAIN f = 1..Len(f) /\ Len(f) \in Nat
  BY LenProperties
<1>2. IsFiniteSet(1..Len(f))
  BY <1>1, FS_Interval
<1>3. IsFiniteSet(Old) /\ Cardinality(Old) \in Nat
  BY <1>1, <1>2, FS_Subset, FS_CardinalityType
<1>4. 1 + Cardinality(Old) \in 1..Len(f) + 1
  <2>1. Cardinality(Old) <= Cardinality(1..Len(f))
    BY <1>1, <1>2, FS_Subset
  <2>2. Cardinality(1..Len(f)) = Len(f)
    BY <1>1, FS_Interval
  <2> QED BY <1>1, <1>3, <2>1, <2>2
<1>5. \A m \in 1..Len(f) + 1 : SubSeq(f, m, Len(f)) \in Seq(0..Window + 1)
  <2> TAKE m \in 1..Len(f) + 1
  <2>1. \A i \in m..Len(f) : f[i] \in 0..Window + 1
    <3>1. \A i \in 1..Len(f) : f[i] \in 0..Window + 1
      BY ElementOfSeq
    <3>2. \A i \in m..Len(f) : i \in 1..Len(f)
      BY <1>1
    <3> QED BY <3>1, <3>2
  <2> QED BY <1>1, <2>1, SubSeqProperties
<1> QED BY <1>4, <1>5 DEF Recent

\* A failure leaves a list of ages, and the decision it takes is a Boolean.
LEMMA FailuresAfterType ==
    ASSUME TypeOK
    PROVE  /\ FailuresAfter \in Seq(0..Window + 1)
           /\ Len(FailuresAfter) \in Nat
<1>1. Append(failures, 0) \in Seq(0..Window + 1)
  BY AppendProperties, WindowAssumption DEF TypeOK
<1>2. FailuresAfter \in Seq(0..Window + 1)
  BY <1>1, RecentType DEF FailuresAfter
<1> QED BY <1>2, LenProperties

\* The passing of time ages the failures on file and keeps their number.
LEMMA AgedFailures ==
    ASSUME TypeOK, Tick
    PROVE  /\ failures' \in Seq(0..Window + 1)
           /\ Len(failures') = Len(failures)
<1>1. DOMAIN failures = 1..Len(failures) /\ Len(failures) \in Nat
  BY LenProperties DEF TypeOK
<1>2. \A i \in 1..Len(failures) : failures[i] \in 0..Window + 1
  BY <1>1, ElementOfSeq DEF TypeOK
<1>3. failures' = [i \in 1..Len(failures) |->
          IF failures[i] <= Window THEN failures[i] + 1 ELSE failures[i]]
  BY <1>1 DEF Tick
<1>4. \A i \in 1..Len(failures) :
          (IF failures[i] <= Window THEN failures[i] + 1 ELSE failures[i]) \in 0..Window + 1
  BY <1>2, WindowAssumption
<1> QED BY <1>1, <1>3, <1>4, IsASeq

-----------------------------------------------------------------------------
(* The inductive invariant.                                                *)

LEMMA InitEstablishes == Init => IndInv
BY ThresholdAssumption, MaxRetriesAssumption, WindowAssumption, EmptySeq
   DEF Init, IndInv, TypeOK, StateMatchesRecord, AtMostOneRequestWhileOpen,
       BackoffHasAttemptLeft, CountedOnlyWhileOpen, Never, InFlight, Outcomes

LEMMA StepPreserves == IndInv /\ [Next]_vars => IndInv'
<1> SUFFICES ASSUME IndInv, [Next]_vars
             PROVE  IndInv'
  OBVIOUS
<1> USE ThresholdAssumption, MaxRetriesAssumption, ResetAssumption
    DEF IndInv, TypeOK, StateMatchesRecord, AtMostOneRequestWhileOpen,
        BackoffHasAttemptLeft, CountedOnlyWhileOpen, Never, InFlight, Outcomes
<1>1. ASSUME NEW c \in Calls, Admit(c)
      PROVE  IndInv'
  <2> USE <1>1 DEF Admit, Admits, AfterAllow, Recount
  <2>1. /\ state' \in {"closed", "half_open"} /\ state' = "closed" => state = "closed"
        /\ failures' = failures /\ openAge' = openAge
        /\ state = "open" => openAge = Reset
    OBVIOUS
  <2>2. hasTask' \in [Calls -> BOOLEAN]
    BY DEF TaskChoice
  <2>4. sentOpen' \in [Calls -> 0..1] /\ \A d \in Calls : sentOpen'[d] = 0
    BY <2>1
  <2>5. /\ pc' = [pc EXCEPT ![c] = "sending"]
        /\ attempt' = [attempt EXCEPT ![c] = 1]
        /\ attempt' \in [Calls -> 0..MaxRetries]
    OBVIOUS
  <2>6. TypeOK'
    BY <2>1, <2>2, <2>4, <2>5
  <2>7. StateMatchesRecord'
    BY <2>1
  <2>8. AtMostOneRequestWhileOpen' /\ CountedOnlyWhileOpen'
    BY <2>1, <2>4
  <2>9. BackoffHasAttemptLeft'
    BY <2>5
  <2> QED BY <2>6, <2>7, <2>8, <2>9
<1>2. ASSUME NEW c \in Calls, ShortCircuit(c)
      PROVE  IndInv'
  <2>1. PICK t \in TaskChoice(c) : /\ hasTask' = [hasTask EXCEPT ![c] = t]
                                   /\ pc' = [pc EXCEPT ![c] = Degraded(t)]
    BY <1>2 DEF ShortCircuit
  <2>2. t \in BOOLEAN /\ Degraded(t) \in {"fallback", "raised"}
    BY DEF TaskChoice, Degraded
  <2>3. hasTask' \in [Calls -> BOOLEAN]
    BY <2>1, <2>2
  <2>4. TypeOK'
    BY <1>2, <2>1, <2>2, <2>3 DEF ShortCircuit, breaker
  <2>5. /\ StateMatchesRecord' /\ AtMostOneRequestWhileOpen'
        /\ BackoffHasAttemptLeft' /\ CountedOnlyWhileOpen'
    BY <1>2, <2>1, <2>2 DEF ShortCircuit, breaker
  <2> QED BY <2>4, <2>5
<1>3. ASSUME NEW c \in Calls, Succeed(c)
      PROVE  IndInv'
  BY <1>3, EmptySeq DEF Succeed, RecordSuccess, Recount
<1>4. ASSUME NEW c \in Calls, FailAndBackOff(c)
      PROVE  IndInv'
  BY <1>4, FailuresAfterType
     DEF FailAndBackOff, MayRetry, Admits, AfterAllow, RecordFailure, Recount,
         StateAfterFailure, AgeAfterFailure, Trips
<1>5. ASSUME NEW c \in Calls, FailAndGiveUp(c)
      PROVE  IndInv'
  BY <1>5, FailuresAfterType
     DEF FailAndGiveUp, RecordFailure, Recount, Degraded,
         StateAfterFailure, AgeAfterFailure, Trips
<1>6. ASSUME NEW c \in Calls, Resend(c)
      PROVE  IndInv'
  BY <1>6 DEF Resend, NextAttempt, breaker
<1>7. ASSUME NEW c \in Calls, Cancel(c)
      PROVE  IndInv'
  BY <1>7 DEF Cancel, breaker
<1>8. ASSUME Tick
      PROVE  IndInv'
  BY <1>8, AgedFailures DEF Tick
<1>9. CASE UNCHANGED vars
  BY <1>9 DEF vars
<1> QED
  BY <1>1, <1>2, <1>3, <1>4, <1>5, <1>6, <1>7, <1>8, <1>9 DEF Next, Fail

THEOREM Invariance == Spec => []IndInv
BY InitEstablishes, StepPreserves, PTL DEF Spec

(***************************************************************************)
(* Type correctness of the client for every value of the constants.        *)
(***************************************************************************)
THEOREM TypeCorrectness == Spec => []TypeOK
BY Invariance, PTL DEF IndInv

(***************************************************************************)
(* The breaker's state always agrees with its record of failures.          *)
(***************************************************************************)
THEOREM StateAgreesWithRecord == Spec => []StateMatchesRecord
BY Invariance, PTL DEF IndInv

(***************************************************************************)
(* However many calls run, none reaches the provider twice while the       *)
(* breaker is open.                                                        *)
(***************************************************************************)
THEOREM OneRequestWhileOpen == Spec => []AtMostOneRequestWhileOpen
BY Invariance, PTL DEF IndInv

-----------------------------------------------------------------------------
(* Refinement: every step of the client is a step of GuardedCalls.         *)

\* How the mapping changes when only call c moves: the other calls stay.
LEMMA OnlyOneMoves ==
    ASSUME NEW c \in Calls, NEW p, TypeOK,
           pc' = [pc EXCEPT ![c] = p],
           \A d \in Calls \ {c} : attempt'[d] = attempt[d]
    PROVE  /\ Phase' = [Phase EXCEPT ![c] =
                           IF p \in InFlight THEN "pending"
                           ELSE IF p \in {"fallback", "raised"} THEN "degraded" ELSE p]
           /\ Left' = [Left EXCEPT ![c] =
                           IF p \in InFlight /\ c \in Invokes THEN MaxRetries - attempt'[c] ELSE 0]
BY DEF TypeOK, Phase, Left, InFlight

LEMMA InitRefines == Init => Promise!Init
BY DEF Init, Promise!Init, Phase, Left, Grace, InFlight

LEMMA StepRefines == IndInv /\ [Next]_vars => [Promise!Next]_(Promise!vars)
<1> SUFFICES ASSUME IndInv, [Next]_vars
             PROVE  [Promise!Next]_(Promise!vars)
  OBVIOUS
<1> USE MaxRetriesAssumption DEF IndInv
<1>1. ASSUME NEW c \in Calls, Admit(c)
      PROVE  Promise!Admit(c)
  <2>1. Phase' = [Phase EXCEPT ![c] = "pending"]
        /\ Left' = [Left EXCEPT ![c] = IF c \in Invokes THEN MaxRetries - 1 ELSE 0]
    BY <1>1, OnlyOneMoves DEF Admit, TypeOK, InFlight
  <2>2. Phase[c] # "pending"
    BY <1>1 DEF Admit, Phase, TypeOK, InFlight, Outcomes
  <2>3. state' # "open"
    BY <1>1 DEF Admit, Admits, AfterAllow
  <2>4. Grace' = [d \in Calls |-> 1]
    BY <1>1, <2>3 DEF Admit, Recount, Grace, TypeOK, CountedOnlyWhileOpen
  <2>5. \E n \in 0..MaxRetries - 1 : Left' = [Left EXCEPT ![c] = n]
    <3>1. (IF c \in Invokes THEN MaxRetries - 1 ELSE 0) \in 0..MaxRetries - 1
      OBVIOUS
    <3> QED BY <2>1, <3>1
  <2>6. (state = "open")' = FALSE
    BY <2>3
  <2> QED BY <2>1, <2>2, <2>4, <2>5, <2>6, Zenon DEF Promise!Admit
<1>2. ASSUME NEW c \in Calls, ShortCircuit(c)
      PROVE  Promise!Refuse(c)
  <2>1. PICK t \in TaskChoice(c) : pc' = [pc EXCEPT ![c] = Degraded(t)]
    BY <1>2 DEF ShortCircuit
  <2>2. Phase' = [Phase EXCEPT ![c] = "degraded"] /\ Left' = [Left EXCEPT ![c] = 0]
    BY <1>2, <2>1, OnlyOneMoves DEF ShortCircuit, TypeOK, InFlight, Degraded
  <2>3. Phase[c] # "pending" /\ Left[c] = 0
    BY <1>2 DEF ShortCircuit, Phase, Left, TypeOK, InFlight, Outcomes
  <2>4. Left' = Left
    BY <2>2, <2>3 DEF Left
  <2>5. state = "open" /\ state' = state /\ Grace' = Grace
    BY <1>2 DEF ShortCircuit, Admits, Grace, breaker
  <2> QED BY <2>2, <2>3, <2>4, <2>5 DEF Promise!Refuse
<1>3. ASSUME NEW c \in Calls, Succeed(c)
      PROVE  Promise!End(c)
  <2>1. Phase' = [Phase EXCEPT ![c] = "answered"] /\ Left' = [Left EXCEPT ![c] = 0]
    BY <1>3, OnlyOneMoves DEF Succeed, TypeOK, InFlight
  <2>2. Phase[c] = "pending"
    BY <1>3 DEF Succeed, Phase, InFlight
  <2>3. Promise!Regrace
    BY <1>3 DEF Succeed, Recount, Promise!Regrace, Grace, TypeOK
  <2> QED BY <1>3, <2>1, <2>2, <2>3 DEF Promise!End, Succeed, RecordSuccess
<1>4. ASSUME NEW c \in Calls, FailAndBackOff(c)
      PROVE  Promise!Reopen(c) \/ UNCHANGED Promise!vars
  <2>1. pc[c] = "sending" /\ pc' = [pc EXCEPT ![c] = "backoff"] /\ attempt' = attempt
        /\ c \in Invokes /\ attempt[c] < MaxRetries
    BY <1>4 DEF FailAndBackOff, MayRetry
  <2>2. Phase[c] = "pending" /\ Left[c] = MaxRetries - attempt[c]
    BY <2>1 DEF Phase, Left, InFlight
  <2>3. Phase' = Phase /\ Left' = Left
    BY <2>1 DEF Phase, Left, InFlight, TypeOK
  <2>4. Left[c] > 0
    BY <2>1, <2>2 DEF TypeOK
  <2>5. state' # "open"
    BY <1>4 DEF FailAndBackOff, MayRetry, Admits, AfterAllow
  <2>6. Promise!Regrace
    BY <1>4 DEF FailAndBackOff, Recount, Promise!Regrace, Grace, TypeOK
  <2> QED BY <2>2, <2>3, <2>4, <2>5, <2>6 DEF Promise!Reopen
<1>5. ASSUME NEW c \in Calls, FailAndGiveUp(c)
      PROVE  Promise!End(c)
  <2>0. PICK p \in {"fallback", "raised"} :
          pc' = [pc EXCEPT ![c] = p] /\ attempt' = attempt
    BY <1>5 DEF FailAndGiveUp, Degraded
  <2>1. Phase' = [Phase EXCEPT ![c] = "degraded"] /\ Left' = [Left EXCEPT ![c] = 0]
    BY <2>0, OnlyOneMoves DEF InFlight
  <2>2. Phase[c] = "pending"
    BY <1>5 DEF FailAndGiveUp, Phase, InFlight
  <2>3. (state' = "open") \in {state = "open", TRUE}
    BY <1>5 DEF FailAndGiveUp, StateAfterFailure
  <2>4. Promise!Regrace
    BY <1>5 DEF FailAndGiveUp, Recount, Promise!Regrace, Grace, TypeOK
  <2> QED BY <2>1, <2>2, <2>3, <2>4 DEF Promise!End
<1>6. ASSUME NEW c \in Calls, Resend(c)
      PROVE  Promise!Retry(c)
  <2>1. c \in Invokes /\ attempt[c] < MaxRetries /\ pc[c] = "backoff"
        /\ attempt' = [attempt EXCEPT ![c] = attempt[c] + 1]
        /\ pc' = [pc EXCEPT ![c] = "sending"]
    BY <1>6 DEF Resend, BackoffHasAttemptLeft, NextAttempt
  <2>2. Phase[c] = "pending" /\ Left[c] = MaxRetries - attempt[c] /\ Left[c] > 0
    BY <2>1 DEF Phase, Left, InFlight, TypeOK
  <2>3. Phase' = Phase
    BY <2>1 DEF Phase, InFlight, TypeOK
  <2>4. Left' = [Left EXCEPT ![c] = @ - 1]
    <3>1. Left' = [Left EXCEPT ![c] = MaxRetries - attempt'[c]]
      BY <2>1, OnlyOneMoves DEF InFlight, TypeOK
    <3>2. MaxRetries - attempt'[c] = Left[c] - 1
      BY <2>1, <2>2 DEF TypeOK
    <3> QED BY <3>1, <3>2
  <2>5. state' = state
    BY <1>6 DEF Resend, breaker
  <2>6. state = "open" => Grace[c] = 1
    BY <2>1 DEF Grace, AtMostOneRequestWhileOpen
  <2>7. Grace' = IF state = "open" THEN [Grace EXCEPT ![c] = @ - 1] ELSE Grace
    <3>1. CASE state = "open"
      <4>1. sentOpen' = [sentOpen EXCEPT ![c] = sentOpen[c] + 1]
        BY <1>6, <3>1 DEF Resend
      <4>2. \A d \in Calls : 1 - sentOpen'[d] = IF d = c THEN Grace[c] - 1 ELSE Grace[d]
        BY <4>1 DEF Grace, TypeOK
      <4> QED BY <3>1, <4>2 DEF Grace
    <3>2. CASE state # "open"
      BY <1>6, <3>2 DEF Resend, Grace
    <3> QED BY <3>1, <3>2
  <2> QED BY <2>2, <2>3, <2>4, <2>5, <2>6, <2>7 DEF Promise!Retry
<1>7. ASSUME NEW c \in Calls, Cancel(c)
      PROVE  Promise!End(c)
  <2>1. Phase' = [Phase EXCEPT ![c] = "cancelled"] /\ Left' = [Left EXCEPT ![c] = 0]
    BY <1>7, OnlyOneMoves DEF Cancel, TypeOK, InFlight
  <2>2. Phase[c] = "pending"
    BY <1>7 DEF Cancel, Phase, InFlight
  <2>3. state' = state /\ Grace' = Grace
    BY <1>7 DEF Cancel, breaker, Grace
  <2> QED BY <2>1, <2>2, <2>3 DEF Promise!End, Promise!Regrace
<1>8. ASSUME Tick \/ UNCHANGED vars
      PROVE  UNCHANGED Promise!vars
  BY <1>8 DEF Tick, vars, Promise!vars, Phase, Left, Grace
<1> QED
  BY <1>1, <1>2, <1>3, <1>4, <1>5, <1>6, <1>7, <1>8 DEF Next, Fail, Promise!Next

(***************************************************************************)
(* The client implements GuardedCalls: a call sends at most MaxRetries     *)
(* requests, at most one while the guard is shut, and has one outcome.     *)
(***************************************************************************)
THEOREM ClientKeepsPromise == Spec => KeepsPromise
<1>1. Init => Promise!Init
  BY InitRefines
<1>2. IndInv /\ [Next]_vars => [Promise!Next]_(Promise!vars)
  BY StepRefines
<1> QED BY <1>1, <1>2, Invariance, PTL DEF Spec, KeepsPromise, Promise!Spec

-----------------------------------------------------------------------------
(* The cache engine.                                                       *)

Trimming == {o \in Ops : stage[o] \in {"card", "pop"}}

Shape ==
  /\ now \in Nat /\ cut \in Nat
  /\ IsFiniteSet(rIndex)
  /\ DOMAIN stage = Ops /\ DOMAIN over = Ops /\ DOMAIN result = Ops
  /\ \A o \in Ops : over[o] \in Int /\ (stage[o] = "pop" => over[o] > 0)

(* What a worker has finished to write is what it keeps in memory.         *)
Kept == wrote = mem

IInv == Shape /\ Kept /\ IndexBounded /\ WrittenIsFound

-----------------------------------------------------------------------------
LEMMA TrimmingIsFinite == IsFiniteSet(Trimming) /\ Cardinality(Trimming) \in Nat
<1>1. Trimming \in SUBSET Ops
  BY DEF Trimming
<1> QED BY <1>1, OpsAssumption, FS_Subset, FS_CardinalityType

LEMMA AddOne ==
  ASSUME NEW S, NEW x, IsFiniteSet(S)
  PROVE  /\ IsFiniteSet(S \cup {x}) /\ Cardinality(S \cup {x}) \in Nat /\ Cardinality(S) \in Nat
         /\ Cardinality(S \cup {x}) <= Cardinality(S) + 1
         /\ x \notin S => Cardinality(S \cup {x}) = Cardinality(S) + 1
<1>1. IsFiniteSet(S \cup {x}) /\ Cardinality(S \cup {x}) = IF x \in S THEN Cardinality(S) ELSE Cardinality(S) + 1
  BY FS_AddElement
<1>2. Cardinality(S) \in Nat
  BY FS_CardinalityType
<1> QED BY <1>1, <1>2

LEMMA RemoveOne ==
  ASSUME NEW S, NEW x, IsFiniteSet(S), x \in S
  PROVE  Cardinality(S \ {x}) \in Nat /\ Cardinality(S) \in Nat /\ Cardinality(S) = Cardinality(S \ {x}) + 1
<1>1. IsFiniteSet(S \ {x}) /\ Cardinality(S \ {x}) = Cardinality(S) - 1
  BY FS_RemoveElement
<1>2. Cardinality(S) \in Nat /\ Cardinality(S \ {x}) \in Nat
  BY <1>1, FS_CardinalityType
<1> QED BY <1>1, <1>2

LEMMA Start == CacheInit => IInv
<1> SUFFICES ASSUME CacheInit PROVE IInv
  OBVIOUS
<1>1. Cardinality(rIndex) = 0 /\ IsFiniteSet(rIndex)
  BY FS_EmptySet DEF CacheInit
<1>2. Shape /\ Kept /\ WrittenIsFound
  BY <1>1 DEF CacheInit, Shape, Kept, WrittenIsFound
<1>3. Cardinality(Trimming) \in Nat
  BY TrimmingIsFinite
<1>4. IndexBounded
  BY <1>1, <1>3, CapAssumption DEF IndexBounded, Trimming, CacheInit
<1> QED BY <1>2, <1>4 DEF IInv

-----------------------------------------------------------------------------
(* What a worker wrote is found: by every step that leaves the index alone *)
(* or not.                                                                 *)
LEMMA WritesAreKept == ASSUME IInv, [CacheNext]_cache PROVE Kept' /\ WrittenIsFound'
<1> USE DEF IInv, Kept, WrittenIsFound, Shape
<1>1. CASE UNCHANGED <<mem, wrote, result>>
  BY <1>1
<1>2. ASSUME NEW o \in Ops, WriteExact(o) PROVE Kept' /\ WrittenIsFound'
  BY <1>2 DEF WriteExact, WriteMem
<1>3. ASSUME NEW o \in Ops, Read(o) PROVE Kept' /\ WrittenIsFound'
  <2>1. PICK found \in Finds(o) : result' = [result EXCEPT ![o] = <<found, wrote[W(o)][K(o)] > now>>]
    BY <1>3 DEF Read
  <2>2. wrote[W(o)][K(o)] > now => found \in {"redis", "memory"}
    BY <2>1 DEF Finds, InMem
  <2>3. result'[o][1] = found /\ result'[o][2] = (wrote[W(o)][K(o)] > now)
    BY <2>1
  <2>4. \A q \in Ops \ {o} : result'[q] = result[q]
    BY <2>1
  <2>5. WrittenIsFound'
    BY <2>2, <2>3, <2>4
  <2> QED BY <1>3, <2>5 DEF Read
<1> QED
  BY <1>1, <1>2, <1>3 DEF CacheNext, Step, cache, CacheTick, Outage, Recover, Call, Connect, PingAnswered,
     StoreInBucket, StoreEmbedding, AddToIndex, CountIndex, PopExcess, DeleteExcess

-----------------------------------------------------------------------------
(* A step of a call that neither trims nor begins to.                      *)
LEMMA Elsewhere ==
  ASSUME IInv, UNCHANGED <<rIndex, cut, over>>, now' \in Nat, DOMAIN result' = Ops, DOMAIN stage' = Ops,
         \A o \in Ops : stage'[o] = stage[o] \/ {stage'[o], stage[o]} \cap {"card", "pop"} = {}
  PROVE  Shape' /\ IndexBounded'
<1>1. Trimming' = Trimming
  BY DEF Trimming
<1>2. IndexBounded'
  BY <1>1 DEF IInv, IndexBounded, Trimming
<1> QED BY <1>2 DEF IInv, Shape

LEMMA IndexStep == ASSUME IInv, NEW o \in Ops, AddToIndex(o) PROVE Shape' /\ IndexBounded'
<1> USE DEF IInv, Shape
<1>1. stage[o] = "index" /\ stage' = [stage EXCEPT ![o] = "card"] /\ rIndex' = rIndex \cup {K(o)} /\ UNCHANGED <<now, over, result, cut>>
  BY DEF AddToIndex, Goto
<1>2. Trimming' = Trimming \cup {o} /\ o \notin Trimming
  BY <1>1 DEF Trimming
<1>3. Cardinality(Trimming') = Cardinality(Trimming) + 1 /\ Cardinality(Trimming) \in Nat
  BY <1>2, TrimmingIsFinite, AddOne
<1>4. /\ IsFiniteSet(rIndex') /\ Cardinality(rIndex') \in Nat /\ Cardinality(rIndex) \in Nat
      /\ Cardinality(rIndex') <= Cardinality(rIndex) + 1
  BY <1>1, AddOne
<1>5. IndexBounded'
  BY <1>1, <1>3, <1>4, CapAssumption DEF IndexBounded, Trimming
<1> QED BY <1>1, <1>4, <1>5

(* A call stops trimming: the bound loses one.                             *)
LEMMA Leaves ==
  ASSUME IInv, NEW o \in Ops, stage[o] \in {"card", "pop"}, NEW to, to \notin {"card", "pop"}, stage' = [stage EXCEPT ![o] = to]
  PROVE  Cardinality(Trimming) = Cardinality(Trimming') + 1 /\ Cardinality(Trimming') \in Nat
<1>1. Trimming' = Trimming \ {o} /\ o \in Trimming
  BY DEF Trimming, IInv, Shape
<1> QED BY <1>1, TrimmingIsFinite, RemoveOne

LEMMA CountStep == ASSUME IInv, NEW o \in Ops, CountIndex(o) PROVE Shape' /\ IndexBounded'
<1> USE DEF IInv, Shape
<1>0. Cardinality(rIndex) \in Nat
  BY FS_CardinalityType
<1>1. CASE Over > 0
  <2>1. stage' = [stage EXCEPT ![o] = "pop"] /\ over' = [over EXCEPT ![o] = Over] /\ stage[o] = "card" /\ UNCHANGED <<now, redis, result, cut>>
    BY <1>1 DEF CountIndex, Goto
  <2>2. Trimming' = Trimming
    BY <2>1 DEF Trimming
  <2>3. IndexBounded'
    BY <2>1, <2>2 DEF IndexBounded, Trimming, redis
  <2>4. Over \in Int
    BY <1>0, CapAssumption DEF Over
  <2> QED BY <1>1, <2>1, <2>3, <2>4 DEF redis
<1>2. CASE ~(Over > 0)
  <2>1. stage' = [stage EXCEPT ![o] = "done"] /\ stage[o] = "card" /\ UNCHANGED <<now, over, redis, result, cut>>
    BY <1>2 DEF CountIndex, Goto
  <2>2. Cardinality(Trimming') \in Nat
    BY <2>1, Leaves
  <2>3. IndexBounded'
    BY <1>0, <1>2, <2>1, <2>2, CapAssumption DEF IndexBounded, Trimming, redis, Over
  <2> QED BY <2>1, <2>3 DEF redis
<1> QED BY <1>1, <1>2

LEMMA PopStep == ASSUME IInv, NEW o \in Ops, PopExcess(o) PROVE Shape' /\ IndexBounded'
<1> USE DEF IInv, Shape
<1>0. PICK popped \in SUBSET rIndex :
        /\ Cardinality(popped) = over[o] \/ popped = rIndex
        /\ rIndex' = rIndex \ popped
        /\ Goto(o, IF popped = {} THEN "done" ELSE "delete")
  BY DEF PopExcess
<1>1. stage[o] = "pop" /\ UNCHANGED <<now, over, result, cut>>
  BY DEF PopExcess
<1>2. DOMAIN stage' = Ops /\ stage'[o] \in {"done", "delete"} /\ \A q \in Ops \ {o} : stage'[q] = stage[q]
  BY <1>0 DEF Goto
<1>3. Cardinality(Trimming) = Cardinality(Trimming') + 1 /\ Cardinality(Trimming') \in Nat
  <2>1. CASE popped = {}
    <3>1. stage' = [stage EXCEPT ![o] = "done"]
      BY <1>0, <2>1 DEF Goto
    <3> QED BY <1>1, <3>1, Leaves
  <2>2. CASE popped # {}
    <3>1. stage' = [stage EXCEPT ![o] = "delete"]
      BY <1>0, <2>2 DEF Goto
    <3> QED BY <1>1, <3>1, Leaves
  <2> QED BY <2>1, <2>2
<1>4. IsFiniteSet(rIndex') /\ Cardinality(rIndex') \in Nat /\ Cardinality(rIndex) \in Nat
  <2>1. rIndex' \in SUBSET rIndex
    BY <1>0
  <2> QED BY <2>1, FS_Subset, FS_CardinalityType
<1>5. IndexBounded'
  <2>1. CASE popped = rIndex
    <3>1. Cardinality(rIndex') = 0
      BY <1>0, <2>1, FS_EmptySet
    <3> QED BY <1>1, <1>3, <3>1, CapAssumption DEF IndexBounded, Trimming
  <2>2. CASE Cardinality(popped) = over[o]
    <3>1. IsFiniteSet(popped) /\ popped # {}
      BY <1>0, <1>1, <2>2, FS_Subset, FS_EmptySet
    <3>2. PICK x \in popped : TRUE
      BY <3>1
    <3>3. rIndex' \in SUBSET (rIndex \ {x}) /\ x \in rIndex
      BY <1>0, <3>2
    <3>4. Cardinality(rIndex) = Cardinality(rIndex \ {x}) + 1 /\ Cardinality(rIndex \ {x}) \in Nat
      BY <3>3, RemoveOne
    <3>5. IsFiniteSet(rIndex \ {x})
      BY FS_RemoveElement
    <3>6. Cardinality(rIndex') <= Cardinality(rIndex \ {x})
      BY <3>3, <3>5, FS_Subset
    <3> QED BY <1>1, <1>3, <1>4, <3>4, <3>6, CapAssumption DEF IndexBounded, Trimming
  <2> QED BY <1>0, <2>1, <2>2
<1> QED BY <1>0, <1>1, <1>2, <1>4, <1>5

LEMMA BucketStep == ASSUME IInv, NEW o \in Ops, StoreInBucket(o) PROVE Shape' /\ IndexBounded'
<1> USE DEF IInv, Shape
<1>1. stage' = [stage EXCEPT ![o] = "done"] /\ UNCHANGED <<now, redis, over, result>>
  BY DEF StoreInBucket, Goto
<1>2. CASE stage[o] \in {"card", "pop"}
  <2>1. cut' = cut + 1
    BY <1>2 DEF StoreInBucket
  <2>2. Cardinality(Trimming) = Cardinality(Trimming') + 1 /\ Cardinality(Trimming') \in Nat
    BY <1>1, <1>2, Leaves
  <2>3. Cardinality(rIndex) \in Nat
    BY FS_CardinalityType
  <2>4. IndexBounded'
    BY <1>1, <2>1, <2>2, <2>3, CapAssumption DEF IndexBounded, Trimming, redis
  <2> QED BY <1>1, <2>1, <2>4 DEF redis
<1>3. CASE stage[o] \notin {"card", "pop"}
  <2>1. Trimming' = Trimming
    BY <1>1, <1>3 DEF Trimming
  <2>2. cut' \in {cut, cut + 1}
    BY DEF StoreInBucket
  <2>3. Cardinality(rIndex) \in Nat /\ Cardinality(Trimming) \in Nat
    BY FS_CardinalityType, TrimmingIsFinite
  <2>4. IndexBounded'
    BY <1>1, <2>1, <2>2, <2>3, CapAssumption DEF IndexBounded, Trimming, redis
  <2> QED BY <1>1, <2>2, <2>4 DEF redis
<1> QED BY <1>2, <1>3

-----------------------------------------------------------------------------
LEMMA NextKeeps == IInv /\ [CacheNext]_cache => IInv'
<1> SUFFICES ASSUME IInv, [CacheNext]_cache PROVE IInv'
  OBVIOUS
<1>1. Kept' /\ WrittenIsFound'
  BY WritesAreKept
<1>2. CASE CacheTick \/ Outage \/ Recover \/ UNCHANGED cache
  BY <1>1, <1>2, Elsewhere DEF CacheTick, Outage, Recover, cache, redis, IInv, Shape
<1>3. ASSUME NEW o \in Ops, Step(o) PROVE IInv'
  <2>1. CASE AddToIndex(o) \/ CountIndex(o) \/ PopExcess(o) \/ StoreInBucket(o)
    BY <1>1, <2>1, IndexStep, CountStep, PopStep, BucketStep DEF IInv
  <2>2. CASE Call(o) \/ Connect(o) \/ PingAnswered(o) \/ WriteExact(o) \/ StoreEmbedding(o) \/ DeleteExcess(o) \/ Read(o)
    <3>1. UNCHANGED <<rIndex, cut, over, now>> /\ DOMAIN result' = Ops /\ DOMAIN stage' = Ops
      BY <2>2 DEF Call, Connect, PingAnswered, WriteExact, StoreEmbedding, DeleteExcess, Read, Goto, redis, IInv, Shape
    <3>2. \A q \in Ops : stage'[q] = stage[q] \/ {stage'[q], stage[q]} \cap {"card", "pop"} = {}
      BY <2>2 DEF Call, Connect, PingAnswered, WriteExact, StoreEmbedding, DeleteExcess, Read, Goto, Body, IInv, Shape
    <3>3. now' \in Nat
      BY <3>1 DEF IInv, Shape
    <3> QED BY <1>1, <3>1, <3>2, <3>3, Elsewhere DEF IInv
  <2> QED BY <1>3, <2>1, <2>2 DEF Step
<1> QED BY <1>2, <1>3 DEF CacheNext

(* WrittenIsFound and IndexBounded of any number of workers, calls, keys   *)
(* and outages (cache_engine.py:201-249).                                  *)
THEOREM WrittenIsAlwaysFound == CacheSpec => []WrittenIsFound
<1>1. IInv => WrittenIsFound
  BY DEF IInv
<1> QED BY Start, NextKeeps, <1>1, PTL DEF CacheSpec

THEOREM IndexStaysBounded == CacheSpec => []IndexBounded
<1>1. IInv => IndexBounded
  BY DEF IInv
<1> QED BY Start, NextKeeps, <1>1, PTL DEF CacheSpec
=============================================================================
