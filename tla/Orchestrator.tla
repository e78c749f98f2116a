---------------------------- MODULE Orchestrator ----------------------------
(***************************************************************************)
(* Orchestrator.handle: requests of several workers run through the chain  *)
(*   rule / knowledge graph -> cache -> hosted model -> Claude             *)
(* over CacheEngine's stores (Redis, and what a process keeps itself) and, *)
(* behind Claude, over LlmRouter's.  A step is the code between two awaits *)
(* that other requests can slip into: a lookup, the hosted call, the       *)
(* Bedrock call; what follows a call (write-back, usage log) is part of    *)
(* its step.  Redis may be away in any step.  Each request of Requests is  *)
(* handled once, in the transaction of its caller, which then ends.        *)
(***************************************************************************)
EXTENDS LlmRouter, Sequences

CONSTANTS
    Requests,       \* handle() calls
    Home,           \* the worker process that serves each
    Wants,          \* what each may ask
    FreeTasks,      \* tasks the rule or the knowledge-graph engine answers
    HostedTasks,    \* HOSTED_MODEL_ALLOWED_TASKS
    Ttl,            \* cache_engine.ttl_for(task)
    MaxAway         \* bound of the model: steps without Redis

ASSUME OrchTtlAssumption == Ttl \in Nat \ {0}
ASSUME MaxAwayAssumption == MaxAway \in Nat
ASSUME HomeAssumption == Home \in [Requests -> Workers]
ASSUME WantsAssumption == Wants \in [Requests -> SUBSET Asks]

VARIABLES
    exact,          \* orch:<key> and _mem: answers, their expiry and place;
                    \* orch:emb:<key> holds what orch:<key> does as long
    bucket,         \* _emb_mem: answers and their place; they never expire
    away,           \* steps so far in which Redis could not be reached
    phase,          \* where each request is
    ask,            \* what it asks, once it has started
    served,         \* the answer it returned, how, when, and whether it was
                    \* written back to Redis
    rows,           \* its AiUsageLog rows, in its caller's transaction
    tx,             \* that transaction
    paid,           \* history: requests of it that a provider answered
    warm            \* history: it began after an equal one was served afresh

vars == <<now, llmExact, llmSimilar, exact, bucket, away, phase, ask, served, rows, tx, paid, warm>>

Tiers == {"free", "exact", "similar", "hosted", "llm_exact", "llm_similar", "claude"}
Phases == {"new", "hosted", "claude", "bedrock", "done", "failed"}
Transactions == {"open", "committed", "rolled_back"}
Nothing == <<>>     \* no ask yet, nothing served
Served == [answer : Answers, via : Tiers, at : Time, shared : BOOLEAN]
Row == [tier : {"free", "cache", "hosted", "claude"}, cost : 0..1]

TypeOK ==
    /\ LlmTypeOK
    /\ \A e \in exact : e.answer \in Answers /\ e.expires \in Nat /\ e.place \in Places
    /\ bucket \subseteq [answer : Answers, place : Workers]
    /\ away \in 0..MaxAway
    /\ phase \in [Requests -> Phases]
    /\ ask \in [Requests -> Asks \cup {Nothing}]
    /\ DOMAIN served = Requests
    /\ \A r \in Requests : served[r] = Nothing \/ served[r] \in Served
    /\ rows \in [Requests -> Seq(Row)]
    /\ tx \in [Requests -> Transactions]
    /\ paid \in [Requests -> 0..4]
    /\ warm \in [Requests -> BOOLEAN]

Init ==
    /\ LlmInit
    /\ exact = {} /\ bucket = {} /\ away = 0
    /\ phase = [r \in Requests |-> "new"]
    /\ ask = [r \in Requests |-> Nothing]
    /\ served = [r \in Requests |-> Nothing]
    /\ rows = [r \in Requests |-> <<>>]
    /\ tx = [r \in Requests |-> "open"]
    /\ paid = [r \in Requests |-> 0]
    /\ warm = [r \in Requests |-> FALSE]

-----------------------------------------------------------------------------
(* The cache in front of the paid engines.                                 *)

(* make_key hashes task and payload: a system prompt that came in the      *)
(* context is not part of it.                                              *)
PayloadSystem(a) == IF a.grounded THEN None ELSE a.system
OrchKey(a) == <<a.task, a.text, a.history, PayloadSystem(a)>>

Live == {e \in exact : e.expires > now}
Text == [a \in Asks |-> a.text]     \* _embedding_text

ExactHits(a, w, up) == Found({e \in Live : OrchKey(e.answer.ask) = OrchKey(a)}, w, up)

(* The entries of the task in Redis; the process's bucket, whatever its    *)
(* age, only if there are none.                                            *)
Embedded(a, w, up) ==
    LET shared == {e.answer : e \in {x \in Live : up /\ x.place = Redis /\ x.answer.ask.task = a.task}}
    IN  IF shared # {} THEN shared
        ELSE {x.answer : x \in {y \in bucket : y.place = w /\ y.answer.ask.task = a.task}}

SimilarHits(a, w, up) == Closest(Embedded(a, w, up), Text, a.text)

AlwaysWritesBack(a, isCached) == ~a.direct                          \* mutant
HostedIsNotKept(a, isCached) == a.task \notin HostedTasks           \* mutant

(* _serve: only a fresh answer is written back.                            *)
WritesBack(a, isCached) == ~a.direct /\ ~isCached

(* What CacheEngine.set does with an answer served to a.  What could not   *)
(* be embedded in Redis goes into the bucket.                              *)
Keep(a, answer, isCached, w, up) ==
    IF WritesBack(a, isCached)
    THEN /\ exact' = {e \in exact : OrchKey(e.answer.ask) # OrchKey(a) \/ e.place \notin Stores(w, up)}
                     \cup {[answer |-> answer, expires |-> now + Ttl, place |-> p] : p \in Stores(w, up)}
         /\ bucket' = IF up THEN bucket ELSE bucket \cup {[answer |-> answer, place |-> w]}
    ELSE UNCHANGED <<exact, bucket>>

-----------------------------------------------------------------------------
(* Finishing a request.                                                    *)

Finish(r, answer, via, shared) ==
    /\ phase' = [phase EXCEPT ![r] = "done"]
    /\ served' = [served EXCEPT ![r] = [answer |-> answer, via |-> via, at |-> now, shared |-> shared]]

(* A row of AiUsageLog joins those of its request.                         *)
record_usage(log, tier, cost) == Append(log, [tier |-> tier, cost |-> cost])

(* AIRouter's direct callers write no row.                                 *)
Log(r, a, tier, cost) == IF a.direct THEN rows[r] ELSE record_usage(rows[r], tier, cost)

(* The caller's transaction ends after the request.  An error of handle()  *)
(* that it does not catch, or one of its own, takes the rows with it.      *)
(* Nobody else reads them, so that the end is part of the last step.       *)
Ends(r, log) ==
    \E fate \in {"committed", "rolled_back"} :
        /\ tx' = [tx EXCEPT ![r] = fate]
        /\ rows' = [rows EXCEPT ![r] = IF fate = "committed" THEN log ELSE <<>>]

(* The cost an answer carries: a fallback reports no tokens.               *)
Cost(answer) == IF answer.kind = "fallback" THEN 0 ELSE 1

(* An equal request was answered afresh, its entry has not expired, and it *)
(* is in this process or in Redis.                                         *)
Warm(a, w, up) == \E r \in Requests :
    /\ phase[r] = "done" /\ served[r].via \in {"hosted", "claude"}
    /\ ~ask[r].direct
    /\ OrchKey(ask[r]) = OrchKey(a)
    /\ now < served[r].at + Ttl
    /\ Home[r] = w \/ (up /\ served[r].shared)

Begin(r, a, up) ==
    /\ phase[r] = "new"
    /\ ask' = [ask EXCEPT ![r] = a]
    /\ warm' = [warm EXCEPT ![r] = ~a.direct /\ Warm(a, Home[r], up)]

(* Rules and the knowledge graph compute their answer, whoever asks.       *)
AnswerFree(r, a, up) ==
    /\ ~a.direct /\ a.task \in FreeTasks
    /\ Begin(r, a, up)
    /\ Finish(r, [ask |-> a, kind |-> "computed", at |-> now], "free", FALSE)
    /\ Ends(r, Log(r, a, "free", 0))
    /\ UNCHANGED <<now, llmVars, exact, bucket, paid>>

Replay(r, a, up, answer, via) ==
    /\ ~a.direct /\ a.task \notin FreeTasks
    /\ Begin(r, a, up)
    /\ Finish(r, answer, via, FALSE)
    /\ Ends(r, Log(r, a, "cache", 0))
    /\ UNCHANGED <<now, llmVars, exact, bucket, paid>>

ReplayExact(r, a, up) == \E x \in ExactHits(a, Home[r], up) : Replay(r, a, up, x, "exact")

ReplaySimilar(r, a, up) ==
    /\ ExactHits(a, Home[r], up) = {}
    /\ \E x \in SimilarHits(a, Home[r], up) : Replay(r, a, up, x, "similar")

Miss(r, a, up) ==
    /\ ~a.direct /\ a.task \notin FreeTasks
    /\ ExactHits(a, Home[r], up) = {} /\ SimilarHits(a, Home[r], up) = {}
    /\ Begin(r, a, up)
    /\ phase' = [phase EXCEPT ![r] = IF a.task \in HostedTasks THEN "hosted" ELSE "claude"]
    /\ UNCHANGED <<now, llmVars, exact, bucket, served, rows, tx, paid>>

(* DomainClassifier and the skill extractors start at AIRouter.route.      *)
RouteDirectly(r, a, up) ==
    /\ a.direct
    /\ Begin(r, a, up)
    /\ phase' = [phase EXCEPT ![r] = "claude"]
    /\ UNCHANGED <<now, llmVars, exact, bucket, served, rows, tx, paid>>

-----------------------------------------------------------------------------
(* The hosted open model.                                                  *)

HostedAccepts(r, up) ==
    /\ phase[r] = "hosted"
    /\ LET answer == [ask |-> ask[r], kind |-> "hosted", at |-> now] IN
       /\ Keep(ask[r], answer, FALSE, Home[r], up)
       /\ Finish(r, answer, "hosted", up)
    /\ Ends(r, Log(r, ask[r], "hosted", 1))
    /\ paid' = [paid EXCEPT ![r] = @ + 1]
    /\ UNCHANGED <<now, llmVars, ask, warm>>

RejectedIsFree(r) == UNCHANGED rows                                 \* mutant

BillRejected(r) == rows' = [rows EXCEPT ![r] = Log(r, ask[r], "hosted", 1)]

(* The call is billed, its text is dropped and Claude is asked.            *)
HostedLowConfidence(r) ==
    /\ phase[r] = "hosted"
    /\ phase' = [phase EXCEPT ![r] = "claude"]
    /\ BillRejected(r)
    /\ paid' = [paid EXCEPT ![r] = @ + 1]
    /\ UNCHANGED <<now, llmVars, exact, bucket, ask, served, tx, warm>>

(* No key, a network or a provider error: None.                            *)
HostedUnavailable(r) ==
    /\ phase[r] = "hosted"
    /\ phase' = [phase EXCEPT ![r] = "claude"]
    /\ UNCHANGED <<now, llmVars, exact, bucket, ask, served, rows, tx, paid, warm>>

-----------------------------------------------------------------------------
(* Claude, through AIRouter.route.                                         *)

(* validate_request raises: so does handle(), and its caller may cope.     *)
Refused(r) ==
    /\ phase[r] = "claude"
    /\ phase' = [phase EXCEPT ![r] = "failed"]
    /\ Ends(r, rows[r])
    /\ UNCHANGED <<now, llmVars, exact, bucket, ask, served, paid, warm>>

(* A replay of the router's is billed with the cost it carries.            *)
Replayed(r, answer, via, up) ==
    /\ Keep(ask[r], answer, TRUE, Home[r], up)
    /\ Finish(r, answer, via, FALSE)
    /\ Ends(r, Log(r, ask[r], "claude", Cost(answer)))
    /\ UNCHANGED <<now, llmVars, ask, paid, warm>>

ClaudeReplaysExact(r, up) ==
    /\ phase[r] = "claude"
    /\ \E x \in LlmExactHits(ask[r], Home[r], up) : Replayed(r, x, "llm_exact", up)

ClaudeReplaysSimilar(r, up) ==
    /\ phase[r] = "claude"
    /\ LlmExactHits(ask[r], Home[r], up) = {}
    /\ \E x \in LlmSimilarHits(ask[r], Home[r], up) : Replayed(r, x, "llm_similar", up)

(* What is long is summarised first, the older turns and the prompt each   *)
(* in a call of its own, which no row tells of; either may fail, or fall   *)
(* back.                                                                   *)
CallBedrock(r, up) ==
    /\ phase[r] = "claude"
    /\ LlmExactHits(ask[r], Home[r], up) = {} /\ LlmSimilarHits(ask[r], Home[r], up) = {}
    /\ phase' = [phase EXCEPT ![r] = "bedrock"]
    /\ \E helpers \in 0..ask[r].long :
          paid' = [paid EXCEPT ![r] = @ + helpers]
    /\ UNCHANGED <<now, llmVars, exact, bucket, ask, served, rows, tx, warm>>

(* invoke_model returns Claude's answer, or the task's fallback.           *)
BedrockReturns(r, kind, up) ==
    /\ phase[r] = "bedrock"
    /\ LET answer == [ask |-> ask[r], kind |-> kind, at |-> now] IN
       /\ LlmStore(answer, Home[r], up)
       /\ Keep(ask[r], answer, FALSE, Home[r], up)
       /\ Finish(r, answer, "claude", up)
       /\ Ends(r, Log(r, ask[r], "claude", Cost(answer)))
       /\ paid' = [paid EXCEPT ![r] = @ + Cost(answer)]
       /\ UNCHANGED <<now, ask, warm>>

Tick ==
    /\ now < MaxTime
    /\ now' = now + 1
    /\ UNCHANGED <<llmVars, exact, bucket, phase, ask, served, rows, tx, paid, warm>>

Start(r, up) == \E a \in Wants[r] :
    \/ AnswerFree(r, a, up)
    \/ ReplayExact(r, a, up)
    \/ ReplaySimilar(r, a, up)
    \/ Miss(r, a, up)
    \/ RouteDirectly(r, a, up)

Continue(r, up) ==
    \/ HostedAccepts(r, up)
    \/ HostedLowConfidence(r)
    \/ HostedUnavailable(r)
    \/ Refused(r)
    \/ ClaudeReplaysExact(r, up)
    \/ ClaudeReplaysSimilar(r, up)
    \/ CallBedrock(r, up)
    \/ \E kind \in {"claude", "fallback"} : BedrockReturns(r, kind, up)

(* A step reaches Redis, or uses up one of the model's steps without it.   *)
Reaches(up) ==
    /\ up \/ away < MaxAway
    /\ away' = IF up THEN away ELSE away + 1

Next ==
    \/ \E r \in Requests, up \in BOOLEAN : (Start(r, up) \/ Continue(r, up)) /\ Reaches(up)
    \/ Tick /\ UNCHANGED away

Spec == Init /\ [][Next]_vars

-----------------------------------------------------------------------------
(* Properties.                                                             *)

Done(r) == phase[r] = "done"
Replays == {r \in Requests : Done(r) /\ served[r].via \in {"exact", "similar"}}

Young(r) == served[r].at < served[r].answer.at + Ttl

(* A replay of CacheEngine was produced less than its TTL ago: no replay,  *)
(* of this cache or of the router's behind it, is stored again with a new  *)
(* lifetime (_serve: "not result.cached").  Older ones are replayed only   *)
(* by likeness, in a process that kept them itself while Redis was away    *)
(* (_iter_embeddings).  A replay answers the request's own task, and       *)
(* either the very payload or one whose text is alike (make_key,           *)
(* semantic_lookup).                                                       *)
ReplaysAreFaithful == \A r \in Replays :
    LET a == served[r].answer.ask IN
    /\ \/ Young(r)
       \/ /\ served[r].via = "similar"
          /\ [answer |-> served[r].answer, place |-> Home[r]] \in bucket
    /\ a.task = ask[r].task
    /\ served[r].via = "exact" => OrchKey(a) = OrchKey(ask[r])
    /\ Alike(ask[r].text, a.text)

CostOf(r) == Cardinality({i \in DOMAIN rows[r] : rows[r][i].cost > 0})

(* Once the caller has committed, every answer an engine was paid for is   *)
(* in the usage log, the one that was rejected before an escalation too,   *)
(* also if the escalation failed and the caller coped with that.           *)
PaidCallsAreBilled == \A r \in Requests :
    tx[r] = "committed" /\ ~ask[r].direct /\ ask[r].long = 0 => CostOf(r) >= paid[r]

(* A request that begins after an equal one was answered afresh, within    *)
(* the TTL, costs nothing: whichever tier produced the first answer, by    *)
(* the same process, or by another one if Redis was there for both.        *)
IdenticalCallsAreFree == \A r \in Requests : warm[r] => paid[r] = 0 /\ CostOf(r) = 0

-----------------------------------------------------------------------------
(* What a comment says, and the code does not do: a fallback is served to  *)
(* a request only if Bedrock failed it                                     *)
(* (bedrock_client: "used when Bedrock is unreachable").                   *)
FallbackOnlyWhenUnreachable == \A r \in Requests :
    Done(r) /\ served[r].answer.kind = "fallback" => served[r].via = "claude"
=============================================================================
