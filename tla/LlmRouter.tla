----------------------------- MODULE LlmRouter -----------------------------
(***************************************************************************)
(* AIRouter.route and its SemanticCache: a Redis store that every worker   *)
(* process shares, and a store in each process.  The module gives the      *)
(* cache's state and what one route call does to it; Orchestrator composes *)
(* them with the engines in front.                                         *)
(*                                                                         *)
(* An ask is what a caller hands in, an answer remembers the ask it was    *)
(* produced for, so a property can compare it with the ask it is served    *)
(* to.  Time is a clock of MaxTime ticks.                                  *)
(***************************************************************************)
EXTENDS Integers, FiniteSets

CONSTANTS
    Workers,        \* processes (gunicorn workers)
    Asks,           \* what callers ask: records with AskFields
    TypeOf,         \* task name -> TaskType (claude_engine._TASK_TYPE_ALIASES)
    SemanticTypes,  \* _SEMANTIC_CACHE_TASKS
    LlmTtl,         \* TaskType -> ttl_for(task); 0 means no exact caching
    Near,           \* pairs of texts whose embeddings clear the threshold
    MaxTime         \* bound of the model: the clock stops here

None == "none"      \* no system prompt, no history

(* task: its name; text: payload["prompt"]; system: the system prompt or   *)
(* None; grounded: the system came in the context and not in the payload;  *)
(* history: the last entry of payload["messages"], or None; long: how much *)
(* of it is summarised before it is sent (the older turns, the prompt);    *)
(* direct: the caller uses AIRouter itself.                                *)
AskFields == {"task", "text", "system", "grounded", "history", "long", "direct"}

ASSUME AsksAssumption ==
    \A a \in Asks : /\ DOMAIN a = AskFields
                    /\ a.task \in DOMAIN TypeOf
                    /\ a.grounded \in BOOLEAN /\ a.long \in 0..2 /\ a.direct \in BOOLEAN
ASSUME TtlAssumption == \A a \in Asks : LlmTtl[TypeOf[a.task]] \in Nat
ASSUME MaxTimeAssumption == MaxTime \in Nat

Redis == "redis"    \* the place of what every process can read
ASSUME WorkersAssumption == Redis \notin Workers

VARIABLES
    now,            \* time.time()
    llmExact,       \* llm:<key> and _mem: answers, their expiry and place
    llmSimilar      \* llm:emb:<key> and _emb_mem: answers and their place;
                    \* they never expire.  Both hold one per key and place

llmVars == <<llmExact, llmSimilar>>

Time == 0..MaxTime
Places == Workers \cup {Redis}
Kinds == {"computed", "hosted", "claude", "fallback"}
Answers == [ask : Asks, kind : Kinds, at : Time]

(* _messages_for: a non-empty history is sent as it stands.                *)
LastMessage(a) == IF a.history = None THEN a.text ELSE a.history
TaskType(a) == TypeOf[a.task]
LlmKey(a) == <<TaskType(a), a.system, LastMessage(a)>>

(* A step reaches Redis throughout (up) or not at all; what a process w    *)
(* writes always enters its own store too.                                 *)
Stores(w, up) == {w} \cup (IF up THEN {Redis} ELSE {})

LlmEntry(answer, place) ==
    [answer |-> answer, expires |-> now + LlmTtl[TaskType(answer.ask)], place |-> place]

(* What Redis has comes first, then what the process itself has.           *)
Found(entries, w, up) ==
    LET shared == {e \in entries : up /\ e.place = Redis}
    IN  {e.answer : e \in IF shared # {} THEN shared ELSE {x \in entries : x.place = w}}

Alike(text, other) == text = other \/ <<text, other>> \in Near

(* The closest of the answers: an equal text beats a merely similar one.   *)
(* textOf gives the text an ask was embedded by.                           *)
Closest(answers, textOf, text) ==
    LET equal == {x \in answers : textOf[x.ask] = text}
    IN  IF equal # {} THEN equal ELSE {x \in answers : Alike(text, textOf[x.ask])}

LlmExactHits(a, w, up) ==
    Found({e \in llmExact : LlmKey(e.answer.ask) = LlmKey(a) /\ e.expires > now}, w, up)

LlmCacheable(a) == LlmTtl[TaskType(a)] # 0
LlmSemantic(a) == TaskType(a) \in SemanticTypes

(* find_similar scans every stored embedding, whatever its key: those of   *)
(* Redis, and the process's own of other keys.                             *)
Scanned(w, up) ==
    LET shared == {x.answer : x \in {y \in llmSimilar : up /\ y.place = Redis}}
    IN  shared \cup {x.answer : x \in {y \in llmSimilar :
            y.place = w /\ \A z \in shared : LlmKey(z.ask) # LlmKey(y.answer.ask)}}

LlmSimilarHits(a, w, up) ==
    IF LlmSemantic(a)
    THEN Closest(Scanned(w, up), [b \in Asks |-> LastMessage(b)], LastMessage(a))
    ELSE {}

LlmInit == now = 0 /\ llmExact = {} /\ llmSimilar = {}

(* What is left of a store when an answer of a's key enters some places.   *)
Others(entries, a, places) ==
    {e \in entries : LlmKey(e.answer.ask) # LlmKey(a) \/ e.place \notin places}

store_with_embedding(answer, places) ==
    Others(llmSimilar, answer.ask, places) \cup {[answer |-> answer, place |-> p] : p \in places}

(* The writes of one route call that reached Bedrock; a fallback answer is *)
(* an answer like any other here.                                          *)
LlmStore(answer, w, up) ==
    LET a == answer.ask
        places == Stores(w, up)
    IN
    /\ llmExact' = IF LlmCacheable(a)
                   THEN Others(llmExact, a, places) \cup {LlmEntry(answer, p) : p \in places}
                   ELSE llmExact
    /\ llmSimilar' = IF LlmSemantic(a) THEN store_with_embedding(answer, places) ELSE llmSimilar

LlmTypeOK ==
    /\ now \in Time
    /\ \A e \in llmExact : e.answer \in Answers /\ e.expires \in Nat /\ e.place \in Places
    /\ \A x \in llmSimilar : x.answer \in Answers /\ x.place \in Places
=============================================================================
