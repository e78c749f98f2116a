---------------------------- MODULE CacheEngine ----------------------------
(***************************************************************************)
(* The orchestrator's two-tier cache, below what Orchestrator needs of it: *)
(* several worker processes, each with its in-process store, share one     *)
(* Redis that may be unreachable at any await.  set() writes both tiers    *)
(* and keeps the embedding index of a task under its cap in five separate  *)
(* round trips; run() reads.  All keys are payloads of one task.           *)
(*                                                                         *)
(* A round trip reaches Redis and is answered, or does neither.            *)
(*                                                                         *)
(* A stored entry is its expiry time, 0 when there is none: Redis deletes  *)
(* what has expired, the in-process store skips it.                        *)
(***************************************************************************)
EXTENDS Integers, Sequences, FiniteSets

CONSTANTS
    Workers,        \* processes (gunicorn workers)
    Ops,            \* calls of set() and run(); each is made once
    Keys,           \* payload keys
    Cap,            \* ORCHESTRATOR_SEMANTIC_CACHE_MAX_PER_TASK
    Ttl,            \* ttl_for(task)
    MaxTime         \* bound of the model: the clock stops here

ASSUME CapAssumption == Cap \in Nat \ {0}
ASSUME TtlAssumption == Ttl \in Nat \ {0}
ASSUME MaxTimeAssumption == MaxTime \in Nat
ASSUME OpsAssumption == IsFiniteSet(Ops)

VARIABLES
    now,            \* time.time()
    up,             \* Redis is reachable
    rExact,         \* orch:<key>
    rEmb,           \* orch:emb:<key>
    rIndex,         \* orch:emb:idx:<task>
    conn,           \* _connected and _redis of each worker
    mem,            \* _mem of each worker
    bucket,         \* _emb_mem[task] of each worker, oldest first
    op,             \* what each call is: its worker, its kind, its key
    stage,          \* where it is
    client,         \* local of set(), _store_embedding and run(): not None
    over,           \* local of _store_embedding
    excess,         \* local of _store_embedding: the popped members
    result,         \* what a run() found
    wrote,          \* history: expiry of the worker's last finished write
    cut             \* history: index updates cut short

redis == <<rExact, rEmb, rIndex>>
cache == <<now, up, redis, conn, mem, bucket, op, stage, client, over, excess, result, wrote, cut>>

Time == 0..MaxTime
Expiry == 0..MaxTime + Ttl
NoOp == <<>>
Kinds == {"set", "run"}
Steps == {"new", "client", "ping", "write", "embed", "index", "card", "pop", "delete", "read", "done"}
Results == {"none", "redis", "memory", "semantic", "stale", "miss"}

CacheTypeOK ==
    /\ now \in Time /\ up \in BOOLEAN
    /\ rExact \in [Keys -> Expiry] /\ rEmb \in [Keys -> Expiry] /\ rIndex \subseteq Keys
    /\ conn \in [Workers -> {"unknown", "pinging", "redis", "memory"}]
    /\ mem \in [Workers -> [Keys -> Expiry]]
    /\ \A w \in Workers : Len(bucket[w]) <= Cap
    /\ stage \in [Ops -> Steps]
    /\ client \in [Ops -> BOOLEAN]
    /\ over \in [Ops -> 0..Cardinality(Keys)]
    /\ excess \in [Ops -> SUBSET Keys]
    /\ result \in [Ops -> Results \X BOOLEAN]
    /\ wrote \in [Workers -> [Keys -> Expiry]]
    /\ cut \in 0..Cardinality(Ops)

CacheInit ==
    /\ now = 0 /\ up \in BOOLEAN
    /\ rExact = [k \in Keys |-> 0] /\ rEmb = [k \in Keys |-> 0] /\ rIndex = {}
    /\ conn = [w \in Workers |-> "unknown"]
    /\ mem = [w \in Workers |-> [k \in Keys |-> 0]]
    /\ bucket = [w \in Workers |-> <<>>]
    /\ op = [o \in Ops |-> NoOp]
    /\ stage = [o \in Ops |-> "new"]
    /\ client = [o \in Ops |-> FALSE]
    /\ over = [o \in Ops |-> 0]
    /\ excess = [o \in Ops |-> {}]
    /\ result = [o \in Ops |-> <<"none", FALSE>>]
    /\ wrote = [w \in Workers |-> [k \in Keys |-> 0]]
    /\ cut = 0

Goto(o, step) == stage' = [stage EXCEPT ![o] = step]
W(o) == op[o].worker
K(o) == op[o].key

-----------------------------------------------------------------------------
(* _client(): the first caller pings; _connected is set before its answer, *)
(* and never reset.                                                        *)

Call(o) ==
    /\ stage[o] = "new"
    /\ \E w \in Workers, k \in Keys, kind \in Kinds :
          op' = [op EXCEPT ![o] = [worker |-> w, key |-> k, kind |-> kind]]
    /\ Goto(o, "client")
    /\ UNCHANGED <<now, up, redis, conn, mem, bucket, client, over, excess, result, wrote, cut>>

Body(o) == IF op[o].kind = "set" THEN "write" ELSE "read"

(* A caller that meets the ping of another one gets None.                  *)
Connect(o) ==
    /\ stage[o] = "client"
    /\ IF conn[W(o)] = "unknown"
       THEN /\ conn' = [conn EXCEPT ![W(o)] = "pinging"]
            /\ Goto(o, "ping")
            /\ UNCHANGED client
       ELSE /\ client' = [client EXCEPT ![o] = conn[W(o)] = "redis"]
            /\ Goto(o, Body(o))
            /\ UNCHANGED conn
    /\ UNCHANGED <<now, up, redis, mem, bucket, op, over, excess, result, wrote, cut>>

PingAnswered(o) ==
    /\ stage[o] = "ping"
    /\ conn' = [conn EXCEPT ![W(o)] = IF up THEN "redis" ELSE "memory"]
    /\ client' = [client EXCEPT ![o] = up]
    /\ Goto(o, Body(o))
    /\ UNCHANGED <<now, up, redis, mem, bucket, op, over, excess, result, wrote, cut>>

Reaches(o) == client[o] /\ up

-----------------------------------------------------------------------------
(* set()                                                                   *)

MemOnlyWithoutRedis(o) ==                                           \* mutant
    mem' = IF Reaches(o) THEN mem ELSE [mem EXCEPT ![W(o)][K(o)] = now + Ttl]

WriteMem(o) == mem' = [mem EXCEPT ![W(o)][K(o)] = now + Ttl]

WriteExact(o) ==
    /\ stage[o] = "write"
    /\ rExact' = IF Reaches(o) THEN [rExact EXCEPT ![K(o)] = now + Ttl] ELSE rExact
    /\ WriteMem(o)
    /\ wrote' = [wrote EXCEPT ![W(o)][K(o)] = now + Ttl]
    /\ client' = [client EXCEPT ![o] = conn[W(o)] = "redis"]    \* asked again
    /\ Goto(o, "embed")
    /\ UNCHANGED <<now, up, rEmb, rIndex, conn, bucket, op, over, excess, result, cut>>


(* "keep the newest `cap` entries"                                         *)
Bucketed(b, entry) ==
    LET all == Append(b, entry)
    IN  IF Len(all) > Cap THEN SubSeq(all, Len(all) - Cap + 1, Len(all)) ELSE all

(* No client, or any of the round trips failed.                            *)
StoreInBucket(o) ==
    /\ stage[o] \in {"embed", "index", "card", "pop", "delete"}
    /\ ~Reaches(o)
    /\ bucket' = [bucket EXCEPT ![W(o)] = Bucketed(@, [key |-> K(o), expires |-> now + Ttl])]
    /\ cut' = IF stage[o] = "embed" THEN cut ELSE cut + 1
    /\ Goto(o, "done")
    /\ UNCHANGED <<now, up, redis, conn, mem, op, client, over, excess, result, wrote>>

StoreEmbedding(o) ==
    /\ stage[o] = "embed" /\ Reaches(o)
    /\ rEmb' = [rEmb EXCEPT ![K(o)] = now + Ttl]
    /\ Goto(o, "index")
    /\ UNCHANGED <<now, up, rExact, rIndex, conn, mem, bucket, op, client, over, excess, result, wrote, cut>>

AddToIndex(o) ==
    /\ stage[o] = "index" /\ Reaches(o)
    /\ rIndex' = rIndex \cup {K(o)}
    /\ Goto(o, "card")
    /\ UNCHANGED <<now, up, rExact, rEmb, conn, mem, bucket, op, client, over, excess, result, wrote, cut>>

OneTooMany == Cardinality(rIndex) - Cap - 1                         \* mutant

Over == Cardinality(rIndex) - Cap

CountIndex(o) ==
    /\ stage[o] = "card" /\ Reaches(o)
    /\ IF Over > 0
       THEN over' = [over EXCEPT ![o] = Over] /\ Goto(o, "pop")
       ELSE UNCHANGED over /\ Goto(o, "done")
    /\ UNCHANGED <<now, up, redis, conn, mem, bucket, op, client, excess, result, wrote, cut>>

(* SPOP takes that many members at random, or all there are.               *)
PopExcess(o) ==
    /\ stage[o] = "pop" /\ Reaches(o)
    /\ \E popped \in SUBSET rIndex :
          /\ \/ Cardinality(popped) = over[o]
             \/ popped = rIndex /\ Cardinality(rIndex) < over[o]
          /\ rIndex' = rIndex \ popped
          /\ excess' = [excess EXCEPT ![o] = popped]
          /\ Goto(o, IF popped = {} THEN "done" ELSE "delete")
    /\ UNCHANGED <<now, up, rExact, rEmb, conn, mem, bucket, op, client, over, result, wrote, cut>>


DropPayloads(o) == rEmb' = [k \in Keys |-> IF k \in excess[o] THEN 0 ELSE rEmb[k]]

DeleteExcess(o) ==
    /\ stage[o] = "delete" /\ Reaches(o)
    /\ DropPayloads(o)
    /\ Goto(o, "done")
    /\ UNCHANGED <<now, up, rExact, rIndex, conn, mem, bucket, op, client, over, excess, result, wrote, cut>>

-----------------------------------------------------------------------------
(* run(): the lookups only read, so one step stands for all of them.       *)

InRedis(o) == Reaches(o) /\ rExact[K(o)] > now
InMem(o) == mem[W(o)][K(o)] > now

(* smembers, then get of each; the bucket only if nothing was seen.        *)
Embedded(o) == IF Reaches(o) THEN {k \in rIndex : rEmb[k] > now} ELSE {}
BucketEntries(o) == {bucket[W(o)][i] : i \in 1..Len(bucket[W(o)])}

(* A stored text may or may not be similar: either may be found.           *)
Finds(o) ==
    IF InRedis(o) THEN {"redis"}
    ELSE IF InMem(o) THEN {"memory"}
    ELSE {"miss"} \cup
         (IF Embedded(o) # {} THEN {"semantic"}
          ELSE {IF e.expires > now THEN "semantic" ELSE "stale" : e \in BucketEntries(o)})

Read(o) ==
    /\ stage[o] = "read"
    /\ \E found \in Finds(o) :
          result' = [result EXCEPT ![o] = <<found, wrote[W(o)][K(o)] > now>>]
    /\ Goto(o, "done")
    /\ UNCHANGED <<now, up, redis, conn, mem, bucket, op, client, over, excess, wrote, cut>>

CacheTick ==
    /\ now < MaxTime
    /\ now' = now + 1
    /\ UNCHANGED <<up, redis, conn, mem, bucket, op, stage, client, over, excess, result, wrote, cut>>

Outage == up /\ up' = FALSE /\ UNCHANGED <<now, redis, conn, mem, bucket, op, stage, client, over, excess, result, wrote, cut>>
Recover == ~up /\ up' = TRUE /\ UNCHANGED <<now, redis, conn, mem, bucket, op, stage, client, over, excess, result, wrote, cut>>

Step(o) ==
    \/ Call(o) \/ Connect(o) \/ PingAnswered(o)
    \/ WriteExact(o) \/ StoreInBucket(o) \/ StoreEmbedding(o) \/ AddToIndex(o)
    \/ CountIndex(o) \/ PopExcess(o) \/ DeleteExcess(o)
    \/ Read(o)

CacheNext == (\E o \in Ops : Step(o)) \/ CacheTick \/ Outage \/ Recover

CacheSpec == CacheInit /\ [][CacheNext]_cache

-----------------------------------------------------------------------------
(* Properties.                                                             *)

(* The index outgrows its cap only by the writes that have not trimmed it  *)
(* yet and by those an outage kept from it (_store_embedding: "Bound the   *)
(* index").                                                                *)
IndexBounded ==
    Cardinality(rIndex) <= Cap + cut + Cardinality({o \in Ops : stage[o] \in {"card", "pop"}})

(* What a worker has written it finds again until it expires, whatever     *)
(* Redis does in between ("a cache outage never breaks a request").        *)
WrittenIsFound == \A o \in Ops :
    result[o][2] => result[o][1] \in {"redis", "memory"}

=============================================================================
