-------------------------------- MODULE Gate ---------------------------------
(***************************************************************************)
(* What stands between one user and a paid model call: the sliding window  *)
(* of api/v1/rate_limit.py, shared through Redis and kept in memory where  *)
(* Redis fails; ai_guard's monthly budget; the mentor's own window in the  *)
(* process; the caches of briefs and salary estimates; the cache warmer,   *)
(* which calls the model without passing the gate; and the routes outside  *)
(* /ai whose calls are billed with no gate at all.  Every await is a point *)
(* where other requests, of any worker process, go on.  A call costs one   *)
(* unit.                                                                   *)
(***************************************************************************)
EXTENDS Integers, FiniteSets, Sequences, FiniteSetsExt

CONSTANTS
  Workers,      \* the server's processes
  None,
  Window,       \* the length of a window
  TTL,          \* how long a brief is kept
  Estimates,    \* how long a salary estimate is kept
  MaxTime,      \* bound of the model: time
  MaxTurns,     \* bound of the model: how often Redis goes or comes back
  Cases         \* what is asked of the gate: [max, budget, asked] records

(* max: the calls of a window, of the route and of the mentor's limiter;   *)
(* budget: LLM_MAX_MONTHLY_COST_USD, in calls; asked: the requests, with   *)
(* their route, the worker that gets them and what they have of what it    *)
(* needs: fields that are filled in, rows that are found.                  *)
ASSUME NumbersAssumption ==
  Window \in Nat \ {0} /\ TTL \in Nat /\ Estimates \in Nat /\ None \notin Nat
ASSUME CasesAssumption ==
  \A c \in Cases : /\ c.max \in Nat \ {0} /\ c.budget \in Nat /\ IsFiniteSet(DOMAIN c.asked)
                   /\ \A p \in DOMAIN c.asked : c.asked[p].worker \in Workers

VARIABLES
  now,
  redis,        \* [up, turns, hits, expires]: the sorted set and the key's end
  link,         \* each worker's limiter: "new", "pinging", "redis", "memory"
  mem,          \* each worker's _mem, times in order
  mentor,       \* each worker's _mentor_limiter._hits, as the requests that were let through
  cache,        \* each worker's _brief_cache and _salary_cache: None or when set
  usage,        \* rows of ai_usage_log, each in a transaction of its own
  books,        \* rows of orchestrator_usage_log, committed with their request
  versions,     \* resumes that a model has rewritten, committed as well
  case, r,      \* the case, and where its requests are
  crowd,        \* the most calls that were owed at once, past the budget's check
  outside       \* rows of ai_usage_log from the routes without a guard

vars == <<now, redis, link, mem, mentor, cache, usage, books, versions, case, r, crowd, outside>>
stores == <<redis, link, mem>>
ledgers == <<usage, books, versions, outside>>
money == <<ledgers, crowd>>

(* The routes of ai_features.py: each is one call of an agent, once the    *)
(* fields it needs are there and the rows it names are found.  What is its *)
(* bucket of the rate limit, does the mentor's limiter count it, is there  *)
(* a cache?                                                                *)
Endpoint(bucket, needs) ==
  [bucket |-> bucket, needs |-> needs, capped |-> FALSE, caches |-> None, guarded |-> TRUE]
mentor_chat == [Endpoint("mentor_chat", {"message"}) EXCEPT !.capped = TRUE]
mentor_chat_stream == mentor_chat
mentor_daily_brief == [Endpoint(None, {}) EXCEPT !.caches = "brief"]
resume_score == Endpoint("resume_score", {"resume"})
resume_rewrite == Endpoint("resume_rewrite", {"job_id", "resume", "job"})
interview_questions == Endpoint(None, {"skill"})
interview_evaluate == Endpoint("interview_evaluate", {"question", "answer"})
learn_lesson == Endpoint(None, {"skill", "topic"})
learn_flashcards == Endpoint(None, {"skill"})
salary_estimate == [Endpoint(None, {}) EXCEPT !.caches = "salary"]
code_review == Endpoint("code_review", {"code", "at most 50 KB"})
code_challenge == Endpoint(None, {"skill"})

(* The routes outside /ai: each asks a model for what it enriches a        *)
(* deterministic answer with, and is billed; none has the guard or a       *)
(* limit, and every failure leaves the answer as it was.                   *)
Enriched(needs) == [Endpoint(None, needs) EXCEPT !.guarded = FALSE]
mentor_ask == Enriched({"message"})
resume_upload == Enriched({"resume"})
resume_intelligence == Enriched({"resume"})
salary_intelligence == Enriched({"twin"})
roadmap_targets == Enriched({"twin"})
roadmap_dream == Enriched({"twin", "dream companies"})
interview_prep == Enriched({"profile", "job"})

Routes ==
  [mentor_chat |-> mentor_chat, mentor_chat_stream |-> mentor_chat_stream,
   daily_brief |-> mentor_daily_brief, resume_score |-> resume_score,
   resume_rewrite |-> resume_rewrite, interview_questions |-> interview_questions,
   interview_evaluate |-> interview_evaluate, learn_lesson |-> learn_lesson,
   learn_flashcards |-> learn_flashcards, salary_estimate |-> salary_estimate,
   code_review |-> code_review, code_challenge |-> code_challenge,
   warm |-> Endpoint(None, {}), mentor_ask |-> mentor_ask, resume_upload |-> resume_upload,
   resume_intelligence |-> resume_intelligence, salary_intelligence |-> salary_intelligence,
   roadmap_targets |-> roadmap_targets, roadmap_dream |-> roadmap_dream,
   interview_prep |-> interview_prep]

(* one bucket is followed *)
ASSUME BucketAssumption ==
  \A c \in Cases : \A p, q \in DOMAIN c.asked :
    LET of(x) == Routes[c.asked[x].route].bucket
    IN /\ c.asked[p].route \in DOMAIN Routes
       /\ None \in {of(p), of(q)} \/ of(p) = of(q)

asked == case.asked
Requests == DOMAIN asked
MaxCalls == case.max
Budget == case.budget
Route(p) == Routes[asked[p].route]
W(p) == asked[p].worker
Warms(p) == asked[p].route = "warm"
Guarded(p) == Route(p).guarded
Uploads(p) == asked[p].route = "resume_upload"

Lifetime == [brief |-> TTL, salary |-> Estimates]

Init ==
  /\ now = 0
  /\ redis \in [up : BOOLEAN, turns : {0}, hits : {{}}, expires : {None}]
  /\ link = [w \in Workers |-> "new"]
  /\ mem = [w \in Workers |-> <<>>] /\ mentor = [w \in Workers |-> {}]
  /\ cache = [w \in Workers |-> [k \in DOMAIN Lifetime |-> None]]
  /\ usage = 0 /\ books = 0 /\ versions = 0 /\ crowd = 0 /\ outside = 0
  /\ case \in Cases
  /\ r = [p \in Requests |-> [at |-> "arrived", t |-> None, hit |-> FALSE, capped |-> None,
                              key |-> Route(p).caches]]

-----------------------------------------------------------------------------
(* Time, and Redis coming and going.                                       *)
Tick ==
  /\ now < MaxTime /\ now' = now + 1
  /\ UNCHANGED <<stores, mentor, cache, money, case, r>>

RedisTurns ==
  /\ redis.turns < MaxTurns
  /\ redis' = [redis EXCEPT !.up = ~@, !.turns = @ + 1]
  /\ UNCHANGED <<now, link, mem, mentor, cache, money, case, r>>

Hits == IF redis.expires # None /\ now >= redis.expires THEN {} ELSE redis.hits

-----------------------------------------------------------------------------
(* SlidingWindowLimiter.hit                                                *)

Goes(p, to) == r' = [r EXCEPT ![p].at = to]
Refused(p) == r' = [r EXCEPT ![p].at = "refused"]
T(p) == IF r[p].t = None THEN now ELSE r[p].t

Within(s, from) == SelectSeq(s, LAMBDA t : t >= from)

_hit_memory(p) ==
  LET hits == Within(mem[W(p)], T(p) - Window)
  IN /\ IF Len(hits) >= MaxCalls
        THEN mem' = [mem EXCEPT ![W(p)] = hits] /\ Refused(p)
        ELSE /\ mem' = [mem EXCEPT ![W(p)] = Append(hits, T(p))]
             /\ r' = [r EXCEPT ![p].at = "guard", ![p].t = T(p), ![p].hit = TRUE]
     /\ UNCHANGED <<redis, mentor, cache, money, case, now>>

(* the first request of a process pings; until it has its answer the       *)
(* others find no client and count in memory                               *)
Hit(p) ==
  /\ r[p].at = "arrived" /\ ~Warms(p) /\ Guarded(p)
  /\ IF Route(p).bucket = None
     THEN Goes(p, "guard") /\ UNCHANGED <<now, stores, mentor, cache, money, case>>
     ELSE CASE link[W(p)] = "new" ->
                 /\ link' = [link EXCEPT ![W(p)] = "pinging"]
                 /\ r' = [r EXCEPT ![p].at = "ping", ![p].t = now]
                 /\ UNCHANGED <<now, redis, mem, mentor, cache, money, case>>
            [] link[W(p)] = "redis" ->
                 /\ r' = [r EXCEPT ![p].at = "count", ![p].t = now]
                 /\ UNCHANGED <<now, stores, mentor, cache, money, case>>
            [] OTHER -> _hit_memory(p) /\ UNCHANGED link

_client(p) ==
  /\ r[p].at = "ping"
  /\ link' = [link EXCEPT ![W(p)] = IF redis.up THEN "redis" ELSE "memory"]
  /\ IF redis.up THEN Goes(p, "count") /\ UNCHANGED <<now, redis, mem, mentor, cache, money, case>>
     ELSE _hit_memory(p)

CountsEveryHit(p) ==                                                 \* mutant
  /\ r[p].at = "count" /\ redis.up
  /\ redis' = [redis EXCEPT !.hits = Hits, !.expires = IF Hits = {} THEN None ELSE @]
  /\ Goes(p, IF Cardinality(Hits) >= MaxCalls THEN "oldest" ELSE "add")
  /\ UNCHANGED <<now, link, mem, mentor, cache, money, case>>
Count(p) ==
  /\ r[p].at = "count" /\ redis.up
  /\ LET hits == {h \in Hits : h[1] > T(p) - Window}
     IN /\ redis' = [redis EXCEPT !.hits = hits, !.expires = IF hits = {} THEN None ELSE @]
        /\ Goes(p, IF Cardinality(hits) >= MaxCalls THEN "oldest" ELSE "add")
  /\ UNCHANGED <<now, link, mem, mentor, cache, money, case>>

Oldest(p) ==
  /\ r[p].at = "oldest" /\ redis.up
  /\ Refused(p)
  /\ UNCHANGED <<now, stores, mentor, cache, money, case>>

Add(p) ==
  /\ r[p].at = "add" /\ redis.up
  /\ redis' = [redis EXCEPT !.hits = Hits \cup {<<T(p), p>>}, !.expires = IF Hits = {} THEN None ELSE @]
  /\ r' = [r EXCEPT ![p].at = "expire", ![p].hit = TRUE]
  /\ UNCHANGED <<now, link, mem, mentor, cache, money, case>>

Expire(p) ==
  /\ r[p].at = "expire" /\ redis.up
  /\ redis' = [redis EXCEPT !.hits = Hits, !.expires = IF Hits = {} THEN None ELSE now + Window]
  /\ Goes(p, "guard")
  /\ UNCHANGED <<now, link, mem, mentor, cache, money, case>>

(* any command may fail: the hit is counted in memory, again perhaps       *)
RedisRaises(p) ==
  /\ r[p].at \in {"count", "oldest", "add", "expire"} /\ ~redis.up
  /\ _hit_memory(p) /\ UNCHANGED link

-----------------------------------------------------------------------------
(* ai_guard, the mentor's limiter, the cache and the call                  *)

(* the calls a request that passed the check may still be billed for: its  *)
(* own, and the warmer's second; by the cache they are for                 *)
Behind == {"check", "allow", "cache", "call", "track"}
Awaits(p) ==
  {k \in {r[p].key, "salary"} :
     \/ k = r[p].key /\ r[p].at \in Behind /\ Guarded(p)
     \/ k = "salary" /\ Warms(p) /\ r[p].key = "brief" /\ r[p].at \in Behind \cup {"parse"}}
Owed == UNION {{<<p, k>> : k \in Awaits(p)} : p \in Requests}
Crowds(calls) == crowd' = Max({crowd, Cardinality(Owed) + calls})

OverBudget == usage >= Budget
JustOverBudget == usage > Budget                                     \* mutant
is_over_budget == OverBudget

ai_guard(p) ==
  /\ r[p].at = "guard"
  /\ IF is_over_budget THEN Refused(p) /\ UNCHANGED crowd ELSE Goes(p, "check") /\ Crowds(1)
  /\ UNCHANGED <<now, stores, mentor, cache, ledgers, case>>

Unguarded(p) ==
  /\ r[p].at = "arrived" /\ ~Guarded(p)
  /\ Goes(p, "check")
  /\ UNCHANGED <<now, stores, mentor, cache, money, case>>

Onward(p) ==
  IF Route(p).capped THEN "allow" ELSE IF Route(p).caches # None THEN "cache" ELSE "call"
Check(p) ==
  /\ r[p].at = "check"
  /\ IF Route(p).needs \subseteq asked[p].has THEN Goes(p, Onward(p)) ELSE Refused(p)
  /\ UNCHANGED <<now, stores, mentor, cache, money, case>>

allow(p) ==
  /\ r[p].at = "allow"
  /\ LET recent == {q \in mentor[W(p)] : now - r[q].capped < Window}
     IN IF Cardinality(recent) >= MaxCalls
        THEN mentor' = [mentor EXCEPT ![W(p)] = recent] /\ Refused(p)
        ELSE /\ mentor' = [mentor EXCEPT ![W(p)] = recent \cup {p}]
             /\ r' = [r EXCEPT ![p].at = "call", ![p].capped = now]
  /\ UNCHANGED <<now, stores, cache, money, case>>

Cached(p) == LET set == cache[W(p)][r[p].key] IN set # None /\ now - set <= Lifetime[r[p].key]

(* a request ends; the warmer goes on to the estimate                       *)
Ends(p, how) ==
  IF Warms(p) /\ r[p].key = "brief"
  THEN r' = [r EXCEPT ![p].at = "cache", ![p].key = "salary"] ELSE Goes(p, how)

get(p) ==
  /\ r[p].at = "cache"
  /\ cache' = [cache EXCEPT ![W(p)][r[p].key] = IF Cached(p) THEN @ ELSE None]
  /\ IF Cached(p) THEN Ends(p, "done") ELSE Goes(p, "call")
  /\ UNCHANGED <<now, stores, mentor, money, case>>

(* The provider answers; or the answer is free, from the hosted model or a *)
(* cache behind the agent; or there is none, and the request is refused,   *)
(* or answered without what a model would have added.                      *)
Without(p) == IF Guarded(p) THEN "refused" ELSE "done"
Call(p) ==
  /\ r[p].at = "call"
  /\ Goes(p, "track") \/ Goes(p, "parse") \/ Ends(p, Without(p))
  /\ UNCHANGED <<now, stores, mentor, cache, money, case>>

(* The engine passes no session on, so that the tracker commits the row in *)
(* one of its own, whatever becomes of the request; a failure is           *)
(* swallowed.  The upload's classifier passes its session, and the row is  *)
(* committed with the resume.                                              *)
Bills(p, n) == usage' = usage + n /\ outside' = IF Guarded(p) THEN outside ELSE outside + n
Track(p) ==
  /\ r[p].at = "track"
  /\ \E n \in IF Uploads(p) THEN {0} ELSE {0, 1} : Bills(p, n)
  /\ Goes(p, IF Uploads(p) THEN "commit" ELSE "parse")
  /\ UNCHANGED <<now, stores, mentor, cache, books, versions, crowd, case>>

(* An answer that cannot be parsed raises, and the request is rolled back; *)
(* where a model only adds, the error, or the time limit, is swallowed.    *)
Parse(p) ==
  /\ r[p].at = "parse"
  /\ \/ /\ cache' = IF r[p].key = None THEN cache ELSE [cache EXCEPT ![W(p)][r[p].key] = now]
        /\ IF Warms(p) THEN Ends(p, "done") ELSE Goes(p, "commit")
     \/ cache' = cache /\ Ends(p, Without(p))
  /\ UNCHANGED <<now, stores, mentor, money, case>>

Commit(p) ==
  /\ r[p].at = "commit"
  /\ books' = (IF Uploads(p) THEN books ELSE books + 1) /\ Goes(p, "done")
  /\ Bills(p, IF Uploads(p) THEN 1 ELSE 0)
  /\ versions' = IF asked[p].route = "resume_rewrite" THEN versions + 1 ELSE versions
  /\ UNCHANGED <<now, stores, mentor, cache, crowd, case>>

(* Whether get_db commits before or after a streamed answer has run is the *)
(* framework's choice: before, the row is rolled back with the session.    *)
(* So it is when what follows the classification of an upload fails.       *)
Streamed(p) ==
  /\ r[p].at = "commit" /\ (asked[p].route = "mentor_chat_stream" \/ Uploads(p))
  /\ Goes(p, "done")
  /\ UNCHANGED <<now, stores, mentor, cache, money, case>>

-----------------------------------------------------------------------------
(* warm_user_caches, after a login: the same caches and calls, both behind  *)
(* one check, in a session that is closed without a commit                  *)
warm_user_caches(p) ==
  /\ r[p].at = "arrived" /\ Warms(p)
  /\ IF is_over_budget THEN Refused(p) /\ UNCHANGED crowd
     ELSE r' = [r EXCEPT ![p].at = "cache", ![p].key = "brief"] /\ Crowds(2)
  /\ UNCHANGED <<now, stores, mentor, cache, ledgers, case>>

Step(p) ==
  \/ Hit(p) \/ _client(p) \/ Count(p) \/ Oldest(p) \/ Add(p) \/ Expire(p) \/ RedisRaises(p)
  \/ ai_guard(p) \/ Unguarded(p) \/ Check(p) \/ allow(p) \/ get(p) \/ Call(p) \/ Track(p) \/ Parse(p) \/ Commit(p)
  \/ Streamed(p) \/ warm_user_caches(p)

Next == Tick \/ RedisTurns \/ \E p \in Requests : Step(p)
Spec == Init /\ [][Next]_vars

-----------------------------------------------------------------------------
(* Redis refuses a request only when as many others have been counted      *)
(* within the window that ends at its own clock, whatever other requests,  *)
(* with other clocks, have trimmed, added or let expire meanwhile.  What   *)
(* concurrent requests get past the shared window is made good for the     *)
(* mentor: the window of its own limiter is exact in every process.        *)
Full(p) ==
  Cardinality({q \in Requests \ {p} : r[q].hit /\ r[q].t > r[p].t - Window}) >= MaxCalls
Admitted(w, t) ==
  {p \in Requests : W(p) = w /\ r[p].capped # None /\ r[p].capped \in t..(t + Window - 1)}
LimitsHold ==
  /\ \A p \in Requests : r[p].at = "oldest" => Full(p)
  /\ \A w \in Workers : \A t \in 0..now : Cardinality(Admitted(w, t)) <= MaxCalls

(* What is billed behind the guard exceeds the budget by no more calls     *)
(* than were owed behind it at once: the sum is read before the calls and  *)
(* grows after them, two of them for a login; and what the routes without  *)
(* a guard bill on top opens it for nobody (ai_features.py:63).  No        *)
(* rewritten resume is kept without its row.                               *)
BudgetHolds ==
  /\ usage > outside \/ Owed # {} => usage - outside + Cardinality(Owed) < Budget + crowd
  /\ versions <= books
=============================================================================
