-------------------------------- MODULE Usage --------------------------------
(***************************************************************************)
(* What the pages and dashboards say of the two ledgers of model calls:    *)
(* ai_usage_log, which the budget reads, and orchestrator_usage_log.       *)
(* A ledger is a sequence of rows, the oldest first; costs are in millionths*)
(* of a dollar, ages in days, shares in hundredths of a per cent.          *)
(***************************************************************************)
EXTENDS Careers

PERIOD == 30
EngineTiers == {"rule", "kg", "cache", "hosted", "claude"}

FieldSum(rows, K, field) == MapThenSumSet(LAMBDA i : rows[i][field], K)
Ratio(part, whole) == IF whole = 0 THEN 0 ELSE Round(10000 * part, whole)
TasksOf(rows, K) == {rows[i].task : i \in K}

-----------------------------------------------------------------------------
(* llm/cost_tracker.py *)

Since(rows, user, days) ==
  {i \in DOMAIN rows : user \in {None, rows[i].user} /\ rows[i].age <= days}
_sum(rows, user, days) == FieldSum(rows, Since(rows, user, days), "cost")
get_user_cost(rows, user) == _sum(rows, user, PERIOD)
get_total_cost(rows) == _sum(rows, None, PERIOD)
is_over_budget(rows, user, limit) == get_user_cost(rows, user) >= limit

(* the tracker's own counters, of one process *)
record_compression(stats, tokens, price) ==
  IF tokens <= 0 THEN stats
  ELSE [stats EXCEPT !.tokens = @ + tokens, !.saved = @ + (tokens * price) \div 1000]
record_cache_hit(stats, cost) ==
  [stats EXCEPT !.hits = @ + 1, !.saved = @ + Best({0, cost}, 0)]
optimization_stats(events) ==
  LET after[n \in 0..Len(events)] ==
        IF n = 0 THEN [tokens |-> 0, hits |-> 0, saved |-> 0]
        ELSE LET before == after[n - 1]  e == events[n]
             IN IF e.hit THEN record_cache_hit(before, e.cost) ELSE record_compression(before, e.tokens, e.cost)
  IN after[Len(events)]

-----------------------------------------------------------------------------
(* api/v1/ai_features.py: GET /ai/usage, and the tokens a chat reports *)

ai_usage(rows, user, limit) ==
  LET mine   == Since(rows, user, PERIOD)
      of(t)  == {i \in mine : rows[i].task = t}
      table  == [t \in TasksOf(rows, mine) |-> [cost |-> FieldSum(rows, of(t), "cost"), calls |-> Cardinality(of(t))]]
      total  == MapThenSumSet(LAMBDA t : table[t].cost, DOMAIN table)
  IN [total |-> total, calls |-> MapThenSumSet(LAMBDA t : table[t].calls, DOMAIN table),
      remaining |-> Best({0, limit - total}, 0), breakdown |-> table]

_latest_tokens(rows, user) ==
  LET mine == {i \in DOMAIN rows : rows[i].user = user}
  IN IF mine = {} THEN 0 ELSE rows[Max(mine)].tokens_in + rows[Max(mine)].tokens_out

-----------------------------------------------------------------------------
(* services/ai_analytics_service.py *)

_classify_model(words) == IF "haiku" \in words THEN "haiku" ELSE IF "opus" \in words THEN "opus" ELSE "sonnet"

get_system_health(rows, circuit) ==
  LET today  == {i \in DOMAIN rows : rows[i].age = 0}
      cached == {i \in today : rows[i].cached}
      failed == {i \in today \ cached : rows[i].tokens_out = 0}
      timed  == {i \in today \ cached : rows[i].latency > 0}
  IN [calls |-> Cardinality(today), hits |-> Ratio(Cardinality(cached), Cardinality(today)),
      latency |-> IF timed = {} THEN 0 ELSE FieldSum(rows, timed, "latency") \div Cardinality(timed),
      cost |-> FieldSum(rows, today, "cost"), errors |-> Ratio(Cardinality(failed), Cardinality(today)),
      models |-> [m \in {"haiku", "sonnet", "opus"} |->
                    Cardinality({i \in today : _classify_model(rows[i].model) = m})],
      circuit |-> circuit]

(* an entry without a date that can be read is not counted *)
_skills_added_30d(twin) ==
  IF twin = None THEN 0
  ELSE Cardinality({i \in DOMAIN twin.learned : twin.learned[i] # None /\ twin.learned[i] <= PERIOD})

get_user_insights(rows, user, twin, lessons) ==
  [updated |-> IF twin = None THEN None ELSE twin.updated, added |-> _skills_added_30d(twin),
   sessions |-> Cardinality({i \in DOMAIN lessons : lessons[i] <= PERIOD}),
   score |-> IF twin = None THEN 0 ELSE twin.score, streak |-> IF twin = None THEN 0 ELSE twin.streak,
   calls |-> Cardinality(Since(rows, user, PERIOD)), cost |-> get_user_cost(rows, user)]

-----------------------------------------------------------------------------
(* repositories/ai_usage_repository.py: GET /admin/ai-usage, of the         *)
(* orchestrator's ledger, since the first of the month                      *)
ByEngine(log, K) ==
  [requests |-> Cardinality(K), cost |-> FieldSum(log, K, "cost"),
   latency |-> IF K = {} THEN 0 ELSE FieldSum(log, K, "latency") \div Cardinality(K)]

(* of tasks that cost the same the earlier is listed first *)
monthly_summary(log, day) ==
  LET K       == {i \in DOMAIN log : log[i].age < day}
      tier(i) == IF log[i].tier = None THEN "unknown" ELSE log[i].tier
      table   == [t \in EngineTiers \cup {tier(i) : i \in K} |-> ByEngine(log, {i \in K : tier(i) = t})]
      cost(i) == FieldSum(log, {k \in K : log[k].task = log[i].task}, "cost")
      first   == {i \in K : \A k \in K : log[k].task = log[i].task => i <= k}
      tasks   == InOrder(first, LAMBDA i, k : cost(i) > cost(k))
  IN [requests |-> Cardinality(K), cost |-> FieldSum(log, K, "cost"), by_engine |-> table,
      claude |-> Ratio(table["claude"].requests, Cardinality(K)),
      top |-> [n \in 1..AtMost(10, Len(tasks)) |-> [task |-> log[tasks[n]].task, cost |-> cost(tasks[n])]]]

Pages(a) ==
  [refused |-> is_over_budget(a.rows, a.user, a.limit), page |-> ai_usage(a.rows, a.user, a.limit),
   insights |-> get_user_insights(a.rows, a.user, a.twin, a.lessons), all |-> get_total_cost(a.rows),
   health |-> get_system_health(a.rows, a.circuit), month |-> monthly_summary(a.log, a.day),
   saved |-> optimization_stats(a.events), tokens |-> _latest_tokens(a.rows, a.user)]
=============================================================================
