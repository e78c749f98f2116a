------------------------------- MODULE Careers -------------------------------
(***************************************************************************)
(* What the advisers compute from a profile: market salary, what-if        *)
(* simulation and learning roadmaps (ai/, roadmap/ and their services).    *)
(*                                                                         *)
(* Amounts are in units of ten rupees, so that a lakh is Lakh of them;     *)
(* what the code multiplies as floats is truncated to such a unit.         *)
(* Confidences are per cent, affinities thousandths.                       *)
(***************************************************************************)
EXTENDS Matching, TLC

CONSTANTS
  Hours,              \* [word -> hours to learn it], SKILL_HOURS
  PROGRESSION,        \* [domain with content -> its skills, basic ones first]
  HOURS,              \* [such a domain -> [word -> hours]]
  SKILL_PREMIUM_LPA,  \* <<[skill, premium]>> in the order of the table
  DOMAIN_PREMIUM_LPA, \* [industry -> amount]
  LOCATION_FACTOR,    \* [city -> per cent]
  COMPANY_FACTOR,     \* [company -> per cent]
  Lower,              \* [a spelling that is not in lower case -> the word]
  CategoryOf,         \* [word -> embedded category], _SKILL_CATEGORY
  TechStack,          \* [company with a profile -> its words]
  Alphabet            \* the words in alphabetical order

Lakh == 10000
lower(w) == IF w \in DOMAIN Lower THEN Lower[w] ELSE w
At(f, x, default) == IF x \in DOMAIN f THEN f[x] ELSE default
AtMost(n, x) == IF x < n THEN x ELSE n
Best(S, default) == IF S = {} THEN default ELSE Max(S)

-----------------------------------------------------------------------------
(* ai/salary_intelligence.py *)

base_by_experience(years) ==
  IF years < 1 THEN 6 * Lakh
  ELSE IF years < 3 THEN 6 * Lakh + (years - 1) * 3 * Lakh
  ELSE IF years < 6 THEN 12 * Lakh + ((years - 3) * 7 * Lakh) \div 2
  ELSE IF years < 10 THEN (45 * Lakh) \div 2 + (years - 6) * 3 * Lakh
  ELSE AtMost(60 * Lakh, (69 * Lakh) \div 2 + (years - 10) * 2 * Lakh)

Premiums == DOMAIN SKILL_PREMIUM_LPA
Premium(w) == MapThenSumSet(LAMBDA i : SKILL_PREMIUM_LPA[i].premium,
                            {i \in Premiums : SKILL_PREMIUM_LPA[i].skill = w})
skill_premium(names) ==
  AtMost(12 * Lakh, MapThenSumSet(Premium, {lower(w) : w \in names}))

domain_premium(domains) == Best({At(DOMAIN_PREMIUM_LPA, d, 0) : d \in domains}, 0)
location_factor(locations) == Best({At(LOCATION_FACTOR, l, 100) : l \in locations}, 100)

_percentile(current, lo, hi) ==
  IF current <= 0 \/ hi <= lo THEN 50
  ELSE Clamp(1, 99, (100 * (current - lo)) \div (hi - lo))

_salary_boosting_skills(owned) ==
  LET K == {i \in Premiums : /\ SKILL_PREMIUM_LPA[i].skill \notin {lower(w) : w \in owned}
                             /\ 2 * SKILL_PREMIUM_LPA[i].premium >= 3 * Lakh}
      order == InOrder(K, LAMBDA i, k : SKILL_PREMIUM_LPA[i].premium > SKILL_PREMIUM_LPA[k].premium)
  IN [r \in 1..AtMost(5, Len(order)) |-> SKILL_PREMIUM_LPA[order[r]]]

_for_company(company, lo, hi) ==
  LET factor == At(COMPANY_FACTOR, company, 100)
  IN [min |-> (lo * factor) \div 100, max |-> (hi * factor) \div 100]

compute(years, names, domains, locations, current, dream) ==
  LET base  == base_by_experience(years)
      extra == skill_premium(names) + domain_premium(domains)
      loc   == location_factor(locations)
      lo    == (((85 * base) \div 100 + extra) * loc) \div 100
      hi    == (((115 * base) \div 100 + extra) * loc) \div 100
  IN [min |-> lo, max |-> hi,
      underpaid    |-> current > 0 /\ 10 * current < 9 * lo,
      underpaid_by |-> IF current > 0 THEN Max({0, lo - current}) ELSE 0,
      percentile   |-> _percentile(current, lo, hi),
      companies    |-> [c \in dream |-> _for_company(c, lo, hi)],
      boosters     |-> _salary_boosting_skills(names),
      in1yr        |-> (hi * 112) \div 100,
      in3yr        |-> (hi * 145) \div 100]

(* What an agent adds to an answer when it answers in time; None: it is     *)
(* switched off, late, or raises.  The numbers stay those of the engine.    *)
compute_ai(s, ai) ==
  s @@ [tips   |-> IF ai = None THEN <<>> ELSE ai.list,
        reason |-> IF ai = None THEN "" ELSE ai.text]

(* salary_service.py: the brief is read off the same estimate *)
negotiation_brief(s) ==
  [ask |-> s.max, floor |-> s.min, percentile |-> s.percentile,
   points |-> (IF s.underpaid THEN {"underpaid"} ELSE {}) \cup {"range"}
                \cup (IF s.boosters = <<>> THEN {} ELSE {"learn"})]

-----------------------------------------------------------------------------
(* ai/simulation_engine.py *)

_category_for(skill) == At(CategoryOf, lower(skill), "concepts")

(* a skill joins the profile as it was spelled, once *)
_augment(profile, learn, years) ==
  LET known == {lower(w) : w \in profile.all}
      fresh == {learn[i] : i \in {j \in DOMAIN learn :
                  /\ lower(learn[j]) \notin known
                  /\ \A k \in 1..(j - 1) : lower(learn[k]) # lower(learn[j])}}
  IN [profile EXCEPT
        !.all    = @ \cup fresh,
        !.bucket = [c \in DOMAIN @ |-> @[c] \cup {w \in fresh : _category_for(w) = c}],
        !.years  = @ + years]

(* of postings with the same id the index holds the last, the weakest       *)
Snapshot(r, market) ==
  LET n == Len(r.jobs)
      last(id) == Max({i \in 1..n : r.jobs[i].id = id})
  IN [score     |-> [id \in {r.jobs[i].id : i \in 1..n} |-> r.jobs[last(id)].score],
      qualified |-> Cardinality({i \in 1..n : r.jobs[i].score >= 40}),
      auto      |-> r.auto,
      strong    |-> r.strong,
      avg       |-> IF n = 0 THEN 0
                    ELSE MapThenSumSet(LAMBDA i : r.jobs[i].score, 1..n) \div n,
      market    |-> market]

_snapshot(profile, jobs, domains, locations) ==
  Snapshot(run_matching(profile, jobs, 0, 0, NoContext),
           compute(profile.years, profile.all, domains, locations, 0, {}).max)

Gained(before, after) ==
  [qualified |-> after.qualified - before.qualified,
   auto      |-> after.auto - before.auto,
   strong    |-> after.strong - before.strong,
   avg       |-> after.avg - before.avg,
   market    |-> after.market - before.market,
   unlocked  |-> {id \in DOMAIN after.score : /\ after.score[id] >= 40
                                              /\ At(before.score, id, 0) < 40}]

simulate(profile, jobs, learn, years, domains, locations) ==
  Gained(_snapshot(profile, jobs, domains, locations),
         _snapshot(_augment(profile, learn, years), jobs, domains, locations))

-----------------------------------------------------------------------------
(* roadmap/planner.py and domain_content.py *)

Level(h) == IF h <= 20 THEN "beginner" ELSE IF h <= 50 THEN "intermediate" ELSE "advanced"
has_domain(domain) == domain \in DOMAIN PROGRESSION

(* known skills by their place in the progression, the others behind them *)
order_skills(domain, skills) ==
  LET chain == PROGRESSION[domain]
      place(s) == LET P == {i \in DOMAIN chain : chain[i] = s}
                  IN IF P = {} THEN Len(chain) + 1 ELSE Min(P)
      order == InOrder(DOMAIN skills, LAMBDA i, k : place(skills[i]) < place(skills[k]))
  IN [r \in DOMAIN order |-> skills[order[r]]]

hours_for(domain, skill) ==
  IF has_domain(domain) THEN At(At(HOURS, domain, NoAlias), skill, 25) ELSE At(Hours, skill, 25)

RoadOf(ordered, hours, score) ==
  [tasks |-> [i \in DOMAIN ordered |->
                [skill |-> ordered[i], hours |-> hours[i], level |-> Level(hours[i]),
                 weeks |-> Max({1, hours[i] \div 10})]],
   weeks     |-> AtMost(52, MapThenSumSet(LAMBDA i : hours[i], DOMAIN hours) \div 10),
   projected |-> AtMost(99, score + 5 * Len(ordered)),
   immediate |-> SubSeq(ordered, 1, AtMost(3, Len(ordered)))]

Timed(ordered, score, domain) ==
  RoadOf(ordered, [i \in DOMAIN ordered |-> hours_for(domain, ordered[i])], score)

generate_roadmap(skills, score, domain) ==
  Timed(IF has_domain(domain) THEN order_skills(domain, skills) ELSE skills, score, domain)

(* services/roadmap_service.py: one job's roadmap *)
sorted(words) == Filtered(Alphabet, {i \in DOMAIN Alphabet : Alphabet[i] \in words})

RoadTo(r, id) ==
  LET K == {i \in DOMAIN r : r[i].id = id}
  IN IF K = {} THEN None
     ELSE generate_roadmap(sorted(r[Min(K)].missing), r[Min(K)].score, r[Min(K)].domain)
get_roadmap_for_job(profile, jobs, id) == RoadTo(run_matching(profile, jobs, 0, 0, NoContext).jobs, id)

(* dict.fromkeys: the words of several lists, each where it comes first *)
Joins(list, more) ==
  list \o Filtered(more, {j \in DOMAIN more : /\ \A i \in DOMAIN list : list[i] # more[j]
                                            /\ \A k \in 1..(j - 1) : more[k] # more[j]})
Joined(lists, n) ==
  LET list[k \in 0..n] == IF k = 0 THEN <<>> ELSE Joins(list[k - 1], lists[k])
  IN list[n]

(* the words missing from most of the jobs applied to; applied holds what  *)
(* each application was stored with                                        *)
MostWanted(applied, words) ==
  LET count(s) == Cardinality({i \in DOMAIN applied : s \in applied[i]})
  IN Picked(words, InOrder(DOMAIN words, LAMBDA i, k : count(words[i]) > count(words[k])))
_applied_common_gaps(applied) ==
  MostWanted(applied, Joined([i \in DOMAIN applied |-> sorted(applied[i])], Len(applied)))

GeneralGaps(r, top, gaps, applied) ==
  IF Len(applied) >= 2 /\ gaps # <<>> THEN SubSeq(gaps, 1, AtMost(12, Len(gaps)))
  ELSE Joined([i \in top |-> sorted(r[i].missing)], Max(top))
RoadFrom(r, top, applied) ==
  IF r = <<>> THEN None
  ELSE generate_roadmap(GeneralGaps(r, top, _applied_common_gaps(applied), applied),
                        MapThenSumSet(LAMBDA i : r[i].score, top) \div Cardinality(top), r[1].domain)
GeneralRoad(r, applied) == RoadFrom(r, 1..AtMost(3, Len(r)), applied)
get_general_roadmap(profile, jobs, applied) ==
  GeneralRoad(run_matching(profile, jobs, 40, 0, NoContext).jobs, applied)

-----------------------------------------------------------------------------
(* ai/adaptive_roadmap.py *)

_CONFIDENT == 60

Task(skill, have, demand, affinity) ==
  LET base == At(Hours, skill, 25)
      gap  == have = 0
  IN [skill |-> skill, gap |-> gap, demand |-> demand, affinity |-> affinity,
      hours |-> IF gap THEN base ELSE Max({4, (base * (100 - have)) \div 100}),
      delta |-> (IF gap THEN 5 ELSE 3) + AtMost(3, demand - 1)]

Urgent(t) == -(10000 * t.demand + 5 * t.affinity + (IF t.gap THEN 0 ELSE 8000) - 50 * t.hours)

(* the week of each task, and the hours its week holds by then *)
NeverFull(hours, capacity) ==                                        \* mutant
  LET slot[i \in 0..Len(hours)] ==
        IF i = 0 THEN [week |-> 1, load |-> 0]
        ELSE LET s == slot[i - 1]
             IN IF s.load > capacity
                THEN [week |-> s.week + 1, load |-> hours[i]]
                ELSE [week |-> s.week, load |-> s.load + hours[i]]
  IN slot
Schedule(hours, capacity) ==
  LET slot[i \in 0..Len(hours)] ==
        IF i = 0 THEN [week |-> 1, load |-> 0]
        ELSE LET s == slot[i - 1]
             IN IF s.load + hours[i] > capacity /\ s.load > 0
                THEN [week |-> s.week + 1, load |-> hours[i]]
                ELSE [week |-> s.week, load |-> s.load + hours[i]]
  IN slot

(* the score after each week, never above 99 *)
_milestones(tasks, week, weeks, score) ==
  LET running[w \in 0..weeks] ==
        IF w = 0 THEN score
        ELSE AtMost(99, running[w - 1] + MapThenSumSet(LAMBDA i : tasks[i].delta,
                                            {i \in DOMAIN tasks : week[i].week = w}))
  IN [w \in 1..weeks |-> running[w]]

(* targets: a sequence of words without repetition *)
Scheduled(tasks, week, score) ==
  LET weeks == IF tasks = <<>> THEN 0 ELSE week[Len(tasks)].week
  IN [tasks |-> tasks, week |-> [r \in DOMAIN tasks |-> week[r].week], weeks |-> weeks,
      projected  |-> AtMost(99, score + MapThenSumSet(LAMBDA r : tasks[r].delta, DOMAIN tasks)),
      milestones |-> _milestones(tasks, week, weeks, score)]
InWeeks(tasks, score, capacity) ==
  Scheduled(tasks, Schedule([r \in DOMAIN tasks |-> tasks[r].hours], Max({1, capacity})), score)
MostUrgentFirst(new) ==
  Picked(new, InOrder(DOMAIN new, LAMBDA i, k : Lex(<<Urgent(new[i]), new[i].hours>>,
                                                    <<Urgent(new[k]), new[k].hours>>)))
Tasks(open, confidence, affinity, demand) ==
  [i \in DOMAIN open |-> Task(open[i], At(confidence, open[i], 0), At(demand, open[i], 1),
                              At(affinity, open[i], 0))]
ToLearn(confidence, targets) ==
  Filtered(targets, {i \in DOMAIN targets : At(confidence, targets[i], 0) < _CONFIDENT})
build(confidence, targets, score, affinity, demand, capacity) ==
  InWeeks(MostUrgentFirst(Tasks(ToLearn(confidence, targets), confidence, affinity, demand)), score, capacity)

(* the weeks of the agent stand beside those of the schedule *)
build_ai(road, ai) ==
  [tasks |-> road.tasks, week |-> road.week, weeks |-> road.weeks, projected |-> road.projected,
   milestones |-> road.milestones, ai_weekly_plan |-> IF ai = None THEN <<>> ELSE ai.list]

(* services/adaptive_roadmap_service.py *)
_coverage_score(confidence, targets) ==
  LET have == {i \in DOMAIN targets : At(confidence, targets[i], 0) >= _CONFIDENT}
  IN IF targets = <<>> THEN 0 ELSE Round(100 * Cardinality(have), Len(targets))

roadmap_for_targets(confidence, targets, affinity, demand, capacity, ai) ==
  build_ai(build(confidence, targets, _coverage_score(confidence, targets), affinity, demand, capacity), ai)

(* demand: how many of the dream companies want a word *)
roadmap_for_dream_companies(confidence, dream, affinity, capacity, ai) ==
  LET known  == dream \cap DOMAIN TechStack
      words  == UNION {TechStack[c] : c \in known}
      demand == [s \in words |-> Cardinality({c \in known : s \in TechStack[c]})]
  IN IF words = {} THEN None
     ELSE roadmap_for_targets(confidence, sorted(words), affinity, demand, capacity, ai)
=============================================================================
