------------------------------ MODULE Insights ------------------------------
(***************************************************************************)
(* What is computed for the screens from other components' answers: the    *)
(* unified matcher (ai/matching_engine.py and semantic_engine.py), the     *)
(* dashboard, the weekly report, feedback and company statistics, and the  *)
(* review of a piece of code.  Rates are thousandths, similarities per     *)
(* cent; a blend of them is truncated to thousandths.                      *)
(***************************************************************************)
EXTENDS Careers

CONSTANTS
  Similarity,   \* [{two words} -> per cent], cosine_similarity; 100 for one
  Alignment,    \* [job -> per cent], of the profile's words and its text
  Tiers         \* [company of the registry -> its tier]

(* round(n / d * scale), 0 if there is nothing to divide by *)
Rate(n, d, scale) == IF d = 0 THEN 0 ELSE Round(n * scale, d)
SumOver(S, f) == MapThenSumSet(LAMBDA i : f[i], S)

-----------------------------------------------------------------------------
(* ai/semantic_engine.py; works: embeddings could be computed *)

Similar(a, b) == IF a = b THEN 100 ELSE At(Similarity, {a, b}, 0)
_profile_skills(profile) == UNION {profile.bucket[c] : c \in DOMAIN profile.bucket}

_semantic_skill_score(owned, wanted) ==
  IF owned = {} \/ wanted = {} THEN 0
  ELSE (10 * MapThenSumSet(LAMBDA w : Max({Similar(w, o) : o \in owned}), wanted))
         \div Cardinality(wanted)

_missing_penalty(missing, wanted) ==
  IF wanted = {} THEN 0 ELSE AtMost(200, (200 * Cardinality(missing)) \div Cardinality(wanted))

_experience_multiplier(years, min) ==
  IF min = None THEN 1000
  ELSE IF years >= min THEN 1000
  ELSE IF 4 * years >= 3 * min THEN 950
  ELSE IF 2 * years >= min THEN 880
  ELSE 800

_calibrate(combined, keyword, semantic) ==
  Clamp(0, Min({990, IF keyword < 150 THEN 600 ELSE 990, IF semantic < 200 THEN 850 ELSE 990}),
        combined)

Blend(keyword, skill, align) == (55 * keyword + 25 * skill + 20 * align) \div 100

Blended(keyword, skill, align, penalty, multiplier) ==
  _calibrate((((Blend(keyword, skill, align) * (1000 - penalty)) \div 1000) * multiplier) \div 1000,
             keyword, skill)
SemanticScore(km, wanted, owned, profile, job, works) ==
  Clamp(0, 99, Round(
    Blended((1000 * km.total) \div 99,
            IF works THEN _semantic_skill_score(owned, wanted) ELSE 0,
            IF works /\ owned # {} THEN 10 * At(Alignment, job.id, 0) ELSE 0,
            _missing_penalty(DOMAIN km.missing, wanted),
            _experience_multiplier(profile.years, job.exp_min)), 10))
semantic_score(km, profile, job, works) ==
  SemanticScore(km, km.matched \cup DOMAIN km.missing, _profile_skills(profile), profile, job, works)

(* ai/matching_engine.py; words without a known confidence do not count *)
_confidence_factor(matched, confidence) ==
  LET K == matched \cap DOMAIN confidence
  IN IF K = {} THEN 1000
     ELSE 850 + (15 * Clamp(0, 100, SumOver(K, confidence) \div Cardinality(K))) \div 10

UnifiedMatch(km, job, score, total, meets) ==
  [id |-> job.id, total |-> total, keyword |-> km.total, semantic |-> score,
   meets |-> meets, tier |-> _tier(total, meets)]
Confident(km, job, score, bar, confidence) ==
  UnifiedMatch(km, job, score,
    Clamp(0, 99, Round(score * _confidence_factor(km.matched, confidence), 1000)),
    _meets_salary(job, bar))
Matches(km, profile, job, bar, confidence, works) ==
  Confident(km, job, semantic_score(km, profile, job, works), bar, confidence)
match(profile, job, bar, confidence, works) ==
  Matches(compute_match(profile, job, embedded_default_config, {}), profile, job, bar, confidence, works)

(* what the agent says replaces the explanation, unless it says nothing *)
match_ai(m, ai) ==
  m @@ [reasoning   |-> IF ai = None THEN "" ELSE ai.text,
        chance      |-> IF ai = None THEN 0 ELSE Len(ai.list),
        explanation |-> IF ai = None \/ ai.text = "" THEN "computed" ELSE ai.text]

BestUnified(all, min_score) ==
  LET key(m) == <<Flag(m.tier # "auto_apply"), Flag(~m.meets), -m.total>>
  IN Picked(all, InOrder({i \in DOMAIN all : all[i].total >= min_score},
                         LAMBDA i, k : Lex(key(all[i]), key(all[k]))))
unified_rank_jobs(profile, jobs, min_score, bar, confidence, works) ==
  BestUnified([i \in DOMAIN jobs |-> match(profile, jobs[i], bar, confidence, works)], min_score)

-----------------------------------------------------------------------------
(* services/feedback_service.py and company_intel_service.py *)

Of(events, types) == Cardinality({i \in DOMAIN events : events[i].type \in types})

get_affinities(events) ==
  [s \in UNION {events[i].skills : i \in DOMAIN events} |->
     Affinity(events, {i \in DOMAIN events : s \in events[i].skills})]

(* the five best and the five worst, without those on the wrong side of 0 *)
get_feedback_summary(events) ==
  LET aff == get_affinities(events)
      better(s) == Cardinality({t \in DOMAIN aff : aff[t] > aff[s]})
      worse(s)  == Cardinality({t \in DOMAIN aff : aff[t] < aff[s]})
  IN [preferred |-> {s \in DOMAIN aff : aff[s] > 0 /\ better(s) < 5},
      aversive  |-> {s \in DOMAIN aff : aff[s] < 0 /\ worse(s) < 5},
      by_type   |-> [t \in {events[i].type : i \in DOMAIN events} |-> Of(events, {t})]]

_success_stats(events, company) ==
  LET here    == SelectSeq(events, LAMBDA e : e.company = company)
      applied == Of(here, {"applied"})
      calls   == Of(here, {"shortlisted", "interview", "offer"})
  IN [applications |-> applied, calls |-> calls, offers |-> Of(here, {"offer"}),
      call_rate |-> Rate(calls, applied, 1000), offer_rate |-> Rate(Of(here, {"offer"}), applied, 1000)]

get_company_intel(events, name) ==
  IF name \notin DOMAIN TechStack THEN None
  ELSE [stack |-> TechStack[name], stats |-> _success_stats(events, name)]

list_companies(tier) == {c \in DOMAIN Tiers : tier = None \/ Tiers[c] = tier}

(* services/company_service.py *)
get_company_fit(name, matched, score) ==
  IF name \notin DOMAIN Tiers THEN None
  ELSE [fit |-> score, matched |-> matched,
        difficulty |-> At([tier1 |-> "Very High", tier2 |-> "High"], Tiers[name], "Medium")]

-----------------------------------------------------------------------------
(* dashboard/metrics.py: applications are [status, outcome, score] *)

compute_metrics(apps, jobs) ==
  LET having(P) == Cardinality({i \in DOMAIN apps : P[i]})
      submitted == having([i \in DOMAIN apps |-> apps[i].status \in {"submitted", "responded"}])
      outcome(o) == having([i \in DOMAIN apps |-> apps[i].outcome = o])
  IN [total      |-> Len(apps), submitted |-> submitted, pending |-> Len(apps) - submitted,
      interviews |-> outcome("interview"), offers |-> outcome("offer"),
      rejections |-> outcome("rejected"),
      conversion |-> Rate(submitted, Len(apps), 1000),
      interview_rate |-> Rate(outcome("interview"), submitted, 1000),
      offer_rate |-> Rate(outcome("offer"), outcome("interview"), 1000),
      avg_score  |-> Rate(SumOver(DOMAIN apps, [i \in DOMAIN apps |-> apps[i].score]), Len(apps), 10),
      auto_ready |-> Cardinality({i \in DOMAIN jobs : jobs[i].auto})]

(* services/profile_service.py *)
_completeness(profile, named, mailed, degree) ==
  15 * Flag(named) + 10 * Flag(mailed) + 20 * Flag(profile.years > 0)
    + 25 * Flag(Cardinality(profile.all) >= 5) + 15 * Flag(degree) + 15 * Flag(profile.embedded)

(* The domain block is read through self.db, which __init__ never sets: an *)
(* AttributeError, and whoever asks for the profile asks for the block too *)
Raises == [status |-> 500]
domain_block == Raises
get_profile_dict(profile) ==
  IF domain_block = Raises THEN Raises
  ELSE [status |-> 200, domain |-> domain_block,
        completeness |-> _completeness(profile, TRUE, TRUE, FALSE)]

(* reporting/weekly_report.py; salary may be None *)
Focus(weak, r, salary) ==
  LET some == SubSeq(weak, 1, AtMost(3, Len(weak)))
                \o (IF r.auto > 0 THEN <<"approve">> ELSE <<>>)
                \o (IF salary # None /\ salary.underpaid THEN <<"underpaid">> ELSE <<>>)
  IN IF some = <<>> THEN <<"fresh">> ELSE some

build_weekly_report(weak, changed, r, salary) ==
  [qualified |-> r.qualified, strong |-> r.strong, auto |-> r.auto,
   top |-> SubSeq(r.jobs, 1, AtMost(3, Len(r.jobs))),
   changed |-> changed, salary |-> salary, focus |-> Focus(weak, r, salary)]

(* weekly_report_service.py: the twin, its changes and the salary are read *)
(* in one attempt, which ends at its first failing read; the ranking is    *)
(* another                                                                 *)
generate(twin, salary, ranking, fails) ==
  build_weekly_report(
    IF "twin" \in fails THEN <<>> ELSE twin.weak,
    IF fails \cap {"twin", "delta"} = {} THEN twin.changed ELSE {},
    IF "ranking" \in fails THEN [qualified |-> 0, strong |-> 0, auto |-> 0, jobs |-> <<>>] ELSE ranking,
    IF fails \cap {"twin", "delta", "salary"} = {} THEN salary ELSE None)

-----------------------------------------------------------------------------
(* ai/code_intelligence.py: lines are the sets of rules they match *)

_LINE_RULES == [gets |-> 25, unsafe_str |-> 15, infinite_loop |-> 3, blocking_delay |-> 8,
                dynamic_alloc |-> 8, bool_compare |-> 3, float_usage |-> 1,
                typo_operator |-> 15, strlen_loop |-> 3, assign_in_condition |-> 15,
                magic_number |-> 3]

_score(weights) == Max({0, 100 - weights})

review(lines, isr, volatile) ==
  LET weight(rule) == IF rule = "blocking_delay" /\ isr THEN 15 ELSE _LINE_RULES[rule]
      issues == {x \in (DOMAIN lines) \X (DOMAIN _LINE_RULES) :
                   x[2] \in lines[x[1]] /\ (x[2] = "float_usage" => isr)}
      shared == IF isr /\ ~volatile THEN 15 ELSE 0
  IN [issues |-> Cardinality(issues) + Flag(shared > 0),
      score  |-> _score(shared + MapThenSumSet(LAMBDA x : weight(x[2]), issues))]

(* lab/evaluator.py: a submission holds some of a challenge's concepts and  *)
(* some of its anti-patterns                                               *)
_feedback(passed, missing, warnings, todo) ==
  IF todo THEN "unfinished"
  ELSE IF warnings # {} THEN "red flags"
  ELSE IF passed THEN "solid"
  ELSE IF missing # {} THEN "missing"
  ELSE "close"

evaluate(challenge, code) ==
  LET present  == challenge.concepts \cap code.concepts
      coverage == IF challenge.concepts = {} THEN 0
                  ELSE (100 * Cardinality(present)) \div Cardinality(challenge.concepts)
      warnings == challenge.anti_patterns \cap code.anti_patterns
      quality  == review(code.lines, code.isr, code.volatile).score
      score    == Max({0, (60 * coverage + 40 * quality) \div 100 - 8 * Cardinality(warnings)})
      passed   == coverage >= 80 /\ ~code.todo /\ warnings = {} /\ score >= 65
  IN [passed |-> passed, score |-> score, missing |-> challenge.concepts \ present,
      says |-> _feedback(passed, challenge.concepts \ present, warnings, code.todo)]
=============================================================================
