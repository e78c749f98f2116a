------------------------------ MODULE Matching ------------------------------
(***************************************************************************)
(* recommendation/ and the profile it reads: how well a job fits, what is  *)
(* missing, and the order in which jobs are shown.                         *)
(*                                                                         *)
(* A skill is a word.  A category's share is weight * matched / required;  *)
(* shares are kept exactly, in units of 1/Scale of a point, where the code *)
(* adds floats, and truncated where the code calls int().                  *)
(***************************************************************************)
EXTENDS Integers, FiniteSets, Sequences, FiniteSetsExt

CONSTANTS
  Skills,       \* every word a resume or a posting may use
  Vocabulary,   \* [embedded category -> its words], CATEGORY_SETS
  Core,         \* _EMBEDDED_CORE
  Phrases,      \* the words that contain a blank
  Seeds,        \* [seeded domain -> rows of skill_categories, heaviest first]
  Scale,        \* a common multiple of the possible numbers of required words
  None          \* SQL's NULL

Embedded == "embedded_engineering"
Clamp(lo, hi, x) == IF x < lo THEN lo ELSE IF x > hi THEN hi ELSE x

(* round(n / d): half to even *)
Round(n, d) ==
  LET q == n \div d  r == n % d
  IN IF 2 * r < d \/ (2 * r = d /\ q % 2 = 0) THEN q ELSE q + 1

(* list.sort: the indices K in the order Before, which breaks no tie of    *)
(* its own: equal keys stay in the order of their indices.                 *)
InOrder(K, Before(_, _)) ==
  LET Ahead == [i \in K |-> {k \in K : Before(k, i) \/ (~Before(i, k) /\ k < i)}]
  IN [r \in 1..Cardinality(K) |-> CHOOSE i \in K : Cardinality(Ahead[i]) = r - 1]

(* comparison of key tuples *)
Lex(a, b) ==
  \E n \in DOMAIN a : a[n] < b[n] /\ \A m \in 1..(n - 1) : a[m] = b[m]
Flag(b) == IF b THEN 1 ELSE 0

-----------------------------------------------------------------------------
(* The profile a resume turns into *)

build_profile(words, years) ==
  LET core  == Cardinality(words \cap Core)
      base  == Clamp(0, 100, (100 * core) \div Cardinality(Core))
      auto  == words \cap Vocabulary["automotive"] # {}
      score == Clamp(0, 100, base + 10 * Flag(auto) + 5 * Flag(years > 2))
  IN [all      |-> words,
      bucket   |-> [c \in DOMAIN Vocabulary |-> words \cap Vocabulary[c]],
      years    |-> years,
      embedded |-> score >= 40 \/ core >= 4,
      score    |-> score]

(* the words join all_skills; the buckets of the first parse stay *)
add_verified_skills(profile, words) ==
  [profile EXCEPT !.all = @ \cup words]

-----------------------------------------------------------------------------
(* Which weights and words a job is scored with *)

WEIGHTS == [programming |-> 20, rtos_os |-> 20, protocols |-> 20,
            hardware |-> 15, automotive |-> 15, tools |-> 5, concepts |-> 5]
WeightOrder == <<"programming", "rtos_os", "protocols", "hardware",
                 "automotive", "tools", "concepts">>
NoAlias == [w \in {} |-> w]

(* the tables of the code are finite *)
ASSUME TablesAssumption ==
  /\ Scale \in Nat \ {0}
  /\ DOMAIN WEIGHTS \subseteq DOMAIN Vocabulary
  /\ \A c \in DOMAIN Vocabulary : IsFiniteSet(Vocabulary[c])

(* the embedded configuration, with the weights of WEIGHTS or of the rows *)
BucketConfig(weight) ==
  [code |-> Embedded, bonus |-> TRUE,
   cats |-> [i \in DOMAIN WeightOrder |->
     [code |-> WeightOrder[i], weight |-> weight[WeightOrder[i]],
      vocab |-> Vocabulary[WeightOrder[i]], alias |-> NoAlias,
      universal |-> FALSE, bucketed |-> TRUE]]]

embedded_default_config == BucketConfig(WEIGHTS)

generic_config ==
  [code |-> "generic", bonus |-> FALSE,
   cats |-> <<[code |-> "skills", weight |-> 100, vocab |-> {}, alias |-> NoAlias,
               universal |-> TRUE, bucketed |-> FALSE]>>]

RowWeight(rows, c) ==
  LET of == {i \in DOMAIN rows : rows[i].code = c}
  IN IF of = {} THEN WEIGHTS[c] ELSE rows[Max(of)].weight

(* a row's aliases map to its own name; a category without skills is left  *)
(* out, and so is a domain without categories                              *)
DomainConfig(d, rows) ==
  LET used == SelectSeq(rows, LAMBDA r : r.names # {})
  IN [code |-> d, bonus |-> FALSE,
      cats |-> [i \in DOMAIN used |->
        [code |-> used[i].code, weight |-> used[i].weight, vocab |-> used[i].names,
         alias |-> used[i].alias, universal |-> FALSE, bucketed |-> FALSE]]]

load_scoring_configs ==
  LET other == {d \in DOMAIN Seeds \ {Embedded} :
                  \E i \in DOMAIN Seeds[d] : Seeds[d][i].names # {}}
  IN [d \in other \cup {Embedded} |->
        IF d \in other THEN DomainConfig(d, Seeds[d])
        ELSE IF Embedded \in DOMAIN Seeds
        THEN BucketConfig([c \in DOMAIN WEIGHTS |-> RowWeight(Seeds[Embedded], c)])
        ELSE embedded_default_config]

_config_for_job(job, scoring) ==
  LET code == IF job.domain = None THEN Embedded ELSE job.domain
  IN IF code \in DOMAIN scoring THEN scoring[code]
     ELSE IF code = Embedded THEN embedded_default_config
     ELSE generic_config

-----------------------------------------------------------------------------
(* The score *)

Canonical(cc, w) == IF w \in DOMAIN cc.alias THEN cc.alias[w] ELSE w

KeepsSynonyms(cc, job) ==                                            \* mutant
  IF cc.universal \/ DOMAIN cc.alias # {} THEN job.required
  ELSE cc.vocab \cap (job.text \cup job.required)
JobWords(cc, job) ==
  CASE cc.universal -> job.required
    [] ~cc.universal /\ DOMAIN cc.alias = {} ->
         cc.vocab \cap (job.text \cup job.required)
    [] OTHER ->
         cc.vocab \cap ({Canonical(cc, w) : w \in job.required}
                         \cup (job.text \cap Phrases)
                         \cup {cc.alias[w] : w \in DOMAIN cc.alias \cap job.text \cap Phrases})

ProfileWords(cc, profile) ==
  CASE cc.universal -> profile.all
    [] cc.bucketed  -> profile.bucket[cc.code]
    [] OTHER        -> cc.vocab \cap {Canonical(cc, w) : w \in profile.all}

ExperienceBonus(job, years) ==
  IF job.exp_min = None THEN 3
  ELSE IF years >= job.exp_min THEN 5
  ELSE IF 4 * years >= 3 * job.exp_min THEN 2
  ELSE 0

DomainBonus(config, job, profile, targets) ==
  IF config.bonus THEN 5 * Flag(job.embedded_words /\ profile.embedded)
  ELSE 5 * Flag(config.code \in targets)

(* need, met: the words of each category that the job asks for, and those  *)
(* of them in the profile                                                  *)
Total(cats, need, met, bonus) ==
  LET share(i) == IF need[i] = {} THEN 0
                  ELSE (Scale * cats[i].weight * Cardinality(met[i])) \div Cardinality(need[i])
  IN Clamp(0, 99, MapThenSumSet(share, DOMAIN cats) \div Scale + bonus)

MatchOf(cats, need, met, bonus) ==
  LET matched == UNION {met[i] : i \in DOMAIN cats}
      wanted  == UNION {need[i] : i \in DOMAIN cats}
      category(s) == cats[Max({i \in DOMAIN cats : s \in need[i]})].code
  IN [total   |-> Total(cats, need, met, bonus),
      matched |-> matched,
      missing |-> [s \in wanted \ matched |-> category(s)]]

Matched(cats, need, profile, bonus) ==
  MatchOf(cats, need, [i \in DOMAIN cats |-> need[i] \cap ProfileWords(cats[i], profile)], bonus)

compute_match(profile, job, config, targets) ==
  Matched(config.cats, [i \in DOMAIN config.cats |-> JobWords(config.cats[i], job)], profile,
          ExperienceBonus(job, profile.years) + DomainBonus(config, job, profile, targets))

(* explain.py ranks a gap by the embedded weight of its category *)
_priority(category) ==
  LET w == IF category \in DOMAIN WEIGHTS THEN WEIGHTS[category] ELSE 0
  IN IF w >= 20 THEN "HIGH" ELSE IF w >= 15 THEN "MEDIUM" ELSE "LOW"

analyze_gaps(match) ==
  [p \in {"HIGH", "MEDIUM", "LOW"} |->
     {s \in DOMAIN match.missing : _priority(match.missing[s]) = p}]

-----------------------------------------------------------------------------
(* The ranking *)

_meets_salary(job, bar) ==
  \/ job.salary_max # None /\ job.salary_max >= bar
  \/ job.salary_min # None /\ job.salary_min >= bar
  \/ job.salary_min = None /\ job.salary_max = None

_tier(score, meets) ==
  IF score >= 85 /\ meets THEN "auto_apply"
  ELSE IF score >= 70 THEN "strong"
  ELSE IF score >= 55 THEN "good"
  ELSE "partial"

RankedJob(job, match, bar) ==
  LET meets == _meets_salary(job, bar)
  IN [id |-> job.id, company |-> job.company, domain |-> job.domain,
      salary_min |-> job.salary_min, salary_max |-> job.salary_max,
      meets |-> meets, score |-> match.total, fit |-> match.total,
      tier |-> _tier(match.total, meets),
      auto |-> match.total >= 85 /\ meets,
      matched |-> match.matched, missing |-> DOMAIN match.missing,
      gap |-> analyze_gaps(match)]

SortKey(j) == <<Flag(~j.auto), Flag(~j.meets), -j.score>>

Picked(rows, order) == [r \in DOMAIN order |-> rows[order[r]]]
(* a list comprehension with a condition: the rows at K as they follow     *)
Filtered(rows, K) == Picked(rows, InOrder(K, LAMBDA i, k : FALSE))

Ranked(row, kept) ==
  [scanned |-> Len(row), qualified |-> Cardinality(kept),
   auto    |-> Cardinality({i \in kept : row[i].auto}),
   strong  |-> Cardinality({i \in kept : row[i].tier = "strong"}),
   jobs    |-> Picked(row, InOrder(kept, LAMBDA i, k : Lex(SortKey(row[i]), SortKey(row[k]))))]

FromScore(row, min_score) == Ranked(row, {i \in DOMAIN row : row[i].score >= min_score})

rank_jobs(profile, jobs, min_score, bar, scoring, targets) ==
  FromScore([i \in DOMAIN jobs |->
               RankedJob(jobs[i],
                 compute_match(profile, jobs[i], _config_for_job(jobs[i], scoring), targets), bar)],
            min_score)

(* engine.py: what the caller knows of scoring; most know nothing *)
NoContext == [scoring |-> NoAlias, targets |-> {}]
run_matching(profile, corpus, min_score, bar, known) ==
  rank_jobs(profile, corpus, min_score, bar, known.scoring, known.targets)
JobNamed(jobs, id) ==
  LET K == {i \in DOMAIN jobs : jobs[i].id = id} IN IF K = {} THEN None ELSE jobs[Min(K)]

(* the first posting of a company and title wins *)
_merge_corpus(live, seed) ==
  LET all == live \o seed
  IN Filtered(all, {i \in DOMAIN all : \A k \in 1..(i - 1) : all[k].key # all[i].key})

-----------------------------------------------------------------------------
(* What the user's feedback adds: thousandths of an affinity *)

_SIGNALS == [saved |-> 300, applied |-> 400, shortlisted |-> 700, interview |-> 800,
             offer |-> 1000, rec_positive |-> 500, dismissed |-> -400,
             rejected |-> -600, ghosted |-> -200, rec_negative |-> -500]

Signal(e) == _SIGNALS[e.type]

Affinity(events, of) ==
  IF of = {} THEN 0
  ELSE Clamp(-1000, 1000, Round(MapThenSumSet(LAMBDA i : Signal(events[i]), of), Cardinality(of)))

(* matched_skills[:6]: postings of this model match at most six words *)
Boost(events, job) ==
  LET company == Affinity(events, {i \in DOMAIN events : events[i].company = job.company})
      skill(s) == Affinity(events, {i \in DOMAIN events : s \in events[i].skills})
      n == Cardinality(job.matched)
      skills == IF n = 0 THEN 0 ELSE (2 * Scale * MapThenSumSet(skill, job.matched)) \div n
  IN Round(3 * Scale * company + skills, 1000 * Scale)

ByScore(jobs) == Picked(jobs, InOrder(DOMAIN jobs, LAMBDA i, k : jobs[i].score > jobs[k].score))
_apply_learned_boost(events, jobs) ==
  IF events = <<>> THEN jobs
  ELSE ByScore([r \in DOMAIN jobs |->
                  [jobs[r] EXCEPT !.score = Clamp(0, 99, @ + Boost(events, jobs[r]))]])
=============================================================================
