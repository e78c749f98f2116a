------------------------------- MODULE Advice --------------------------------
(***************************************************************************)
(* The advising endpoints beside the copilot: each reads the user's        *)
(* profile, twin, feedback and applications and answers from Careers and   *)
(* Insights.  An endpoint keeps nothing: its answer is all it leaves.      *)
(* Where the code enriches an answer with a model's text, the text is a    *)
(* list and a word of it.                                                  *)
(***************************************************************************)
EXTENDS Copilot, Insights

(* what a roadmap is asked with: hours and confidences are numbers, and    *)
(* the events of the types the service accepts                             *)
RoadAsked(k) ==
  /\ k.hours \in Int
  /\ \A s \in DOMAIN k.twin.confidence : k.twin.confidence[s] \in Int
  /\ k.events \in Seq({k.events[i] : i \in DOMAIN k.events})
  /\ \A i \in DOMAIN k.events : k.events[i].type \in DOMAIN _SIGNALS
  /\ k.kind = "adaptive" => k.wanted \in Seq({k.wanted[i] : i \in DOMAIN k.wanted})
ASSUME RoadsAssumption ==
  /\ \A s \in DOMAIN Hours : Hours[s] \in Nat \ {0}
  /\ Alphabet \in Seq({Alphabet[i] : i \in DOMAIN Alphabet})
  /\ IsFiniteSet(DOMAIN TechStack)
  /\ \A c \in DOMAIN TechStack : TechStack[c] \subseteq {Alphabet[i] : i \in DOMAIN Alphabet}
  /\ \A case \in Cases :
       case[2].kind \in {"adaptive", "dream"} /\ case[2].twin # None => RoadAsked(case[2])

VARIABLE reply
advice == <<vars, reply>>

AdviceInit == Init /\ reply = None

(* ask.twin: None, or the columns of the career twin                       *)
Serves(kind, answer) ==
  /\ phase \in {"start", "verified"} /\ ask.kind = kind
  /\ reply' = answer
  /\ phase' = "served"
  /\ UNCHANGED <<profile, ask, result, insights, decisions, plan, brief, artifacts>>

(* what an agent answers, in time or not at all *)
Enrichments == {None, [list |-> <<>>, text |-> ""], [list |-> <<"range", "learn">>, text |-> "demand"]}

Found(what) == IF what = None THEN [status |-> 404] ELSE [status |-> 200, body |-> what]

(* POST /simulation/what-if: the twin is optional *)
simulate_career ==
  Serves("simulate",
    simulate(profile, ask.seed, ask.learn, ask.years,
             IF ask.twin = None THEN {} ELSE ask.twin.domains,
             IF ask.twin = None THEN {} ELSE ask.twin.locations))

(* GET /salary/intelligence and /salary/negotiation-brief *)
get_intelligence(twin, ai) ==
  IF twin = None THEN None
  ELSE compute_ai(compute(twin.years, DOMAIN twin.confidence, twin.domains, twin.locations,
                          twin.salary, twin.dream), ai)
salary_negotiation ==
  \E ai \in Enrichments : Serves("salary",
    LET s == get_intelligence(ask.twin, ai)
    IN IF s = None THEN Found(None) ELSE Found([market |-> s, brief |-> negotiation_brief(s)]))

(* GET /roadmap/job/{id}, GET /roadmap/ *)
job_roadmap == Serves("job_roadmap", Found(get_roadmap_for_job(profile, ask.seed, ask.job)))
general_roadmap == Serves("general_roadmap", get_general_roadmap(profile, ask.seed, ask.applied))

(* POST /roadmap/adaptive, GET /roadmap/adaptive/dream: 404 without a twin, *)
(* 409 when nothing is known of the dream companies                         *)
AdaptiveAnswer(road) ==
  IF ask.twin = None THEN Found(None) ELSE IF road = None THEN [status |-> 409] ELSE Found(road)
adaptive_targets ==
  \E ai \in Enrichments : Serves("adaptive",
    AdaptiveAnswer(roadmap_for_targets(ask.twin.confidence, ask.wanted,
                                       get_affinities(ask.events), NoAlias, ask.hours, ai)))
adaptive_dream ==
  \E ai \in Enrichments : Serves("dream",
    AdaptiveAnswer(roadmap_for_dream_companies(ask.twin.confidence, ask.twin.dream,
                                               get_affinities(ask.events), ask.hours, ai)))

(* GET /profile/, and GET /dashboard/, which begins with the same profile *)
get_profile == Serves("profile", get_profile_dict(profile))
get_dashboard ==
  \E lost \in LostReads :
    Serves("dashboard",
      LET ranked == Recommended(lost, 40, 15)
      IN IF get_profile_dict(profile) = Raises THEN Raises
         ELSE [status |-> 200, profile |-> get_profile_dict(profile),
               metrics |-> compute_metrics(ask.apps, ranked.jobs), summary |-> ranked])

(* GET /report/weekly, of the same recommendations; it reads no text *)
weekly_report ==
  \E fails \in SUBSET {"delta", "salary", "ranking"}, lost \in LostReads :
    Serves("weekly",
      generate(ask.twin, get_intelligence(ask.twin, None), Recommended(lost, 40, 15),
               fails \cup (IF ask.twin = None THEN {"twin"} ELSE {})))

(* GET /recommendations/{id}/gaps *)
get_job_gaps ==
  \E lost \in LostReads :
    Serves("gaps",
      LET job == JobNamed(run_matching(profile, ask.seed, 0, 0, _scoring_context(lost)).jobs, ask.job)
      IN IF job = None THEN Found(None)
         ELSE Found([score |-> job.fit, gap |-> job.gap, matched |-> job.matched]))

(* GET /search/jobs: a page of the recommendations that pass the filters *)
SearchKey(job, by) ==
  CASE by = "salary"  -> IF job.salary_max = None THEN 0 ELSE -job.salary_max
    [] by = "company" -> CHOOSE n \in DOMAIN Alphabet : Alphabet[n] = job.company
    [] OTHER          -> 0
ResultPage(jobs, by, page, size) ==
  LET order == InOrder(DOMAIN jobs, LAMBDA i, k : SearchKey(jobs[i], by) < SearchKey(jobs[k], by))
      start == (page - 1) * size
  IN [total |-> Len(jobs), next |-> start + size < Len(jobs),
      jobs  |-> SubSeq(Picked(jobs, order), start + 1, AtMost(start + size, Len(jobs)))]
search_jobs ==
  \E lost \in LostReads, by \in {"score", "salary", "company"}, page \in 1..3 :
    Serves("search",
      ResultPage(SelectSeq(Recommended(lost, ask.min_score, ask.bar).jobs,
                           LAMBDA j : ask.company \in {None, j.company}), by, page, ask.size))


(* GET /feedback/summary, /company/profile, /company/fit *)
feedback_summary == Serves("feedback", get_feedback_summary(ask.events))
company_profile ==
  \E name \in {"bosch", "qualcomm", "unheard of"} :
    Serves("company",
      [intel |-> Found(get_company_intel(ask.events, name)), peers |-> list_companies(At(Tiers, name, None)),
       fit   |-> get_company_fit(name, profile.all, profile.score)])

(* POST /code/review and /lab/challenges/{id}/submit *)
review_code == Serves("code", review(ask.code.lines, ask.code.isr, ask.code.volatile))
submit_solution == Serves("lab", evaluate(ask.challenge, ask.code))

(* ai/matching_engine.py, with and without embeddings: the ranking, and each *)
(* job's match as an agent enriches it                                      *)
unified_matching ==
  \E works \in BOOLEAN, ai \in Enrichments :
    Serves("unified",
      LET sure == IF ask.twin = None THEN NoAlias ELSE ask.twin.confidence
      IN [ranked   |-> unified_rank_jobs(profile, ask.seed, 0, ask.bar, sure, works),
          enriched |-> [i \in DOMAIN ask.seed |->
                          match_ai(match(profile, ask.seed[i], ask.bar, sure, works), ai)]])

AdviceNext ==
  \/ Next /\ UNCHANGED reply
  \/ simulate_career \/ salary_negotiation \/ job_roadmap \/ general_roadmap
  \/ adaptive_targets \/ adaptive_dream \/ get_profile \/ get_dashboard \/ weekly_report
  \/ get_job_gaps \/ search_jobs
  \/ feedback_summary \/ company_profile \/ review_code \/ submit_solution
  \/ unified_matching
AdviceSpec == AdviceInit /\ [][AdviceNext]_advice

-----------------------------------------------------------------------------
Answered(kind) == phase = "served" /\ ask.kind = kind
ForecastNeverFalls ==
  Answered("simulate") /\ ask.years >= 0 =>
    /\ reply.qualified >= 0 /\ reply.auto >= 0 /\ reply.auto + reply.strong >= 0
    /\ reply.avg >= 0 /\ reply.market >= 0
    /\ Cardinality(reply.unlocked) = reply.qualified

(* Learning never hurts.  A missing skill that is learned closes exactly    *)
(* its gaps and lowers no job's score, across parsing, the words that count *)
(* in two categories and aliases; and what-if forecasts no number lower for *)
(* learning or experience: jobs that qualify, jobs ready to apply to (with  *)
(* the strong ones, which they may leave for it), the average, the market   *)
(* value; and it lists as many jobs as unlocked as it counts.               *)
LearningNeverHurts == LearningAGapClosesIt /\ ForecastNeverFalls

(* An adaptive roadmap teaches exactly the wanted words not yet confident,  *)
(* never loads a week beyond its hours (one at the least) unless with a     *)
(* single task, leaves no week empty and no task early that fits the week   *)
(* before, and promises at the end of the last week what it promises in     *)
(* total.                                                                   *)
RoadmapFitsTheWeeks ==
  (Answered("adaptive") \/ Answered("dream")) /\ reply.status = 200 =>
    LET r == reply.body
        in(w) == {i \in DOMAIN r.tasks : r.week[i] = w}
        load(w) == MapThenSumSet(LAMBDA i : r.tasks[i].hours, in(w))
        hours == Max({1, ask.hours})
    IN /\ {r.tasks[i].skill : i \in DOMAIN r.tasks} =
            {s \in IF ask.kind = "dream" THEN UNION {At(TechStack, c, {}) : c \in ask.twin.dream}
                   ELSE {ask.wanted[i] : i \in DOMAIN ask.wanted} :
               At(ask.twin.confidence, s, 0) < _CONFIDENT}
       /\ \A w \in 1..r.weeks :
            /\ in(w) # {}
            /\ load(w) <= hours \/ Cardinality(in(w)) = 1
            /\ w > 1 => load(w - 1) + r.tasks[Min(in(w))].hours > hours
       /\ r.weeks > 0 => r.milestones[r.weeks] = r.projected

=============================================================================
