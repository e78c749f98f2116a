------------------------------- MODULE Copilot -------------------------------
(***************************************************************************)
(* The career copilot (agent/): one run finds, reasons, decides, plans,    *)
(* coaches and executes, each phase on what the earlier ones stored.  The  *)
(* same ranking serves GET /recommendations, where it is reordered by what *)
(* the user liked.  Confidences are thousandths.                           *)
(***************************************************************************)
EXTENDS Careers

CONSTANTS
  Cases,        \* pairs of what a resume was parsed into and a request
  Extra,        \* sets of curriculum-verified skills to be added to a profile
  Banked        \* words the question bank has questions on

(* a corpus is a list of postings, each of which asks for finitely many words *)
Postings(jobs) ==
  /\ jobs \in Seq({jobs[i] : i \in DOMAIN jobs})
  /\ \A i \in DOMAIN jobs : IsFiniteSet(jobs[i].required)
ASSUME CasesAssumption ==
  \A case \in Cases : Postings(case[2].seed) /\ (case[2].live = None \/ Postings(case[2].live))

VARIABLES phase, profile, ask, result, insights, decisions, plan, brief, artifacts
vars == <<phase, profile, ask, result, insights, decisions, plan, brief, artifacts>>

Jobs == result.jobs

Init ==
  /\ phase = "start"
  /\ \E case \in Cases : profile = case[1] /\ ask = case[2]
  /\ result = None /\ insights = None /\ plan = None /\ brief = None
  /\ decisions = <<>>
  /\ artifacts = [roadmap |-> None, kit |-> None]

-----------------------------------------------------------------------------
(* POST /resumes/primary/skills, before the copilot is asked *)
AddVerifiedSkills ==
  /\ phase = "start"
  /\ \E words \in Extra :
       /\ ~(words \subseteq profile.all)
       /\ profile' = add_verified_skills(profile, words)
  /\ phase' = "verified"
  /\ UNCHANGED <<ask, result, insights, decisions, plan, brief, artifacts>>

(* 0 and 1: the corpus, with live postings in front when asked for *)
Corpus == IF ask.live = None THEN ask.seed ELSE _merge_corpus(ask.live, ask.seed)

Find ==
  /\ phase \in {"start", "verified"}
  /\ ask.kind \in {"advise", "auto_apply"}
  /\ result' = run_matching(profile, Corpus, ask.min_score, ask.bar, NoContext)
  /\ phase' = "found"
  /\ UNCHANGED <<profile, ask, insights, decisions, plan, brief, artifacts>>

_bucket(job) ==
  IF job.auto THEN "apply_now" ELSE IF job.score >= 70 THEN "strong" ELSE "stretch"
_to_opportunity(job) ==
  [id |-> job.id, score |-> job.score, meets |-> job.meets, auto |-> job.auto,
   matched |-> job.matched, missing |-> job.missing, bucket |-> _bucket(job)]
find_opportunities == [i \in DOMAIN Jobs |-> _to_opportunity(Jobs[i])]
InBucket(b) == {i \in DOMAIN Jobs : find_opportunities[i].bucket = b}

(* 2: reasoner.py *)
_readiness_level(score) ==
  IF score >= 85 THEN "elite" ELSE IF score >= 70 THEN "strong"
  ELSE IF score >= 55 THEN "competitive" ELSE IF score >= 40 THEN "emerging"
  ELSE "not_ready"

GapWeight(s) ==
  LET level(i) == CHOOSE p \in {"HIGH", "MEDIUM", "LOW"} : s \in Jobs[i].gap[p]
      points(i) == [HIGH |-> 3, MEDIUM |-> 2, LOW |-> 1][level(i)]
                     + Flag(Jobs[i].score >= 70)
  IN MapThenSumSet(points, {i \in DOMAIN Jobs : Jobs[i].score >= 50 /\ s \in Jobs[i].missing})

(* most_common(8): any choice among equal weights *)
_gap_leverage ==
  LET gaps == {s \in Skills : GapWeight(s) > 0}
      heavier(s) == Cardinality({t \in gaps : GapWeight(t) > GapWeight(s)})
  IN {s \in gaps : heavier(s) < 8}

reason_about_career ==
  LET best  == IF Jobs = <<>> THEN 0 ELSE Jobs[1].score
      score == IF profile.embedded THEN Round(profile.score + best, 2) ELSE best
      paid  == {i \in DOMAIN Jobs : Jobs[i].meets /\ Jobs[i].salary_max # None}
  IN [readiness |-> score, level |-> _readiness_level(score),
      auto |-> result.auto, strong |-> result.strong,
      stretch |-> Cardinality({i \in DOMAIN Jobs : Jobs[i].score \in 55..69}),
      ceiling |-> IF paid = {} THEN None ELSE Max({Jobs[i].salary_max : i \in paid}),
      gaps |-> _gap_leverage]

Reason ==
  /\ phase = "found"
  /\ insights' = reason_about_career
  /\ phase' = "reasoned"
  /\ UNCHANGED <<profile, ask, result, decisions, plan, brief, artifacts>>

(* 3: decision_engine.py *)
_confidence(job) ==
  LET c == Round(1000 * job.score, 99) - 60 * Cardinality(job.gap["HIGH"])
             - 100 * Flag(~job.meets)
  IN IF c < 50 THEN 50 ELSE c

GapsBlockEarlier(job) ==                                             \* mutant
  IF job.gap["HIGH"] # {} /\ job.score < 75 THEN "upskill_first"
  ELSE IF job.auto THEN "apply_now" ELSE IF job.score >= 40 THEN "stretch" ELSE "skip"
Action(job) ==
  LET crit == Cardinality(job.gap["HIGH"])
  IN CASE job.auto                                -> "apply_now"
       [] ~job.auto /\ job.score >= 70            -> IF crit = 0 THEN "recommend" ELSE "interview_prep"
       [] job.score \in 55..69 /\ crit <= 2       -> IF crit = 0 THEN "recommend" ELSE "upskill_first"
       [] job.score \in 40..69 /\ ~(job.score >= 55 /\ crit <= 2) -> "stretch"
       [] OTHER                                   -> "skip"

Artifact(action) ==
  CASE action \in {"apply_now", "recommend", "interview_prep"} -> "kit"
    [] action \in {"upskill_first", "stretch"}                 -> "roadmap"
    [] OTHER                                                   -> None

decide_for_job(job) ==
  [job |-> job.id, score |-> job.score, action |-> Action(job),
   confidence |-> _confidence(job), next |-> Artifact(Action(job))]

Decide ==
  /\ phase = "reasoned"
  /\ decisions' = [i \in DOMAIN Jobs |-> decide_for_job(Jobs[i])]
  /\ phase' = "decided"
  /\ UNCHANGED <<profile, ask, result, insights, plan, brief, artifacts>>

(* 4: planner.py *)
MaxSteps == 8
Kind == [apply_now |-> "apply", recommend |-> "apply", interview_prep |-> "prep_interview",
         upskill_first |-> "upskill", stretch |-> "review_stretch"]
_KIND_ORDER == [apply |-> 0, prep_interview |-> 1, upskill |-> 2,
                review_stretch |-> 3, improve_profile |-> 4]
Urgency(s) == <<_KIND_ORDER[s.kind], -s.confidence>>

Improve == [kind |-> "improve_profile", job |-> None, confidence |-> 600]
Wanted ==
  LET steps == [i \in DOMAIN decisions |->
                  [kind |-> IF decisions[i].action = "skip" THEN None ELSE Kind[decisions[i].action],
                   job |-> decisions[i].job, confidence |-> decisions[i].confidence]]
      weak  == insights.level \in {"not_ready", "emerging"} /\ insights.auto = 0
  IN (IF weak THEN <<Improve>> ELSE <<>>) \o SelectSeq(steps, LAMBDA s : s.kind # None)

build_plan(steps) ==
  LET order == InOrder(DOMAIN steps, LAMBDA i, k : Lex(Urgency(steps[i]), Urgency(steps[k])))
  IN [r \in 1..(IF Len(order) < MaxSteps THEN Len(order) ELSE MaxSteps) |-> steps[order[r]]]

Plan ==
  /\ phase = "decided"
  /\ plan' = build_plan(Wanted)
  /\ phase' = "planned"
  /\ UNCHANGED <<profile, ask, result, insights, decisions, brief, artifacts>>

(* 5: career_coach.py *)
_best_with_action(actions) ==
  LET K == {i \in DOMAIN decisions : decisions[i].action \in actions}
      rank(i) == <<-decisions[i].confidence, -decisions[i].score, i>>
      first == CHOOSE i \in K : \A k \in K \ {i} : Lex(rank(i), rank(k))
  IN IF K = {} THEN None ELSE decisions[first].job

coach ==
  [kit |-> _best_with_action({"apply_now", "recommend", "interview_prep"}),
   roadmap |-> _best_with_action({"upskill_first", "stretch", "interview_prep"}),
   priority |-> insights.gaps]

Coach ==
  /\ phase = "planned"
  /\ brief' = coach
  /\ phase' = "coached"
  /\ UNCHANGED <<profile, ask, result, insights, decisions, plan, artifacts>>

(* 6: the artifacts *)
generate_interview_kit(job) ==
  [job |-> job.id, skills |-> job.matched \cap Banked,
   readiness |-> Min({99, job.score + 2 * Cardinality(job.matched \cap Banked)})]

_find_job(id) == JobNamed(Jobs, id)

Execute ==
  /\ phase = "coached"
  /\ LET road == _find_job(brief.roadmap)
         kit  == _find_job(brief.kit)
     IN artifacts' =
          IF ask.kind = "auto_apply" THEN [roadmap |-> None, kit |-> None]
          ELSE [roadmap |-> IF road = None THEN None
                            ELSE [job |-> road.id,
                                  plan |-> generate_roadmap(sorted(road.missing), road.score, None)],
                kit |-> IF kit = None THEN None ELSE generate_interview_kit(kit)]
  /\ phase' = "done"
  /\ UNCHANGED <<profile, ask, result, insights, decisions, plan, brief>>

(* The registry, the declared domains and the feedback are read in this     *)
(* order, each failure is passed over, and the reads after it fail too      *)
LateReads == <<"registry", "domains", "feedback">>
LostReads == {{LateReads[i] : i \in n..3} : n \in 1..4}
_scoring_context(lost) ==
  [scoring |-> IF "registry" \in lost THEN NoAlias ELSE load_scoring_configs,
   targets |-> IF "domains" \in lost THEN {} ELSE ask.targets]
Recommended(lost, min_score, bar) ==
  LET r == run_matching(profile, ask.seed, min_score, bar, _scoring_context(lost))
  IN IF "feedback" \in lost THEN r ELSE [r EXCEPT !.jobs = _apply_learned_boost(ask.events, r.jobs)]

(* GET /recommendations: scored with the registry, then reordered *)
get_recommendations ==
  /\ phase \in {"start", "verified"}
  /\ ask.kind = "recommend"
  /\ \E lost \in LostReads : result' = Recommended(lost, ask.min_score, ask.bar)
  /\ phase' = "served"
  /\ UNCHANGED <<profile, ask, insights, decisions, plan, brief, artifacts>>

Next ==
  \/ AddVerifiedSkills \/ Find \/ Reason \/ Decide \/ Plan \/ Coach \/ Execute
  \/ get_recommendations
Spec == Init /\ [][Next]_vars

-----------------------------------------------------------------------------
(* Finder, ranking, reasoner and decision engine each draw their own lines  *)
(* through the scores: they must put every job on the same side, so that    *)
(* the counts of the headline are those of the decisions listed below it.   *)
BucketFitsAction(job) ==
  /\ _bucket(job) = "apply_now" <=> Action(job) = "apply_now"
  /\ _bucket(job) = "strong" => Action(job) \in {"recommend", "interview_prep"}
  /\ job.score >= 40 <=> Action(job) # "skip"
BucketsAgreeWithDecisions ==
  decisions # <<>> =>
    /\ \A i \in DOMAIN Jobs : BucketFitsAction(Jobs[i])
                              /\ decisions[i].action = Action(Jobs[i])
    /\ insights.auto = Cardinality(InBucket("apply_now"))
    /\ insights.strong = Cardinality(InBucket("strong"))

(* Learning a missing skill closes exactly that gap of exactly the jobs it  *)
(* is missing from, and no job scores less for it: across parsing, the      *)
(* words that count in two categories, and aliases.                         *)
LearningAGapClosesIt ==
  phase = "start" =>
    \A i \in DOMAIN ask.seed :
      LET job    == ask.seed[i]
          config == _config_for_job(job, load_scoring_configs)
          before == compute_match(profile, job, config, ask.targets)
      IN \A s \in DOMAIN before.missing :
           LET after == compute_match(build_profile(profile.all \cup {s}, profile.years),
                                      job, config, ask.targets)
           IN /\ DOMAIN after.missing = DOMAIN before.missing \ {s}
              /\ after.total >= before.total

=============================================================================
