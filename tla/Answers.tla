------------------------------- MODULE Answers -------------------------------
(***************************************************************************)
(* The endpoints and engines that answer from the skill graph, the bank of *)
(* questions and a resume's text, beside those of Advice; and the brief of *)
(* the user that is assembled before a model is asked.                     *)
(***************************************************************************)
EXTENDS Advice, Grounding, Interviews, Resumes, Models, Twins, Usage

CONSTANTS
  TRACKS,       \* the lessons of the curriculum: the skills each practises
  Inferences,   \* the words a model may read in a resume, or None
  Asked         \* how many questions a model may write, or None

(* a text is its lines; the alphabet has every word, once *)
ASSUME EnrichmentAssumption ==
  /\ \A i, k \in DOMAIN Alphabet : Alphabet[i] = Alphabet[k] => i = k
  /\ \A case \in Cases : case[2].kind = "resume" => IsFiniteSet(DOMAIN case[2].text)
  /\ \A words \in Inferences \ {None} :
       /\ words \in Seq({words[i] : i \in DOMAIN words})
       /\ \A i \in DOMAIN words : lower(words[i]) \in {Alphabet[k] : k \in DOMAIN Alphabet}
  /\ Asked \subseteq Nat \cup {None}
  /\ \A s \in DOMAIN KitBank : KitBank[s] \in Seq({KitBank[s][i] : i \in DOMAIN KitBank[s]})
  /\ \A d \in DOMAIN DomainKits : DomainKits[d] \in Seq({DomainKits[d][i] : i \in DOMAIN DomainKits[d]})

answers == <<advice, grounding>>

AnswersInit ==
  /\ AdviceInit
  /\ twin_row = IF ask.kind = "ground" THEN ask.row ELSE None
  /\ ground = IF ask.kind = "ground" THEN Assembly(ask.layers, ask.rows) ELSE None

Gives(kind, answer) == Serves(kind, answer) /\ UNCHANGED grounding

(* Orchestrator tasks skill_query, learning_path and flashcard_schedule    *)
graph_query == Gives("graph", _answer(ask.task, ask.payload))
daily_brief == Gives("brief", _daily_brief(ask.payload))
flashcard_schedule ==
  \E quality \in 0..5 : Gives("flashcard", _flashcard_schedule(ask.card, quality))

(* POST /interview/mock: the session that is drawn *)
mock_interview ==
  Gives("mock", IF ask.realistic THEN [stages |-> build_realistic_session(ask.wanted, ask.weak)]
                ELSE [questions |-> build_session(ask.wanted, ask.count, ask.weak, TRUE)])
mock_evaluate == Gives("answers", evaluate_session(ask.said, ask.count))

(* GET /interview/kit/{job} and /interview/prep; asked: the model's part   *)
interview_prep ==
  \E asked \in Asked, reads \in BOOLEAN :
    LET jobs == run_matching(profile, ask.seed, 0, 0, NoContext).jobs
    IN Gives("kit",
         [asked |-> asked, static |-> get_interview_kit(jobs, ask.job, ask.subrole, None, reads),
          kit |-> get_interview_kit(jobs, ask.job, ask.subrole, asked, reads),
          prep |-> get_general_prep(profile, SelectSeq(jobs, LAMBDA j : j.score >= 40), asked)])

(* GET /learning/lessons/{id} and /learning/plan: a lesson is required if it *)
(* practises what one of the five best jobs misses, optional if the resume  *)
(* shows all that it practises                                              *)
get_lesson ==
  \E n \in DOMAIN TRACKS :
    Gives("lesson", [skills |-> TRACKS[n], practice |-> _practice_for(TRACKS[n])])

PlanFor(known, missing) ==
  [n \in DOMAIN TRACKS |->
     [gaps   |-> TRACKS[n] \cap missing,
      status |-> IF TRACKS[n] \cap missing # {} THEN "required"
                 ELSE IF TRACKS[n] # {} /\ TRACKS[n] \subseteq known THEN "optional"
                 ELSE "recommended"]]
TopGaps(jobs) == UNION {jobs[i].missing : i \in 1..AtMost(5, Len(jobs))}
personal_plan ==
  Gives("plan",
    PlanFor(profile.all,
            IF profile.all = {} THEN {}
            ELSE TopGaps(run_matching(profile, ask.seed, 40, 0, NoContext).jobs)))

(* GET /resumes/{id}/intelligence, and what an upload is profiled from     *)
resume_intelligence ==
  \E inferred \in Inferences :
    LET found == extract(ask.text)  report == analyze(ask.text, ask.sheet)
    IN Gives("resume",
         [found |-> found, enriched |-> extract_ai(found, inferred),
          report |-> report, merged |-> analyze_ai(report, inferred),
          tailored |-> _tailor_recommendation(tailor_to_job(ask.text, ask.posting)),
          experience |-> extract_experience(ask.text)])
profile_domains ==
  \E llm \in {None, "sales"} :
    LET class == classify_resume(ask.said, llm)
    IN Gives("domains",
         [class |-> class, posting |-> classify_posting(ask.said, llm),
          profiled |-> extract_all(class, ask.text, IF llm = None THEN {} ELSE {"crm"})])

(* The agents; a context that is never within its budget keeps them from    *)
(* asking.                                                                 *)
agent_call ==
  \E answered \in Replies, sensible \in BOOLEAN :
    Gives("agent", AgentCall(ask, _chat_completion(answered, ask.completion),
                             IF sensible THEN ask.completion.text ELSE <<"word">>))

(* The twin that a resume and the sessions after it have made, and a day:   *)
(* its mission, a session, the brief, and the mission after the session     *)
Practised(twin, rated) ==
  LET after[n \in 0..Len(rated)] ==
        IF n = 0 THEN twin
        ELSE LET before == after[n - 1]
             IN update_skill_confidence(before, rated[n].skill, rated[n].confidence, "learned", 0)
  IN after[Len(rated)]
Evening(twin, after, top, later, passed) ==
  [twin |-> twin, top |-> top, mission |-> get_daily_mission(twin, top), passed |-> passed,
   after |-> after, next |-> get_daily_mission(after, later),
   brief |-> coach_brief(after, after.streak, ask.today), changed |-> get_weekly_delta(after, ask.today),
   reminder |-> _daily_review_notifications(get_review_queue(ask.reviews, ask.today))]
Session(twin, after, passed, works) ==
  Evening(twin, after, _top_matched_jobs(twin, ask.seed, works),
          _top_matched_jobs(after, ask.seed, works), passed)
Day(twin, passed, works) ==
  Session(twin, track_session_complete(twin, ask.skill, passed, ask.today), passed, works)
twin_day ==
  \E passed, works \in BOOLEAN :
    Gives("twin", Day(Practised(create_from_resume(profile, 0), ask.rated), passed, works))

(* GET /ai/usage, /ai/insights, /ai/system/health and /admin/ai-usage, and  *)
(* what the guard says of the same rows                                     *)
usage_pages == Gives("usage", Pages(ask))

(* POST /ai/...: the assembled brief goes in front of the question         *)
Grounded ==
  /\ ~Assembling
  /\ \E persona \in {None, "mentor"} : Gives("ground", orchestrator_context(ground, persona))

AnswersNext ==
  \/ AdviceNext /\ UNCHANGED grounding
  \/ graph_query \/ daily_brief \/ flashcard_schedule \/ mock_interview \/ mock_evaluate
  \/ get_lesson \/ personal_plan \/ interview_prep \/ resume_intelligence \/ profile_domains
  \/ agent_call \/ twin_day \/ usage_pages
  \/ AssembleNext /\ UNCHANGED advice
  \/ Grounded
AnswersSpec == AnswersInit /\ [][AnswersNext]_answers

-----------------------------------------------------------------------------
(* The three kinds of answers from the graph agree, though a path is        *)
(* searched forward from its start and prerequisites are walked backward    *)
(* from their end.  There is a path from one skill to another exactly if    *)
(* the first is a prerequisite of the second; its skills are prerequisites  *)
(* in the order in which those are listed, each is a next step of the one   *)
(* before, and the rest of the path is the path from there.                 *)
GraphAnswersAgree ==
  Answered("graph") /\ reply.confidence # None /\ reply.intent = "learning_path" =>
    LET from == reply.subject[1]  to == reply.subject[2]  path == reply.list
        behind == get_prerequisites(to)
        next(s) == get_next_skills(s)
    IN /\ (path # <<>>) <=> (from = to \/ \E i \in DOMAIN behind : behind[i] = from)
       /\ path # <<>> => path[1] = from /\ path[Len(path)] = to
       /\ \A n \in 1..(Len(path) - 1) :
            /\ path[n + 1] # to => \E i, k \in DOMAIN behind :
                                      i < k /\ behind[i] = path[n] /\ behind[k] = path[n + 1]
            /\ \E i \in DOMAIN next(path[n]) : next(path[n])[i] = path[n + 1]
            /\ get_learning_path(path[n + 1], to) = SubSeq(path, n + 1, Len(path))

(* A mock session asks nothing twice, and focuses on weak skills: of a weak *)
(* skill that was asked for it has twice the questions of any other, unless *)
(* the bank has no more of them or the session ended within the round.      *)
WeakSkillsComeTwice ==
  Answered("mock") /\ ~ask.realistic =>
    LET q == reply.questions
        of(s) == Cardinality({i \in DOMAIN q : ALL_QUESTIONS[q[i]].skill = s})
        wants(s) == Cardinality({i \in DOMAIN ask.wanted : ask.wanted[i] = s})
    IN /\ Len(q) <= ask.count /\ \A i, k \in DOMAIN q : q[i] = q[k] => i = k
       /\ \A s \in ask.weak, t \in InBank \ ask.weak :
            wants(s) >= wants(t) /\ wants(t) > 0 =>
              of(s) >= Min({2 * of(t) - 1, Len(BY_SKILL(s))})

(* The day's mission is a skill that is not yet confident, if there is one, *)
(* and the hour is not better spent: of two skills of the resume it is not  *)
(* the one that fewer of the jobs the resume itself matches ask for, that   *)
(* pays less and that is known better.  A session passed on a known skill   *)
(* does not make it the mission.                                            *)
MissionsAim ==
  Answered("twin") =>
    LET skills  == reply.twin.skills
        jobs    == IF reply.top = <<>> THEN <<>>
                   ELSE run_matching(profile, ask.seed, 0, 15, NoContext).jobs
        wants(s) == {i \in DOMAIN jobs : skills[s].name \in jobs[i].matched}
        value(s) == <<Cardinality(wants(s)), AtMost(50, Best({Offered(jobs[i]) : i \in wants(s)}, 0)),
                      100 - skills[s].confidence>>
        beats(a, b) == a # b /\ \A n \in 1..3 : a[n] >= b[n]
        parsed  == {s \in DOMAIN skills : skills[s].category # None}
    IN /\ reply.mission.skill = None <=> \A s \in DOMAIN skills : skills[s].confidence >= 70
       /\ \A s \in parsed, t \in parsed :
            skills[s].name = reply.mission.skill /\ skills[t].confidence < 70 =>
              ~beats(value(t), value(s))
       /\ reply.passed /\ ask.skill \in NamesIn(skills) /\ reply.next.skill = ask.skill =>
            reply.mission.skill = ask.skill

(* The plan requires no lesson for a word the resume shows, as long as the  *)
(* profile is the one the resume was parsed into; and a lesson it requires  *)
(* loses that status to a resume that shows the lesson's gaps.              *)
LessonsCloseGaps ==
  Answered("plan") =>
    \A n \in DOMAIN reply :
      LET learnt == build_profile(profile.all \cup reply[n].gaps, profile.years)
          jobs == run_matching(learnt, ask.seed, 40, 0, NoContext).jobs
      IN reply[n].gaps # {} =>
           /\ profile = build_profile(profile.all, profile.years) => reply[n].gaps \cap profile.all = {}
           /\ reply[n].gaps \cap TopGaps(jobs) = {}

(* Practice goes where it is needed: in a mock session, in the mission of   *)
(* the day and in the plan of lessons.                                      *)
PracticeAimsAtTheWeak == WeakSkillsComeTwice /\ MissionsAim /\ LessonsCloseGaps

(* Enrichment only adds.  Whatever the model infers, and when it fails, the *)
(* skills found in a resume keep their confidence and are listed once, the  *)
(* report keeps its skills in front, and a kit keeps its questions in order.*)
EnrichmentOnlyAdds ==
  /\ Answered("resume") =>
       LET base == reply.found  more == reply.enriched
       IN /\ {base[i] : i \in DOMAIN base} \subseteq {more[i] : i \in DOMAIN more}
          /\ Cardinality(NamesOf(more)) = Len(more)
          /\ SubSeq(reply.merged.top, 1, Len(reply.report.top)) = reply.report.top
          /\ reply.merged.skills >= reply.report.skills
  /\ Answered("kit") /\ reply.kit # None =>
       LET all == reply.kit.kit.all  static == reply.static.kit.all
       IN SubSeq(all, Len(all) - Len(static) + 1, Len(all)) = static

(* The context an agent builds comes within its budget, and the loop that   *)
(* cuts it ends, whenever what cannot be cut leaves a token for each text.  *)
ContextFits ==
  Answered("agent") /\ reply.context # None =>
    LET payload == reply.context.payload
        fixed   == FoldSet(LAMBDA i, sum : sum + FieldCost(payload[i]), 0,
                           {i \in DOMAIN payload : payload[i].text = None})
    IN fixed + Cardinality(TextsOf(payload)) <= MAX_CONTEXT_TOKENS =>
         reply.context.ends /\ PayloadCost(payload) <= MAX_CONTEXT_TOKENS

(* The tier that accepts an answer and the agent that reads it agree on     *)
(* what it says, fences and surrounding words included: a structured answer *)
(* that is accepted says the same to both, and an object whose members have *)
(* their types is read.                                                     *)
AnswersReadAlike ==
  Answered("agent") /\ reply.sure /\ Agents[ask.agent].task \in STRUCTURED_OUTPUT_TASKS =>
    LET value == JSON(_strip_code_fence(reply.open.text))
    IN /\ parse_json(reply.open.text) = value
       /\ (reply.read # None) <=> /\ value.kind = "object"
                                 /\ \A f \in DOMAIN ask.members \cap DOMAIN Agents[ask.agent].schema :
                                      Takes(Agents[ask.agent].schema[f], ask.members[f])

(* The guard refuses a user exactly when the user's page says that nothing  *)
(* is left; the page and the insights count the same calls at the same      *)
(* cost, and a user's cost is part of everyone's; and the month's table     *)
(* leaves out no call and no cent, whatever tier or task wrote the row.     *)
LedgersReadAlike ==
  Answered("usage") =>
    LET page == reply.page  month == reply.month  engines == month.by_engine
        top == MapThenSumSet(LAMBDA n : month.top[n].cost, DOMAIN month.top)
    IN /\ reply.refused <=> page.remaining = 0
       /\ page.total = reply.insights.cost /\ page.calls = reply.insights.calls
       /\ page.total <= reply.all /\ reply.health.cost <= reply.all
       /\ month.requests = MapThenSumSet(LAMBDA t : engines[t].requests, DOMAIN engines)
       /\ month.cost = MapThenSumSet(LAMBDA t : engines[t].cost, DOMAIN engines)
       /\ Len(month.top) < 10 => top = month.cost

(* Whoever reads the same record reads the same in it.                      *)
ReadersAgree == AnswersReadAlike /\ LedgersReadAlike
=============================================================================
