-------------------------------- MODULE Twins --------------------------------
(***************************************************************************)
(* The career twin as a value (its row under concurrent requests is        *)
(* CareerTwin): what a resume makes of it, the profile it stands for, and  *)
(* what is read off it for a day: the mission, a finished session, the     *)
(* reviews that are due, the coach's brief and the changes of the week.    *)
(* Confidences are per cent, times are days.                               *)
(***************************************************************************)
EXTENDS Careers

-----------------------------------------------------------------------------
(* services/career_twin_service.py *)

_new_skill(name, category, confidence, source) ==
  [name |-> name, category |-> category, confidence |-> confidence, source |-> source]

(* a word of several categories is listed under the first of them *)
_skills_from_profile(profile) ==
  LET words == Joined([i \in DOMAIN WeightOrder |-> sorted(profile.bucket[WeightOrder[i]])],
                      Len(WeightOrder))
      first(w) == Min({i \in DOMAIN WeightOrder : w \in profile.bucket[WeightOrder[i]]})
  IN [n \in DOMAIN words |-> _new_skill(words[n], WeightOrder[first(words[n])], 60, "resume")]

_career_level(years) ==
  IF years < 2 THEN "junior" ELSE IF years < 5 THEN "mid" ELSE IF years < 9 THEN "senior"
  ELSE IF years < 13 THEN "lead" ELSE "principal"

NamesIn(skills) == {skills[i].name : i \in DOMAIN skills}

DomainScore(skills, years) ==
  Clamp(0, 100, (100 * Cardinality(NamesIn(skills) \cap Core)) \div Cardinality(Core)
                + 10 * Flag(\E i \in DOMAIN skills : skills[i].category = "automotive")
                + 5 * Flag(years > 2))
Readiness(skills) ==
  IF skills = <<>> THEN 0
  ELSE Clamp(0, 100, (70 * MapThenSumSet(LAMBDA i : skills[i].confidence, DOMAIN skills))
                       \div (100 * Len(skills)) + AtMost(30, 2 * Len(skills)))

(* the resume has a name, an address and a degree *)
_recompute_scores(twin, today) ==
  LET domain == DomainScore(twin.skills, twin.years)
  IN [twin EXCEPT
        !.domain = domain, !.readiness = Readiness(twin.skills),
        !.market = AtMost(60, 6 * twin.years) + AtMost(40, 2 * Len(twin.skills)),
        !.completeness = 40 + 20 * Flag(twin.years > 0) + 25 * Flag(Len(twin.skills) >= 5)
                         + 15 * Flag(domain >= 40),
        !.log["scores"] = today]

create_from_resume(profile, today) ==
  _recompute_scores(
    [skills |-> _skills_from_profile(profile), years |-> profile.years,
     level |-> _career_level(profile.years), weaknesses |-> <<>>,
     domain |-> 0, readiness |-> 0, market |-> 0, completeness |-> 0,
     streak |-> 0, active |-> None,
     log |-> [field \in {"skills", "identity", "experience", "scores"} |-> today]], today)

PlaceOf(skills, name) == {i \in DOMAIN skills : skills[i].name = name}

Confidences(skills, name, confidence, source) ==
  IF PlaceOf(skills, name) = {} THEN Append(skills, _new_skill(name, None, confidence, source))
  ELSE [skills EXCEPT ![Min(PlaceOf(skills, name))].confidence = confidence,
                      ![Min(PlaceOf(skills, name))].source = source]
update_skill_confidence(twin, name, confidence, source, today) ==
  _recompute_scores(
    [twin EXCEPT !.skills = Confidences(@, name, Clamp(0, 100, confidence), source),
                 !.log["skills"] = today], today)

get_weekly_delta(twin, today) == {f \in DOMAIN twin.log : twin.log[f] >= today - 7}

-----------------------------------------------------------------------------
(* services/adaptive_learning_service.py *)

_LOW_CONFIDENCE == 70
_SALARY_CAP_LPA == 50

(* nothing says that the twin is an embedded engineer's, and a skill the    *)
(* service added itself has no category                                     *)
_twin_to_profile(twin) ==
  [all |-> NamesIn(twin.skills),
   bucket |-> [c \in DOMAIN Vocabulary |-> {twin.skills[i].name :
                 i \in {n \in DOMAIN twin.skills : twin.skills[n].category = c}}],
   years |-> twin.years, embedded |-> FALSE, score |-> twin.domain]

(* run_matching may raise *)
_top_matched_jobs(twin, jobs, works) ==
  IF ~works THEN <<>>
  ELSE LET ranked == run_matching(_twin_to_profile(twin), jobs, 0, 15, NoContext).jobs
       IN SubSeq(ranked, 1, AtMost(20, Len(ranked)))

Offered(job) == IF job.salary_max \notin {None, 0} THEN job.salary_max
                ELSE IF job.salary_min # None THEN job.salary_min ELSE 0

(* what a skill is worth an hour, in units of 1 / (1000 * jobs); the        *)
(* recency of every skill that is written is 1.0                            *)
Worth(skill, top) ==
  LET wants == {i \in DOMAIN top : skill.name \in top[i].matched}
      jobs  == Max({1, Len(top)})
  IN 400 * Cardinality(wants)
     + jobs * (3 * (100 - skill.confidence)
               + 4 * AtMost(_SALARY_CAP_LPA, Best({Offered(top[i]) : i \in wants}, 0)))

Low(skills) == {i \in DOMAIN skills : skills[i].confidence < _LOW_CONFIDENCE}
WorthMost(skills, top) ==
  CHOOSE i \in Low(skills) : \A k \in Low(skills) \ {i} :
    \/ Worth(skills[i], top) > Worth(skills[k], top)
    \/ Worth(skills[i], top) = Worth(skills[k], top) /\ i < k
_select_focus_skill(skills, top) ==
  IF Low(skills) = {} THEN None ELSE skills[WorthMost(skills, top)]

_duration_for(focus) == IF focus = None THEN 20 ELSE IF focus.confidence < 40 THEN 45 ELSE 30

Mission(focus) ==
  [skill |-> IF focus = None THEN None ELSE focus.name, minutes |-> _duration_for(focus)]
get_daily_mission(twin, top) == Mission(_select_focus_skill(twin.skills, top))

_current_confidence(skills, name) ==
  IF PlaceOf(skills, name) = {} THEN 0 ELSE skills[Min(PlaceOf(skills, name))].confidence

_bump_streak(twin, today) ==
  [twin EXCEPT !.active = today,
               !.streak = IF twin.active = today THEN @
                          ELSE IF twin.active = today - 1 THEN @ + 1 ELSE 1]

track_session_complete(twin, name, passed, today) ==
  _bump_streak(update_skill_confidence(twin, name,
                 _current_confidence(twin.skills, name) + (IF passed THEN 5 ELSE -2),
                 "learning_session", today), today)

(* rows of reviews; a row that cannot be read has no date                   *)
get_review_queue(rows, today) ==
  LET due == {i \in DOMAIN rows : rows[i].due # None /\ rows[i].due <= today}
  IN Picked(rows, InOrder(due, LAMBDA i, k : rows[i].due < rows[k].due))
_daily_review_notifications(queue) == IF queue = <<>> THEN None ELSE Len(queue)

-----------------------------------------------------------------------------
(* services/daily_coach_service.py *)

Weak(skills) == {i \in DOMAIN skills : skills[i].confidence \in 1..59}
FocusOn(twin) ==
  LET weak == Picked(twin.skills, InOrder(Weak(twin.skills),
                LAMBDA i, k : twin.skills[i].confidence < twin.skills[k].confidence))
      some == IF weak = <<>> THEN twin.weaknesses ELSE [i \in DOMAIN weak |-> weak[i].name]
  IN SubSeq(some, 1, AtMost(3, Len(some)))

_motivation(readiness, streak) ==
  IF streak >= 7 THEN "streak" ELSE IF readiness >= 80 THEN "ready"
  ELSE IF readiness >= 55 THEN "close" ELSE "begin"
_interview_nudge(readiness) ==
  IF readiness >= 75 THEN "timed" ELSE IF readiness >= 45 THEN "weakest" ELSE "fundamentals"

coach_brief(twin, checkins, today) ==
  IF twin = None THEN [onboarding |-> TRUE, streak |-> checkins]
  ELSE [onboarding |-> FALSE, streak |-> checkins, focus |-> FocusOn(twin),
        nudge |-> _interview_nudge(twin.readiness),
        motivation |-> _motivation(twin.readiness, checkins),
        delta |-> Cardinality({f \in DOMAIN twin.log : twin.log[f] >= today - 7})]
=============================================================================
