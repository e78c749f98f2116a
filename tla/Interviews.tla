----------------------------- MODULE Interviews -----------------------------
(***************************************************************************)
(* interview/ and ai/interview_engine.py: the bank of questions, the mock  *)
(* sessions drawn from it, the score of an answer, and the kit prepared    *)
(* for a job.  A text is the set of its keywords.                          *)
(***************************************************************************)
EXTENDS Careers

CONSTANTS
  Sources,      \* <<[text, skill, category, type, difficulty, expected]>>, in order
  KitBank,      \* [skill -> its questions], question_bank.QUESTIONS
  CODING_TOPICS,\* [skill -> its topics]
  DomainKits,   \* [domain with a kit of its own -> <<the category of each question>>]
  Curated       \* [subrole -> the questions of interview_questions]

(* question_bank_extended.py: a text is taken once, where it is first      *)
_build ==
  LET first == {i \in DOMAIN Sources : \A k \in 1..(i - 1) : Sources[k].text # Sources[i].text}
  IN Picked(Sources, InOrder(first, LAMBDA i, k : FALSE))
ALL_QUESTIONS == _build
BY_SKILL(s) == InOrder({i \in DOMAIN ALL_QUESTIONS : ALL_QUESTIONS[i].skill = s}, LAMBDA i, k : FALSE)
InBank == {ALL_QUESTIONS[i].skill : i \in DOMAIN ALL_QUESTIONS}

-----------------------------------------------------------------------------
(* A balanced session.  In every round each wanted skill gives its next    *)
(* question, a weak one its next two, the weak skills first.               *)

AtPlace(s) == CHOOSE n \in DOMAIN Alphabet : Alphabet[n] = s
WeakFirst(wanted, weak) ==
  Picked(wanted, InOrder(DOMAIN wanted, LAMBDA i, k :
    Lex(<<Flag(wanted[i] \notin weak), AtPlace(wanted[i])>>,
        <<Flag(wanted[k] \notin weak), AtPlace(wanted[k])>>)))

(* in which round, and where in it, the j-th question of a skill is drawn  *)
NoFocus(ordered, s, j, weak) ==                                      \* mutant
  LET at == InOrder({i \in DOMAIN ordered : ordered[i] = s}, LAMBDA i, k : FALSE)
  IN <<(j - 1) \div Len(at), at[((j - 1) % Len(at)) + 1], j>>
Drawn(ordered, s, j, weak) ==
  LET take  == IF s \in weak THEN 2 ELSE 1
      visit == (j - 1) \div take
      at    == InOrder({i \in DOMAIN ordered : ordered[i] = s}, LAMBDA i, k : FALSE)
  IN <<visit \div Len(at), at[(visit % Len(at)) + 1], j>>

RoundRobin(turn, count) ==
  LET order == InOrder(DOMAIN turn, LAMBDA i, k : Lex(turn[i], turn[k]))
  IN SubSeq(order, 1, AtMost(count, Len(order)))
PlaceInPool(q) == Cardinality({i \in 1..q : ALL_QUESTIONS[i].skill = ALL_QUESTIONS[q].skill})
Turns(ordered, weak) ==
  [q \in {i \in DOMAIN ALL_QUESTIONS : \E n \in DOMAIN ordered : ordered[n] = ALL_QUESTIONS[i].skill} |->
     Drawn(ordered, ALL_QUESTIONS[q].skill, PlaceInPool(q), weak)]
Topped(picked, extra, count) ==
  LET new == SelectSeq(extra, LAMBDA q : \A i \in DOMAIN picked : picked[i] # q)
  IN picked \o SubSeq(new, 1, AtMost(count - Len(picked), Len(new)))
build_session(skills, count, weak, behavioral) ==
  Topped(RoundRobin(Turns(WeakFirst(IF skills = <<>> THEN sorted(InBank) ELSE skills, weak), weak), count),
         IF behavioral THEN BY_SKILL("behavioral") ELSE <<>>, count)

(* a whole interview: each stage picks what the earlier ones left          *)
Fresh(pool, n, taken) ==
  LET left == {i \in DOMAIN pool : /\ pool[i] \notin taken
                                   /\ \A k \in 1..(i - 1) : pool[k] # pool[i]}
      order == InOrder(left, LAMBDA i, k : FALSE)
  IN [r \in 1..AtMost(n, Len(order)) |-> pool[order[r]]]
Questioned(stages) == UNION {{s[i] : i \in DOMAIN s} : s \in {stages[n] : n \in DOMAIN stages}}

Curation(q) == Flag(ALL_QUESTIONS[q].category \notin {"curated", "company_asked"})
CuratedFirst(pool) == Picked(pool, InOrder(DOMAIN pool, LAMBDA i, k : Curation(pool[i]) < Curation(pool[k])))
(* learning/curriculum.py: the questions that go with a lesson *)
_practice_for(skills) ==
  LET pool == CuratedFirst(InOrder({q \in DOMAIN ALL_QUESTIONS : ALL_QUESTIONS[q].skill \in skills},
                                   LAMBDA i, k : FALSE))
  IN SubSeq(pool, 1, AtMost(8, Len(pool)))
skill_pool(ordered, types, levels) ==
  CuratedFirst(Joined([n \in DOMAIN ordered |->
                 SelectSeq(BY_SKILL(ordered[n]),
                           LAMBDA q : /\ ALL_QUESTIONS[q].type \in types
                                      /\ ALL_QUESTIONS[q].difficulty \in levels)], Len(ordered)))
Arc(pools, sizes) ==
  LET stage[n \in 0..Len(pools)] ==
        IF n = 0 THEN <<>>
        ELSE LET before == stage[n - 1]
             IN Append(before, Fresh(pools[n], sizes[n], Questioned(before)))
  IN stage[Len(pools)]
FullArc(ordered) ==
  Arc(<<BY_SKILL("behavioral"), BY_SKILL("hr"),
        skill_pool(ordered, {"core"}, {"easy"}),
        skill_pool(ordered, {"core", "applied"}, {"medium", "hard"}),
        skill_pool(ordered, {"coding"}, {"easy", "medium", "hard"}),
        SubSeq(BY_SKILL("behavioral"), 2, Len(BY_SKILL("behavioral")))>>,
      <<1, 1, 2, 4, 2, 2>>)
build_realistic_session(skills, weak) ==
  FullArc(WeakFirst(IF skills = <<>> THEN <<"c", "rtos">> ELSE skills, weak))

-----------------------------------------------------------------------------
(* Scores *)

_keywords(words) == {w \in words : Len(w) > 2}
Feedback(level, hints) == [level |-> level, hints |-> hints]
_feedback_on(score, missing) ==
  IF score >= 80 THEN Feedback("strong", 0)
  ELSE IF score >= 50 THEN Feedback("good", AtMost(4, Cardinality(missing)))
  ELSE Feedback("incomplete", AtMost(5, Cardinality(missing)))

(* coverage, and up to twenty points for the length of the answer          *)
AnswerScore(id, skill, score, feedback) ==
  [id |-> id, skill |-> skill, score |-> score, feedback |-> feedback]
Covered(expected, said) ==
  AtMost(100, Round(100 * Cardinality(expected \cap said)
                      + AtMost(20, Cardinality(said)) * Cardinality(expected),
                    Cardinality(expected)))
Marked(q, skill, expected, said) ==
  IF said = {} THEN AnswerScore(q, skill, 0, Feedback("none", 0))
  ELSE IF expected = {}
  THEN AnswerScore(q, skill, AtMost(100, 40 + 4 * Cardinality(said)), Feedback("structured", 0))
  ELSE AnswerScore(q, skill, Covered(expected, said),
                   _feedback_on(Covered(expected, said), expected \ said))
score_answer(q, said) ==
  IF q \notin DOMAIN ALL_QUESTIONS THEN AnswerScore(q, "", 0, Feedback("unknown", 0))
  ELSE Marked(q, ALL_QUESTIONS[q].skill,
              _keywords(ALL_QUESTIONS[q].expected \cup {ALL_QUESTIONS[q].skill}), _keywords(said))

Evaluation(scores, total) ==
  LET of(k)  == {q \in DOMAIN scores : scores[q].skill = k}
      sum(K) == MapThenSumSet(LAMBDA q : scores[q].score, K)
      skills == {scores[q].skill : q \in DOMAIN scores}
  IN [readiness |-> IF total = 0 THEN 0 ELSE Clamp(0, 100, Round(sum(DOMAIN scores), total)),
      answered  |-> Cardinality({q \in DOMAIN scores : scores[q].score > 0}),
      total     |-> total,
      per_question |-> scores,
      strong    |-> {k \in skills : sum(of(k)) >= 70 * Cardinality(of(k))},
      weak      |-> {k \in skills : sum(of(k)) < 50 * Cardinality(of(k))}]
evaluate_session(answers, total) ==
  Evaluation([q \in DOMAIN answers |-> score_answer(q, answers[q])],
             IF total = 0 THEN Cardinality(DOMAIN answers) ELSE total)

-----------------------------------------------------------------------------
(* The kit of a job (generator.py, domain_kits.py, interview_service.py)   *)

get_questions_for_skills(skills) ==
  [s \in {skills[i] : i \in DOMAIN skills} \cap DOMAIN KitBank |->
     SubSeq(KitBank[s], 1, AtMost(3, Len(KitBank[s])))]
(* a question carries its skill, and a skill's list has it once            *)
get_all_questions_flat(skills) ==
  Joined([i \in DOMAIN skills |-> At(KitBank, skills[i], <<>>)], Len(skills))

Kit(skills, score, by_skill, all, topics) ==
  [readiness |-> AtMost(99, score), by_skill |-> by_skill, all |-> all,
   focus |-> SubSeq(skills, 1, AtMost(5, Len(skills))), topics |-> topics, ai |-> 0]
interview_kit(skills, score) ==
  LET by_skill == get_questions_for_skills(skills)
      topics   == Joined([i \in DOMAIN skills |-> At(CODING_TOPICS, skills[i], <<>>)], Len(skills))
  IN Kit(skills, score + 2 * Cardinality(DOMAIN by_skill), by_skill, get_all_questions_flat(skills),
         SubSeq(topics, 1, AtMost(10, Len(topics))))

has_domain_kit(domain) == domain \in DOMAIN DomainKits
build_domain_kit(domain, skills, score) ==
  LET kit == DomainKits[domain]
      cats == {kit[i] : i \in DOMAIN kit}
  IN Kit(IF skills = <<>> THEN sorted(cats) ELSE skills, score + Len(kit),
         [c \in cats |-> SelectSeq(kit, LAMBDA q : q = c)], kit, <<>>)

(* asked: how many questions the model wrote, or None where it is disabled, *)
(* late or fails; they are put in front                                     *)
Enriched(kit, skill, asked) ==
  IF asked \in {None, 0} THEN kit
  ELSE [kit EXCEPT !.ai = asked,
          !.all = [n \in 1..asked |-> "ai"] \o @,
          !.by_skill = [s \in DOMAIN @ \cup {skill} |->
                          IF s = skill THEN [n \in 1..asked |-> "ai"] \o At(@, s, <<>>) ELSE @[s]]]
generate_interview_kit_ai(domain, skills, score, asked) ==
  IF has_domain_kit(domain) THEN build_domain_kit(domain, skills, score)
  ELSE Enriched(interview_kit(skills, score), IF skills = <<>> THEN "embedded" ELSE skills[1], asked)

(* the curated questions of the subrole a title names; reads: the bank     *)
(* could be read                                                           *)
get_by_subrole(subrole) == LET rows == At(Curated, subrole, <<>>) IN SubSeq(rows, 1, AtMost(30, Len(rows)))
_curated_overlay(subrole, reads) ==
  LET rows == IF reads /\ subrole # None THEN get_by_subrole(subrole) ELSE <<>>
  IN [source |-> IF rows = <<>> THEN "generated" ELSE "curated", curated |-> rows]

KitOf(job, asked) == generate_interview_kit_ai(job.domain, sorted(job.matched), job.score, asked)
get_interview_kit(jobs, id, subrole, asked, reads) ==
  LET K == {i \in DOMAIN jobs : jobs[i].id = id}
  IN IF K = {} THEN None
     ELSE [kit |-> KitOf(jobs[Min(K)], asked), overlay |-> _curated_overlay(subrole, reads)]
get_general_prep(profile, jobs, asked) ==
  IF profile.all = {} THEN "upload" ELSE IF jobs = <<>> THEN "no_match" ELSE KitOf(jobs[1], asked)
=============================================================================
