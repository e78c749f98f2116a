------------------------------- MODULE Resumes -------------------------------
(***************************************************************************)
(* What is read out of a resume: skills with a confidence, employment,     *)
(* the readiness for applicant tracking, and the domains it belongs to     *)
(* (ai/skill_extractor.py, ai/resume_intelligence.py, resume/extractor.py, *)
(* agents/skill_extractors/, job_sources/domain_classifier.py).            *)
(*                                                                         *)
(* A text is its lines.  A line has the skills it names (their aliases     *)
(* resolved, as _normalize does), the section it opens or None, whether it *)
(* says "N years" (the extractor looks 40 characters around: here, in the  *)
(* line), and what employment and education are read from.  Confidences    *)
(* are thousandths.                                                        *)
(***************************************************************************)
EXTENDS Careers

CONSTANTS
  TAXONOMY,   \* the domains, depth first: <<[code, name, parent, roles]>>
  PLUGGED,    \* [domain with an extractor -> its words]
  ThisYear

-----------------------------------------------------------------------------
(* ai/skill_extractor.py *)

Naming(text, s) == {i \in DOMAIN text : s \in text[i].skills}

(* from the first skills header to the next section of another kind        *)
_skills_section(text) ==
  LET heads  == {i \in DOMAIN text : text[i].section = "skills"}
      breaks == {i \in DOMAIN text : text[i].section \notin {None, "skills"}}
      inside(i) == /\ \E h \in heads : h <= i
                   /\ \A b \in breaks : ~(Min(heads) < b /\ b <= i)
  IN {i \in DOMAIN text : inside(i)}
_experience_terms(text) == UNION {text[i].skills : i \in {k \in DOMAIN text : text[k].years}}

_skill_confidence(mentions, in_section, near) ==
  AtMost(1000, 450 + 120 * AtMost(3, mentions - 1) + 250 * Flag(in_section) + 150 * Flag(near))

Place(s) == CHOOSE n \in DOMAIN Alphabet : Alphabet[n] = s
SureFirst(found) ==
  Picked(found, InOrder(DOMAIN found, LAMBDA i, k :
    Lex(<<-found[i].confidence, Place(found[i].name)>>, <<-found[k].confidence, Place(found[k].name)>>)))
Scored(names, text, section, near) ==
  [i \in DOMAIN names |->
     [name |-> names[i],
      confidence |-> _skill_confidence(Cardinality(Naming(text, names[i])),
                                 section \cap Naming(text, names[i]) # {}, names[i] \in near)]]
extract(text) ==
  SureFirst(Scored(sorted(UNION {text[i].skills : i \in DOMAIN text}), text,
                   _skills_section(text), _experience_terms(text)))
NamesOf(found) == {found[i].name : i \in DOMAIN found}

(* inferred: the words the model sent, None where enrichment is disabled   *)
(* or the model failed or was late                                         *)
Inferred(w) == [name |-> w, confidence |-> 500]
RatesThemAgain(base, inferred) ==                                    \* mutant
  IF inferred = None THEN base
  ELSE LET left(i) == \A k \in DOMAIN inferred : lower(inferred[k]) # base[i].name
       IN SureFirst(Picked(base, InOrder({i \in DOMAIN base : left(i)}, LAMBDA i, k : FALSE))
                      \o [i \in DOMAIN inferred |-> Inferred(lower(inferred[i]))])
extract_ai(base, inferred) ==
  IF inferred = None THEN base
  ELSE LET new == {i \in DOMAIN inferred :
                     /\ lower(inferred[i]) \notin NamesOf(base)
                     /\ \A k \in 1..(i - 1) : lower(inferred[k]) # lower(inferred[i])}
           words == Filtered(inferred, new)
       IN SureFirst(base \o [r \in DOMAIN words |-> Inferred(lower(words[r]))])

-----------------------------------------------------------------------------
(* ai/resume_intelligence.py; sheet: what the patterns count in the text   *)

(* in 720ths of a point: a numbered bullet is 15/8, a word 1/90            *)
_ats_score(sheet, sections, skills) ==
  Clamp(0, 100, Round(
    720 * (8 * Flag(sheet.email) + 7 * Flag(sheet.phone) + 15 * Flag("skills" \in sections)
           + 10 * Flag("experience" \in sections) + 10 * Flag("education" \in sections)
           + AtMost(15, skills) + AtMost(10, sheet.verbs))
      + 1350 * AtMost(8, sheet.numbers)
      + (IF sheet.words \in 250..900 THEN 7200
         ELSE IF sheet.words = 0 THEN 0
         ELSE Max({0, 7200 - 8 * Max({sheet.words - 575, 575 - sheet.words})})),
    720))

_suggestions(sheet, sections, skills) ==
  {tip \in {"email", "phone", "skills", "experience", "summary", "more skills", "verbs", "numbers",
            "thin", "long", "cliches"} :
     CASE tip = "email" -> ~sheet.email
       [] tip = "phone" -> ~sheet.phone
       [] tip \in {"skills", "experience", "summary"} -> tip \notin sections
       [] tip = "more skills" -> skills < 8
       [] tip = "verbs" -> sheet.verbs < 5
       [] tip = "numbers" -> sheet.numbers < 3
       [] tip = "thin" -> sheet.words \in 1..249
       [] tip = "long" -> sheet.words > 1100
       [] tip = "cliches" -> sheet.cliches}

Sections(text) == {text[i].section : i \in DOMAIN text} \ {None}
Report(sheet, sections, found) ==
  [ats    |-> _ats_score(sheet, sections, Len(found)),
   tips   |-> _suggestions(sheet, sections, Len(found)),
   skills |-> Len(found),
   top    |-> [i \in 1..AtMost(10, Len(found)) |-> found[i].name]]
analyze(text, sheet) == Report(sheet, Sections(text), extract(text))

(* the model's words behind the deterministic ones *)
Merged(report, words) ==
  [report EXCEPT !.top    = SubSeq(words, 1, AtMost(20, Len(words))),
                 !.skills = Max({@, Cardinality({lower(words[i]) : i \in 1..AtMost(20, Len(words))})})]
analyze_ai(report, inferred) ==
  IF inferred = None THEN report ELSE Merged(report, Joined(<<report.top, inferred>>, 2))

Tailored(has, wants) ==
  [coverage |-> IF wants = {} THEN 0 ELSE Round(1000 * Cardinality(has \cap wants), Cardinality(wants)),
   matched |-> has \cap wants, missing |-> wants \ has]
_tailor_recommendation(t) ==
  IF t.coverage >= 800 THEN <<"strong", 0>>
  ELSE IF t.coverage >= 500 THEN <<"decent", AtMost(5, Cardinality(t.missing))>>
  ELSE <<"low", AtMost(8, Cardinality(t.missing))>>
tailor_to_job(text, posting) == Tailored(NamesOf(extract(text)), NamesOf(extract(posting)))

-----------------------------------------------------------------------------
(* resume/extractor.py: employment and education.  A dated line is an      *)
(* entry; its company and role are on the first line that names one, from  *)
(* three lines before it to three after.                                   *)

Around(text, i, before, after) == Max({1, i - before})..AtMost(Len(text), i + after)
FirstOf(text, K, field) == IF K = {} THEN "Unknown" ELSE text[Min(K)][field]
WorkEntry(text, i) ==
  [company |-> FirstOf(text, {k \in Around(text, i, 3, 3) : text[k].company # None}, "company"),
   role    |-> FirstOf(text, {k \in Around(text, i, 3, 3) : text[k].role # None}, "role"),
   end     |-> text[i].dates.end,
   months  |-> Max({0, 12 * ((IF text[i].dates.end = None THEN ThisYear ELSE text[i].dates.end)
                               - text[i].dates.start)})]
Experience(entries, degrees) ==
  LET open == {r \in DOMAIN entries : entries[r].end = None}
  IN [entries   |-> entries,
      education |-> AtMost(3, degrees),
      years     |-> AtMost(40, MapThenSumSet(LAMBDA r : entries[r].months, DOMAIN entries) \div 12),
      current   |-> IF entries = <<>> THEN None
                    ELSE entries[IF open = {} THEN Len(entries) ELSE Min(open)].role]
extract_experience(text) ==
  LET order == InOrder({i \in DOMAIN text : text[i].dates # None}, LAMBDA i, k : FALSE)
  IN Experience([r \in DOMAIN order |-> WorkEntry(text, order[r])],
                Cardinality({i \in DOMAIN text : text[i].degree}))

-----------------------------------------------------------------------------
(* domains/catalog.py: a domain is known by its name and by the roles of   *)
(* it and of everything under it                                           *)

Under(i) ==
  LET below[d \in 0..Len(TAXONOMY)] ==
        IF d = 0 THEN {i}
        ELSE LET prev == below[d - 1]
             IN prev \cup {k \in DOMAIN TAXONOMY : \E n \in prev : TAXONOMY[k].parent = TAXONOMY[n].code}
  IN below[Len(TAXONOMY)]
flatten ==
  [i \in DOMAIN TAXONOMY |->
     [code |-> TAXONOMY[i].code, top |-> TAXONOMY[i].parent = None,
      keywords |-> {TAXONOMY[i].name} \cup UNION {TAXONOMY[k].roles : k \in Under(i)}]]
top_level_domains == SelectSeq(flatten, LAMBDA d : d.top)

(* the posting classifier; said: [title, body], sets of terms; phrases are *)
(* Phrases                                                                 *)
KeywordScore(kw, said) ==
  IF kw \in said.title THEN IF kw \in Phrases THEN 950 ELSE 700
  ELSE IF kw \in said.body THEN IF kw \in Phrases THEN 550 ELSE 350
  ELSE 0
PostingScores(said) ==
  LET domains == SelectSeq(top_level_domains, LAMBDA d : d.code # "other")
  IN [i \in DOMAIN domains |->
        [code |-> domains[i].code, score |-> Best({KeywordScore(kw, said) : kw \in domains[i].keywords}, 0)]]

(* the resume classifier: embedded apart from software, then the top-level *)
(* domains; a role in the title weighs most, skills reinforce it           *)
_build_targets ==
  LET emb == (SelectSeq(flatten, LAMBDA d : d.code = Embedded))[1].keywords
  IN <<[code |-> Embedded, roles |-> emb, skills |-> At(PLUGGED, Embedded, {})]>>
       \o [i \in DOMAIN top_level_domains |->
             [code   |-> top_level_domains[i].code,
              roles  |-> top_level_domains[i].keywords
                           \ (IF top_level_domains[i].code = "software_it" THEN emb ELSE {}),
              skills |-> At(PLUGGED, top_level_domains[i].code, {})]]
TargetScore(target, said) ==
  AtMost(1000,
    (IF target.roles \cap said.title # {} THEN 950 ELSE IF target.roles \cap said.body # {} THEN 600 ELSE 0)
      + AtMost(400, 80 * Cardinality(target.skills \cap said.body)))
ResumeScores(said) ==
  [i \in DOMAIN _build_targets |->
     [code |-> _build_targets[i].code, score |-> TargetScore(_build_targets[i], said)]]

(* the best first, equal ones in the order of the catalogue *)
BestFirst(scores) ==
  Picked(scores, InOrder({i \in DOMAIN scores : scores[i].score > 0},
                         LAMBDA i, k : scores[i].score > scores[k].score))
Runners(ranked) ==
  LET near == SelectSeq(Tail(ranked), LAMBDA r : r.score >= 550 /\ ranked[1].score - r.score <= 350)
  IN [i \in 1..AtMost(2, Len(near)) |-> near[i].code]
Class(code, confidence, secondary, method) ==
  [code |-> code, confidence |-> confidence, secondary |-> secondary, method |-> method]
classify_rule(ranked) ==
  IF ranked = <<>> THEN None ELSE Class(ranked[1].code, ranked[1].score, Runners(ranked), "rule")

(* DomainClassifier.classify and ResumeDomainClassifier.classify; llm: the *)
(* model's code, or None where there is no router, the model fails or says *)
(* a code that is not in the catalogue                                     *)
Decided(rule, min, llm) ==
  IF rule # None /\ rule.confidence >= min THEN rule
  ELSE IF llm # None THEN Class(llm, 900, IF rule = None THEN <<>> ELSE rule.secondary, "llm")
  ELSE IF rule # None THEN [rule EXCEPT !.method = "rule_low"]
  ELSE Class("other", 0, <<>>, "fallback")
classify_posting(said, llm) ==
  [Decided(classify_rule(BestFirst(PostingScores(said))), 600, llm) EXCEPT !.secondary = <<>>]
classify_resume(said, llm) == Decided(classify_rule(BestFirst(ResumeScores(said))), 550, llm)

-----------------------------------------------------------------------------
(* agents/skill_extractors: a plugin for some domains, for the others what *)
(* stands in the six lines under a skills header                           *)

has_plugin(code) == code \in DOMAIN PLUGGED
_heuristic(text) ==
  {i \in DOMAIN text : \/ text[i].section = "skills"
                       \/ \E h \in DOMAIN text : /\ text[h].section = "skills" /\ h < i /\ i <= h + 6}
Extraction(code, skills, level) == [domain |-> code, skills |-> skills, level |-> level]
Profiled(code, text, llm) ==
  IF has_plugin(code)
  THEN Extraction(code, PLUGGED[code] \cap UNION {text[i].skills : i \in DOMAIN text}, "full")
  ELSE Extraction(code, IF llm # {} THEN llm ELSE UNION {text[i].skills : i \in _heuristic(text)}, "basic")
extractors_for(class) == <<class.code>> \o SelectSeq(class.secondary, LAMBDA c : c # class.code)
extract_all(class, text, llm) ==
  [i \in DOMAIN extractors_for(class) |-> Profiled(extractors_for(class)[i], text, llm)]
=============================================================================
