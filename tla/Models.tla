------------------------------- MODULE Models --------------------------------
(***************************************************************************)
(* One request of an agent to a language model, from the context it builds *)
(* to the object it reads from the answer: the context of a bounded size   *)
(* (context_builder.py, token_manager.py), the model that is chosen for    *)
(* the task (model_selector.py), the messages as they are sent (router.py),*)
(* what the open-model tier accepts (hosted_model_engine.py) and what the  *)
(* agent makes of it (response_parser.py, agents/).                        *)
(*                                                                         *)
(* A text of a context is its length in characters and the places of its   *)
(* sentence ends; a prompt that is sent is its number of tokens; an answer *)
(* is a sequence of tokens, "members" standing for what an object says.    *)
(***************************************************************************)
EXTENDS Matching, SequencesExt

CONSTANT
  Rounds      \* bound of the model: rounds after which a context is still too large
              \* only if it always will be
ASSUME RoundsAssumption == Rounds \in Nat

-----------------------------------------------------------------------------
(* token_manager.py *)
Larger(a, b) == IF a >= b THEN a ELSE b
Smaller(a, b) == IF a <= b THEN a ELSE b
estimate_tokens(chars) == IF chars = 0 THEN 0 ELSE Larger(1, chars \div 4)

(* ends[k] are the places of the k-th separator: ". ", "! ", "? ", newline *)
Text(chars, ends) == [chars |-> chars, ends |-> ends]
Plain(chars) == Text(chars, <<{}, {}, {}, {}>>)
SeparatorWidth == <<2, 2, 2, 1>>
Upto(text, chars) ==
  Text(chars, [k \in 1..4 |-> {i \in text.ends[k] : i + SeparatorWidth[k] <= chars}])

(* cut where a sentence ends in the second half, or else anywhere          *)
compress_text(text, target_tokens) ==
  IF estimate_tokens(text.chars) <= target_tokens THEN text
  ELSE LET max_chars == Larger(1, 4 * target_tokens)
           truncated == Upto(text, max_chars)
           late      == {k \in 1..4 : \E i \in truncated.ends[k] : 2 * i > max_chars}
       IN IF late = {} THEN truncated ELSE Upto(text, Max(truncated.ends[Min(late)]) + 1)

(* Parts with their costs, most important first: each is taken if it still *)
(* fits, so that a smaller one may be taken after a larger one was not.    *)
PartCost(part) == estimate_tokens(part.name) + estimate_tokens(part.chars) + 4
build_context_within_budget(parts, budget) ==
  LET order == InOrder(DOMAIN parts, LAMBDA i, k : parts[i].priority > parts[k].priority)
      taken[n \in 0..Len(order)] ==
        IF n = 0 THEN [used |-> 0, chars |-> 0]
        ELSE LET before == taken[n - 1]  part == parts[order[n]]
             IN IF before.used + PartCost(part) > budget THEN before
                ELSE [used  |-> before.used + PartCost(part),
                      chars |-> before.chars + part.name + part.chars + 4 + IF before.chars = 0 THEN 0 ELSE 2]
  IN Plain(taken[Len(order)].chars)

-----------------------------------------------------------------------------
(* context_builder.py.  A payload is a sequence of fields, each a text or  *)
(* the length of the JSON of something else.                               *)
MAX_CONTEXT_TOKENS == 4000
SUMMARY_MAX_CHARS == 2000
Tells(key, text) == [key |-> key, text |-> text, json |-> 0]
Holds(key, json) == [key |-> key, text |-> None, json |-> json]
FieldCost(field) == estimate_tokens(IF field.text = None THEN field.json ELSE field.text.chars)
PayloadCost(payload) == FoldSet(LAMBDA i, sum : sum + FieldCost(payload[i]), 0, DOMAIN payload)
TextsOf(payload) == {i \in DOMAIN payload : payload[i].text # None /\ payload[i].text.chars > 0}

(* One round: the first of the largest texts is cut to half of its tokens  *)
TheFirst(payload) == Min(TextsOf(payload)) \* mutant
Biggest(payload) ==
  CHOOSE i \in TextsOf(payload) :
    \A k \in TextsOf(payload) : FieldCost(payload[k]) < FieldCost(payload[i])
                                \/ (FieldCost(payload[k]) = FieldCost(payload[i]) /\ i <= k)
Halved(payload) ==
  LET i == Biggest(payload)
  IN [payload EXCEPT ![i].text = compress_text(@, Larger(1, FieldCost(payload[i]) \div 2))]

(* The loop ends within the budget or when there is no text to cut; and if *)
(* a round changes nothing it never ends.                                  *)
Settled(payload) == PayloadCost(payload) <= MAX_CONTEXT_TOKENS \/ TextsOf(payload) = {}
_enforce_budget(payload) ==
  LET after[n \in 0..Rounds] ==
        IF n = 0 THEN payload
        ELSE LET before == after[n - 1] IN IF Settled(before) THEN before ELSE Halved(before)
      last == after[Rounds]
  IN IF Settled(last) THEN [ends |-> TRUE, payload |-> last] ELSE [ends |-> FALSE, payload |-> last]

(* JSON of names with these lengths, and of a few numbers                  *)
Listed(lengths) == IF lengths = <<>> THEN 2 ELSE FoldSeq(LAMBDA n, sum : sum + n + 4, 0, lengths)
FirstFew(seq, n) == SubSeq(seq, 1, Smaller(n, Len(seq)))
Number == 1

(* twin: the lengths of what the career twin says; None: every default     *)
Blank == [role |-> 0, level |-> 0, location |-> 0, skills |-> <<>>, strengths |-> <<>>,
          weaknesses |-> <<>>, scores |-> <<>>]
TwinOr(twin) == IF twin = None THEN Blank ELSE twin
_compact_skills(twin) == TwinOr(twin).skills
Summary(twin, top) ==
  100 + twin.role + twin.level + Listed(FirstFew(twin.skills, top))
    + Listed(FirstFew(twin.strengths, 5)) + Listed(FirstFew(twin.weaknesses, 5))
_candidate_summary(twin) ==
  LET t == TwinOr(twin)
  IN Plain(IF Summary(t, 15) <= SUMMARY_MAX_CHARS THEN Summary(t, 15)
           ELSE Smaller(SUMMARY_MAX_CHARS, Summary(t, 8)))

(* what each builder puts in, before _enforce_budget *)
for_resume_analysis(resume, posting) ==
  <<Tells("resume_text", resume), Tells("job_description", posting)>>
for_job_matching(twin, posting) ==
  <<Tells("candidate_summary", _candidate_summary(twin)), Holds("skills", Listed(_compact_skills(twin))),
    Holds("experience_years", Number), Tells("current_role", Plain(TwinOr(twin).role)),
    Tells("job_title", Plain(posting.title)), Tells("job_description", posting.description),
    Holds("job_required_skills", Listed(posting.required))>>
for_career_mentor(twin, memories, message) ==
  <<Tells("candidate_context", _candidate_summary(twin)),
    Tells("recent_history", build_context_within_budget(memories, 1500)), Tells("user_message", message)>>
for_interview(twin, posting, skill) ==
  <<Tells("candidate_level", Plain(TwinOr(twin).level)), Tells("skill", Plain(skill)),
    Tells("job_title", Plain(posting.title)), Tells("company", Plain(posting.company)),
    Holds("known_weaknesses", Listed(FirstFew(TwinOr(twin).weaknesses, 5))),
    Holds("previous_scores", Listed(FirstFew(TwinOr(twin).scores, 5)))>>
for_roadmap(twin, posting) ==
  <<Holds("current_skills", Listed(_compact_skills(twin))), Holds("missing_skills", Listed(posting.missing)),
    Tells("target_role", Plain(posting.title)), Tells("experience_level", Plain(TwinOr(twin).level)),
    Holds("hours_per_week", Number), Holds("learning_velocity", Number)>>
for_salary(twin, company) ==
  <<Holds("skills", Listed(_compact_skills(twin))), Holds("experience_years", Number),
    Holds("current_salary", Number), Holds("target_salary", Number),
    Tells("location", Plain(TwinOr(twin).location)), Tells("level", Plain(TwinOr(twin).level)),
    Tells("target_company", Plain(company))>>

-----------------------------------------------------------------------------
(* model_selector.py.  Prices are of a thousand tokens, in thousandths of  *)
(* a dollar.  configured: LLM_TASK_ROUTING; overridden: _OVERRIDES.        *)
Tiering(tier) ==
  CASE tier = "haiku"  -> [max_tokens |-> 2048, temperature |-> 20, cost_in |-> 1, cost_out |-> 5]
    [] tier = "sonnet" -> [max_tokens |-> 4096, temperature |-> 40, cost_in |-> 3, cost_out |-> 15]
    [] tier = "opus"   -> [max_tokens |-> 8192, temperature |-> 50, cost_in |-> 15, cost_out |-> 75]
CONTEXT_WINDOW == 200000
_DEFAULT_ROUTING ==
  [t \in {"extraction", "summarization", "domain_classification"} |-> "haiku"]
    @@ [t \in {"complex_reasoning"} |-> "opus"]
    @@ [t \in {"matching", "mentoring", "planning", "interview", "coding", "salary", "roadmap"} |-> "sonnet"]
_TASK_TEMPERATURE ==
  [t \in {"extraction", "domain_classification"} |-> 0] @@ [t \in {"summarization"} |-> 10]
    @@ [t \in {"matching", "coding", "salary"} |-> 20]
_routing_table(configured) ==
  [t \in DOMAIN configured \cap DOMAIN _DEFAULT_ROUTING |-> configured[t]] @@ _DEFAULT_ROUTING
_tier_of_model(model) == IF model \in {"haiku", "opus"} THEN model ELSE "sonnet"

(* None: a tier that is not in the tables raises KeyError                  *)
ModelConfig(task, tier) ==
  IF tier \notin {"haiku", "sonnet", "opus"} THEN None
  ELSE [Tiering(tier) EXCEPT !.temperature = IF task \in DOMAIN _TASK_TEMPERATURE THEN _TASK_TEMPERATURE[task] ELSE @]
         @@ [tier |-> tier]
select_model(task, configured, overridden) ==
  ModelConfig(task, IF task \in DOMAIN overridden THEN _tier_of_model(overridden[task])
                    ELSE _routing_table(configured)[task])
_is_expensive(config) == config.tier \in {"sonnet", "opus"}

(* claude_engine._TASK_TYPE_ALIASES *)
_task_type_for(task) ==
  CASE task \in DOMAIN _DEFAULT_ROUTING -> task
    [] task \in {"mentor", "mentor_chat", "mentor_daily_brief", "negotiation_advice"} -> "mentoring"
    [] task \in {"match", "match_explanation", "gap_analysis_explanation", "resume_score"} -> "matching"
    [] task \in {"plan", "lesson_generation", "resume_rewrite"} -> "planning"
    [] task \in {"interview_evaluation", "interview_questions"} -> "interview"
    [] task \in {"flashcard_generation", "job_description_extraction", "skill_extraction", "resume_parsing"} -> "extraction"
    [] task = "roadmap_draft" -> "roadmap"
    [] task \in {"coding_review_explanation", "coding_challenge"} -> "coding"
    [] task = "salary_estimate" -> "salary"
    [] OTHER -> "summarization"

-----------------------------------------------------------------------------
(* router.py: the messages as they are sent, each its number of tokens.    *)
(* short: the size of the summary the small model makes, or None when that *)
(* call fails; an empty one counts as the text itself.                     *)
Summed(tokens) == FoldSeq(LAMBDA n, sum : sum + n, 0, tokens)
SummaryOr(short, tokens) == IF short = 0 THEN tokens ELSE short
Shortened(tokens, n, short) ==
  <<SummaryOr(short, Summed(SubSeq(tokens, 1, n - 2))), tokens[n - 1], tokens[n]>>
_truncate_context(tokens, short) ==
  IF Len(tokens) <= 2 \/ 10 * Summed(tokens) <= 8 * CONTEXT_WINDOW \/ short = None THEN tokens
  ELSE Shortened(tokens, Len(tokens), short)
COMPRESSION_THRESHOLD == 3000
compress_if_needed(tokens, config, short) ==
  IF tokens <= COMPRESSION_THRESHOLD \/ ~_is_expensive(config) \/ short = None THEN tokens
  ELSE SummaryOr(short, tokens)
Compressed(kept, body) ==
  [messages |-> [kept EXCEPT ![Len(kept)] = body], saved |-> Larger(0, kept[Len(kept)] - body)]
LastCompressed(kept, config, short) == Compressed(kept, compress_if_needed(kept[Len(kept)], config, short))
Sent(tokens, config, older, last) == LastCompressed(_truncate_context(tokens, older), config, last)
(* in millionths of a dollar *)
_cost(config, tokens_in, tokens_out) == tokens_in * config.cost_in + tokens_out * config.cost_out

-----------------------------------------------------------------------------
(* An answer is a sequence of tokens: "fence" (three backquotes), "json"   *)
(* and "c-json" (languages of a fence), "nl", the brackets, "members" of   *)
(* an object, a scalar "item" and any other "word".                        *)
(* json.loads: None for what is no JSON.                                   *)
JSON(text) ==
  CASE text = <<"{", "members", "}">> -> [kind |-> "object", empty |-> FALSE]
    [] text = <<"{", "}">> -> [kind |-> "object", empty |-> TRUE]
    [] text \in {<<"[", "item", "]">>, <<"[", "{", "members", "}", "]">>} -> [kind |-> "list", empty |-> FALSE]
    [] text = <<"[", "]">> -> [kind |-> "list", empty |-> TRUE]
    [] text = <<"item">> -> [kind |-> "scalar", empty |-> FALSE]
    [] OTHER -> None
StripTo(text, said) == IF said = {} THEN <<>> ELSE SubSeq(text, Min(said), Max(said))
Strip(text) == StripTo(text, {i \in DOMAIN text : text[i] # "nl"})
Opens(text) == text # <<>> /\ text[1] = "fence"
Closes(text) == text # <<>> /\ text[Len(text)] = "fence"
Unclosed(text) == Strip(IF Closes(text) THEN SubSeq(text, 1, Len(text) - 1) ELSE text)
Unfenced(text, languages) ==
  IF ~Opens(text) THEN text
  ELSE Unclosed(Strip(SubSeq(text, IF Len(text) > 1 /\ text[2] \in languages THEN 3 ELSE 2, Len(text))))

(* hosted_model_engine._strip_code_fence, response_parser._strip_fences    *)
_strip_code_fence(text) == Unfenced(Strip(text), {"json"})
_strip_fences(text) == Unfenced(Strip(text), {"json", "c-json"})

-----------------------------------------------------------------------------
(* hosted_model_engine.py, task_registry.py.  Scores are of a hundred.     *)
HOSTED_MODEL_ALLOWED_TASKS ==
  {"resume_parsing", "company_summary", "job_description_extraction", "skill_extraction", "roadmap_draft",
   "coding_review_explanation", "match_explanation", "mentor_daily_brief", "resume_score",
   "interview_questions", "lesson_generation", "flashcard_generation", "coding_challenge",
   "memory_summarize", "conversation_summarize"}
STRUCTURED_OUTPUT_TASKS ==
  HOSTED_MODEL_ALLOWED_TASKS \ {"company_summary", "memory_summarize", "conversation_summarize"}
is_hosted_allowed(task) == task \in HOSTED_MODEL_ALLOWED_TASKS
OPEN_MODEL_TASK_MODELS ==
  [t \in {"resume_parsing", "skill_extraction", "resume_score", "interview_questions", "lesson_generation",
          "coding_challenge"} |-> "qwen"]
    @@ [t \in {"job_description_extraction", "coding_review_explanation", "match_explanation"} |-> "llama"]
    @@ [t \in {"company_summary", "flashcard_generation", "memory_summarize", "conversation_summarize"} |-> "gemma"]
    @@ [t \in {"roadmap_draft", "mentor_daily_brief"} |-> "mistral"]
model_for_task(task) == OPEN_MODEL_TASK_MODELS[task]
(* in hundred-millionths of a dollar; a local model costs nothing          *)
_MODEL_PRICING == [qwen |-> 120, llama |-> 88, gemma |-> 80, mistral |-> 60]
_estimate_cost(model, local, tokens_in, tokens_out) ==
  IF local THEN 0 ELSE (tokens_in + tokens_out) * _MODEL_PRICING[model]

JsonConfidence(value) ==
  CASE value = None -> 20
    [] value # None /\ value.kind # "scalar" /\ ~value.empty -> 95
    [] OTHER -> 50
_json_confidence(text) == JsonConfidence(JSON(_strip_code_fence(text)))
(* said: how long the answer is, whether it repeats itself, was cut short  *)
_freeform_confidence(said) ==
  CASE said.short -> 35
    [] ~said.short /\ said.repeats -> 20
    [] ~said.short /\ ~said.repeats /\ said.finish = "length" -> 50
    [] OTHER -> 90
_score_confidence(task, text, said) ==
  CASE Strip(text) = <<>> -> 0
    [] Strip(text) # <<>> /\ task \in STRUCTURED_OUTPUT_TASKS -> _json_confidence(text)
    [] OTHER -> _freeform_confidence(said)

MIN_CONFIDENCE == 60
(* What came of the call: no connection, an error or a body without a      *)
(* choice is None, and tokens the provider does not report count as none.  *)
Replies == {"fails", "unmetered", "metered"}
_chat_completion(reply, said) ==
  CASE reply = "fails"     -> None
    [] reply = "unmetered" -> [said EXCEPT !.tokens_in = 0, !.tokens_out = 0]
    [] OTHER               -> said

(* provider: [enabled, local, key]; completion: None when the call failed. *)
(* None: the task falls through; confidence None: it escalates to Claude,  *)
(* and the call is paid for all the same.                                  *)
Hosted(task, model, provider, completion, score) ==
  [text |-> completion.text, model |-> model,
   confidence |-> IF score >= MIN_CONFIDENCE THEN score ELSE None,
   cost |-> _estimate_cost(model, provider.local, completion.tokens_in, completion.tokens_out)]
_infer(task, provider, completion, said) ==
  IF ~is_hosted_allowed(task) \/ ~provider.enabled \/ (~provider.local /\ ~provider.key) \/ completion = None
  THEN None
  ELSE Hosted(task, model_for_task(task), provider, completion, _score_confidence(task, completion.text, said))

-----------------------------------------------------------------------------
(* response_parser.py *)
AnyObject(text) == \* mutant
  IF {"{", "}"} \subseteq {text[i] : i \in DOMAIN text}
  THEN SubSeq(text, Min({i \in DOMAIN text : text[i] = "{"}), Max({i \in DOMAIN text : text[i] = "}"})) ELSE text
FromTo(text, start, ends) ==
  SubSeq(text, start, IF ends = {} \/ Max(ends) < start THEN Len(text) ELSE Max(ends))
BlobFrom(text, start) ==
  FromTo(text, start, {i \in DOMAIN text : text[i] = IF text[start] = "{" THEN "}" ELSE "]"})
BlobIn(text) ==
  IF \E i \in DOMAIN text : text[i] \in {"{", "["}
  THEN BlobFrom(text, Min({i \in DOMAIN text : text[i] \in {"{", "["}})) ELSE text
_extract_json_blob(text) == BlobIn(_strip_fences(text))
(* None: ParseError *)
Document(value) == IF value # None /\ value.kind = "scalar" THEN None ELSE value
parse_json(text) == Document(JSON(_extract_json_blob(text)))

(* agents/models.py: the fields of the objects the agents read.  Every     *)
(* field has a default; what is not a field is ignored.                    *)
Fields(ints, floats, strings, lists) ==
  [f \in ints |-> "int"] @@ [f \in floats |-> "float"] @@ [f \in strings |-> "str"] @@ [f \in lists |-> "list"]
ParsedResume == Fields({}, {"total_years"}, {"summary"}, {"skills", "experience", "education", "projects", "certifications"})
ResumeScore == Fields({"score", "ats_score"}, {}, {}, {"missing_keywords", "weak_bullets", "strengths", "improvements"})
RewrittenResume == Fields({"estimated_score_improvement"}, {}, {"summary"}, {"rewritten_bullets", "keywords_added"})
JobMatch ==
  Fields({"score", "interview_probability", "salary_confidence"}, {}, {"reasoning", "growth_potential", "recommended_action"},
         {"matched_skills", "missing_skills", "transferable_skills"})
GapAnalysis ==
  Fields({"estimated_upskill_weeks"}, {}, {"immediate_focus", "gap_summary"}, {"critical_gaps", "nice_to_have_gaps", "learning_priority"})
MentorResponse == Fields({}, {}, {"advice", "priority", "timeframe"}, {"action_items"})
DailyBrief ==
  Fields({"new_jobs_count"}, {}, {"greeting", "focus_skill", "reason", "top_action", "motivational_note"}, {"items"})
QuestionList == Fields({}, {}, {}, {"questions"})
AnswerEvaluation ==
  Fields({"score", "technical_accuracy", "communication", "depth"}, {},
         {"feedback", "what_was_good", "what_was_missing", "follow_up_question"}, {})
Roadmap == Fields({"total_weeks"}, {}, {"career_path", "summary"}, {"weeks"})
SalaryEstimate ==
  Fields({"percentile"}, {"estimated_min_lpa", "estimated_max_lpa", "underpaid_by"}, {"market_reasoning"},
         {"top_skills_for_raise", "negotiation_tips"}) @@ [f \in {"is_underpaid"} |-> "bool"]
Lesson == Fields({}, {}, {"topic", "explanation", "practical_example", "code_snippet"}, {"key_concepts", "quiz"})
FlashcardList == Fields({}, {}, {}, {"cards"})
CodeReview ==
  Fields({"overall_score"}, {}, {}, {"misra_violations", "memory_issues", "concurrency_issues", "style_issues",
                                     "positive_aspects", "improvement_suggestions"})
CodingChallenge ==
  Fields({}, {}, {"title", "description", "starter_code", "reference_solution", "difficulty"}, {"test_cases", "hints", "skills_tested"})

(* what pydantic takes for a field; a null only where the type allows it   *)
Takes(type, json) ==
  CASE type = "int"   -> json \in {"integer", "boolean"}
    [] type = "float" -> json \in {"integer", "fraction", "boolean"}
    [] type = "str"   -> json = "string"
    [] type = "bool"  -> json = "boolean"
    [] type = "list"  -> json = "array"
(* members: what the object says, [name -> type of JSON].  None: ParseError *)
Said(value, schema, members) == IF value # None /\ value.empty THEN {} ELSE DOMAIN members \cap DOMAIN schema
Validated(value, schema, members, said) ==
  IF value = None \/ value.kind # "object" \/ \E f \in said : ~Takes(schema[f], members[f]) THEN None
  ELSE [said |-> said, defaults |-> DOMAIN schema \ said]
AsObject(value, schema, members) == Validated(value, schema, members, Said(value, schema, members))
parse_structured(text, schema, members) == AsObject(parse_json(text), schema, members)

-----------------------------------------------------------------------------
(* agents/: the task each method routes, what it reads, the tokens it asks *)
(* for, and whether it keeps a memory of the answer                        *)
Method(task, schema, max_tokens, remembers) ==
  [task |-> task, schema |-> schema, max_tokens |-> max_tokens, remembers |-> remembers]
ResumeAgent ==
  [parse_resume |-> Method("resume_parsing", ParsedResume, 2000, TRUE),
   score_resume |-> Method("resume_score", ResumeScore, 1500, FALSE),
   rewrite_resume |-> Method("resume_rewrite", RewrittenResume, 1536, FALSE)]
MatchingAgent ==
  [match |-> Method("match_explanation", JobMatch, 1500, TRUE),
   analyze_gaps |-> Method("gap_analysis_explanation", GapAnalysis, 1024, FALSE)]
MentorAgent ==
  [chat |-> Method("mentor_chat", MentorResponse, 1000, TRUE),
   daily_brief |-> Method("mentor_daily_brief", DailyBrief, 1000, FALSE)]
InterviewAgent ==
  [generate_questions |-> Method("interview_questions", QuestionList, 2000, FALSE),
   evaluate_answer |-> Method("interview_evaluation", AnswerEvaluation, 800, TRUE)]
RoadmapAgent == [roadmap |-> Method("roadmap_draft", Roadmap, 3000, TRUE)]
SalaryAgent == [salary |-> Method("salary_estimate", SalaryEstimate, 800, FALSE)]
LearningAgent ==
  [create_lesson |-> Method("lesson_generation", Lesson, 2000, FALSE),
   create_flashcards |-> Method("flashcard_generation", FlashcardList, 1500, FALSE)]
CodingAgent ==
  [review_code |-> Method("coding_review_explanation", CodeReview, 1500, FALSE),
   generate_challenge |-> Method("coding_challenge", CodingChallenge, 2000, FALSE)]
Agents ==
  ResumeAgent @@ MatchingAgent @@ MentorAgent @@ InterviewAgent @@ RoadmapAgent @@ SalaryAgent
    @@ LearningAgent @@ CodingAgent

(* The context is built before the model is asked, and is not part of the  *)
(* prompt of every method: the interviewer builds one and drops it.        *)
FieldsOf(agent, twin, posting, memories, message) ==
  CASE agent = "parse_resume" -> for_resume_analysis(message, Plain(0))
    [] agent \in {"match", "analyze_gaps"} -> for_job_matching(twin, posting)
    [] agent = "chat" -> for_career_mentor(twin, memories, message)
    [] agent = "daily_brief" -> for_career_mentor(twin, <<>>, Plain(0))
    [] agent = "generate_questions" -> for_interview(twin, [posting EXCEPT !.title = 0], posting.skill)
    [] agent = "roadmap" -> for_roadmap(twin, posting)
    [] agent = "salary" -> for_salary(twin, posting.company)
    [] OTHER -> None
Enforced(payload) == IF payload = None THEN None ELSE _enforce_budget(payload)
ContextOf(call) == Enforced(FieldsOf(call.agent, call.twin, call.posting, call.memories, call.message))

(* BaseAgent._handle in front of the tiers: the open models answer if they *)
(* may and are sure, Claude otherwise; the answer is read either way.      *)
Reply(call, m, open, sure, config, sent, read) ==
  [context |-> ContextOf(call), open |-> open, sure |-> sure, sent |-> sent,
   cost |-> IF sent = None THEN 0 ELSE _cost(config, Summed(sent.messages), m.max_tokens),
   read |-> read, memory |-> m.remembers /\ read # None]
(* Unless the open models are sure Claude answers; a tier that is not in   *)
(* the tables is an error of the request.                                  *)
FromTier(call, m, open, sure, config, written) ==
  Reply(call, m, open, sure, config,
        IF config = None THEN None ELSE Sent(call.turns, config, call.short, call.short),
        IF ~sure /\ config = None THEN None
        ELSE parse_structured(IF sure THEN open.text ELSE written, m.schema, call.members))
FromTiers(call, m, open, sure, written) ==
  FromTier(call, m, open, sure,
           IF sure THEN None ELSE select_model(_task_type_for(m.task), call.configured, call.overridden), written)
AfterOpen(call, m, open, written) == FromTiers(call, m, open, open # None /\ open.confidence # None, written)
AskTiers(call, m, completion, written) ==
  AfterOpen(call, m, _infer(m.task, call.provider, completion, call.said), written)
AgentCall(call, completion, written) == AskTiers(call, Agents[call.agent], completion, written)
=============================================================================
