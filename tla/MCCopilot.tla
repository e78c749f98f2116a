------------------------------ MODULE MCCopilot ------------------------------
(* A corpus in the words of the code's own tables *)
EXTENDS Answers, TLC

MCVocabulary ==
  [programming |-> {"c"}, rtos_os |-> {"rtos", "autosar"}, protocols |-> {"can", "uds"},
   hardware |-> {"arm"}, automotive |-> {"autosar", "uds"}, tools |-> {"git"}, concepts |-> {}]
EmbeddedWords == UNION {MCVocabulary[c] : c \in DOMAIN MCVocabulary}
MCCore == {"c", "c++", "rtos", "freertos", "embedded", "firmware", "arm", "cortex-m", "autosar",
           "can", "lin", "spi", "i2c", "device driver", "bare metal", "iso 26262", "linux kernel", "bsp"}
MCSkills == EmbeddedWords \cup {"crm", "lead generation", "prospecting", "excel"}
Prospecting == [w \in {"prospecting"} |-> "lead generation"]
MCSeeds ==
  [embedded_engineering |->
     <<[code |-> "protocols", weight |-> 20, names |-> {"can"}, alias |-> NoAlias],
       [code |-> "tools", weight |-> 5, names |-> {"git"}, alias |-> NoAlias]>>,
   sales |->
     <<[code |-> "pipeline", weight |-> 60, names |-> {"lead generation", "crm"}, alias |-> Prospecting],
       [code |-> "empty", weight |-> 40, names |-> {}, alias |-> NoAlias]>>]

Job(id, words, min, domain, pay) ==
  [id |-> id, key |-> id, company |-> IF id \in {"a", "b"} THEN "qualcomm" ELSE "bosch",
   required |-> words, text |-> words \cup {"c"}, exp_min |-> min, domain |-> domain,
   embedded_words |-> domain = None, salary_min |-> None, salary_max |-> pay]
A == Job("a", {"c", "rtos", "can", "arm"}, 3, None, 45)
B == Job("b", {"c", "autosar", "can", "uds"}, 2, None, 10)
C == Job("c", EmbeddedWords, 4, None, None)
D == Job("d", {"git"}, None, None, 8)
E == Job("e", {"crm", "prospecting"}, 0, "sales", 20)
F == Job("f", {"excel", "git"}, 2, "finance", 20)
Variants == <<A, B, C, [A EXCEPT !.id = "a2", !.exp_min = 8], [B EXCEPT !.id = "b2", !.salary_max = 30],
              [C EXCEPT !.id = "c2", !.salary_max = 9], [A EXCEPT !.id = "a3", !.salary_max = 9],
              [B EXCEPT !.id = "b3", !.exp_min = 8], [C EXCEPT !.id = "c3", !.exp_min = 0], D>>

Ask(kind, seed, min) ==
  [kind |-> kind, seed |-> seed, live |-> None, min_score |-> min, bar |-> 15,
   events |-> <<>>, targets |-> {}]
Liked(type, company, skills) == [type |-> type, company |-> company, skills |-> skills]
MCAsks ==
  {Ask("advise", Variants, 40),
   [Ask("advise", <<A, B>>, 0) EXCEPT !.live = <<[E EXCEPT !.key = "b"], F, [F EXCEPT !.id = "g"]>>],
   Ask("auto_apply", <<A, C, D>>, 40),
   [Ask("recommend", <<A, B, C, E, F>>, 0) EXCEPT
      !.targets = {"sales"},
      !.events = <<Liked("offer", "bosch", {"can", "uds"}), Liked("rejected", "qualcomm", {"c"})>>],
   [Ask("recommend", <<D, A, E>>, 20) EXCEPT
      !.events = <<Liked("saved", "bosch", {}), Liked("ghosted", "bosch", {"c", "git"}),
                   Liked("interview", "qualcomm", {"arm"})>>]}

(* what the advisers are asked, for a twin and without one *)
Twin == [years |-> 6, domains |-> {"automotive"}, locations |-> {"bengaluru", "delhi"}, salary |-> 14 * Lakh,
         dream |-> {"bosch", "nvidia", "atlantis"}, weak |-> <<"can", "uds">>, changed |-> {"skills"},
         confidence |-> [w \in {"c", "rtos", "can"} |-> CASE w = "c" -> 90 [] w = "rtos" -> 30 [] w = "can" -> 60]]
Event(type) == Liked(type, "bosch", {"can", "uds"})
Advise(kind) ==
  [Ask(kind, <<A, B, C, E>>, 0) EXCEPT
     !.events = <<Event("applied"), Event("interview"), Liked("rejected", "qualcomm", {"c"})>>]
  @@ [twin |-> Twin]
Both(k) == {k, [k EXCEPT !.twin = None]}
Learning(learn, years) ==
  {k @@ [learn |-> learn, years |-> years] : k \in Both(Advise("simulate"))}
App(status, outcome, score) == [status |-> status, outcome |-> outcome, score |-> score]
Code(lines, isr, concepts, flags) ==
  [lines |-> lines, isr |-> isr, volatile |-> FALSE, todo |-> FALSE, concepts |-> concepts,
   anti_patterns |-> flags]
Codes ==
  {Code(<<{"gets", "magic_number"}, {}>>, FALSE, {"volatile"}, {}),
   Code(<<{"blocking_delay", "float_usage"}, {"unsafe_str"}>>, TRUE, {"volatile", "mask"}, {"race"}),
   Code(<<{}, {"float_usage"}>>, FALSE, {"volatile", "mask"}, {}),
   [Code(<<{}>>, FALSE, {"volatile", "mask"}, {}) EXCEPT !.todo = TRUE]}
MCAdvised ==
  UNION {Learning(l, y) : l \in {<<>>, <<"autosar">>, <<"AUTOSAR", "autosar">>, <<"uds", "rtos", "excel">>, <<"c", "can", "arm">>},
                          y \in {0, 1, 3, 7}}
  \cup Both(Advise("salary")) \cup {k @@ [job |-> j] : k \in Both(Advise("job_roadmap")), j \in {"a", "e", "z"}}
  \cup {Advise("general_roadmap") @@ [applied |-> a] :
          a \in {<<>>, <<{"uds"}>>, <<{"uds", "can"}, {"can", "arm"}, {"prospecting"}>>}}
  \cup {k @@ [wanted |-> w, hours |-> n] : k \in Both(Advise("adaptive")), n \in {0, 10, 20, 60},
          w \in {<<>>, <<"c", "can">>, <<"git", "rtos", "can", "arm">>, <<"uds", "excel", "git", "c++", "rtos", "autosar">>}}
  \cup {k @@ [hours |-> n] : k \in Both(Advise("dream")) \cup {[Advise("dream") EXCEPT !.twin.dream = {"atlantis"}]},
          n \in {10, 45}}
  \cup {k @@ [apps |-> a] : k \in Both(Advise("dashboard")),
          a \in {<<>>, <<App("submitted", "interview", 90), App("approved", "pending", 71), App("responded", "offer", 88)>>}}
  \cup {Advise("profile")} \cup {Advise("gaps") @@ [job |-> j] : j \in {"b", "e", "z"}}
  \cup {Advise("search") @@ [company |-> c, size |-> n] : c \in {None, "qualcomm"}, n \in {1, 3}}
  \cup {Ask("plan", s, 0) : s \in {Variants, <<E, A, D>>}}
  \cup Both(Advise("weekly")) \cup {Advise("feedback"), Advise("company")}
  \cup {Advise(k) @@ [code |-> c, challenge |-> [concepts |-> {"volatile", "mask"}, anti_patterns |-> {"race", "busy"}]] :
          k \in {"code", "lab"}, c \in Codes}
  \cup Both(Advise("unified"))

MCProfiles ==
  {build_profile(w \cup x, y) : w \in SUBSET EmbeddedWords, y \in {0, 3},
                                x \in {{}, {"prospecting"}, {"prospecting", "crm", "excel"}}}
Few ==
  {build_profile(w, y) : w \in {{}, {"c", "git"}, {"c", "rtos", "can", "arm"}, {"can", "uds", "autosar"}, EmbeddedWords,
                                EmbeddedWords \cup {"prospecting"}},
                         y \in {0, 2, 3, 8}}

(* questions about the graph, as they are typed *)
Word(w) == [word |-> w, upper |-> FALSE]
Upper(w) == [word |-> w, upper |-> TRUE]
Payload(query) == [query |-> query, skill |-> None, role |-> None, intent |-> None, from |-> None, to |-> None]
Graph(task, payload) == Ask("graph", <<>>, 0) @@ [task |-> task, payload |-> payload]
Ends == {"Embedded C", "ARM Cortex-M", "CAN", "GPIO", "RTOS", "AUTOSAR", "Automotive Ethernet", "ASPICE", "Rust"}
Queries ==
  {<<>>, <<Word("what"), Word("can"), Word("i"), Word("learn"), Word("after"), Upper("can")>>,
   <<Word("from"), Word("uart"), Word("to"), Upper("can"), Upper("fd")>>,
   <<Word("how"), Word("can"), Word("i"), Word("reach"), Word("iso"), Word("26262"), Word("from"), Word("gpio")>>,
   <<Word("skills"), Word("of"), Word("an"), Word("autosar"), Word("engineer")>>,
   <<Word("functional"), Word("safety"), Word("before"), Word("mcal")>>}
MCGraph ==
  {Graph("learning_path", [Payload(<<>>) EXCEPT !.from = f, !.to = t]) : f \in Ends, t \in Ends}
  \cup {Graph(t, [Payload(q) EXCEPT !.intent = i]) : t \in {"learning_path", "skill_query"}, q \in Queries,
                                                   i \in {None, "next", "prerequisites"}}
  \cup {Graph("skill_query", [Payload(<<>>) EXCEPT !.skill = s]) : s \in {"SPI", "Rust"}}
  \cup {Graph("skill_query", [Payload(<<>>) EXCEPT !.role = r]) : r \in {"AUTOSAR Engineer", "Gardener"}}
  \cup {Ask("brief", <<>>, 0) @@ [payload |-> [streak_days |-> 3, new_matches |-> 2, pending_applications |-> 0, focus |-> "can"]]}
  \cup {Ask("flashcard", <<>>, 0) @@ [card |-> [repetitions |-> r, interval |-> 5, ease |-> e]] : r \in 0..2, e \in {130, 250}}

(* the bank, and what is asked of it *)
Question(text, skill, category, type, difficulty) ==
  [text |-> text, skill |-> skill, category |-> category, type |-> type, difficulty |-> difficulty,
   expected |-> IF skill = "rtos" THEN {"mutex", "deadlock"} ELSE {}]
MCSources ==
  <<Question("c1", "c", "curated", "core", "easy"), Question("c2", "c", "curated", "coding", "medium"),
    Question("c1", "c", "templated", "core", "hard"), Question("c3", "c", "company_asked", "core", "hard"),
    Question("r1", "rtos", "curated", "core", "medium"), Question("r2", "rtos", "templated", "applied", "hard"),
    Question("r3", "rtos", "templated", "core", "easy"), Question("r4", "rtos", "company_asked", "core", "easy"),
    Question("k1", "can", "templated", "core", "easy"), Question("k2", "can", "templated", "core", "medium"),
    Question("k3", "can", "curated", "core", "medium"), Question("c4", "c", "templated", "applied", "medium"),
    Question("b1", "behavioral", "behavioral", "behavioral", "easy"),
    Question("b2", "behavioral", "behavioral", "behavioral", "medium"),
    Question("b3", "behavioral", "behavioral", "behavioral", "hard"), Question("h1", "hr", "hr", "hr", "easy")>>
Mock(wanted, weak, count, realistic) ==
  Ask("mock", <<>>, 0) @@ [wanted |-> wanted, weak |-> weak, count |-> count, realistic |-> realistic]
MCInterviews ==
  {Mock(w, k, n, r) : w \in {<<>>, <<"c", "rtos">>, <<"can", "c", "rtos">>, <<"c", "c", "can">>, <<"git">>},
                      k \in {{}, {"rtos"}, {"c", "can"}, {"uds"}}, n \in {3, 5, 8}, r \in BOOLEAN}
  \cup {Ask("lesson", <<>>, 0)}
  \cup {Ask("answers", <<>>, 0) @@ [count |-> n, said |-> s] : n \in {0, 4},
          s \in {<<>>, [q \in {1, 4, 99} |-> {"mutex", "is", "locking"}], [q \in {1, 4, 12} |-> {"deadlock", "mutex"}],
                 [q \in {4} |-> {}]}}
MCKits ==
  {Ask("kit", <<A, B, E>>, 0) @@ [job |-> j, subrole |-> s] : j \in {"a", "e", "z"}, s \in {None, "firmware"}}
MCKitBank == [c |-> <<"c1", "c2", "c3", "c4">>, rtos |-> <<"r1", "r2">>]
MCCODING_TOPICS == [c |-> <<"bits", "lists">>, rtos |-> <<"locks", "lists">>]
MCDomainKits == [sales |-> <<"behavioral", "roleplay", "behavioral">>]
MCCurated == [firmware |-> <<"q1", "q2">>]

MCTRACKS == <<{"c"}, {"can", "uds"}, {}, {"rtos", "autosar"}, {"lead generation", "arm"}>>

(* resumes *)
Line(section, skills, years) ==
  [section |-> section, skills |-> skills, years |-> years, dates |-> None, company |-> None, role |-> None,
   degree |-> section = "education"]
Worked(from, to, company) ==
  [Line(None, {"c", "can"}, FALSE) EXCEPT !.dates = [start |-> from, end |-> to], !.company = company, !.role = "engineer"]
Sheet == [email |-> TRUE, phone |-> TRUE, verbs |-> 6, numbers |-> 4, words |-> 400, cliches |-> FALSE]
Texts ==
  {<<>>, <<Line("skills", {"c", "rtos"}, FALSE), Line(None, {"can", "arm"}, FALSE), Line("experience", {"c"}, TRUE),
           Worked(2016, 2019, "bosch"), Line("education", {}, FALSE), Worked(2020, None, None)>>,
   <<Line("summary", {"uds", "can"}, TRUE), Line("skills", {"can"}, FALSE), Line("projects", {"rtos", "can"}, FALSE),
     Line("skills", {"git"}, FALSE), Line(None, {"can", "lead generation"}, FALSE), Worked(2021, 2018, None)>>,
   [i \in 1..3 |-> Line(IF i = 1 THEN "skills" ELSE None, EmbeddedWords \cup {"c++", "crm", "excel"}, i = 2)]}
MCResumes ==
  {Ask("resume", <<>>, 0) @@ [text |-> t, sheet |-> s, posting |-> <<Line(None, {"can", "uds", "c"}, FALSE)>>] : t \in Texts,
     s \in {Sheet, [Sheet EXCEPT !.email = FALSE, !.words = 1200, !.cliches = TRUE], [Sheet EXCEPT !.words = 0, !.verbs = 1]}}
  \cup {Ask("domains", <<>>, 0) @@ [text |-> t, said |-> [title |-> w, body |-> b]] : t \in Texts,
          w \in {{}, {"firmware engineer"}, {"nurse"}, {"developer"}},
          b \in {{}, {"rtos", "can", "firmware engineer"}, {"crm", "account executive", "prospecting"}, {"developer", "nurse"}}}
MCInferences == {None, <<>>, <<"rtos", "excel">>, <<"AUTOSAR", "autosar", "git">>}
MCAsked == {None, 0, 2}
Domain(code, parent, roles) == [code |-> code, name |-> code, parent |-> parent, roles |-> roles]
MCTAXONOMY ==
  <<Domain("software_it", None, {"developer"}), Domain("embedded_engineering", "software_it", {"embedded"}),
    Domain("firmware", "embedded_engineering", {"firmware engineer"}), Domain("sales", None, {"account executive"}),
    Domain("healthcare", None, {"nurse"}), Domain("other", None, {})>>
MCPLUGGED == [embedded_engineering |-> EmbeddedWords, software_it |-> {"git", "c++"}, sales |-> {"crm", "prospecting"}]

(* briefs *)
Row(has) == [version |-> 1, has |-> has, known |-> {"CAN"}, target |-> "AUTOSAR Engineer"]
MCGround ==
  {Ask("ground", <<>>, 0) @@ [layers |-> l, rows |-> r, row |-> t] :
     l \in {{}, {"skills", "goals", "market", "salary"}},
     r \in {{}, {"users", "skill_nodes", "applications", "daily_checkins", "discovered_jobs", "recommendations"}},
     t \in {None, Row({"skills", "salary", "streak"}), [Row({"goals", "projects", "dream", "skills"}) EXCEPT !.target = None]}}
(* what the agents ask, and are told *)
Wordy == [role |-> 20, level |-> 6, location |-> 9, skills |-> [i \in 1..20 |-> 60], strengths |-> <<300, 200>>,
          weaknesses |-> <<400, 300, 200, 100, 50, 40>>, scores |-> <<2, 2>>]
Hoarder == [Wordy EXCEPT !.skills = [i \in 1..220 |-> 80]]
Posting(chars) ==
  [title |-> 30, company |-> 10, skill |-> 4, required |-> <<10, 12>>, missing |-> <<12>>,
   description |-> Text(chars, <<{90, 9000}, {}, {}, {100, 7000}>>)]
Memory(chars, priority) == [name |-> 8, chars |-> chars, priority |-> priority]
Agent(agent, text) ==
  Ask("agent", <<>>, 0) @@
  [agent |-> agent, twin |-> None, posting |-> Posting(200), memories |-> <<>>, message |-> Plain(30),
   provider |-> [enabled |-> TRUE, local |-> FALSE, key |-> TRUE],
   said |-> [short |-> FALSE, repeats |-> FALSE, finish |-> "stop"],
   configured |-> NoAlias, overridden |-> NoAlias, turns |-> <<900>>, short |-> 1500,
   members |-> [summary |-> "string", score |-> "integer"],
   completion |-> [text |-> text, tokens_in |-> 900, tokens_out |-> 400]]
Object == <<"{", "members", "}">>
Written ==
  {before \o value \o after :
     before \in {<<>>, <<"fence">>, <<"fence", "json", "nl">>, <<"fence", "c-json">>, <<"word", "nl">>, <<"word", "[">>},
     value \in {Object, <<"{", "}">>, <<"[">> \o Object \o <<"]">>, <<"[", "]">>, <<"item">>, <<>>, <<"{", "members">>},
     after \in {<<>>, <<"fence">>, <<"nl", "fence">>, <<"word">>, <<"}">>}}
MCAgents ==
  {[Agent(a, t) EXCEPT !.members = m] :
     a \in {"match", "salary", "roadmap", "chat", "create_flashcards"}, t \in Written,
     m \in {NoAlias, [score |-> "integer", weeks |-> "array", percentile |-> "fraction", other |-> "null"],
            [reasoning |-> "null", cards |-> "object", estimated_min_lpa |-> "integer"]}}
  \cup {[Agent(a, Object) EXCEPT !.twin = t, !.posting = p, !.message = n, !.memories = r] :
          a \in DOMAIN Agents, t \in {None, Wordy, Hoarder}, p \in {Posting(200), Posting(9000), Posting(60000)},
          n \in {Plain(0), Plain(40000)}, r \in {<<>>, <<Memory(400, 3), Memory(6000, 5), Memory(900, 4)>>}}
  \cup {[Agent("match", <<"word">>) EXCEPT !.turns = t, !.short = n, !.configured = c, !.overridden = o, !.provider.local = l] :
          t \in {<<3000>>, <<3001>>, <<90000, 60000, 12000, 200>>}, n \in {None, 0, 1500}, l \in BOOLEAN,
          c \in {NoAlias, [matching |-> "opus", sales |-> "haiku"], [matching |-> "mini"]},
          o \in {NoAlias, [matching |-> "haiku"]}}
(* days of a twin *)
Rated(skill, confidence) == [skill |-> skill, confidence |-> confidence]
Due(skill, day) == [skill |-> skill, due |-> day]
MCTwins ==
  {Ask("twin", <<A, B, C, E>>, 0) @@ [rated |-> r, skill |-> s, today |-> q[1], reviews |-> q[2]] :
     r \in {<<Rated("can", 90)>>, <<Rated("c", 68), Rated("uds", 66), Rated("can", 20)>>,
           <<Rated("git", 0), Rated("excel", 45), Rated("crm", 69), Rated("excel", 120)>>,
           [i \in 1..7 |-> Rated(<<"arm", "autosar", "c", "can", "git", "rtos", "uds">>[i], 80)]},
     s \in {"c", "uds", "excel"},
     q \in {<<1, <<>>>>, <<9, <<Due("c", 4), Due("can", None), Due("uds", 1), Due("rtos", 1)>>>>}}
(* the ledgers of model calls *)
Spent(user, task, model, cost, age) ==
  [user |-> user, task |-> task, model |-> {model}, cost |-> cost, age |-> age, latency |-> 900,
   tokens_in |-> 700, tokens_out |-> IF cost = 0 THEN 0 ELSE 90, cached |-> FALSE]
Handled(tier, task, cost, age) == [tier |-> tier, task |-> task, cost |-> cost, age |-> age, latency |-> 40]
Calls ==
  <<Spent("u", "planning", "sonnet-4", 900, 31), Spent("u", "matching", "haiku", 40, 30), Spent("v", "salary", "opus", 500, 9),
    Spent("u", "mentoring", "sonnet-4", 300, 2), Spent("u", "matching", "haiku", 60, 0), Spent("u", "coding", "opus", 0, 0)>>
Requests ==
  <<Handled("claude", "salary_estimate", 500, 20), Handled("rule", "flashcard_schedule", 0, 9), Handled("hosted", "match_explanation", 3, 4),
    Handled("claude", "match_explanation", 40, 4), Handled("cache", "salary_estimate", 0, 1), Handled(None, "mentor_chat", 300, 0)>>
Learner == [updated |-> 3, learned |-> <<2, 30, 31, None>>, score |-> 70, streak |-> 4]
Counted(hit, tokens, cost) == [hit |-> hit, tokens |-> tokens, cost |-> cost]
MCUsage ==
  {Ask("usage", <<>>, 0) @@
     [rows |-> SubSeq(Calls, n, 6), log |-> SubSeq(Requests, n, 6), user |-> u, limit |-> m, day |-> d, circuit |-> "closed",
      twin |-> t, lessons |-> <<1, 30, 44>>,
      events |-> <<Counted(FALSE, 4000, 15), Counted(TRUE, 0, 900), Counted(FALSE, 0, 15), Counted(TRUE, 0, 0)>>] :
     n \in 1..7, u \in {"u", "v"}, m \in {0, 399, 400, 401}, d \in {1, 5, 21}, t \in {None, Learner}}
One == {CHOOSE p \in Few : TRUE}
MCCases ==
  (MCProfiles \X MCAsks) \cup (Few \X (MCAdvised \cup MCKits \cup MCTwins))
    \cup (One \X (MCGraph \cup MCInterviews \cup MCResumes \cup MCGround \cup MCAgents \cup MCUsage))
MCExtra == {{"arm"}, {"can", "uds"}}
MCHours == [c |-> 40, rtos |-> 35, autosar |-> 80, can |-> 20, arm |-> 30, git |-> 10]
MCPhrases == {"lead generation"}
MCBanked == {"c", "rtos", "can"}
MCPROGRESSION == [sales |-> <<"prospecting", "lead generation", "crm">>]
MCHOURS == [sales |-> [crm |-> 12]]
Pays(s, tenths) == [skill |-> s, premium |-> (tenths * Lakh) \div 10]
MCSKILL_PREMIUM_LPA ==
  <<Pays("autosar", 25), Pays("can", 10), Pays("uds", 14), Pays("rtos", 12), Pays("arm", 8), Pays("c++", 10), Pays("adas", 30)>>
MCDOMAIN_PREMIUM_LPA == [automotive |-> (15 * Lakh) \div 10, consumer |-> Lakh \div 2]
MCLOCATION_FACTOR == [bengaluru |-> 115, delhi |-> 105, mysore |-> 90]
MCCOMPANY_FACTOR == [bosch |-> 115, nvidia |-> 140]
MCLower == [w \in {"AUTOSAR"} |-> "autosar"]
MCCategoryOf == [autosar |-> "automotive", can |-> "protocols", uds |-> "protocols", rtos |-> "rtos_os",
                 c |-> "programming", arm |-> "hardware"]
MCTechStack == [bosch |-> {"autosar", "can", "c"}, nvidia |-> {"c++", "can"}, qualcomm |-> {"c", "arm"}]
MCAlphabet == <<"arm", "autosar", "behavioral", "bosch", "c", "c++", "can", "crm", "excel", "git", "hr", "lead generation",
                "prospecting", "qualcomm", "roleplay", "rtos", "uds">>
MCSimilarity == [p \in {{"rtos", "autosar"}, {"can", "uds"}, {"c", "can"}, {"arm", "rtos"}, {"c", "git"}} |->
                   IF p = {"c", "git"} THEN 15 ELSE 98]
MCAlignment == [a |-> 96, b |-> 100, c |-> 97, e |-> 10]
MCTiers == [bosch |-> "tier2", qualcomm |-> "tier1"]
=============================================================================
