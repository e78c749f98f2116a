------------------------------ MODULE Knowledge ------------------------------
(***************************************************************************)
(* The engines that answer without a model: the skill graph as it is       *)
(* shipped, the questions the graph engine answers from it, and the rules. *)
(*                                                                         *)
(* A query is a sequence of words, each with whether it was typed in       *)
(* capitals; a name of the graph is known by the words of its aliases.     *)
(***************************************************************************)
EXTENDS Matching

-----------------------------------------------------------------------------
(* seeds/knowledge_graph_seed.py: the skills in the order of their names,   *)
(* which is the order of every query of the repository                      *)
NODES ==
  <<"ARM Cortex-M", "ASPICE", "AUTOSAR", "Automotive Ethernet", "BSW", "Bare-metal Firmware",
    "C++", "CAN", "CAN FD", "CANoe", "Embedded C", "Embedded Linux", "FlexRay", "FreeRTOS",
    "Functional Safety (ISO 26262)", "GPIO", "I2C", "JTAG/SWD Debugging", "LIN", "MCAL",
    "MISRA C", "Oscilloscope & Logic Analyzer", "RTE", "RTOS", "SPI", "STM32", "UART", "UDS">>

(* PREREQUISITE_OF; the edges of the other types are asked for by nobody    *)
EDGES ==
  {<<"Embedded C", "C++">>, <<"Embedded C", "GPIO">>, <<"GPIO", "UART">>, <<"UART", "SPI">>,
   <<"UART", "I2C">>, <<"UART", "CAN">>, <<"Embedded C", "CAN">>, <<"CAN", "CAN FD">>,
   <<"CAN", "LIN">>, <<"CAN", "FlexRay">>, <<"CAN", "UDS">>, <<"CAN FD", "Automotive Ethernet">>,
   <<"ARM Cortex-M", "STM32">>, <<"STM32", "Bare-metal Firmware">>,
   <<"Embedded C", "Bare-metal Firmware">>, <<"Bare-metal Firmware", "FreeRTOS">>,
   <<"FreeRTOS", "RTOS">>, <<"Embedded C", "Embedded Linux">>, <<"CAN", "RTOS">>,
   <<"RTOS", "MCAL">>, <<"MCAL", "BSW">>, <<"MCAL", "RTE">>, <<"RTE", "AUTOSAR">>,
   <<"BSW", "AUTOSAR">>, <<"AUTOSAR", "Functional Safety (ISO 26262)">>}

(* role -> skill -> strictly required; the roles in the order of their names *)
RoleNames == <<"AUTOSAR Engineer", "Embedded Firmware Engineer", "Functional Safety Engineer">>
Needs(required, recommended) == [s \in required \cup recommended |-> s \in required]
ROLES(role) ==
  CASE role = "AUTOSAR Engineer" ->
         Needs({"AUTOSAR", "MCAL", "BSW", "RTE", "CAN", "Embedded C"},
               {"Functional Safety (ISO 26262)", "ASPICE"})
    [] role = "Embedded Firmware Engineer" ->
         Needs({"Embedded C", "RTOS", "FreeRTOS", "ARM Cortex-M", "SPI", "I2C", "UART"},
               {"JTAG/SWD Debugging"})
    [] role = "Functional Safety Engineer" ->
         Needs({"Functional Safety (ISO 26262)", "MISRA C", "Embedded C"}, {"AUTOSAR", "ASPICE"})
    [] OTHER -> Needs({}, {})

-----------------------------------------------------------------------------
(* repositories/knowledge_graph_repository.py *)

Node == DOMAIN NODES
Named(K) == LET order == InOrder(K, LAMBDA i, k : i < k) IN [r \in DOMAIN order |-> NODES[order[r]]]
get_by_name(name) == name \in {NODES[i] : i \in Node}

_adjacency(i) == [forward |-> {k \in Node : <<NODES[i], NODES[k]>> \in EDGES},
                  reverse |-> {k \in Node : <<NODES[k], NODES[i]>> \in EDGES}]

(* what a breadth-first walk from i has at distance d, for every d          *)
Walk(i, steps) ==
  LET reach[d \in 0..Len(NODES)] ==
        IF d = 0 THEN [seen |-> {i}, at |-> {i}]
        ELSE LET prev == reach[d - 1]
                 new  == UNION {steps[k] : k \in prev.at} \ prev.seen
             IN [seen |-> prev.seen \cup new, at |-> new]
  IN [d \in 0..Len(NODES) |-> reach[d].at]
Distance(walk, k) == CHOOSE d \in DOMAIN walk : k \in walk[d]
Back == [k \in Node |-> _adjacency(k).reverse]
Ahead == [k \in Node |-> _adjacency(k).forward]

Index(name) == CHOOSE i \in Node : NODES[i] = name

(* the farthest first, then by name *)
FarthestFirst(walk, K) ==
  LET order == InOrder(K, LAMBDA i, k : Distance(walk, i) > Distance(walk, k))
  IN [r \in DOMAIN order |-> NODES[order[r]]]
Behind(walk) == FarthestFirst(walk, UNION {walk[d] : d \in DOMAIN walk \ {0}})
get_prerequisites(skill) ==
  IF get_by_name(skill) THEN Behind(Walk(Index(skill), Back)) ELSE <<>>

get_next_skills(skill) ==
  IF get_by_name(skill) THEN Named(Ahead[Index(skill)]) ELSE <<>>

(* The search for a path: the queue as it is filled, of which the n-th step *)
(* takes the n-th element, and the node from which each was met             *)
Unmet == 0
LastComer(met, i, current, from) == IF i = from THEN Unmet ELSE current        \* mutant
Prev(met, i, current, from) ==
  IF met[i] # Unmet \/ i = from THEN met[i] ELSE current
Search(from, to) ==
  LET step[n \in 0..Len(NODES)] ==
        IF n = 0 THEN [queue |-> <<from>>, prev |-> [i \in Node |-> Unmet]]
        ELSE LET last == step[n - 1]  queue == last.queue  prev == last.prev IN
             IF n > Len(queue) \/ \E m \in 1..n : queue[m] = to THEN last
             ELSE LET ahead == Ahead[queue[n]]
                      new   == {i \in ahead : prev[i] = Unmet /\ i # from}
                  IN [queue |-> queue \o InOrder(new, LAMBDA i, k : i < k),
                      prev  |-> [i \in Node |-> IF i \in ahead THEN Prev(prev, i, queue[n], from)
                                                ELSE prev[i]]]
  IN step[Len(NODES)].prev

Traced(prev, from, to) ==
  LET chain[n \in 0..Len(NODES)] ==
        IF n = 0 THEN <<to>>
        ELSE LET last == chain[n - 1]
             IN IF last[1] = from THEN last ELSE <<prev[last[1]]>> \o last
      path == chain[Len(NODES)]
  IN [n \in DOMAIN path |-> NODES[path[n]]]
PathOn(from, to) ==
  LET prev == Search(from, to)
  IN  IF from # to /\ prev[to] = Unmet THEN <<>> ELSE Traced(prev, from, to)
get_learning_path(from, to) ==
  IF get_by_name(from) /\ get_by_name(to) THEN PathOn(Index(from), Index(to)) ELSE <<>>

get_role_requirements(role) == Named({i \in Node : <<NODES[i], TRUE>> \in
                                        {<<s, ROLES(role)[s]>> : s \in DOMAIN ROLES(role)}})
get_role_requirement_details(role) ==
  [required    |-> get_role_requirements(role),
   recommended |-> Named({i \in Node : NODES[i] \in DOMAIN ROLES(role) /\ ~ROLES(role)[NODES[i]]})]
list_role_names == RoleNames

-----------------------------------------------------------------------------
(* orchestrator/knowledge_graph_engine.py *)

(* the words an alias is made of; a name is its own first alias             *)
Spelled(name) ==
  CASE name = "ARM Cortex-M" -> {<<"arm", "cortex-m">>}
    [] name = "Automotive Ethernet" -> {<<"automotive", "ethernet">>}
    [] name = "AUTOSAR" -> {<<"autosar">>}
    [] name = "C++" -> {<<"c++">>}
    [] name = "CAN" -> {<<"can">>}
    [] name = "CAN FD" -> {<<"can", "fd">>}
    [] name = "Embedded C" -> {<<"embedded", "c">>}
    [] name = "Functional Safety (ISO 26262)" ->
         {<<"functional", "safety">>, <<"iso", "26262">>, <<"functional", "safety", "(iso", "26262)">>}
    [] name = "GPIO" -> {<<"gpio">>}
    [] name = "MCAL" -> {<<"mcal">>}
    [] name = "RTOS" -> {<<"rtos">>}
    [] name = "SPI" -> {<<"spi">>}
    [] name = "UART" -> {<<"uart">>}
    [] OTHER -> {}
_alias_map == {[words |-> a, name |-> i] : a \in UNION {Spelled(NODES[i]) : i \in Node}, i \in Node}
Aliases == {a \in _alias_map : a.words \in Spelled(NODES[a.name])}

_AMBIGUOUS_NAMES == {<<"c">>, <<"can">>, <<"go">>, <<"r">>}
Occurs(words, query, p) ==
  /\ p + Len(words) - 1 <= Len(query)
  /\ \A n \in DOMAIN words : query[p + n - 1].word = words[n]
_ambiguous_ok(words, query) == \E p \in DOMAIN query : Occurs(words, query, p) /\ query[p].upper

(* where each name is first met, a longer alias before a shorter one; two   *)
(* aliases of one length at one place are one alias                         *)
Met(query) ==
  {h \in (DOMAIN query) \X Aliases :
     /\ Occurs(h[2].words, query, h[1])
     /\ h[2].words \in _AMBIGUOUS_NAMES => _ambiguous_ok(h[2].words, query)}
Hits(query) == {[at |-> h[1], words |-> Len(h[2].words), name |-> h[2].name] : h \in Met(query)}
Earlier(h, g) == Lex(<<h.at, -h.words>>, <<g.at, -g.words>>)
FirstHits(hits) == {h \in hits : \A g \in hits : g.name = h.name => ~Earlier(g, h)}
InPlace(hits) ==
  [r \in 1..Cardinality(hits) |->
     NODES[(CHOOSE h \in hits : Cardinality({g \in hits : Earlier(g, h)}) = r - 1).name]]
_ordered_matches(query) == InPlace(FirstHits(Hits(query)))

Says(query, words) == \E p \in DOMAIN query : Occurs(words, query, p)
_NEXT_KEYWORDS == {<<"after">>, <<"next">>, <<"following">>, <<"then", "learn">>, <<"unlock">>, <<"beyond">>}
_wants_next(query) == \E k \in _NEXT_KEYWORDS : Says(query, k)
RoleWords(role) ==
  CASE role = "AUTOSAR Engineer" -> <<"autosar", "engineer">>
    [] role = "Embedded Firmware Engineer" -> <<"embedded", "firmware", "engineer">>
    [] OTHER -> <<"functional", "safety", "engineer">>
_match_role(query) ==
  LET K == {i \in DOMAIN list_role_names : Says(query, RoleWords(list_role_names[i]))}
  IN IF K = {} THEN None ELSE list_role_names[Min(K)]

_hit(intent, subject, list) ==
  [engine |-> "knowledge_graph", confidence |-> 100, intent |-> intent, subject |-> subject, list |-> list]
_fallthrough == [engine |-> "knowledge_graph", confidence |-> None]

_answer_prerequisites(skill) == _hit("prerequisites", skill, get_prerequisites(skill))
_answer_next(skill) == _hit("next_skills", skill, get_next_skills(skill))
_answer_role(role) ==
  LET r == get_role_requirement_details(role)
  IN IF r.required \o r.recommended = <<>> THEN _fallthrough ELSE _hit("role_requirements", role, r)

PathAnswer(from, to) ==
  IF get_by_name(from) /\ get_by_name(to)
  THEN _hit("learning_path", <<from, to>>, get_learning_path(from, to)) ELSE _fallthrough
_answer_learning_path(payload, found) ==
  IF payload.from # None /\ payload.to # None THEN PathAnswer(payload.from, payload.to)
  ELSE IF Len(found) < 2 THEN _fallthrough
  ELSE PathAnswer(found[1], found[Len(found)])

(* the longest name met, the first of them *)
Subject(found) ==
  found[CHOOSE i \in DOMAIN found :
          \A k \in DOMAIN found : /\ Len(found[k]) <= Len(found[i])
                                  /\ k < i => Len(found[k]) < Len(found[i])]
AboutSkills(payload, found) ==
  IF found = <<>> THEN _fallthrough
  ELSE IF payload.intent = "next" \/ (payload.intent # "prerequisites" /\ _wants_next(payload.query))
  THEN _answer_next(Subject(found))
  ELSE _answer_prerequisites(Subject(found))
AboutRoleOrSkills(payload, role, found) ==
  IF role # None /\ payload.intent \notin {"prerequisites", "next"} THEN _answer_role(role)
  ELSE AboutSkills(payload, IF payload.skill = None THEN found ELSE <<payload.skill>> \o found)
_answer(task, payload) ==
  IF task = "learning_path" THEN _answer_learning_path(payload, _ordered_matches(payload.query))
  ELSE AboutRoleOrSkills(payload,
         IF payload.role = None THEN _match_role(payload.query) ELSE payload.role,
         _ordered_matches(payload.query))

-----------------------------------------------------------------------------
(* orchestrator/rule_engine.py *)

_daily_brief(payload) ==
  [streak |-> payload.streak_days, matches |-> payload.new_matches,
   pending |-> payload.pending_applications, focus |-> payload.focus]

(* simplified SM-2; the ease factor in hundredths *)
Interval(card) ==
  IF card.repetitions = 0 THEN 1 ELSE IF card.repetitions = 1 THEN 6
  ELSE Round(card.interval * card.ease, 100)
Eased(ease, quality) == Max({130, ease + 10 - (5 - quality) * (8 + (5 - quality) * 2)})
_flashcard_schedule(card, quality) ==
  [repetitions |-> IF quality < 3 THEN 0 ELSE card.repetitions + 1,
   interval    |-> IF quality < 3 THEN 1 ELSE Interval(card),
   ease        |-> Eased(card.ease, quality)]
=============================================================================
