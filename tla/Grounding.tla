------------------------------ MODULE Grounding ------------------------------
(***************************************************************************)
(* knowledge/: what is known of a user, assembled layer by layer, one      *)
(* provider after the other on the session of the request, to ground what  *)
(* a model is asked.  Other requests commit in between.                    *)
(*                                                                         *)
(* Of a layer's facts the model keeps which version of the career twin     *)
(* they were read from, and the salaries of the market.                    *)
(***************************************************************************)
EXTENDS Knowledge

CONSTANT MaxErrors   \* bounds the providers that raise of themselves

VARIABLES
  twin_row,   \* None, or the career twin as committed: [version, has, target]
  ground      \* None, or an assembly: what is loaded, skipped and stashed
grounding == <<twin_row, ground>>

Layers ==
  <<"user", "career_twin", "memory", "knowledge_graph", "skills", "companies", "jobs", "projects",
    "learning", "interview", "market", "salary", "goals", "habits", "health", "professional_growth">>
PLANNED == {"health"}
selected(layers) == IF layers = {} THEN {Layers[i] : i \in DOMAIN Layers} ELSE layers

(* rows: which tables have rows of the user (or, for the graph and the     *)
(* discovered jobs, any rows at all)                                       *)
Assembly(layers, rows) ==
  [at |-> 1, want |-> selected(layers), rows |-> rows, layers |-> NoAlias, skipped |-> NoAlias,
   stash |-> None, aborted |-> FALSE]

(* providers/_shared.py load_twin: the stashed twin, or what is committed  *)
StashesNothing(g) == twin_row                                        \* mutant
load_twin(g) == IF g.stash # None THEN g.stash ELSE twin_row

(* A provider answers from the twin, from rows of its own, or has no data. *)
Has(twin, what) == twin # None /\ what \in twin.has
Facts(twin) == [version |-> IF twin = None THEN 0 ELSE twin.version]
Own(g, tables) == IF tables \cap g.rows = {} THEN None ELSE [rows |-> tables \cap g.rows]

UserProvider(g) == Own(g, {"users", "candidate_profiles"})
MemoryProvider(g) == Own(g, {"memory_entries"})
KnowledgeGraphProvider(g) == Own(g, {"skill_nodes"})
JobsProvider(g) == Own(g, {"applications", "recommendations"})
LearningProvider(g) == Own(g, {"learning_roadmaps"})
MarketProvider(g) == Own(g, {"discovered_jobs"})

CareerTwinProvider(twin) == IF twin = None THEN None ELSE Facts(twin)
(* the skills a role or a skill that is aimed at asks for *)
Missing(target, known) ==
  LET asked == get_role_requirements(target)
  IN SelectSeq(IF asked = <<>> THEN get_prerequisites(target) ELSE asked, LAMBDA s : s \notin known)
SkillsProvider(twin) ==
  IF ~Has(twin, "skills") THEN None
  ELSE [version |-> twin.version,
        missing |-> IF twin.target = None THEN <<>> ELSE Missing(twin.target, twin.known)]
CompaniesProvider(g, twin) ==
  IF Has(twin, "dream") \/ "recommendations" \in g.rows THEN Facts(twin) ELSE None
ProjectsProvider(twin) == IF Has(twin, "projects") THEN Facts(twin) ELSE None
InterviewProvider(g, twin) ==
  IF twin # None \/ "interview_sessions" \in g.rows THEN Facts(twin) ELSE None
(* the user's own numbers only where there is no twin *)
SalaryProvider(g, twin) ==
  IF Has(twin, "salary") \/ (twin = None /\ "users" \in g.rows)
  THEN [version |-> Facts(twin).version, market |-> "market" \in DOMAIN g.layers] ELSE None
GoalsProvider(twin) == IF Has(twin, "goals") THEN Facts(twin) ELSE None
HabitsProvider(g, twin) ==
  IF Has(twin, "streak") \/ "daily_checkins" \in g.rows THEN Facts(twin) ELSE None
ProfessionalGrowthProvider(g, twin) ==
  IF twin # None \/ "applications" \in g.rows THEN Facts(twin) ELSE None

OfTheTwin == {"career_twin", "skills", "companies", "projects", "interview", "salary", "goals", "habits",
              "professional_growth"}
Provided(g, layer, twin) ==
  CASE layer = "user" -> UserProvider(g)
    [] layer = "memory" -> MemoryProvider(g)
    [] layer = "knowledge_graph" -> KnowledgeGraphProvider(g)
    [] layer = "jobs" -> JobsProvider(g)
    [] layer = "learning" -> LearningProvider(g)
    [] layer = "market" -> MarketProvider(g)
    [] layer = "career_twin" -> CareerTwinProvider(twin)
    [] layer = "skills" -> SkillsProvider(twin)
    [] layer = "companies" -> CompaniesProvider(g, twin)
    [] layer = "projects" -> ProjectsProvider(twin)
    [] layer = "interview" -> InterviewProvider(g, twin)
    [] layer = "salary" -> SalaryProvider(g, twin)
    [] layer = "goals" -> GoalsProvider(twin)
    [] layer = "habits" -> HabitsProvider(g, twin)
    [] layer = "professional_growth" -> ProfessionalGrowthProvider(g, twin)

-----------------------------------------------------------------------------
(* KnowledgeAssembler.assemble, one layer at a time *)

Now == Layers[ground.at]
Stashed(g, twin) == IF Now \in OfTheTwin /\ twin # None THEN [g EXCEPT !.stash = twin] ELSE g
With(held, layer, data) ==
  [l \in DOMAIN held \cup {layer} |-> IF l = layer THEN data ELSE held[l]]
set_layer(g, data) == [g EXCEPT !.layers = With(@, Now, data)]
mark_skipped(g, reason) == [g EXCEPT !.skipped = With(@, Now, reason)]
Passes(g) == ground' = [g EXCEPT !.at = @ + 1] /\ UNCHANGED twin_row

Assembling == ground # None /\ ground.at <= Len(Layers)
Unwanted == Assembling /\ Now \notin ground.want /\ Passes(ground)
Planned == Assembling /\ Now \in ground.want \cap PLANNED /\ Passes(mark_skipped(ground, "planned"))

Kept(g, data) == IF data = None THEN mark_skipped(g, "no_data") ELSE set_layer(g, data)
(* a failed statement aborts the database's transaction: what needs no     *)
(* query still answers, everything else raises until the request is over   *)
AsksNothing(g) ==
  g.stash # None /\ (Now \in {"career_twin", "projects", "salary", "goals"}
                      \/ (Now = "skills" /\ (~Has(g.stash, "skills") \/ g.stash.target = None)))
Provides ==
  /\ Assembling /\ Now \in ground.want \ PLANNED
  /\ ground.aborted => AsksNothing(ground)
  /\ Passes(Kept(Stashed(ground, load_twin(ground)), Provided(ground, Now, load_twin(ground))))

(* a provider that raises is skipped, its twin stashed or not *)
Errors(g) == Cardinality({l \in DOMAIN g.skipped : g.skipped[l] = "error"})
Fails ==
  /\ Assembling /\ Now \in ground.want \ PLANNED
  /\ ~ground.aborted /\ Errors(ground) < MaxErrors
  /\ \E aborts \in BOOLEAN, g \in {ground, Stashed(ground, load_twin(ground))} :
       Passes([mark_skipped(g, "error") EXCEPT !.aborted = aborts])
Refused ==
  /\ Assembling /\ Now \in ground.want \ PLANNED
  /\ ground.aborted /\ ~AsksNothing(ground)
  /\ Passes(mark_skipped(ground, "error"))

(* what is in the brief; gateway.run puts a persona in front of it         *)
to_brief(g) == SelectSeq(Layers, LAMBDA l : l \in DOMAIN g.layers)
orchestrator_context(g, persona) ==
  [system |-> (IF persona = None THEN <<>> ELSE <<persona>>) \o to_brief(g)]

(* another request builds or changes the twin *)
TwinChanges ==
  /\ Assembling
  /\ twin_row' = IF twin_row = None
                  THEN [version |-> 1, has |-> {"skills", "salary", "goals"}, known |-> {"CAN"}, target |-> "MCAL"]
                  ELSE [twin_row EXCEPT !.version = @ + 1]
  /\ twin_row # None => twin_row.version < 3
  /\ UNCHANGED ground

AssembleNext == Unwanted \/ Planned \/ Provides \/ Fails \/ Refused \/ TwinChanges

-----------------------------------------------------------------------------
(* Whatever the user's other requests do to the career twin while a brief  *)
(* is assembled, and whichever of its layers fail, the layers of a brief   *)
(* that are read from the twin are of one version of it; one that was read *)
(* when there was no twin yet may stand before them.                       *)
OneTwinInABrief ==
  ground # None =>
    \A l, k \in DOMAIN ground.layers \cap OfTheTwin :
      0 \in {ground.layers[l].version, ground.layers[k].version}
        \/ ground.layers[l].version = ground.layers[k].version
=============================================================================
