--------------------------- MODULE MCOrchestrator ---------------------------
(* Orchestrator on a small instance: three requests, two in one process    *)
(* and one in another, tasks of every route, two candidates, two texts     *)
(* that are alike and one that is not.                                     *)
EXTENDS Orchestrator, TLC

CONSTANTS r1, r2, r3, w1, w2

MCTypeOf == [learning_path |-> "summarization", company_summary |-> "summarization",
             mentor_chat |-> "mentoring", classify |-> "domain_classification"]
MCLlmTtl == [summarization |-> 2, mentoring |-> 0, domain_classification |-> 2]
MCNear == {<<"t1", "t2">>, <<"t2", "t1">>}

Grounded(task, text, user) ==
    [task |-> task, text |-> text, system |-> user, grounded |-> TRUE,
     history |-> None, long |-> 0, direct |-> FALSE]

ForBob == Grounded("company_summary", "t2", "bob")

MCAsks == {
    ForBob,
    Grounded("company_summary", "t1", "alice"),
    Grounded("learning_path", "t3", None),
    [Grounded("mentor_chat", "t2", "bob") EXCEPT !.history = "t3"],
    [Grounded("classify", "t1", "classifier") EXCEPT !.direct = TRUE, !.long = 1]}

MCHome == [r \in Requests |-> IF r = r3 THEN w2 ELSE w1]

MCWants == [r \in Requests |-> IF r = r3 THEN {ForBob} ELSE MCAsks]

Symmetry == Permutations({r1, r2})
=============================================================================
