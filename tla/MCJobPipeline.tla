--------------------------- MODULE MCJobPipeline ----------------------------
(* JobPipeline on a small instance: see the README for the bounds.         *)
EXTENDS JobPipeline

Source(name, ats, company) == [name |-> name, ats |-> ats, company |-> company]
MCSources ==
    <<Source("g", "greenhouse", "acme"), Source("l", "lever", "acme"),
      Source("s", "smartrecruiters", "bolt"), Source("n", "naukri", Blank),
      Source("r", "remoteok", Blank)>>

Job(i, t) == [id |-> i, title |-> t, company |-> "acme"]
Object(jobs) == [kind |-> "object", jobs |-> jobs]
List(jobs) == [kind |-> "list", jobs |-> jobs]
Notice == [id |-> 0, title |-> Blank, company |-> Blank]
Empty == Object(<<>>)

(* The first source lists two jobs in one order or the other; an aggregator *)
(* lists both and a third one, a board one job twice; sources fail, answer  *)
(* in another shape, send broken elements, or none.                         *)
MCBoards ==
    {<<Object(<<Job(1, "x"), Job(2, "y")>>), List(<<>>), Empty, Failed, Failed>>,
     <<Object(<<Job(2, "y"), Job(1, Blank), Job(1, "x")>>), List(<<Broken>>), Failed, Empty,
       List(<<Notice, Job(1, "x"), Job(2, "y"), Job(3, "z")>>)>>,
     <<Object(<<Job(1, "x"), Broken>>), List(<<Job(1, "y"), Job(1, "z")>>), Object(<<Broken>>), Failed,
       List(<<Broken, Job(1, "x"), Job(2, "y"), Job(3, "z")>>)>>,
     <<Failed, Object(<<Job(1, "y")>>), List(<<Job(1, "x")>>), Object(<<Job(1, "x"), Broken>>),
       Object(<<Job(1, "x")>>)>>,
     <<List(<<Job(1, "x")>>), Failed, Object(<<Job(1, "x"), Broken>>), Object(<<Job(1, "x")>>), Failed>>}
=============================================================================
