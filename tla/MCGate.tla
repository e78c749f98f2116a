------------------------------- MODULE MCGate -------------------------------
(***************************************************************************)
(* One user's requests to two worker processes: a full route where nothing *)
(* is to be spent; the mentor past a window raced in Redis; a brief raced  *)
(* by the warmer and a lesson; a rewrite; logins alone and with an         *)
(* estimate; an enriched answer and an upload beside an evaluation; and    *)
(* every route without something it may need.                              *)
(***************************************************************************)
EXTENDS Gate, TLC

CONSTANTS w1, w2, p1, p2, p3

All == UNION {Routes[k].needs : k \in DOMAIN Routes}
To(route, w) == [route |-> route, worker |-> w, has |-> All]
Lacks(route, what) == [To(route, w1) EXCEPT !.has = All \ {what}]
Two(a, b) == (p1 :> a) @@ (p2 :> b)
Three(a, b, c) == Two(a, b) @@ (p3 :> c)
Case(max, budget, reqs) == [max |-> max, budget |-> budget, asked |-> reqs]

MCCases ==
  {Case(2, 0, Three(To("code_review", w1), To("code_review", w1), To("code_review", w2))),
   Case(1, 2, Two(To("mentor_chat", w1), To("mentor_chat_stream", w1))),
   Case(1, 1, Three(To("daily_brief", w1), To("warm", w1), To("learn_lesson", w2))),
   Case(1, 1, Two(To("warm", w1), To("resume_rewrite", w2))),
   Case(1, 1, Two(To("warm", w1), To("warm", w1))),
   Case(1, 1, Two(To("salary_estimate", w1), To("warm", w1))),
   Case(1, 1, Three(To("mentor_ask", w1), To("resume_upload", w1), To("interview_evaluate", w2)))}
  \cup {Case(1, 1, Two(Lacks(k, n), To("salary_estimate", w1))) :
          k \in DOMAIN Routes \ {"warm", "daily_brief"}, n \in {"skill", "job", "answer", "message", "twin"}}
=============================================================================
