--------------------------- MODULE MCApplications ----------------------------
(* Two requests at once, of every kind, and some threes *)
EXTENDS Practice, TLC

R(n) == <<"resume", 0, n>>
Resume(primary, skills) == [status |-> "parsed", primary |-> primary, skills |-> skills]
Noted(n, read) == (<<"app", 0, n>> :> [job |-> 2, resume |-> R(1), scored |-> R(1)])
                    @@ (<<"note", 0, n>> :> [job |-> 2, read |-> read])
Profiled == Profile :> [by |-> 0]

MCBeginnings ==
  {Nothing,
   Profiled @@ Noted(1, FALSE) @@ Noted(2, FALSE)
     @@ (R(1) :> Resume(TRUE, {"c", "can"})) @@ (R(2) :> Resume(FALSE, {"c"})),
   Profiled @@ Noted(1, TRUE)
     @@ (R(1) :> Resume(FALSE, {"c", "can"})) @@ (R(2) :> Resume(FALSE, None)),
   Profiled @@ (R(1) :> Resume(TRUE, {"c"})) @@ (R(2) :> Resume(TRUE, {"can"}))}

Doing(do) == [do |-> do]
Approve == [do |-> "approve", job |-> 2]
Primary(n) == [do |-> "set_primary", id |-> R(n)]
Upload(primary) == [do |-> "upload", primary |-> primary, skills |-> {"can"}]
Delete == [do |-> "delete", id |-> R(1)]
Verify(s) == [do |-> "verify", skill |-> s]
MarkRead == [do |-> "mark_read", id |-> <<"note", 0, 1>>]
Lost == [do |-> "approve", job |-> 9]

Asked == <<Approve, Doing("auto"), Primary(1), Primary(2), Upload(TRUE), Upload(FALSE), Delete,
           Verify("arm"), Verify("can"), [do |-> "rewrite", id |-> R(1)], Doing("mark_all_read"),
           MarkRead, Lost>>
MCCalls ==
  {<<Asked[e[1]], Asked[e[2]], None>> : e \in {d \in (DOMAIN Asked) \X (DOMAIN Asked) : d[1] <= d[2]}}
   \cup {<<Primary(1), Primary(2), Approve>>, <<Primary(1), Upload(TRUE), Doing("auto")>>,
         <<Verify("arm"), Primary(2), Delete>>, <<Upload(TRUE), Upload(TRUE), Upload(FALSE)>>,
         <<Doing("mark_all_read"), MarkRead, Doing("auto")>>, <<Primary(2), Verify("arm"), Verify("can")>>}

(* the day's other requests: two at once, and some threes *)
Twin == TwinId :> [strengths |-> {"c"}, weaknesses |-> {"uds"}, 
                      confidence |-> [x \in {"c", "can"} |-> IF x = "c" THEN 60 ELSE 3], history |-> 0]
Interview == <<"interview", 0, 0>>
Planned == Interview :> [done |-> FALSE, score |-> None]
Before(day, n) == <<"checkin", 0, n>> :> [day |-> day, tasks |-> 1]
Said == (<<"turn", 0, 1>> :> Turn("user")) @@ (<<"turn", 0, 2>> :> Turn("assistant"))
CheckIn(n) == [do |-> "checkin", tasks |-> n]
Outcome(type, skills) == [do |-> "feedback", type |-> type, skills |-> skills]
Scored(n) == [do |-> "evaluate", id |-> Interview, score |-> n,
              strong |-> IF n > 50 THEN {"arm"} ELSE {}, weak |-> IF n > 80 THEN {} ELSE {"can"}]
Chat(consent) == [do |-> "chat", consent |-> consent]
Days == <<CheckIn(1), CheckIn(3), Outcome("offer", {"can", "arm"}), Outcome("rejected", {"can"}),
          Outcome("interview", {"uds"}), Outcome("saved", {"can"}), Outcome("offer", {}), Scored(90), Scored(60), Scored(30),
          [do |-> "prepare", skills |-> None], Doing("advise"), [do |-> "judge", weak |-> {"c"}], Doing("agent"),
          Chat(TRUE), Chat(FALSE), Doing("summarize"), Doing("clear")>>
MCTalks ==
  {<<<<Days[e[1]], Days[e[2]], None>>, found>> :
     e \in {d \in (DOMAIN Days) \X (DOMAIN Days) : d[1] <= d[2]},
     found \in {Nothing, Twin @@ Planned @@ Said @@ Before(0, 1) @@ Before(1, 2) @@ Before(3, 3)}}
  \cup {<<<<CheckIn(2), CheckIn(1), CheckIn(3)>>, found>> : found \in {Nothing, Before(1, 1)}}
  \cup {<<<<Outcome("offer", {"can"}), Outcome("rejected", {"c"}), Scored(90)>>, Twin @@ Planned>>}
MCNeeds == [j \in 1..2 |-> IF j = 1 THEN {"c"} ELSE {"c", "can"}]
MCJobs == 1..2
=============================================================================
