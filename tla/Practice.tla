------------------------------ MODULE Practice -------------------------------
(***************************************************************************)
(* The rest of a day's requests, beside Applications and in the same kind  *)
(* of transactions: check-ins (services/daily_coach_service.py), feedback  *)
(* (feedback_service.py), mock interviews (mock_interview_service.py), and *)
(* the agents that talk to a model (agents/, llm/conversation_manager.py,  *)
(* mentor_service.py, training/capture.py).  What a model answers is left  *)
(* out but for whether it can be used.                                     *)
(***************************************************************************)
EXTENDS Applications

CONSTANTS
  Talks,        \* pairs of what the requests ask and the tables they find
  Threshold     \* messages a conversation has before it is summarized

TwinId == <<"twin", 0, 0>>
HasTwin(p) == TwinId \in DOMAIN View(p)
Mine(table, p, n) == <<table, p, n>>
Positive == {"shortlisted", "interview", "offer"}

PracticeInit ==
  \/ Init
  \/ /\ \E talk \in Talks : call = talk[1] /\ SessionInit(talk[2])
     /\ h = [p \in Requests |-> Fresh]
     /\ answer = [p \in Requests |-> None]
     /\ faults = 0

FirstOf ==
  [checkin |-> "day", feedback |-> "event", prepare |-> "kit", evaluate |-> "session",
   advise |-> "ask", judge |-> "model", agent |-> "model", chat |-> "model",
   summarize |-> "count", clear |-> "turns"]

(* Tables are found as requests of earlier days left them, and requests    *)
(* name rows of the table their path says.                                 *)
Applies == {"approve", "auto", "verify", "upload", "set_primary", "delete", "rewrite",
            "mark_read", "mark_all_read"}
ASSUME FoundAssumption ==
  \A found \in Beginnings \cup {talk[2] : talk \in Talks} :
    /\ IsFiniteSet(DOMAIN found)
    /\ \A i \in DOMAIN found :
         /\ DOMAIN found[i] # {} /\ i[2] = 0
         /\ i[1] = "resume" => /\ DOMAIN found[i] = {"status", "primary", "skills"}
                               /\ found[i].status = "parsed"
         /\ i[1] = "app" => found[i].resume = found[i].scored
         /\ i[1] = "checkin" => DOMAIN found[i] = {"day", "tasks"} /\ found[i].tasks \in Nat
         /\ i[1] = "twin" =>
              /\ i = TwinId
              /\ DOMAIN found[i] = {"strengths", "weaknesses", "confidence", "history"}
ASSUME AskedAssumption ==
  \A asked \in Calls \cup {talk[1] : talk \in Talks} : \A p \in Requests :
    asked[p] # None =>
      /\ asked[p].do \in Applies \cup DOMAIN FirstOf
      /\ asked[p].do \in {"set_primary", "delete", "rewrite"} => asked[p].id[1] = "resume"
      /\ asked[p].do = "evaluate" => asked[p].id[1] = "interview"
      /\ asked[p].do = "checkin" => asked[p].tasks \in Nat

Practises(p) == call[p] # None /\ Does(p) \in DOMAIN FirstOf

Sit(p) == h[p].at = "arrived" /\ Begins(p) /\ Goes(p, FirstOf[Does(p)])

(* a statement of a session that is still good                             *)
Runs(p, statement) == h[p].at = statement /\ p \notin dead
Keeps(p, value, to) ==
  /\ h' = [h EXCEPT ![p].copy = value, ![p].at = to]
  /\ UNCHANGED <<call, answer, faults>>

-----------------------------------------------------------------------------
(* Check-ins: the day's row is looked for, then written.                   *)

Today(p) == {i \in Table("checkin", View(p)) : View(p)[i].day = 0}

get_for_date(p) ==
  /\ Runs(p, "day")
  /\ IF Cardinality(Today(p)) > 1 THEN Raises(p)
     ELSE Reads(p) /\ Keeps(p, {<<i, View(p)[i].tasks>> : i \in Today(p)}, "checkin")

Started(p) == Write(p, Mine("checkin", p, 0), [day |-> 0, tasks |-> call[p].tasks])
AlwaysStarts(p) ==                                                   \* mutant
  /\ Runs(p, "checkin")
  /\ Started(p)
  /\ Goes(p, "streak")
check_in(p) ==
  /\ Runs(p, "checkin")
  /\ \/ h[p].copy = {} /\ Started(p)
     \/ \E found \in h[p].copy :
          IF call[p].tasks > found[2]
          THEN Write(p, found[1], [View(p)[found[1]] EXCEPT !.tasks = call[p].tasks])
          ELSE Reads(p)
  /\ Goes(p, "streak")

(* how many days in a row, up to today or else yesterday                   *)
_streak(days) ==
  LET start == IF 0 \in days THEN 0 ELSE 1
  IN Cardinality({d \in days : \A e \in start..d : e \in days} \ (0..(start - 1)))
CountStreak(p) ==
  /\ Runs(p, "streak")
  /\ Reads(p)
  /\ Keeps(p, _streak({View(p)[i].day : i \in Table("checkin", View(p))}), "commit")

-----------------------------------------------------------------------------
(* Feedback: the event is stored; a strong outcome teaches the twin, whose *)
(* columns are copied when it is read and written back whole.              *)

(* what a request adds to the twin's strengths                             *)
Lesson(p) ==
  CASE call[p] # None /\ Does(p) = "feedback" /\ call[p].type \in Positive -> call[p].skills
    [] call[p] # None /\ Does(p) = "evaluate" -> call[p].strong
    [] OTHER -> {}

record_feedback(p) ==
  /\ Runs(p, "event")
  /\ Write(p, Mine("event", p, 0), [type |-> call[p].type, skills |-> call[p].skills])
  /\ Goes(p, "lesson")

ReadTwin(p) ==
  /\ Runs(p, "lesson")
  /\ Reads(p)
  /\ IF ~HasTwin(p) \/ call[p].skills = {} THEN Goes(p, "commit")
     ELSE IF call[p].type \in Positive THEN Keeps(p, View(p)[TwinId], "strengths")
     ELSE IF call[p].type = "rejected" THEN Keeps(p, View(p)[TwinId], "confidence")
     ELSE Goes(p, "commit")

(* A flush writes the columns that differ from what was loaded.            *)
Flushed(p, twin) ==
  [column \in DOMAIN View(p)[TwinId] |->
     IF twin[column] = h[p].copy[column] THEN View(p)[TwinId][column] ELSE twin[column]]
Saves(p, twin) == IF twin = h[p].copy THEN Reads(p) ELSE Write(p, TwinId, Flushed(p, twin))

ForgetsTheOld(p) ==                                                  \* mutant
  /\ Runs(p, "strengths")
  /\ Saves(p, [h[p].copy EXCEPT !.strengths = call[p].skills])
  /\ Goes(p, "commit")
_apply_strengths(p) ==
  /\ Runs(p, "strengths")
  /\ Saves(p, [h[p].copy EXCEPT !.strengths = @ \cup call[p].skills])
  /\ Goes(p, "commit")

(* in hundredths                                                           *)
Lowered(confidence, skills, by) ==
  [s \in DOMAIN confidence |-> IF s \in skills THEN Max({0, confidence[s] - by}) ELSE confidence[s]]
_apply_rejection(p) ==
  /\ Runs(p, "confidence")
  /\ Saves(p, [h[p].copy EXCEPT !.confidence = Lowered(@, call[p].skills, 5)])
  /\ Goes(p, "commit")

-----------------------------------------------------------------------------
(* Mock interviews.                                                        *)

generate(p) ==
  /\ Runs(p, "kit")
  /\ IF call[p].skills = None /\ ~HasTwin(p) THEN Raises(p)
     ELSE /\ Write(p, Mine("interview", p, 0), [done |-> FALSE, score |-> None])
          /\ Goes(p, "commit")

evaluate(p) ==
  /\ Runs(p, "session")
  /\ LET i == call[p].id
     IN IF i \notin DOMAIN View(p) THEN Raises(p)
        ELSE /\ Free(p, i)
             /\ Write(p, i, [done |-> TRUE, score |-> call[p].score])
             /\ Goes(p, IF call[p].score \in 50..84 THEN "feed" ELSE "remember")

(* a win or a setback, best effort                                         *)
RememberScore(p) ==
  /\ Runs(p, "remember")
  /\ Write(p, Mine("memory", p, 0), [score |-> call[p].score])
  /\ Goes(p, "feed")

(* update_after_interview, and add_interview_result, which rewrites the    *)
(* strengths, the weaknesses and the confidences of the twin as well as    *)
(* its history, all from what was loaded                                   *)
ReadHistory(p) ==
  /\ Runs(p, "feed")
  /\ Reads(p)
  /\ LET after == IF Does(p) = "judge" THEN "memory" ELSE "commit"
     IN IF HasTwin(p) THEN Keeps(p, View(p)[TwinId], "result") ELSE Goes(p, after)
add_interview_result(p) ==
  /\ Runs(p, "result")
  /\ Saves(p, [h[p].copy EXCEPT !.history = @ + 1,
                                !.strengths = @ \cup Lesson(p),
                                !.weaknesses = @ \cup call[p].weak,
                                !.confidence = Lowered(@, call[p].weak, 15)])
  /\ Goes(p, IF Does(p) = "judge" THEN "memory" ELSE "commit")

-----------------------------------------------------------------------------
(* Conversations: the question is stored before the model is asked, the    *)
(* answer after it, in the transaction of the request.                     *)

Turn(role) == [role |-> role]

CommitsQuestion(p) ==                                                \* mutant
  /\ Runs(p, "ask")
  /\ rows' = Over([i \in {Mine("turn", p, 1)} |-> Turn("user")], View(p))
  /\ UNCHANGED <<edits, dead, open, overlap>>
  /\ Goes(p, "model")
add_question(p) ==
  /\ Runs(p, "ask")
  /\ Write(p, Mine("turn", p, 1), Turn("user"))
  /\ Goes(p, "model")

(* an agent parses what it gets and raises when it cannot; chat falls back *)
(* to the deterministic advisor; what a caller consented to is captured    *)
Told(p) ==
  CASE Does(p) = "advise" -> "answer"
    [] Does(p) = "judge" -> "feed"
    [] Does(p) = "agent" -> "memory"
    [] Does(p) = "summarize" -> "summary"
    [] Does(p) = "chat" -> "commit"
handle(p) ==
  /\ Runs(p, "model")
  /\ Reads(p)
  /\ Goes(p, IF Does(p) = "chat" /\ call[p].consent THEN "capture" ELSE Told(p))
ModelFails(p) ==
  /\ Runs(p, "model")
  /\ IF Does(p) = "chat" THEN Reads(p) /\ Goes(p, "context") ELSE Raises(p)

(* _build_context: whatever its SELECTs raise is caught                    *)
BuildContext(p) ==
  /\ h[p].at = "context"
  /\ Reads(p) /\ Goes(p, "commit")

(* TrainingCapture.on_result: the served answer, then a shadow model's     *)
Capture(p) ==
  /\ Runs(p, "capture")
  /\ Write(p, Mine("capture", p, 1), [of |-> None])
  /\ Goes(p, "shadow")
Shadow(p) ==
  /\ Runs(p, "shadow")
  /\ \/ Write(p, Mine("capture", p, 2), [of |-> Mine("capture", p, 1)])
     \/ Reads(p)
  /\ Goes(p, Told(p))

add_answer(p) ==
  /\ Runs(p, "answer")
  /\ Write(p, Mine("turn", p, 2), Turn("assistant"))
  /\ Goes(p, "memory")

_store_memory(p) ==
  /\ Runs(p, "memory")
  /\ Write(p, Mine("memory", p, 0), [score |-> None])
  /\ Goes(p, "commit")

Turns(p) == {i \in Table("turn", View(p)) : View(p)[i].role # "system"}
summarize_if_long(p) ==
  /\ Runs(p, "count")
  /\ Reads(p) /\ Goes(p, IF Cardinality(Turns(p)) > Threshold THEN "model" ELSE "commit")
AddSummary(p) ==
  /\ Runs(p, "summary")
  /\ Write(p, Mine("turn", p, 3), Turn("system"))
  /\ Goes(p, "commit")

clear(p) ==
  /\ Runs(p, "turns")
  /\ LET K == Table("turn", View(p))
     IN /\ \A i \in K : Free(p, i)
        /\ edits' = [edits EXCEPT ![p] = Over([i \in K |-> Gone], @)]
  /\ UNCHANGED <<rows, dead, open, overlap>>
  /\ Goes(p, "commit")

-----------------------------------------------------------------------------
(* What a statement on a dead session raises ends the request, except in    *)
(* _build_context.                                                         *)
StatementRaises(p) ==
  /\ p \in dead /\ h[p].at \notin {"commit", "context", "done"}
  /\ Raises(p)

(* A statement fails.  Best effort is made for a memory, a capture, and    *)
(* the usage row of a model's call: there the session dies unnoticed.      *)
BestEffort(p) ==
  CASE h[p].at = "remember" -> "feed"
    [] h[p].at = "memory" -> "commit"
    [] h[p].at \in {"capture", "shadow", "model"} -> Told(p)
PracticeFault(p) ==
  /\ faults < MaxFaults /\ p \in open /\ (p \notin dead \/ h[p].aborted)
  /\ faults' = faults + 1
  /\ \/ /\ h[p].at \in {"remember", "memory", "capture", "shadow", "model"}
        /\ Dies(p)
        /\ h' = [h EXCEPT ![p].at = BestEffort(p)] /\ UNCHANGED <<call, answer>>
     \/ /\ h[p].at = "context"
        /\ \E aborted \in BOOLEAN :
             h' = [h EXCEPT ![p].aborted = aborted, ![p].at = "commit"]
        /\ Dies(p) /\ UNCHANGED <<call, answer>>
     \/ /\ h[p].at \notin {"remember", "memory", "capture", "shadow", "model", "context"}
        /\ RollsBack(p) \/ (h[p].at = "commit" /\ Commits(p))
        /\ Ends(p, Refused)

Practise(p) ==
  \/ Sit(p) \/ get_for_date(p) \/ check_in(p) \/ CountStreak(p)
  \/ record_feedback(p) \/ ReadTwin(p) \/ _apply_strengths(p) \/ _apply_rejection(p)
  \/ generate(p) \/ evaluate(p) \/ RememberScore(p) \/ ReadHistory(p) \/ add_interview_result(p)
  \/ add_question(p) \/ handle(p) \/ ModelFails(p) \/ BuildContext(p)
  \/ Capture(p) \/ Shadow(p) \/ add_answer(p) \/ _store_memory(p)
  \/ summarize_if_long(p) \/ AddSummary(p) \/ clear(p)
  \/ StatementRaises(p) \/ Commit(p) \/ CommitVanishes(p) \/ CommitRaises(p)

Serve(p) == (Practises(p) /\ Practise(p)) \/ (~Practises(p) /\ Step(p))
Fails(p) == (Practises(p) /\ PracticeFault(p)) \/ (~Practises(p) /\ Fault(p))

PracticeNext == \E p \in Requests : Serve(p) \/ Fails(p)
PracticeSpec ==
  PracticeInit /\ [][PracticeNext]_vars /\ \A p \in Requests : WF_vars(Serve(p))

-----------------------------------------------------------------------------
Well(p, do) == call[p] # None /\ Does(p) = do /\ answer[p] # None /\ answer[p].ok
Alone(p, do) ==
  \A q \in Requests \ {p} :
    call[q] # None /\ Does(q) = do => p \notin overlap[q] /\ q \notin overlap[p]

(* A check-in that was answered is the day's only one, so that the next    *)
(* one finds it, and its count never falls: unless another check-in was    *)
(* made at the same moment.                                                *)
CheckinsAreKept ==
  \A p \in Requests :
    Well(p, "checkin") /\ Alone(p, "checkin") =>
      LET K == {i \in Table("checkin", rows) : rows[i].day = 0}
      IN Cardinality(K) = 1 /\ \A i \in K : rows[i].tasks >= call[p].tasks

(* What a confirmed outcome or interview has shown to be a strength stays  *)
(* one, whatever else is learned, unless another request that adds to the  *)
(* strengths, from its own copy of them, ran at the same moment; and the   *)
(* event of an outcome is there whether or not there is a twin to teach.   *)
TeachesAlone(p) ==
  \A q \in Requests \ {p} : Lesson(q) # {} => p \notin overlap[q] /\ q \notin overlap[p]
OutcomesAreLearned ==
  \A p \in Requests :
    /\ Well(p, "feedback") => Mine("event", p, 0) \in DOMAIN rows
    /\ (Well(p, "feedback") \/ Well(p, "evaluate")) /\ TwinId \in DOMAIN rows /\ TeachesAlone(p)
         => Lesson(p) \subseteq rows[TwinId].strengths

(* A question and its answer are in the history together or not at all,    *)
(* with what the mentor remembers of them; and no request that was         *)
(* answered lost a memory: a memory that could not be stored takes the     *)
(* whole request with it, best effort or not.                              *)
TurnsAreWhole ==
  \A p \in Requests :
    LET has(t, n) == Mine(t, p, n) \in DOMAIN rows
        cleared   == \E q \in Requests : call[q] # None /\ Does(q) = "clear"
    IN /\ has("turn", 1) <=> has("turn", 2)
       /\ has("turn", 1) => has("memory", 0)
       /\ Well(p, "advise") => has("turn", 1) \/ cleared
       /\ Well(p, "evaluate") /\ call[p].score >= 85 => has("memory", 0)
=============================================================================
