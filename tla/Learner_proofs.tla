--------------------------- MODULE Learner_proofs ---------------------------
(***************************************************************************)
(* What is learned of a user.  Type correctness of CareerTwin, and what    *)
(* concurrent requests which overwrite each other's columns leave true of  *)
(* two pairs of them: of the count of completed interviews and the         *)
(* history, and of the streak and the date it ends on.  Then the review    *)
(* ladder and the daily mission of AdaptiveLearning.                       *)
(***************************************************************************)
EXTENDS CareerTwin, AdaptiveLearning, SequenceTheorems, TLAPS

AllScored(history) == \A i \in 1..Len(history) : history[i].scored

(* CountMatchesHistory of any twin.                                        *)
Matches(twin) ==
    AllScored(twin.interview_history) =>
        twin.interviews_completed = Len(twin.interview_history)

(* What a commit of new, computed from old, can do to the two columns of   *)
(* whatever row is there by then: nothing; or it writes a history with an  *)
(* interview nobody scored; or it writes both, the count that matches.     *)
Effect(old, new) ==
    \/ /\ new.interview_history = old.interview_history
       /\ new.interviews_completed = old.interviews_completed
    \/ /\ new.interview_history # old.interview_history
       /\ ~AllScored(new.interview_history)
    \/ /\ new.interview_history # old.interview_history
       /\ new.interviews_completed # old.interviews_completed
       /\ new.interviews_completed = Len(new.interview_history)

(* A computed session dates the twin.                                      *)
Dated(q) ==
    q.state = "computed" /\ q.kind = "update_after_learning" => q.new.last_active_date \in Day

IInv ==
    /\ TypeOK
    /\ Matches(row)
    /\ \A r \in Requests : Open(r) =>
          Matches(req[r].old) /\ Effect(req[r].old, req[r].new) /\ Dated(req[r])

-----------------------------------------------------------------------------
(* What an operation makes of a row is a row.                              *)
LEMMA TodayInDay == ASSUME tick \in 0..MaxTick PROVE Today \in Day
  BY TickAssumption DEF Today, Day

LEMMA ScoredIsRow == ASSUME NEW twin \in Row PROVE Scored(twin) \in Row
  BY ScoreAssumption DEF Scored, Row

LEMMA WithSkillIsRow ==
  ASSUME NEW twin \in Row, NEW level \in Levels PROVE WithSkill(twin, level) \in Row
<1>1. [twin EXCEPT !.skill = level] \in Row
  BY DEF Row
<1> QED BY <1>1, ScoredIsRow DEF WithSkill

LEMMA InterviewedIsRow ==
  ASSUME NEW twin \in Row, NEW r \in Requests, NEW weak \in BOOLEAN
  PROVE  Interviewed(twin, r, weak) \in Row
<1>1. [id |-> r, scored |-> FALSE] \in Entry
  BY DEF Entry
<1>2. Append(twin.interview_history, [id |-> r, scored |-> FALSE]) \in Seq(Entry)
  BY <1>1 DEF Row
<1>3. [twin EXCEPT !.interview_history = Append(@, [id |-> r, scored |-> FALSE])] \in Row
  BY <1>2 DEF Row
<1>4. (IF weak THEN Weaker(twin.skill) ELSE twin.skill) \in Levels
  BY LevelsAssumption DEF Weaker, Row
<1> QED BY <1>3, <1>4, WithSkillIsRow DEF Interviewed

(* The history after add_interview_result.                                 *)
LEMMA InterviewedHistory ==
  ASSUME NEW twin \in Row, NEW r \in Requests, NEW weak \in BOOLEAN
  PROVE  LET new == Interviewed(twin, r, weak) IN
         /\ new.interview_history =
               Append(twin.interview_history, [id |-> r, scored |-> FALSE])
         /\ new.interviews_completed = twin.interviews_completed
  BY DEF Interviewed, WithSkill, Scored, Row

(* The history after update_after_interview.                               *)
LEMMA AggregatedHistory ==
  ASSUME NEW twin \in Row, NEW r \in Requests, NEW weak \in BOOLEAN,
         NEW new, new = Aggregated(Interviewed(twin, r, weak))
  PROVE  /\ new \in Row
         /\ Len(new.interview_history) = Len(twin.interview_history) + 1
         /\ \A i \in 1..Len(twin.interview_history) :
               new.interview_history[i] = twin.interview_history[i]
         /\ new.interviews_completed = Len(new.interview_history)
<1> DEFINE before == twin.interview_history
           mid == Interviewed(twin, r, weak)
           n == Len(mid.interview_history)
           history == [mid.interview_history EXCEPT ![n].scored = TRUE]
<1>1. mid \in Row /\ mid.interview_history = Append(before, [id |-> r, scored |-> FALSE])
  BY InterviewedIsRow, InterviewedHistory
<1>2. before \in Seq(Entry) /\ mid.interview_history \in Seq(Entry)
  BY <1>1 DEF Row
<1>3. /\ Len(before) \in Nat /\ n = Len(before) + 1
      /\ mid.interview_history[n] = [id |-> r, scored |-> FALSE]
      /\ \A i \in 1..Len(before) : mid.interview_history[i] = before[i]
  BY <1>1, <1>2
<1>4. /\ n \in 1..Len(mid.interview_history)
      /\ [mid.interview_history[n] EXCEPT !.scored = TRUE] \in Entry
  <2>1. \A entry \in Entry : [entry EXCEPT !.scored = TRUE] \in Entry
    BY DEF Entry
  <2>2. n \in 1..Len(mid.interview_history)
    BY <1>3
  <2>3. mid.interview_history[n] \in Entry
    BY <1>2, <2>2
  <2> HIDE DEF mid, n
  <2> QED BY <2>1, <2>2, <2>3
<1>5. /\ history \in Seq(Entry)
      /\ Len(history) = n
      /\ \A i \in 1..Len(before) : history[i] = before[i]
  <2>1. history = [mid.interview_history EXCEPT
                      ![n] = [mid.interview_history[n] EXCEPT !.scored = TRUE]]
    OBVIOUS
  <2> QED BY <1>2, <1>3, <1>4, <2>1, ExceptSeq
<1>6. new = [mid EXCEPT !.interview_history = history, !.interviews_completed = n]
  BY <1>1 DEF Aggregated, Row
<1>7. n \in Nat
  BY <1>3
<1> HIDE DEF mid, n, history, before
<1>8. [mid EXCEPT !.interview_history = history, !.interviews_completed = n] \in Row
  BY <1>1, <1>5, <1>7 DEF Row
<1>9. new.interview_history = history /\ new.interviews_completed = n
  BY <1>1, <1>6 DEF Row
<1> QED BY <1>3, <1>5, <1>6, <1>8, <1>9 DEF before

LEMMA LearnedIsRow ==
  ASSUME NEW twin \in Row, NEW today \in Day
  PROVE  LET new == Learned(twin, today) IN
         /\ new \in Row
         /\ new.interview_history = twin.interview_history
         /\ new.interviews_completed = twin.interviews_completed
<1> DEFINE level == IF twin.skill < Known THEN Known ELSE twin.skill
<1>1. level \in Levels
  BY LevelsAssumption DEF Row
<1>2. /\ WithSkill(twin, level) \in Row
      /\ WithSkill(twin, level).interview_history = twin.interview_history
      /\ WithSkill(twin, level).interviews_completed = twin.interviews_completed
  BY <1>1, WithSkillIsRow DEF WithSkill, Scored, Row
<1>3. Streak(twin, today) \in Nat
  BY DEF Streak, Row
<1> HIDE DEF level
<1>4. Learned(twin, today) = [WithSkill(twin, level) EXCEPT
        !.learning_streak_days = Streak(twin, today), !.last_active_date = today]
  BY DEF Learned, level
<1> QED BY <1>2, <1>3, <1>4 DEF Row

LEMMA LearnedIsDated ==
  ASSUME NEW twin \in Row, NEW r \in Requests, Today \in Day,
         NEW new \in Results("update_after_learning", r, twin)
  PROVE  new.last_active_date \in Day
<1>1. new = Learned(twin, Today)
  BY DEF Results
<1> QED BY <1>1 DEF Learned, WithSkill, Scored, Row

(* Every operation makes a row of a row, and nothing else than Effect says *)
(* of the two columns.                                                     *)
LEMMA ResultIsRow ==
  ASSUME NEW twin \in Row, NEW r \in Requests, NEW kind \in Kinds, Today \in Day,
         NEW new \in Results(kind, r, twin)
  PROVE  new \in Row /\ (Matches(twin) => Effect(twin, new))
<1>1. CASE kind \in {"create_from_resume", "update_skill_confidence", "recompute_scores"}
  <2>1. \A level \in Levels :
          /\ WithSkill(twin, level) \in Row
          /\ WithSkill(twin, level).interview_history = twin.interview_history
          /\ WithSkill(twin, level).interviews_completed = twin.interviews_completed
    BY WithSkillIsRow DEF WithSkill, Scored, Row
  <2>2. CASE kind = "create_from_resume"
    <3>1. PICK level \in Levels : new = [WithSkill(twin, level) EXCEPT !.version = @ + 1]
      BY <2>2 DEF Results, FromResume
    <3> QED BY <2>1, <3>1 DEF Row, Effect
  <2>3. CASE kind = "update_skill_confidence"
    BY <2>1, <2>3 DEF Results, Effect
  <2>4. CASE kind = "recompute_scores"
    BY <2>4, ScoredIsRow DEF Results, Scored, Row, Effect
  <2> QED BY <1>1, <2>2, <2>3, <2>4
<1>2. CASE kind = "update_after_learning"
  BY <1>2, LearnedIsRow DEF Results, Effect
<1>3. CASE kind = "add_interview_result"
  <2>1. PICK weak \in BOOLEAN : new = Interviewed(twin, r, weak)
    BY <1>3 DEF Results
  <2> DEFINE before == twin.interview_history
  <2>2. /\ new \in Row /\ before \in Seq(Entry)
        /\ new.interview_history = Append(before, [id |-> r, scored |-> FALSE])
    BY <2>1, InterviewedIsRow, InterviewedHistory DEF Row
  <2>3. /\ Len(new.interview_history) = Len(before) + 1 /\ Len(before) \in Nat
        /\ new.interview_history[Len(before) + 1].scored = FALSE
    BY <2>2
  <2> QED BY <2>2, <2>3 DEF Effect, AllScored
<1>4. CASE kind = "update_after_interview"
  <2>1. PICK weak \in BOOLEAN : new = Aggregated(Interviewed(twin, r, weak))
    BY <1>4 DEF Results
  <2>2. Len(twin.interview_history) \in Nat
    BY DEF Row
  <2> QED BY <2>1, <2>2, AggregatedHistory DEF Effect, AllScored, Matches
<1> QED BY <1>1, <1>2, <1>3, <1>4 DEF Kinds

(* Writing the changed columns of one row over another gives a row, and    *)
(* one whose count matches its history if the other's did.                 *)
LEMMA OverwrittenMatches ==
  ASSUME NEW current \in Row, NEW old \in Row, NEW new \in Row
  PROVE  LET after == Overwritten(current, old, new) IN
         /\ after \in Row
         /\ Matches(current) /\ Effect(old, new) => Matches(after)
<1> DEFINE after == Overwritten(current, old, new)
<1>1. /\ after \in Row
      /\ after.interview_history =
            IF new.interview_history = old.interview_history
            THEN current.interview_history ELSE new.interview_history
      /\ after.interviews_completed =
            IF new.interviews_completed = old.interviews_completed
            THEN current.interviews_completed ELSE new.interviews_completed
  BY DEF Overwritten, Row
<1> HIDE DEF after
<1>2. Matches(current) /\ Effect(old, new) => Matches(after)
  BY <1>1 DEF Matches, Effect
<1> QED BY <1>1, <1>2 DEF after
-----------------------------------------------------------------------------
(* The invariant.                                                          *)

LEMMA InitHolds == Init => IInv
<1> SUFFICES ASSUME Init PROVE IInv
  OBVIOUS
<1>1. PICK l \in Levels :
        row = [skill |-> l, scores |-> Score[l], version |-> 1,
               interview_history |-> <<>>, interviews_completed |-> 0,
               learning_streak_days |-> 0, last_active_date |-> Never]
  BY DEF Init
<1>2. row \in Row
  BY <1>1 DEF Row
<1>3. Matches(row)
  BY <1>1 DEF Matches
<1>4. \A r \in Requests : req[r] = New /\ ~Open(r)
  BY DEF Init, Open, New
<1>5. req \in [Requests -> {New, Done} \cup Request]
  BY DEF Init
<1> QED BY <1>2, <1>3, <1>4, <1>5, TickAssumption DEF Init, IInv, TypeOK

(* What is left to show of a step that changes at most one request.        *)
LEMMA OneRequest ==
  ASSUME IInv, NEW r \in Requests, NEW q \in {New, Done} \cup Request,
         req' = [req EXCEPT ![r] = q], tick' = tick,
         row' \in Row, Matches(row'), active' \subseteq Day, inorder' \in BOOLEAN,
         q \in Request => /\ q.since \in {tick - 1, tick}
                          /\ Matches(q.old) /\ Effect(q.old, q.new) /\ Dated(q)
  PROVE  IInv'
<1>1. req' \in [Requests -> {New, Done} \cup Request]
  BY DEF IInv, TypeOK
<1>2. \A s \in Requests : req'[s] = IF s = r THEN q ELSE req[s]
  BY DEF IInv, TypeOK
<1>3. q.state \in {"loaded", "computed"} => q \in Request
  BY DEF New, Done
<1>4. ASSUME NEW s \in Requests, Open(s)'
      PROVE  /\ req'[s].since \in {tick' - 1, tick'}
             /\ Matches(req'[s].old) /\ Effect(req'[s].old, req'[s].new) /\ Dated(req'[s])
  <2>1. CASE s = r
    BY <1>2, <1>3, <1>4, <2>1 DEF Open
  <2>2. CASE s # r
    BY <1>2, <1>4, <2>2 DEF Open, IInv, TypeOK
  <2> QED BY <2>1, <2>2
<1>5. TypeOK'
  BY <1>1, <1>4 DEF IInv, TypeOK
<1>6. Matches(row)'
  BY DEF Matches
<1>7. (\A s \in Requests : Open(s) =>
          Matches(req[s].old) /\ Effect(req[s].old, req[s].new) /\ Dated(req[s]))'
  BY <1>4 DEF Matches, Effect, AllScored, Dated
<1> QED BY <1>5, <1>6, <1>7 DEF IInv

LEMMA StepPreserves ==
  ASSUME IInv, NEW r \in Requests,
         \/ \E kind \in Kinds : Load(r, kind)
         \/ Compute(r) \/ Commit(r) \/ Rollback(r)
  PROVE  IInv'
<1>1. TypeOK /\ Matches(row) /\ Today \in Day
  BY TodayInDay DEF IInv, TypeOK
<1>2. ASSUME NEW kind \in Kinds, Load(r, kind) PROVE IInv'
  <2> DEFINE q == [state |-> "loaded", kind |-> kind, since |-> tick, old |-> row, new |-> row]
  <2>1. /\ q \in Request /\ Matches(q.old) /\ Effect(q.old, q.new)
        /\ q.since \in {tick - 1, tick} /\ Dated(q)
    BY <1>1 DEF Request, TypeOK, Effect, Dated
  <2>2. /\ req' = [req EXCEPT ![r] = q] /\ tick' = tick
        /\ row' \in Row /\ Matches(row') /\ active' \subseteq Day /\ inorder' \in BOOLEAN
    BY <1>1, <1>2 DEF Load, TypeOK
  <2> HIDE DEF q
  <2> QED BY <2>1, <2>2, OneRequest
<1>3. Open(r) => req[r] \in Request
  BY <1>1 DEF TypeOK, Open, New, Done
<1>4. CASE Compute(r)
  <2>1. req[r] \in Request /\ Open(r)
    BY <1>3, <1>4 DEF Compute, Open
  <2>2. PICK twin \in Results(req[r].kind, r, req[r].old) :
          req' = [req EXCEPT ![r].state = "computed", ![r].new = twin]
    BY <1>4 DEF Compute
  <2>3. twin \in Row /\ Matches(req[r].old) /\ Effect(req[r].old, twin)
    BY <1>1, <2>1, <2>2, ResultIsRow DEF IInv, Request
  <2> DEFINE q == [req[r] EXCEPT !.state = "computed", !.new = twin]
  <2>4. /\ q \in Request /\ Matches(q.old) /\ Effect(q.old, q.new)
        /\ q.since \in {tick - 1, tick}
    BY <1>1, <2>1, <2>3 DEF Request, TypeOK
  <2>6. Dated(q)
    BY <1>1, <2>1, <2>2, LearnedIsDated DEF Request, Dated
  <2>5. /\ req' = [req EXCEPT ![r] = q] /\ tick' = tick
        /\ row' \in Row /\ Matches(row') /\ active' \subseteq Day /\ inorder' \in BOOLEAN
    BY <1>1, <1>4, <2>2 DEF Compute, TypeOK
  <2> HIDE DEF q
  <2> QED BY <2>4, <2>5, <2>6, OneRequest
<1>5. CASE Commit(r)
  <2>1. req[r] \in Request /\ Open(r)
    BY <1>3, <1>5 DEF Commit, Open
  <2>2. req[r].old \in Row /\ req[r].new \in Row /\ Effect(req[r].old, req[r].new)
    BY <2>1 DEF IInv, Request
  <2>3. row' = Overwritten(row, req[r].old, req[r].new)
    BY <1>5 DEF Commit
  <2>4. row' \in Row /\ Matches(row')
    BY <1>1, <2>2, <2>3, OverwrittenMatches DEF TypeOK
  <2>5. active' \subseteq Day /\ inorder' \in BOOLEAN
    <3>1. CASE req[r].kind = "update_after_learning"
      <4>1. active' = active \cup {req[r].new.last_active_date}
        BY <1>5, <3>1 DEF Commit
      <4>2. inorder' \in BOOLEAN
        BY <1>5, <3>1, Zenon DEF Commit
      <4> QED BY <1>1, <1>5, <2>1, <3>1, <4>1, <4>2 DEF Commit, TypeOK, IInv, Dated
    <3>2. CASE req[r].kind # "update_after_learning"
      BY <1>1, <1>5, <3>2 DEF Commit, TypeOK
    <3> QED BY <3>1, <3>2
  <2>6. Done \notin Request
    BY DEF Done, Request
  <2> QED BY <1>5, <2>4, <2>5, <2>6, OneRequest DEF Commit
<1>6. CASE Rollback(r)
  <2>1. Done \notin Request
    BY DEF Done, Request
  <2> QED BY <1>1, <1>6, <2>1, OneRequest DEF Rollback, TypeOK
<1> QED BY <1>2, <1>4, <1>5, <1>6

LEMMA TickPreserves == ASSUME IInv, Tick PROVE IInv'
<1>1. /\ \A r \in Requests : Open(r) => req[r].since = tick
      /\ tick < MaxTick /\ tick' = tick + 1 /\ UNCHANGED <<row, req, active, inorder>>
  BY DEF Tick
<1>2. TypeOK'
  BY <1>1, TickAssumption DEF IInv, TypeOK, Open
<1> QED BY <1>1, <1>2 DEF IInv, Matches, Effect, AllScored, Open, Dated

LEMMA IInvInductive == Spec => []IInv
<1>1. IInv /\ [Next]_vars => IInv'
  <2> SUFFICES ASSUME IInv, [Next]_vars PROVE IInv'
    OBVIOUS
  <2>1. ASSUME Next PROVE IInv'
    BY <2>1, StepPreserves, TickPreserves DEF Next
  <2>2. CASE UNCHANGED vars
    BY <2>2 DEF vars, IInv, TypeOK, Matches, Effect, AllScored, Open, Dated
  <2> QED BY <2>1, <2>2
<1> QED BY <1>1, InitHolds, PTL DEF Spec

(* Every reachable twin is a twin, and so is every copy a request holds:   *)
(* what the operations of CareerTwinService compute are column values.     *)
THEOREM TypeCorrect == Spec => []TypeOK
<1>1. IInv => TypeOK
  BY DEF IInv
<1> QED BY <1>1, IInvInductive, PTL

(* update_after_interview, add_interview_result and the other operations   *)
(* may overwrite each other's columns in any order: a history all of whose *)
(* interviews were scored is never counted wrongly.                        *)
THEOREM CountAlwaysMatches == Spec => []CountMatchesHistory
<1>1. IInv => CountMatchesHistory
  BY DEF IInv, Matches, AllScored, CountMatchesHistory
<1> QED BY <1>1, IInvInductive, PTL

-----------------------------------------------------------------------------
(* The streak.  A session that counts a new day writes both columns, or    *)
(* only the date, when its own streak is the one it had loaded: then both  *)
(* are 1.  The streak that is in the row by then was written since the     *)
(* session began, on a date that is at most one day off.                   *)

Kept(twin) ==
    \A d \in twin.last_active_date - twin.learning_streak_days + 1..twin.last_active_date :
        d \in active

SameStreak(old, new) ==
    /\ new.last_active_date = old.last_active_date
    /\ new.learning_streak_days = old.learning_streak_days

Counted(q) == q.state = "computed" /\ q.kind = "update_after_learning"

Dates(q) ==
    IF Counted(q)
    THEN /\ q.new.last_active_date \in q.since \div 2..(q.since + 1) \div 2
         /\ q.new.learning_streak_days = Streak(q.old, q.new.last_active_date)
    ELSE SameStreak(q.old, q.new)

(* A streak that was written since q began ends no earlier than this.      *)
Recent(q) ==
    row.learning_streak_days # q.old.learning_streak_days =>
        row.last_active_date >= (q.since - 1) \div 2

SInv ==
    /\ row.last_active_date \in active \cup {Never}
    /\ \A r \in Requests : Open(r) => Dates(req[r])
    /\ inorder => /\ Kept(row)
                  /\ \A r \in Requests : Open(r) => Kept(req[r].old) /\ Recent(req[r])

LEMMA ResultDates ==
  ASSUME NEW twin \in Row, NEW r \in Requests, NEW kind \in Kinds,
         NEW new \in Results(kind, r, twin)
  PROVE  IF kind = "update_after_learning"
         THEN new.last_active_date = Today /\ new.learning_streak_days = Streak(twin, Today)
         ELSE SameStreak(twin, new)
<1>1. ASSUME NEW t \in Row, NEW level \in Levels
      PROVE  /\ SameStreak(t, WithSkill(t, level)) /\ SameStreak(t, Scored(t))
             /\ WithSkill(t, level) \in Row
  BY <1>1, WithSkillIsRow DEF WithSkill, Scored, Row, SameStreak
<1>2. CASE kind = "update_after_learning"
  BY <1>2 DEF Results, Learned, WithSkill, Scored, Row
<1>3. CASE kind = "create_from_resume"
  <2>1. PICK level \in Levels : new = [WithSkill(twin, level) EXCEPT !.version = @ + 1]
    BY <1>3 DEF Results, FromResume
  <2> QED BY <1>1, <1>3, <2>1 DEF SameStreak, Row
<1>4. CASE kind = "update_skill_confidence" \/ kind = "recompute_scores"
  BY <1>1, <1>4, LevelsAssumption DEF Results
<1>5. ASSUME NEW weak \in BOOLEAN
      PROVE  /\ SameStreak(twin, Interviewed(twin, r, weak))
             /\ SameStreak(twin, Aggregated(Interviewed(twin, r, weak)))
  <2>1. SameStreak(twin, Interviewed(twin, r, weak)) /\ Interviewed(twin, r, weak) \in Row
    BY InterviewedIsRow DEF Interviewed, WithSkill, Scored, Row, SameStreak
  <2>2. ASSUME NEW t \in Row PROVE SameStreak(t, Aggregated(t))
    BY DEF Aggregated, SameStreak, Row
  <2> QED BY <2>1, <2>2 DEF SameStreak
<1>6. CASE kind = "add_interview_result" \/ kind = "update_after_interview"
  BY <1>5, <1>6 DEF Results
<1> QED BY <1>2, <1>3, <1>4, <1>6 DEF Kinds

LEMMA RowDates ==
  ASSUME NEW twin \in Row
  PROVE  /\ twin.last_active_date \in Int
         /\ twin.last_active_date = Never \/ twin.last_active_date \in Day
         /\ twin.learning_streak_days \in Nat
<1>1. \A d \in Day : d \in Int
  BY DEF Day
<1>2. Never \in Int
  BY DEF Never
<1> QED BY <1>1, <1>2 DEF Row

LEMMA OverwrittenDates ==
  ASSUME NEW current \in Row, NEW old \in Row, NEW new \in Row
  PROVE  LET after == Overwritten(current, old, new) IN
         /\ after.last_active_date =
               IF new.last_active_date = old.last_active_date
               THEN current.last_active_date ELSE new.last_active_date
         /\ after.learning_streak_days =
               IF new.learning_streak_days = old.learning_streak_days
               THEN current.learning_streak_days ELSE new.learning_streak_days
  BY DEF Overwritten, Row

LEMMA SInvInit == Init => SInv
<1> SUFFICES ASSUME Init PROVE SInv
  OBVIOUS
<1>1. row.last_active_date = -2 /\ row.learning_streak_days = 0
  BY DEF Init, Never
<1>2. \A r \in Requests : ~Open(r)
  BY DEF Init, Open, New
<1> QED BY <1>1, <1>2 DEF SInv, Kept, Never

(* A step that leaves the row alone and opens or computes one request.     *)
LEMMA QuietStep ==
  ASSUME IInv, SInv, NEW r \in Requests, NEW q,
         req' = [req EXCEPT ![r] = q], UNCHANGED <<row, active, inorder>>,
         q.state \in {"loaded", "computed"} =>
            /\ Dates(q)
            /\ inorder => Kept(q.old) /\ Recent(q)
  PROVE  SInv'
<1>1. \A s \in Requests : req'[s] = IF s = r THEN q ELSE req[s]
  BY DEF IInv, TypeOK
<1>2. \A s \in Requests :
        Open(s)' => /\ Dates(req'[s])
                    /\ inorder => Kept(req'[s].old) /\ Recent(req'[s])
  BY <1>1 DEF SInv, Open
<1>3. (\A s \in Requests : Open(s) => Dates(req[s]))'
  BY <1>2 DEF Dates, Counted, SameStreak, Streak
<1>4. (\A s \in Requests : Open(s) => Kept(req[s].old) /\ Recent(req[s]))' \/ ~inorder
  BY <1>2 DEF Kept, Recent
<1> QED BY <1>3, <1>4 DEF SInv, Kept

LEMMA LoadKeepsStreak ==
  ASSUME IInv, SInv, NEW r \in Requests, NEW kind \in Kinds, Load(r, kind)
  PROVE  SInv'
<1> DEFINE q == [state |-> "loaded", kind |-> kind, since |-> tick, old |-> row, new |-> row]
<1>1. Dates(q) /\ Recent(q) /\ (inorder => Kept(q.old))
  BY DEF Dates, Counted, SameStreak, Recent, SInv
<1>2. req' = [req EXCEPT ![r] = q] /\ UNCHANGED <<row, active, inorder>>
  BY DEF Load
<1> HIDE DEF q
<1> QED BY <1>1, <1>2, QuietStep

LEMMA ComputeKeepsStreak ==
  ASSUME IInv, SInv, NEW r \in Requests, Compute(r)
  PROVE  SInv'
<1>1. /\ TypeOK /\ Open(r) /\ req[r] \in Request /\ req[r].state = "loaded"
      /\ req[r].since \in {tick - 1, tick} /\ tick \in Nat /\ req[r].since \in Int
  BY DEF Compute, Open, IInv, TypeOK, New, Done, Request
<1>2. PICK twin \in Results(req[r].kind, r, req[r].old) :
        req' = [req EXCEPT ![r].state = "computed", ![r].new = twin]
  BY DEF Compute
<1> DEFINE q == [req[r] EXCEPT !.state = "computed", !.new = twin]
<1>3. /\ q.old = req[r].old /\ q.since = req[r].since /\ q.kind = req[r].kind
      /\ q.new = twin /\ q.state = "computed"
  BY <1>1 DEF Request
<1>4. Today \in req[r].since \div 2..(req[r].since + 1) \div 2
  BY <1>1 DEF Today
<1>5. Dates(q)
  BY <1>1, <1>2, <1>3, <1>4, ResultDates DEF Dates, Counted, Request
<1>6. inorder => Kept(q.old) /\ Recent(q)
  BY <1>1, <1>3 DEF SInv, Recent
<1>7. req' = [req EXCEPT ![r] = q] /\ UNCHANGED <<row, active, inorder>>
  BY <1>2 DEF Compute
<1> HIDE DEF q
<1> QED BY <1>5, <1>6, <1>7, QuietStep

(* What a commit makes of the row keeps the streak: only the last case,    *)
(* where the date is written and the streak is not, needs Recent.          *)
LEMMA CommitKeepsRow ==
  ASSUME IInv, SInv, NEW r \in Requests, Commit(r), Counted(req[r])
  PROVE  /\ row'.last_active_date \in active' \cup {Never}
         /\ inorder' => inorder /\ Kept(row)'
         /\ inorder' /\ row'.learning_streak_days # row.learning_streak_days =>
               row'.last_active_date >= req[r].since \div 2
         /\ inorder' /\ row.last_active_date # Never =>
               row'.last_active_date >= row.last_active_date
<1> DEFINE q == req[r]
           L == row.last_active_date
           S == row.learning_streak_days
           date == q.new.last_active_date
<1>1. /\ Open(r) /\ q \in Request /\ row \in Row /\ active \subseteq Day
      /\ q.since \in {tick - 1, tick} /\ tick \in Nat /\ q.since \in Int
      /\ q.old \in Row /\ q.new \in Row
  BY DEF Commit, Open, IInv, TypeOK, New, Done, Request
<1>2. /\ active' = active \cup {date}
      /\ inorder' => inorder /\ \A d \in active : d <= date
  BY Zenon DEF Commit, Counted
<1>3. /\ date \in q.since \div 2..(q.since + 1) \div 2
      /\ q.new.learning_streak_days = Streak(q.old, date)
  BY <1>1 DEF SInv, Dates
<1>4. /\ row'.last_active_date = IF date = q.old.last_active_date THEN L ELSE date
      /\ row'.learning_streak_days =
            IF q.new.learning_streak_days = q.old.learning_streak_days
            THEN S ELSE q.new.learning_streak_days
  BY <1>1, OverwrittenDates DEF Commit
<1>5. S \in Nat /\ q.old.learning_streak_days \in Nat /\ Never = -2
  BY <1>1, RowDates DEF Never
<1>6. L \in active \cup {Never} /\ (inorder => Kept(row) /\ Kept(q.old) /\ Recent(q))
  BY <1>1 DEF SInv
<1>7. date \in Int /\ q.old.last_active_date \in Int /\ L \in Int
  BY <1>1, RowDates
<1>8. CASE date = q.old.last_active_date
  <2>1. row'.last_active_date = L /\ row'.learning_streak_days = S
    BY <1>3, <1>4, <1>8 DEF Streak
  <2> QED BY <1>2, <1>5, <1>6, <1>7, <2>1 DEF Kept
<1>9. CASE date # q.old.last_active_date
  <2>1. row'.last_active_date = date /\ date \in active'
    BY <1>2, <1>4, <1>9
  <2>2. date >= q.since \div 2
    BY <1>1, <1>3
  <2>3. inorder' /\ L # Never => date >= L
    BY <1>2, <1>6
  <2>4. ASSUME inorder' PROVE Kept(row)'
    <3>1. inorder /\ \A d \in active : d \in active'
      BY <1>2, <2>4
    <3>2. CASE q.new.learning_streak_days # q.old.learning_streak_days
      <4>1. row'.learning_streak_days = Streak(q.old, date)
        BY <1>3, <1>4, <3>2
      <4>2. CASE q.old.last_active_date = date - 1
        BY <1>5, <1>6, <1>7, <1>9, <2>1, <3>1, <4>1, <4>2 DEF Kept, Streak
      <4>3. CASE q.old.last_active_date # date - 1
        BY <1>5, <1>7, <1>9, <2>1, <4>1, <4>3 DEF Kept, Streak
      <4> QED BY <4>2, <4>3
    <3>3. CASE q.new.learning_streak_days = q.old.learning_streak_days
      <4>1. row'.learning_streak_days = S /\ q.old.learning_streak_days = 1
        BY <1>3, <1>4, <1>5, <1>9, <3>3 DEF Streak
      <4>2. CASE S = 1
        BY <1>5, <1>7, <2>1, <4>1, <4>2 DEF Kept
      <4>3. CASE S # 1
        <5>1. L >= (q.since - 1) \div 2
          BY <1>6, <3>1, <4>1, <4>3 DEF Recent
        <5>2. (q.since + 1) \div 2 = (q.since - 1) \div 2 + 1 /\ (q.since - 1) \div 2 >= -1
          BY <1>1
        <5>3. date <= L + 1 /\ L # Never
          <6> DEFINE from == (q.since - 1) \div 2
                     to == (q.since + 1) \div 2
          <6>1. from \in Int /\ to = from + 1 /\ L >= from /\ from >= -1
            BY <1>1, <5>1, <5>2
          <6>2. date <= to
            BY <1>1, <1>3
          <6> HIDE DEF from, to
          <6> QED BY <1>5, <1>7, <6>1, <6>2
        <5>4. date \in {L, L + 1}
          BY <1>7, <2>3, <2>4, <5>3
        <5> QED BY <1>5, <1>6, <1>7, <2>1, <3>1, <4>1, <5>4 DEF Kept
      <4> QED BY <4>2, <4>3
    <3> QED BY <3>2, <3>3
  <2> QED BY <1>2, <1>5, <2>1, <2>2, <2>3, <2>4
<1> QED BY <1>8, <1>9

LEMMA CommitKeepsStreak ==
  ASSUME IInv, SInv, NEW r \in Requests, Commit(r)
  PROVE  SInv'
<1>1. /\ Open(r) /\ req[r] \in Request /\ row \in Row
      /\ req[r].since \in {tick - 1, tick} /\ tick \in Nat
      /\ req[r].old \in Row /\ req[r].new \in Row
      /\ row' = Overwritten(row, req[r].old, req[r].new)
  BY DEF Commit, Open, IInv, TypeOK, New, Done, Request
<1>2. \A s \in Requests : Open(s)' => Open(s) /\ req'[s] = req[s]
  BY DEF Commit, IInv, TypeOK, Open, Done
<1>3. (\A s \in Requests : Open(s) => Dates(req[s]))'
  BY <1>2 DEF SInv, Dates, Counted, SameStreak, Streak
<1>4. CASE Counted(req[r])
  <2>1. /\ row'.last_active_date \in active' \cup {Never}
        /\ inorder' => inorder /\ Kept(row)'
    BY <1>4, CommitKeepsRow
  <2>2. active \subseteq active'
    BY <1>4 DEF Commit, Counted
  <2>3. ASSUME inorder', NEW s \in Requests, Open(s)'
        PROVE  (Kept(req[s].old) /\ Recent(req[s]))'
    <3>1. inorder /\ Open(s) /\ req'[s] = req[s] /\ Kept(req[s].old) /\ Recent(req[s])
      BY <1>2, <2>1, <2>3 DEF SInv
    <3>2. Kept(req[s].old)'
      BY <2>2, <3>1 DEF Kept
    <3>3. req[s].since \in {tick - 1, tick} /\ req[s].since \in Int /\ req[r].since \in Int
      BY <1>1, <3>1 DEF IInv, TypeOK
    <3> DEFINE from == (req[s].since - 1) \div 2
    <3>4. SUFFICES (row'.learning_streak_days # req[s].old.learning_streak_days =>
                       row'.last_active_date >= from)
      BY <3>1, <3>2 DEF Recent
    <3>5. row.learning_streak_days # req[s].old.learning_streak_days =>
             row.last_active_date >= from
      BY <3>1 DEF Recent
    <3>6. CASE row'.learning_streak_days # row.learning_streak_days
      <4>1. row'.last_active_date >= req[r].since \div 2
        BY <1>4, <2>3, <3>6, CommitKeepsRow
      <4>2. req[r].since \div 2 >= from
        BY <1>1, <3>3
      <4>3. row'.last_active_date \in Int /\ req[r].since \div 2 \in Int /\ from \in Int
        BY <1>1, <3>3, OverwrittenMatches, RowDates DEF Never
      <4> HIDE DEF from
      <4> QED BY <4>1, <4>2, <4>3
    <3>7. CASE row'.learning_streak_days = row.learning_streak_days
      <4>1. row.last_active_date # Never => row'.last_active_date >= row.last_active_date
        BY <1>4, <2>3, CommitKeepsRow
      <4>2. from > -2 /\ from \in Int
        <5>1. req[s].since >= -1
          BY <1>1, <3>3
        <5> QED BY <3>3, <5>1
      <4>3. row'.last_active_date \in Int /\ row.last_active_date \in Int /\ Never = -2
        BY <1>1, OverwrittenMatches, RowDates DEF Never
      <4> HIDE DEF from
      <4> QED BY <3>5, <3>7, <4>1, <4>2, <4>3
    <3> QED BY <3>6, <3>7
  <2> QED BY <1>3, <2>1, <2>3 DEF SInv
<1>5. CASE ~Counted(req[r])
  <2>1. UNCHANGED <<active, inorder>>
    BY <1>5 DEF Commit, Counted
  <2>2. SameStreak(row, row')
    BY <1>1, <1>5, OverwrittenDates DEF SInv, Dates, SameStreak
  <2> QED BY <1>2, <1>3, <2>1, <2>2 DEF SInv, SameStreak, Kept, Recent
<1> QED BY <1>4, <1>5

LEMMA StreakInductive == IInv /\ SInv /\ [Next]_vars => SInv'
<1> SUFFICES ASSUME IInv, SInv, [Next]_vars PROVE SInv'
  OBVIOUS
<1>1. ASSUME NEW r \in Requests, Rollback(r) PROVE SInv'
  <2>1. req' = [req EXCEPT ![r] = Done] /\ UNCHANGED <<row, active, inorder>>
    BY <1>1 DEF Rollback
  <2> QED BY <2>1, QuietStep DEF Done
<1>2. CASE Tick \/ UNCHANGED vars
  <2>1. UNCHANGED <<row, req, active, inorder>>
    BY <1>2 DEF Tick, vars
  <2> QED BY <2>1 DEF SInv, Kept, Recent, Dates, Counted, SameStreak, Streak, Open
<1> QED BY <1>1, <1>2, LoadKeepsStreak, ComputeKeepsStreak, CommitKeepsStreak DEF Next

(* A streak is as many days on which a session was completed, however the  *)
(* sessions of one midnight overlap and whatever they overwrite, as long   *)
(* as they are committed in the order of their days.                       *)
THEOREM StreakIsActive == Spec => []StreakDaysWereActive
<1>1. SInv => StreakDaysWereActive
  BY DEF SInv, Kept, StreakDaysWereActive
<1> QED BY <1>1, SInvInit, StreakInductive, IInvInductive, PTL DEF Spec
-----------------------------------------------------------------------------
(***************************************************************************)
(* AdaptiveLearning: the review ladder and the daily mission, for any      *)
(* skills, calls and ladder of intervals.                                  *)
(***************************************************************************)
Standing == [skill : Skills, rung : Rungs, confident : Nat, due : Nat]
Entries == [created : Nat, state : Standing \cup {None}]
Tellings == [streak : Nat, last : Nat \cup {NotYet}, exact : BOOLEAN]

Reviewing == [kind : {"review"}, began : Nat, row : Nat, state : Standing,
              writes : BOOLEAN, over : BOOLEAN]

(* What a review under way holds: its row is of its skill, or compressed;  *)
(* if nothing of the skill was written since it read, the row is as it was *)
(* read, and what it will write is the next or the lowest rung.            *)
Held(k, rows, tale) ==
    LET s == k.state.skill
        t == tale[s]
    IN
    /\ k \in Reviewing /\ k.row \in 0..Len(rows)
    /\ k.row # NoRow /\ rows[k.row].state # None => rows[k.row].state.skill = s
    /\ ~k.over =>
          /\ k.row = NoRow => RowsIn(rows, s) = {}
          /\ k.row # NoRow => k.row \in RowsIn(rows, s)
          /\ k.row # NoRow /\ ~k.writes => rows[k.row].state = k.state
          /\ k.state.confident = 0 => k.state = OnLadder(s, 0, k.began)
          /\ t.exact /\ k.state.confident # 0 => k.state = OnLadder(s, t.streak + 1, k.began)

SameRowSameSkill(calls) == \A c, d \in Calls :
    /\ calls[c].kind = "review" /\ calls[d].kind = "review"
    /\ calls[c].row = calls[d].row /\ calls[c].row # NoRow
    => calls[c].state.skill = calls[d].state.skill

Tells(s, rows, t) == t.exact =>
    IF t.last = NotYet THEN RowsIn(rows, s) = {}
    ELSE \E i \in 1..Len(rows) : /\ RowsIn(rows, s) = {i}
                                 /\ rows[i].state = OnLadder(s, t.streak, t.last)

LadderInv ==
    /\ day \in Nat /\ reviews \in Seq(Entries)
    /\ told \in [Skills -> Tellings]
    /\ call \in [Calls -> {call[c] : c \in Calls}]
    /\ \A c \in Calls : call[c].kind = "review" => Held(call[c], reviews, told)
    /\ SameRowSameSkill(call)
    /\ \A s \in Skills : told[s].exact /\ told[s].last = NotYet => told[s].streak = 0
    /\ \A s \in Skills : Tells(s, reviews, told[s])

LEMMA RungHasInterval ==
         /\ Top \in Nat
         /\ \A rung \in Rungs : Intervals[rung + 1] \in Nat
  BY IntervalsAssumption DEF Top, Rungs

LEMMA LadderStands ==
  ASSUME NEW s \in Skills, NEW streak \in Nat, NEW last \in Nat
  PROVE  OnLadder(s, streak, last) \in Standing
<1> DEFINE rung == IF streak < Top THEN streak ELSE Top
<1>1. rung \in Rungs /\ Intervals[rung + 1] \in Nat
  BY RungHasInterval DEF Rungs
<1>2. last + Intervals[rung + 1] \in Nat
  BY <1>1
<1> QED BY <1>1, <1>2 DEF OnLadder, Standing

LEMMA StandingIsSome == \A state \in Standing : state # None
<1> SUFFICES ASSUME NEW state \in Standing, state = None PROVE FALSE
  OBVIOUS
<1>1. "skill" \in DOMAIN state
  BY DEF Standing
<1>2. DOMAIN None = {}
  BY DEF None
<1> QED BY <1>1, <1>2

Regrade(old, r, n, d) == [old EXCEPT !.rung = r, !.confident = n, !.due = d]

LEMMA Regraded ==
  ASSUME NEW old \in Standing, NEW r \in Rungs, NEW n \in Nat, NEW d \in Nat
  PROVE  Regrade(old, r, n, d) = [skill |-> old.skill, rung |-> r, confident |-> n, due |-> d]
<1> DEFINE new == [old EXCEPT !.rung = r, !.confident = n, !.due = d]
           fresh == [skill |-> old.skill, rung |-> r, confident |-> n, due |-> d]
<1>1. new \in Standing /\ fresh \in Standing
  BY DEF Standing
<1>2. new.skill = fresh.skill /\ new.rung = fresh.rung /\ new.confident = fresh.confident /\ new.due = fresh.due
  BY DEF Standing
<1> HIDE DEF new, fresh
<1>3. new = fresh
  BY <1>1, <1>2 DEF Standing
<1> QED BY <1>3 DEF new, fresh, Regrade

(* A doubtful review goes to the foot of the ladder, a confident one a rung*)
(* up from where the ladder says it is.                                    *)
LEMMA GradedClimbs ==
  ASSUME day \in Nat, NEW state \in Standing
  PROVE  /\ Graded(state, FALSE) = OnLadder(state.skill, 0, day)
         /\ Graded(state, TRUE) \in Standing
         /\ Graded(state, TRUE).skill = state.skill /\ Graded(state, TRUE).confident # 0
         /\ \A last \in Int : state = OnLadder(state.skill, state.confident, last) =>
               Graded(state, TRUE) = OnLadder(state.skill, state.confident + 1, day)
<1> DEFINE up == IF state.rung < Top THEN state.rung + 1 ELSE Top
           count == state.confident + 1
           due == day + Intervals[up + 1]
<1>1. state.skill \in Skills /\ state.rung \in 0..Top /\ state.confident \in Nat /\ Top \in Nat
  BY RungHasInterval DEF Standing, Rungs
<1>2. Graded(state, FALSE) = [skill |-> state.skill, rung |-> 0, confident |-> 0, due |-> day + Intervals[0 + 1]]
  <2> DEFINE later == day + Intervals[0 + 1]
  <2>1. Graded(state, FALSE) = Regrade(state, 0, 0, later)
    BY DEF Graded, Regrade
  <2>0. later \in Nat /\ 0 \in Rungs /\ 0 \in Nat
    BY <1>1, RungHasInterval DEF Rungs
  <2> HIDE DEF later
  <2>2. Graded(state, FALSE) = [skill |-> state.skill, rung |-> 0, confident |-> 0, due |-> later]
    BY <2>0, <2>1, Regraded
  <2> QED BY <2>2 DEF later
<1>3. (IF 0 < Top THEN 0 ELSE Top) = 0
  BY <1>1
<1>4. Graded(state, FALSE) = OnLadder(state.skill, 0, day)
  BY <1>2, <1>3 DEF OnLadder
<1>5. Graded(state, TRUE) = Regrade(state, up, count, due)
  BY DEF Graded, Regrade
<1>6. up \in Rungs /\ Intervals[up + 1] \in Nat
  BY <1>1, RungHasInterval DEF Rungs
<1>7. due \in Nat /\ count \in Nat /\ count # 0
  <2> HIDE DEF up
  <2> QED BY <1>1, <1>6
<1>8. Graded(state, TRUE) = [skill |-> state.skill, rung |-> up, confident |-> count, due |-> due]
  <2> HIDE DEF up, count, due
  <2> QED BY <1>5, <1>6, <1>7, Regraded
<1>9. /\ Graded(state, TRUE) \in Standing
      /\ Graded(state, TRUE).skill = state.skill /\ Graded(state, TRUE).confident # 0
  <2> DEFINE fresh == [skill |-> state.skill, rung |-> up, confident |-> count, due |-> due]
  <2>1. fresh.skill = state.skill /\ fresh.confident = count
    OBVIOUS
  <2> HIDE DEF up, count, due
  <2>2. fresh \in Standing
    BY <1>1, <1>6, <1>7, Zenon DEF Standing
  <2> HIDE DEF fresh
  <2>3. Graded(state, TRUE) = fresh
    BY <1>8 DEF fresh
  <2> QED BY <1>7, <2>1, <2>2, <2>3
<1>10. ASSUME NEW last \in Int, state = OnLadder(state.skill, state.confident, last)
      PROVE  Graded(state, TRUE) = OnLadder(state.skill, state.confident + 1, day)
  <2>1. state.rung = (IF state.confident < Top THEN state.confident ELSE Top)
    BY <1>10 DEF OnLadder
  <2>2. up = (IF count < Top THEN count ELSE Top)
    BY <1>1, <2>1
  <2>3. OnLadder(state.skill, count, day) = [skill |-> state.skill, rung |-> up, confident |-> count, due |-> due]
    BY <2>2 DEF OnLadder
  <2> HIDE DEF up, count, due
  <2>4. Graded(state, TRUE) = OnLadder(state.skill, count, day)
    BY <1>8, <2>3
  <2> QED BY <2>4 DEF count
<1> QED BY <1>4, <1>9, <1>10

LEMMA Overtake ==
  ASSUME NEW k \in Reviewing
  PROVE  LET o == [k EXCEPT !.over = TRUE]
         IN  o \in Reviewing /\ o.over = TRUE /\ o.row = k.row /\ o.state = k.state
  BY DEF Reviewing

LEMMA LadderInit == LearningInit => LadderInv
  BY DEF LearningInit, LadderInv, Entries, Tellings, Idle, SameRowSameSkill, Tells, RowsIn

(* What a step keeps when it leaves rows and what was told alone.          *)
LEMMA HeldStays ==
  ASSUME LadderInv, UNCHANGED <<reviews, told>>, day' \in Nat,
         call' \in [Calls -> {call'[d] : d \in Calls}],
         \A d \in Calls : call'[d].kind = "review" => call'[d] = call[d]
  PROVE  LadderInv'
<1>2. \A d \in Calls : call'[d].kind = "review" => Held(call'[d], reviews', told')
  BY DEF LadderInv
<1>3. SameRowSameSkill(call')
  <2> SUFFICES ASSUME NEW c \in Calls, NEW d \in Calls,
                      call'[c].kind = "review", call'[d].kind = "review",
                      call'[c].row = call'[d].row, call'[c].row # NoRow
               PROVE  call'[c].state.skill = call'[d].state.skill
    BY DEF SameRowSameSkill
  <2>1. call'[c] = call[c] /\ call'[d] = call[d] /\ SameRowSameSkill(call)
    BY DEF LadderInv
  <2>2. call[c].kind = "review" /\ call[d].kind = "review" /\ call[c].row = call[d].row /\ call[c].row # NoRow
    BY <2>1
  <2> QED BY <2>1, <2>2 DEF SameRowSameSkill
<1>4. \A s \in Skills : Tells(s, reviews', told'[s])
  BY DEF LadderInv
<1> QED BY <1>2, <1>3, <1>4 DEF LadderInv

LEMMA BeginReviewClimbs ==
  ASSUME LadderInv, NEW c \in Calls, NEW skill \in Skills, NEW confident \in BOOLEAN,
         BeginReview(c, skill, confident)
  PROVE  LadderInv'
<1>1. UNCHANGED <<day, reviews, told>>
  BY DEF BeginReview
<1>2. /\ day \in Nat /\ Len(reviews) \in Nat /\ told[skill] \in Tellings
      /\ \A i \in 1..Len(reviews) : reviews[i].state # None => reviews[i].state \in Standing
  <2>1. day \in Nat /\ reviews \in Seq(Entries) /\ told[skill] \in Tellings
    BY DEF LadderInv
  <2>2. Len(reviews) \in Nat /\ \A i \in 1..Len(reviews) : reviews[i] \in Entries
    BY <2>1
  <2> QED BY <2>1, <2>2 DEF Entries
<1> DEFINE held(at, state, writes) ==
      [kind |-> "review", began |-> day, row |-> at, state |-> state, writes |-> writes, over |-> FALSE]
<1>3. \E at \in 0..Len(reviews), state \in Standing, writes \in BOOLEAN :
         /\ call' = [call EXCEPT ![c] = held(at, state, writes)]
         /\ state.skill = skill
         /\ at = NoRow => RowsIn(reviews, skill) = {}
         /\ at # NoRow => at \in RowsIn(reviews, skill)
         /\ at # NoRow /\ ~writes => reviews[at].state = state
         /\ state.confident = 0 => state = OnLadder(skill, 0, day)
         /\ told[skill].exact /\ state.confident # 0 => state = OnLadder(skill, told[skill].streak + 1, day)
  <2>1. CASE \E i \in RowsIn(reviews, skill) :
                Review(c, i, Graded(reviews[i].state, confident),
                       Graded(reviews[i].state, confident) # reviews[i].state)
    <3>1. PICK i \in RowsIn(reviews, skill) :
             Review(c, i, Graded(reviews[i].state, confident),
                    Graded(reviews[i].state, confident) # reviews[i].state)
      BY <2>1
    <3> DEFINE old == reviews[i].state
               new == Graded(old, confident)
    <3>2. i \in 1..Len(reviews) /\ old \in Standing /\ old.skill = skill /\ old.confident \in Nat
      BY <1>2 DEF RowsOf, RowsIn, Has, Standing
    <3>3. i \in 0..Len(reviews) /\ i # NoRow
      BY <1>2, <3>2 DEF NoRow
    <3>4. told[skill].exact => \E last \in Int :
             /\ old = OnLadder(skill, told[skill].streak, last)
             /\ old.confident = told[skill].streak
      <4> SUFFICES ASSUME told[skill].exact
                   PROVE  \E last \in Int : /\ old = OnLadder(skill, told[skill].streak, last)
                                            /\ old.confident = told[skill].streak
        OBVIOUS
      <4>1. told[skill].last # NotYet
        BY DEF LadderInv, Tells
      <4>2. told[skill].last \in Nat
        BY <1>2, <4>1 DEF Tellings
      <4>3. PICK k \in 1..Len(reviews) : /\ RowsIn(reviews, skill) = {k}
               /\ reviews[k].state = OnLadder(skill, told[skill].streak, told[skill].last)
        BY <4>1 DEF LadderInv, Tells
      <4>4. old = OnLadder(skill, told[skill].streak, told[skill].last)
        BY <4>3
      <4> QED BY <4>2, <4>4 DEF OnLadder
    <3> HIDE DEF old
    <3>5. /\ new \in Standing /\ new.skill = skill
          /\ new.confident = 0 => new = OnLadder(skill, 0, day)
          /\ told[skill].exact /\ new.confident # 0 => new = OnLadder(skill, told[skill].streak + 1, day)
      <4>1. CASE confident = FALSE
        <5>1. new = OnLadder(skill, 0, day)
          BY <1>2, <3>2, <4>1, GradedClimbs
        <5>2. new.confident = 0 /\ new.skill = skill
          BY <5>1 DEF OnLadder
        <5> QED BY <1>2, <5>1, <5>2, LadderStands
      <4>2. CASE confident = TRUE
        <5>1. /\ new = Graded(old, TRUE) /\ new \in Standing /\ new.skill = skill /\ new.confident # 0
              /\ \A last \in Int : old = OnLadder(skill, old.confident, last) =>
                    new = OnLadder(skill, old.confident + 1, day)
          BY <1>2, <3>2, <4>2, GradedClimbs
        <5> HIDE DEF new
        <5> QED BY <3>4, <5>1
      <4> QED BY <4>1, <4>2
    <3> HIDE DEF new
    <3>6. PICK writes \in BOOLEAN : writes = (new # old)
      OBVIOUS
    <3>7. call' = [call EXCEPT ![c] = held(i, new, writes)]
      BY <3>1, <3>6 DEF Review, new, old
    <3>8. ~writes => old = new
      BY <3>6
    <3> HIDE DEF held
    <3> QED BY <3>3, <3>5, <3>7, <3>8 DEF old
  <2>2. CASE RowsIn(reviews, skill) = {} /\ Review(c, NoRow, Graded(Fresh(skill), confident), TRUE)
    <3> DEFINE old == Fresh(skill)
               new == Graded(old, confident)
    <3>1. old \in Standing /\ old.skill = skill /\ old.confident = 0
      BY RungHasInterval DEF Fresh, Standing, Rungs
    <3>0. \E last \in Int : old = OnLadder(skill, 0, last)
      <4>1. (IF 0 < Top THEN 0 ELSE Top) = 0
        BY RungHasInterval
      <4>2. -Intervals[1] \in Int /\ -Intervals[1] + Intervals[0 + 1] = 0
        BY RungHasInterval DEF Rungs
      <4>3. OnLadder(skill, 0, -Intervals[1]) = old
        BY <4>1, <4>2 DEF OnLadder, Fresh
      <4> QED BY <4>2, <4>3
    <3>2. told[skill].exact => told[skill].streak = 0
      BY <2>2 DEF LadderInv, Tells
    <3>3. /\ new \in Standing /\ new.skill = skill
          /\ new.confident = 0 => new = OnLadder(skill, 0, day)
          /\ told[skill].exact /\ new.confident # 0 => new = OnLadder(skill, told[skill].streak + 1, day)
      <4>1. CASE confident = FALSE
        <5>1. new = OnLadder(skill, 0, day)
          BY <1>2, <3>1, <4>1, GradedClimbs
        <5>2. new.confident = 0 /\ new.skill = skill
          BY <5>1 DEF OnLadder
        <5> QED BY <1>2, <5>1, <5>2, LadderStands
      <4>2. CASE confident = TRUE
        <5>1. /\ new = Graded(old, TRUE) /\ new \in Standing /\ new.skill = skill /\ new.confident # 0
              /\ \A last \in Int : old = OnLadder(skill, 0, last) => new = OnLadder(skill, 0 + 1, day)
          <6> HIDE DEF old
          <6>1. new = Graded(old, TRUE)
            BY <4>2
          <6> HIDE DEF new
          <6> QED BY <1>2, <3>1, <6>1, GradedClimbs
        <5> HIDE DEF new, old
        <5> QED BY <3>0, <3>2, <5>1
      <4> QED BY <4>1, <4>2
    <3>4. PICK writes \in BOOLEAN : writes = TRUE
      OBVIOUS
    <3>5. call' = [call EXCEPT ![c] = held(NoRow, new, writes)]
      BY <2>2, <3>4 DEF Review
    <3>6. NoRow \in 0..Len(reviews)
      BY <1>2 DEF NoRow
    <3> HIDE DEF new, held
    <3> QED BY <2>2, <3>3, <3>5, <3>6
  <2>3. \/ \E i \in RowsIn(reviews, skill) :
              Review(c, i, Graded(reviews[i].state, confident),
                     Graded(reviews[i].state, confident) # reviews[i].state)
        \/ RowsIn(reviews, skill) = {} /\ Review(c, NoRow, Graded(Fresh(skill), confident), TRUE)
    BY DEF BeginReview, RowsOf
  <2> HIDE DEF held
  <2> QED BY <2>1, <2>2, <2>3
<1>4. PICK at \in 0..Len(reviews), state \in Standing, writes \in BOOLEAN :
         /\ call' = [call EXCEPT ![c] = held(at, state, writes)]
         /\ state.skill = skill
         /\ at = NoRow => RowsIn(reviews, skill) = {}
         /\ at # NoRow => at \in RowsIn(reviews, skill)
         /\ at # NoRow /\ ~writes => reviews[at].state = state
         /\ state.confident = 0 => state = OnLadder(skill, 0, day)
         /\ told[skill].exact /\ state.confident # 0 => state = OnLadder(skill, told[skill].streak + 1, day)
  BY <1>3
<1>5. /\ \A d \in Calls \ {c} : call'[d] = call[d]
      /\ call'[c] = held(at, state, writes)
      /\ call' \in [Calls -> {call'[d] : d \in Calls}]
  BY <1>4 DEF LadderInv
<1>7. at # NoRow => reviews[at].state # None /\ reviews[at].state.skill = skill
  BY <1>4 DEF RowsOf, RowsIn, Has
<1>8. Held(call'[c], reviews', told')
  <2> DEFINE k == held(at, state, writes)
  <2>1. /\ k \in Reviewing /\ k.row = at /\ k.state = state /\ k.writes = writes
        /\ k.began = day /\ k.over = FALSE
    <3>1. at \in Nat
      BY <1>2
    <3> QED BY <1>2, <3>1 DEF Reviewing
  <2> HIDE DEF k
  <2>2. Held(k, reviews, told)
    BY <1>4, <1>7, <2>1 DEF Held
  <2> QED BY <1>1, <1>5, <2>2 DEF k
<1>9. \A d \in Calls : call'[d].kind = "review" => Held(call'[d], reviews', told')
  <2> TAKE d \in Calls
  <2>1. CASE d = c
    BY <1>8, <2>1
  <2>2. CASE d # c
    BY <1>1, <1>5, <2>2 DEF LadderInv, Held
  <2> QED BY <2>1, <2>2
<1>10. SameRowSameSkill(call')
  <2>1. \A d \in Calls : call[d].kind = "review" /\ call[d].row = at /\ at # NoRow =>
           call[d].state.skill = skill
    BY <1>7 DEF LadderInv, Held
  <2>2. \A d, e \in Calls : /\ call[d].kind = "review" /\ call[e].kind = "review"
                            /\ call[d].row = call[e].row /\ call[d].row # NoRow
                            => call[d].state.skill = call[e].state.skill
    BY DEF LadderInv, SameRowSameSkill
  <2>3. call'[c].row = at /\ call'[c].state.skill = skill
    BY <1>4, <1>5
  <2> HIDE DEF held
  <2> QED BY <1>5, <2>1, <2>2, <2>3 DEF SameRowSameSkill
<1>11. \A s \in Skills : Tells(s, reviews', told'[s])
  BY <1>1 DEF LadderInv
<1> QED BY <1>1, <1>5, <1>9, <1>10, <1>11 DEF LadderInv

(* One row of a skill is written: the rows of the others stay as they are, *)
(* and the skill gains no row but that one.                                *)
OneRowChanged(rows, new, s, at) ==
    /\ Len(rows) \in Nat /\ Len(new) \in Nat /\ 1..Len(new) = 1..Len(rows) \cup {at}
    /\ \A i \in 1..Len(rows) : i # at => new[i] = rows[i]
    /\ new[at].state # None => new[at].state.skill = s
    /\ at \in 1..Len(rows) /\ rows[at].state # None => rows[at].state.skill = s

LEMMA OneRowWritten ==
  ASSUME NEW rows, NEW new, NEW s, NEW at, OneRowChanged(rows, new, s, at)
  PROVE  /\ \A t : t # s => RowsIn(new, t) = RowsIn(rows, t)
         /\ RowsIn(new, s) \subseteq RowsIn(rows, s) \cup {at}
         /\ new[at].state # None => at \in RowsIn(new, s)
<1>1. ASSUME NEW t, t # s PROVE RowsIn(new, t) = RowsIn(rows, t)
  <2>1. \A i : i \in RowsIn(new, t) => i \in RowsIn(rows, t)
    BY <1>1 DEF OneRowChanged, RowsIn, Has
  <2>2. \A i : i \in RowsIn(rows, t) => i \in RowsIn(new, t)
    BY <1>1 DEF OneRowChanged, RowsIn, Has
  <2> QED BY <2>1, <2>2
<1>2. /\ RowsIn(new, s) \subseteq RowsIn(rows, s) \cup {at}
      /\ new[at].state # None => at \in RowsIn(new, s)
  BY DEF OneRowChanged, RowsIn, Has
<1> QED BY <1>1, <1>2

LEMMA CommitReviewClimbs ==
  ASSUME LadderInv, NEW c \in Calls, CommitReview(c)
  PROVE  LadderInv'
<1> DEFINE k == call[c]
           s == k.state.skill
           at == IF k.row = NoRow THEN Len(reviews) + 1 ELSE k.row
<1>1. /\ k.kind = "review" /\ Held(k, reviews, told)
      /\ day' = day /\ day \in Nat /\ reviews \in Seq(Entries) /\ Len(reviews) \in Nat
  BY DEF CommitReview, LadderInv
<1>2. /\ k.state \in Standing /\ s \in Skills /\ k.began \in Nat /\ k.row \in 0..Len(reviews)
      /\ told[s] \in Tellings
  <2>1. k \in Reviewing /\ k.row \in 0..Len(reviews)
    BY <1>1 DEF Held
  <2> QED BY <2>1 DEF Reviewing, Standing, LadderInv
<1>3. /\ reviews' \in Seq(Entries) /\ Len(reviews') \in Nat
      /\ Len(reviews) <= Len(reviews') /\ 1..Len(reviews') = 1..Len(reviews) \cup {at}
      /\ \A i \in 1..Len(reviews) : i # at => reviews'[i] = reviews[i]
      /\ \/ reviews'[at].state = k.state
         \/ k.row # NoRow /\ ~k.writes /\ reviews'[at] = reviews[at]
  <2>1. CASE k.row = NoRow
    <3>1. reviews' = Append(reviews, [created |-> k.began, state |-> k.state])
      BY <2>1 DEF CommitReview
    <3>2. [created |-> k.began, state |-> k.state] \in Entries
      BY <1>2 DEF Entries
    <3> QED BY <1>1, <2>1, <3>1, <3>2
  <2>2. CASE k.row # NoRow /\ k.writes
    <3>1. reviews' = [reviews EXCEPT ![k.row].state = k.state] /\ k.row \in 1..Len(reviews)
      BY <1>2, <2>2 DEF CommitReview, NoRow
    <3>2. [reviews[k.row] EXCEPT !.state = k.state] \in Entries
      <4>1. reviews[k.row] \in Entries
        BY <1>1, <3>1
      <4> QED BY <1>2, <4>1 DEF Entries
    <3>3. reviews' \in Seq(Entries) /\ Len(reviews') = Len(reviews)
      BY <1>1, <3>1, <3>2
    <3>4. reviews[k.row] \in Entries
      BY <1>1, <3>1
    <3>5. reviews'[k.row].state = k.state
      BY <1>1, <3>1, <3>4 DEF Entries
    <3> QED BY <1>1, <2>2, <3>1, <3>3, <3>5
  <2>3. CASE k.row # NoRow /\ ~k.writes
    <3>1. reviews' = reviews /\ k.row \in 1..Len(reviews)
      BY <1>2, <2>3 DEF CommitReview, NoRow
    <3> QED BY <1>1, <2>3, <3>1
  <2> QED BY <2>1, <2>2, <2>3
<1>4. /\ at \in 1..Len(reviews) /\ reviews[at].state # None => reviews[at].state.skill = s
      /\ reviews'[at].state # None => reviews'[at].state.skill = s
      /\ ~k.over => reviews'[at].state = k.state
  <2>1. k.row # NoRow /\ reviews[k.row].state # None => reviews[k.row].state.skill = s
    BY <1>1 DEF Held
  <2>2. k.row = NoRow => at \notin 1..Len(reviews)
    BY <1>1
  <2>3. k.row # NoRow => at = k.row
    OBVIOUS
  <2>4. ~k.over /\ k.row # NoRow /\ ~k.writes => reviews[k.row].state = k.state
    BY <1>1 DEF Held
  <2> HIDE DEF at
  <2> QED BY <1>3, <2>1, <2>2, <2>3, <2>4
<1>5. /\ \A t : t # s => RowsIn(reviews', t) = RowsIn(reviews, t)
      /\ RowsIn(reviews', s) \subseteq RowsIn(reviews, s) \cup {at}
      /\ ~k.over => at \in RowsIn(reviews', s)
  <2>1. k.state # None
    BY <1>2, StandingIsSome
  <2> HIDE DEF at, s
  <2>2. OneRowChanged(reviews, reviews', s, at)
    BY <1>1, <1>3, <1>4 DEF OneRowChanged
  <2>3. /\ \A t : t # s => RowsIn(reviews', t) = RowsIn(reviews, t)
        /\ RowsIn(reviews', s) \subseteq RowsIn(reviews, s) \cup {at}
        /\ reviews'[at].state # None => at \in RowsIn(reviews', s)
    BY <2>2, OneRowWritten
  <2> QED BY <1>4, <2>1, <2>3
<1>6. /\ call' = [d \in Calls |-> IF d = c THEN Idle ELSE Overtaken(d, {s})]
      /\ told' = [told EXCEPT ![s] = Confirmed(k, told[s], reviews')]
  BY DEF CommitReview
<1>7. ASSUME NEW d \in Calls, call'[d].kind = "review"
      PROVE  /\ d # c /\ call[d].kind = "review" /\ Held(call[d], reviews, told)
             /\ call'[d] = IF call[d].state.skill = s THEN [call[d] EXCEPT !.over = TRUE] ELSE call[d]
             /\ call'[d].row = call[d].row /\ call'[d].state = call[d].state
  <2>1. d # c
    BY <1>6, <1>7 DEF Idle
  <2>2. call'[d] = Overtaken(d, {s})
    BY <1>6, <2>1
  <2>3. call[d].kind = "review"
    BY <1>7, <2>2 DEF Overtaken
  <2>4. Held(call[d], reviews, told)
    BY <2>3 DEF LadderInv
  <2> QED BY <2>1, <2>2, <2>3, <2>4 DEF Overtaken
<1>8. ASSUME NEW d \in Calls, call'[d].kind = "review"
      PROVE  Held(call'[d], reviews', told')
  <2> DEFINE t == call[d].state.skill
  <2>0. Held(call[d], reviews, told)
    BY <1>7, <1>8
  <2>1. Held(call[d], reviews, told) /\ call[d].row \in 0..Len(reviews')
    <3>1. call[d].row \in 0..Len(reviews)
      BY <2>0 DEF Held
    <3> HIDE DEF at
    <3> QED BY <1>1, <1>3, <2>0, <3>1
  <2>2. CASE t = s
    <3>1. /\ call'[d] = [call[d] EXCEPT !.over = TRUE]
          /\ call[d].row # NoRow => call[d].row \in 1..Len(reviews)
      <4>1. call'[d] = [call[d] EXCEPT !.over = TRUE]
        BY <1>7, <1>8, <2>2
      <4>2. call[d].row \in 0..Len(reviews)
        BY <2>1 DEF Held
      <4> QED BY <1>1, <4>1, <4>2 DEF NoRow
    <3>2. call[d].row # NoRow /\ reviews'[call[d].row].state # None => reviews'[call[d].row].state.skill = s
      <4>1. call[d].row # NoRow /\ reviews[call[d].row].state # None => reviews[call[d].row].state.skill = s
        BY <2>1, <2>2 DEF Held
      <4> HIDE DEF at, s
      <4> QED BY <1>3, <1>4, <3>1, <4>1
    <3>3. /\ call'[d] \in Reviewing /\ call'[d].over = TRUE
          /\ call'[d].row = call[d].row /\ call'[d].state.skill = s
      <4>1. call[d] \in Reviewing
        BY <2>1 DEF Held
      <4> HIDE DEF s
      <4> QED BY <2>2, <3>1, <4>1, Overtake
    <3> QED BY <2>1, <3>2, <3>3 DEF Held
  <2>3. CASE t # s
    <3>1. call'[d] = call[d] /\ RowsIn(reviews', t) = RowsIn(reviews, t) /\ told'[t] = told[t]
      <4>1. call'[d] = call[d] /\ RowsIn(reviews', t) = RowsIn(reviews, t)
        BY <1>5, <1>7, <1>8, <2>3
      <4>2. told'[t] = told[t]
        BY <1>2, <1>6, <2>3 DEF LadderInv
      <4> QED BY <4>1, <4>2
    <3>2. call[d].row # NoRow => reviews'[call[d].row] = reviews[call[d].row]
      <4>1. call[d].row # NoRow => call[d].row # k.row
        BY <1>1, <1>7, <1>8, <2>3 DEF LadderInv, SameRowSameSkill
      <4>2. call[d].row # NoRow => call[d].row \in 1..Len(reviews) /\ call[d].row # at
        BY <1>1, <2>1, <4>1 DEF Held, NoRow
      <4> QED BY <1>3, <4>2
    <3> QED BY <2>1, <3>1, <3>2 DEF Held
  <2> QED BY <2>2, <2>3
<1>9. SameRowSameSkill(call')
  <2> SUFFICES ASSUME NEW d \in Calls, NEW e \in Calls,
                      call'[d].kind = "review", call'[e].kind = "review",
                      call'[d].row = call'[e].row, call'[d].row # NoRow
               PROVE  call'[d].state.skill = call'[e].state.skill
    BY DEF SameRowSameSkill
  <2> QED BY <1>7 DEF LadderInv, SameRowSameSkill
<1>10. ASSUME NEW t \in Skills, t # s
       PROVE  told'[t] = told[t] /\ Tells(t, reviews', told'[t])
  <2>1. told'[t] = told[t] /\ Tells(t, reviews, told[t]) /\ RowsIn(reviews', t) = RowsIn(reviews, t)
    BY <1>2, <1>5, <1>6, <1>10 DEF LadderInv
  <2>2. \A i \in 1..Len(reviews) : i \in RowsIn(reviews', t) => reviews'[i] = reviews[i] /\ i \in 1..Len(reviews')
    <3>1. at \notin RowsIn(reviews', t)
      BY <1>4, <1>10 DEF RowsIn, Has
    <3> HIDE DEF at
    <3> QED BY <1>3, <3>1
  <2> QED BY <2>1, <2>2 DEF Tells
<1>11. told'[s] = Unsure \/ /\ ~k.over /\ RowsIn(reviews', s) = {at}
                            /\ told'[s].last = k.began /\ told'[s] \in Tellings
                            /\ k.state = OnLadder(s, told'[s].streak, k.began)
  <2>1. told'[s] = Confirmed(k, told[s], reviews')
    BY <1>2, <1>6 DEF LadderInv
  <2> SUFFICES ASSUME told'[s] # Unsure
               PROVE  /\ ~k.over /\ RowsIn(reviews', s) = {at}
                      /\ told'[s].last = k.began /\ told'[s] \in Tellings
                      /\ k.state = OnLadder(s, told'[s].streak, k.began)
    OBVIOUS
  <2> DEFINE doubtful == k.state.confident = 0
  <2>2. /\ ~k.over
        /\ told[s].exact \/ (doubtful /\ \E i \in 1..Len(reviews') : RowsIn(reviews', s) = {i})
        /\ told'[s] = [streak |-> IF doubtful THEN 0 ELSE told[s].streak + 1, last |-> k.began, exact |-> TRUE]
    BY <2>1 DEF Confirmed
  <2>3. RowsIn(reviews', s) = {at}
    <3>1. CASE told[s].exact
      <4>1. RowsIn(reviews, s) = {} \/ \E i : RowsIn(reviews, s) = {i}
        BY <1>2, <3>1 DEF LadderInv, Tells
      <4>2. /\ k.row = NoRow => RowsIn(reviews, s) = {}
            /\ k.row # NoRow => k.row \in RowsIn(reviews, s)
        BY <1>1, <2>2 DEF Held
      <4>3. RowsIn(reviews, s) \subseteq {at}
        BY <4>1, <4>2
      <4> HIDE DEF at, s
      <4> QED BY <1>5, <2>2, <4>3
    <3>2. CASE \E i \in 1..Len(reviews') : RowsIn(reviews', s) = {i}
      <4> HIDE DEF at, s
      <4> QED BY <1>5, <2>2, <3>2
    <3> QED BY <2>2, <3>1, <3>2
  <2>4. k.state = OnLadder(s, told'[s].streak, k.began)
    BY <1>1, <2>2 DEF Held
  <2>5. told'[s] \in Tellings
    BY <1>2, <2>2 DEF Tellings
  <2> QED BY <2>2, <2>3, <2>4, <2>5
<1>12. Tells(s, reviews', told'[s])
  <2>1. CASE told'[s] = Unsure
    BY <2>1 DEF Tells, Unsure
  <2>2. CASE told'[s] # Unsure
    <3>1. told'[s].last # NotYet /\ reviews'[at].state = k.state /\ at \in 1..Len(reviews')
      BY <1>2, <1>3, <1>4, <1>11, <2>2 DEF NotYet
    <3> HIDE DEF at, s
    <3> QED BY <1>11, <2>2, <3>1 DEF Tells
  <2> QED BY <2>1, <2>2
<1>13. \A t \in Skills : Tells(t, reviews', told'[t])
  BY <1>10, <1>12
<1>14. told' \in [Skills -> Tellings]
  <2>1. told \in [Skills -> Tellings]
    BY DEF LadderInv
  <2>2. told'[s] \in Tellings
    <3>1. Unsure \in Tellings
      BY DEF Tellings, Unsure
    <3> QED BY <1>11, <3>1
  <2> HIDE DEF s
  <2> QED BY <1>2, <1>6, <1>10, <2>1, <2>2
<1>15. \A t \in Skills : told'[t].exact /\ told'[t].last = NotYet => told'[t].streak = 0
  <2>1. told'[s].exact => told'[s].last # NotYet
    BY <1>2, <1>11 DEF Unsure, NotYet
  <2> HIDE DEF s
  <2> QED BY <1>10, <2>1 DEF LadderInv
<1>16. call' \in [Calls -> {call'[d] : d \in Calls}]
  BY <1>6
<1> QED BY <1>1, <1>3, <1>8, <1>9, <1>13, <1>14, <1>15, <1>16 DEF LadderInv

LEMMA CommitCleanupClimbs ==
  ASSUME LadderInv, CommitCleanup
  PROVE  LadderInv'
<1>1. PICK done \in SUBSET job :
         LET skills == {reviews[i].state.skill : i \in done} IN
         /\ reviews' = [i \in 1..Len(reviews) |->
               IF i \in done THEN [reviews[i] EXCEPT !.state = None] ELSE reviews[i]]
         /\ call' = [d \in Calls |-> Overtaken(d, skills)]
         /\ told' = [s \in Skills |-> IF s \in skills THEN Unsure ELSE told[s]]
  BY DEF CommitCleanup
<1> DEFINE skills == {reviews[i].state.skill : i \in done}
<1>2. day' = day /\ reviews \in Seq(Entries) /\ Len(reviews) \in Nat /\ told \in [Skills -> Tellings]
  BY DEF CommitCleanup, LadderInv
<1>3. /\ reviews' \in Seq(Entries) /\ Len(reviews') = Len(reviews)
      /\ \A i \in 1..Len(reviews) : /\ i \in done => reviews'[i].state = None
                                    /\ i \notin done => reviews'[i] = reviews[i]
  <2>1. \A i \in 1..Len(reviews) : reviews[i] \in Entries
    BY <1>2
  <2>2. \A i \in 1..Len(reviews) : /\ [reviews[i] EXCEPT !.state = None] \in Entries
                                   /\ [reviews[i] EXCEPT !.state = None].state = None
    BY <2>1 DEF Entries
  <2>3. \A i \in 1..Len(reviews) : reviews'[i] \in Entries
    BY <1>1, <2>1, <2>2
  <2>4. reviews' \in [1..Len(reviews) -> Entries]
    BY <1>1, <2>3
  <2>5. reviews' \in Seq(Entries) /\ Len(reviews') = Len(reviews)
    BY <1>2, <2>4
  <2> QED BY <1>1, <2>2, <2>5
<1>4. ASSUME NEW s, s \notin skills
      PROVE  /\ RowsIn(reviews', s) = RowsIn(reviews, s)
             /\ \A i \in RowsIn(reviews, s) : reviews'[i] = reviews[i]
  <2>1. \A i \in RowsIn(reviews, s) : i \notin done
    BY <1>4 DEF RowsIn, Has
  <2>2. \A i \in RowsIn(reviews, s) : reviews'[i] = reviews[i] /\ i \in 1..Len(reviews')
    BY <1>3, <2>1 DEF RowsIn
  <2>3. \A i : i \in RowsIn(reviews, s) => i \in RowsIn(reviews', s)
    BY <2>2 DEF RowsIn
  <2>4. \A i : i \in RowsIn(reviews', s) => i \in RowsIn(reviews, s)
    BY <1>3 DEF RowsIn, Has
  <2> QED BY <2>2, <2>3, <2>4
<1>5. \A d \in Calls : call'[d] = Overtaken(d, skills)
  BY <1>1
<1>6. ASSUME NEW d \in Calls, call'[d].kind = "review"
      PROVE  /\ call[d].kind = "review" /\ Held(call[d], reviews, told)
             /\ call'[d] = IF call[d].state.skill \in skills THEN [call[d] EXCEPT !.over = TRUE] ELSE call[d]
             /\ call'[d].row = call[d].row /\ call'[d].state = call[d].state
  <2>1. call[d].kind = "review"
    BY <1>5, <1>6 DEF Overtaken
  <2>2. Held(call[d], reviews, told)
    BY <2>1 DEF LadderInv
  <2>3. call'[d] = IF call[d].state.skill \in skills THEN [call[d] EXCEPT !.over = TRUE] ELSE call[d]
    <3> HIDE DEF skills
    <3> QED BY <1>5, <2>1 DEF Overtaken
  <2>4. call[d] \in Reviewing
    BY <2>2 DEF Held
  <2> HIDE DEF skills
  <2> QED BY <2>1, <2>2, <2>3, <2>4, Overtake
<1>7. ASSUME NEW d \in Calls, call'[d].kind = "review"
      PROVE  Held(call'[d], reviews', told')
  <2> DEFINE t == call[d].state.skill
  <2>1. Held(call[d], reviews, told)
    BY <1>6, <1>7
  <2>2. call[d].row # NoRow /\ reviews'[call[d].row].state # None => reviews'[call[d].row].state.skill = t
    BY <1>3, <2>1 DEF Held, NoRow
  <2>3. CASE t \in skills
    <3>1. call'[d] = [call[d] EXCEPT !.over = TRUE] /\ call[d] \in Reviewing
      BY <1>6, <1>7, <2>1, <2>3 DEF Held
    <3>2. /\ call'[d] \in Reviewing /\ call'[d].over = TRUE
          /\ call'[d].row = call[d].row /\ call'[d].state = call[d].state
      BY <3>1, Overtake
    <3>3. call[d].row \in 0..Len(reviews')
      BY <1>3, <2>1 DEF Held
    <3> HIDE DEF skills
    <3> QED BY <2>2, <3>2, <3>3 DEF Held
  <2>4. CASE t \notin skills
    <3>1. call'[d] = call[d] /\ RowsIn(reviews', t) = RowsIn(reviews, t)
      BY <1>4, <1>6, <1>7, <2>4
    <3>2. t \in Skills /\ told'[t] = told[t]
      <4>1. call[d] \in Reviewing
        BY <2>1 DEF Held
      <4>2. t \in Skills
        BY <4>1 DEF Reviewing, Standing
      <4> HIDE DEF t
      <4> QED BY <1>1, <2>4, <4>2
    <3>3. call[d].row \in RowsIn(reviews, t) => reviews'[call[d].row] = reviews[call[d].row]
      BY <1>4, <2>4
    <3> HIDE DEF skills
    <3> QED BY <1>3, <2>1, <2>2, <3>1, <3>2, <3>3 DEF Held
  <2> QED BY <2>3, <2>4
<1>8. SameRowSameSkill(call')
  <2> SUFFICES ASSUME NEW d \in Calls, NEW e \in Calls,
                      call'[d].kind = "review", call'[e].kind = "review",
                      call'[d].row = call'[e].row, call'[d].row # NoRow
               PROVE  call'[d].state.skill = call'[e].state.skill
    BY DEF SameRowSameSkill
  <2> QED BY <1>6 DEF LadderInv, SameRowSameSkill
<1>9. ASSUME NEW t \in Skills
      PROVE  /\ Tells(t, reviews', told'[t]) /\ told'[t] \in Tellings
             /\ told'[t].exact /\ told'[t].last = NotYet => told'[t].streak = 0
  <2>1. CASE t \in skills
    <3>1. told'[t] = Unsure
      BY <1>1, <2>1
    <3> QED BY <3>1 DEF Unsure, Tells, Tellings, NotYet
  <2>2. CASE t \notin skills
    <3>1. told'[t] = told[t] /\ Tells(t, reviews, told[t])
      BY <1>1, <2>2 DEF LadderInv
    <3>2. RowsIn(reviews', t) = RowsIn(reviews, t) /\ \A i \in RowsIn(reviews, t) : reviews'[i] = reviews[i]
      BY <1>4, <2>2
    <3>3. Tells(t, reviews', told'[t])
      BY <1>3, <3>1, <3>2 DEF Tells
    <3> QED BY <3>1, <3>3 DEF LadderInv
  <2> QED BY <2>1, <2>2
<1>10. told' \in [Skills -> Tellings] /\ call' \in [Calls -> {call'[d] : d \in Calls}]
  BY <1>1, <1>9
<1> QED BY <1>2, <1>3, <1>7, <1>8, <1>9, <1>10 DEF LadderInv

LEMMA LadderInductive == LadderInv /\ [LearningNext]_learning => LadderInv'
<1> SUFFICES ASSUME LadderInv, [LearningNext]_learning PROVE LadderInv'
  OBVIOUS
<1>1. ASSUME NEW c \in Calls,
             AskMission(c) \/ ServeMission(c) \/ GenerateMission(c) \/ StoreMission(c) \/ Abort(c)
      PROVE  LadderInv'
  <2>1. UNCHANGED <<day, reviews, told>> /\ \E k : call' = [call EXCEPT ![c] = k] /\ k.kind # "review"
    BY <1>1 DEF AskMission, ServeMission, GenerateMission, StoreMission, Abort, Idle
  <2>2. /\ \A d \in Calls : call'[d].kind = "review" => call'[d] = call[d]
        /\ call' \in [Calls -> {call'[d] : d \in Calls}]
    BY <2>1 DEF LadderInv
  <2>3. day' \in Nat
    BY <2>1 DEF LadderInv
  <2> QED BY <2>1, <2>2, <2>3, HeldStays
<1>2. CASE BeginCleanup \/ Midnight \/ UNCHANGED learning
  <2>1. UNCHANGED <<reviews, told, call>> /\ day' \in Nat
    BY <1>2 DEF BeginCleanup, Midnight, learning, LadderInv
  <2>2. call' \in [Calls -> {call'[d] : d \in Calls}]
    BY <2>1 DEF LadderInv
  <2> QED BY <2>1, <2>2, HeldStays
<1> QED BY <1>1, <1>2, BeginReviewClimbs, CommitReviewClimbs, CommitCleanupClimbs DEF LearningNext, Handle

(* Whatever reviews, missions and clean-ups overlap: as long as the        *)
(* reviews of a skill ran one after the other and none was compressed, its *)
(* one row stands on the rung those reviews reached, with their count and  *)
(* with the date of the last; after an overlap, a doubtful review that     *)
(* runs alone on the only row makes it true again.                         *)
THEOREM LadderAlwaysFollows == LearningSpec => []LadderFollowsReviews
<1>1. LadderInv => LadderFollowsReviews
  BY DEF LadderInv, LadderFollowsReviews, Tells, RowsOf
<1> QED BY <1>1, LadderInit, LadderInductive, PTL DEF LearningSpec
-----------------------------------------------------------------------------
(* The daily mission.  A stored mission was begun no later than the day it *)
(* was chosen for; a request has found the newest one, and a lesson under  *)
(* way although one was there has seen midnight.                           *)
Past(m, today) == /\ m.created \in Nat /\ m.chosen \in Nat
                  /\ m.created <= m.chosen /\ m.chosen <= today

Waits(k, stored, today) ==
    /\ k.kind = "asked" =>
          /\ k.began \in Nat /\ k.began <= today /\ k.found \in stored \cup {Nothing}
          /\ k.warm => k.found.created = k.began
    /\ k.kind = "lesson" =>
          /\ k.began \in Nat /\ k.chosen \in Nat /\ k.began <= k.chosen /\ k.chosen <= today
          /\ k.warm => k.chosen > k.began

MissionInv ==
    /\ day \in Nat
    /\ call \in [Calls -> {call[c] : c \in Calls}]
    /\ \A m \in missions : Past(m, day)
    /\ \A c \in Calls : Waits(call[c], missions, day)
    /\ served.stored => served.mission.chosen = served.on

LEMMA MissionInit == LearningInit => MissionInv
  BY DEF LearningInit, MissionInv, Waits, Idle

(* What a step keeps when it stores no mission and moves no request there. *)
LEMMA WaitsOn ==
  ASSUME MissionInv, UNCHANGED <<missions, served>>, day' \in {day, day + 1},
         call' \in [Calls -> {call'[c] : c \in Calls}],
         \A c \in Calls : \/ call'[c].kind \notin {"asked", "lesson"}
                          \/ call'[c] = call[c]
                          \/ Waits(call'[c], missions, day')
  PROVE  MissionInv'
<1>1. day' \in Nat /\ day <= day' /\ day \in Nat
  BY DEF MissionInv
<1>2. \A m \in missions' : Past(m, day')
  <2> SUFFICES ASSUME NEW m \in missions PROVE Past(m, day')
    OBVIOUS
  <2>1. Past(m, day)
    BY DEF MissionInv
  <2> QED BY <1>1, <2>1 DEF Past
<1>3. ASSUME NEW c \in Calls PROVE Waits(call'[c], missions', day')
  <2>1. Waits(call[c], missions, day) => Waits(call[c], missions, day')
    BY <1>1 DEF Waits
  <2>2. Waits(call[c], missions, day)
    BY DEF MissionInv
  <2>3. CASE call'[c].kind \notin {"asked", "lesson"}
    BY <2>3 DEF Waits
  <2> QED BY <2>1, <2>2, <2>3
<1> QED BY <1>1, <1>2, <1>3 DEF MissionInv

LEMMA AskMissionWaits ==
  ASSUME MissionInv, NEW c \in Calls, AskMission(c)
  PROVE  MissionInv'
<1>1. PICK m \in Newest : call' = [call EXCEPT ![c] =
         [kind |-> "asked", began |-> day, found |-> m,
          warm |-> \E other \in missions : other.created = day]]
  BY DEF AskMission
<1>2. UNCHANGED <<day, missions, served>> /\ day \in Nat
  BY DEF AskMission, MissionInv
<1>3. m \in missions \cup {Nothing}
  BY DEF Newest
<1>4. ASSUME NEW other \in missions, other.created = day PROVE m.created = day
  <2>1. m \in missions /\ other.created <= m.created
    BY <1>4 DEF Newest
  <2>2. Past(m, day)
    BY <2>1 DEF MissionInv
  <2> QED BY <1>2, <1>4, <2>1, <2>2 DEF Past
<1>5. PICK warm \in BOOLEAN : warm = \E other \in missions : other.created = day
  OBVIOUS
<1>6. warm => m.created = day
  BY <1>4, <1>5
<1> DEFINE k == [kind |-> "asked", began |-> day, found |-> m, warm |-> warm]
<1>7. call' = [call EXCEPT ![c] = k]
  BY <1>1, <1>5
<1>8. Waits(k, missions, day')
  BY <1>2, <1>3, <1>6 DEF Waits
<1> HIDE DEF k
<1>9. /\ \A d \in Calls : call'[d] = call[d] \/ Waits(call'[d], missions, day')
      /\ call' \in [Calls -> {call'[d] : d \in Calls}]
  BY <1>7, <1>8 DEF MissionInv
<1> QED BY <1>2, <1>9, WaitsOn

LEMMA GenerateMissionWaits ==
  ASSUME MissionInv, NEW c \in Calls, GenerateMission(c)
  PROVE  MissionInv'
<1> DEFINE k == [kind |-> "lesson", began |-> call[c].began, chosen |-> day, warm |-> call[c].warm]
<1>1. /\ call' = [call EXCEPT ![c] = k] /\ UNCHANGED <<day, missions, served>> /\ day \in Nat
      /\ call[c].kind = "asked" /\ call[c].found.created # day
  BY DEF GenerateMission, MissionInv, Cached
<1>2. Waits(call[c], missions, day)
  BY DEF MissionInv
<1>3. Waits(k, missions, day')
  BY <1>1, <1>2 DEF Waits
<1> HIDE DEF k
<1>4. /\ \A d \in Calls : call'[d] = call[d] \/ Waits(call'[d], missions, day')
      /\ call' \in [Calls -> {call'[d] : d \in Calls}]
  BY <1>1, <1>3 DEF MissionInv
<1> QED BY <1>1, <1>4, WaitsOn

LEMMA ServeMissionToday ==
  ASSUME MissionInv, NEW c \in Calls, ServeMission(c)
  PROVE  MissionInv'
<1>1. /\ call' = [call EXCEPT ![c] = Idle] /\ UNCHANGED <<day, missions>> /\ day \in Nat
      /\ call[c].kind = "asked" /\ call[c].found.created = day
      /\ served' = [mission |-> call[c].found, on |-> day, stored |-> TRUE]
  BY DEF ServeMission, MissionInv, Cached
<1>2. call[c].found \in missions
  <2>1. call[c].found \in missions \cup {Nothing}
    BY <1>1 DEF MissionInv, Waits
  <2> QED BY <1>1, <2>1 DEF Nothing, NotYet
<1>3. Past(call[c].found, day)
  BY <1>2 DEF MissionInv
<1>4. call[c].found.chosen = day
  BY <1>1, <1>3 DEF Past
<1>5. served'.mission.chosen = served'.on
  BY <1>1, <1>4
<1>6. \A d \in Calls : Waits(call'[d], missions', day')
  <2>1. Waits(Idle, missions, day)
    BY DEF Waits, Idle
  <2> QED BY <1>1, <2>1 DEF MissionInv
<1> QED BY <1>1, <1>5, <1>6 DEF MissionInv

LEMMA StoreMissionToday ==
  ASSUME MissionInv, NEW c \in Calls, StoreMission(c)
  PROVE  MissionInv'
<1> DEFINE mission == [created |-> call[c].began, chosen |-> call[c].chosen]
<1>1. /\ call' = [call EXCEPT ![c] = Idle] /\ UNCHANGED day /\ day \in Nat
      /\ call[c].kind = "lesson" /\ missions' = missions \cup {mission}
      /\ served'.stored = FALSE
  BY DEF StoreMission, Created, MissionInv
<1>2. Past(mission, day)
  <2>1. Waits(call[c], missions, day)
    BY DEF MissionInv
  <2> QED BY <1>1, <2>1 DEF Waits, Past
<1> HIDE DEF mission
<1>3. \A d \in Calls : Waits(call'[d], missions', day')
  <2>1. \A d \in Calls : Waits(call[d], missions, day) /\ Waits(Idle, missions, day)
    BY DEF MissionInv, Waits, Idle
  <2>2. \A d \in Calls : Waits(call'[d], missions, day)
    BY <1>1, <2>1 DEF MissionInv
  <2> QED BY <1>1, <2>2 DEF Waits
<1> QED BY <1>1, <1>2, <1>3 DEF MissionInv

LEMMA MissionInductive == MissionInv /\ [LearningNext]_learning => MissionInv'
<1> SUFFICES ASSUME MissionInv, [LearningNext]_learning PROVE MissionInv'
  OBVIOUS
<1>1. ASSUME NEW c \in Calls,
             \/ \E skill \in Skills, confident \in BOOLEAN : BeginReview(c, skill, confident)
             \/ Abort(c)
      PROVE  MissionInv'
  <2>1. UNCHANGED <<day, missions, served>>
    BY <1>1 DEF BeginReview, Abort
  <2>2. \E k : call' = [call EXCEPT ![c] = k] /\ k.kind \notin {"asked", "lesson"}
    BY <1>1 DEF BeginReview, Abort, Review, Idle
  <2>3. /\ \A d \in Calls : call'[d].kind \notin {"asked", "lesson"} \/ call'[d] = call[d]
        /\ call' \in [Calls -> {call'[d] : d \in Calls}]
    BY <2>2 DEF MissionInv
  <2> QED BY <2>1, <2>3, WaitsOn
<1>2. ASSUME \/ \E c \in Calls : CommitReview(c)
             \/ CommitCleanup
      PROVE  MissionInv'
  <2>1. UNCHANGED <<day, missions, served>>
    BY <1>2 DEF CommitReview, CommitCleanup
  <2>2. \A d \in Calls : \A skills : \/ Overtaken(d, skills).kind \notin {"asked", "lesson"}
                                    \/ Overtaken(d, skills) = call[d]
    <3> SUFFICES ASSUME NEW d \in Calls, NEW skills, Overtaken(d, skills) # call[d]
                 PROVE  Overtaken(d, skills).kind \notin {"asked", "lesson"}
      OBVIOUS
    <3>1. call[d].kind = "review" /\ Overtaken(d, skills) = [call[d] EXCEPT !.over = TRUE]
      BY DEF Overtaken
    <3>2. [call[d] EXCEPT !.over = TRUE].kind \notin {"asked", "lesson"}
      BY <3>1
    <3> QED BY <3>1, <3>2
  <2>3. /\ \A d \in Calls : call'[d].kind \notin {"asked", "lesson"} \/ call'[d] = call[d]
        /\ call' \in [Calls -> {call'[d] : d \in Calls}]
    <3>1. \E skills, done : call' = [d \in Calls |-> IF d \in done THEN Idle ELSE Overtaken(d, skills)]
      <4>1. CASE \E c \in Calls : CommitReview(c)
        <5>1. PICK c \in Calls : CommitReview(c)
          BY <4>1
        <5>2. call' = [d \in Calls |-> IF d \in {c} THEN Idle ELSE Overtaken(d, {call[c].state.skill})]
          BY <5>1 DEF CommitReview
        <5> QED BY <5>2
      <4>2. CASE CommitCleanup
        <5>1. PICK skills : call' = [d \in Calls |-> Overtaken(d, skills)]
          BY <4>2 DEF CommitCleanup
        <5>2. PICK none : none = {}
          OBVIOUS
        <5>3. call' = [d \in Calls |-> IF d \in none THEN Idle ELSE Overtaken(d, skills)]
          BY <5>1, <5>2
        <5> QED BY <5>3
      <4> QED BY <1>2, <4>1, <4>2
    <3>2. PICK skills, done : call' = [d \in Calls |-> IF d \in done THEN Idle ELSE Overtaken(d, skills)]
      BY <3>1
    <3> QED BY <2>2, <3>2 DEF Idle
  <2> QED BY <2>1, <2>3, WaitsOn
<1>3. CASE BeginCleanup \/ Midnight \/ UNCHANGED learning
  <2>1. UNCHANGED <<missions, served, call>> /\ day' \in {day, day + 1}
    BY <1>3 DEF BeginCleanup, Midnight, learning
  <2>2. call' \in [Calls -> {call'[c] : c \in Calls}]
    BY <2>1 DEF MissionInv
  <2> QED BY <2>1, <2>2, WaitsOn
<1> QED BY <1>1, <1>2, <1>3, AskMissionWaits, GenerateMissionWaits, ServeMissionToday, StoreMissionToday
     DEF LearningNext, Handle

(* However many requests ask at once and however long a lesson is          *)
(* generated: a mission that is served from the table is one that was      *)
(* chosen for that day, though created_at holds the day on which its       *)
(* transaction began; and who asks on a day whose mission is stored waits  *)
(* for a lesson of his own only if midnight comes between.                 *)
THEOREM AlwaysServesToday == LearningSpec => []ServesToday
<1>1. MissionInv => ServesToday
  BY DEF MissionInv, ServesToday, Waits
<1> QED BY <1>1, MissionInit, MissionInductive, PTL DEF LearningSpec
=============================================================================
