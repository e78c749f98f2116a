----------------------------- MODULE CareerTwin -----------------------------
(***************************************************************************)
(* The career twin of one user (CareerTwinService): one database row that  *)
(* every request loads, changes in memory and writes back.  The ORM writes *)
(* the columns whose values differ from the loaded ones; concurrent writes *)
(* of one row are ordered by their commits, and nothing compares versions. *)
(***************************************************************************)
EXTENDS Integers, Sequences

CONSTANTS
    Requests,       \* requests of the user, each served once
    Levels,         \* confidences of the skill that is followed
    Score,          \* the scores _recompute_scores derives from each of them
    Known,          \* 0.7: what a learned skill has at least
    MaxTick         \* bound of the model: the last half day

ASSUME LevelsAssumption == Levels \subseteq Nat /\ 0 \in Levels /\ Known \in Levels
ASSUME ScoreAssumption == Score \in [Levels -> Nat]
ASSUME TickAssumption == MaxTick \in Nat

VARIABLES
    tick,           \* time, in half days: no request takes longer than one
    row,            \* the committed row of career_twins
    req,            \* each request: its kind, and the row it loaded or writes
    active,         \* history: days on which a committed session was completed
    inorder         \* history: no session was committed after a later day's

vars == <<tick, row, req, active, inorder>>

Today == tick \div 2
Day == 0..(MaxTick \div 2)
Never == -2                     \* last_active_date is None

Kinds == {"add_interview_result", "update_after_interview", "create_from_resume",
          "update_skill_confidence", "update_after_learning", "recompute_scores"}

Entry == [id : Requests, scored : BOOLEAN]

Row == [skill : Levels, scores : {Score[l] : l \in Levels}, version : Nat,
        interview_history : Seq(Entry), interviews_completed : Nat,
        learning_streak_days : Nat, last_active_date : Day \cup {Never}]

New == [state |-> "new"]
Done == [state |-> "done"]

Request == [state : {"loaded", "computed"}, kind : Kinds, since : Int, old : Row, new : Row]

Open(r) == req[r].state \in {"loaded", "computed"}

TypeOK ==
    /\ tick \in 0..MaxTick
    /\ row \in Row
    /\ req \in [Requests -> {New, Done} \cup Request]
    /\ \A r \in Requests : Open(r) => req[r].since \in {tick - 1, tick}
    /\ active \subseteq Day /\ inorder \in BOOLEAN

Init ==
    /\ tick = 0
    /\ \E l \in Levels :
          row = [skill |-> l, scores |-> Score[l], version |-> 1,
                 interview_history |-> <<>>, interviews_completed |-> 0,
                 learning_streak_days |-> 0, last_active_date |-> Never]
    /\ req = [r \in Requests |-> New]
    /\ active = {} /\ inorder = TRUE

-----------------------------------------------------------------------------
(* What each operation makes of the twin it loaded.                        *)

Scored(twin) == [twin EXCEPT !.scores = Score[twin.skill]]

WithSkill(twin, level) == Scored([twin EXCEPT !.skill = level])

Weaker(level) == IF level - 1 \in Levels THEN level - 1 ELSE 0

Interviewed(twin, r, weak) ==
    WithSkill([twin EXCEPT !.interview_history = Append(@, [id |-> r, scored |-> FALSE])],
              IF weak THEN Weaker(twin.skill) ELSE twin.skill)

CountedBefore(twin) ==                                              \* mutant
    LET n == Len(twin.interview_history)
    IN  [twin EXCEPT !.interview_history[n].scored = TRUE, !.interviews_completed = n - 1]
Aggregated(twin) ==
    LET n == Len(twin.interview_history)
    IN  [twin EXCEPT !.interview_history[n].scored = TRUE, !.interviews_completed = n]

WeekendProof(twin, today) ==                                        \* mutant
    IF twin.last_active_date \in today - 2..today - 1
    THEN twin.learning_streak_days + 1 ELSE 1
Streak(twin, today) ==
    CASE twin.last_active_date = today -> twin.learning_streak_days
      [] twin.last_active_date = today - 1 -> twin.learning_streak_days + 1
      [] OTHER -> 1

Learned(twin, today) ==
    [WithSkill(twin, IF twin.skill < Known THEN Known ELSE twin.skill) EXCEPT
        !.learning_streak_days = Streak(twin, today),
        !.last_active_date = today]

FromResume(twin, level) == [WithSkill(twin, level) EXCEPT !.version = @ + 1]

Results(kind, r, twin) ==
    CASE kind = "create_from_resume"      -> {FromResume(twin, l) : l \in Levels}
      [] kind = "update_skill_confidence" -> {WithSkill(twin, l) : l \in Levels}
      [] kind = "add_interview_result"    -> {Interviewed(twin, r, w) : w \in BOOLEAN}
      [] kind = "update_after_interview"  ->
            {Aggregated(Interviewed(twin, r, w)) : w \in BOOLEAN}
      [] kind = "update_after_learning"   -> {Learned(twin, Today)}
      [] kind = "recompute_scores"        -> {Scored(twin)}

(* The UPDATE names the columns whose value is not the loaded one.         *)
Overwritten(current, old, new) ==
    [column \in DOMAIN current |->
        IF new[column] = old[column] THEN current[column] ELSE new[column]]

-----------------------------------------------------------------------------
Load(r, kind) ==
    /\ req[r] = New
    /\ req' = [req EXCEPT ![r] = [state |-> "loaded", kind |-> kind, since |-> tick,
                                  old |-> row, new |-> row]]
    /\ UNCHANGED <<tick, row, active, inorder>>

Compute(r) ==
    /\ req[r].state = "loaded"
    /\ \E twin \in Results(req[r].kind, r, req[r].old) :
          req' = [req EXCEPT ![r].state = "computed", ![r].new = twin]
    /\ UNCHANGED <<tick, row, active, inorder>>

Commit(r) ==
    /\ req[r].state = "computed"
    /\ row' = Overwritten(row, req[r].old, req[r].new)
    /\ IF req[r].kind = "update_after_learning"
       THEN LET date == req[r].new.last_active_date IN
            /\ active' = active \cup {date}
            /\ inorder' = (inorder /\ \A d \in active : d <= date)
       ELSE UNCHANGED <<active, inorder>>
    /\ req' = [req EXCEPT ![r] = Done]
    /\ UNCHANGED tick

(* An exception anywhere in the request rolls its session back.            *)
Rollback(r) ==
    /\ Open(r)
    /\ req' = [req EXCEPT ![r] = Done]
    /\ UNCHANGED <<tick, row, active, inorder>>

Tick ==
    /\ tick < MaxTick
    /\ \A r \in Requests : Open(r) => req[r].since = tick
    /\ tick' = tick + 1
    /\ UNCHANGED <<row, req, active, inorder>>

Next ==
    \/ \E r \in Requests :
          \/ \E kind \in Kinds : Load(r, kind)
          \/ Compute(r) \/ Commit(r) \/ Rollback(r)
    \/ Tick

Spec == Init /\ [][Next]_vars

-----------------------------------------------------------------------------
(* Properties.                                                             *)

(* The streak is that many days, up to the last active one, and on every   *)
(* one of them a session was completed (update_after_learning): however    *)
(* sessions around midnight overlap and overwrite each other's columns, as *)
(* long as none is committed after a session of a later day.               *)
StreakDaysWereActive ==
    inorder =>
        \A d \in row.last_active_date - row.learning_streak_days + 1..row.last_active_date :
            d \in active

(* As long as every interview of the history was scored by the agent, the  *)
(* count of completed interviews is the length of the history, also after  *)
(* concurrent updates have overwritten each other's columns                *)
(* (update_after_interview writes both columns or neither).                *)
CountMatchesHistory ==
    LET history == row.interview_history IN
    (\A i \in 1..Len(history) : history[i].scored) =>
        row.interviews_completed = Len(history)
=============================================================================
