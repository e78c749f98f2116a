-------------------------- MODULE AdaptiveLearning --------------------------
(***************************************************************************)
(* Spaced repetition and the daily mission of one user                     *)
(* (AdaptiveLearningService), kept as rows of memory_entries, and the      *)
(* weekly job that compresses old rows (MemoryRepository.summarize_old).   *)
(* Each call is a transaction of its own: it reads, may wait for a model,  *)
(* and commits or rolls back; nothing locks a row between its read and its *)
(* commit.  A row's created_at is now() of the database, that is, the time *)
(* at which the transaction that stores it began.                          *)
(***************************************************************************)
EXTENDS Integers, Sequences, FiniteSets

CONSTANTS
    Skills,
    Calls,          \* concurrent requests of the user; each is reused
    Askers,         \* those of them that may ask for the daily mission
    Intervals,      \* SPACED_INTERVALS, days between reviews
    CompressAfter,  \* older_than_days of summarize_old
    MaxDay,         \* bound of the model: the last day
    MaxRows,        \* bound of the model: rows of type spaced_repetition
    MaxMissions,    \* bound of the model: rows of type daily_mission
    MaxConfident    \* bound of the model: confident reviews in a row

ASSUME IntervalsAssumption == Intervals \in Seq(Nat \ {0}) /\ Intervals # <<>>
ASSUME DaysAssumption == CompressAfter \in Nat
ASSUME BoundsAssumption == /\ MaxDay \in Nat /\ MaxRows \in Nat
                           /\ MaxMissions \in Nat /\ MaxConfident \in Nat

VARIABLES
    day,            \* _today(), in days
    reviews,        \* the rows of type spaced_repetition, by age
    missions,       \* the rows of type daily_mission: when created, and for
                    \* which day's twin the mission was chosen
    call,           \* what each request is doing, with what it has read
    served,         \* the last answer of get_daily_mission
    job,            \* what the weekly job is doing: the rows it compresses
    told            \* history: of each skill, the confident reviews confirmed
                    \* since the last doubtful one, the day of the last
                    \* review, and whether they ran one after the other

learning == <<day, reviews, missions, call, served, job, told>>

Top == Len(Intervals) - 1
Rungs == 0..Top
Calendar == 0..MaxDay
NoRow == 0
NotYet == -1
Idle == [kind |-> "idle"]
Mission == [created : Calendar, chosen : Calendar]
Nothing == [created |-> NotYet, chosen |-> NotYet]      \* no mission
Unsure == [streak |-> 0, last |-> NotYet, exact |-> FALSE]

(* full_content: the state of the ladder, or None after compression.       *)
State == [skill : Skills, rung : Rungs, confident : 0..MaxConfident, due : Nat]
None == <<>>

LearningTypeOK ==
    /\ day \in Calendar
    /\ \A i \in 1..Len(reviews) :
          /\ reviews[i].created \in Calendar
          /\ reviews[i].state = None \/ reviews[i].state \in State
    /\ missions \subseteq Mission
    /\ \A c \in Calls :
          \/ call[c] = Idle
          \/ call[c] \in [kind : {"review"}, began : Calendar, row : 0..Len(reviews),
                          state : State, writes : BOOLEAN, over : BOOLEAN]
          \/ call[c] \in [kind : {"asked"}, began : Calendar, found : Mission \cup {Nothing},
                          warm : BOOLEAN]
          \/ call[c] \in [kind : {"lesson"}, began : Calendar, chosen : Calendar,
                          warm : BOOLEAN]
    /\ served \in [mission : Mission \cup {Nothing}, on : Calendar \cup {NotYet}, stored : BOOLEAN]
    /\ job \subseteq 1..Len(reviews)
    /\ told \in [Skills -> [streak : 0..MaxConfident, last : Calendar \cup {NotYet}, exact : BOOLEAN]]

LearningInit ==
    /\ day = 0
    /\ reviews = <<>> /\ missions = {}
    /\ call = [c \in Calls |-> Idle]
    /\ served = [mission |-> Nothing, on |-> NotYet, stored |-> FALSE]
    /\ job = {}
    /\ told = [s \in Skills |-> [streak |-> 0, last |-> NotYet, exact |-> TRUE]]

-----------------------------------------------------------------------------
(* update_spaced_repetition                                                *)

Has(row, skill) == row.state # None /\ row.state.skill = skill
RowsIn(rows, skill) == {i \in 1..Len(rows) : Has(rows[i], skill)}
RowsOf(skill) == RowsIn(reviews, skill)

Fresh(skill) == [skill |-> skill, rung |-> 0, confident |-> 0, due |-> 0]

KeepsCount(state, confident) ==                                     \* mutant
    LET rung == IF ~confident THEN 0 ELSE IF state.rung < Top THEN state.rung + 1 ELSE Top
    IN  [state EXCEPT !.rung = rung,
                      !.confident = IF confident THEN @ + 1 ELSE @,
                      !.due = day + Intervals[rung + 1]]

Graded(state, confident) ==
    LET rung == IF ~confident THEN 0 ELSE IF state.rung < Top THEN state.rung + 1 ELSE Top
    IN  [state EXCEPT !.rung = rung,
                      !.confident = IF confident THEN @ + 1 ELSE 0,
                      !.due = day + Intervals[rung + 1]]

(* A column that is assigned the value it was loaded with is not written.  *)
Review(c, row, state, writes) ==
    call' = [call EXCEPT ![c] = [kind |-> "review", began |-> day, row |-> row,
                                 state |-> state, writes |-> writes, over |-> FALSE]]

(* The skill's row, any of them if there are several, is read and graded.  *)
BeginReview(c, skill, confident) ==
    /\ call[c] = Idle
    /\ \/ \E i \in RowsOf(skill) :
          LET old == reviews[i].state IN
          /\ old.confident < MaxConfident
          /\ Review(c, i, Graded(old, confident), Graded(old, confident) # old)
       \/ /\ RowsOf(skill) = {} /\ Len(reviews) < MaxRows
          /\ Review(c, NoRow, Graded(Fresh(skill), confident), TRUE)
    /\ UNCHANGED <<day, reviews, missions, served, job, told>>

(* Reviews of these skills under way have read what is no longer there.    *)
Overtaken(d, skills) ==
    IF call[d].kind = "review" /\ call[d].state.skill \in skills
    THEN [call[d] EXCEPT !.over = TRUE] ELSE call[d]

(* History: a review that overlapped no other adds to what was told; a     *)
(* doubtful one of the only row starts it anew.                            *)
Confirmed(review, before, rows) ==
    LET doubtful == review.state.confident = 0
        skill == review.state.skill
    IN  IF ~review.over /\ (before.exact \/ (doubtful /\ \E i \in 1..Len(rows) : RowsIn(rows, skill) = {i}))
        THEN [streak |-> IF doubtful THEN 0 ELSE before.streak + 1,
              last |-> review.began, exact |-> TRUE]
        ELSE Unsure

CommitReview(c) ==
    /\ call[c].kind = "review"
    /\ LET review == call[c]
           row == review.row
           skill == review.state.skill
       IN
       /\ \/ /\ row # NoRow
             /\ reviews' = IF review.writes THEN [reviews EXCEPT ![row].state = review.state] ELSE reviews
          \/ /\ row = NoRow /\ Len(reviews) < MaxRows
             /\ reviews' = Append(reviews, [created |-> review.began, state |-> review.state])
       /\ call' = [d \in Calls |-> IF d = c THEN Idle ELSE Overtaken(d, {skill})]
       /\ told' = [told EXCEPT ![skill] = Confirmed(review, @, reviews')]
    /\ UNCHANGED <<day, missions, served, job>>

-----------------------------------------------------------------------------
(* get_daily_mission                                                       *)

(* get_recent: the newest row; any of them if a day has several, as the    *)
(* model knows days only.                                                  *)
Newest == IF missions = {} THEN {Nothing}
          ELSE {m \in missions : \A other \in missions : other.created <= m.created}

(* History: warm, a mission of today is there already.                     *)
AskMission(c) ==
    /\ c \in Askers /\ call[c] = Idle
    /\ \E m \in Newest : call' = [call EXCEPT ![c] =
          [kind |-> "asked", began |-> day, found |-> m,
           warm |-> \E other \in missions : other.created = day]]
    /\ UNCHANGED <<day, reviews, missions, served, job, told>>

(* _cached_mission: what was found, if it was created today.               *)
Cached(c) == call[c].found.created = day

ServeMission(c) ==
    /\ call[c].kind = "asked" /\ Cached(c)
    /\ served' = [mission |-> call[c].found, on |-> day, stored |-> TRUE]
    /\ call' = [call EXCEPT ![c] = Idle]
    /\ UNCHANGED <<day, reviews, missions, job, told>>

(* Nothing cached: the twin is read and a skill chosen, then a lesson is   *)
(* generated and awaited.                                                  *)
GenerateMission(c) ==
    /\ call[c].kind = "asked" /\ ~Cached(c)
    /\ call' = [call EXCEPT ![c] = 
          [kind |-> "lesson", began |-> call[c].began, chosen |-> day, warm |-> call[c].warm]]
    /\ UNCHANGED <<day, reviews, missions, served, job, told>>

StoredOn(c) == day                                                  \* mutant
Created(c) == call[c].began

StoreMission(c) ==
    /\ call[c].kind = "lesson" /\ Cardinality(missions) < MaxMissions
    /\ LET mission == [created |-> Created(c), chosen |-> call[c].chosen] IN
       /\ missions' = missions \cup {mission}
       /\ served' = [mission |-> mission, on |-> day, stored |-> FALSE]
    /\ call' = [call EXCEPT ![c] = Idle]
    /\ UNCHANGED <<day, reviews, job, told>>

(* An exception, or a client that goes away, rolls the transaction back.   *)
Abort(c) ==
    /\ call[c] # Idle
    /\ call' = [call EXCEPT ![c] = Idle]
    /\ UNCHANGED <<day, reviews, missions, served, job, told>>

-----------------------------------------------------------------------------
(* _weekly_memory_cleanup, on whatever day it runs: reads the rows,        *)
(* summarises them one by one, and commits them all together.  (It finds   *)
(* old missions too, which nobody reads again.)                            *)

Stale(row) == row.state # None /\ day - row.created > CompressAfter

BeginCleanup ==
    /\ job = {}
    /\ job' = {i \in 1..Len(reviews) : Stale(reviews[i])}
    /\ UNCHANGED <<day, reviews, missions, call, served, told>>

(* An empty summary or an error leaves the row as it is.                   *)
CommitCleanup ==
    /\ job # {}
    /\ \E done \in SUBSET job :
          LET skills == {reviews[i].state.skill : i \in done} IN
          /\ reviews' = [i \in 1..Len(reviews) |->
                IF i \in done THEN [reviews[i] EXCEPT !.state = None] ELSE reviews[i]]
          /\ call' = [d \in Calls |-> Overtaken(d, skills)]
          /\ told' = [s \in Skills |-> IF s \in skills THEN Unsure ELSE told[s]]
    /\ job' = {}
    /\ UNCHANGED <<day, missions, served>>

Midnight ==
    /\ day < MaxDay
    /\ day' = day + 1
    /\ UNCHANGED <<reviews, missions, call, served, job, told>>

Handle(c) ==
    \/ \E skill \in Skills, confident \in BOOLEAN : BeginReview(c, skill, confident)
    \/ CommitReview(c)
    \/ AskMission(c)
    \/ ServeMission(c)
    \/ GenerateMission(c)
    \/ StoreMission(c)
    \/ Abort(c)

LearningNext == (\E c \in Calls : Handle(c)) \/ BeginCleanup \/ CommitCleanup \/ Midnight

LearningSpec == LearningInit /\ [][LearningNext]_learning

-----------------------------------------------------------------------------
(* Properties.                                                             *)

(* As long as no two reviews of a skill overlap, and the weekly job        *)
(* compresses none of its rows, the skill has one row and that says what   *)
(* the reviews did: as many confident ones as were confirmed since the     *)
(* last doubtful one, the rung they climbed to, and a date that rung's     *)
(* interval after the last review (update_spaced_repetition reads and      *)
(* writes without a lock).  After an overlap, a doubtful review that runs  *)
(* alone and finds the only row makes that true again.                     *)
OnLadder(skill, streak, last) ==
    LET rung == IF streak < Top THEN streak ELSE Top
    IN  [skill |-> skill, rung |-> rung, confident |-> streak, due |-> last + Intervals[rung + 1]]

LadderFollowsReviews == \A s \in Skills : told[s].exact =>
    IF told[s].last = NotYet THEN RowsOf(s) = {}
    ELSE \E i \in 1..Len(reviews) :
            /\ RowsOf(s) = {i}
            /\ reviews[i].state = OnLadder(s, told[s].streak, told[s].last)

(* A stored mission is served on the day it was chosen for, from the twin  *)
(* of that day, though a lesson may be generated across midnight and is    *)
(* dated by its transaction (_cached_mission compares created_at with      *)
(* _today()); and who asks on a day on which a mission was begun and       *)
(* stored is not made to wait for another, unless midnight overtakes it.   *)
ServesToday ==
    /\ served.stored => served.mission.chosen = served.on
    /\ \A c \in Calls : call[c].kind = "lesson" /\ call[c].warm => call[c].chosen > call[c].began

-----------------------------------------------------------------------------
(* What a comment says, and the code does not do: a skill that was         *)
(* reviewed keeps its place on the ladder (_REVIEW_MEMORY: "durable,       *)
(* per-user key/value stores").                                            *)
ReviewsAreDurable == \A i \in 1..Len(reviews) : reviews[i].state # None
=============================================================================
