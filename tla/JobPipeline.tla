---------------------------- MODULE JobPipeline -----------------------------
(***************************************************************************)
(* The live job pipeline: JobPipelineScheduler runs it in a background     *)
(* loop and on demand, every run (run_once) discovers postings and upserts *)
(* them in one transaction.  Discovery does not await; the statements of a *)
(* transaction do, so that runs and the scheduler's caller interleave      *)
(* there.  The database is READ COMMITTED and external_ref is unique: a    *)
(* statement on a row that an open transaction wrote waits for its end.    *)
(***************************************************************************)
EXTENDS JobDiscovery, FiniteSets

CONSTANTS
    Loops,          \* background tasks, one for each start(): 1, 2, ...
    Manual,         \* the process of a run_once() called directly
    Boards,         \* what the sources may answer, each of them in one run
    MaxRuns,        \* bound of the model: runs in all
    MaxStops        \* bound of the model: calls of stop() that await one loop

ASSUME LoopsAssumption == Loops \subseteq Nat \ {0} /\ Manual \notin Loops
ASSUME RunsAssumption == MaxRuns \in Nat /\ MaxStops \in Nat \ {0}
(* Each source answers in its turn.  The jobs of an answer are listed, and *)
(* a failure is no list of postings.                                       *)
ASSUME BoardsAssumption ==
    \A answers \in Boards :
        /\ answers \in Seq(ToSet(answers)) /\ DOMAIN answers \subseteq DOMAIN Sources
        /\ \A i \in DOMAIN answers : answers[i] # Failed =>
              /\ answers[i].jobs \in Seq(ToSet(answers[i].jobs))
              /\ Failed \notin Seq({JobPosting(Sources[i], job) : job \in Objects(answers[i].jobs)})

Runners == Loops \cup {Manual}
NoTask == 0

VARIABLES
    running,        \* _running
    task,           \* _task
    waiting,        \* calls of stop() that await each loop
    cancelled,      \* loops whose next resumption raises CancelledError
    pc,             \* where each runner is suspended
    run,            \* the run each runner is in
    rows,           \* discovered_jobs, committed: external_ref -> dedup_key
    reports,        \* the PipelineStats of the runs that ended, in order
    overlapped      \* history: the loops started while a stop() waited

scheduler == <<running, task, waiting, cancelled, overlapped>>
vars == <<running, task, waiting, cancelled, pc, run, rows, reports, overlapped>>

NoRun == [answers |-> <<>>, found |-> <<>>, stored |-> 0, absent |-> FALSE,
          txn |-> <<>>, made |-> {}]

InRun == {"select", "flush", "commit"}

Answers == Boards

Posted == UNION {ToSet(discover(answers)) : answers \in Answers}
Refs == {external_ref(p) : p \in Posted}

(* created counts the rows in made, updated those of the bag.              *)
PipelineStats == [made : SUBSET Refs, updated : UNION {[rs -> Nat \ {0}] : rs \in SUBSET Refs}]

TypeOK ==
    /\ running \in BOOLEAN /\ task \in Loops \cup {NoTask}
    /\ waiting \in [Loops -> 0..MaxStops] /\ cancelled \subseteq Loops /\ overlapped \subseteq Loops
    /\ pc \in [Runners -> {"none", "new", "sleep", "done"} \cup InRun]
    /\ \A p \in Runners :
          /\ pc[p] \in InRun \/ run[p] = NoRun
          /\ run[p].stored \in 0..Len(run[p].found)
          /\ run[p].made \subseteq DOMAIN run[p].txn
          /\ DOMAIN run[p].txn \subseteq Refs
    /\ DOMAIN rows \subseteq Refs
    /\ \A i \in DOMAIN reports :
          /\ reports[i].made \subseteq Refs /\ DOMAIN reports[i].updated \subseteq Refs

Init ==
    /\ running = FALSE /\ task = NoTask /\ waiting = [l \in Loops |-> 0]
    /\ cancelled = {} /\ overlapped = {}
    /\ pc = [p \in Runners |-> "none"] /\ run = [p \in Runners |-> NoRun]
    /\ rows = <<>> /\ reports = <<>>

-----------------------------------------------------------------------------
(* The scheduler's callers: start() returns at once, stop() cancels the    *)
(* task and awaits it, and forgets whatever is the task when it resumes.   *)

Stopping == \E l \in Loops : waiting[l] > 0

Spawn ==
    \E l \in Loops :
      /\ pc[l] = "none" /\ \A k \in Loops : k < l => pc[k] # "none"
      /\ running' = TRUE /\ task' = l /\ pc' = [pc EXCEPT ![l] = "new"]
      /\ overlapped' = IF Stopping THEN overlapped \cup {l} ELSE overlapped
      /\ UNCHANGED <<waiting, cancelled, run, rows, reports>>

StartAgain == Spawn                                                 \* mutant

start == ~running /\ Spawn

stop ==
    /\ running' = FALSE
    /\ IF task = NoTask \/ pc[task] = "done"
       THEN task' = NoTask /\ UNCHANGED <<waiting, cancelled>>
       ELSE /\ waiting[task] < MaxStops /\ waiting' = [waiting EXCEPT ![task] = @ + 1]
            /\ cancelled' = cancelled \cup {task} /\ UNCHANGED task
    /\ UNCHANGED <<pc, run, rows, reports, overlapped>>

StopReturns ==
    \E l \in Loops :
      /\ waiting[l] > 0 /\ pc[l] = "done"
      /\ waiting' = [waiting EXCEPT ![l] = @ - 1] /\ task' = NoTask
      /\ UNCHANGED <<running, cancelled, pc, run, rows, reports, overlapped>>

-----------------------------------------------------------------------------
(* One run.                                                                *)

Resumes(p) == p \notin cancelled

MayRun == Len(reports) + Cardinality({p \in Runners : pc[p] \in InRun}) < MaxRuns

Begin(p) ==
    /\ MayRun
    /\ \E answers \in Answers :
         LET found == discover(answers)
         IN  /\ run' = [run EXCEPT ![p] = [NoRun EXCEPT !.answers = answers,
                                                        !.found = found]]
             /\ pc' = [pc EXCEPT ![p] = IF found = <<>> THEN "commit" ELSE "select"]
    /\ UNCHANGED <<scheduler, rows, reports>>

Ends(p, stats) ==
    /\ pc' = [pc EXCEPT ![p] = IF p = Manual THEN "none" ELSE "sleep"]
    /\ reports' = Append(reports, stats)
    /\ UNCHANGED scheduler

Posting(p) == run[p].found[run[p].stored + 1]
Ref(p) == external_ref(Posting(p))

(* The SELECT of upsert; a row this transaction wrote is visible to it.    *)
get_by_external_ref(p) ==
    /\ pc[p] = "select" /\ Resumes(p)
    /\ run' = [run EXCEPT ![p].absent = Ref(p) \notin DOMAIN rows \cup DOMAIN run[p].txn]
    /\ pc' = [pc EXCEPT ![p] = "flush"]
    /\ UNCHANGED <<scheduler, rows, reports>>

(* Open transactions that wrote the row p's statement is about.            *)
WaitsFor(p) == {q \in Runners \ {p} : Ref(p) \in DOMAIN run[q].txn}

Over(new, old) == [ref \in DOMAIN new \cup DOMAIN old |->
                      IF ref \in DOMAIN new THEN new[ref] ELSE old[ref]]

Stored(p) ==
    LET next == run[p].stored + 1
    IN  /\ run' = [run EXCEPT ![p].stored = next,
                              ![p].txn = Over([ref \in {Ref(p)} |-> dedup_key(Posting(p))], @),
                              ![p].made = IF run[p].absent THEN @ \cup {Ref(p)} ELSE @]
        /\ pc' = [pc EXCEPT ![p] = IF next = Len(run[p].found) THEN "commit" ELSE "select"]
        /\ UNCHANGED <<scheduler, rows, reports>>

NoStats == [made |-> {}, updated |-> <<>>]

(* What a run counts: a posting whose reference it met before is updated.  *)
Counted(r) ==
    LET times(ref) == Cardinality({i \in DOMAIN r.found : external_ref(r.found[i]) = ref})
                      - (IF ref \in r.made THEN 1 ELSE 0)
    IN  [made |-> r.made,
         updated |-> [ref \in {ref \in DOMAIN r.txn : times(ref) > 0} |-> times(ref)]]

(* A statement raised: rollback, and the stats of the run are empty.       *)

StuckFailure(p) ==                                                  \* mutant
    /\ run' = [run EXCEPT ![p] = [NoRun EXCEPT !.txn = run[p].txn]]
    /\ Ends(p, NoStats) /\ UNCHANGED rows

BoastfulFailure(p) ==                                               \* mutant
    /\ run' = [run EXCEPT ![p] = NoRun]
    /\ Ends(p, Counted(run[p]))
    /\ UNCHANGED rows

RunFails(p) ==
    /\ run' = [run EXCEPT ![p] = NoRun]
    /\ Ends(p, NoStats)
    /\ UNCHANGED rows

(* The INSERT or UPDATE of upsert.                                         *)
flush(p) ==
    /\ pc[p] = "flush" /\ Resumes(p) /\ WaitsFor(p) = {}
    /\ IF run[p].absent /\ Ref(p) \in DOMAIN rows
       THEN RunFails(p)
       ELSE Stored(p)

(* Two transactions wait for each other: the database fails one of them.   *)
Deadlock(p) ==
    /\ pc[p] = "flush" /\ Resumes(p)
    /\ \E q \in WaitsFor(p) : pc[q] = "flush" /\ p \in WaitsFor(q)
    /\ RunFails(p)

DatabaseError(p) == pc[p] \in InRun /\ Resumes(p) /\ RunFails(p)

Commit(p) ==
    /\ pc[p] = "commit" /\ Resumes(p)
    /\ rows' = Over(run[p].txn, rows)
    /\ run' = [run EXCEPT ![p] = NoRun]
    /\ Ends(p, Counted(run[p]))

-----------------------------------------------------------------------------
(* The background loop: started or woken, it runs if it still should.      *)

_loop(l) ==
    /\ pc[l] \in {"new", "sleep"} /\ Resumes(l)
    /\ IF running THEN Begin(l)
       ELSE /\ pc' = [pc EXCEPT ![l] = "done"]
            /\ UNCHANGED <<scheduler, run, rows, reports>>

run_once == pc[Manual] = "none" /\ Begin(Manual)

(* CancelledError is no Exception: the session is closed without a report. *)
(* A COMMIT that was under way may have taken effect.                      *)
CancelledError(l) ==
    /\ l \in cancelled /\ pc[l] \notin {"none", "done"}
    /\ \/ rows' = rows
       \/ pc[l] = "commit" /\ rows' = Over(run[l].txn, rows)
    /\ pc' = [pc EXCEPT ![l] = "done"] /\ run' = [run EXCEPT ![l] = NoRun]
    /\ UNCHANGED <<scheduler, reports>>

Statement(p) == get_by_external_ref(p) \/ flush(p) \/ Deadlock(p) \/ Commit(p)

Next ==
    \/ start \/ stop \/ StopReturns \/ run_once
    \/ \E p \in Runners : Statement(p) \/ DatabaseError(p)
    \/ \E l \in Loops : _loop(l) \/ CancelledError(l)

(* The event loop resumes every coroutine whose statement has answered and *)
(* the database answers every statement that does not wait; nobody has to  *)
(* start, stop or run anything.                                            *)
Fairness ==
    /\ \A p \in Runners : WF_vars(Statement(p))
    /\ \A l \in Loops : WF_vars(CancelledError(l))

Spec == Init /\ [][Next]_vars /\ Fairness

-----------------------------------------------------------------------------
(* A failing source costs only its own postings, whatever the others post  *)
(* and however often a posting is listed ("one dead ATS never breaks       *)
(* discovery"): what every run upserts is what discovery promises.         *)
DiscoveryIsIsolated ==
    \A p \in Runners :
        pc[p] \in InRun => Promised(run[p].answers, run[p].found)

(* The stats that run_once returns and keeps as last_stats are true of the *)
(* table: whatever overlapped, failed or was cancelled, every posting a    *)
(* report counts is stored, and no two reports count it as created.        *)
ReportsMatchTheTable ==
    \A i, j \in DOMAIN reports :
        /\ reports[i].made \cup DOMAIN reports[i].updated \subseteq DOMAIN rows
        /\ i # j => reports[i].made \cap reports[j].made = {}

Alive == {l \in Loops : pc[l] \notin {"none", "done"}}

(* start and stop manage one loop as long as they do not overlap: a loop   *)
(* that no waiting stop() saw starting is the one of a running scheduler,  *)
(* which no bad run has killed, or a stop() cancelled it and waits for it. *)
(* And also when they overlap, a running scheduler has a loop that nothing *)
(* has cancelled: the one it started last.                                 *)
OneLoopWhileRunning ==
    /\ \A l \in Alive \ overlapped : (running /\ task = l) \/ waiting[l] > 0
    /\ running => \E l \in Alive \ cancelled : \A k \in Loops : k > l => pc[k] = "none"

(* Every run ends, even if another run holds the rows it is waiting for.   *)
RunsEnd == \A p \in Runners : pc[p] \in InRun ~> pc[p] \notin InRun
=============================================================================
