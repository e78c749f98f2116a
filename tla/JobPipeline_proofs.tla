-------------------------- MODULE JobPipeline_proofs --------------------------
(***************************************************************************)
(* What overlapping runs of the job pipeline guarantee for any sources,    *)
(* answers and number of runs: the reports are true of the table, start    *)
(* and stop manage one loop, and what a run upserts is what discovery      *)
(* promises.                                                               *)
(***************************************************************************)
EXTENDS JobPipeline, Integers, SequenceTheorems, FiniteSetTheorems,
        WellFoundedInduction, TLAPS

RunFields == {"answers", "found", "stored", "absent", "txn", "made"}
States == {"none", "new", "sleep", "done"} \cup InRun

(* Who is outside a run holds no transaction; what a transaction created   *)
(* it wrote.                                                               *)
Shaped ==
    /\ pc \in [Runners -> States]
    /\ DOMAIN run = Runners
    /\ \A p \in Runners :
          /\ DOMAIN run[p] = RunFields
          /\ run[p].made \subseteq DOMAIN run[p].txn

(* No two open transactions wrote one row, and what a transaction created  *)
(* is not in the table before its commit.                                  *)
Disjoint ==
    /\ \A p, q \in Runners : p # q => DOMAIN run[p].txn \cap DOMAIN run[q].txn = {}
    /\ \A p \in Runners : run[p].made \cap DOMAIN rows = {}

TrueOf(stats, table) == stats.made \subseteq table /\ DOMAIN stats.updated \subseteq table

Told ==
    /\ \E S : reports \in Seq(S)
    /\ \A i \in DOMAIN reports : TrueOf(reports[i], DOMAIN rows)
    /\ \A i, j \in DOMAIN reports : i # j => reports[i].made \cap reports[j].made = {}

(* The scheduler's side of a loop: stop has cleared running before it      *)
(* waits, loops are started in their order, and while a loop runs that no  *)
(* waiting stop() saw starting, no stop() waits that could forget it.      *)
Managed ==
    /\ running \in BOOLEAN /\ task \in Loops \cup {NoTask} /\ waiting \in [Loops -> Nat]
    /\ OneLoopWhileRunning
    /\ running /\ task \in Loops \ overlapped => ~Stopping
    /\ \A l \in Loops : l \in cancelled \cup overlapped \cup {task} => pc[l] # "none"
    /\ \A k, l \in Loops : k < l /\ pc[l] # "none" => pc[k] # "none"

IInv == Shaped /\ Disjoint /\ Told /\ Managed

-----------------------------------------------------------------------------
LEMMA OverFacts ==
  ASSUME NEW new, NEW old
  PROVE  DOMAIN Over(new, old) = DOMAIN new \cup DOMAIN old
  BY DEF Over

LEMMA InitHolds == Init => IInv
<1> SUFFICES ASSUME Init PROVE IInv
  OBVIOUS
<1>1. /\ pc = [p \in Runners |-> "none"] /\ run = [p \in Runners |-> NoRun]
      /\ rows = <<>> /\ reports = <<>> /\ running = FALSE /\ cancelled = {}
      /\ overlapped = {} /\ waiting = [l \in Loops |-> 0]
  BY DEF Init
<1>2. NoRun.made = {} /\ DOMAIN NoRun.txn = {} /\ DOMAIN NoRun = RunFields
  BY DEF NoRun, RunFields
<1>3. Shaped /\ Disjoint
  BY <1>1, <1>2 DEF Shaped, Disjoint, States
<1>4. Told
  <2>1. reports \in Seq({}) /\ DOMAIN reports = {}
    BY <1>1
  <2> QED BY <2>1 DEF Told
<1>5. Managed
  <2>1. 0 \notin Loops /\ task = 0
    BY LoopsAssumption DEF Init, NoTask
  <2>2. Alive = {} /\ \A l \in Loops : pc[l] = "none"
    BY <1>1 DEF Alive, Runners
  <2>3. waiting \in [Loops -> Nat] /\ \A l \in Loops : waiting[l] = 0
    BY <1>1
  <2>4. OneLoopWhileRunning
    BY <1>1, <2>2 DEF OneLoopWhileRunning
  <2>5. ~Stopping
    BY <2>3 DEF Stopping
  <2> QED BY <1>1, <2>1, <2>2, <2>3, <2>4, <2>5 DEF Managed, NoTask
<1> QED BY <1>3, <1>4, <1>5 DEF IInv

-----------------------------------------------------------------------------
(* The transactions.                                                       *)

(* Runner p goes on, or ends without a trace in the table.                 *)
LEMMA RunGoesOn ==
  ASSUME Shaped, Disjoint, NEW p \in Runners, NEW next,
         run' = [run EXCEPT ![p] = next], DOMAIN next = RunFields,
         pc' \in [Runners -> States], rows' = rows,
         next.made \subseteq DOMAIN next.txn,
         \A q \in Runners \ {p} : DOMAIN next.txn \cap DOMAIN run[q].txn = {},
         next.made \cap DOMAIN rows = {}
  PROVE  Shaped' /\ Disjoint'
<1>1. DOMAIN run' = Runners /\ run'[p] = next /\ \A q \in Runners \ {p} : run'[q] = run[q]
  BY DEF Shaped
<1> QED BY <1>1 DEF Shaped, Disjoint

(* Runner p's transaction becomes the table's.                             *)
LEMMA RunCommits ==
  ASSUME Shaped, Disjoint, NEW p \in Runners,
         run' = [run EXCEPT ![p] = NoRun], pc' \in [Runners -> States],
         rows' = Over(run[p].txn, rows)
  PROVE  Shaped' /\ Disjoint' /\ DOMAIN rows' = DOMAIN run[p].txn \cup DOMAIN rows
<1>1. DOMAIN run' = Runners /\ run'[p] = NoRun /\ \A q \in Runners \ {p} : run'[q] = run[q]
  BY DEF Shaped
<1>2. NoRun.made = {} /\ DOMAIN NoRun.txn = {} /\ DOMAIN NoRun = RunFields
  BY DEF NoRun, RunFields
<1>3. DOMAIN rows' = DOMAIN run[p].txn \cup DOMAIN rows
  BY OverFacts
<1> QED BY <1>1, <1>2, <1>3 DEF Shaped, Disjoint

(* A report of what is in the table, and of nothing created before.        *)
LEMMA ReportKept ==
  ASSUME Told, NEW stats, reports' = Append(reports, stats),
         DOMAIN rows \subseteq DOMAIN rows', TrueOf(stats, DOMAIN rows'),
         stats.made \cap DOMAIN rows = {}
  PROVE  Told'
<1>1. PICK S : reports \in Seq(S)
  BY DEF Told
<1>2. reports \in Seq(S \cup {stats}) /\ stats \in S \cup {stats}
  BY <1>1
<1>3. /\ reports' \in Seq(S \cup {stats}) /\ Len(reports') = Len(reports) + 1
      /\ Len(reports) \in Nat /\ reports'[Len(reports) + 1] = stats
      /\ \A i \in 1..Len(reports) : reports'[i] = reports[i]
      /\ DOMAIN reports = 1..Len(reports) /\ DOMAIN reports' = 1..(Len(reports) + 1)
  BY <1>2
<1>4. \A i \in DOMAIN reports : reports[i].made \subseteq DOMAIN rows
  BY DEF Told, TrueOf
<1>5. \A i \in DOMAIN reports' : i \in DOMAIN reports \/ i = Len(reports) + 1
  BY <1>3
<1>6. ASSUME NEW i \in DOMAIN reports', NEW j \in DOMAIN reports', i # j
      PROVE  reports'[i].made \cap reports'[j].made = {}
  BY <1>3, <1>4, <1>5, <1>6 DEF Told
<1>7. ASSUME NEW i \in DOMAIN reports' PROVE TrueOf(reports'[i], DOMAIN rows')
  BY <1>3, <1>5 DEF Told, TrueOf
<1> QED BY <1>3, <1>6, <1>7 DEF Told

(* The table only grows, so that what was reported stays true.             *)
LEMMA NoReport ==
  ASSUME Told, reports' = reports, DOMAIN rows \subseteq DOMAIN rows'
  PROVE  Told'
<1>1. \A i \in DOMAIN reports' : TrueOf(reports'[i], DOMAIN rows')
  BY DEF Told, TrueOf
<1> QED BY <1>1 DEF Told

-----------------------------------------------------------------------------
(* The loops.                                                              *)

AliveStates == {"new", "sleep"} \cup InRun

(* Managed depends on the loops that are alive and those that started.     *)
LEMMA ManagedKept ==
  ASSUME Managed, Alive' = Alive, \A l \in Loops : pc'[l] = "none" <=> pc[l] = "none",
         UNCHANGED scheduler
  PROVE  Managed'
<1>1. UNCHANGED <<running, task, waiting, cancelled, overlapped>>
  BY DEF scheduler
<1> QED BY <1>1 DEF Managed, OneLoopWhileRunning, Stopping

(* A runner that is alive stays it, unless it is the one run by hand.      *)
LEMMA LoopGoesOn ==
  ASSUME Shaped, Managed, NEW p \in Runners, NEW to \in States,
         p # Manual => pc[p] \in AliveStates /\ to \in AliveStates,
         pc' = [pc EXCEPT ![p] = to], UNCHANGED scheduler
  PROVE  Managed' /\ pc' \in [Runners -> States]
<1>1. pc' \in [Runners -> States]
  BY DEF Shaped
<1>2. ASSUME NEW l \in Loops
      PROVE  /\ l \in Alive' <=> l \in Alive
             /\ pc[l] # "none" => pc'[l] # "none"
  <2>1. l \in Runners /\ l # Manual
    BY LoopsAssumption DEF Runners
  <2> QED BY <2>1 DEF Shaped, Alive, AliveStates, InRun
<1>3. Alive' = Alive
  BY <1>2 DEF Alive
<1>4. \A l \in Loops : pc'[l] = "none" <=> pc[l] = "none"
  <2>1. ASSUME NEW l \in Loops PROVE pc'[l] = "none" <=> pc[l] = "none"
    <3>1. l \in Runners /\ l # Manual
      BY LoopsAssumption DEF Runners
    <3> QED BY <3>1 DEF Shaped, AliveStates, InRun
  <2> QED BY <2>1
<1> QED BY <1>1, <1>3, <1>4, ManagedKept

(* A loop ends that start and stop do not count on.                        *)
LEMMA LoopEnds ==
  ASSUME Shaped, Managed, NEW l \in Loops,
         pc[l] \notin {"none", "done"}, ~running \/ l \in cancelled,
         pc' = [pc EXCEPT ![l] = "done"], UNCHANGED scheduler
  PROVE  Managed' /\ pc' \in [Runners -> States]
<1>1. l \in Runners /\ "done" \in States
  BY DEF Runners, States
<1>2. pc' \in [Runners -> States]
  BY <1>1 DEF Shaped
<1>3. \A k \in Loops : /\ k # l => pc'[k] = pc[k]
                       /\ pc'[l] = "done"
  BY <1>1 DEF Shaped, Runners
<1>4. Alive' = Alive \ {l} /\ l \in Alive
  BY <1>3 DEF Alive
<1>5. UNCHANGED <<running, task, waiting, cancelled, overlapped>>
  BY DEF scheduler
<1>6. \A k \in Loops : pc'[k] = "none" <=> pc[k] = "none"
  BY <1>3
<1>7. running => \E w \in Alive' \ cancelled : \A k \in Loops : k > w => pc'[k] = "none"
  <2> SUFFICES ASSUME running
               PROVE  \E w \in Alive' \ cancelled : \A k \in Loops : k > w => pc'[k] = "none"
    OBVIOUS
  <2>1. PICK w \in Alive \ cancelled : \A k \in Loops : k > w => pc[k] = "none"
    BY DEF Managed, OneLoopWhileRunning
  <2>2. w \in Alive'
    BY <1>4, <2>1
  <2> QED BY <1>6, <2>1, <2>2
<1>8. OneLoopWhileRunning'
  BY <1>4, <1>5, <1>7 DEF Managed, OneLoopWhileRunning
<1> QED BY <1>2, <1>5, <1>6, <1>8 DEF Managed, Stopping

LEMMA CallerKeepsManaged ==
  ASSUME Shaped, Managed, start \/ stop \/ StopReturns
  PROVE  Managed' /\ pc' \in [Runners -> States] /\ UNCHANGED <<run, rows, reports>>
<1>0. NoTask \notin Loops /\ Loops \subseteq Nat /\ Loops \subseteq Runners
  BY LoopsAssumption DEF NoTask, Runners
<1>1. CASE start
  <2>1. PICK l \in Loops :
           /\ pc[l] = "none" /\ \A k \in Loops : k < l => pc[k] # "none"
           /\ running' = TRUE /\ task' = l /\ pc' = [pc EXCEPT ![l] = "new"]
           /\ overlapped' = IF Stopping THEN overlapped \cup {l} ELSE overlapped
           /\ UNCHANGED <<waiting, cancelled, run, rows, reports>>
    BY <1>1 DEF start, Spawn
  <2>2. ~running
    BY <1>1 DEF start
  <2>3. l \in Runners /\ "new" \in States
    BY DEF Runners, States
  <2>4. pc' \in [Runners -> States] /\ pc'[l] = "new"
    BY <2>1, <2>3 DEF Shaped
  <2>5. \A k \in Loops : k # l => pc'[k] = pc[k]
    BY <1>0, <2>1 DEF Shaped
  <2>6. Alive' = Alive \cup {l}
    BY <2>1, <2>4, <2>5 DEF Alive
  <2>7. l \notin cancelled /\ l \notin overlapped
    BY <2>1 DEF Managed
  <2>8. \A k \in Loops : k > l => pc'[k] = "none"
    BY <1>0, <2>1, <2>5 DEF Managed
  <2>9. OneLoopWhileRunning'
    <3>1. ASSUME NEW k \in Alive' \ overlapped' PROVE (running' /\ task' = k) \/ waiting'[k] > 0
      BY <2>1, <2>2, <2>6 DEF Managed, OneLoopWhileRunning
    <3>2. l \in Alive' \ cancelled'
      BY <2>1, <2>6, <2>7
    <3> QED BY <2>8, <3>1, <3>2 DEF OneLoopWhileRunning
  <2>10. task' \in Loops \ overlapped' => ~Stopping'
    BY <2>1 DEF Stopping
  <2>11. \A k \in Loops : k \in cancelled' \cup overlapped' \cup {task'} => pc'[k] # "none"
    BY <2>1, <2>4, <2>5 DEF Managed
  <2>12. \A j, k \in Loops : j < k /\ pc'[k] # "none" => pc'[j] # "none"
    <3> SUFFICES ASSUME NEW j \in Loops, NEW k \in Loops, j < k, pc'[k] # "none"
                 PROVE  pc'[j] # "none"
      OBVIOUS
    <3>1. CASE k = l
      BY <1>0, <2>1, <2>5, <3>1
    <3>2. CASE k # l
      BY <1>0, <2>4, <2>5, <3>2 DEF Managed
    <3> QED BY <3>1, <3>2
  <2>13. running' \in BOOLEAN /\ task' \in Loops \cup {NoTask} /\ waiting' \in [Loops -> Nat]
    BY <2>1 DEF Managed
  <2> QED BY <2>1, <2>4, <2>9, <2>10, <2>11, <2>12, <2>13 DEF Managed
<1>2. CASE stop
  <2>1. /\ running' = FALSE /\ UNCHANGED <<pc, run, rows, reports, overlapped>>
        /\ IF task = NoTask \/ pc[task] = "done"
           THEN task' = NoTask /\ UNCHANGED <<waiting, cancelled>>
           ELSE /\ waiting' = [waiting EXCEPT ![task] = @ + 1]
                /\ cancelled' = cancelled \cup {task} /\ UNCHANGED task
    BY <1>2 DEF stop
  <2>2. Alive' = Alive
    BY <2>1 DEF Alive
  <2>3. CASE task = NoTask \/ pc[task] = "done"
    <3>1. task \notin Alive
      BY <1>0, <2>3 DEF Alive
    <3>2. OneLoopWhileRunning'
      BY <2>1, <2>2, <2>3, <3>1 DEF Managed, OneLoopWhileRunning
    <3> QED BY <1>0, <2>1, <2>3, <3>2 DEF Managed, Shaped
  <2>4. CASE ~(task = NoTask \/ pc[task] = "done")
    <3>1. /\ task \in Loops /\ waiting' \in [Loops -> Nat] /\ waiting'[task] > 0
          /\ \A k \in Loops : waiting[k] > 0 => waiting'[k] > 0
      BY <2>1, <2>4 DEF Managed
    <3>2. OneLoopWhileRunning'
      <4>1. ASSUME NEW k \in Alive \ overlapped PROVE waiting'[k] > 0
        <5>1. k \in Loops
          BY DEF Alive
        <5> QED BY <3>1, <5>1 DEF Managed, OneLoopWhileRunning
      <4> QED BY <2>1, <2>2, <4>1 DEF OneLoopWhileRunning
    <3>3. \A k \in Loops : k \in cancelled' \cup overlapped' \cup {task'} => pc'[k] # "none"
      BY <2>1, <2>4 DEF Managed
    <3> QED BY <2>1, <2>4, <3>1, <3>2, <3>3 DEF Managed, Shaped
  <2> QED BY <2>1, <2>3, <2>4
<1>3. CASE StopReturns
  <2>1. PICK l \in Loops :
           /\ waiting[l] > 0 /\ pc[l] = "done"
           /\ waiting' = [waiting EXCEPT ![l] = @ - 1] /\ task' = NoTask
           /\ UNCHANGED <<running, cancelled, pc, run, rows, reports, overlapped>>
    BY <1>3 DEF StopReturns
  <2>2. Alive' = Alive /\ l \notin Alive
    BY <2>1 DEF Alive
  <2>3. /\ waiting' \in [Loops -> Nat]
        /\ \A k \in Loops : k # l => waiting'[k] = waiting[k]
    BY <2>1 DEF Managed
  <2>4. Stopping
    BY <2>1 DEF Stopping
  <2>5. ASSUME NEW k \in Alive \ overlapped PROVE waiting'[k] > 0
    <3>1. k \in Loops /\ k # l
      BY <2>2 DEF Alive
    <3>2. ~(running /\ task = k)
      BY <2>4, <3>1 DEF Managed
    <3> QED BY <2>3, <3>1, <3>2 DEF Managed, OneLoopWhileRunning
  <2>6. OneLoopWhileRunning'
    BY <2>1, <2>2, <2>5 DEF Managed, OneLoopWhileRunning
  <2> QED BY <1>0, <2>1, <2>3, <2>6 DEF Managed, Shaped
<1> QED BY <1>1, <1>2, <1>3

-----------------------------------------------------------------------------
(* The steps of a run.                                                     *)

LEMMA NoRunIsEmpty == NoRun.made = {} /\ DOMAIN NoRun.txn = {} /\ DOMAIN NoRun = RunFields
  BY DEF NoRun, RunFields

LEMMA Beginnings ==
  ASSUME IInv, NEW p \in Runners, Begin(p), p # Manual => pc[p] \in AliveStates
  PROVE  IInv'
<1>1. PICK next : /\ run' = [run EXCEPT ![p] = next]
                  /\ next.made = {} /\ DOMAIN next.txn = {} /\ DOMAIN next = RunFields
  <2>1. PICK answers \in Answers :
            run' = [run EXCEPT ![p] = [NoRun EXCEPT !.answers = answers, !.found = discover(answers)]]
    BY DEF Begin
  <2> DEFINE next == [NoRun EXCEPT !.answers = answers, !.found = discover(answers)]
  <2>2. next.made = NoRun.made /\ next.txn = NoRun.txn /\ DOMAIN next = DOMAIN NoRun
    BY DEF NoRun
  <2> HIDE DEF next
  <2>3. next.made = {} /\ DOMAIN next.txn = {} /\ DOMAIN next = RunFields
    BY <2>2, NoRunIsEmpty
  <2>4. run' = [run EXCEPT ![p] = next]
    BY <2>1 DEF next
  <2> QED BY <2>3, <2>4
<1>2. PICK to \in {"commit", "select"} : pc' = [pc EXCEPT ![p] = to]
  BY DEF Begin
<1>3. UNCHANGED <<scheduler, rows, reports>>
  BY DEF Begin
<1>4. Managed' /\ pc' \in [Runners -> States]
  BY <1>2, <1>3, LoopGoesOn DEF IInv, States, AliveStates, InRun
<1>5. Shaped' /\ Disjoint'
  BY <1>1, <1>3, <1>4, RunGoesOn DEF IInv
<1>6. Told'
  BY <1>3, NoReport DEF IInv
<1> QED BY <1>4, <1>5, <1>6 DEF IInv

(* Where a run that ends leaves its runner.                                *)
LEMMA EndsFacts ==
  ASSUME IInv, NEW p \in Runners, NEW stats, pc[p] \in InRun, Ends(p, stats)
  PROVE  Managed' /\ pc' \in [Runners -> States] /\ reports' = Append(reports, stats)
<1>1. PICK to \in {"none", "sleep"} : /\ pc' = [pc EXCEPT ![p] = to]
                                      /\ p # Manual => to = "sleep"
  BY DEF Ends
<1>2. UNCHANGED scheduler /\ reports' = Append(reports, stats)
  BY DEF Ends
<1>3. to \in States /\ pc[p] \in AliveStates
  BY DEF States, AliveStates, InRun
<1>4. p # Manual => to \in AliveStates
  BY <1>1 DEF AliveStates
<1>5. pc' = [pc EXCEPT ![p] = to]
  BY <1>1
<1>6. Shaped /\ Managed
  BY DEF IInv
<1> QED BY <1>2, <1>3, <1>4, <1>5, <1>6, LoopGoesOn

LEMMA Failures ==
  ASSUME IInv, NEW p \in Runners, pc[p] \in InRun, RunFails(p)
  PROVE  IInv'
<1>1. Managed' /\ pc' \in [Runners -> States] /\ reports' = Append(reports, NoStats)
  BY EndsFacts DEF RunFails
<1>2. run' = [run EXCEPT ![p] = NoRun] /\ rows' = rows
  BY DEF RunFails
<1>3. Shaped' /\ Disjoint'
  BY <1>1, <1>2, NoRunIsEmpty, RunGoesOn DEF IInv
<1>4. TrueOf(NoStats, DOMAIN rows') /\ NoStats.made \cap DOMAIN rows = {}
  <2>1. NoStats.made = {} /\ NoStats.updated = <<>>
    BY DEF NoStats
  <2>2. DOMAIN <<>> = {}
    OBVIOUS
  <2> QED BY <2>1, <2>2 DEF TrueOf
<1>5. Told'
  BY <1>1, <1>2, <1>4, ReportKept DEF IInv
<1> QED BY <1>1, <1>3, <1>5 DEF IInv

LEMMA Selections ==
  ASSUME IInv, NEW p \in Runners, get_by_external_ref(p)
  PROVE  IInv'
<1> DEFINE missing == Ref(p) \notin DOMAIN rows \cup DOMAIN run[p].txn
           next == [run[p] EXCEPT !.absent = missing]
<1>1. /\ run' = [run EXCEPT ![p] = next] /\ pc' = [pc EXCEPT ![p] = "flush"]
      /\ pc[p] = "select" /\ UNCHANGED <<scheduler, rows, reports>>
  BY DEF get_by_external_ref
<1>2. next.made = run[p].made /\ next.txn = run[p].txn /\ DOMAIN next = RunFields
  BY DEF IInv, Shaped, RunFields
<1> HIDE DEF next
<1>3. Managed' /\ pc' \in [Runners -> States]
  BY <1>1, LoopGoesOn DEF IInv, States, AliveStates, InRun
<1>4. /\ next.made \subseteq DOMAIN next.txn
      /\ \A q \in Runners \ {p} : DOMAIN next.txn \cap DOMAIN run[q].txn = {}
      /\ next.made \cap DOMAIN rows = {}
  BY <1>2 DEF IInv, Shaped, Disjoint
<1>5. Shaped' /\ Disjoint'
  BY <1>1, <1>2, <1>3, <1>4, RunGoesOn DEF IInv
<1>6. Told'
  BY <1>1, NoReport DEF IInv
<1> QED BY <1>3, <1>5, <1>6 DEF IInv

(* A row is written that no other open transaction wrote; one that was     *)
(* absent from the table still is.                                         *)
LEMMA Writings ==
  ASSUME IInv, NEW p \in Runners, pc[p] = "flush", WaitsFor(p) = {}, Stored(p),
         ~(run[p].absent /\ Ref(p) \in DOMAIN rows)
  PROVE  IInv'
<1> DEFINE written == Over([ref \in {Ref(p)} |-> dedup_key(Posting(p))], run[p].txn)
           created == IF run[p].absent THEN run[p].made \cup {Ref(p)} ELSE run[p].made
           next == [run[p] EXCEPT !.stored = run[p].stored + 1, !.txn = written, !.made = created]
<1>1. run' = [run EXCEPT ![p] = next] /\ UNCHANGED <<scheduler, rows, reports>>
  BY DEF Stored
<1>2. PICK to \in {"commit", "select"} : pc' = [pc EXCEPT ![p] = to]
  BY DEF Stored
<1>3. DOMAIN written = {Ref(p)} \cup DOMAIN run[p].txn
  BY OverFacts
<1>4. created \subseteq run[p].made \cup {Ref(p)} /\ (Ref(p) \in DOMAIN rows => created = run[p].made)
  OBVIOUS
<1> HIDE DEF written, created
<1>5. next.made = created /\ next.txn = written /\ DOMAIN next = RunFields
  BY DEF IInv, Shaped, RunFields
<1> HIDE DEF next
<1>6. Managed' /\ pc' \in [Runners -> States]
  BY <1>1, <1>2, LoopGoesOn DEF IInv, States, AliveStates, InRun
<1>7. /\ next.made \subseteq DOMAIN next.txn /\ next.made \cap DOMAIN rows = {}
  BY <1>3, <1>4, <1>5 DEF IInv, Shaped, Disjoint
<1>8. \A q \in Runners \ {p} : DOMAIN next.txn \cap DOMAIN run[q].txn = {}
  BY <1>3, <1>5 DEF IInv, Disjoint, WaitsFor
<1>9. Shaped' /\ Disjoint'
  BY <1>1, <1>5, <1>6, <1>7, <1>8, RunGoesOn DEF IInv
<1>10. Told'
  BY <1>1, NoReport DEF IInv
<1> QED BY <1>6, <1>9, <1>10 DEF IInv

LEMMA Commits ==
  ASSUME IInv, NEW p \in Runners, Commit(p)
  PROVE  IInv'
<1> DEFINE stats == Counted(run[p])
<1>1. /\ pc[p] = "commit" /\ rows' = Over(run[p].txn, rows)
      /\ run' = [run EXCEPT ![p] = NoRun] /\ Ends(p, stats)
  BY DEF Commit
<1>2. stats.made = run[p].made /\ TrueOf(stats, DOMAIN run[p].txn)
  <2>1. stats.made = run[p].made /\ DOMAIN stats.updated \subseteq DOMAIN run[p].txn
    BY DEF Counted
  <2> QED BY <2>1 DEF TrueOf, IInv, Shaped
<1> HIDE DEF stats
<1>3. Managed' /\ pc' \in [Runners -> States] /\ reports' = Append(reports, stats)
  BY <1>1, EndsFacts DEF InRun
<1>4. Shaped' /\ Disjoint' /\ DOMAIN rows' = DOMAIN run[p].txn \cup DOMAIN rows
  BY <1>1, <1>3, RunCommits DEF IInv
<1>5. TrueOf(stats, DOMAIN rows')
  BY <1>2, <1>4 DEF TrueOf
<1>6. stats.made \cap DOMAIN rows = {}
  BY <1>2 DEF IInv, Disjoint
<1>7. Told'
  BY <1>3, <1>4, <1>5, <1>6, ReportKept DEF IInv
<1> QED BY <1>3, <1>4, <1>7 DEF IInv

LEMMA Cancellations ==
  ASSUME IInv, NEW l \in Loops, CancelledError(l)
  PROVE  IInv'
<1>1. /\ l \in cancelled /\ pc[l] \notin {"none", "done"}
      /\ rows' = rows \/ rows' = Over(run[l].txn, rows)
      /\ pc' = [pc EXCEPT ![l] = "done"] /\ run' = [run EXCEPT ![l] = NoRun]
      /\ UNCHANGED <<scheduler, reports>>
  BY DEF CancelledError
<1>2. l \in Runners
  BY DEF Runners
<1>3. Managed' /\ pc' \in [Runners -> States]
  BY <1>1, LoopEnds DEF IInv
<1>4. Shaped' /\ Disjoint' /\ DOMAIN rows \subseteq DOMAIN rows'
  <2>1. CASE rows' = rows
    BY <1>1, <1>2, <1>3, <2>1, NoRunIsEmpty, RunGoesOn DEF IInv
  <2>2. CASE rows' = Over(run[l].txn, rows)
    BY <1>1, <1>2, <1>3, <2>2, RunCommits DEF IInv
  <2> QED BY <1>1, <2>1, <2>2
<1>5. Told'
  BY <1>1, <1>4, NoReport DEF IInv
<1> QED BY <1>3, <1>4, <1>5 DEF IInv

-----------------------------------------------------------------------------
LEMMA Inductive == IInv /\ [Next]_vars => IInv'
<1> SUFFICES ASSUME IInv, [Next]_vars PROVE IInv'
  OBVIOUS
<1>1. CASE start \/ stop \/ StopReturns
  <2>1. Managed' /\ pc' \in [Runners -> States] /\ UNCHANGED <<run, rows, reports>>
    BY <1>1, CallerKeepsManaged DEF IInv
  <2>2. Shaped' /\ Disjoint' /\ Told'
    BY <2>1, NoReport DEF IInv, Shaped, Disjoint
  <2> QED BY <2>1, <2>2 DEF IInv
<1>2. CASE run_once
  BY <1>2, Beginnings DEF run_once, Runners
<1>3. ASSUME NEW p \in Runners, Statement(p) \/ DatabaseError(p)
      PROVE  IInv'
  <2>1. CASE get_by_external_ref(p)
    BY <2>1, Selections
  <2>2. CASE flush(p)
    <3>1. pc[p] = "flush" /\ pc[p] \in InRun /\ WaitsFor(p) = {}
      BY <2>2 DEF flush, InRun
    <3>2. CASE run[p].absent /\ Ref(p) \in DOMAIN rows
      BY <2>2, <3>1, <3>2, Failures DEF flush
    <3>3. CASE ~(run[p].absent /\ Ref(p) \in DOMAIN rows)
      BY <2>2, <3>1, <3>3, Writings DEF flush
    <3> QED BY <3>2, <3>3
  <2>3. CASE Deadlock(p)
    BY <2>3, Failures DEF Deadlock, InRun
  <2>4. CASE Commit(p)
    BY <2>4, Commits
  <2>5. CASE DatabaseError(p)
    BY <2>5, Failures DEF DatabaseError
  <2> QED BY <1>3, <2>1, <2>2, <2>3, <2>4, <2>5 DEF Statement
<1>4. ASSUME NEW l \in Loops, _loop(l) PROVE IInv'
  <2>1. l \in Runners /\ pc[l] \in {"new", "sleep"}
    BY <1>4 DEF Runners, _loop
  <2>2. CASE running
    BY <1>4, <2>1, <2>2, Beginnings DEF _loop, AliveStates
  <2>3. CASE ~running
    <3>1. /\ pc' = [pc EXCEPT ![l] = "done"]
          /\ UNCHANGED <<scheduler, run, rows, reports>>
      BY <1>4, <2>3 DEF _loop
    <3>2. Managed' /\ pc' \in [Runners -> States]
      BY <2>1, <2>3, <3>1, LoopEnds DEF IInv
    <3>3. Shaped' /\ Disjoint' /\ Told'
      BY <3>1, <3>2, NoReport DEF IInv, Shaped, Disjoint
    <3> QED BY <3>2, <3>3 DEF IInv
  <2> QED BY <2>2, <2>3
<1>5. ASSUME NEW l \in Loops, CancelledError(l) PROVE IInv'
  BY <1>5, Cancellations
<1>6. CASE UNCHANGED vars
  <2>1. UNCHANGED <<scheduler, pc, run, rows, reports>>
    BY <1>6 DEF vars, scheduler
  <2>2. Alive' = Alive /\ \A l \in Loops : pc'[l] = "none" <=> pc[l] = "none"
    BY <2>1 DEF Alive
  <2>3. Managed'
    BY <2>1, <2>2, ManagedKept DEF IInv
  <2>4. Told'
    BY <2>1, NoReport DEF IInv
  <2> QED BY <2>1, <2>3, <2>4 DEF IInv, Shaped, Disjoint
<1> QED BY <1>1, <1>2, <1>3, <1>4, <1>5, <1>6 DEF Next

LEMMA AlwaysInductive == Spec => []IInv
  BY InitHolds, Inductive, PTL DEF Spec

(* Whatever runs overlap, fail or are cancelled: what a report counts is   *)
(* in the table, and no posting is reported as created twice.              *)
THEOREM ReportsAlwaysTrue == Spec => []ReportsMatchTheTable
<1>1. IInv => ReportsMatchTheTable
  <2> SUFFICES ASSUME IInv PROVE ReportsMatchTheTable
    OBVIOUS
  <2>1. \A i \in DOMAIN reports : TrueOf(reports[i], DOMAIN rows)
    BY DEF IInv, Told
  <2> QED BY <2>1 DEF IInv, Told, TrueOf, ReportsMatchTheTable
<1> QED BY <1>1, AlwaysInductive, PTL

(* However often the scheduler is started, stopped and started again, from *)
(* any number of coroutines: every loop is its one loop, or a stop() waits *)
(* for it, or it was started while a stop() waited; and a scheduler that   *)
(* is running has a loop that goes on.                                     *)
THEOREM AlwaysOneLoop == Spec => []OneLoopWhileRunning
<1>1. IInv => OneLoopWhileRunning
  BY DEF IInv, Managed, OneLoopWhileRunning
<1> QED BY <1>1, AlwaysInductive, PTL

-----------------------------------------------------------------------------
(* Induction over the natural numbers, from their well-foundedness: a set  *)
(* that has a counterexample has a least one.                              *)

Below == {p \in Nat \X Nat : p[1] < p[2]}

LEMMA LeastNat ==
  ASSUME NEW T, T \subseteq Nat, T # {}
  PROVE  \E n \in T : \A m \in T : n <= m
<1>1. OpToRel(<, Nat) = Below
  BY DEF OpToRel, Below
<1>2. IsWellFoundedOn(Below, Nat)
  BY <1>1, NatLessThanWellFounded
<1>3. \E n \in T : \A m \in T : ~(<<m, n>> \in Below)
  <2> HIDE DEF Below
  <2> QED BY <1>2, WFMin
<1>4. \A m, n \in Nat : m < n => <<m, n>> \in Below
  BY DEF Below
<1> HIDE DEF Below
<1>5. PICK n \in T : \A m \in T : <<m, n>> \notin Below
  BY <1>3
<1>6. \A m \in T : ~(m < n)
  BY <1>4, <1>5
<1> QED BY <1>6

LEMMA Induct ==
  ASSUME NEW S, S \subseteq Nat, 0 \in S, \A n \in S : n + 1 \in S
  PROVE  S = Nat
<1> SUFFICES ASSUME Nat \ S # {} PROVE FALSE OBVIOUS
<1>1. PICK n \in Nat \ S : \A m \in Nat \ S : n <= m
  BY LeastNat
<1>2. n # 0 /\ n - 1 \in Nat /\ n - 1 \in S
  BY <1>1
<1>3. (n - 1) + 1 \in S
  BY <1>2
<1> QED BY <1>3, <1>1

(* Induction up to a bound. *)
LEMMA UpTo ==
  ASSUME NEW n \in Nat, NEW S, 0 \in S, \A m \in 0..(n - 1) : m \in S => m + 1 \in S
  PROVE  0..n \subseteq S
<1> DEFINE G == {m \in Nat : m <= n => m \in S}
<1>1. 0 \in G /\ G \subseteq Nat
  OBVIOUS
<1>2. ASSUME NEW m \in G PROVE m + 1 \in G
  <2>1. m + 1 <= n => m \in 0..(n - 1) /\ m \in S
    BY <1>2
  <2> QED BY <2>1
<1>3. G = Nat
  <2> HIDE DEF G
  <2> QED BY <1>1, <1>2, Induct
<1> QED BY <1>3

LEMMA GreatestNat ==
  ASSUME NEW n \in Nat, NEW T, T \subseteq 1..n, T # {}
  PROVE  Max(T) \in T /\ \A m \in T : Max(T) >= m
<1> DEFINE D == {n - m : m \in T}
<1>1. D \subseteq Nat /\ D # {}
  <2>1. \A m \in T : n - m \in Nat /\ n - m \in D
    OBVIOUS
  <2> QED BY <2>1
<1>2. PICK d \in D : \A e \in D : d <= e
  <2> HIDE DEF D
  <2> QED BY <1>1, LeastNat
<1>3. PICK x \in T : d = n - x
  BY <1>2
<1>4. \A m \in T : x >= m
  <2> TAKE m \in T
  <2>1. n - m \in D
    OBVIOUS
  <2>2. d <= n - m
    BY <1>2, <2>1
  <2> QED BY <1>3, <2>2
<1> QED BY <1>4 DEF Max

LEMMA LastIsGreatest ==
  ASSUME NEW n \in Nat, NEW T, T \subseteq 1..n, n \in T
  PROVE  Max(T) = n
<1> DEFINE x == Max(T)
<1>1. x \in T /\ x >= n
  BY GreatestNat
<1>2. x = n
  <2> HIDE DEF x
  <2>1. x \in 1..n
    BY <1>1
  <2> QED BY <1>1, <2>1
<1> QED BY <1>2

LEMMA UpToEach ==
  ASSUME NEW n \in Nat, NEW m \in 1..n
  PROVE  /\ 1..m \in SUBSET (1..n) /\ 1..m # {} /\ Max(1..m) = m
         /\ (1..m) \ {m} = 1..(m - 1) /\ m - 1 \in 0..n /\ m \in 0..n
<1>1. m \in Nat /\ 1..m \subseteq 1..m /\ m \in 1..m
  OBVIOUS
<1>2. Max(1..m) = m
  BY <1>1, LastIsGreatest
<1>3. \A k \in 1..m : k \in 1..n
  OBVIOUS
<1>4. (1..m) \ {m} = 1..(m - 1) /\ m - 1 \in 0..n /\ m \in 0..n
  OBVIOUS
<1> QED BY <1>1, <1>2, <1>3, <1>4

(* The recursion that defines a fold: a function of the sets of positions, *)
(* which takes the last one off.  It is defined on every set, by induction *)
(* over the greatest position.                                             *)
Solves(A, base, n, F, g) ==
    /\ g \in [SUBSET (1..n) -> A]
    /\ \A t \in SUBSET (1..n) :
          g[t] = IF t = {} THEN base ELSE F[<<g[t \ {Max(t)}], Max(t)>>]

LEMMA RecursionExists ==
  ASSUME NEW A, NEW base \in A, NEW n \in Nat, NEW F \in [A \X (1..n) -> A]
  PROVE  \E g : Solves(A, base, n, F, g)
<1> DEFINE Step(g, t) == IF t = {} THEN base ELSE F[<<g[t \ {Max(t)}], Max(t)>>]
           Defined(m) == \E g \in [SUBSET (1..m) -> A] :
                            \A t \in SUBSET (1..m) : g[t] = Step(g, t)
<1>1. Defined(0)
  <2>1. SUBSET (1..0) = {{}}
    OBVIOUS
  <2> DEFINE g == [t \in SUBSET (1..0) |-> base]
  <2>2. g \in [SUBSET (1..0) -> A] /\ \A t \in SUBSET (1..0) : g[t] = Step(g, t)
    BY <2>1
  <2> HIDE DEF g
  <2> QED BY <2>2
<1>2. ASSUME NEW m \in 0..(n - 1), Defined(m) PROVE Defined(m + 1)
  <2>1. PICK g \in [SUBSET (1..m) -> A] : \A t \in SUBSET (1..m) : g[t] = Step(g, t)
    BY <1>2
  <2> DEFINE f == [t \in SUBSET (1..(m + 1)) |->
                     IF m + 1 \in t THEN F[<<g[t \ {m + 1}], m + 1>>] ELSE g[t]]
  <2>2. \A t \in SUBSET (1..(m + 1)) : t \ {m + 1} \in SUBSET (1..m)
    OBVIOUS
  <2>3. \A t \in SUBSET (1..(m + 1)) : m + 1 \notin t => t \in SUBSET (1..m)
    BY <2>2
  <2>4. f \in [SUBSET (1..(m + 1)) -> A]
    <3>1. m + 1 \in 1..n
      OBVIOUS
    <3> QED BY <2>2, <2>3, <3>1
  <2>5. ASSUME NEW t \in SUBSET (1..(m + 1)) PROVE f[t] = Step(f, t)
    <3>1. CASE m + 1 \in t
      <4>1. Max(t) = m + 1
        <5>1. t \subseteq 1..(m + 1) /\ m + 1 \in Nat
          OBVIOUS
        <5> QED BY <3>1, <5>1, LastIsGreatest
      <4>2. t \ {m + 1} \in SUBSET (1..m) /\ t \ {m + 1} \in SUBSET (1..(m + 1))
        BY <2>2
      <4>3. f[t \ {m + 1}] = g[t \ {m + 1}]
        BY <4>2
      <4> QED BY <3>1, <4>1, <4>3
    <3>2. CASE m + 1 \notin t
      <4>1. t \in SUBSET (1..m)
        BY <2>3, <3>2
      <4>2. f[t] = g[t] /\ g[t] = Step(g, t)
        BY <2>1, <3>2, <4>1
      <4>3. t \ {Max(t)} \in SUBSET (1..m) /\ t \ {Max(t)} \in SUBSET (1..(m + 1))
        BY <4>1
      <4>4. f[t \ {Max(t)}] = g[t \ {Max(t)}]
        BY <3>2, <4>3
      <4> QED BY <4>2, <4>4
    <3> QED BY <3>1, <3>2
  <2> HIDE DEF f
  <2> QED BY <2>4, <2>5
<1> DEFINE S == {m \in Nat : Defined(m)}
<1> HIDE DEF Defined
<1>3. 0 \in S /\ \A m \in 0..(n - 1) : m \in S => m + 1 \in S
  BY <1>1, <1>2
<1>4. 0..n \subseteq S
  <2> HIDE DEF S
  <2> QED BY <1>3, UpTo
<1>5. Defined(n)
  BY <1>4
<1> QED BY <1>5 DEF Defined, Solves

(* g unfolds to the values h that are accumulated, element by element.     *)
Unfolds(A, base, n, F, g) ==
    /\ g[{}] = base
    /\ \A t \in SUBSET (1..n) : t # {} /\ g[t \ {Max(t)}] \in A =>
          g[t] = F[<<g[t \ {Max(t)}], Max(t)>>]

Accumulates(A, base, n, F, h) ==
    /\ h[0] = base /\ h[n] \in A
    /\ \A m \in 1..n : h[m - 1] \in A /\ h[m] = F[<<h[m - 1], m>>]

LEMMA Unfolding ==
  ASSUME NEW A, NEW base \in A, NEW n \in Nat, NEW F \in [A \X (1..n) -> A], NEW g,
         Unfolds(A, base, n, F, g)
  PROVE  \E h : g[1..n] = h[n] /\ Accumulates(A, base, n, F, h)
<1> DEFINE h == [m \in 0..n |-> g[1..m]]
           S == {m \in 0..n : h[m] \in A}
<1>1. h[0] = base /\ 0 \in S
  <2>1. 1..0 = {}
    OBVIOUS
  <2> QED BY <2>1 DEF Unfolds
<1>2. ASSUME NEW m \in 1..n, h[m - 1] \in A PROVE h[m] = F[<<h[m - 1], m>>]
  <2>1. /\ 1..m \in SUBSET (1..n) /\ 1..m # {} /\ Max(1..m) = m
        /\ (1..m) \ {m} = 1..(m - 1) /\ m - 1 \in 0..n /\ m \in 0..n
    BY UpToEach
  <2>2. h[m - 1] = g[(1..m) \ {Max(1..m)}] /\ h[m] = g[1..m]
    BY <2>1
  <2> QED BY <1>2, <2>1, <2>2 DEF Unfolds
<1>3. ASSUME NEW m \in 0..(n - 1), m \in S PROVE m + 1 \in S
  <2>1. m + 1 \in 1..n /\ (m + 1) - 1 = m /\ m + 1 \in 0..n /\ h[m] \in A
    BY <1>3
  <2>2. h[m + 1] = F[<<h[m], m + 1>>]
    BY <1>2, <2>1
  <2> QED BY <2>1, <2>2
<1>4. 0..n \subseteq S
  <2> HIDE DEF S
  <2> QED BY <1>1, <1>3, UpTo
<1>5. h[n] = g[1..n] /\ n \in 0..n /\ \A m \in 1..n : m - 1 \in 0..n
  OBVIOUS
<1>6. h[n] \in A /\ \A m \in 1..n : h[m - 1] \in A
  BY <1>4, <1>5
<1> HIDE DEF h, S
<1> QED BY <1>1, <1>2, <1>5, <1>6 DEF Accumulates

KeepSteps(A, base, n, s, h) ==
    /\ h[0] = base /\ FoldLeft(Keep, base, s) = h[n] /\ h[n] \in A
    /\ \A m \in 1..n : h[m - 1] \in A /\ h[m] = Keep(h[m - 1], s[m])

LEMMA FoldOfKeep ==
  ASSUME NEW A, NEW base \in A, NEW n \in Nat, NEW s, DOMAIN s = 1..n,
         \A a \in A : \A m \in 1..n : Keep(a, s[m]) \in A
  PROVE  \E h : KeepSteps(A, base, n, s, h)
<1> DEFINE Step(g, t) == IF t = {} THEN base ELSE Keep(g[t \ {Max(t)}], s[Max(t)])
           F == [am \in A \X (1..n) |-> Keep(am[1], s[am[2]])]
           iter == CHOOSE f : f = [t \in SUBSET (DOMAIN s) |-> Step(f, t)]
<1>1. F \in [A \X (1..n) -> A]
  OBVIOUS
<1>2. \A a \in A : \A m \in 1..n : F[<<a, m>>] = Keep(a, s[m])
  OBVIOUS
<1> HIDE DEF F
<1>3. \A t \in SUBSET (1..n) : t # {} => Max(t) \in 1..n
  BY GreatestNat
<1>4. PICK g : Solves(A, base, n, F, g)
  BY <1>1, RecursionExists
<1>5. g = [t \in SUBSET (DOMAIN s) |-> Step(g, t)]
  BY <1>2, <1>3, <1>4 DEF Solves
<1>6. iter = [t \in SUBSET (DOMAIN s) |-> Step(iter, t)]
  BY <1>5
<1>7. FoldLeft(Keep, base, s) = iter[1..n]
  BY DEF FoldLeft, MapThenFoldSet
<1> HIDE DEF iter
<1>8. Unfolds(A, base, n, F, iter)
  BY <1>2, <1>3, <1>6 DEF Unfolds
<1>9. PICK h : iter[1..n] = h[n] /\ Accumulates(A, base, n, F, h)
  BY <1>1, <1>8, Unfolding
<1>10. \A m \in 1..n : h[m - 1] \in A /\ h[m] = Keep(h[m - 1], s[m])
  BY <1>2, <1>9 DEF Accumulates
<1> QED BY <1>7, <1>9, <1>10 DEF Accumulates, KeepSteps

SourceSteps(A, base, n, s, h) ==
    /\ h[0] = base /\ FoldLeft(FromSource, base, s) = h[n] /\ h[n] \in A
    /\ \A m \in 1..n : h[m - 1] \in A /\ h[m] = FromSource(h[m - 1], s[m])

LEMMA FoldOfSources ==
  ASSUME NEW A, NEW base \in A, NEW n \in Nat, NEW s, DOMAIN s = 1..n,
         \A a \in A : \A m \in 1..n : FromSource(a, s[m]) \in A
  PROVE  \E h : SourceSteps(A, base, n, s, h)
<1> DEFINE Step(g, t) == IF t = {} THEN base ELSE FromSource(g[t \ {Max(t)}], s[Max(t)])
           F == [am \in A \X (1..n) |-> FromSource(am[1], s[am[2]])]
           iter == CHOOSE f : f = [t \in SUBSET (DOMAIN s) |-> Step(f, t)]
<1>1. F \in [A \X (1..n) -> A]
  OBVIOUS
<1>2. \A a \in A : \A m \in 1..n : F[<<a, m>>] = FromSource(a, s[m])
  OBVIOUS
<1> HIDE DEF F
<1>3. \A t \in SUBSET (1..n) : t # {} => Max(t) \in 1..n
  BY GreatestNat
<1>4. PICK g : Solves(A, base, n, F, g)
  BY <1>1, RecursionExists
<1>5. g = [t \in SUBSET (DOMAIN s) |-> Step(g, t)]
  BY <1>2, <1>3, <1>4 DEF Solves
<1>6. iter = [t \in SUBSET (DOMAIN s) |-> Step(iter, t)]
  BY <1>5
<1>7. FoldLeft(FromSource, base, s) = iter[1..n]
  BY DEF FoldLeft, MapThenFoldSet
<1> HIDE DEF iter
<1>8. Unfolds(A, base, n, F, iter)
  BY <1>2, <1>3, <1>6 DEF Unfolds
<1>9. PICK h : iter[1..n] = h[n] /\ Accumulates(A, base, n, F, h)
  BY <1>1, <1>8, Unfolding
<1>10. \A m \in 1..n : h[m - 1] \in A /\ h[m] = FromSource(h[m - 1], s[m])
  BY <1>2, <1>9 DEF Accumulates
<1> QED BY <1>7, <1>9, <1>10 DEF Accumulates, SourceSteps

Take(wanted, kept, job) == IF job \in wanted THEN Append(kept, job) ELSE kept

TakeSteps(A, wanted, n, s, h) ==
    /\ h[0] = <<>> /\ Only(s, wanted) = h[n] /\ h[n] \in A
    /\ \A m \in 1..n : h[m - 1] \in A /\ h[m] = Take(wanted, h[m - 1], s[m])

LEMMA FoldOfTake ==
  ASSUME NEW A, NEW wanted, <<>> \in A, NEW n \in Nat, NEW s, DOMAIN s = 1..n,
         \A a \in A : \A m \in 1..n : Take(wanted, a, s[m]) \in A
  PROVE  \E h : TakeSteps(A, wanted, n, s, h)
<1> DEFINE Step(g, t) == IF t = {} THEN <<>> ELSE Take(wanted, g[t \ {Max(t)}], s[Max(t)])
           F == [am \in A \X (1..n) |-> Take(wanted, am[1], s[am[2]])]
           iter == CHOOSE f : f = [t \in SUBSET (DOMAIN s) |-> Step(f, t)]
<1>1. F \in [A \X (1..n) -> A]
  OBVIOUS
<1>2. \A a \in A : \A m \in 1..n : F[<<a, m>>] = Take(wanted, a, s[m])
  OBVIOUS
<1> HIDE DEF F
<1>3. \A t \in SUBSET (1..n) : t # {} => Max(t) \in 1..n
  BY GreatestNat
<1>4. PICK g : Solves(A, <<>>, n, F, g)
  BY <1>1, RecursionExists
<1>5. g = [t \in SUBSET (DOMAIN s) |-> Step(g, t)]
  BY <1>2, <1>3, <1>4 DEF Solves
<1>6. iter = [t \in SUBSET (DOMAIN s) |-> Step(iter, t)]
  BY <1>5
<1>7. Only(s, wanted) = iter[1..n]
  BY DEF Only, Take, FoldLeft, MapThenFoldSet
<1> HIDE DEF iter
<1>8. Unfolds(A, <<>>, n, F, iter)
  BY <1>2, <1>3, <1>6 DEF Unfolds
<1>9. PICK h : iter[1..n] = h[n] /\ Accumulates(A, <<>>, n, F, h)
  BY <1>1, <1>8, Unfolding
<1>10. \A m \in 1..n : h[m - 1] \in A /\ h[m] = Take(wanted, h[m - 1], s[m])
  BY <1>2, <1>9 DEF Accumulates
<1> QED BY <1>7, <1>9, <1>10 DEF Accumulates, TakeSteps

-----------------------------------------------------------------------------
(* The connectors.                                                         *)

LEMMA ToSetFacts ==
  ASSUME NEW S, NEW s \in Seq(S)
  PROVE  /\ DOMAIN s = 1..Len(s) /\ Len(s) \in Nat /\ ToSet(s) \subseteq S
         /\ ToSet(s) = {s[m] : m \in 1..Len(s)} /\ s \in Seq(ToSet(s))
         /\ \A e \in S : /\ Append(s, e) \in Seq(S) /\ Len(Append(s, e)) = Len(s) + 1
                         /\ Append(s, e)[Len(s) + 1] = e
                         /\ \A m \in 1..Len(s) : Append(s, e)[m] = s[m]
                         /\ ToSet(Append(s, e)) = ToSet(s) \cup {e}
<1>1. DOMAIN s = 1..Len(s) /\ Len(s) \in Nat
  OBVIOUS
<1>2. ToSet(s) = {s[m] : m \in 1..Len(s)}
  BY <1>1 DEF ToSet
<1>3. ToSet(s) \subseteq S
  BY <1>1, <1>2
<1>4. s \in Seq(ToSet(s))
  BY <1>1, <1>2
<1>5. ASSUME NEW e \in S
      PROVE  /\ Append(s, e) \in Seq(S) /\ Len(Append(s, e)) = Len(s) + 1
             /\ Append(s, e)[Len(s) + 1] = e
             /\ \A m \in 1..Len(s) : Append(s, e)[m] = s[m]
             /\ ToSet(Append(s, e)) = ToSet(s) \cup {e}
  <2>1. /\ Append(s, e) \in Seq(S) /\ Len(Append(s, e)) = Len(s) + 1
        /\ Append(s, e)[Len(s) + 1] = e
        /\ \A m \in 1..Len(s) : Append(s, e)[m] = s[m]
        /\ DOMAIN Append(s, e) = 1..(Len(s) + 1)
    OBVIOUS
  <2> DEFINE r == Append(s, e)
  <2> HIDE DEF r
  <2>2. ToSet(r) = {r[m] : m \in 1..(Len(s) + 1)}
    BY <2>1 DEF ToSet, r
  <2>3. \A m \in 1..(Len(s) + 1) : m \in 1..Len(s) \/ m = Len(s) + 1
    BY <1>1
  <2>4. \A m \in 1..Len(s) : m \in 1..(Len(s) + 1)
    BY <1>1
  <2>5. Len(s) + 1 \in 1..(Len(s) + 1)
    BY <1>1
  <2>6. \A m \in 1..Len(s) : r[m] = s[m]
    BY <2>1 DEF r
  <2>7. r[Len(s) + 1] = e
    BY <2>1 DEF r
  <2>8. ToSet(r) = ToSet(s) \cup {e}
    BY <1>2, <2>2, <2>3, <2>4, <2>5, <2>6, <2>7
  <2> QED BY <2>1, <2>8 DEF r
<1> QED BY <1>1, <1>2, <1>3, <1>4, <1>5

LEMMA OnlyFacts ==
  ASSUME NEW S, NEW jobs \in Seq(S), NEW wanted
  PROVE  Only(jobs, wanted) \in Seq(S) /\ ToSet(Only(jobs, wanted)) = ToSet(jobs) \cap wanted
<1> DEFINE n == Len(jobs)
<1>1. n \in Nat /\ DOMAIN jobs = 1..n /\ ToSet(jobs) = {jobs[m] : m \in 1..n}
      /\ \A m \in 1..n : jobs[m] \in S
  BY ToSetFacts
<1> HIDE DEF n
<1>2. \A a \in Seq(S) : \A m \in 1..n : Take(wanted, a, jobs[m]) \in Seq(S)
  BY <1>1, ToSetFacts DEF Take
<1>3. <<>> \in Seq(S) /\ ToSet(<<>>) = {}
  BY DEF ToSet
<1>4. PICK h : TakeSteps(Seq(S), wanted, n, jobs, h)
  BY <1>1, <1>2, <1>3, FoldOfTake
<1> DEFINE G == {m \in 0..n : ToSet(h[m]) = {jobs[k] : k \in 1..m} \cap wanted}
<1>5. 0 \in G
  BY <1>1, <1>3, <1>4 DEF TakeSteps
<1>6. ASSUME NEW m \in 0..(n - 1), m \in G PROVE m + 1 \in G
  <2>1. m + 1 \in 1..n /\ (m + 1) - 1 = m /\ m + 1 \in 0..n
    BY <1>1
  <2>2. h[m] \in Seq(S) /\ h[m + 1] = Take(wanted, h[m], jobs[m + 1])
    BY <1>4, <2>1 DEF TakeSteps
  <2>3. ToSet(h[m]) = {jobs[k] : k \in 1..m} \cap wanted
    BY <1>6
  <2>4. {jobs[k] : k \in 1..(m + 1)} = {jobs[k] : k \in 1..m} \cup {jobs[m + 1]}
    <3>1. \A k \in 1..(m + 1) : k \in 1..m \/ k = m + 1
      OBVIOUS
    <3>2. m + 1 \in 1..(m + 1) /\ \A k \in 1..m : k \in 1..(m + 1)
      OBVIOUS
    <3> QED BY <3>1, <3>2
  <2>5. jobs[m + 1] \in S
    BY <1>1, <2>1
  <2>6. ToSet(Append(h[m], jobs[m + 1])) = ToSet(h[m]) \cup {jobs[m + 1]}
    BY <2>2, <2>5, ToSetFacts
  <2>7. ToSet(h[m + 1]) = {jobs[k] : k \in 1..(m + 1)} \cap wanted
    BY <2>2, <2>3, <2>4, <2>6 DEF Take
  <2> QED BY <2>1, <2>7
<1>7. 0..n \subseteq G
  <2> HIDE DEF G
  <2> QED BY <1>1, <1>5, <1>6, UpTo
<1>8. n \in G
  BY <1>1, <1>7
<1> QED BY <1>1, <1>4, <1>8 DEF TakeSteps

LEMMA PostingsFacts ==
  ASSUME NEW source, NEW J, NEW jobs \in Seq(J), Broken \notin ToSet(jobs),
         NEW P, \A job \in ToSet(jobs) : JobPosting(source, job) \in P
  PROVE  /\ PostingsOf(source, jobs) \in Seq(P)
         /\ ToSet(PostingsOf(source, jobs)) = {JobPosting(source, job) : job \in ToSet(jobs)}
<1>1. DOMAIN jobs = 1..Len(jobs) /\ Len(jobs) \in Nat /\ ToSet(jobs) = {jobs[m] : m \in 1..Len(jobs)}
  BY ToSetFacts
<1> DEFINE ps == [m \in DOMAIN jobs |-> JobPosting(source, jobs[m])]
<1>2. PostingsOf(source, jobs) = ps
  BY DEF PostingsOf
<1>3. DOMAIN ps = 1..Len(jobs) /\ \A m \in 1..Len(jobs) : ps[m] = JobPosting(source, jobs[m]) /\ ps[m] \in P
  BY <1>1
<1> HIDE DEF ps
<1>4. ps \in [1..Len(jobs) -> P]
  <2>1. ps = [m \in DOMAIN ps |-> ps[m]]
    BY DEF ps
  <2> QED BY <1>3, <2>1
<1>5. ps \in Seq(P)
  BY <1>1, <1>4
<1>6. ToSet(ps) = {JobPosting(source, job) : job \in ToSet(jobs)}
  BY <1>1, <1>3 DEF ToSet
<1> QED BY <1>2, <1>5, <1>6

PostingsFrom(source, data) == {JobPosting(source, job) : job \in Objects(data.jobs)}

(* The jobs a connector makes postings of.                                 *)
Reads(source, data, js) ==
    /\ js \in Seq(ToSet(data.jobs)) /\ fetch(source, data) = PostingsOf(source, js)
    /\ data.kind # Shape[source.ats] => ToSet(js) = {}
    /\ data.kind = Shape[source.ats] =>
          IF source.ats \in PassesOver
          THEN /\ ToSet(js) \subseteq Objects(data.jobs)
               /\ \A job \in Objects(data.jobs) : job.title # Blank => job \in ToSet(js)
          ELSE js = data.jobs

LEMMA Reading ==
  ASSUME NEW source, NEW data, data # Failed, source.ats \in DOMAIN Shape,
         data.jobs \in Seq(ToSet(data.jobs))
  PROVE  \E js : Reads(source, data, js)
<1> DEFINE S == ToSet(data.jobs)
           listed(kind) == Listed(data, kind)
<1>1. \A kind : listed(kind) \in Seq(S) /\ ToSet(listed(kind)) = IF data.kind = kind THEN S ELSE {}
  BY DEF Listed, ToSet
<1>2. \A kind, wanted : /\ Only(listed(kind), wanted) \in Seq(S)
                        /\ ToSet(Only(listed(kind), wanted)) = ToSet(listed(kind)) \cap wanted
  BY <1>1, OnlyFacts
<1>3. Objects(<<>>) = {}
  BY DEF Objects, ToSet
<1>4. CASE source.ats \in {"greenhouse", "naukri"}
  <2>1. fetch(source, data) = PostingsOf(source, listed("object"))
    BY <1>4 DEF fetch, greenhouse, naukri
  <2>2. Shape[source.ats] = "object" /\ source.ats \notin PassesOver
    BY <1>4 DEF Shape, PassesOver
  <2>3. Reads(source, data, listed("object"))
    BY <1>1, <2>1, <2>2 DEF Reads, Listed
  <2> QED BY <2>3
<1>5. CASE source.ats = "lever"
  <2>1. fetch(source, data) = PostingsOf(source, listed("list"))
    BY <1>5 DEF fetch, lever
  <2>2. Shape[source.ats] = "list" /\ source.ats \notin PassesOver
    BY <1>5 DEF Shape, PassesOver
  <2>3. Reads(source, data, listed("list"))
    BY <1>1, <2>1, <2>2 DEF Reads, Listed
  <2> QED BY <2>3
<1>6. CASE source.ats = "smartrecruiters"
  <2> DEFINE js == Only(listed("object"), Objects(listed("object")))
  <2>1. fetch(source, data) = PostingsOf(source, js)
    BY <1>6 DEF fetch, smartrecruiters
  <2>2. Shape[source.ats] = "object" /\ source.ats \in PassesOver
    BY <1>6 DEF Shape, PassesOver
  <2>3. js \in Seq(S) /\ ToSet(js) = ToSet(listed("object")) \cap Objects(listed("object"))
    BY <1>2
  <2>4. data.kind = "object" => listed("object") = data.jobs
    BY DEF Listed
  <2>5. Objects(data.jobs) \subseteq S
    BY DEF Objects
  <2> HIDE DEF js
  <2>6. Reads(source, data, js)
    BY <1>1, <2>1, <2>2, <2>3, <2>4, <2>5 DEF Reads
  <2> QED BY <2>6
<1>7. CASE source.ats = "remoteok"
  <2> DEFINE wanted == {job \in Objects(listed("list")) : job.title # Blank}
             js == Only(listed("list"), wanted)
  <2>1. fetch(source, data) = PostingsOf(source, js)
    BY <1>7 DEF fetch, remoteok
  <2>2. Shape[source.ats] = "list" /\ source.ats \in PassesOver
    BY <1>7 DEF Shape, PassesOver
  <2>3. js \in Seq(S) /\ ToSet(js) = ToSet(listed("list")) \cap wanted
    BY <1>2
  <2>4. data.kind = "list" => listed("list") = data.jobs
    BY DEF Listed
  <2>5. Objects(data.jobs) \subseteq S
    BY DEF Objects
  <2> HIDE DEF js
  <2>6. Reads(source, data, js)
    BY <1>1, <2>1, <2>2, <2>3, <2>4, <2>5 DEF Reads
  <2> QED BY <2>6
<1> QED BY <1>4, <1>5, <1>6, <1>7 DEF Shape

(* What a source answers is an error, which offers nothing, or postings of *)
(* which it offers the relevant ones.                                      *)
Honest(source, data) ==
    LET postings == fetch(source, data)
    IN  IF postings = Failed THEN Offered(source, data) = {}
        ELSE /\ postings \in Seq(PostingsFrom(source, data))
             /\ Offered(source, data) = {p \in ToSet(postings) : is_relevant(p)}

LEMMA Fetching ==
  ASSUME NEW source, NEW data, source.ats \in DOMAIN Shape,
         data # Failed => /\ data.jobs \in Seq(ToSet(data.jobs))
                          /\ Failed \notin Seq(PostingsFrom(source, data))
  PROVE  Honest(source, data)
<1>1. CASE data = Failed
  BY <1>1 DEF Honest, fetch, Offered
<1>2. CASE data # Failed
  <2>1. PICK js : Reads(source, data, js)
    BY <1>2, Reading
  <2>2. js \in Seq(ToSet(data.jobs)) /\ fetch(source, data) = PostingsOf(source, js)
    BY <2>1 DEF Reads
  <2>3. ToSet(js) \subseteq ToSet(data.jobs)
    BY <2>2, ToSetFacts
  <2>4. CASE Broken \in ToSet(js)
    <3>1. PostingsOf(source, js) = Failed
      BY <2>4 DEF PostingsOf
    <3>2. data.kind = Shape[source.ats] /\ source.ats \notin PassesOver /\ js = data.jobs
      BY <2>1, <2>4 DEF Reads, Objects
    <3>3. Offered(source, data) = {}
      BY <2>4, <3>2 DEF Offered
    <3> QED BY <2>2, <3>1, <3>3 DEF Honest
  <2>5. CASE Broken \notin ToSet(js)
    <3>1. ToSet(js) \subseteq Objects(data.jobs)
      BY <2>3, <2>5 DEF Objects
    <3>2. \A job \in ToSet(js) : JobPosting(source, job) \in PostingsFrom(source, data)
      BY <3>1 DEF PostingsFrom
    <3>3. /\ PostingsOf(source, js) \in Seq(PostingsFrom(source, data))
          /\ ToSet(PostingsOf(source, js)) = {JobPosting(source, job) : job \in ToSet(js)}
      BY <2>2, <2>5, <3>2, PostingsFacts
    <3>4. PostingsOf(source, js) # Failed
      BY <1>2, <3>3
    <3>5. \A job : is_relevant(JobPosting(source, job)) => job.title # Blank
      BY DEF is_relevant, JobPosting
    <3>6. Offered(source, data) = {p \in {JobPosting(source, job) : job \in ToSet(js)} : is_relevant(p)}
      <4>1. CASE data.kind # Shape[source.ats]
        BY <2>1, <4>1 DEF Reads, Offered
      <4>2. CASE data.kind = Shape[source.ats] /\ source.ats \in PassesOver
        <5>1. /\ ToSet(js) \subseteq Objects(data.jobs)
              /\ \A job \in Objects(data.jobs) : job.title # Blank => job \in ToSet(js)
          BY <2>1, <4>2 DEF Reads
        <5>2. Offered(source, data) =
                 {p \in {JobPosting(source, job) : job \in Objects(data.jobs)} : is_relevant(p)}
          BY <1>2, <4>2 DEF Offered
        <5> QED BY <3>5, <5>1, <5>2
      <4>3. CASE data.kind = Shape[source.ats] /\ source.ats \notin PassesOver
        <5>1. js = data.jobs
          BY <2>1, <4>3 DEF Reads
        <5> QED BY <1>2, <2>5, <4>3, <5>1 DEF Offered, Objects
      <4> QED BY <4>1, <4>2, <4>3
    <3> QED BY <2>2, <3>3, <3>4, <3>6 DEF Honest
  <2> QED BY <2>4, <2>5
<1> QED BY <1>1, <1>2

-----------------------------------------------------------------------------
(* The aggregator.                                                         *)

Accumulators(P) == [seen : SUBSET {dedup_key(p) : p \in P}, kept : Nat, postings : Seq(P)]

(* No key twice, and the keys are those that were seen. *)
Keyed(found) ==
    /\ found.seen = Keys(found.postings)
    /\ \A m, n \in DOMAIN found.postings :
          dedup_key(found.postings[m]) = dedup_key(found.postings[n]) => m = n

LEMMA KeepTypes ==
  ASSUME NEW P, NEW found \in Accumulators(P), NEW p \in P
  PROVE  Keep(found, p) \in Accumulators(P)
<1>1. Append(found.postings, p) \in Seq(P)
  BY ToSetFacts DEF Accumulators
<1> QED BY <1>1 DEF Keep, Accumulators

LEMMA ShareFacts ==
  ASSUME NEW P, NEW postings \in Seq(P), NEW p \in P, NEW source
  PROVE  /\ IsFiniteSet(ShareOf(source, postings)) /\ Cardinality(ShareOf(source, postings)) \in Nat
         /\ p.source # source => ShareOf(source, Append(postings, p)) = ShareOf(source, postings)
         /\ p.source = source => Cardinality(ShareOf(source, Append(postings, p)))
                                   = Cardinality(ShareOf(source, postings)) + 1
<1> DEFINE s == Append(postings, p)
           n == Len(postings)
<1>1. /\ DOMAIN postings = 1..n /\ n \in Nat /\ s \in Seq(P) /\ Len(s) = n + 1
      /\ s[n + 1] = p /\ \A m \in 1..n : s[m] = postings[m]
  BY ToSetFacts
<1>2. DOMAIN s = 1..(n + 1)
  BY <1>1
<1> HIDE DEF s, n
<1>3. IsFiniteSet(1..n)
  BY <1>1, FS_Interval
<1>4. ShareOf(source, postings) \subseteq 1..n
  BY <1>1 DEF ShareOf
<1>5. IsFiniteSet(ShareOf(source, postings)) /\ Cardinality(ShareOf(source, postings)) \in Nat
  BY <1>3, <1>4, FS_Subset, FS_CardinalityType
<1>6. \A m : m \in 1..(n + 1) <=> m \in 1..n \/ m = n + 1
  BY <1>1
<1>7. ShareOf(source, s) = {m \in 1..(n + 1) : s[m].source = source}
  BY <1>2 DEF ShareOf
<1>8. ShareOf(source, postings) = {m \in 1..n : postings[m].source = source}
  BY <1>1 DEF ShareOf
<1>9. p.source # source => ShareOf(source, s) = ShareOf(source, postings)
  BY <1>1, <1>6, <1>7, <1>8
<1>10. p.source = source => ShareOf(source, s) = ShareOf(source, postings) \cup {n + 1}
  BY <1>1, <1>6, <1>7, <1>8
<1>11. n + 1 \notin ShareOf(source, postings)
  BY <1>1, <1>4
<1>12. p.source = source => Cardinality(ShareOf(source, s)) = Cardinality(ShareOf(source, postings)) + 1
  BY <1>5, <1>10, <1>11, FS_AddElement
<1> QED BY <1>5, <1>9, <1>12 DEF s

(* The loop over one source's postings: nothing is taken twice, the source *)
(* has its share, no other source's changes, and a relevant posting so far *)
(* is left out only if its key is there or the share is full.              *)
LEMMA KeepKeeps ==
  ASSUME NEW P, NEW found \in Accumulators(P), NEW p \in P, Keyed(found),
         found.kept <= LimitPerSource,
         found.kept = Cardinality(ShareOf(p.source, found.postings))
  PROVE  LET next == Keep(found, p)
         IN  /\ Keyed(next) /\ next.kept <= LimitPerSource /\ found.seen \subseteq next.seen
             /\ next.kept = Cardinality(ShareOf(p.source, next.postings)) /\ found.kept <= next.kept
             /\ \A source : source # p.source =>
                   ShareOf(source, next.postings) = ShareOf(source, found.postings)
             /\ is_relevant(p) => dedup_key(p) \in next.seen \/ next.kept = LimitPerSource
             /\ ToSet(next.postings) \subseteq ToSet(found.postings) \cup {q \in {p} : is_relevant(q)}
<1> DEFINE next == Keep(found, p)
           new == [seen |-> found.seen \cup {dedup_key(p)}, kept |-> found.kept + 1,
                   postings |-> Append(found.postings, p)]
<1>1. /\ found.kept \in Nat /\ found.postings \in Seq(P) /\ LimitPerSource \in Nat
  BY LimitAssumption DEF Accumulators
<1>2. CASE found.kept >= LimitPerSource \/ ~is_relevant(p) \/ dedup_key(p) \in found.seen
  <2>1. next = found
    BY <1>2 DEF Keep
  <2>2. found.kept >= LimitPerSource => found.kept = LimitPerSource
    BY <1>1
  <2> HIDE DEF next
  <2> QED BY <1>1, <1>2, <2>1, <2>2 DEF next
<1>3. CASE ~(found.kept >= LimitPerSource) /\ is_relevant(p) /\ dedup_key(p) \notin found.seen
  <2>1. next = new
    BY <1>3 DEF Keep
  <2>2. found.kept + 1 <= LimitPerSource
    BY <1>1, <1>3
  <2> DEFINE s == Append(found.postings, p)
             n == Len(found.postings)
  <2>3. /\ DOMAIN found.postings = 1..n /\ n \in Nat /\ s \in Seq(P) /\ Len(s) = n + 1
        /\ s[n + 1] = p /\ ToSet(s) = ToSet(found.postings) \cup {p}
        /\ \A m \in 1..n : s[m] = found.postings[m]
    BY <1>1, ToSetFacts
  <2>4. DOMAIN s = 1..(n + 1)
    BY <2>3
  <2>5. /\ Cardinality(ShareOf(p.source, s)) = found.kept + 1
        /\ \A source : source # p.source => ShareOf(source, s) = ShareOf(source, found.postings)
    BY <1>1, ShareFacts
  <2> HIDE DEF s, n
  <2>6. Keys(s) = Keys(found.postings) \cup {dedup_key(p)}
    BY <2>3 DEF Keys
  <2>7. \A m \in 1..n : dedup_key(found.postings[m]) \in found.seen
    <3>1. \A m \in 1..n : found.postings[m] \in ToSet(found.postings)
      BY <2>3 DEF ToSet
    <3> QED BY <3>1 DEF Keyed, Keys
  <2>8. ASSUME NEW m \in 1..(n + 1), NEW k \in 1..(n + 1), dedup_key(s[m]) = dedup_key(s[k])
        PROVE  m = k
    <3>1. (m \in 1..n \/ m = n + 1) /\ (k \in 1..n \/ k = n + 1)
      BY <2>3
    <3>2. CASE m \in 1..n /\ k \in 1..n
      BY <2>3, <2>8, <3>2 DEF Keyed
    <3>3. CASE m \in 1..n /\ k = n + 1
      <4>1. dedup_key(s[m]) = dedup_key(found.postings[m]) /\ dedup_key(s[k]) = dedup_key(p)
        BY <2>3, <3>3
      <4> QED BY <1>3, <2>7, <2>8, <3>3, <4>1
    <3>4. CASE k \in 1..n /\ m = n + 1
      <4>1. dedup_key(s[k]) = dedup_key(found.postings[k]) /\ dedup_key(s[m]) = dedup_key(p)
        BY <2>3, <3>4
      <4> QED BY <1>3, <2>7, <2>8, <3>4, <4>1
    <3> QED BY <3>1, <3>2, <3>3, <3>4
  <2>9. new.postings = s /\ new.seen = found.seen \cup {dedup_key(p)} /\ new.kept = found.kept + 1
    BY DEF s
  <2> HIDE DEF new, next
  <2>10. Keyed(new)
    BY <2>4, <2>6, <2>8, <2>9 DEF Keyed
  <2> QED BY <1>1, <1>3, <2>1, <2>2, <2>3, <2>5, <2>9, <2>10 DEF next
<1> QED BY <1>2, <1>3

(* One source's postings, of which the loop has been over the first m.     *)
Taken(name, ps, first, found, m) ==
    /\ Keyed(found) /\ found.kept <= LimitPerSource /\ first.seen \subseteq found.seen
    /\ found.kept = Cardinality(ShareOf(name, found.postings))
    /\ \A source : source # name =>
          ShareOf(source, found.postings) = ShareOf(source, first.postings)
    /\ ToSet(found.postings) \subseteq
          ToSet(first.postings) \cup {p \in ToSet(ps) : is_relevant(p)}
    /\ \A k \in 1..m : is_relevant(ps[k]) =>
          dedup_key(ps[k]) \in found.seen \/ found.kept = LimitPerSource

LEMMA FromSourceKeeps ==
  ASSUME NEW P, NEW found \in Accumulators(P), NEW ps \in Seq(P), ps # Failed, NEW name,
         \A p \in ToSet(ps) : p.source = name,
         Keyed(found), ShareOf(name, found.postings) = {}
  PROVE  /\ FromSource(found, ps) \in Accumulators(P)
         /\ Taken(name, ps, found, FromSource(found, ps), Len(ps))
<1> DEFINE n == Len(ps)
           first == [found EXCEPT !.kept = 0]
<1>1. /\ DOMAIN ps = 1..n /\ n \in Nat /\ ToSet(ps) = {ps[m] : m \in 1..n}
      /\ \A m \in 1..n : ps[m] \in P
  BY ToSetFacts
<1>2. /\ first \in Accumulators(P) /\ first.kept = 0
      /\ first.seen = found.seen /\ first.postings = found.postings
  BY DEF Accumulators
<1>3. FromSource(found, ps) = FoldLeft(Keep, first, ps)
  BY DEF FromSource
<1> HIDE DEF n, first
<1>4. \A a \in Accumulators(P) : \A m \in 1..n : Keep(a, ps[m]) \in Accumulators(P)
  BY <1>1, KeepTypes
<1>5. PICK h : KeepSteps(Accumulators(P), first, n, ps, h)
  BY <1>1, <1>2, <1>4, FoldOfKeep
<1> DEFINE G == {m \in 0..n : Taken(name, ps, found, h[m], m)}
<1>6. 0 \in G
  <2>1. h[0] = first /\ Cardinality({}) = 0 /\ LimitPerSource \in Nat
    BY <1>5, FS_EmptySet, LimitAssumption DEF KeepSteps
  <2>2. Keyed(first)
    BY <1>2 DEF Keyed
  <2>3. first.kept = Cardinality(ShareOf(name, first.postings)) /\ first.kept <= LimitPerSource
    <3>1. ShareOf(name, first.postings) = {}
      BY <1>2
    <3>2. 0 <= LimitPerSource
      BY <2>1
    <3> QED BY <1>2, <2>1, <3>1, <3>2
  <2>4. \A k \in 1..0 : FALSE
    OBVIOUS
  <2>5. Taken(name, ps, found, first, 0)
    BY <1>2, <2>2, <2>3, <2>4 DEF Taken
  <2>6. 0 \in 0..n
    BY <1>1
  <2> QED BY <2>1, <2>5, <2>6
<1>7. ASSUME NEW m \in 0..(n - 1), m \in G PROVE m + 1 \in G
  <2> DEFINE a == h[m]
             p == ps[m + 1]
             b == h[m + 1]
  <2>1. m + 1 \in 1..n /\ (m + 1) - 1 = m /\ m + 1 \in 0..n
    BY <1>1
  <2>2. a \in Accumulators(P) /\ b = Keep(a, p)
    BY <1>5, <2>1 DEF KeepSteps
  <2>3. p \in P /\ p \in ToSet(ps) /\ p.source = name
    BY <1>1, <2>1
  <2>4. Taken(name, ps, found, a, m)
    BY <1>7
  <2> HIDE DEF a, b, p, G
  <2>5. /\ Keyed(b) /\ b.kept <= LimitPerSource /\ a.seen \subseteq b.seen
        /\ b.kept = Cardinality(ShareOf(name, b.postings)) /\ a.kept <= b.kept
        /\ \A source : source # name => ShareOf(source, b.postings) = ShareOf(source, a.postings)
        /\ is_relevant(p) => dedup_key(p) \in b.seen \/ b.kept = LimitPerSource
        /\ ToSet(b.postings) \subseteq ToSet(a.postings) \cup {q \in {p} : is_relevant(q)}
    BY <2>2, <2>3, <2>4, KeepKeeps DEF Taken
  <2>6. a.kept \in Nat /\ b.kept \in Nat /\ LimitPerSource \in Nat
    BY <2>2, <2>3, KeepTypes, LimitAssumption DEF Accumulators
  <2>7. a.kept = LimitPerSource => b.kept = LimitPerSource
    BY <2>5, <2>6
  <2>8. \A k \in 1..(m + 1) : k \in 1..m \/ k = m + 1
    OBVIOUS
  <2>9. \A k \in 1..(m + 1) : is_relevant(ps[k]) =>
           dedup_key(ps[k]) \in b.seen \/ b.kept = LimitPerSource
    <3>1. \A k \in 1..m : is_relevant(ps[k]) =>
             dedup_key(ps[k]) \in b.seen \/ b.kept = LimitPerSource
      BY <2>4, <2>5, <2>7 DEF Taken
    <3>2. is_relevant(ps[m + 1]) => dedup_key(ps[m + 1]) \in b.seen \/ b.kept = LimitPerSource
      BY <2>5 DEF p
    <3> QED BY <2>8, <3>1, <3>2
  <2>10. ToSet(b.postings) \subseteq ToSet(found.postings) \cup {q \in ToSet(ps) : is_relevant(q)}
    BY <2>3, <2>4, <2>5 DEF Taken
  <2>11. Taken(name, ps, found, b, m + 1)
    BY <2>4, <2>5, <2>9, <2>10 DEF Taken
  <2> QED BY <2>1, <2>11 DEF G, b
<1>8. 0..n \subseteq G
  <2> HIDE DEF G
  <2> QED BY <1>1, <1>6, <1>7, UpTo
<1>9. Taken(name, ps, found, h[n], n)
  BY <1>1, <1>8
<1> QED BY <1>3, <1>5, <1>9 DEF KeepSteps, n

(* What discovery has found after the first i sources: the promise, for    *)
(* these sources.                                                          *)
OfferOf(answers, i) == Offered(Sources[i], answers[i])

FoundSoFar(answers, found, i) ==
    /\ Keyed(found)
    /\ ToSet(found.postings) \subseteq UNION {OfferOf(answers, k) : k \in 1..i}
    /\ \A k \in 1..i : \A p \in OfferOf(answers, k) :
          \/ dedup_key(p) \in found.seen
          \/ Cardinality(ShareOf(p.source, found.postings)) = LimitPerSource

LEMMA OfferedByName ==
  ASSUME NEW source, NEW data, NEW p \in Offered(source, data)
  PROVE  p.source = source.name
  BY DEF Offered, JobPosting

LEMMA NextSource ==
  ASSUME NEW answers \in Boards, NEW P, NEW i \in DOMAIN answers,
         NEW found \in Accumulators(P), FoundSoFar(answers, found, i - 1),
         PostingsFrom(Sources[i], answers[i]) \subseteq P
  PROVE  /\ FromSource(found, fetch(Sources[i], answers[i])) \in Accumulators(P)
         /\ FoundSoFar(answers, FromSource(found, fetch(Sources[i], answers[i])), i)
<1> DEFINE source == Sources[i]
           data == answers[i]
           name == source.name
           ps == fetch(source, data)
           next == FromSource(found, ps)
           before == UNION {OfferOf(answers, k) : k \in 1..(i - 1)}
<1>1. /\ DOMAIN answers = 1..Len(answers) /\ Len(answers) \in Nat
      /\ DOMAIN answers \subseteq DOMAIN Sources
  BY BoardsAssumption
<1>2. i \in Nat /\ i - 1 \in Nat /\ \A k \in 1..i : k \in 1..(i - 1) \/ k = i
  BY <1>1
<1>3. \A k \in 1..(i - 1) : k \in DOMAIN Sources /\ Sources[k].name # name
  <2>1. \A k \in 1..(i - 1) : k \in DOMAIN answers /\ k # i
    BY <1>1
  <2> QED BY <1>1, <2>1, SourcesAssumption
<1>4. source.ats \in DOMAIN Shape
  BY <1>1, SourcesAssumption
<1>5. data # Failed => data.jobs \in Seq(ToSet(data.jobs)) /\ Failed \notin Seq(PostingsFrom(source, data))
  BY BoardsAssumption DEF PostingsFrom
<1>6. UNION {OfferOf(answers, k) : k \in 1..i} = before \cup OfferOf(answers, i)
  <2>1. i \in 1..i /\ \A k \in 1..(i - 1) : k \in 1..i
    BY <1>2
  <2> QED BY <1>2, <2>1
<1>7. OfferOf(answers, i) = Offered(source, data)
  BY DEF OfferOf
<1>8. Honest(source, data)
  BY <1>4, <1>5, Fetching
<1>9. CASE ps = Failed
  <2>1. next = found /\ OfferOf(answers, i) = {}
    BY <1>7, <1>8, <1>9 DEF Honest, FromSource
  <2>2. FoundSoFar(answers, found, i)
    BY <1>2, <1>6, <2>1 DEF FoundSoFar
  <2> QED BY <2>1, <2>2
<1>10. CASE ps # Failed
  <2>1. ps \in Seq(PostingsFrom(source, data)) /\ OfferOf(answers, i) = {p \in ToSet(ps) : is_relevant(p)}
    BY <1>7, <1>8, <1>10 DEF Honest
  <2>2. ps \in Seq(P) /\ ToSet(ps) \subseteq PostingsFrom(source, data)
    BY <2>1, ToSetFacts
  <2>3. \A p \in ToSet(ps) : p.source = name
    BY <2>2 DEF PostingsFrom, JobPosting
  <2>4. \A k \in 1..(i - 1) : \A p \in OfferOf(answers, k) : p.source # name
    BY <1>3, OfferedByName DEF OfferOf
  <2>5. ShareOf(name, found.postings) = {}
    <3>1. \A m \in DOMAIN found.postings : found.postings[m] \in before
      BY DEF FoundSoFar, ToSet
    <3>2. \A p \in before : p.source # name
      BY <2>4
    <3> QED BY <3>1, <3>2 DEF ShareOf
  <2>6. Keyed(found)
    BY DEF FoundSoFar
  <2> HIDE DEF next, ps, name, before, data, source
  <2>7. next \in Accumulators(P) /\ Taken(name, ps, found, next, Len(ps))
    BY <1>10, <2>2, <2>3, <2>5, <2>6, FromSourceKeeps DEF next
  <2>8. Keyed(next) /\ found.seen \subseteq next.seen
    BY <2>7 DEF Taken
  <2>9. ToSet(next.postings) \subseteq before \cup OfferOf(answers, i)
    <3>1. ToSet(next.postings) \subseteq ToSet(found.postings) \cup {p \in ToSet(ps) : is_relevant(p)}
      BY <2>7 DEF Taken
    <3>2. ToSet(found.postings) \subseteq before
      BY DEF FoundSoFar, before
    <3> QED BY <2>1, <3>1, <3>2
  <2>10. ASSUME NEW k \in 1..(i - 1), NEW p \in OfferOf(answers, k)
         PROVE  \/ dedup_key(p) \in next.seen
                \/ Cardinality(ShareOf(p.source, next.postings)) = LimitPerSource
    <3>1. ShareOf(p.source, next.postings) = ShareOf(p.source, found.postings)
      BY <2>4, <2>7 DEF Taken
    <3> QED BY <2>8, <3>1 DEF FoundSoFar
  <2>11. ASSUME NEW p \in OfferOf(answers, i)
         PROVE  \/ dedup_key(p) \in next.seen
                \/ Cardinality(ShareOf(p.source, next.postings)) = LimitPerSource
    <3>1. p \in ToSet(ps) /\ is_relevant(p)
      BY <2>1
    <3>2. PICK m \in 1..Len(ps) : p = ps[m]
      BY <2>2, <3>1, ToSetFacts
    <3>3. dedup_key(p) \in next.seen \/ next.kept = LimitPerSource
      BY <2>7, <3>1, <3>2 DEF Taken
    <3>4. next.kept = Cardinality(ShareOf(p.source, next.postings))
      BY <2>3, <2>7, <3>1 DEF Taken
    <3> QED BY <3>3, <3>4
  <2>12. FoundSoFar(answers, next, i)
    BY <1>2, <1>6, <2>8, <2>9, <2>10, <2>11 DEF FoundSoFar
  <2> QED BY <2>7, <2>12 DEF next, ps, source, data
<1> QED BY <1>9, <1>10

LEMMA FromSourceTypes ==
  ASSUME NEW P, NEW found \in Accumulators(P), NEW ps, ps = Failed \/ ps \in Seq(P)
  PROVE  FromSource(found, ps) \in Accumulators(P)
<1>1. CASE ps = Failed
  BY <1>1 DEF FromSource
<1>2. CASE ps # Failed
  <2> DEFINE n == Len(ps)
             first == [found EXCEPT !.kept = 0]
  <2>1. DOMAIN ps = 1..n /\ n \in Nat /\ \A m \in 1..n : ps[m] \in P
    BY <1>2
  <2>2. first \in Accumulators(P)
    BY DEF Accumulators
  <2>3. FromSource(found, ps) = FoldLeft(Keep, first, ps)
    BY <1>2 DEF FromSource
  <2> HIDE DEF n, first
  <2>4. \A a \in Accumulators(P) : \A m \in 1..n : Keep(a, ps[m]) \in Accumulators(P)
    BY <2>1, KeepTypes
  <2>5. PICK h : KeepSteps(Accumulators(P), first, n, ps, h)
    BY <2>1, <2>2, <2>4, FoldOfKeep
  <2> QED BY <2>3, <2>5 DEF KeepSteps
<1> QED BY <1>1, <1>2

(* Whatever the sources answer, discovery keeps its promise.               *)
LEMMA DiscoveryPromises ==
  ASSUME NEW answers \in Boards
  PROVE  Promised(answers, discover(answers))
<1> DEFINE n == Len(answers)
           P == UNION {PostingsFrom(Sources[i], answers[i]) : i \in DOMAIN answers}
           A == Accumulators(P)
           none == [seen |-> {}, kept |-> 0, postings |-> <<>>]
           s == [i \in DOMAIN answers |-> fetch(Sources[i], answers[i])]
<1>1. DOMAIN answers = 1..n /\ n \in Nat /\ DOMAIN answers \subseteq DOMAIN Sources
  BY BoardsAssumption
<1>2. DOMAIN s = 1..n /\ \A i \in 1..n : s[i] = fetch(Sources[i], answers[i])
  BY <1>1
<1>3. none \in A
  BY DEF Accumulators
<1>4. \A i \in 1..n : PostingsFrom(Sources[i], answers[i]) \subseteq P
  BY <1>1
<1> HIDE DEF n, P
<1>5. \A a \in A : \A i \in 1..n : FromSource(a, s[i]) \in A
  <2> TAKE a \in A
  <2> TAKE i \in 1..n
  <2>1. Honest(Sources[i], answers[i])
    <3>1. Sources[i].ats \in DOMAIN Shape
      BY <1>1, SourcesAssumption
    <3>2. answers[i] # Failed =>
             /\ answers[i].jobs \in Seq(ToSet(answers[i].jobs))
             /\ Failed \notin Seq(PostingsFrom(Sources[i], answers[i]))
      BY <1>1, BoardsAssumption DEF PostingsFrom
    <3> QED BY <3>1, <3>2, Fetching
  <2>2. s[i] = Failed \/ s[i] \in Seq(PostingsFrom(Sources[i], answers[i]))
    BY <1>2, <2>1 DEF Honest
  <2>3. s[i] = Failed \/ s[i] \in Seq(P)
    BY <1>4, <2>2
  <2> HIDE DEF s
  <2> QED BY <2>3, FromSourceTypes
<1> HIDE DEF A, s, none
<1>6. PICK h : SourceSteps(A, none, n, s, h)
  BY <1>1, <1>2, <1>3, <1>5, FoldOfSources
<1> DEFINE G == {i \in 0..n : FoundSoFar(answers, h[i], i)}
<1>7. 0 \in G
  <2>1. h[0] = none /\ 0 \in 0..n /\ 1..0 = {}
    BY <1>1, <1>6 DEF SourceSteps
  <2>2. FoundSoFar(answers, none, 0)
    BY <2>1 DEF FoundSoFar, none, Keyed, Keys, ToSet
  <2> QED BY <2>1, <2>2
<1>8. ASSUME NEW i \in 0..(n - 1), i \in G PROVE i + 1 \in G
  <2>1. i + 1 \in 1..n /\ (i + 1) - 1 = i /\ i + 1 \in 0..n
    BY <1>1
  <2>2. h[i] \in A /\ h[i + 1] = FromSource(h[i], s[i + 1])
    BY <1>6, <2>1 DEF SourceSteps
  <2>3. FoundSoFar(answers, h[i], (i + 1) - 1)
    BY <1>8, <2>1
  <2>4. i + 1 \in DOMAIN answers /\ PostingsFrom(Sources[i + 1], answers[i + 1]) \subseteq P
    BY <1>1, <1>4, <2>1
  <2>5. FoundSoFar(answers, FromSource(h[i], fetch(Sources[i + 1], answers[i + 1])), i + 1)
    BY <2>2, <2>3, <2>4, NextSource DEF A
  <2> QED BY <1>2, <2>1, <2>2, <2>5
<1>9. 0..n \subseteq G
  <2> HIDE DEF G
  <2> QED BY <1>1, <1>7, <1>8, UpTo
<1> DEFINE last == h[n]
           postings == last.postings
<1>10. FoundSoFar(answers, last, n) /\ last \in A
  BY <1>1, <1>6, <1>9 DEF SourceSteps
<1>11. discover(answers) = postings
  BY <1>6 DEF discover, SourceSteps, s, none
<1> HIDE DEF last
<1>12. postings \in Seq(P) /\ Keyed(last)
  BY <1>10 DEF A, Accumulators, FoundSoFar
<1>13. Cardinality(Keys(postings)) = Len(postings)
  <2> DEFINE len == Len(postings)
             f == [m \in 1..len |-> dedup_key(postings[m])]
  <2>1. len \in Nat /\ DOMAIN postings = 1..len /\ ToSet(postings) = {postings[m] : m \in 1..len}
    BY <1>12, ToSetFacts
  <2> HIDE DEF len
  <2>2. Keys(postings) = {dedup_key(postings[m]) : m \in 1..len}
    BY <2>1 DEF Keys
  <2>3. f \in Bijection(1..len, Keys(postings))
    <3>1. f \in [1..len -> Keys(postings)]
      BY <2>2
    <3>2. \A m, k \in 1..len : f[m] = f[k] => m = k
      BY <1>12, <2>1 DEF Keyed
    <3>3. \A key \in Keys(postings) : \E m \in 1..len : f[m] = key
      BY <2>2
    <3> HIDE DEF f
    <3> QED BY <3>1, <3>2, <3>3 DEF Bijection, Injection, Surjection, IsInjective
  <2>4. ExistsBijection(1..len, Keys(postings))
    BY <2>3 DEF ExistsBijection
  <2>5. Cardinality(Keys(postings)) = len
    BY <2>1, <2>4, FS_CountingElements
  <2> QED BY <2>5 DEF len
<1> DEFINE offer == UNION {Offered(Sources[i], answers[i]) : i \in DOMAIN answers}
<1>14. offer = UNION {OfferOf(answers, i) : i \in 1..n}
  BY <1>1 DEF OfferOf
<1>15. ToSet(postings) \subseteq offer
  BY <1>10, <1>14 DEF FoundSoFar
<1>16. \A p \in offer : \/ dedup_key(p) \in Keys(postings)
                        \/ Cardinality(ShareOf(p.source, postings)) = LimitPerSource
  BY <1>10, <1>12, <1>14 DEF FoundSoFar, Keyed
<1> HIDE DEF offer
<1> QED BY <1>11, <1>13, <1>15, <1>16 DEF Promised, offer

-----------------------------------------------------------------------------
(* A run carries what discovery made of its answers until it ends.         *)

Finding(r) == r.answers \in Boards /\ r.found = discover(r.answers)

Discovered == \A p \in Runners : pc[p] \in InRun => Finding(run[p])

LEMMA OthersKeepFindings ==
  ASSUME Discovered, NEW p \in Runners, pc'[p] \in InRun => Finding(run'[p]),
         \A q \in Runners \ {p} : run'[q] = run[q] /\ pc'[q] = pc[q]
  PROVE  Discovered'
<1>1. ASSUME NEW q \in Runners, pc'[q] \in InRun PROVE Finding(run'[q])
  <2>1. CASE q = p
    BY <1>1, <2>1
  <2>2. CASE q # p
    <3>1. run'[q] = run[q] /\ pc[q] \in InRun
      BY <1>1, <2>2
    <3> QED BY <3>1 DEF Discovered
  <2> QED BY <2>1, <2>2
<1>2. Discovered' <=> \A q \in Runners : pc'[q] \in InRun => Finding(run'[q])
  BY DEF Discovered, Finding
<1> QED BY <1>1, <1>2

LEMMA FindingKept ==
  ASSUME Shaped, Discovered, NEW p \in Runners, NEW next, NEW to,
         run' = [run EXCEPT ![p] = next], pc' = [pc EXCEPT ![p] = to],
         to \in InRun => Finding(next)
  PROVE  Discovered'
<1>1. /\ run'[p] = next /\ pc'[p] = to
      /\ \A q \in Runners \ {p} : run'[q] = run[q] /\ pc'[q] = pc[q]
  BY DEF Shaped
<1> QED BY <1>1, OthersKeepFindings

LEMMA OutOfARun ==
  ASSUME Shaped, Discovered, NEW p \in Runners, NEW to \in {"new", "done"},
         run' = run, pc' = [pc EXCEPT ![p] = to]
  PROVE  Discovered'
<1>1. pc'[p] = to /\ \A q \in Runners \ {p} : run'[q] = run[q] /\ pc'[q] = pc[q]
  BY DEF Shaped
<1>2. to \notin InRun
  BY DEF InRun
<1> QED BY <1>1, <1>2, OthersKeepFindings

LEMMA BeginFinds ==
  ASSUME Shaped, Discovered, NEW p \in Runners, Begin(p)
  PROVE  Discovered'
<1>1. PICK answers \in Boards :
         /\ run' = [run EXCEPT ![p] = [NoRun EXCEPT !.answers = answers, !.found = discover(answers)]]
         /\ pc' = [pc EXCEPT ![p] = IF discover(answers) = <<>> THEN "commit" ELSE "select"]
  BY DEF Begin, Answers
<1> DEFINE next == [NoRun EXCEPT !.answers = answers, !.found = discover(answers)]
<1>2. next.answers = answers /\ next.found = discover(answers)
  BY DEF NoRun
<1>3. run' = [run EXCEPT ![p] = next]
  BY <1>1
<1> HIDE DEF next
<1> QED BY <1>1, <1>2, <1>3, FindingKept DEF Finding

LEMMA EndKeepsFindings ==
  ASSUME Shaped, Discovered, NEW p \in Runners, run' = [run EXCEPT ![p] = NoRun], NEW to,
         pc' = [pc EXCEPT ![p] = to], to \notin InRun
  PROVE  Discovered'
  BY FindingKept

LEMMA FailureKeepsFindings ==
  ASSUME Shaped, Discovered, NEW p \in Runners, RunFails(p)
  PROVE  Discovered'
<1>1. /\ run' = [run EXCEPT ![p] = NoRun]
      /\ pc' = [pc EXCEPT ![p] = IF p = Manual THEN "none" ELSE "sleep"]
  BY DEF RunFails, Ends
<1>2. (IF p = Manual THEN "none" ELSE "sleep") \notin InRun
  BY DEF InRun
<1> QED BY <1>1, <1>2, EndKeepsFindings

LEMMA StatementKeepsFindings ==
  ASSUME Shaped, Discovered, NEW p \in Runners, Statement(p)
  PROVE  Discovered'
<1>1. pc[p] \in InRun => Finding(run[p])
  BY DEF Discovered
<1>2. CASE get_by_external_ref(p)
  <2> DEFINE next == [run[p] EXCEPT !.absent = Ref(p) \notin DOMAIN rows \cup DOMAIN run[p].txn]
  <2>1. run' = [run EXCEPT ![p] = next] /\ pc' = [pc EXCEPT ![p] = "flush"] /\ pc[p] \in InRun
    BY <1>2 DEF get_by_external_ref, InRun
  <2>2. next.answers = run[p].answers /\ next.found = run[p].found
    BY DEF Shaped, RunFields
  <2> HIDE DEF next
  <2>3. Finding(next)
    BY <1>1, <2>1, <2>2 DEF Finding
  <2> QED BY <2>1, <2>3, FindingKept
<1>3. CASE flush(p)
  <2>1. pc[p] \in InRun
    BY <1>3 DEF flush, InRun
  <2>2. CASE RunFails(p)
    BY <2>2, FailureKeepsFindings
  <2>3. CASE Stored(p)
    <3> DEFINE written == Over([ref \in {Ref(p)} |-> dedup_key(Posting(p))], run[p].txn)
               created == IF run[p].absent THEN run[p].made \cup {Ref(p)} ELSE run[p].made
               next == [run[p] EXCEPT !.stored = run[p].stored + 1, !.txn = written, !.made = created]
    <3>1. run' = [run EXCEPT ![p] = next]
      BY <2>3 DEF Stored
    <3>2. PICK to : pc' = [pc EXCEPT ![p] = to]
      BY <2>3 DEF Stored
    <3> HIDE DEF written, created
    <3>3. next.answers = run[p].answers /\ next.found = run[p].found
      BY DEF Shaped, RunFields
    <3> HIDE DEF next
    <3>4. Finding(next)
      BY <1>1, <2>1, <3>3 DEF Finding
    <3> QED BY <3>1, <3>2, <3>4, FindingKept
  <2> QED BY <1>3, <2>2, <2>3 DEF flush
<1>4. CASE Deadlock(p)
  BY <1>4, FailureKeepsFindings DEF Deadlock
<1>5. CASE Commit(p)
  <2>1. /\ run' = [run EXCEPT ![p] = NoRun]
        /\ pc' = [pc EXCEPT ![p] = IF p = Manual THEN "none" ELSE "sleep"]
    BY <1>5 DEF Commit, Ends
  <2>2. (IF p = Manual THEN "none" ELSE "sleep") \notin InRun
    BY DEF InRun
  <2> QED BY <2>1, <2>2, EndKeepsFindings
<1> QED BY <1>2, <1>3, <1>4, <1>5 DEF Statement

LEMMA CallerKeepsFindings ==
  ASSUME Shaped, Discovered, start \/ stop \/ StopReturns
  PROVE  Discovered'
<1>1. CASE start
  <2>1. PICK l \in Loops : pc[l] = "none" /\ pc' = [pc EXCEPT ![l] = "new"] /\ run' = run
    BY <1>1 DEF start, Spawn
  <2> QED BY <2>1, OutOfARun DEF Runners
<1>2. CASE stop \/ StopReturns
  <2>1. run' = run /\ pc' = pc
    BY <1>2 DEF stop, StopReturns
  <2> QED BY <2>1 DEF Discovered, Finding
<1> QED BY <1>1, <1>2

LEMMA FindingsInductive == IInv /\ Discovered /\ [Next]_vars => Discovered'
<1> SUFFICES ASSUME IInv, Discovered, [Next]_vars PROVE Discovered'
  OBVIOUS
<1>1. Shaped
  BY DEF IInv
<1>2. CASE start \/ stop \/ StopReturns
  BY <1>1, <1>2, CallerKeepsFindings
<1>3. CASE run_once
  BY <1>1, <1>3, BeginFinds DEF run_once, Runners
<1>4. ASSUME NEW p \in Runners, Statement(p) \/ DatabaseError(p) PROVE Discovered'
  BY <1>1, <1>4, StatementKeepsFindings, FailureKeepsFindings DEF DatabaseError
<1>5. ASSUME NEW l \in Loops, _loop(l) PROVE Discovered'
  <2>1. l \in Runners
    BY DEF Runners
  <2>2. CASE running
    BY <1>1, <1>5, <2>1, <2>2, BeginFinds DEF _loop
  <2>3. CASE ~running
    <3>1. pc' = [pc EXCEPT ![l] = "done"] /\ run' = run
      BY <1>5, <2>3 DEF _loop
    <3> QED BY <1>1, <2>1, <3>1, OutOfARun
  <2> QED BY <2>2, <2>3
<1>6. ASSUME NEW l \in Loops, CancelledError(l) PROVE Discovered'
  <2>1. pc' = [pc EXCEPT ![l] = "done"] /\ run' = [run EXCEPT ![l] = NoRun] /\ l \in Runners
    BY <1>6 DEF CancelledError, Runners
  <2>2. "done" \notin InRun
    BY DEF InRun
  <2> QED BY <1>1, <2>1, <2>2, EndKeepsFindings
<1>7. CASE UNCHANGED vars
  BY <1>7 DEF vars, Discovered, Finding
<1> QED BY <1>2, <1>3, <1>4, <1>5, <1>6, <1>7 DEF Next

(* A failing source costs only its own postings: whatever the sources of   *)
(* any registry answer, what every run upserts is what discovery promises. *)
THEOREM AlwaysIsolated == Spec => []DiscoveryIsIsolated
<1>1. Init => Discovered
  BY DEF Init, Discovered, InRun
<1>2. Discovered => DiscoveryIsIsolated
  BY DiscoveryPromises DEF Discovered, Finding, DiscoveryIsIsolated
<1> QED BY <1>1, <1>2, FindingsInductive, AlwaysInductive, PTL DEF Spec
=============================================================================
