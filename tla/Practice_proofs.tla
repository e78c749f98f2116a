---------------------------- MODULE Practice_proofs ----------------------------
(***************************************************************************)
(* For any requests, jobs, tables to start from and number of faults: the  *)
(* requests of a day keep the books of Desk (a request files and announces *)
(* all it reports, or nothing), conversations hold whole turns, what the   *)
(* twin was confirmed to have learned it has learned, a check-in that was  *)
(* confirmed stays the day's only one, an application is sent with the     *)
(* resume it was scored with, and a skill the user was told of stays.      *)
(***************************************************************************)
EXTENDS Practice, SequenceTheorems, FiniteSetTheorems, TLAPS

Locals == {"at", "resume", "guess", "copy", "match", "todo", "queued", "told",
           "skipped", "aborted"}
Filed == {"app", "note"}                       \* the tables of the books
Applying == {"resume", "score", "file", "tell"}

(* How far request p has come in table t.                                  *)
Reached(p, t) == IF t = "app" /\ h[p].at = "tell" THEN h[p].queued + 1 ELSE h[p].queued

(* What an open transaction holds for the books: rows that are there       *)
(* already, which it marks read, and the request's own, all it has filed.  *)
Ledger(p) ==
  /\ \A i \in DOMAIN edits[p] :
       i[1] \in Filed =>
         /\ DOMAIN edits[p][i] # {}
         /\ i \in DOMAIN rows \/ \E k \in 1..Reached(p, i[1]) : i = <<i[1], p, k>>
  /\ h[p].at # "done" /\ p \notin dead =>
       \A t \in Filed : \A k \in 1..Reached(p, t) : <<t, p, k>> \in DOMAIN edits[p]
  /\ h[p].at # "done" => \A i \in DOMAIN rows : i[1] \in Filed => i[2] # p

(* What a request's statement says of its locals and of what it asks.      *)
Queue(p) ==
  /\ h[p].queued \in 0..MaxApplications
  /\ h[p].at \notin Applying \cup {"commit", "done"} => h[p].queued = 0
  /\ h[p].at \in Applying =>
       \/ Does(p) = "approve" /\ h[p].queued = 0
       \/ /\ Does(p) = "auto" /\ h[p].todo # <<>> /\ \E S : h[p].todo \in Seq(S)
          /\ h[p].queued + Len(h[p].todo) <= MaxApplications

AskedBy(at, do) ==
  /\ at = "agent" => do = "auto"
  /\ at = "clear" => do \in {"upload", "set_primary"}
  /\ at = "notes" => do \in {"mark_read", "mark_all_read"}
  /\ at = "update" => do \in {"upload", "set_primary", "mark_read", "mark_all_read"}
  /\ at = "find" => do \in {"set_primary", "delete", "rewrite"}
  /\ at = "promote" => do = "set_primary"
  /\ at = "delete" => do = "delete"
  /\ at \in {"session", "remember"} => do = "evaluate"
  /\ at \in {"feed", "result"} => do \in {"evaluate", "judge"}
  /\ at = "ask" => do = "advise"
  /\ at = "count" => do = "summarize"
  /\ at \in {"capture", "shadow", "context"} => do = "chat"
  /\ at = "answer" => do = "advise"
  /\ at = "turns" => do = "clear"
  /\ at \in {"day", "checkin", "streak"} => do = "checkin"
  /\ at \in {"event", "lesson", "strengths", "confidence"} => do = "feedback"
  /\ at \in {"skills", "flush"} => do = "verify"
  /\ at = "insert" => do \in {"upload", "rewrite"}
  /\ at \in {"parse", "select", "profile", "save"} => do = "upload"
  /\ at = "model" => do \in {"advise", "judge", "agent", "chat", "summarize"}
Asker(p) ==
  /\ h[p].at \notin {"arrived", "done"} => call[p] # None
  /\ AskedBy(h[p].at, Does(p))

Matchable(p, i) ==
  IF Does(p) \in {"upload", "set_primary"} THEN i[1] = "resume" ELSE i[1] = "note" /\ i \in DOMAIN rows
Held(p) ==
  /\ h[p].at = "update" => \A i \in h[p].match : Matchable(p, i)
  /\ h[p].at = "flush" => h[p].resume[1] = "resume"
  /\ h[p].at = "checkin" => \A x \in h[p].copy : x[1][1] = "checkin"

(* Whose transaction the database may have given up, and what it claims.   *)
Spoilt(p) ==
  /\ h[p].skipped \in BOOLEAN
  /\ h[p].aborted => \/ h[p].skipped /\ Does(p) = "auto"
                     \/ h[p].at \in {"commit", "done"} /\ h[p].queued = 0 /\ Does(p) = "chat"

Place(p) ==
  /\ DOMAIN h[p] = Locals
  /\ Queue(p) /\ Asker(p) /\ Held(p) /\ Spoilt(p)
  /\ h[p].at # "done" => answer[p] = None
  /\ p \in open => h[p].at # "done"

Asked ==
  \A p \in Requests : call[p] # None =>
    /\ Does(p) \in Applies \cup DOMAIN FirstOf
    /\ Does(p) \in {"set_primary", "delete", "rewrite"} => call[p].id[1] = "resume"
    /\ Does(p) = "evaluate" => call[p].id[1] = "interview"
    /\ Does(p) = "checkin" => call[p].tasks \in Nat

RowsOK == \A i \in DOMAIN rows : i[1] \in Filed => DOMAIN rows[i] # {} /\ i[2] \in Nat
Domains == DOMAIN h = Requests /\ DOMAIN edits = Requests /\ DOMAIN answer = Requests

IInv == Domains /\ Asked /\ RowsOK /\ \A p \in Requests : Ledger(p) /\ Place(p)

-----------------------------------------------------------------------------
(* Rows.                                                                   *)

LEMMA OverFacts ==
  ASSUME NEW new, NEW old
  PROVE  /\ DOMAIN Over(new, old) = DOMAIN new \cup DOMAIN old
         /\ \A i \in DOMAIN new : Over(new, old)[i] = new[i]
         /\ \A i \in DOMAIN old \ DOMAIN new : Over(new, old)[i] = old[i]
  BY DEF Over

LEMMA ViewFacts ==
  ASSUME NEW p \in Requests
  PROVE  /\ DOMAIN View(p) \subseteq DOMAIN edits[p] \cup DOMAIN rows
         /\ \A i \in DOMAIN View(p) :
              /\ View(p)[i] # Gone
              /\ View(p)[i] = IF i \in DOMAIN edits[p] THEN edits[p][i] ELSE rows[i]
         /\ \A i \in DOMAIN edits[p] : edits[p][i] # Gone => i \in DOMAIN View(p)
         /\ \A i \in DOMAIN rows \ DOMAIN edits[p] : rows[i] # Gone => i \in DOMAIN View(p)
<1> DEFINE all == Over(edits[p], rows)
<1>1. /\ DOMAIN all = DOMAIN edits[p] \cup DOMAIN rows
      /\ \A i \in DOMAIN all : all[i] = IF i \in DOMAIN edits[p] THEN edits[p][i] ELSE rows[i]
  BY DEF Over
<1>2. View(p) = [i \in {k \in DOMAIN all : all[k] # Gone} |-> all[i]]
  BY DEF View
<1> HIDE DEF all
<1> QED BY <1>1, <1>2

LEMMA NotGone == \A x : DOMAIN x # {} => x # Gone
  BY DEF Gone

(* The books of a table the transaction of p looks at: nothing is missing. *)
LEMMA ViewOfBooks ==
  ASSUME IInv, NEW p \in Requests, NEW i, i[1] \in Filed
  PROVE  /\ i \in DOMAIN View(p) <=> i \in DOMAIN edits[p] \cup DOMAIN rows
         /\ i \in DOMAIN View(p) => DOMAIN View(p)[i] # {}
  BY ViewFacts, NotGone DEF IInv, Ledger, RowsOK

-----------------------------------------------------------------------------
(* Steps of one request.                                                   *)

(* The others keep their transactions, and of the books only rows of the   *)
(* request are new.                                                        *)
LEMMA OneRequest ==
  ASSUME IInv, NEW p \in Requests, call' = call,
         DOMAIN h' = Requests, DOMAIN edits' = Requests, DOMAIN answer' = Requests,
         \A q \in Requests \ {p} :
            /\ h'[q] = h[q] /\ answer'[q] = answer[q] /\ edits'[q] = edits[q]
            /\ (q \in dead' <=> q \in dead) /\ (q \in open' => q \in open),
         RowsOK',
         \A i \in DOMAIN rows : i[1] \in Filed => i \in DOMAIN rows',
         \A i \in DOMAIN rows' : i[1] \in Filed => i \in DOMAIN rows \/ i[2] = p,
         Ledger(p)', Place(p)'
  PROVE  IInv'
<1>1. ASSUME NEW q \in Requests \ {p} PROVE Ledger(q)'
  <2>1. h'[q] = h[q] /\ edits'[q] = edits[q] /\ (q \in dead' <=> q \in dead) /\ Ledger(q)
    BY DEF IInv
  <2>2. \A t : Reached(q, t)' = Reached(q, t)
    BY <2>1 DEF Reached
  <2>3. ASSUME NEW i \in DOMAIN edits'[q], i[1] \in Filed
        PROVE  /\ DOMAIN edits'[q][i] # {}
               /\ i \in DOMAIN rows' \/ \E k \in 1..Reached(q, i[1])' : i = <<i[1], q, k>>
    BY <2>1, <2>2, <2>3 DEF Ledger
  <2>4. ASSUME h'[q].at # "done", q \notin dead', NEW t \in Filed, NEW k \in 1..Reached(q, t)'
        PROVE  <<t, q, k>> \in DOMAIN edits'[q]
    BY <2>1, <2>2, <2>4 DEF Ledger
  <2>5. h'[q].at # "done" => \A i \in DOMAIN rows' : i[1] \in Filed => i[2] # q
    BY <2>1 DEF Ledger
  <2> QED BY <2>3, <2>4, <2>5 DEF Ledger
<1>2. ASSUME NEW q \in Requests \ {p} PROVE Place(q)'
  <2>1. /\ h'[q] = h[q] /\ answer'[q] = answer[q] /\ (q \in open' => q \in open)
        /\ Place(q) /\ Does(q)' = Does(q)
    BY DEF IInv, Does
  <2>2. Queue(q)' /\ Asker(q)'
    BY <2>1 DEF Place, Queue, Asker
  <2>3. Held(q)'
    BY <2>1 DEF Place, Held, Matchable, Filed
  <2>4. Spoilt(q)'
    BY <2>1 DEF Place, Spoilt
  <2> QED BY <2>1, <2>2, <2>3, <2>4 DEF Place
<1>3. Asked'
  BY DEF IInv, Asked, Does
<1> QED BY <1>1, <1>2, <1>3 DEF IInv, Domains

(* What a statement may do to the session that leaves the books alone.     *)
Quietly(p) ==
  /\ rows' = rows /\ DOMAIN edits' = Requests
  /\ \A q \in Requests \ {p} :
        edits'[q] = edits[q] /\ (q \in dead' <=> q \in dead) /\ (q \in open' => q \in open)
  /\ \A i \in DOMAIN edits'[p] :
        i[1] \in Filed => DOMAIN edits'[p][i] # {} /\ i \in DOMAIN edits[p] \cup DOMAIN rows
  /\ p \notin dead' => p \notin dead /\ DOMAIN edits[p] \subseteq DOMAIN edits'[p]

(* What a statement leaves to the answer.                                  *)
SameMarks(p, next) ==
  next.queued = h[p].queued /\ next.skipped = h[p].skipped /\ next.aborted = h[p].aborted

LEMMA StillSpoilt ==
  ASSUME IInv, NEW p \in Requests, call' = call, h[p].at \notin {"commit", "done"},
         h'[p].skipped = h[p].skipped, h'[p].aborted = h[p].aborted
  PROVE  Spoilt(p)'
<1>1. Does(p)' = Does(p) /\ Spoilt(p)
  BY DEF IInv, Place, Does
<1> QED BY <1>1 DEF Spoilt

LEMMA QuietStep ==
  ASSUME IInv, NEW p \in Requests, Quietly(p), NEW next, h' = [h EXCEPT ![p] = next],
         UNCHANGED <<call, answer>>, DOMAIN next = Locals, next.queued = h[p].queued,
         h[p].at # "done", next.at \notin {"done", "tell"},
         h[p].at = "tell" => DOMAIN edits'[p] = {} /\ p \in dead',
         Queue(p)', Asker(p)', Held(p)', Spoilt(p)'
  PROVE  IInv' /\ UNCHANGED <<rows, answer>>
<1>1. /\ DOMAIN h' = Requests /\ h'[p] = next /\ \A q \in Requests \ {p} : h'[q] = h[q]
      /\ DOMAIN answer = Requests /\ Ledger(p) /\ Place(p)
  BY DEF IInv, Domains
<1>2. \A t : Reached(p, t)' = h[p].queued
  BY <1>1 DEF Reached
<1>3. h[p].at # "tell" => \A t : Reached(p, t) = h[p].queued
  BY DEF Reached
<1>4. rows' = rows
  BY DEF Quietly
<1>5. Ledger(p)'
  <2>1. ASSUME NEW i \in DOMAIN edits'[p], i[1] \in Filed
        PROVE  /\ DOMAIN edits'[p][i] # {}
               /\ i \in DOMAIN rows' \/ \E k \in 1..Reached(p, i[1])' : i = <<i[1], p, k>>
    BY <1>1, <1>2, <1>3, <1>4, <2>1 DEF Quietly, Ledger
  <2>2. ASSUME p \notin dead', NEW t \in Filed, NEW k \in 1..Reached(p, t)'
        PROVE  <<t, p, k>> \in DOMAIN edits'[p]
    BY <1>1, <1>2, <1>3, <2>2 DEF Quietly, Ledger
  <2>3. \A i \in DOMAIN rows' : i[1] \in Filed => i[2] # p
    BY <1>1, <1>4 DEF Ledger
  <2> QED BY <2>1, <2>2, <2>3 DEF Ledger
<1>6. Place(p)'
  BY <1>1 DEF Place
<1>7. RowsOK'
  BY <1>4 DEF IInv, RowsOK
<1>8. \A q \in Requests \ {p} :
         /\ h'[q] = h[q] /\ answer'[q] = answer[q] /\ edits'[q] = edits[q]
         /\ (q \in dead' <=> q \in dead) /\ (q \in open' => q \in open)
  BY <1>1 DEF Quietly
<1>9. DOMAIN edits' = Requests /\ DOMAIN answer' = Requests
  BY <1>1 DEF Quietly
<1> QED BY <1>1, <1>4, <1>5, <1>6, <1>7, <1>8, <1>9, OneRequest

-----------------------------------------------------------------------------
(* The session's operations.                                               *)

LEMMA QuietSessions ==
  ASSUME IInv, NEW p \in Requests, Reads(p) \/ Begins(p) \/ Dies(p)
  PROVE  Quietly(p)
<1>1. \A i \in DOMAIN edits[p] : i[1] \in Filed => DOMAIN edits[p][i] # {}
  BY DEF IInv, Ledger
<1>2. DOMAIN edits = Requests
  BY DEF IInv, Domains
<1>3. CASE Reads(p) \/ Begins(p)
  BY <1>1, <1>2, <1>3 DEF Reads, session, Begins, Quietly
<1>4. CASE Dies(p)
  <2>1. /\ edits'[p] = Nothing /\ DOMAIN edits' = Requests /\ DOMAIN Nothing = {}
        /\ \A q \in Requests \ {p} : edits'[q] = edits[q]
    BY <1>2, <1>4 DEF Dies, Nothing
  <2> QED BY <1>4, <2>1 DEF Dies, Quietly
<1> QED BY <1>3, <1>4

(* A row of another table, or one that is there and stays.                 *)
LEMMA QuietWrites ==
  ASSUME IInv, NEW p \in Requests, NEW i, NEW row, Write(p, i, row),
         i[1] \in Filed => DOMAIN row # {} /\ i \in DOMAIN rows
  PROVE  Quietly(p)
<1> DEFINE new == Over([k \in {i} |-> row], edits[p])
<1>1. /\ edits' = [edits EXCEPT ![p] = new] /\ UNCHANGED <<rows, dead, open, overlap>> /\ p \notin dead
  BY DEF Write
<1>2. DOMAIN edits = Requests /\ \A k \in DOMAIN edits[p] : k[1] \in Filed => DOMAIN edits[p][k] # {}
  BY DEF IInv, Domains, Ledger
<1>3. /\ DOMAIN new = {i} \cup DOMAIN edits[p]
      /\ new[i] = row /\ \A k \in DOMAIN edits[p] : k # i => new[k] = edits[p][k]
  BY DEF Over
<1> HIDE DEF new
<1>4. /\ edits'[p] = new /\ DOMAIN edits' = Requests
      /\ \A q \in Requests \ {p} : edits'[q] = edits[q]
  BY <1>1, <1>2
<1>5. \A k \in DOMAIN new : k[1] \in Filed => DOMAIN new[k] # {} /\ k \in DOMAIN edits[p] \cup DOMAIN rows
  BY <1>2, <1>3
<1> QED BY <1>1, <1>3, <1>4, <1>5 DEF Quietly

(* Who ends gives up its transaction.                                      *)
LEMMA Closing ==
  ASSUME IInv, NEW p \in Requests, Closes(p), NEW a, Ends(p, a)
  PROVE  /\ DOMAIN h' = Requests /\ DOMAIN edits' = Requests /\ DOMAIN answer' = Requests
         /\ call' = call /\ h'[p].at = "done" /\ DOMAIN edits'[p] = {} /\ p \notin open'
         /\ DOMAIN h'[p] = Locals /\ SameMarks(p, h'[p])
         /\ \A q \in Requests \ {p} :
              /\ h'[q] = h[q] /\ answer'[q] = answer[q] /\ edits'[q] = edits[q]
              /\ (q \in dead' <=> q \in dead) /\ (q \in open' => q \in open)
<1>1. DOMAIN h = Requests /\ DOMAIN edits = Requests /\ DOMAIN answer = Requests /\ DOMAIN h[p] = Locals
  BY DEF IInv, Domains, Place
<1> DEFINE next == [h[p] EXCEPT !.at = "done"]
<1>2. next.at = "done" /\ DOMAIN next = Locals /\ SameMarks(p, next)
  BY <1>1 DEF Locals, SameMarks
<1>3. h' = [h EXCEPT ![p] = next] /\ call' = call /\ answer' = [answer EXCEPT ![p] = a]
  BY DEF Ends
<1> HIDE DEF next
<1>4. DOMAIN Nothing = {}
  BY DEF Nothing
<1>5. edits' = [edits EXCEPT ![p] = Nothing] /\ dead' = dead \ {p} /\ open' = open \ {p}
  BY DEF Closes
<1> QED BY <1>1, <1>2, <1>3, <1>4, <1>5

LEMMA EndedPlace ==
  ASSUME IInv, NEW p \in Requests, DOMAIN h'[p] = Locals, h'[p].at = "done",
         SameMarks(p, h'[p]), call' = call, p \notin open'
  PROVE  Place(p)'
<1>1. h[p].queued \in 0..MaxApplications /\ Spoilt(p)
  BY DEF IInv, Place, Queue
<1>2. Spoilt(p)'
  BY <1>1 DEF Spoilt, SameMarks, Does
<1> QED BY <1>1, <1>2 DEF Place, Queue, Asker, AskedBy, Held, Applying, SameMarks

(* A request that ends without a commit: the desk refuses it.              *)
LEMMA RolledBack ==
  ASSUME IInv, NEW p \in Requests, h[p].at # "done",
         RollsBack(p), Ends(p, Refused)
  PROVE  IInv' /\ Books!Refuse(p)
<1>1. Closes(p) /\ rows' = rows
  BY DEF RollsBack
<1>2. /\ DOMAIN h' = Requests /\ DOMAIN edits' = Requests /\ DOMAIN answer' = Requests
      /\ call' = call /\ h'[p].at = "done" /\ DOMAIN edits'[p] = {} /\ p \notin open'
      /\ DOMAIN h'[p] = Locals /\ SameMarks(p, h'[p])
      /\ \A q \in Requests \ {p} :
           /\ h'[q] = h[q] /\ answer'[q] = answer[q] /\ edits'[q] = edits[q]
           /\ (q \in dead' <=> q \in dead) /\ (q \in open' => q \in open)
  BY <1>1, Closing
<1>3. Ledger(p)'
  BY <1>2 DEF Ledger
<1>4. Place(p)'
  BY <1>2, EndedPlace
<1>5. RowsOK'
  BY <1>1 DEF IInv, RowsOK
<1>6. IInv'
  BY <1>1, <1>2, <1>3, <1>4, <1>5, OneRequest
<1>7. answer[p] = None
  BY DEF IInv, Place
<1>8. UNCHANGED <<Ids("app"), Ids("note")>>
  BY <1>1 DEF Ids, Table
<1> QED BY <1>6, <1>7, <1>8 DEF Books!Refuse, Books!Refused, Refused, Ends

(* What a commit adds to a table of the books.                             *)
LEMMA CommittedBooks ==
  ASSUME IInv, NEW p \in Requests, p \notin dead, h[p].at = "commit", rows' = View(p)
  PROVE  /\ RowsOK'
         /\ \A i : i[1] \in Filed =>
               (i \in DOMAIN rows' <=>
                  i \in DOMAIN rows \/ \E k \in 1..h[p].queued : i = <<i[1], p, k>>)
<1>1. \A t : Reached(p, t) = h[p].queued
  BY DEF Reached
<1>2. ASSUME NEW i, i[1] \in Filed
      PROVE  i \in DOMAIN rows' <=>
                i \in DOMAIN rows \/ \E k \in 1..h[p].queued : i = <<i[1], p, k>>
  <2>1. i \in DOMAIN rows' <=> i \in DOMAIN edits[p] \cup DOMAIN rows
    BY <1>2, ViewOfBooks
  <2>2. ASSUME i \in DOMAIN edits[p]
        PROVE  i \in DOMAIN rows \/ \E k \in 1..h[p].queued : i = <<i[1], p, k>>
    BY <1>1, <1>2, <2>2 DEF IInv, Ledger
  <2>3. ASSUME NEW k \in 1..h[p].queued, i = <<i[1], p, k>>
        PROVE  i \in DOMAIN edits[p]
    <3>1. <<i[1], p, k>> \in DOMAIN edits[p]
      BY <1>1, <1>2 DEF IInv, Ledger
    <3> QED BY <2>3, <3>1
  <2> QED BY <2>1, <2>2, <2>3
<1>3. ASSUME NEW i \in DOMAIN rows', i[1] \in Filed
      PROVE  DOMAIN rows'[i] # {} /\ i[2] \in Nat
  <2>1. DOMAIN rows'[i] # {}
    BY <1>3, ViewOfBooks
  <2>2. i \in DOMAIN rows \/ i[2] = p
    BY <1>2, <1>3
  <2>3. p \in Nat
    BY RequestsAssumption
  <2> QED BY <2>1, <2>2, <2>3, <1>3 DEF IInv, RowsOK
<1> QED BY <1>2, <1>3 DEF RowsOK

LEMMA CommittedIds ==
  ASSUME IInv, NEW p \in Requests, p \notin dead, h[p].at = "commit", rows' = View(p),
         NEW t \in Filed
  PROVE  Ids(t)' = Ids(t) \cup {<<p, k>> : k \in 1..h[p].queued}
<1>1. \A i : i[1] = t =>
         (i \in DOMAIN rows' <=> i \in DOMAIN rows \/ \E k \in 1..h[p].queued : i = <<t, p, k>>)
  BY CommittedBooks
<1>2. p \in Nat /\ p > 0
  BY RequestsAssumption
<1>3. ASSUME NEW x \in Ids(t)' PROVE x \in Ids(t) \cup {<<p, k>> : k \in 1..h[p].queued}
  <2>1. PICK i \in DOMAIN rows' : i[1] = t /\ i[2] > 0 /\ x = <<i[2], i[3]>>
    BY <1>3 DEF Ids, Table
  <2> QED BY <1>1, <2>1 DEF Ids, Table
<1>4. ASSUME NEW x \in Ids(t) PROVE x \in Ids(t)'
  <2>1. PICK i \in DOMAIN rows : i[1] = t /\ i[2] > 0 /\ x = <<i[2], i[3]>>
    BY <1>4 DEF Ids, Table
  <2> QED BY <1>1, <2>1 DEF Ids, Table
<1>5. ASSUME NEW k \in 1..h[p].queued PROVE <<p, k>> \in Ids(t)'
  <2>1. <<t, p, k>> \in DOMAIN rows'
    BY <1>1
  <2> QED BY <1>2, <2>1 DEF Ids, Table
<1> QED BY <1>3, <1>4, <1>5

(* A request whose commit takes effect: the desk serves it, whatever it is *)
(* answered.                                                               *)
LEMMA Committed ==
  ASSUME IInv, NEW p \in Requests, h[p].at = "commit", Commits(p), NEW a \in {Refused, Served(p)},
         Ends(p, a)
  PROVE  IInv' /\ Books!Serve(p)
<1>1. Closes(p) /\ rows' = View(p) /\ p \notin dead
  BY DEF Commits
<1>2. /\ DOMAIN h' = Requests /\ DOMAIN edits' = Requests /\ DOMAIN answer' = Requests
      /\ call' = call /\ h'[p].at = "done" /\ DOMAIN edits'[p] = {} /\ p \notin open'
      /\ DOMAIN h'[p] = Locals /\ SameMarks(p, h'[p])
      /\ \A q \in Requests \ {p} :
           /\ h'[q] = h[q] /\ answer'[q] = answer[q] /\ edits'[q] = edits[q]
           /\ (q \in dead' <=> q \in dead) /\ (q \in open' => q \in open)
  BY <1>1, Closing
<1>3. Ledger(p)'
  BY <1>2 DEF Ledger
<1>4. Place(p)'
  BY <1>2, EndedPlace
<1>5. /\ RowsOK'
      /\ \A i \in DOMAIN rows : i[1] \in Filed => i \in DOMAIN rows'
      /\ \A i \in DOMAIN rows' : i[1] \in Filed => i \in DOMAIN rows \/ i[2] = p
  BY <1>1, CommittedBooks
<1>6. IInv'
  BY <1>2, <1>3, <1>4, <1>5, OneRequest
<1>7. answer[p] = None /\ h[p].queued \in 0..MaxApplications /\ h[p].skipped \in BOOLEAN
  BY DEF IInv, Place, Queue, Spoilt
<1>8. /\ Ids("app")' = Ids("app") \cup {<<p, k>> : k \in 1..h[p].queued}
      /\ Ids("note")' = Ids("note") \cup {<<p, k>> : k \in 1..h[p].queued}
  BY <1>1, CommittedIds DEF Filed
<1>9. PICK ok \in BOOLEAN : a = IF ok THEN Served(p) ELSE Refused
  <2>1. Served(p) = (IF TRUE THEN Served(p) ELSE Refused) /\ Refused = (IF FALSE THEN Served(p) ELSE Refused)
    OBVIOUS
  <2> QED BY <2>1
<1>10. answer' = [answer EXCEPT ![p] = IF ok THEN Served(p) ELSE Refused]
  BY <1>9 DEF Ends
<1> QED BY <1>6, <1>7, <1>8, <1>10 DEF Books!Serve, Books!Refused, Refused, Served

(* A commit of a transaction that is gone: the desk misleads, or serves    *)
(* somebody who filed nothing.                                             *)
LEMMA Vanished ==
  ASSUME IInv, NEW p \in Requests, CommitVanishes(p)
  PROVE  IInv' /\ (Books!Serve(p) \/ Books!Mislead(p))
<1>1. Closes(p) /\ rows' = rows /\ Ends(p, Served(p)) /\ h[p].at = "commit" /\ h[p].aborted
  BY DEF CommitVanishes, RollsBack
<1>2. /\ DOMAIN h' = Requests /\ DOMAIN edits' = Requests /\ DOMAIN answer' = Requests
      /\ call' = call /\ h'[p].at = "done" /\ DOMAIN edits'[p] = {} /\ p \notin open'
      /\ DOMAIN h'[p] = Locals /\ SameMarks(p, h'[p])
      /\ \A q \in Requests \ {p} :
           /\ h'[q] = h[q] /\ answer'[q] = answer[q] /\ edits'[q] = edits[q]
           /\ (q \in dead' <=> q \in dead) /\ (q \in open' => q \in open)
  BY <1>1, Closing
<1>3. Ledger(p)'
  BY <1>2 DEF Ledger
<1>4. Place(p)'
  BY <1>2, EndedPlace
<1>5. RowsOK'
  BY <1>1 DEF IInv, RowsOK
<1>6. IInv'
  BY <1>1, <1>2, <1>3, <1>4, <1>5, OneRequest
<1>7. /\ answer[p] = None /\ h[p].queued \in 0..MaxApplications
      /\ h[p].skipped \in BOOLEAN /\ (h[p].skipped \/ h[p].queued = 0)
  BY <1>1 DEF IInv, Place, Queue, Spoilt
<1>8. Ids("app")' = Ids("app") /\ Ids("note")' = Ids("note")
  BY <1>1 DEF Ids, Table
<1>9. answer' = [answer EXCEPT ![p] = [ok |-> TRUE, queued |-> h[p].queued, skipped |-> h[p].skipped]]
  BY <1>1 DEF Ends, Served
<1>10. CASE h[p].skipped
  <2>1. h[p].skipped = TRUE
    BY <1>7, <1>10
  <2> QED BY <1>6, <1>7, <1>8, <1>9, <2>1 DEF Books!Mislead
<1>11. CASE ~h[p].skipped
  <2>1. h[p].queued = 0 /\ 0 \in 0..MaxApplications /\ h[p].skipped = FALSE
    BY <1>7, <1>11
  <2>2. {<<p, k>> : k \in 1..0} = {}
    OBVIOUS
  <2>3. /\ Ids("app")' = Ids("app") \cup {<<p, k>> : k \in 1..0}
        /\ Ids("note")' = Ids("note") \cup {<<p, k>> : k \in 1..0}
    BY <1>8, <2>2
  <2> QED BY <1>6, <1>7, <1>9, <2>1, <2>3 DEF Books!Serve
<1> QED BY <1>6, <1>10, <1>11

-----------------------------------------------------------------------------
(* Filing and telling.                                                     *)

(* A write of a row of the books that is new.                              *)
LEMMA NewRow ==
  ASSUME IInv, NEW p \in Requests, NEW i, NEW row, Write(p, i, row), DOMAIN row # {}
  PROVE  /\ p \notin dead /\ p \notin dead' /\ rows' = rows /\ DOMAIN edits' = Requests
         /\ DOMAIN edits'[p] = {i} \cup DOMAIN edits[p]
         /\ \A k \in DOMAIN edits'[p] : k[1] \in Filed => DOMAIN edits'[p][k] # {}
         /\ \A q \in Requests \ {p} :
               edits'[q] = edits[q] /\ (q \in dead' <=> q \in dead) /\ (q \in open' => q \in open)
<1> DEFINE new == Over([k \in {i} |-> row], edits[p])
<1>1. /\ edits' = [edits EXCEPT ![p] = new] /\ UNCHANGED <<rows, dead, open, overlap>> /\ p \notin dead
  BY DEF Write
<1>2. DOMAIN edits = Requests /\ \A k \in DOMAIN edits[p] : k[1] \in Filed => DOMAIN edits[p][k] # {}
  BY DEF IInv, Domains, Ledger
<1>3. /\ DOMAIN new = {i} \cup DOMAIN edits[p]
      /\ new[i] = row /\ \A k \in DOMAIN edits[p] : k # i => new[k] = edits[p][k]
  BY DEF Over
<1> HIDE DEF new
<1>4. /\ edits'[p] = new /\ DOMAIN edits' = Requests
      /\ \A q \in Requests \ {p} : edits'[q] = edits[q]
  BY <1>1, <1>2
<1> QED BY <1>1, <1>2, <1>3, <1>4

LEMMA Files ==
  ASSUME IInv, NEW p \in Requests, CreateApplication(p)
  PROVE  IInv' /\ UNCHANGED <<rows, answer>>
<1> DEFINE row == [job |-> Job(p), resume |-> h[p].resume, scored |-> h[p].copy]
           next == [h[p] EXCEPT !.at = "tell"]
<1>1. h[p].at = "file" /\ Write(p, AppId(p), row) /\ h' = [h EXCEPT ![p] = next] /\ UNCHANGED <<call, answer>>
  BY DEF CreateApplication, Goes
<1>2. DOMAIN row # {}
  OBVIOUS
<1> HIDE DEF row
<1>3. /\ DOMAIN h = Requests /\ DOMAIN answer = Requests /\ DOMAIN h[p] = Locals
      /\ Ledger(p) /\ Place(p) /\ h[p].queued \in Nat
  BY DEF IInv, Domains, Place, Queue
<1>4. /\ next.at = "tell" /\ SameMarks(p, next) /\ next.todo = h[p].todo /\ DOMAIN next = Locals
  BY <1>3 DEF Locals, SameMarks
<1> HIDE DEF next
<1>5. DOMAIN h' = Requests /\ h'[p] = next /\ \A q \in Requests \ {p} : h'[q] = h[q]
  BY <1>1, <1>3
<1>6. /\ p \notin dead /\ p \notin dead' /\ rows' = rows /\ DOMAIN edits' = Requests
      /\ DOMAIN edits'[p] = {AppId(p)} \cup DOMAIN edits[p]
      /\ \A k \in DOMAIN edits'[p] : k[1] \in Filed => DOMAIN edits'[p][k] # {}
      /\ \A q \in Requests \ {p} :
            edits'[q] = edits[q] /\ (q \in dead' <=> q \in dead) /\ (q \in open' => q \in open)
  BY <1>1, <1>2, NewRow
<1>7. /\ \A t : Reached(p, t) = h[p].queued
      /\ \A t : Reached(p, t)' = IF t = "app" THEN h[p].queued + 1 ELSE h[p].queued
  BY <1>1, <1>4, <1>5 DEF Reached, SameMarks
<1>8. Ledger(p)'
  <2>1. ASSUME NEW i \in DOMAIN edits'[p], i[1] \in Filed
        PROVE  i \in DOMAIN rows' \/ \E k \in 1..Reached(p, i[1])' : i = <<i[1], p, k>>
    <3>1. CASE i = AppId(p)
      BY <1>3, <1>7, <3>1 DEF AppId
    <3>2. CASE i \in DOMAIN edits[p]
      <4>1. i \in DOMAIN rows \/ \E k \in 1..h[p].queued : i = <<i[1], p, k>>
        BY <1>3, <1>7, <2>1, <3>2 DEF Ledger
      <4>2. 1..h[p].queued \subseteq 1..Reached(p, i[1])'
        BY <1>3, <1>7
      <4> QED BY <1>6, <4>1, <4>2
    <3> QED BY <1>6, <3>1, <3>2
  <2>2. ASSUME NEW t \in Filed, NEW k \in 1..Reached(p, t)'
        PROVE  <<t, p, k>> \in DOMAIN edits'[p]
    <3>1. k \in 1..h[p].queued \/ <<t, p, k>> = AppId(p)
      BY <1>3, <1>7 DEF AppId
    <3> QED BY <1>1, <1>3, <1>6, <1>7, <3>1 DEF Ledger
  <2>3. \A i \in DOMAIN rows' : i[1] \in Filed => i[2] # p
    BY <1>1, <1>3, <1>6 DEF Ledger
  <2> QED BY <1>6, <2>1, <2>2, <2>3 DEF Ledger
<1>9. Place(p)'
  <2>1. Queue(p) /\ h[p].at \in Applying /\ answer[p] = None /\ call[p] # None
    BY <1>1, <1>3 DEF Place, Applying, Asker
  <2>2. Does(p)' = Does(p)
    BY <1>1 DEF Does
  <2>3. Queue(p)'
    BY <1>4, <1>5, <2>1, <2>2 DEF Queue, Applying, SameMarks
  <2>4. Spoilt(p)'
    BY <1>1, <1>4, <1>5, StillSpoilt DEF SameMarks
  <2> QED BY <1>1, <1>4, <1>5, <2>1, <2>3, <2>4 DEF Place, Asker, AskedBy, Held
<1>10. RowsOK'
  BY <1>6 DEF IInv, RowsOK
<1>11. /\ call' = call /\ answer' = answer /\ DOMAIN answer' = Requests
       /\ \A q \in Requests \ {p} :
            /\ h'[q] = h[q] /\ answer'[q] = answer[q] /\ edits'[q] = edits[q]
            /\ (q \in dead' <=> q \in dead) /\ (q \in open' => q \in open)
  BY <1>1, <1>3, <1>5, <1>6
<1> QED BY <1>5, <1>6, <1>8, <1>9, <1>10, <1>11, OneRequest

LEMMA TailFacts ==
  ASSUME NEW S, NEW s \in Seq(S), s # <<>>
  PROVE  /\ Tail(s) \in Seq(S) /\ Len(s) \in Nat /\ Len(Tail(s)) = Len(s) - 1
         /\ Len(s) # 1 => Tail(s) # <<>>
<1>1. /\ Tail(s) \in Seq(S) /\ Len(s) \in Nat /\ Len(Tail(s)) = Len(s) - 1
  BY HeadTailProperties, LenProperties
<1>2. Tail(s) = <<>> => Len(Tail(s)) = 0
  BY EmptySeq
<1> QED BY <1>1, <1>2

LEMMA Tells ==
  ASSUME IInv, NEW p \in Requests, create_application_update(p)
  PROVE  IInv' /\ UNCHANGED <<rows, answer>>
<1> DEFINE row == [job |-> Job(p), read |-> FALSE]
           to == IF Does(p) = "auto" /\ Len(h[p].todo) > 1 THEN "resume" ELSE "commit"
           rest == IF h[p].todo = <<>> THEN h[p].todo ELSE Tail(h[p].todo)
           next == [h[p] EXCEPT !.queued = h[p].queued + 1, !.todo = rest, !.at = to]
<1>1. h[p].at = "tell" /\ Write(p, NoteId(p), row) /\ h' = [h EXCEPT ![p] = next] /\ UNCHANGED <<call, answer>>
  BY DEF create_application_update, _create
<1>2. DOMAIN row # {}
  OBVIOUS
<1> HIDE DEF row
<1>3. /\ DOMAIN h = Requests /\ DOMAIN answer = Requests /\ DOMAIN h[p] = Locals
      /\ Ledger(p) /\ Place(p) /\ h[p].queued \in Nat
  BY DEF IInv, Domains, Place, Queue
<1>4. /\ next.at = to /\ next.queued = h[p].queued + 1 /\ next.todo = rest /\ DOMAIN next = Locals
      /\ next.skipped = h[p].skipped /\ next.aborted = h[p].aborted
  BY <1>3 DEF Locals
<1> HIDE DEF next
<1>5. DOMAIN h' = Requests /\ h'[p] = next /\ \A q \in Requests \ {p} : h'[q] = h[q]
  BY <1>1, <1>3
<1>6. /\ p \notin dead /\ p \notin dead' /\ rows' = rows /\ DOMAIN edits' = Requests
      /\ DOMAIN edits'[p] = {NoteId(p)} \cup DOMAIN edits[p]
      /\ \A k \in DOMAIN edits'[p] : k[1] \in Filed => DOMAIN edits'[p][k] # {}
      /\ \A q \in Requests \ {p} :
            edits'[q] = edits[q] /\ (q \in dead' <=> q \in dead) /\ (q \in open' => q \in open)
  BY <1>1, <1>2, NewRow
<1>7. /\ \A t : Reached(p, t) = IF t = "app" THEN h[p].queued + 1 ELSE h[p].queued
      /\ \A t : Reached(p, t)' = h[p].queued + 1
  BY <1>1, <1>4, <1>5 DEF Reached
<1>8. Ledger(p)'
  <2>1. ASSUME NEW i \in DOMAIN edits'[p], i[1] \in Filed
        PROVE  i \in DOMAIN rows' \/ \E k \in 1..Reached(p, i[1])' : i = <<i[1], p, k>>
    <3>1. CASE i = NoteId(p)
      BY <1>3, <1>7, <3>1 DEF NoteId
    <3>2. CASE i \in DOMAIN edits[p]
      <4>1. i \in DOMAIN rows \/ \E k \in 1..Reached(p, i[1]) : i = <<i[1], p, k>>
        BY <1>3, <2>1, <3>2 DEF Ledger
      <4>2. 1..Reached(p, i[1]) \subseteq 1..Reached(p, i[1])'
        BY <1>3, <1>7
      <4> QED BY <1>6, <4>1, <4>2
    <3> QED BY <1>6, <3>1, <3>2
  <2>2. ASSUME NEW t \in Filed, NEW k \in 1..Reached(p, t)'
        PROVE  <<t, p, k>> \in DOMAIN edits'[p]
    <3>1. k \in 1..Reached(p, t) \/ <<t, p, k>> = NoteId(p)
      BY <1>3, <1>7 DEF NoteId, Filed
    <3> QED BY <1>1, <1>3, <1>6, <3>1 DEF Ledger
  <2>3. \A i \in DOMAIN rows' : i[1] \in Filed => i[2] # p
    BY <1>1, <1>3, <1>6 DEF Ledger
  <2> QED BY <1>6, <2>1, <2>2, <2>3 DEF Ledger
<1>9. Place(p)'
  <2>1. Queue(p) /\ h[p].at \in Applying /\ answer[p] = None /\ call[p] # None
    BY <1>1, <1>3 DEF Place, Applying, Asker
  <2>2. Does(p)' = Does(p) /\ MaxApplications \in Nat /\ MaxApplications > 0
    BY <1>1, JobsAssumption DEF Does
  <2>3. Queue(p)'
    <3>1. CASE Does(p) = "approve" /\ h[p].queued = 0
      BY <1>4, <1>5, <2>2, <3>1 DEF Queue, Applying
    <3>2. CASE /\ Does(p) = "auto" /\ h[p].todo # <<>> /\ \E S : h[p].todo \in Seq(S)
               /\ h[p].queued + Len(h[p].todo) <= MaxApplications
      <4>1. PICK S : h[p].todo \in Seq(S)
        BY <3>2
      <4>2. /\ rest \in Seq(S) /\ Len(rest) = Len(h[p].todo) - 1 /\ Len(h[p].todo) \in Nat
            /\ Len(h[p].todo) # 1 => rest # <<>>
        BY <3>2, <4>1, TailFacts
      <4> HIDE DEF rest
      <4> QED BY <1>3, <1>4, <1>5, <2>2, <3>2, <4>2 DEF Queue, Applying
    <3> QED BY <2>1, <3>1, <3>2 DEF Queue
  <2>4. Spoilt(p)'
    BY <1>1, <1>4, <1>5, StillSpoilt
  <2> QED BY <1>1, <1>4, <1>5, <2>1, <2>3, <2>4 DEF Place, Asker, AskedBy, Held
<1>10. RowsOK'
  BY <1>6 DEF IInv, RowsOK
<1>11. /\ call' = call /\ answer' = answer /\ DOMAIN answer' = Requests
       /\ \A q \in Requests \ {p} :
            /\ h'[q] = h[q] /\ answer'[q] = answer[q] /\ edits'[q] = edits[q]
            /\ (q \in dead' <=> q \in dead) /\ (q \in open' => q \in open)
  BY <1>1, <1>3, <1>5, <1>6
<1> QED BY <1>5, <1>6, <1>8, <1>9, <1>10, <1>11, OneRequest

-----------------------------------------------------------------------------
(* A statement outside of an approval that leaves the books alone.         *)
LEMMA Steady ==
  ASSUME IInv, NEW p \in Requests, Quietly(p), NEW next, h' = [h EXCEPT ![p] = next],
         UNCHANGED <<call, answer>>, DOMAIN next = Locals, SameMarks(p, next),
         h[p].at \notin Applying \cup {"commit", "done"}, next.at \notin Applying \cup {"done"},
         call[p] # None, AskedBy(next.at, Does(p)),
         next.at = "update" => \A i \in next.match : Matchable(p, i),
         next.at = "flush" => next.resume[1] = "resume",
         next.at = "checkin" => \A x \in next.copy : x[1][1] = "checkin"
  PROVE  IInv' /\ UNCHANGED <<rows, answer>>
<1>1. DOMAIN h = Requests /\ h'[p] = next /\ rows' = rows /\ Does(p)' = Does(p)
  BY DEF IInv, Domains, Quietly, Does
<1>2. h[p].queued = 0 /\ 0 \in 0..MaxApplications
  BY JobsAssumption DEF IInv, Place, Queue
<1>3. Queue(p)'
  BY <1>1, <1>2 DEF Queue, SameMarks
<1>4. Asker(p)'
  BY <1>1 DEF Asker
<1>5. Held(p)'
  BY <1>1 DEF Held, Matchable
<1>6. h[p].at # "tell" /\ h[p].at # "done" /\ next.at \notin {"done", "tell"}
  BY DEF Applying
<1>7. Spoilt(p)'
  BY <1>1, StillSpoilt DEF SameMarks
<1> QED BY <1>3, <1>4, <1>5, <1>6, <1>7, QuietStep DEF SameMarks

LEMMA GoesOn ==
  ASSUME IInv, NEW p \in Requests, Quietly(p), NEW to, Goes(p, to),
         h[p].at \notin Applying \cup {"commit", "done"},
         to \notin Applying \cup {"done", "update", "flush", "checkin"},
         call[p] # None, AskedBy(to, Does(p))
  PROVE  IInv' /\ UNCHANGED <<rows, answer>>
<1> DEFINE next == [h[p] EXCEPT !.at = to]
<1>1. h' = [h EXCEPT ![p] = next] /\ UNCHANGED <<call, answer>>
  BY DEF Goes
<1>2. DOMAIN h[p] = Locals
  BY DEF IInv, Place
<1>3. DOMAIN next = Locals /\ SameMarks(p, next) /\ next.at = to
  BY <1>2 DEF Locals, SameMarks
<1> HIDE DEF next
<1> QED BY <1>1, <1>3, Steady

LEMMA KeepsOn ==
  ASSUME IInv, NEW p \in Requests, Reads(p), NEW value, NEW to, Keeps(p, value, to),
         h[p].at \notin Applying \cup {"commit", "done"},
         to \notin Applying \cup {"done", "update", "flush"},
         call[p] # None, AskedBy(to, Does(p)),
         to = "checkin" => \A x \in value : x[1][1] = "checkin"
  PROVE  IInv' /\ UNCHANGED <<rows, answer>>
<1> DEFINE next == [h[p] EXCEPT !.copy = value, !.at = to]
<1>1. h' = [h EXCEPT ![p] = next] /\ UNCHANGED <<call, answer>>
  BY DEF Keeps
<1>2. DOMAIN h[p] = Locals
  BY DEF IInv, Place
<1>3. DOMAIN next = Locals /\ SameMarks(p, next) /\ next.at = to /\ next.copy = value
  BY <1>2 DEF Locals, SameMarks
<1>4. Quietly(p)
  BY QuietSessions
<1> HIDE DEF next
<1> QED BY <1>1, <1>3, <1>4, Steady

-----------------------------------------------------------------------------
(* The statements of Applications.                                         *)

Kept(p) ==
  /\ IInv'
  /\ UNCHANGED <<rows, answer>> \/ Books!Refuse(p) \/ Books!Serve(p) \/ Books!Mislead(p)

LEMMA Raised ==
  ASSUME IInv, NEW p \in Requests, h[p].at # "done", Raises(p)
  PROVE  Kept(p)
  BY RolledBack DEF Raises, Kept

(* Where a request is tells what it was asked.                             *)
LEMMA AskerFacts ==
  ASSUME IInv, NEW p \in Requests
  PROVE  /\ DOMAIN h[p] = Locals /\ DOMAIN h = Requests /\ AskedBy(h[p].at, Does(p))
         /\ h[p].at \notin {"arrived", "done"} => call[p] # None
         /\ Held(p) /\ Queue(p)
         /\ call[p] # None /\ Does(p) \in {"set_primary", "delete", "rewrite"} => call[p].id[1] = "resume"
         /\ call[p] # None /\ Does(p) = "evaluate" => call[p].id[1] = "interview"
  BY DEF IInv, Domains, Place, Asker, Asked

LEMMA Arrives ==
  ASSUME IInv, NEW p \in Requests, ~Practises(p), Arrive(p)
  PROVE  Kept(p)
<1>1. h[p].at = "arrived" /\ call[p] # None /\ Quietly(p) /\ Goes(p, Entry(p))
  BY QuietSessions DEF Arrive
<1>2. Does(p) \in Applies
  BY <1>1 DEF Practises, IInv, Asked
<1>3. CASE Does(p) = "approve"
  <2> DEFINE next == [h[p] EXCEPT !.at = "resume"]
  <2>1. h' = [h EXCEPT ![p] = next] /\ UNCHANGED <<call, answer>>
    BY <1>1, <1>3 DEF Goes, Entry
  <2>2. DOMAIN next = Locals /\ SameMarks(p, next) /\ next.at = "resume"
    BY AskerFacts DEF Locals, SameMarks
  <2>3. DOMAIN h = Requests /\ h[p].queued = 0 /\ h[p].queued \in 0..MaxApplications
    BY <1>1, AskerFacts DEF Queue, Applying
  <2> HIDE DEF next
  <2>4. h'[p] = next /\ Does(p)' = Does(p) /\ rows' = rows /\ call' = call
    BY <1>1, <2>1, <2>3 DEF Does, Quietly
  <2>5. Queue(p)' /\ Asker(p)' /\ Held(p)'
    BY <1>1, <1>3, <2>2, <2>3, <2>4 DEF Queue, Asker, AskedBy, Held, Applying, SameMarks
  <2>6. Spoilt(p)'
    BY <1>1, <2>2, <2>4, StillSpoilt DEF SameMarks
  <2> QED BY <1>1, <2>1, <2>2, <2>5, <2>6, QuietStep DEF Kept, SameMarks
<1>4. CASE Does(p) # "approve"
  <2>1. /\ Entry(p) \notin Applying \cup {"done", "update", "flush", "checkin"}
        /\ AskedBy(Entry(p), Does(p))
    BY <1>2, <1>4 DEF Applies, Entry, Applying, AskedBy
  <2>2. h[p].at \notin Applying \cup {"commit", "done"}
    BY <1>1 DEF Applying
  <2> QED BY <1>1, <2>1, <2>2, GoesOn DEF Kept
<1> QED BY <1>3, <1>4

(* UPDATE ... WHERE *)
LEMMA MatchesOn ==
  ASSUME IInv, NEW p \in Requests, NEW K, Matches(p, K), h[p].at \in {"clear", "notes"},
         \A i \in K : Matchable(p, i)
  PROVE  Kept(p)
<1> DEFINE to == IF K = {} THEN Then(p) ELSE "update"
           next == [h[p] EXCEPT !.match = K, !.at = to]
<1>1. h' = [h EXCEPT ![p] = next] /\ UNCHANGED <<call, answer>> /\ Quietly(p)
  BY QuietSessions DEF Matches
<1>2. DOMAIN next = Locals /\ SameMarks(p, next) /\ next.at = to /\ next.match = K
  BY AskerFacts DEF Locals, SameMarks
<1>3. /\ to \notin Applying \cup {"done", "flush", "checkin"}
      /\ AskedBy(to, Does(p)) /\ call[p] # None
      /\ h[p].at \notin Applying \cup {"commit", "done"}
  BY AskerFacts DEF AskedBy, Then, Applying
<1> HIDE DEF next, to
<1>4. next.at \notin Applying \cup {"done"} /\ next.at # "flush" /\ next.at # "checkin"
  BY <1>2, <1>3
<1> QED BY <1>1, <1>2, <1>3, <1>4, Steady DEF Kept

LEMMA Clears ==
  ASSUME IInv, NEW p \in Requests, clear_primary(p)
  PROVE  Kept(p)
<1>1. PICK K : Matches(p, K) /\ h[p].at = "clear" /\ \A i \in K : i[1] = "resume"
  BY DEF clear_primary, Table
<1>2. \A i \in K : Matchable(p, i)
  BY <1>1, AskerFacts DEF AskedBy, Matchable
<1> QED BY <1>1, <1>2, MatchesOn

LEMMA MarksRead ==
  ASSUME IInv, NEW p \in Requests, mark_read(p)
  PROVE  Kept(p)
<1>1. PICK K : Matches(p, K) /\ h[p].at = "notes" /\ K \subseteq Table("note", View(p))
  BY DEF mark_read
<1>2. ASSUME NEW i \in K PROVE i[1] = "note" /\ i \in DOMAIN rows
  <2>1. i[1] = "note" /\ i \in DOMAIN edits[p] \cup DOMAIN rows
    BY <1>1, ViewFacts DEF Table
  <2>2. Reached(p, "note") = 0
    BY <1>1, AskerFacts DEF Reached, Queue, Applying
  <2> QED BY <2>1, <2>2 DEF IInv, Ledger, Filed
<1>3. \A i \in K : Matchable(p, i)
  BY <1>1, <1>2, AskerFacts DEF AskedBy, Matchable
<1> QED BY <1>1, <1>3, MatchesOn

LEMMA Updates ==
  ASSUME IInv, NEW p \in Requests, Update(p)
  PROVE  Kept(p)
<1>1. PICK i \in h[p].match :
        /\ \/ Write(p, i, Set(p, View(p)[i])) /\ i \in DOMAIN View(p)
           \/ Reads(p)
        /\ h' = [h EXCEPT ![p].match = @ \ {i},
                          ![p].at = IF h[p].match = {i} THEN Then(p) ELSE @]
  BY DEF Update
<1>2. h[p].at = "update" /\ UNCHANGED <<call, answer>>
  BY DEF Update
<1>3. \A k \in h[p].match : Matchable(p, k)
  BY <1>2, AskerFacts DEF Held
<1>4. Quietly(p)
  <2>1. CASE Write(p, i, Set(p, View(p)[i])) /\ i \in DOMAIN View(p)
    <3>1. i[1] \in Filed => DOMAIN View(p)[i] # {} /\ i \in DOMAIN rows
      BY <1>3, <2>1, ViewOfBooks DEF Filed, Matchable
    <3>2. \A row : DOMAIN Set(p, row) = DOMAIN row
      BY DEF Set
    <3> QED BY <2>1, <3>1, <3>2, QuietWrites
  <2> QED BY <1>1, <2>1, QuietSessions
<1> DEFINE to == IF h[p].match = {i} THEN Then(p) ELSE h[p].at
           next == [h[p] EXCEPT !.match = h[p].match \ {i}, !.at = to]
<1>5. h' = [h EXCEPT ![p] = next]
  BY <1>1
<1>6. DOMAIN next = Locals /\ SameMarks(p, next) /\ next.at = to /\ next.match \subseteq h[p].match
  BY AskerFacts DEF Locals, SameMarks
<1>7. /\ to \notin Applying \cup {"done", "flush", "checkin"}
      /\ AskedBy(to, Does(p)) /\ call[p] # None
      /\ h[p].at \notin Applying \cup {"commit", "done"}
  BY <1>2, AskerFacts DEF AskedBy, Then, Applying
<1> HIDE DEF next, to
<1>8. next.at \notin Applying \cup {"done"} /\ next.at # "flush" /\ next.at # "checkin"
  BY <1>6, <1>7
<1> QED BY <1>2, <1>3, <1>4, <1>5, <1>6, <1>7, <1>8, Steady DEF Kept

-----------------------------------------------------------------------------
(* Resumes.                                                                *)

Resuming == {"find", "promote", "delete", "insert", "parse", "select", "profile", "save", "skills", "flush"}

(* A statement that goes on to one that relies on nothing.                 *)
LEMMA Settles ==
  ASSUME IInv, NEW p \in Requests, Quietly(p), NEW to, Goes(p, to), h[p].at \in Resuming,
         to \in {"parse", "select", "save", "commit"}, AskedBy(to, Does(p))
  PROVE  Kept(p)
<1>1. h[p].at \notin Applying \cup {"commit", "done"} /\ call[p] # None
  BY AskerFacts DEF Resuming, Applying
<1>2. to \notin Applying \cup {"done", "update", "flush", "checkin"}
  BY DEF Applying
<1> QED BY <1>1, <1>2, GoesOn DEF Kept

LEMMA FindsResume ==
  ASSUME IInv, NEW p \in Requests, get_for_user(p)
  PROVE  Kept(p)
<1>1. h[p].at = "find" /\ Does(p) \in {"set_primary", "delete", "rewrite"} /\ call[p] # None
  BY AskerFacts DEF get_for_user, AskedBy
<1>2. CASE Raises(p)
  BY <1>1, <1>2, Raised
<1>3. CASE ~Raises(p)
  <2> DEFINE to == CASE Does(p) = "set_primary" -> "clear" [] Does(p) = "delete" -> "delete"
                     [] Does(p) = "rewrite" -> "insert"
             next == [h[p] EXCEPT !.copy = SkillsOf(p, call[p].id), !.at = to]
  <2>1. Quietly(p) /\ h' = [h EXCEPT ![p] = next] /\ UNCHANGED <<call, answer>>
    BY <1>3, QuietSessions DEF get_for_user
  <2>2. DOMAIN next = Locals /\ SameMarks(p, next) /\ next.at = to
    BY AskerFacts DEF Locals, SameMarks
  <2>3. to \notin Applying \cup {"done", "update", "flush", "checkin"} /\ AskedBy(to, Does(p))
    BY <1>1 DEF AskedBy, Applying
  <2>4. h[p].at \notin Applying \cup {"commit", "done"}
    BY <1>1 DEF Applying
  <2> HIDE DEF next, to
  <2>5. next.at \notin Applying \cup {"done"} /\ next.at \notin {"update", "flush", "checkin"}
    BY <2>2, <2>3
  <2> QED BY <1>1, <2>1, <2>2, <2>3, <2>4, <2>5, Steady DEF Kept
<1> QED BY <1>2, <1>3

LEMMA WritesResume ==
  ASSUME IInv, NEW p \in Requests, set_primary(p) \/ delete_resume(p) \/ Insert(p)
  PROVE  Kept(p)
<1>1. PICK i, row, to : /\ Reads(p) \/ Write(p, i, row)
                        /\ i[1] = "resume" /\ Goes(p, to)
                        /\ h[p].at \in Resuming /\ to \in {"parse", "commit"}
                        /\ AskedBy(to, Does(p))
  <2>1. CASE set_primary(p) \/ delete_resume(p)
    <3>1. h[p].at \in {"promote", "delete"} /\ Goes(p, "commit")
      BY <2>1 DEF set_primary, delete_resume
    <3>2. call[p].id[1] = "resume"
      BY <3>1, AskerFacts DEF AskedBy
    <3>3. \E row : Reads(p) \/ Write(p, call[p].id, row)
      BY <2>1 DEF set_primary, delete_resume
    <3>4. AskedBy("commit", Does(p))
      BY DEF AskedBy
    <3> QED BY <3>1, <3>2, <3>3, <3>4 DEF Resuming
  <2>2. CASE Insert(p)
    <3>1. Own(p)[1] = "resume"
      BY DEF Own
    <3>2. h[p].at \in Resuming /\ \E row : Write(p, Own(p), row)
      BY <2>2 DEF Insert, Resuming
    <3>3. \E to \in {"parse", "commit"} : Goes(p, to) /\ AskedBy(to, Does(p))
      BY <2>2 DEF Insert, AskedBy
    <3> QED BY <3>1, <3>2, <3>3
  <2> QED BY <2>1, <2>2
<1>2. Quietly(p)
  BY <1>1, QuietSessions, QuietWrites DEF Filed
<1> QED BY <1>1, <1>2, Settles

LEMMA Uploads ==
  ASSUME IInv, NEW p \in Requests,
         \/ Parse(p) \/ ParseFails(p) \/ ProfilingRaises(p) \/ FlushProfile(p)
         \/ save_parsed(p) \/ add_verified_skills(p)
  PROVE  Kept(p)
<1>1. h[p].at \in Resuming
  BY DEF Parse, ParseFails, ProfilingRaises, FlushProfile, save_parsed, add_verified_skills, Resuming
<1>2. CASE Raises(p)
  <2>1. h[p].at # "done"
    BY <1>1 DEF Resuming
  <2> QED BY <1>2, <2>1, Raised
<1>3. CASE ~Raises(p)
  <2>1. \E to \in {"select", "save", "commit"} : Goes(p, to) /\ AskedBy(to, Does(p))
    <3>1. /\ AskedBy("commit", Does(p))
          /\ h[p].at \in {"parse", "select", "profile"} => AskedBy("select", Does(p)) /\ AskedBy("save", Does(p))
      BY AskerFacts DEF AskedBy
    <3> QED BY <1>3, <3>1 DEF Parse, ParseFails, ProfilingRaises, FlushProfile, save_parsed, add_verified_skills
  <2>2. \/ Reads(p) \/ Dies(p)
        \/ \E i, row : Write(p, i, row) /\ i[1] \notin Filed
    <3>1. CASE Parse(p) \/ ParseFails(p) \/ ProfilingRaises(p)
      BY <1>3, <3>1 DEF Parse, ParseFails, ProfilingRaises
    <3>2. CASE FlushProfile(p)
      <4>1. Dies(p) \/ Write(p, Profile, [by |-> p])
        BY <3>2 DEF FlushProfile
      <4> QED BY <4>1 DEF Profile, Filed
    <3>3. CASE save_parsed(p)
      <4>1. \E row : Write(p, Own(p), row)
        BY <1>3, <3>3 DEF save_parsed
      <4> QED BY <4>1 DEF Own, Filed
    <3>4. CASE add_verified_skills(p)
      <4>1. h[p].at = "flush" /\ \E row : Write(p, h[p].resume, row)
        BY <1>3, <3>4 DEF add_verified_skills
      <4>2. h[p].resume[1] = "resume"
        BY <4>1, AskerFacts DEF Held
      <4> QED BY <4>1, <4>2 DEF Filed
    <3> QED BY <3>1, <3>2, <3>3, <3>4
  <2>3. Quietly(p)
    BY <2>2, QuietSessions, QuietWrites
  <2> QED BY <1>1, <2>1, <2>3, Settles
<1> QED BY <1>2, <1>3

LEMMA SelectsProfile ==
  ASSUME IInv, NEW p \in Requests, SelectProfile(p)
  PROVE  Kept(p)
<1> DEFINE found == IF Profile \in DOMAIN View(p) THEN Profile ELSE None
           next == [h[p] EXCEPT !.resume = found, !.at = "profile"]
<1>1. /\ Quietly(p) /\ h' = [h EXCEPT ![p] = next] /\ UNCHANGED <<call, answer>>
      /\ h[p].at = "select" /\ call[p] # None
  BY QuietSessions, AskerFacts DEF SelectProfile
<1>2. DOMAIN next = Locals /\ SameMarks(p, next) /\ next.at = "profile"
  BY AskerFacts DEF Locals, SameMarks
<1>3. AskedBy("profile", Does(p)) /\ h[p].at \notin Applying \cup {"commit", "done"}
      /\ "profile" \notin Applying \cup {"done"}
  BY <1>1, AskerFacts DEF AskedBy, Applying
<1> HIDE DEF next
<1> QED BY <1>1, <1>2, <1>3, Steady DEF Kept

LEMMA ReadsSkills ==
  ASSUME IInv, NEW p \in Requests, ReadSkills(p)
  PROVE  Kept(p)
<1>1. h[p].at = "skills" /\ call[p] # None
  BY AskerFacts DEF ReadSkills
<1>2. CASE Raises(p)
  BY <1>1, <1>2, Raised
<1>3. CASE ~Raises(p)
  <2>1. PICK i \in get_primary(p) :
          /\ i # None /\ Reads(p) /\ UNCHANGED <<call, answer>>
          /\ \E new : h' = [h EXCEPT ![p].resume = i, ![p].copy = View(p)[i].skills,
                                     ![p].told = new,
                                     ![p].at = IF new THEN "flush" ELSE "commit"]
    BY <1>3 DEF ReadSkills
  <2>2. i[1] = "resume"
    BY <2>1 DEF get_primary, Primaries, Parsed, Table
  <2>3. PICK new : h' = [h EXCEPT ![p].resume = i, ![p].copy = View(p)[i].skills,
                                  ![p].told = new,
                                  ![p].at = IF new THEN "flush" ELSE "commit"]
    BY <2>1
  <2> DEFINE to == IF new THEN "flush" ELSE "commit"
             next == [h[p] EXCEPT !.resume = i, !.copy = View(p)[i].skills, !.told = new, !.at = to]
  <2>4. h' = [h EXCEPT ![p] = next]
    BY <2>3
  <2>5. DOMAIN next = Locals /\ SameMarks(p, next) /\ next.at = to /\ next.resume = i
    BY AskerFacts DEF Locals, SameMarks
  <2>6. to \notin Applying \cup {"done", "update", "checkin"} /\ AskedBy(to, Does(p))
    BY <1>1, AskerFacts DEF AskedBy, Applying
  <2>7. h[p].at \notin Applying \cup {"commit", "done"}
    BY <1>1 DEF Applying
  <2> HIDE DEF next, to
  <2>8. next.at \notin Applying \cup {"done"} /\ next.at # "update" /\ next.at # "checkin"
    BY <2>5, <2>6
  <2>9. Quietly(p)
    BY <2>1, QuietSessions
  <2> QED BY <1>1, <2>1, <2>2, <2>4, <2>5, <2>6, <2>7, <2>8, <2>9, Steady DEF Kept
<1> QED BY <1>2, <1>3

-----------------------------------------------------------------------------
(* Applying.                                                               *)

LEMMA TargetsAreBounded ==
  ASSUME NEW skills
  PROVE  /\ \E S : Targets(skills) \in Seq(S)
         /\ Len(Targets(skills)) \in 0..MaxApplications
<1> DEFINE F == Fitting(skills)
           n == Min({MaxApplications, Cardinality(F)})
<1>1. IsFiniteSet(F)
  BY JobsAssumption, FS_Subset DEF Fitting
<1>2. Cardinality(F) \in Nat
  BY <1>1, FS_CardinalityType
<1>3. MaxApplications \in Nat
  BY JobsAssumption
<1> HIDE DEF F
<1>4. n \in Nat /\ n <= MaxApplications
  <2> DEFINE c == Cardinality(F)
  <2>1. \E x \in {MaxApplications, c} : \A y \in {MaxApplications, c} : x <= y
    BY <1>2, <1>3
  <2>2. /\ n \in {MaxApplications, c}
        /\ \A y \in {MaxApplications, c} : n <= y
    BY <2>1 DEF Min
  <2> QED BY <1>2, <1>3, <2>2
<1> DEFINE pick == [k \in 1..n |-> CHOOSE j \in F : Cardinality({i \in F : i < j}) = k - 1]
<1>5. Targets(skills) = pick
  BY DEF Targets, F
<1> HIDE DEF n
<1> DEFINE S == {pick[k] : k \in 1..n}
<1>6. pick \in [1..n -> S]
  OBVIOUS
<1>7. pick \in Seq(S) /\ Len(pick) = n
  <2>1. DOMAIN pick = 1..n
    OBVIOUS
  <2> HIDE DEF pick, S
  <2> QED BY <1>4, <1>6, <2>1, SeqDef, LenProperties
<1> HIDE DEF pick, S
<1> QED BY <1>4, <1>5, <1>7, <1>3

LEMMA AutoApplies ==
  ASSUME IInv, NEW p \in Requests, auto_apply(p)
  PROVE  Kept(p)
<1>1. h[p].at = "agent" /\ call[p] # None /\ Does(p) = "auto" /\ h[p].queued = 0
  BY AskerFacts DEF auto_apply, AskedBy, Queue, Applying
<1>2. CASE Raises(p)
  BY <1>1, <1>2, Raised
<1>3. CASE ~Raises(p)
  <2>1. PICK i \in get_primary(p) :
          h' = [h EXCEPT ![p].todo = Targets(SkillsOf(p, i)),
                         ![p].at = IF Targets(SkillsOf(p, i)) = <<>> THEN "commit" ELSE "resume"]
    BY <1>3 DEF auto_apply
  <2>2. Quietly(p) /\ UNCHANGED <<call, answer>>
    BY <1>3, QuietSessions DEF auto_apply
  <2> DEFINE todo == Targets(SkillsOf(p, i))
             to == IF todo = <<>> THEN "commit" ELSE "resume"
             next == [h[p] EXCEPT !.todo = todo, !.at = to]
  <2>3. h' = [h EXCEPT ![p] = next]
    BY <2>1
  <2>4. DOMAIN next = Locals /\ SameMarks(p, next) /\ next.at = to /\ next.todo = todo
    BY AskerFacts DEF Locals, SameMarks
  <2>5. (\E S : todo \in Seq(S)) /\ Len(todo) \in 0..MaxApplications
    BY TargetsAreBounded
  <2> HIDE DEF next, todo
  <2>6. DOMAIN h = Requests /\ Does(p)' = Does(p) /\ rows' = rows /\ call' = call
    BY <2>2, AskerFacts DEF Does, Quietly
  <2>7. h'[p] = next
    BY <2>3, <2>6
  <2>8. MaxApplications \in Nat
    BY JobsAssumption
  <2>9. Queue(p)'
    BY <1>1, <2>4, <2>5, <2>6, <2>7, <2>8 DEF Queue, Applying, SameMarks
  <2>10. Asker(p)' /\ Held(p)'
    BY <1>1, <2>4, <2>6, <2>7 DEF Asker, AskedBy, Held
  <2>11. next.at \notin {"done", "tell"} /\ h[p].at \notin {"done", "tell"}
    BY <1>1, <2>4
  <2>12. Spoilt(p)'
    BY <1>1, <2>4, <2>6, <2>7, StillSpoilt DEF SameMarks
  <2> QED BY <2>2, <2>3, <2>4, <2>9, <2>10, <2>11, <2>12, QuietStep DEF Kept, SameMarks
<1> QED BY <1>2, <1>3

(* Within an approval: the next statement of the same job.                 *)
LEMMA GoesWithin ==
  ASSUME IInv, NEW p \in Requests, Reads(p), h[p].at \in {"resume", "score"}, UNCHANGED <<call, answer>>,
         NEW next, h' = [h EXCEPT ![p] = next], DOMAIN next = Locals, SameMarks(p, next),
         next.todo = h[p].todo, next.at \in {"score", "file"}
  PROVE  Kept(p)
<1>1. /\ Quietly(p) /\ DOMAIN h = Requests /\ call[p] # None /\ Queue(p)
      /\ h[p].at \in Applying
  BY QuietSessions, AskerFacts DEF Applying
<1>2. h'[p] = next /\ Does(p)' = Does(p) /\ rows' = rows
  BY <1>1 DEF Does, Quietly
<1>3. Queue(p)'
  BY <1>1, <1>2 DEF Queue, Applying, SameMarks
<1>4. Asker(p)' /\ Held(p)'
  BY <1>1, <1>2 DEF Asker, AskedBy, Held
<1>5. Spoilt(p)'
  BY <1>2, StillSpoilt DEF SameMarks
<1> QED BY <1>1, <1>3, <1>4, <1>5, QuietStep DEF Kept, SameMarks

(* A job of an auto-apply given up.                                        *)
LEMMA Skipping ==
  ASSUME IInv, NEW p \in Requests, NEW aborted, Skips(p, aborted), Does(p) = "auto", h[p].at \in Applying,
         Reads(p) \/ Dies(p), h[p].at = "tell" => Dies(p)
  PROVE  Kept(p)
<1> DEFINE rest == Tail(h[p].todo)
           to == IF Len(h[p].todo) = 1 THEN "commit" ELSE "resume"
           next == [h[p] EXCEPT !.todo = rest, !.skipped = TRUE, !.aborted = aborted, !.at = to]
<1>1. h' = [h EXCEPT ![p] = next] /\ UNCHANGED <<call, answer>> /\ Quietly(p)
  BY QuietSessions DEF Skips
<1>2. /\ DOMAIN next = Locals /\ next.queued = h[p].queued /\ next.at = to /\ next.todo = rest
      /\ next.skipped = TRUE
  BY AskerFacts DEF Locals
<1> HIDE DEF next
<1>3. /\ DOMAIN h = Requests /\ call[p] # None /\ Queue(p) /\ h[p].at # "done"
  BY AskerFacts DEF Applying
<1>4. h'[p] = next /\ Does(p)' = Does(p) /\ rows' = rows
  BY <1>1, <1>3 DEF Does, Quietly
<1>5. /\ h[p].queued \in 0..MaxApplications /\ h[p].todo # <<>>
      /\ \E S : h[p].todo \in Seq(S)
      /\ h[p].queued + Len(h[p].todo) <= MaxApplications
  BY <1>3 DEF Queue
<1>6. PICK S : h[p].todo \in Seq(S)
  BY <1>5
<1>7. /\ rest \in Seq(S) /\ Len(rest) = Len(h[p].todo) - 1 /\ Len(h[p].todo) \in Nat
      /\ Len(h[p].todo) # 1 => rest # <<>>
  BY <1>5, <1>6, TailFacts
<1> HIDE DEF rest
<1>8. MaxApplications \in Nat
  BY JobsAssumption
<1>9. Queue(p)'
  BY <1>2, <1>4, <1>5, <1>7, <1>8 DEF Queue, Applying
<1>10. Asker(p)' /\ Held(p)'
  BY <1>1, <1>2, <1>3, <1>4 DEF Asker, AskedBy, Held
<1>11. h[p].at = "tell" => DOMAIN edits'[p] = {} /\ p \in dead'
  <2>1. DOMAIN edits = Requests /\ DOMAIN Nothing = {}
    BY DEF IInv, Domains, Nothing
  <2> QED BY <2>1 DEF Dies
<1>12. next.at \notin {"done", "tell"}
  BY <1>2
<1>13. Spoilt(p)'
  BY <1>2, <1>4 DEF Spoilt
<1> QED BY <1>1, <1>2, <1>3, <1>9, <1>10, <1>11, <1>12, <1>13, QuietStep DEF Kept

LEMMA Approves ==
  ASSUME IInv, NEW p \in Requests, ReadResume(p) \/ ReadScored(p)
  PROVE  Kept(p)
<1>1. h[p].at \in {"resume", "score"} /\ h[p].at # "done" /\ h[p].at \in Applying /\ h[p].at # "tell"
  BY DEF ReadResume, ReadScored, Applying
<1>2. CASE ApprovalRaises(p)
  BY <1>1, <1>2, Raised, Skipping DEF ApprovalRaises
<1>3. CASE ~ApprovalRaises(p) /\ ReadResume(p)
  <2>1. PICK i : h' = [h EXCEPT ![p].resume = i, ![p].at = "score",
                                ![p].guess = Primaries(View(p)) = {}]
    BY <1>3 DEF ReadResume
  <2> DEFINE guess == Primaries(View(p)) = {}
             next == [h[p] EXCEPT !.resume = i, !.at = "score", !.guess = guess]
  <2>2. h' = [h EXCEPT ![p] = next] /\ Reads(p) /\ UNCHANGED <<call, answer>>
    BY <1>3, <2>1 DEF ReadResume
  <2>3. DOMAIN next = Locals /\ SameMarks(p, next) /\ next.todo = h[p].todo /\ next.at = "score"
    <3> HIDE DEF guess
    <3> QED BY AskerFacts DEF Locals, SameMarks
  <2> HIDE DEF next
  <2> QED BY <1>1, <2>2, <2>3, GoesWithin
<1>4. CASE ~ApprovalRaises(p) /\ ReadScored(p)
  <2>1. PICK i : h' = [h EXCEPT ![p].copy = i, ![p].at = "file"]
    BY <1>4 DEF ReadScored
  <2> DEFINE next == [h[p] EXCEPT !.copy = i, !.at = "file"]
  <2>2. h' = [h EXCEPT ![p] = next] /\ Reads(p) /\ UNCHANGED <<call, answer>>
    BY <1>4, <2>1 DEF ReadScored
  <2>3. DOMAIN next = Locals /\ SameMarks(p, next) /\ next.todo = h[p].todo /\ next.at = "file"
    BY AskerFacts DEF Locals, SameMarks
  <2> HIDE DEF next
  <2> QED BY <1>1, <2>2, <2>3, GoesWithin
<1> QED BY <1>2, <1>3, <1>4

-----------------------------------------------------------------------------
(* Ends.                                                                   *)

(* A commit whose answer got lost, or a rollback.                          *)
LEMMA Lost ==
  ASSUME IInv, NEW p \in Requests, h[p].at # "done",
         RollsBack(p) \/ (h[p].at = "commit" /\ Commits(p)),
         Ends(p, Refused)
  PROVE  Kept(p)
<1>1. CASE RollsBack(p)
  BY <1>1, RolledBack DEF Kept
<1>2. CASE h[p].at = "commit" /\ Commits(p)
  BY <1>2, Committed DEF Kept
<1> QED BY <1>1, <1>2

LEMMA Commitments ==
  ASSUME IInv, NEW p \in Requests, Commit(p) \/ CommitVanishes(p) \/ CommitRaises(p)
  PROVE  Kept(p)
<1>1. CASE Commit(p)
  <2>1. h[p].at = "commit" /\ Commits(p) /\ Ends(p, Served(p))
    BY <1>1 DEF Commit
  <2> QED BY <2>1, Committed DEF Kept
<1>2. CASE CommitVanishes(p)
  BY <1>2, Vanished DEF Kept
<1>3. CASE CommitRaises(p)
  BY <1>3, Raised DEF CommitRaises
<1> QED BY <1>1, <1>2, <1>3

(* A wait that the database breaks.                                        *)
LEMMA DeadlockEnds ==
  ASSUME IInv, NEW p \in Requests, DeadlockDetected(p)
  PROVE  Kept(p) /\ h[p].at # "done" /\ Raises(p)
<1>1. Wanted(p) # {} /\ Raises(p)
  BY DEF DeadlockDetected, Deadlocked
<1>2. h[p].at # "done"
  BY <1>1 DEF Wanted
<1> QED BY <1>1, <1>2, Raised

(* A failed statement that is not noticed.                                 *)
LEMMA DiesUnnoticed ==
  ASSUME IInv, NEW p \in Requests, Dies(p), NEW to, h' = [h EXCEPT ![p].at = to],
         UNCHANGED <<call, answer>>,
         h[p].at \notin Applying \cup {"arrived", "commit", "done"},
         to \notin Applying \cup {"done", "update", "flush", "checkin"}, AskedBy(to, Does(p))
  PROVE  Kept(p)
<1> DEFINE next == [h[p] EXCEPT !.at = to]
<1>1. h' = [h EXCEPT ![p] = next] /\ Quietly(p) /\ call[p] # None
  BY QuietSessions, AskerFacts
<1>2. DOMAIN next = Locals /\ SameMarks(p, next) /\ next.at = to
  BY AskerFacts DEF Locals, SameMarks
<1> HIDE DEF next
<1> QED BY <1>1, <1>2, Steady DEF Kept

LEMMA Faults ==
  ASSUME IInv, NEW p \in Requests, Fault(p)
  PROVE  Kept(p)
<1>1. h[p].at \notin {"arrived", "done", "parse"}
  BY DEF Fault
<1>2. CASE h[p].at \in {"select", "profile"}
  <2>1. Dies(p) /\ h' = [h EXCEPT ![p].at = "save"] /\ UNCHANGED <<call, answer>>
    BY <1>2 DEF Fault
  <2>2. /\ h[p].at \notin Applying \cup {"arrived", "commit", "done"}
        /\ "save" \notin Applying \cup {"done", "update", "flush", "checkin"}
        /\ AskedBy("save", Does(p))
    BY <1>2, AskerFacts DEF Applying, AskedBy
  <2> QED BY <2>1, <2>2, DiesUnnoticed
<1>3. CASE h[p].at \notin {"select", "profile"} /\ Does(p) = "auto" /\ h[p].at \in Applying
  <2>1. Dies(p) /\ \E aborted : Skips(p, aborted)
    BY <1>3 DEF Fault, Applying
  <2> QED BY <1>3, <2>1, Skipping
<1>4. CASE h[p].at \notin {"select", "profile"} /\ ~(Does(p) = "auto" /\ h[p].at \in Applying)
  <2>1. /\ RollsBack(p) \/ (h[p].at = "commit" /\ Commits(p))
        /\ Ends(p, Refused)
    BY <1>4 DEF Fault, Applying
  <2> QED BY <1>1, <2>1, Lost
<1> QED BY <1>2, <1>3, <1>4

LEMMA Steps ==
  ASSUME IInv, NEW p \in Requests, ~Practises(p), Step(p) \/ Fault(p)
  PROVE  Kept(p)
<1>1. CASE Arrive(p)
  BY <1>1, Arrives
<1>2. CASE clear_primary(p) \/ mark_read(p) \/ Update(p)
  BY <1>2, Clears, MarksRead, Updates
<1>3. CASE get_for_user(p) \/ set_primary(p) \/ delete_resume(p) \/ Insert(p)
  BY <1>3, FindsResume, WritesResume
<1>4. CASE \/ Parse(p) \/ ParseFails(p) \/ ProfilingRaises(p) \/ FlushProfile(p)
           \/ save_parsed(p) \/ add_verified_skills(p)
  BY <1>4, Uploads
<1>5. CASE SelectProfile(p) \/ ReadSkills(p)
  BY <1>5, SelectsProfile, ReadsSkills
<1>6. CASE auto_apply(p) \/ ReadResume(p) \/ ReadScored(p)
  BY <1>6, AutoApplies, Approves
<1>7. CASE CreateApplication(p) \/ create_application_update(p)
  BY <1>7, Files, Tells DEF Kept
<1>8. CASE Commit(p) \/ CommitVanishes(p) \/ CommitRaises(p) \/ DeadlockDetected(p) \/ Fault(p)
  BY <1>8, Commitments, DeadlockEnds, Faults
<1> QED BY <1>1, <1>2, <1>3, <1>4, <1>5, <1>6, <1>7, <1>8 DEF Step

-----------------------------------------------------------------------------
(* The statements of Practice.                                             *)

LEMMA FirstStatements ==
  \A do \in DOMAIN FirstOf :
    /\ FirstOf[do] \notin Applying \cup {"done", "update", "flush", "checkin"}
    /\ AskedBy(FirstOf[do], do)
  BY DEF FirstOf, Applying, AskedBy

(* Statements whose successors rely on nothing but what was asked.         *)
Practising ==
  {"day", "checkin", "streak", "event", "lesson", "strengths", "confidence", "kit", "session",
   "remember", "feed", "result", "ask", "model", "context", "capture", "shadow", "answer",
   "memory", "count", "summary", "turns"}
Successors ==
  {"streak", "lesson", "strengths", "confidence", "remember", "feed", "result", "context",
   "answer", "memory", "summary", "commit"}

LEMMA Onward ==
  ASSUME NEW do
  PROVE  /\ \A to \in {"memory", "summary", "commit"} : AskedBy(to, do)
         /\ do = "chat" => AskedBy("context", do)
         /\ AskedBy("session", do) => AskedBy("remember", do)
         /\ AskedBy("remember", do) => AskedBy("feed", do)
         /\ AskedBy("feed", do) => AskedBy("result", do)
         /\ AskedBy("day", do) => AskedBy("checkin", do) /\ AskedBy("streak", do)
         /\ AskedBy("checkin", do) => AskedBy("streak", do)
         /\ AskedBy("event", do) => AskedBy("lesson", do)
         /\ AskedBy("lesson", do) => AskedBy("strengths", do) /\ AskedBy("confidence", do)
  BY DEF AskedBy

LEMMA Proceeds ==
  ASSUME IInv, NEW p \in Requests, Quietly(p), NEW to, Goes(p, to), h[p].at \in Practising,
         to \in Successors \cup {"model", "capture", "shadow"}, AskedBy(to, Does(p))
  PROVE  Kept(p)
<1>1. h[p].at \notin Applying \cup {"commit", "done"} /\ call[p] # None
  BY AskerFacts DEF Practising, Applying
<1>2. /\ to \notin Applying \cup {"done", "update", "flush", "checkin"}
      /\ AskedBy(to, Does(p))
  BY DEF Applying, Successors
<1> QED BY <1>1, <1>2, GoesOn DEF Kept

LEMMA Reviews ==
  ASSUME IInv, NEW p \in Requests, Reads(p), NEW value, NEW to, Keeps(p, value, to),
         h[p].at \in Practising,
         to \in Successors \/ (to = "checkin" /\ \A x \in value : x[1][1] = "checkin"),
         AskedBy(to, Does(p))
  PROVE  Kept(p)
<1>1. h[p].at \notin Applying \cup {"commit", "done"} /\ call[p] # None
  BY AskerFacts DEF Practising, Applying
<1>2. /\ to \notin Applying \cup {"done", "update", "flush"}
      /\ AskedBy(to, Does(p)) /\ (to = "checkin" => \A x \in value : x[1][1] = "checkin")
  BY DEF Applying, Successors
<1> QED BY <1>1, <1>2, KeepsOn DEF Kept

LEMMA SitsDown ==
  ASSUME IInv, NEW p \in Requests, Practises(p), Sit(p)
  PROVE  Kept(p)
<1>1. h[p].at = "arrived" /\ Quietly(p) /\ Goes(p, FirstOf[Does(p)])
  BY QuietSessions DEF Sit
<1>2. call[p] # None /\ Does(p) \in DOMAIN FirstOf
  BY DEF Practises
<1>3. h[p].at \notin Applying \cup {"commit", "done"}
  BY <1>1 DEF Applying
<1>4. /\ FirstOf[Does(p)] \notin Applying \cup {"done", "update", "flush", "checkin"}
      /\ AskedBy(FirstOf[Does(p)], Does(p))
  BY <1>2, FirstStatements
<1> QED BY <1>1, <1>2, <1>3, <1>4, GoesOn DEF Kept

LEMMA LooksUp ==
  ASSUME IInv, NEW p \in Requests,
         get_for_date(p) \/ CountStreak(p) \/ ReadTwin(p) \/ ReadHistory(p) \/ summarize_if_long(p)
  PROVE  Kept(p)
<1>1. h[p].at \in Practising /\ h[p].at # "done"
  BY DEF get_for_date, CountStreak, ReadTwin, ReadHistory, summarize_if_long, Runs, Practising
<1>2. Reads(p) => Quietly(p)
  BY QuietSessions
<1>3. CASE get_for_date(p)
  <2>1. CASE Raises(p)
    BY <1>1, <2>1, Raised
  <2>2. CASE ~Raises(p)
    <3>1. Reads(p) /\ Keeps(p, {<<i, View(p)[i].tasks>> : i \in Today(p)}, "checkin")
      BY <1>3, <2>2 DEF get_for_date
    <3>2. \A x \in {<<i, View(p)[i].tasks>> : i \in Today(p)} : x[1][1] = "checkin"
      BY DEF Today, Table
    <3>3. AskedBy("checkin", Does(p))
      BY <1>3, AskerFacts, Onward DEF get_for_date, Runs
    <3> QED BY <1>1, <3>1, <3>2, <3>3, Reviews
  <2> QED BY <2>1, <2>2
<1>4. CASE CountStreak(p)
  <2>1. Reads(p) /\ \E value : Keeps(p, value, "commit")
    BY <1>4 DEF CountStreak
  <2> QED BY <1>1, <2>1, Onward, Reviews DEF Successors
<1>5. CASE ReadTwin(p)
  <2>1. /\ Reads(p)
        /\ \/ Goes(p, "commit")
           \/ \E value : Keeps(p, value, "strengths") \/ Keeps(p, value, "confidence")
    BY <1>5 DEF ReadTwin
  <2>2. AskedBy("strengths", Does(p)) /\ AskedBy("confidence", Does(p)) /\ AskedBy("commit", Does(p))
    BY <1>5, AskerFacts, Onward DEF ReadTwin, Runs
  <2> QED BY <1>1, <1>2, <2>1, <2>2, Reviews, Proceeds DEF Successors
<1>6. CASE ReadHistory(p)
  <2>1. /\ Reads(p)
        /\ \/ Goes(p, "commit") \/ Goes(p, "memory")
           \/ \E value : Keeps(p, value, "result")
    BY <1>6 DEF ReadHistory
  <2>2. AskedBy("result", Does(p)) /\ AskedBy("commit", Does(p)) /\ AskedBy("memory", Does(p))
    BY <1>6, AskerFacts, Onward DEF ReadHistory, Runs
  <2> QED BY <1>1, <1>2, <2>1, <2>2, Reviews, Proceeds DEF Successors
<1>7. CASE summarize_if_long(p)
  <2>1. Reads(p) /\ (Goes(p, "commit") \/ Goes(p, "model")) /\ Does(p) = "summarize"
    BY <1>7, AskerFacts DEF summarize_if_long, Runs, AskedBy
  <2>2. AskedBy("model", Does(p))
    BY <2>1 DEF AskedBy
  <2> QED BY <1>1, <1>2, <2>1, <2>2, Onward, Proceeds DEF Successors
<1> QED BY <1>3, <1>4, <1>5, <1>6, <1>7

(* Rows of its own tables, and the twin's.                                 *)
LEMMA Records ==
  ASSUME IInv, NEW p \in Requests,
         \/ check_in(p) \/ record_feedback(p) \/ _apply_strengths(p) \/ _apply_rejection(p)
         \/ generate(p) \/ evaluate(p) \/ RememberScore(p) \/ add_interview_result(p)
         \/ add_answer(p) \/ _store_memory(p) \/ AddSummary(p)
  PROVE  Kept(p)
<1>1. h[p].at \in Practising /\ h[p].at # "done"
  BY DEF check_in, record_feedback, _apply_strengths, _apply_rejection, generate, evaluate,
         RememberScore, add_interview_result, add_answer, _store_memory, AddSummary, Runs, Practising
<1>2. CASE Raises(p)
  BY <1>1, <1>2, Raised
<1>3. CASE ~Raises(p)
  <2>1. \E to \in Successors : Goes(p, to) /\ AskedBy(to, Does(p))
    BY <1>3, AskerFacts, Onward
       DEF check_in, record_feedback, _apply_strengths, _apply_rejection, generate, evaluate,
           RememberScore, add_interview_result, add_answer, _store_memory, AddSummary, Runs, Successors
  <2>2. \A t, n : Mine(t, p, n)[1] = t
    BY DEF Mine
  <2>3. Reads(p) \/ \E i, row : Write(p, i, row) /\ i[1] \notin Filed
    <3>1. CASE check_in(p)
      <4>1. /\ h[p].at = "checkin"
            /\ \/ Reads(p) \/ Started(p)
               \/ \E found \in h[p].copy : \E row : Write(p, found[1], row)
        BY <3>1 DEF check_in, Runs
      <4>2. \A found \in h[p].copy : found[1][1] = "checkin"
        BY <4>1, AskerFacts DEF Held
      <4> QED BY <2>2, <4>1, <4>2 DEF Started, Filed
    <3>2. CASE record_feedback(p) \/ generate(p) \/ RememberScore(p)
      <4>1. \E row : Write(p, Mine("event", p, 0), row) \/ Write(p, Mine("interview", p, 0), row)
                       \/ Write(p, Mine("memory", p, 0), row)
        BY <1>3, <3>2 DEF record_feedback, generate, RememberScore
      <4> QED BY <2>2, <4>1 DEF Filed
    <3>3. CASE _apply_strengths(p) \/ _apply_rejection(p) \/ add_interview_result(p)
      <4>1. \A twin : Saves(p, twin) => Reads(p) \/ Write(p, TwinId, Flushed(p, twin))
        BY DEF Saves
      <4>2. Reads(p) \/ \E row : Write(p, TwinId, row)
        BY <3>3, <4>1 DEF _apply_strengths, _apply_rejection, add_interview_result
      <4> QED BY <4>2 DEF TwinId, Filed
    <3>4. CASE evaluate(p)
      <4>1. h[p].at = "session" /\ \E row : Write(p, call[p].id, row)
        BY <1>3, <3>4 DEF evaluate, Runs
      <4>2. call[p].id[1] = "interview"
        BY <4>1, AskerFacts DEF AskedBy
      <4> QED BY <4>1, <4>2 DEF Filed
    <3>5. CASE add_answer(p) \/ AddSummary(p) \/ _store_memory(p)
      <4>1. \E row : Write(p, Mine("turn", p, 2), row) \/ Write(p, Mine("turn", p, 3), row)
                       \/ Write(p, Mine("memory", p, 0), row)
        BY <3>5 DEF add_answer, AddSummary, _store_memory
      <4> QED BY <2>2, <4>1 DEF Filed
    <3> QED BY <3>1, <3>2, <3>3, <3>4, <3>5
  <2>4. Quietly(p)
    BY <2>3, QuietSessions, QuietWrites
  <2> QED BY <1>1, <2>1, <2>4, Proceeds
<1> QED BY <1>2, <1>3

(* What is told after the model has answered.                              *)
LEMMA ToldFacts ==
  ASSUME NEW p, Does(p) \in {"advise", "judge", "agent", "chat", "summarize"}
  PROVE  Told(p) \in Successors /\ AskedBy(Told(p), Does(p))
  BY DEF Told, Successors, AskedBy

LEMMA Converses ==
  ASSUME IInv, NEW p \in Requests,
         \/ add_question(p) \/ handle(p) \/ ModelFails(p) \/ BuildContext(p)
         \/ Capture(p) \/ Shadow(p) \/ clear(p)
  PROVE  Kept(p)
<1>1. h[p].at \in Practising /\ h[p].at # "done"
  BY DEF add_question, handle, ModelFails, BuildContext, Capture, Shadow, clear, Runs, Practising
<1>2. Reads(p) => Quietly(p)
  BY QuietSessions
<1>3. \A t, n : Mine(t, p, n)[1] = t
  BY DEF Mine
<1>4. CASE add_question(p)
  <2>1. Write(p, Mine("turn", p, 1), Turn("user")) /\ Goes(p, "model") /\ Does(p) = "advise"
    BY <1>4, AskerFacts DEF add_question, Runs, AskedBy
  <2>2. Quietly(p) /\ AskedBy("model", Does(p))
    BY <1>3, <2>1, QuietWrites DEF AskedBy, Filed
  <2> QED BY <1>1, <2>1, <2>2, Proceeds
<1>5. CASE handle(p)
  <2>1. /\ Reads(p) /\ Does(p) \in {"advise", "judge", "agent", "chat", "summarize"}
        /\ Goes(p, Told(p)) \/ (Does(p) = "chat" /\ Goes(p, "capture"))
    BY <1>5, AskerFacts DEF handle, Runs, AskedBy
  <2>2. Does(p) = "chat" => AskedBy("capture", Does(p))
    BY DEF AskedBy
  <2> QED BY <1>1, <1>2, <2>1, <2>2, ToldFacts, Proceeds
<1>6. CASE ModelFails(p)
  <2>1. Raises(p) \/ (Does(p) = "chat" /\ Reads(p) /\ Goes(p, "context"))
    BY <1>6 DEF ModelFails
  <2> QED BY <1>1, <1>2, <2>1, Onward, Raised, Proceeds DEF Successors
<1>7. CASE BuildContext(p)
  <2>1. Reads(p) /\ Goes(p, "commit")
    BY <1>7 DEF BuildContext
  <2> QED BY <1>1, <1>2, <2>1, Onward, Proceeds DEF Successors
<1>8. CASE Capture(p) \/ Shadow(p)
  <2>1. h[p].at \in {"capture", "shadow"} /\ Does(p) = "chat"
    BY <1>8, AskerFacts DEF Capture, Shadow, Runs, AskedBy
  <2>2. /\ Reads(p) \/ \E n, row : Write(p, Mine("capture", p, n), row)
        /\ Goes(p, "shadow") \/ Goes(p, Told(p))
    BY <1>8 DEF Capture, Shadow
  <2>3. Quietly(p) /\ AskedBy("shadow", Does(p))
    BY <1>2, <1>3, <2>1, <2>2, QuietWrites DEF AskedBy, Filed
  <2> QED BY <1>1, <2>1, <2>2, <2>3, ToldFacts, Proceeds
<1>9. CASE clear(p)
  <2> DEFINE K == Table("turn", View(p))
             none == [i \in K |-> Gone]
             new == Over(none, edits[p])
  <2>1. /\ edits' = [edits EXCEPT ![p] = new] /\ UNCHANGED <<rows, dead, open>>
        /\ Goes(p, "commit") /\ p \notin dead
    BY <1>9 DEF clear, Runs
  <2>2. /\ DOMAIN new = K \cup DOMAIN edits[p]
        /\ \A i \in DOMAIN edits[p] \ K : new[i] = edits[p][i]
    <3>1. DOMAIN none = K
      OBVIOUS
    <3> HIDE DEF none, K
    <3> QED BY <3>1, OverFacts
  <2>3. \A i \in K : i[1] \notin Filed
    BY DEF Table, Filed
  <2> HIDE DEF new, K, none
  <2>4. /\ DOMAIN edits = Requests
        /\ \A i \in DOMAIN edits[p] : i[1] \in Filed => DOMAIN edits[p][i] # {}
    BY DEF IInv, Domains, Ledger
  <2>5. /\ edits'[p] = new /\ DOMAIN edits' = Requests
        /\ \A q \in Requests \ {p} : edits'[q] = edits[q]
    BY <2>1, <2>4
  <2>6. \A i \in DOMAIN new : i[1] \in Filed => DOMAIN new[i] # {} /\ i \in DOMAIN edits[p] \cup DOMAIN rows
    BY <2>2, <2>3, <2>4
  <2>7. Quietly(p)
    BY <2>1, <2>2, <2>5, <2>6 DEF Quietly
  <2> QED BY <1>1, <2>1, <2>7, Onward, Proceeds DEF Successors
<1> QED BY <1>4, <1>5, <1>6, <1>7, <1>8, <1>9

LEMMA PracticeFaults ==
  ASSUME IInv, NEW p \in Requests, PracticeFault(p)
  PROVE  Kept(p)
<1>1. p \in open /\ h[p].at # "done"
  BY DEF PracticeFault, IInv, Place
<1>2. CASE /\ h[p].at \in {"remember", "memory", "capture", "shadow", "model"}
           /\ Dies(p)
           /\ h' = [h EXCEPT ![p].at = BestEffort(p)] /\ UNCHANGED <<call, answer>>
  <2>1. AskedBy(h[p].at, Does(p))
    BY AskerFacts
  <2>2. BestEffort(p) \in Successors /\ AskedBy(BestEffort(p), Does(p))
    <3>1. CASE h[p].at \in {"remember", "memory"}
      BY <2>1, <3>1, Onward DEF BestEffort, Successors
    <3>2. CASE h[p].at \in {"capture", "shadow", "model"}
      <4>1. BestEffort(p) = Told(p)
        BY <3>2 DEF BestEffort
      <4>2. Does(p) \in {"advise", "judge", "agent", "chat", "summarize"}
        BY <2>1, <3>2 DEF AskedBy
      <4> QED BY <4>1, <4>2, ToldFacts
    <3> QED BY <1>2, <3>1, <3>2
  <2> DEFINE to == BestEffort(p)
  <2> HIDE DEF to
  <2>3. /\ to \notin Applying \cup {"done", "update", "flush", "checkin"} /\ AskedBy(to, Does(p))
        /\ h[p].at \notin Applying \cup {"arrived", "commit", "done"}
    <3>1. to \in Successors /\ AskedBy(to, Does(p))
      BY <2>2 DEF to
    <3> QED BY <1>2, <3>1 DEF Successors, Applying
  <2>4. h' = [h EXCEPT ![p].at = to]
    BY <1>2 DEF to
  <2> QED BY <1>2, <2>3, <2>4, DiesUnnoticed
<1>3. CASE /\ RollsBack(p) \/ (h[p].at = "commit" /\ Commits(p))
           /\ Ends(p, Refused)
  BY <1>1, <1>3, Lost
<1>4. ASSUME h[p].at = "context", Dies(p), UNCHANGED <<call, answer>>,
             NEW aborted, h' = [h EXCEPT ![p].aborted = aborted, ![p].at = "commit"]
      PROVE  Kept(p)
  <2> DEFINE next == [h[p] EXCEPT !.aborted = aborted, !.at = "commit"]
  <2>1. h' = [h EXCEPT ![p] = next]
    BY <1>4
  <2>2. /\ DOMAIN next = Locals /\ next.queued = h[p].queued /\ next.skipped = h[p].skipped
        /\ next.at = "commit"
    BY AskerFacts DEF Locals
  <2> HIDE DEF next
  <2>3. /\ Quietly(p) /\ h'[p] = next /\ Does(p)' = Does(p)
        /\ call[p] # None /\ Does(p) = "chat" /\ h[p].queued = 0 /\ 0 \in 0..MaxApplications
    <3>1. Quietly(p) /\ h'[p] = next /\ Does(p)' = Does(p)
      BY <1>4, <2>1, QuietSessions, AskerFacts DEF Does
    <3>2. call[p] # None /\ Does(p) = "chat" /\ h[p].queued = 0
      BY <1>4, AskerFacts DEF AskedBy, Queue, Applying
    <3> QED BY <3>1, <3>2, JobsAssumption
  <2>4. Queue(p)' /\ Asker(p)' /\ Held(p)'
    BY <1>4, <2>2, <2>3 DEF Queue, Asker, AskedBy, Held, Applying
  <2>5. Spoilt(p)'
    BY <2>2, <2>3 DEF Spoilt, IInv, Place
  <2> QED BY <1>4, <2>1, <2>2, <2>3, <2>4, <2>5, QuietStep DEF Kept
<1> QED BY <1>2, <1>3, <1>4 DEF PracticeFault

LEMMA PracticeSteps ==
  ASSUME IInv, NEW p \in Requests, Practises(p), Practise(p) \/ PracticeFault(p)
  PROVE  Kept(p)
<1>1. CASE Sit(p)
  BY <1>1, SitsDown
<1>2. CASE get_for_date(p) \/ CountStreak(p) \/ ReadTwin(p) \/ ReadHistory(p) \/ summarize_if_long(p)
  BY <1>2, LooksUp
<1>3. CASE \/ check_in(p) \/ record_feedback(p) \/ _apply_strengths(p) \/ _apply_rejection(p)
           \/ generate(p) \/ evaluate(p) \/ RememberScore(p) \/ add_interview_result(p)
           \/ add_answer(p) \/ _store_memory(p) \/ AddSummary(p)
  BY <1>3, Records
<1>4. CASE \/ add_question(p) \/ handle(p) \/ ModelFails(p) \/ BuildContext(p)
           \/ Capture(p) \/ Shadow(p) \/ clear(p)
  BY <1>4, Converses
<1>5. CASE StatementRaises(p)
  BY <1>5, Raised DEF StatementRaises
<1>6. CASE Commit(p) \/ CommitVanishes(p) \/ CommitRaises(p)
  BY <1>6, Commitments
<1>7. CASE PracticeFault(p)
  BY <1>7, PracticeFaults
<1> QED BY <1>1, <1>2, <1>3, <1>4, <1>5, <1>6, <1>7 DEF Practise

-----------------------------------------------------------------------------
LEMMA Opening ==
  ASSUME NEW found \in Beginnings \cup {talk[2] : talk \in Talks}, SessionInit(found),
         call \in Calls \cup {talk[1] : talk \in Talks},
         h = [p \in Requests |-> Fresh], answer = [p \in Requests |-> None]
  PROVE  IInv /\ Books!Init
<1>1. /\ rows = found /\ edits = [p \in Requests |-> Nothing] /\ dead = {} /\ open = {}
  BY DEF SessionInit
<1>2. \A i \in DOMAIN rows : i[1] \in Filed => DOMAIN rows[i] # {} /\ i[2] = 0
  BY <1>1, FoundAssumption DEF Filed
<1>3. Asked
  BY AskedAssumption DEF Asked, Does
<1>4. \A p \in Requests : p # 0
  BY RequestsAssumption
<1>5. DOMAIN Nothing = {}
  BY DEF Nothing
<1>6. /\ DOMAIN Fresh = Locals /\ Fresh.at = "arrived" /\ Fresh.queued = 0
      /\ Fresh.skipped = FALSE /\ Fresh.aborted = FALSE
  BY DEF Fresh, Locals
<1>7. ASSUME NEW p \in Requests PROVE Ledger(p)
  <2>1. DOMAIN edits[p] = {} /\ h[p].queued = 0 /\ h[p].at = "arrived"
    BY <1>1, <1>5, <1>6
  <2>2. \A t : Reached(p, t) = 0
    BY <2>1 DEF Reached
  <2> QED BY <1>2, <1>4, <2>1, <2>2 DEF Ledger
<1>8. ASSUME NEW p \in Requests PROVE Place(p)
  <2>1. h[p] = Fresh /\ answer[p] = None /\ 0 \in 0..MaxApplications
    BY JobsAssumption
  <2> QED BY <1>1, <1>6, <2>1 DEF Place, Queue, Asker, AskedBy, Held, Spoilt, Applying
<1>9. RowsOK /\ Domains
  BY <1>1, <1>2 DEF RowsOK, Domains
<1>10. Ids("app") = {} /\ Ids("note") = {}
  BY <1>2 DEF Ids, Table, Filed
<1> QED BY <1>3, <1>7, <1>8, <1>9, <1>10 DEF IInv, Books!Init

LEMMA PracticeOpens == PracticeInit => IInv /\ Books!Init
  BY Opening DEF PracticeInit, Init

LEMMA PracticeGoesOn ==
  ASSUME IInv, [PracticeNext]_vars
  PROVE  IInv' /\ [Books!Next]_Books!desk
<1>1. CASE UNCHANGED vars
  <2>1. UNCHANGED <<rows, edits, dead, open, overlap, call, h, answer>>
    BY <1>1 DEF vars, session
  <2>2. IInv'
    BY <2>1 DEF IInv, Domains, Asked, RowsOK, Ledger, Reached, Place, Queue, Asker, Held, Spoilt, Matchable, Does
  <2>3. UNCHANGED <<Ids("app"), Ids("note"), answer>>
    BY <2>1 DEF Ids, Table
  <2> QED BY <2>2, <2>3 DEF Books!desk
<1>2. CASE PracticeNext
  <2>1. PICK p \in Requests : Kept(p)
    BY <1>2, Steps, PracticeSteps DEF PracticeNext, Serve, Fails
  <2>2. CASE UNCHANGED <<rows, answer>>
    <3>1. UNCHANGED <<Ids("app"), Ids("note"), answer>>
      BY <2>2 DEF Ids, Table
    <3> QED BY <2>1, <3>1 DEF Kept, Books!desk
  <2>3. CASE Books!Refuse(p) \/ Books!Serve(p) \/ Books!Mislead(p)
    BY <2>1, <2>3 DEF Kept, Books!Next
  <2> QED BY <2>1, <2>2, <2>3 DEF Kept
<1> QED BY <1>1, <1>2

(* A request files and announces all the applications it reports, or none: *)
(* the handlers, the transactions they run in and the failures implement   *)
(* the desk.                                                               *)
THEOREM BooksAreKept == PracticeSpec => KeepsBooks
<1>1. PracticeInit => IInv /\ Books!Init
  BY PracticeOpens
<1>2. IInv /\ [PracticeNext]_vars => IInv' /\ [Books!Next]_Books!desk
  BY PracticeGoesOn
<1> QED BY <1>1, <1>2, PTL DEF PracticeSpec, KeepsBooks, Books!Spec

-----------------------------------------------------------------------------
(* What one statement does to the transactions, and what it may write.     *)

(* The twin as a request means to write it back.                           *)
Fed(p) ==
  CASE h[p].at = "strengths" -> [h[p].copy EXCEPT !.strengths = @ \cup call[p].skills]
    [] h[p].at = "confidence" -> [h[p].copy EXCEPT !.confidence = Lowered(@, call[p].skills, 5)]
    [] h[p].at = "result" -> [h[p].copy EXCEPT !.history = @ + 1,
                                              !.strengths = @ \cup Lesson(p),
                                              !.weaknesses = @ \cup call[p].weak,
                                              !.confidence = Lowered(@, call[p].weak, 15)]

Permits(p, i, row) ==
  LET at == h[p].at IN
  /\ i[1] = "resume" =>
       \/ /\ at = "insert" /\ i = Own(p)
          /\ row = IF Does(p) = "upload"
                   THEN [status |-> "parsing", primary |-> call[p].primary, skills |-> None]
                   ELSE [status |-> "parsed", primary |-> FALSE, skills |-> None]
       \/ /\ at = "save" /\ i = Own(p)
          /\ row = [edits[p][Own(p)] EXCEPT !.status = "parsed", !.skills = call[p].skills]
       \/ /\ i \in DOMAIN View(p)
          /\ \/ /\ at = "update" /\ Does(p) \in {"upload", "set_primary"}
                /\ row = [View(p)[i] EXCEPT !.primary = FALSE]
             \/ at = "promote" /\ i = call[p].id /\ row = [View(p)[i] EXCEPT !.primary = TRUE]
             \/ at = "delete" /\ i = call[p].id /\ row = Gone
             \/ /\ at = "flush" /\ i = h[p].resume
                /\ row = [View(p)[i] EXCEPT !.skills = h[p].copy \cup {call[p].skill}]
  /\ i[1] = "app" =>
       at = "file" /\ i = AppId(p) /\ row = [job |-> Job(p), resume |-> h[p].resume, scored |-> h[p].copy]
  /\ i[1] = "turn" =>
       \/ at = "ask" /\ i = Mine("turn", p, 1) /\ row = Turn("user")
       \/ at = "answer" /\ i = Mine("turn", p, 2) /\ row = Turn("assistant")
       \/ at = "summary" /\ i = Mine("turn", p, 3) /\ row = Turn("system")
  /\ i[1] = "memory" => /\ at \in {"remember", "memory"} /\ i = Mine("memory", p, 0)
                        /\ DOMAIN row # {}
  /\ i[1] = "event" => at = "event" /\ i = Mine("event", p, 0) /\ DOMAIN row # {}
  /\ i[1] = "checkin" =>
       /\ at = "checkin"
       /\ \/ /\ h[p].copy = {} /\ i = Mine("checkin", p, 0)
             /\ row = [day |-> 0, tasks |-> call[p].tasks]
          \/ \E found \in h[p].copy :
               /\ call[p].tasks > found[2] /\ i = found[1]
               /\ row = [View(p)[i] EXCEPT !.tasks = call[p].tasks]
  /\ i[1] = "twin" =>
       i = TwinId /\ at \in {"strengths", "confidence", "result"} /\ row = Flushed(p, Fed(p))

Reading(p) == answer' = answer /\ ((Reads(p) /\ h[p].at # "arrived") \/ (Begins(p) /\ h[p].at = "arrived"))
Writing(p) == answer' = answer /\ h[p].at # "arrived" /\ \E i, row : Write(p, i, row) /\ Permits(p, i, row)
Clearing(p) ==
  LET K == Table("turn", View(p)) IN
  /\ h[p].at = "turns" /\ p \notin dead /\ \A i \in K : Free(p, i)
  /\ edits' = [edits EXCEPT ![p] = Over([i \in K |-> Gone], @)]
  /\ UNCHANGED <<rows, dead, open, overlap, answer>>
Dying(p) == answer' = answer /\ Dies(p) /\ h[p].at \notin {"arrived", "commit"}
Quitting(p) ==
  /\ RollsBack(p)
  /\ Ends(p, Refused) \/ (Ends(p, Served(p)) /\ Does(p) \in {"auto", "chat"})
Committing(p) == Commits(p) /\ h[p].at = "commit" /\ \E a \in {Refused, Served(p)} : Ends(p, a)

(* A step of p: what it does to the session, and that it ends only then.   *)
Transacts(p) ==
  /\ call' = call /\ h[p].at # "done"
  /\ \A q \in Requests \ {p} : h'[q] = h[q] /\ answer'[q] = answer[q]
  /\ \/ /\ Reading(p) \/ Writing(p) \/ Clearing(p) \/ Dying(p)
        /\ h'[p].at \notin {"arrived", "done"}
     \/ Quitting(p) \/ Committing(p)

LEMMA MineFacts ==
  \A t, p, n : Mine(t, p, n) = <<t, p, n>> /\ Mine(t, p, n)[1] = t
  BY DEF Mine

(* Most statements leave the locals of the others and end nothing.         *)
LEMMA Going ==
  ASSUME IInv, NEW p \in Requests, NEW next, h' = [h EXCEPT ![p] = next],
         UNCHANGED <<call, answer>>, h[p].at # "done", next.at \notin {"arrived", "done"},
         Reading(p) \/ Writing(p) \/ Clearing(p) \/ Dying(p)
  PROVE  Transacts(p)
<1>1. DOMAIN h = Requests
  BY DEF IInv, Domains
<1> QED BY <1>1 DEF Transacts

LEMMA GoingTo ==
  ASSUME IInv, NEW p \in Requests, NEW to, Goes(p, to) \/ \E value : Keeps(p, value, to),
         h[p].at # "done", to \notin {"arrived", "done"},
         Reading(p) \/ Writing(p) \/ Clearing(p) \/ Dying(p)
  PROVE  Transacts(p)
<1>1. DOMAIN h[p] = Locals
  BY AskerFacts
<1>2. CASE Goes(p, to)
  <2> DEFINE next == [h[p] EXCEPT !.at = to]
  <2>1. h' = [h EXCEPT ![p] = next] /\ UNCHANGED <<call, answer>>
    BY <1>2 DEF Goes
  <2>2. next.at = to
    BY <1>1 DEF Locals
  <2> HIDE DEF next
  <2> QED BY <2>1, <2>2, Going
<1>3. ASSUME NEW value, Keeps(p, value, to) PROVE Transacts(p)
  <2> DEFINE next == [h[p] EXCEPT !.copy = value, !.at = to]
  <2>1. h' = [h EXCEPT ![p] = next] /\ UNCHANGED <<call, answer>>
    BY <1>3 DEF Keeps
  <2>2. next.at = to
    BY <1>1 DEF Locals
  <2> HIDE DEF next
  <2> QED BY <2>1, <2>2, Going
<1> QED BY <1>2, <1>3

LEMMA Ending ==
  ASSUME IInv, NEW p \in Requests, h[p].at # "done", Quitting(p) \/ Committing(p)
  PROVE  Transacts(p)
<1>1. DOMAIN h = Requests /\ DOMAIN answer = Requests
  BY DEF IInv, Domains
<1>2. \A q \in Requests \ {p} : h'[q] = h[q] /\ answer'[q] = answer[q]
  BY <1>1 DEF Quitting, Committing, Ends
<1> QED BY <1>2 DEF Transacts, Quitting, Committing, Ends

LEMMA Raising ==
  ASSUME IInv, NEW p \in Requests, h[p].at # "done", Raises(p)
  PROVE  Transacts(p)
  BY Ending DEF Raises, Quitting

LEMMA ReadingFacts ==
  ASSUME NEW p, answer' = answer, Reads(p), h[p].at # "arrived"
  PROVE  Reading(p)
  BY DEF Reading

LEMMA WritingFacts ==
  ASSUME NEW p, answer' = answer, NEW i, NEW row, Write(p, i, row), Permits(p, i, row), h[p].at # "arrived"
  PROVE  Writing(p)
  BY DEF Writing

LEMMA ApplyingTransacts ==
  ASSUME IInv, NEW p \in Requests, ~Practises(p), Arrive(p) \/ clear_primary(p) \/ mark_read(p) \/ Update(p)
  PROVE  Transacts(p)
<1>1. DOMAIN h[p] = Locals
  BY AskerFacts
<1>2. CASE Arrive(p)
  <2>1. call[p] # None /\ h[p].at = "arrived" /\ Begins(p) /\ Goes(p, Entry(p))
    BY <1>2 DEF Arrive
  <2>2. Does(p) \in Applies
    BY <2>1 DEF Practises, IInv, Asked
  <2>3. Entry(p) \notin {"arrived", "done"}
    BY <2>2 DEF Entry, Applies
  <2>4. Reading(p)
    BY <2>1 DEF Reading, Goes
  <2> QED BY <2>1, <2>3, <2>4, GoingTo
<1>3. ASSUME NEW K, Matches(p, K), h[p].at \in {"clear", "notes"} PROVE Transacts(p)
  <2> DEFINE to == IF K = {} THEN Then(p) ELSE "update"
             next == [h[p] EXCEPT !.match = K, !.at = to]
  <2>1. h' = [h EXCEPT ![p] = next] /\ UNCHANGED <<call, answer>> /\ Reads(p)
    BY <1>3 DEF Matches
  <2>2. next.at \notin {"arrived", "done"}
    BY <1>1 DEF Locals, Then
  <2> HIDE DEF next
  <2>3. Reading(p)
    BY <1>3, <2>1 DEF Reading
  <2> QED BY <1>3, <2>1, <2>2, <2>3, Going
<1>4. CASE clear_primary(p) \/ mark_read(p)
  BY <1>3, <1>4 DEF clear_primary, mark_read
<1>5. CASE Update(p)
  <2>1. PICK i \in h[p].match :
          /\ \/ Write(p, i, Set(p, View(p)[i])) /\ i \in DOMAIN View(p)
             \/ Reads(p)
          /\ h' = [h EXCEPT ![p].match = @ \ {i},
                            ![p].at = IF h[p].match = {i} THEN Then(p) ELSE @]
    BY <1>5 DEF Update
  <2>2. h[p].at = "update" /\ UNCHANGED <<call, answer>>
    BY <1>5 DEF Update
  <2> DEFINE to == IF h[p].match = {i} THEN Then(p) ELSE h[p].at
             next == [h[p] EXCEPT !.match = h[p].match \ {i}, !.at = to]
  <2>3. h' = [h EXCEPT ![p] = next]
    BY <2>1
  <2>4. next.at \notin {"arrived", "done"}
    BY <1>1, <2>2 DEF Locals, Then
  <2> HIDE DEF next
  <2>5. ASSUME Write(p, i, Set(p, View(p)[i])), i \in DOMAIN View(p)
        PROVE  Writing(p)
    <3>1. Matchable(p, i)
      BY <2>2, AskerFacts DEF Held
    <3>2. Permits(p, i, Set(p, View(p)[i]))
      BY <2>2, <2>5, <3>1 DEF Matchable, Permits, Set
    <3> QED BY <2>2, <2>5, <3>2, WritingFacts
  <2>6. Reading(p) \/ Writing(p)
    BY <2>1, <2>2, <2>5, ReadingFacts
  <2> QED BY <2>2, <2>3, <2>4, <2>6, Going
<1> QED BY <1>2, <1>4, <1>5

LEMMA ResumesTransact ==
  ASSUME IInv, NEW p \in Requests,
         \/ get_for_user(p) \/ set_primary(p) \/ delete_resume(p) \/ Insert(p)
         \/ Parse(p) \/ ParseFails(p) \/ ProfilingRaises(p) \/ FlushProfile(p)
         \/ save_parsed(p) \/ add_verified_skills(p) \/ SelectProfile(p) \/ ReadSkills(p)
  PROVE  Transacts(p)
<1>1. DOMAIN h[p] = Locals
  BY AskerFacts
<1>2. CASE Raises(p)
  <2>1. h[p].at # "done"
    BY DEF get_for_user, set_primary, delete_resume, Insert, Parse, ParseFails, ProfilingRaises,
           FlushProfile, save_parsed, add_verified_skills, SelectProfile, ReadSkills
  <2> QED BY <1>2, <2>1, Raising
<1>3. CASE get_for_user(p) /\ ~Raises(p)
  <2> DEFINE to == CASE Does(p) = "set_primary" -> "clear" [] Does(p) = "delete" -> "delete"
                     [] Does(p) = "rewrite" -> "insert"
             next == [h[p] EXCEPT !.copy = SkillsOf(p, call[p].id), !.at = to]
  <2>1. /\ h[p].at = "find" /\ Reads(p) /\ h' = [h EXCEPT ![p] = next] /\ UNCHANGED <<call, answer>>
    BY <1>3 DEF get_for_user
  <2>2. next.at \notin {"arrived", "done"}
    BY <1>1, <2>1, AskerFacts DEF Locals, AskedBy
  <2> HIDE DEF next
  <2> QED BY <2>1, <2>2, ReadingFacts, Going
<1>4. CASE set_primary(p) \/ delete_resume(p)
  <2>1. h[p].at \in {"promote", "delete"} /\ Goes(p, "commit") /\ call[p].id[1] = "resume"
    BY <1>4, AskerFacts DEF set_primary, delete_resume, AskedBy
  <2>2. \/ Reads(p)
        \/ /\ call[p].id \in DOMAIN View(p)
           /\ \/ /\ h[p].at = "promote"
                 /\ Write(p, call[p].id, [View(p)[call[p].id] EXCEPT !.primary = TRUE])
              \/ h[p].at = "delete" /\ Write(p, call[p].id, Gone)
    BY <1>4 DEF set_primary, delete_resume
  <2>3. h[p].at = "promote" => Permits(p, call[p].id, [View(p)[call[p].id] EXCEPT !.primary = TRUE])
                                \/ call[p].id \notin DOMAIN View(p)
    BY <2>1 DEF Permits
  <2>4. h[p].at = "delete" => Permits(p, call[p].id, Gone) \/ call[p].id \notin DOMAIN View(p)
    BY <2>1 DEF Permits
  <2>5. answer' = answer
    BY <2>1 DEF Goes
  <2>6. Reading(p) \/ Writing(p)
    BY <2>1, <2>2, <2>3, <2>4, <2>5, ReadingFacts, WritingFacts
  <2> QED BY <2>1, <2>6, GoingTo
<1>5. CASE Insert(p)
  <2> DEFINE row == IF Does(p) = "upload"
                    THEN [status |-> "parsing", primary |-> call[p].primary, skills |-> None]
                    ELSE [status |-> "parsed", primary |-> FALSE, skills |-> None]
  <2>1. h[p].at = "insert" /\ Write(p, Own(p), row) /\ (Goes(p, "parse") \/ Goes(p, "commit"))
    BY <1>5 DEF Insert
  <2>2. Permits(p, Own(p), row)
    BY <2>1 DEF Permits, Own
  <2>3. Writing(p)
    BY <2>1, <2>2, WritingFacts DEF Goes
  <2> QED BY <2>1, <2>3, GoingTo
<1>6. CASE Parse(p) \/ ProfilingRaises(p)
  <2>1. h[p].at \in {"parse", "select"} /\ Reads(p) /\ (Goes(p, "select") \/ Goes(p, "save"))
    BY <1>6 DEF Parse, ProfilingRaises
  <2> QED BY <2>1, ReadingFacts, GoingTo DEF Goes
<1>7. CASE FlushProfile(p)
  <2>1. h[p].at = "profile" /\ (Dies(p) \/ Write(p, Profile, [by |-> p])) /\ Goes(p, "save")
    BY <1>7 DEF FlushProfile
  <2>2. Permits(p, Profile, [by |-> p])
    BY DEF Permits, Profile
  <2>3. Writing(p) \/ Dying(p)
    BY <2>1, <2>2, WritingFacts DEF Goes, Dying
  <2> QED BY <2>1, <2>3, GoingTo
<1>8. CASE save_parsed(p) /\ ~Raises(p)
  <2> DEFINE row == [edits[p][Own(p)] EXCEPT !.status = "parsed", !.skills = call[p].skills]
  <2>1. h[p].at = "save" /\ Write(p, Own(p), row) /\ Goes(p, "commit")
    BY <1>8 DEF save_parsed
  <2>2. Permits(p, Own(p), row)
    BY <2>1 DEF Permits, Own
  <2> HIDE DEF row
  <2>3. Writing(p)
    BY <2>1, <2>2, WritingFacts DEF Goes
  <2> QED BY <2>1, <2>3, GoingTo
<1>9. CASE add_verified_skills(p) /\ ~Raises(p)
  <2> DEFINE i == h[p].resume
             row == [View(p)[i] EXCEPT !.skills = h[p].copy \cup {call[p].skill}]
  <2>1. h[p].at = "flush" /\ Write(p, i, row) /\ Goes(p, "commit") /\ i \in DOMAIN View(p)
    BY <1>9 DEF add_verified_skills
  <2>2. Permits(p, i, row)
    BY <2>1, AskerFacts DEF Permits, Held
  <2> HIDE DEF row, i
  <2>3. Writing(p)
    BY <2>1, <2>2, WritingFacts DEF Goes
  <2> QED BY <2>1, <2>3, GoingTo
<1>10. CASE SelectProfile(p)
  <2> DEFINE next == [h[p] EXCEPT !.resume = IF Profile \in DOMAIN View(p) THEN Profile ELSE None,
                                  !.at = "profile"]
  <2>1. h[p].at = "select" /\ Reads(p) /\ h' = [h EXCEPT ![p] = next] /\ UNCHANGED <<call, answer>>
    BY <1>10 DEF SelectProfile
  <2>2. next.at \notin {"arrived", "done"}
    BY <1>1 DEF Locals
  <2> HIDE DEF next
  <2> QED BY <2>1, <2>2, ReadingFacts, Going
<1>11. CASE ReadSkills(p) /\ ~Raises(p)
  <2>1. PICK i \in get_primary(p) : TRUE /\
          LET new == call[p].skill \notin View(p)[i].skills
          IN /\ Reads(p)
             /\ h' = [h EXCEPT ![p].resume = i, ![p].copy = View(p)[i].skills, ![p].told = new,
                               ![p].at = IF new THEN "flush" ELSE "commit"]
             /\ UNCHANGED <<call, answer>>
    BY <1>11 DEF ReadSkills
  <2> DEFINE new == call[p].skill \notin View(p)[i].skills
             next == [h[p] EXCEPT !.resume = i, !.copy = View(p)[i].skills, !.told = new,
                                  !.at = IF new THEN "flush" ELSE "commit"]
  <2>2. h[p].at = "skills" /\ Reads(p) /\ h' = [h EXCEPT ![p] = next] /\ UNCHANGED <<call, answer>>
    BY <1>11, <2>1 DEF ReadSkills
  <2>3. next.at \notin {"arrived", "done"}
    BY <1>1 DEF Locals
  <2> HIDE DEF next
  <2> QED BY <2>2, <2>3, ReadingFacts, Going
<1> QED BY <1>2, <1>3, <1>4, <1>5, <1>6, <1>7, <1>8, <1>9, <1>10, <1>11 DEF ParseFails


LEMMA SkippingTransacts ==
  ASSUME IInv, NEW p \in Requests, NEW aborted, Skips(p, aborted), h[p].at \in Applying, Reads(p) \/ Dies(p)
  PROVE  Transacts(p)
<1> DEFINE to == IF Len(h[p].todo) = 1 THEN "commit" ELSE "resume"
           next == [h[p] EXCEPT !.todo = Tail(h[p].todo), !.skipped = TRUE, !.aborted = aborted, !.at = to]
<1>1. h' = [h EXCEPT ![p] = next] /\ UNCHANGED <<call, answer>>
  BY DEF Skips
<1>2. next.at \notin {"arrived", "done"}
  BY AskerFacts DEF Locals
<1> HIDE DEF next
<1>3. h[p].at \notin {"arrived", "commit", "done"}
  BY DEF Applying
<1>4. Reading(p) \/ Dying(p)
  BY <1>1, <1>3 DEF Reading, Dying
<1> QED BY <1>1, <1>2, <1>3, <1>4, Going

LEMMA AgentsTransact ==
  ASSUME IInv, NEW p \in Requests,
         \/ auto_apply(p) \/ ReadResume(p) \/ ReadScored(p)
         \/ CreateApplication(p) \/ create_application_update(p)
  PROVE  Transacts(p)
<1>1. DOMAIN h[p] = Locals
  BY AskerFacts
<1>2. h[p].at # "done" /\ h[p].at # "arrived"
  BY DEF auto_apply, ReadResume, ReadScored, CreateApplication, create_application_update
<1>3. CASE auto_apply(p)
  <2>1. CASE Raises(p)
    BY <1>2, <2>1, Raising
  <2>2. CASE ~Raises(p)
    <3>1. PICK i \in get_primary(p) :
            h' = [h EXCEPT ![p].todo = Targets(SkillsOf(p, i)),
                           ![p].at = IF Targets(SkillsOf(p, i)) = <<>> THEN "commit" ELSE "resume"]
      BY <1>3, <2>2 DEF auto_apply
    <3> DEFINE todo == Targets(SkillsOf(p, i))
               to == IF todo = <<>> THEN "commit" ELSE "resume"
               next == [h[p] EXCEPT !.todo = todo, !.at = to]
    <3>2. h' = [h EXCEPT ![p] = next] /\ Reads(p) /\ UNCHANGED <<call, answer>>
      BY <1>3, <2>2, <3>1 DEF auto_apply
    <3>3. next.at \notin {"arrived", "done"}
      BY <1>1 DEF Locals
    <3> HIDE DEF next
    <3> QED BY <1>2, <3>2, <3>3, ReadingFacts, Going
  <2> QED BY <2>1, <2>2
<1>4. CASE (ReadResume(p) \/ ReadScored(p)) /\ ApprovalRaises(p)
  <2>1. h[p].at \in Applying
    BY <1>4 DEF ReadResume, ReadScored, Applying
  <2> QED BY <1>2, <1>4, <2>1, Raising, SkippingTransacts DEF ApprovalRaises
<1>5. CASE ReadResume(p) /\ ~ApprovalRaises(p)
  <2>1. PICK i : h' = [h EXCEPT ![p].resume = i, ![p].at = "score",
                                ![p].guess = Primaries(View(p)) = {}]
    BY <1>5 DEF ReadResume
  <2> DEFINE guess == Primaries(View(p)) = {}
             next == [h[p] EXCEPT !.resume = i, !.at = "score", !.guess = guess]
  <2>2. h' = [h EXCEPT ![p] = next] /\ Reads(p) /\ UNCHANGED <<call, answer>>
    BY <1>5, <2>1 DEF ReadResume
  <2>3. next.at \notin {"arrived", "done"}
    <3> HIDE DEF guess
    <3> QED BY <1>1 DEF Locals
  <2> HIDE DEF next
  <2> QED BY <1>2, <2>2, <2>3, ReadingFacts, Going
<1>6. CASE ReadScored(p) /\ ~ApprovalRaises(p)
  <2>1. PICK i : h' = [h EXCEPT ![p].copy = i, ![p].at = "file"]
    BY <1>6 DEF ReadScored
  <2> DEFINE next == [h[p] EXCEPT !.copy = i, !.at = "file"]
  <2>2. h' = [h EXCEPT ![p] = next] /\ Reads(p) /\ UNCHANGED <<call, answer>>
    BY <1>6, <2>1 DEF ReadScored
  <2>3. next.at \notin {"arrived", "done"}
    BY <1>1 DEF Locals
  <2> HIDE DEF next
  <2> QED BY <1>2, <2>2, <2>3, ReadingFacts, Going
<1>7. CASE CreateApplication(p)
  <2> DEFINE row == [job |-> Job(p), resume |-> h[p].resume, scored |-> h[p].copy]
  <2>1. h[p].at = "file" /\ Write(p, AppId(p), row) /\ Goes(p, "tell")
    BY <1>7 DEF CreateApplication
  <2>2. Permits(p, AppId(p), row)
    BY <2>1 DEF Permits, AppId
  <2> HIDE DEF row
  <2>3. Writing(p)
    BY <2>1, <2>2, WritingFacts DEF Goes
  <2> QED BY <1>2, <2>1, <2>3, GoingTo
<1>8. CASE create_application_update(p)
  <2> DEFINE more == Does(p) = "auto" /\ Len(h[p].todo) > 1
             rest == IF h[p].todo = <<>> THEN h[p].todo ELSE Tail(h[p].todo)
             to == IF more THEN "resume" ELSE "commit"
             next == [h[p] EXCEPT !.queued = h[p].queued + 1, !.todo = rest, !.at = to]
  <2>1. h[p].at = "tell" /\ _create(p, Job(p)) /\ UNCHANGED <<call, answer>>
    BY <1>8 DEF create_application_update
  <2>2. h' = [h EXCEPT ![p] = next]
    BY <1>8 DEF create_application_update
  <2> HIDE DEF more, rest
  <2>3. next.at \notin {"arrived", "done"}
    BY <1>1 DEF Locals
  <2> HIDE DEF next
  <2>4. \A row : Permits(p, NoteId(p), row)
    BY DEF Permits, NoteId
  <2>5. Writing(p)
    BY <1>2, <2>1, <2>4, WritingFacts DEF _create
  <2> QED BY <1>2, <2>1, <2>2, <2>3, <2>5, Going
<1> QED BY <1>3, <1>4, <1>5, <1>6, <1>7, <1>8

LEMMA EndsTransact ==
  ASSUME IInv, NEW p \in Requests, h[p].at # "done",
         \/ Commit(p) \/ CommitVanishes(p) \/ CommitRaises(p)
         \/ /\ RollsBack(p) \/ (h[p].at = "commit" /\ Commits(p))
            /\ Ends(p, Refused)
  PROVE  Transacts(p)
<1>1. CASE Commit(p)
  <2>1. Commits(p) /\ h[p].at = "commit" /\ Ends(p, Served(p))
    BY <1>1 DEF Commit
  <2> QED BY <2>1, Ending DEF Committing
<1>2. CASE CommitVanishes(p)
  <2>1. RollsBack(p) /\ Ends(p, Served(p)) /\ h[p].at = "commit" /\ h[p].aborted
    BY <1>2 DEF CommitVanishes
  <2>2. Does(p) \in {"auto", "chat"}
    BY <2>1 DEF IInv, Place, Spoilt
  <2> QED BY <2>1, <2>2, Ending DEF Quitting
<1>3. CASE CommitRaises(p)
  BY <1>3, Raising DEF CommitRaises
<1>4. CASE RollsBack(p) /\ Ends(p, Refused)
  BY <1>4, Ending DEF Quitting
<1>5. CASE h[p].at = "commit" /\ Commits(p) /\ Ends(p, Refused)
  BY <1>5, Ending DEF Committing
<1> QED BY <1>1, <1>2, <1>3, <1>4, <1>5

LEMMA DyingTransacts ==
  ASSUME IInv, NEW p \in Requests, Dies(p), NEW to, h' = [h EXCEPT ![p].at = to],
         UNCHANGED <<call, answer>>, h[p].at \notin {"arrived", "commit", "done"},
         to \notin {"arrived", "done"}
  PROVE  Transacts(p)
<1> DEFINE next == [h[p] EXCEPT !.at = to]
<1>1. h' = [h EXCEPT ![p] = next] /\ next.at = to
  BY AskerFacts DEF Locals
<1> HIDE DEF next
<1>2. Dying(p)
  BY DEF Dying
<1> QED BY <1>1, <1>2, Going

LEMMA FaultsTransact ==
  ASSUME IInv, NEW p \in Requests, Fault(p)
  PROVE  Transacts(p)
<1>1. h[p].at \notin {"arrived", "done", "parse"}
  BY DEF Fault
<1>2. CASE h[p].at \in {"select", "profile"}
  <2> DEFINE to == "save"
  <2>1. Dies(p) /\ h' = [h EXCEPT ![p].at = to] /\ UNCHANGED <<call, answer>>
    BY <1>2 DEF Fault
  <2>2. to \notin {"arrived", "done"} /\ h[p].at \notin {"arrived", "commit", "done"}
    BY <1>2
  <2> HIDE DEF to
  <2> QED BY <2>1, <2>2, DyingTransacts
<1>3. CASE h[p].at \notin {"select", "profile"} /\ Does(p) = "auto" /\ h[p].at \in Applying
  <2>1. Dies(p) /\ \E aborted : Skips(p, aborted)
    BY <1>3 DEF Fault, Applying
  <2> QED BY <1>3, <2>1, SkippingTransacts
<1>4. CASE h[p].at \notin {"select", "profile"} /\ ~(Does(p) = "auto" /\ h[p].at \in Applying)
  <2>1. /\ RollsBack(p) \/ (h[p].at = "commit" /\ Commits(p))
        /\ Ends(p, Refused)
    BY <1>4 DEF Fault, Applying
  <2> QED BY <1>1, <2>1, EndsTransact
<1> QED BY <1>2, <1>3, <1>4


LEMMA ProceedingTransacts ==
  ASSUME IInv, NEW p \in Requests, h[p].at \in Practising,
         NEW to \in Successors \cup {"checkin", "model", "capture", "shadow"},
         Goes(p, to) \/ \E value : Keeps(p, value, to),
         Reads(p) \/ \E i, row : Write(p, i, row) /\ Permits(p, i, row)
  PROVE  Transacts(p)
<1>1. h[p].at \notin {"arrived", "done"} /\ to \notin {"arrived", "done"}
  BY DEF Practising, Successors
<1>2. answer' = answer
  BY DEF Goes, Keeps
<1>3. Reading(p) \/ Writing(p)
  BY <1>1, <1>2 DEF Reading, Writing
<1> QED BY <1>1, <1>3, GoingTo

LEMMA SittingTransacts ==
  ASSUME IInv, NEW p \in Requests, Practises(p), Sit(p)
  PROVE  Transacts(p)
<1>1. h[p].at = "arrived" /\ Begins(p) /\ Goes(p, FirstOf[Does(p)]) /\ answer' = answer
  BY DEF Sit, Goes
<1>2. FirstOf[Does(p)] \notin {"arrived", "done"}
  BY DEF Practises, FirstOf
<1> QED BY <1>1, <1>2, GoingTo DEF Reading

LEMMA LooksTransact ==
  ASSUME IInv, NEW p \in Requests,
         \/ get_for_date(p) \/ CountStreak(p) \/ ReadTwin(p) \/ ReadHistory(p)
         \/ summarize_if_long(p) \/ handle(p) \/ ModelFails(p) \/ BuildContext(p)
  PROVE  Transacts(p)
<1>1. h[p].at \in Practising /\ h[p].at # "done"
  BY DEF get_for_date, CountStreak, ReadTwin, ReadHistory, summarize_if_long, handle, ModelFails,
         BuildContext, Runs, Practising
<1>2. CASE Raises(p)
  BY <1>1, <1>2, Raising
<1>3. CASE ~Raises(p) /\ ~handle(p)
  <2>1. /\ Reads(p)
        /\ \E to \in Successors \cup {"checkin", "model"} :
              Goes(p, to) \/ \E value : Keeps(p, value, to)
    BY <1>3 DEF get_for_date, CountStreak, ReadTwin, ReadHistory, summarize_if_long, ModelFails,
                BuildContext, Successors
  <2> QED BY <1>1, <2>1, ProceedingTransacts
<1>4. CASE handle(p)
  <2>1. /\ Reads(p) /\ Does(p) \in {"advise", "judge", "agent", "chat", "summarize"}
        /\ Goes(p, Told(p)) \/ Goes(p, "capture")
    BY <1>4, AskerFacts DEF handle, Runs, AskedBy
  <2> QED BY <1>1, <2>1, ToldFacts, ProceedingTransacts
<1> QED BY <1>2, <1>3, <1>4

LEMMA CheckingInTransacts ==
  ASSUME IInv, NEW p \in Requests, check_in(p)
  PROVE  Transacts(p)
<1>1. h[p].at = "checkin" /\ h[p].at \in Practising /\ Goes(p, "streak") /\ "streak" \in Successors
  BY DEF check_in, Runs, Practising, Successors
<1>2. CASE Reads(p)
  BY <1>1, <1>2, ProceedingTransacts
<1>3. CASE h[p].copy = {} /\ Started(p)
  <2> DEFINE row == [day |-> 0, tasks |-> call[p].tasks]
  <2>1. Write(p, Mine("checkin", p, 0), row)
    BY <1>3 DEF Started
  <2>2. Permits(p, Mine("checkin", p, 0), row)
    BY <1>1, <1>3, MineFacts DEF Permits
  <2> QED BY <1>1, <2>1, <2>2, ProceedingTransacts
<1>4. ASSUME NEW found \in h[p].copy, call[p].tasks > found[2],
             Write(p, found[1], [View(p)[found[1]] EXCEPT !.tasks = call[p].tasks])
      PROVE  Transacts(p)
  <2>1. found[1][1] = "checkin"
    BY <1>1, AskerFacts DEF Held
  <2>2. Permits(p, found[1], [View(p)[found[1]] EXCEPT !.tasks = call[p].tasks])
    BY <1>1, <1>4, <2>1 DEF Permits
  <2> QED BY <1>1, <1>4, <2>2, ProceedingTransacts
<1> QED BY <1>2, <1>3, <1>4 DEF check_in

LEMMA TwinTransacts ==
  ASSUME IInv, NEW p \in Requests, _apply_strengths(p) \/ _apply_rejection(p) \/ add_interview_result(p)
  PROVE  Transacts(p)
<1>1. /\ h[p].at \in {"strengths", "confidence", "result"} /\ h[p].at \in Practising
      /\ \E to \in Successors : Goes(p, to)
      /\ Saves(p, Fed(p))
  BY DEF _apply_strengths, _apply_rejection, add_interview_result, Runs, Practising, Successors, Fed
<1>2. Permits(p, TwinId, Flushed(p, Fed(p)))
  BY <1>1 DEF Permits, TwinId
<1> QED BY <1>1, <1>2, ProceedingTransacts DEF Saves

LEMMA RecordsTransact ==
  ASSUME IInv, NEW p \in Requests,
         \/ record_feedback(p) \/ generate(p) \/ evaluate(p) \/ RememberScore(p)
         \/ add_question(p) \/ add_answer(p) \/ _store_memory(p) \/ AddSummary(p)
         \/ Capture(p) \/ Shadow(p)
  PROVE  Transacts(p)
<1>1. h[p].at \in Practising /\ h[p].at # "done"
  BY DEF record_feedback, generate, evaluate, RememberScore, add_question, add_answer,
         _store_memory, AddSummary, Capture, Shadow, Runs, Practising
<1>2. CASE Raises(p)
  BY <1>1, <1>2, Raising
<1>3. ASSUME NEW t \in {"interview", "capture"}, NEW i, NEW row, i[1] = t
      PROVE  Permits(p, i, row)
  BY <1>3 DEF Permits
<1>4. CASE (generate(p) \/ evaluate(p)) /\ ~Raises(p)
  <2>1. /\ \E to \in Successors : Goes(p, to)
        /\ \/ \E row : Write(p, Mine("interview", p, 0), row)
           \/ h[p].at = "session" /\ \E row : Write(p, call[p].id, row)
    BY <1>4 DEF generate, evaluate, Runs, Successors
  <2>2. h[p].at = "session" => call[p].id[1] = "interview"
    BY AskerFacts DEF AskedBy
  <2> QED BY <1>1, <1>3, <2>1, <2>2, MineFacts, ProceedingTransacts
<1>5. CASE Capture(p) \/ Shadow(p)
  <2>1. h[p].at \in {"capture", "shadow"} /\ Does(p) = "chat"
    BY <1>5, AskerFacts DEF Capture, Shadow, Runs, AskedBy
  <2>2. /\ Reads(p) \/ \E n, row : Write(p, Mine("capture", p, n), row)
        /\ Goes(p, "shadow") \/ Goes(p, Told(p))
    BY <1>5 DEF Capture, Shadow
  <2>3. Told(p) \in Successors
    BY <2>1, ToldFacts
  <2>4. Reads(p) \/ \E i, row : Write(p, i, row) /\ Permits(p, i, row)
    BY <1>3, <2>2, MineFacts
  <2> QED BY <1>1, <2>2, <2>3, <2>4, ProceedingTransacts
<1>6. CASE record_feedback(p)
  <2> DEFINE row == [type |-> call[p].type, skills |-> call[p].skills]
  <2>1. h[p].at = "event" /\ Write(p, Mine("event", p, 0), row) /\ Goes(p, "lesson") /\ "lesson" \in Successors
    BY <1>6 DEF record_feedback, Runs, Successors
  <2>2. Permits(p, Mine("event", p, 0), row)
    BY <2>1, MineFacts DEF Permits
  <2> QED BY <1>1, <2>1, <2>2, ProceedingTransacts
<1>7. CASE RememberScore(p) \/ _store_memory(p)
  <2>1. /\ h[p].at \in {"remember", "memory"}
        /\ \E score : Write(p, Mine("memory", p, 0), [score |-> score])
        /\ \E to \in Successors : Goes(p, to)
    BY <1>7 DEF RememberScore, _store_memory, Runs, Successors
  <2>2. \A score : Permits(p, Mine("memory", p, 0), [score |-> score])
    BY <2>1, MineFacts DEF Permits
  <2> QED BY <1>1, <2>1, <2>2, ProceedingTransacts
<1>8. CASE add_question(p) \/ add_answer(p) \/ AddSummary(p)
  <2>1. /\ \/ h[p].at = "ask" /\ Write(p, Mine("turn", p, 1), Turn("user"))
           \/ h[p].at = "answer" /\ Write(p, Mine("turn", p, 2), Turn("assistant"))
           \/ h[p].at = "summary" /\ Write(p, Mine("turn", p, 3), Turn("system"))
        /\ \E to \in Successors \cup {"model"} : Goes(p, to)
    BY <1>8 DEF add_question, add_answer, AddSummary, Runs, Successors
  <2>2. /\ h[p].at = "ask" => Permits(p, Mine("turn", p, 1), Turn("user"))
        /\ h[p].at = "answer" => Permits(p, Mine("turn", p, 2), Turn("assistant"))
        /\ h[p].at = "summary" => Permits(p, Mine("turn", p, 3), Turn("system"))
    BY MineFacts DEF Permits
  <2> QED BY <1>1, <2>1, <2>2, ProceedingTransacts
<1> QED BY <1>2, <1>4, <1>5, <1>6, <1>7, <1>8

LEMMA ClearingTransacts ==
  ASSUME IInv, NEW p \in Requests, clear(p)
  PROVE  Transacts(p)
<1>1. h[p].at = "turns" /\ p \notin dead /\ Goes(p, "commit") /\ answer' = answer
  BY DEF clear, Runs, Goes
<1>2. Clearing(p)
  BY <1>1 DEF clear, Clearing
<1> QED BY <1>1, <1>2, GoingTo

LEMMA PracticeFaultsTransact ==
  ASSUME IInv, NEW p \in Requests, PracticeFault(p)
  PROVE  Transacts(p)
<1>1. p \in open /\ h[p].at # "done"
  BY DEF PracticeFault, IInv, Place
<1>2. CASE /\ h[p].at \in {"remember", "memory", "capture", "shadow", "model"}
           /\ Dies(p)
           /\ h' = [h EXCEPT ![p].at = BestEffort(p)] /\ UNCHANGED <<call, answer>>
  <2> DEFINE to == BestEffort(p)
  <2>1. to \notin {"arrived", "done"}
    <3>1. CASE h[p].at \in {"remember", "memory"}
      BY <3>1 DEF BestEffort
    <3>2. CASE h[p].at \in {"capture", "shadow", "model"}
      <4>1. to = Told(p) /\ Does(p) \in {"advise", "judge", "agent", "chat", "summarize"}
        BY <3>2, AskerFacts DEF BestEffort, AskedBy
      <4> QED BY <4>1, ToldFacts DEF Successors
    <3> QED BY <1>2, <3>1, <3>2
  <2>2. h' = [h EXCEPT ![p].at = to]
    BY <1>2
  <2> HIDE DEF to
  <2> QED BY <1>2, <2>1, <2>2, DyingTransacts
<1>3. CASE /\ RollsBack(p) \/ (h[p].at = "commit" /\ Commits(p))
           /\ Ends(p, Refused)
  BY <1>1, <1>3, EndsTransact
<1>4. ASSUME h[p].at = "context", Dies(p), UNCHANGED <<call, answer>>,
             NEW aborted, h' = [h EXCEPT ![p].aborted = aborted, ![p].at = "commit"]
      PROVE  Transacts(p)
  <2> DEFINE next == [h[p] EXCEPT !.aborted = aborted, !.at = "commit"]
  <2>1. h' = [h EXCEPT ![p] = next]
    BY <1>4
  <2>2. next.at = "commit"
    BY AskerFacts DEF Locals
  <2> HIDE DEF next
  <2> QED BY <1>4, <2>1, <2>2, Going DEF Dying
<1> QED BY <1>2, <1>3, <1>4 DEF PracticeFault

(* Every step is a transaction's.                                          *)
LEMMA StepsTransact ==
  ASSUME IInv, NEW p \in Requests, Serve(p) \/ Fails(p)
  PROVE  Transacts(p)
<1>1. CASE ~Practises(p) /\ (Step(p) \/ Fault(p))
  <2>1. CASE Commit(p) \/ CommitVanishes(p) \/ CommitRaises(p)
    BY <2>1, EndsTransact DEF Commit, CommitVanishes, CommitRaises
  <2>2. CASE DeadlockDetected(p)
    BY <2>2, DeadlockEnds, Raising
  <2> QED BY <1>1, <2>1, <2>2, ApplyingTransacts, ResumesTransact, AgentsTransact, FaultsTransact DEF Step
<1>2. CASE Practises(p) /\ (Practise(p) \/ PracticeFault(p))
  <2>1. CASE Commit(p) \/ CommitVanishes(p) \/ CommitRaises(p)
    BY <2>1, EndsTransact DEF Commit, CommitVanishes, CommitRaises
  <2>2. CASE StatementRaises(p)
    BY <2>2, Raising DEF StatementRaises
  <2> QED BY <1>2, <2>1, <2>2, SittingTransacts, LooksTransact, CheckingInTransacts, TwinTransacts,
             RecordsTransact, ClearingTransacts, PracticeFaultsTransact DEF Practise
<1> QED BY <1>1, <1>2 DEF Serve, Fails

-----------------------------------------------------------------------------
(* The sessions: no two transactions hold a row; who has not begun, has    *)
(* ended or has a dead session holds none.                                 *)

SInv ==
  /\ \A p \in Requests : \A q \in Requests \ {p} : DOMAIN edits[p] \cap DOMAIN edits[q] = {}
  /\ \A i \in DOMAIN rows : rows[i] # Gone
  /\ \A p \in Requests :
       /\ p \in open <=> h[p].at \notin {"arrived", "done"}
       /\ p \in dead \/ h[p].at \in {"arrived", "done"} => DOMAIN edits[p] = {}

(* What a step of p leaves alone, and what it may do to its transaction.   *)
Aside(p) ==
  /\ call' = call
  /\ \A q \in Requests \ {p} :
       /\ h'[q] = h[q] /\ answer'[q] = answer[q] /\ edits'[q] = edits[q]
       /\ (q \in dead' <=> q \in dead) /\ (q \in open' <=> q \in open)

Remains(p) ==
  /\ rows' = rows /\ answer' = answer /\ overlap' = overlap
  /\ p \in open' /\ h[p].at # "done" /\ h'[p].at \notin {"arrived", "done"}
Looks(p) == Remains(p) /\ edits'[p] = edits[p] /\ (p \in dead' <=> p \in dead)
Puts(p, i, row) ==
  /\ Remains(p) /\ p \notin dead /\ p \notin dead' /\ h[p].at # "arrived"
  /\ Free(p, i) /\ Permits(p, i, row)
  /\ DOMAIN edits'[p] = {i} \cup DOMAIN edits[p]
  /\ edits'[p][i] = row /\ \A k \in DOMAIN edits[p] \ {i} : edits'[p][k] = edits[p][k]
Removes(p, K) ==
  /\ Remains(p) /\ p \notin dead /\ p \notin dead' /\ h[p].at = "turns"
  /\ K = Table("turn", View(p)) /\ \A i \in K : Free(p, i)
  /\ DOMAIN edits'[p] = K \cup DOMAIN edits[p]
  /\ \A i \in K : edits'[p][i] = Gone
  /\ \A i \in DOMAIN edits[p] \ K : edits'[p][i] = edits[p][i]
Loses(p) == Remains(p) /\ p \in dead' /\ DOMAIN edits'[p] = {} /\ h[p].at \notin {"arrived", "commit"}
Leaves(p) ==
  /\ h'[p].at = "done" /\ p \notin open' /\ p \notin dead' /\ DOMAIN edits'[p] = {}
  /\ answer'[p].ok \in BOOLEAN
Quits(p) ==
  /\ Leaves(p) /\ rows' = rows /\ overlap' = overlap
  /\ answer'[p].ok => Does(p) \in {"auto", "chat"}
Delivers(p) ==
  /\ Leaves(p) /\ h[p].at = "commit" /\ p \notin dead /\ rows' = View(p)
  /\ \A q \in Requests :
       overlap'[q] = IF q \in open /\ q # p THEN overlap[q] \cup {p} ELSE overlap[q]

Affects(p) ==
  \/ Looks(p)
  \/ \E i, row : Puts(p, i, row)
  \/ \E K : Removes(p, K)
  \/ Loses(p) \/ Quits(p) \/ Delivers(p)

LEMMA ClosingFacts ==
  ASSUME IInv, NEW p \in Requests, NEW q, Closes(p), NEW a, a.ok \in BOOLEAN, Ends(p, a)
  PROVE  /\ h'[p].at = "done" /\ p \notin open' /\ p \notin dead' /\ DOMAIN edits'[p] = {}
         /\ answer'[p] = a
         /\ q # p => edits'[q] = edits[q] /\ (q \in dead' <=> q \in dead) /\ (q \in open' <=> q \in open)
<1>1. DOMAIN answer = Requests /\ DOMAIN edits = Requests /\ DOMAIN Nothing = {}
  BY DEF IInv, Domains, Nothing
<1> QED BY <1>1, AskerFacts DEF Closes, Ends, Locals

LEMMA AnswerFacts == Refused.ok = FALSE /\ \A p : Served(p).ok = TRUE
  BY DEF Refused, Served

LEMMA StepsAffect ==
  ASSUME IInv, SInv, NEW p \in Requests, Transacts(p)
  PROVE  Aside(p) /\ Affects(p)
<1>1. /\ call' = call /\ h[p].at # "done" /\ DOMAIN edits = Requests
      /\ \A q \in Requests \ {p} : h'[q] = h[q] /\ answer'[q] = answer[q]
      /\ h[p].at # "arrived" => p \in open
  BY DEF Transacts, IInv, Domains, SInv
<1>2. CASE Reading(p) /\ h'[p].at \notin {"arrived", "done"}
  BY <1>1, <1>2 DEF Reading, Reads, Begins, session, Affects, Looks, Remains, Aside
<1>3. CASE Writing(p) /\ h'[p].at \notin {"arrived", "done"}
  <2>1. PICK i, row : Write(p, i, row) /\ Permits(p, i, row)
    BY <1>3 DEF Writing
  <2> DEFINE new == Over([k \in {i} |-> row], edits[p])
  <2>2. /\ edits' = [edits EXCEPT ![p] = new] /\ UNCHANGED <<rows, dead, open, overlap, answer>>
        /\ p \notin dead /\ Free(p, i) /\ h[p].at # "arrived"
    BY <1>3, <2>1 DEF Write, Writing
  <2>3. /\ DOMAIN new = {i} \cup DOMAIN edits[p] /\ new[i] = row
        /\ \A k \in DOMAIN edits[p] \ {i} : new[k] = edits[p][k]
    BY DEF Over
  <2> HIDE DEF new
  <2>4. edits'[p] = new /\ \A q \in Requests \ {p} : edits'[q] = edits[q]
    BY <1>1, <2>2
  <2>5. Puts(p, i, row)
    BY <1>1, <1>3, <2>1, <2>2, <2>3, <2>4 DEF Puts, Remains
  <2> QED BY <1>1, <2>2, <2>4, <2>5 DEF Affects, Aside
<1>4. CASE Clearing(p) /\ h'[p].at \notin {"arrived", "done"}
  <2> DEFINE K == Table("turn", View(p))
             new == Over([i \in K |-> Gone], edits[p])
  <2>1. /\ edits' = [edits EXCEPT ![p] = new] /\ UNCHANGED <<rows, dead, open, overlap, answer>>
        /\ p \notin dead /\ h[p].at = "turns" /\ \A i \in K : Free(p, i)
    BY <1>4 DEF Clearing
  <2>2. /\ DOMAIN new = K \cup DOMAIN edits[p] /\ \A i \in K : new[i] = Gone
        /\ \A i \in DOMAIN edits[p] \ K : new[i] = edits[p][i]
    <3> HIDE DEF K
    <3> QED BY DEF Over
  <2>3. K = Table("turn", View(p))
    OBVIOUS
  <2> HIDE DEF new, K
  <2>4. edits'[p] = new /\ \A q \in Requests \ {p} : edits'[q] = edits[q]
    BY <1>1, <2>1
  <2>5. Removes(p, K)
    BY <1>1, <1>4, <2>1, <2>2, <2>3, <2>4 DEF Removes, Remains
  <2> QED BY <1>1, <2>1, <2>4, <2>5 DEF Affects, Aside
<1>5. CASE Dying(p) /\ h'[p].at \notin {"arrived", "done"}
  <2>1. /\ edits'[p] = Nothing /\ DOMAIN Nothing = {} /\ \A q \in Requests \ {p} : edits'[q] = edits[q]
        /\ dead' = dead \cup {p} /\ UNCHANGED <<rows, open, overlap, answer>>
        /\ h[p].at \notin {"arrived", "commit"}
    BY <1>1, <1>5 DEF Dying, Dies, Nothing
  <2> QED BY <1>1, <1>5, <2>1 DEF Affects, Loses, Remains, Aside
<1>6. CASE Quitting(p)
  <2>1. PICK a : /\ Closes(p) /\ Ends(p, a) /\ UNCHANGED <<rows, overlap>> /\ a.ok \in BOOLEAN
                 /\ a.ok => Does(p) \in {"auto", "chat"}
    <3>1. CASE Ends(p, Refused)
      BY <1>6, <3>1, AnswerFacts DEF Quitting, RollsBack
    <3>2. CASE Ends(p, Served(p)) /\ Does(p) \in {"auto", "chat"}
      BY <1>6, <3>2, AnswerFacts DEF Quitting, RollsBack
    <3> QED BY <1>6, <3>1, <3>2 DEF Quitting
  <2>2. Quits(p)
    BY <2>1, ClosingFacts DEF Quits, Leaves
  <2>3. Aside(p)
    BY <1>1, <2>1, ClosingFacts DEF Aside
  <2> QED BY <2>2, <2>3 DEF Affects
<1>7. CASE Committing(p)
  <2>1. PICK a : Ends(p, a) /\ a.ok \in BOOLEAN
    BY <1>7, AnswerFacts DEF Committing
  <2>2. /\ Closes(p) /\ Ends(p, a) /\ a.ok \in BOOLEAN /\ h[p].at = "commit" /\ p \notin dead
        /\ rows' = View(p)
        /\ overlap' = [q \in Requests |-> IF q \in open \ {p} THEN overlap[q] \cup {p} ELSE overlap[q]]
    BY <1>7, <2>1 DEF Committing, Commits
  <2>3. Delivers(p)
    BY <2>2, ClosingFacts DEF Delivers, Leaves
  <2>4. Aside(p)
    BY <1>1, <2>2, ClosingFacts DEF Aside
  <2> QED BY <2>3, <2>4 DEF Affects
<1> QED BY <1>2, <1>3, <1>4, <1>5, <1>6, <1>7 DEF Transacts

(* A commit's rows: what the transaction wrote, else what was there.       *)
LEMMA DeliveredRows ==
  ASSUME SInv, NEW p \in Requests, Delivers(p)
  PROVE  /\ \A i : i \in DOMAIN rows' <=>
              IF i \in DOMAIN edits[p] THEN edits[p][i] # Gone ELSE i \in DOMAIN rows
         /\ \A i \in DOMAIN rows' :
              rows'[i] = (IF i \in DOMAIN edits[p] THEN edits[p][i] ELSE rows[i]) /\ rows'[i] # Gone
  BY ViewFacts DEF Delivers, SInv

LEMMA SessionsGoOn ==
  ASSUME IInv, SInv, NEW p \in Requests, Aside(p), Affects(p)
  PROVE  SInv'
<1>1. \A i \in DOMAIN rows' : rows'[i] # Gone
  BY DeliveredRows DEF Affects, Looks, Puts, Removes, Loses, Quits, Remains, SInv
<1>2. /\ p \in open' <=> h'[p].at \notin {"arrived", "done"}
      /\ p \in dead' \/ h'[p].at \in {"arrived", "done"} => DOMAIN edits'[p] = {}
  BY DEF Affects, Looks, Puts, Removes, Loses, Quits, Delivers, Leaves, Remains, SInv
<1>3. \A i \in DOMAIN edits'[p] : i \in DOMAIN edits[p] \/ Free(p, i)
  BY DEF Affects, Looks, Puts, Removes, Loses, Quits, Delivers, Leaves
<1>4. \A q \in Requests \ {p} : DOMAIN edits'[p] \cap DOMAIN edits[q] = {}
  BY <1>3 DEF Free, SInv
<1>5. \A q \in Requests \ {p} : edits'[q] = edits[q]
  BY DEF Aside
<1>6. \A q \in Requests : \A r \in Requests \ {q} : DOMAIN edits'[q] \cap DOMAIN edits'[r] = {}
  BY <1>4, <1>5 DEF SInv
<1>7. \A q \in Requests \ {p} :
        /\ q \in open' <=> h'[q].at \notin {"arrived", "done"}
        /\ q \in dead' \/ h'[q].at \in {"arrived", "done"} => DOMAIN edits'[q] = {}
  BY DEF Aside, SInv
<1> QED BY <1>1, <1>2, <1>6, <1>7 DEF SInv

(* No row found was deleted.                                               *)
LEMMA SessionsOpen == PracticeInit => SInv
  <1> SUFFICES ASSUME PracticeInit PROVE SInv
    OBVIOUS
  <1>1. /\ h = [p \in Requests |-> Fresh] /\ open = {} /\ dead = {}
        /\ edits = [p \in Requests |-> Nothing]
        /\ rows \in Beginnings \cup {talk[2] : talk \in Talks}
    BY DEF PracticeInit, Init, SessionInit
  <1>2. \A i \in DOMAIN rows : DOMAIN rows[i] # {}
    BY <1>1, FoundAssumption
  <1> QED BY <1>1, <1>2, NotGone DEF SInv, Fresh, Nothing

-----------------------------------------------------------------------------
(* Conversations.  A mentor's question is in the transaction from the      *)
(* moment it is asked, the answer from the moment it is stored, and what   *)
(* is remembered of them before the commit; others only take turns away,   *)
(* in pairs.                                                               *)

Talking == {"turn", "memory"}
Stations ==
  [advise   |-> {"arrived", "ask", "model", "answer", "memory", "commit", "done"},
   evaluate |-> {"arrived", "session", "remember", "feed", "result", "commit", "done"},
   clear    |-> {"arrived", "turns", "commit", "done"}]

(* The way of these requests, and what they have written before going on.  *)
OnCourse(p) == call[p] # None /\ Does(p) \in DOMAIN Stations => h[p].at \in Stations[Does(p)]

Wins(p) == Does(p) = "evaluate" /\ call[p].score >= 85
Follows(p) ==
  LET at == h[p].at
      to == h'[p].at
      stored(t, n) == p \in dead' \/ Mine(t, p, n) \in DOMAIN edits'[p]
  IN \/ to = "done"
     \/ at = "arrived" /\ to = FirstOf[Does(p)]
     \/ at = "ask" /\ to = "model" /\ stored("turn", 1)
     \/ at = "model" /\ to = "answer"
     \/ at = "answer" /\ to = "memory" /\ stored("turn", 2)
     \/ at = "memory" /\ to = "commit" /\ stored("memory", 0)
     \/ at = "turns" /\ to = "commit"
     \/ at = "session" /\ to \in {"remember", "feed"} /\ (Wins(p) => to = "remember")
     \/ at = "remember" /\ to = "feed" /\ stored("memory", 0)
     \/ at = "feed" /\ to \in {"result", "commit"}
     \/ at = "result" /\ to = "commit"

LEMMA StoredFacts ==
  ASSUME IInv, NEW p \in Requests, NEW i, NEW row, Write(p, i, row)
  PROVE  i \in DOMAIN edits'[p] /\ edits'[p][i] = row
<1> DEFINE new == Over([k \in {i} |-> row], edits[p])
<1>1. edits' = [edits EXCEPT ![p] = new] /\ DOMAIN edits = Requests
  BY DEF Write, IInv, Domains
<1>2. i \in DOMAIN new /\ new[i] = row
  BY DEF Over
<1> HIDE DEF new
<1> QED BY <1>1, <1>2

LEMMA GoneTo ==
  ASSUME IInv, NEW p \in Requests, NEW to, Goes(p, to) \/ \E value : Keeps(p, value, to)
  PROVE  h'[p].at = to
<1>1. DOMAIN h = Requests /\ DOMAIN h[p] = Locals
  BY AskerFacts
<1>2. CASE Goes(p, to)
  BY <1>1, <1>2 DEF Goes, Locals
<1>3. ASSUME NEW value, Keeps(p, value, to) PROVE h'[p].at = to
  <2> DEFINE next == [h[p] EXCEPT !.copy = value, !.at = to]
  <2>1. h' = [h EXCEPT ![p] = next]
    BY <1>3 DEF Keeps
  <2>2. next.at = to
    BY <1>1 DEF Locals
  <2> HIDE DEF next
  <2> QED BY <1>1, <2>1, <2>2
<1> QED BY <1>2, <1>3

LEMMA EndedAt ==
  ASSUME IInv, NEW p \in Requests, NEW a, Ends(p, a)
  PROVE  h'[p].at = "done"
  BY AskerFacts DEF Ends, Locals

LEMMA CoursesAreFollowed ==
  ASSUME IInv, NEW p \in Requests, Serve(p) \/ Fails(p), call[p] # None,
         Does(p) \in DOMAIN Stations, OnCourse(p)
  PROVE  Follows(p)
<1>1. /\ Practises(p) /\ (Practise(p) \/ PracticeFault(p))
      /\ h[p].at \in Stations[Does(p)]
  BY DEF Serve, Fails, Practises, Stations, FirstOf, OnCourse
<1>2. /\ h[p].at \in {"ask", "model", "answer", "memory"} => Does(p) = "advise"
      /\ h[p].at \in {"session", "remember", "feed", "result"} => Does(p) = "evaluate"
      /\ h[p].at = "turns" => Does(p) = "clear"
      /\ h[p].at \in {"arrived", "ask", "model", "answer", "memory", "session", "remember", "feed",
                      "result", "turns", "commit", "done"}
  BY <1>1 DEF Stations
<1>3. \A a : Ends(p, a) => h'[p].at = "done"
  BY EndedAt
<1>4. Raises(p) => h'[p].at = "done"
  BY <1>3 DEF Raises
<1>5. \A i, row : Write(p, i, row) => i \in DOMAIN edits'[p]
  BY StoredFacts
<1>6. \A to : Goes(p, to) \/ (\E value : Keeps(p, value, to)) => h'[p].at = to
  BY GoneTo
<1>7. CASE Sit(p)
  BY <1>6, <1>7 DEF Sit, Follows
<1>8. CASE add_question(p) \/ add_answer(p) \/ handle(p) \/ ModelFails(p) \/ _store_memory(p)
  BY <1>2, <1>4, <1>5, <1>6, <1>8
     DEF add_question, add_answer, handle, ModelFails, _store_memory, Runs, Told, Follows
<1>9. CASE clear(p)
  BY <1>6, <1>9 DEF clear, Runs, Follows
<1>10. CASE evaluate(p) \/ RememberScore(p)
  BY <1>2, <1>4, <1>5, <1>6, <1>10 DEF evaluate, RememberScore, Runs, Wins, Follows
<1>11. CASE ReadHistory(p) \/ add_interview_result(p)
  BY <1>2, <1>6, <1>11 DEF ReadHistory, add_interview_result, Runs, Follows
<1>12. CASE StatementRaises(p) \/ Commit(p) \/ CommitVanishes(p) \/ CommitRaises(p)
  BY <1>3, <1>4, <1>12 DEF StatementRaises, Commit, CommitVanishes, CommitRaises, Follows
<1>13. CASE PracticeFault(p)
  <2>1. CASE \E a : Ends(p, a)
    BY <1>3, <2>1 DEF Follows
  <2>2. CASE /\ h[p].at \in {"remember", "memory", "capture", "shadow", "model"}
             /\ Dies(p) /\ h' = [h EXCEPT ![p].at = BestEffort(p)]
    <3>1. h'[p].at = BestEffort(p) /\ p \in dead'
      BY <2>2, AskerFacts DEF Dies, Locals
    <3> QED BY <1>2, <2>2, <3>1 DEF BestEffort, Told, Follows
  <2> QED BY <1>2, <1>13, <2>1, <2>2 DEF PracticeFault
<1> QED BY <1>1, <1>2, <1>7, <1>8, <1>9, <1>10, <1>11, <1>12, <1>13
        DEF Practise, get_for_date, check_in, CountStreak, record_feedback, ReadTwin, _apply_strengths,
            _apply_rejection, generate, BuildContext, Capture, Shadow, summarize_if_long, AddSummary, Runs

(* Who is about to ask or to clear has written nothing yet.                *)
Early(p) == h[p].at \in {"ask", "turns"} => DOMAIN edits[p] = {}

Spoken(p) ==
  \A i \in DOMAIN edits[p] : i[1] \in Talking =>
    IF i[2] = p THEN DOMAIN edits[p][i] # {}
    ELSE i[1] = "turn" /\ call[p] # None /\ Does(p) = "clear" /\ edits[p][i] = Gone

InPairs(p) ==
  \A q \in Requests \ {p} :
    Mine("turn", q, 1) \in DOMAIN edits[p] <=> Mine("turn", q, 2) \in DOMAIN edits[p]

Advising(p) == call[p] # None /\ Does(p) = "advise"
Winning(p) == call[p] # None /\ Wins(p)
Stage(p) ==
  LET at == h[p].at
      held(t, n) == Mine(t, p, n) \in DOMAIN edits[p]
  IN p \notin dead =>
       /\ held("turn", 1) <=> Advising(p) /\ at \in {"model", "answer", "memory", "commit"}
       /\ held("turn", 2) <=> Advising(p) /\ at \in {"memory", "commit"}
       /\ Advising(p) /\ at = "commit" => held("memory", 0)
       /\ Winning(p) /\ at \in {"feed", "result", "commit"} => held("memory", 0)

Unspoken(p) == h[p].at # "done" => \A i \in DOMAIN rows : i[1] \in Talking => i[2] # p

Talker(p) == OnCourse(p) /\ Early(p) /\ Spoken(p) /\ InPairs(p) /\ Stage(p) /\ Unspoken(p)
TalkInv == TurnsAreWhole /\ \A p \in Requests : Talker(p)

LEMMA PermittedTalk ==
  ASSUME NEW p \in Requests, NEW i, NEW row, Permits(p, i, row), i[1] \in Talking
  PROVE  /\ i[2] = p /\ DOMAIN row # {}
         /\ i[1] = "turn" => \/ h[p].at = "ask" /\ i = Mine("turn", p, 1)
                             \/ h[p].at = "answer" /\ i = Mine("turn", p, 2)
                             \/ h[p].at = "summary" /\ i = Mine("turn", p, 3)
<1>1. \A role : DOMAIN Turn(role) = {"role"}
  BY DEF Turn
<1> QED BY <1>1 DEF Permits, Talking, Mine

(* What one more statement leaves in the transaction of p.                 *)
LEMMA TalkOfOne ==
  ASSUME IInv, SInv, TalkInv, NEW p \in Requests, Aside(p), Affects(p),
         call[p] # None /\ Does(p) \in DOMAIN Stations => Follows(p), IInv'
  PROVE  OnCourse(p)' /\ Early(p)' /\ Spoken(p)' /\ InPairs(p)' /\ Stage(p)'
<1>1. /\ call' = call /\ Does(p)' = Does(p) /\ Talker(p)
      /\ AskedBy(h[p].at, Does(p)) /\ AskedBy(h'[p].at, Does(p))
      /\ h[p].at \notin {"arrived", "done"} => call[p] # None
  BY AskerFacts DEF Aside, Does, TalkInv, IInv, Place, Asker
<1>2. OnCourse(p)'
  BY <1>1 DEF OnCourse, Follows, Stations, FirstOf, Talker
<1>3. Early(p)'
  <2>1. SUFFICES ASSUME h'[p].at \in {"ask", "turns"} PROVE DOMAIN edits'[p] = {}
    BY DEF Early
  <2>2. h[p].at = "arrived"
    <3>1. Does(p) \in {"advise", "clear"} /\ Remains(p)
      BY <1>1, <2>1 DEF AskedBy, Affects, Looks, Puts, Removes, Loses, Quits, Delivers, Leaves
    <3>2. call[p] # None
      BY <2>1 DEF IInv, Place, Asker, Aside
    <3> QED BY <2>1, <3>1, <3>2 DEF Stations, Follows, FirstOf
  <2> QED BY <2>1, <2>2 DEF Affects, Looks, Puts, Removes, Loses, Quits, Delivers, Leaves, SInv
<1>4. ASSUME NEW K, Removes(p, K)
      PROVE  /\ DOMAIN edits[p] = {} /\ call[p] # None /\ Does(p) = "clear"
             /\ K = Table("turn", rows) /\ DOMAIN edits'[p] = K
             /\ \A i \in K : i[1] = "turn" /\ i[2] # p /\ edits'[p][i] = Gone
  <2>1. DOMAIN edits[p] = {} /\ call[p] # None /\ Does(p) = "clear"
    BY <1>1, <1>4 DEF Removes, Talker, Early, AskedBy
  <2>2. DOMAIN View(p) = DOMAIN rows
    BY <2>1, ViewFacts DEF SInv
  <2> QED BY <1>1, <1>4, <2>1, <2>2 DEF Removes, Table, Talker, Unspoken, Talking
<1>5. Spoken(p)'
  <2>1. CASE Looks(p)
    BY <1>1, <2>1 DEF Looks, Talker, Spoken
  <2>2. ASSUME NEW i, NEW row, Puts(p, i, row) PROVE Spoken(p)'
    BY <1>1, <2>2, PermittedTalk DEF Puts, Talker, Spoken
  <2>3. ASSUME NEW K, Removes(p, K) PROVE Spoken(p)'
    BY <1>1, <1>4, <2>3 DEF Spoken
  <2>4. CASE DOMAIN edits'[p] = {}
    BY <2>4 DEF Spoken
  <2> QED BY <2>1, <2>2, <2>3, <2>4 DEF Affects, Loses, Quits, Delivers, Leaves
<1>6. InPairs(p)'
  <2>1. CASE Looks(p)
    BY <1>1, <2>1 DEF Looks, Talker, InPairs
  <2>2. ASSUME NEW i, NEW row, Puts(p, i, row) PROVE InPairs(p)'
    <3>1. \A q \in Requests \ {p} : \A n : i # Mine("turn", q, n)
      BY <2>2, PermittedTalk DEF Puts, Talking, Mine
    <3> QED BY <1>1, <2>2, <3>1 DEF Puts, Talker, InPairs
  <2>3. ASSUME NEW K, Removes(p, K) PROVE InPairs(p)'
    BY <1>4, <2>3, MineFacts DEF InPairs, Table, TalkInv, TurnsAreWhole
  <2>4. CASE DOMAIN edits'[p] = {}
    BY <2>4 DEF InPairs
  <2> QED BY <2>1, <2>2, <2>3, <2>4 DEF Affects, Loses, Quits, Delivers, Leaves
<1>7. Stage(p)'
  <2>1. SUFFICES ASSUME p \notin dead' PROVE Stage(p)'
    BY DEF Stage
  <2>2. CASE h'[p].at = "done"
    <3>1. DOMAIN edits'[p] = {}
      BY <2>2 DEF Affects, Looks, Puts, Removes, Loses, Quits, Delivers, Leaves, Remains
    <3> QED BY <2>2, <3>1 DEF Stage
  <2>3. CASE h'[p].at # "done"
    <3>1. /\ p \notin dead /\ DOMAIN edits[p] \subseteq DOMAIN edits'[p]
          /\ \A n : Mine("turn", p, n) \in DOMAIN edits'[p] =>
               \/ Mine("turn", p, n) \in DOMAIN edits[p]
               \/ h[p].at = "ask" /\ Mine("turn", p, n) = Mine("turn", p, 1)
               \/ h[p].at = "answer" /\ Mine("turn", p, n) = Mine("turn", p, 2)
               \/ h[p].at = "summary" /\ Mine("turn", p, n) = Mine("turn", p, 3)
      <4>1. CASE Looks(p)
        BY <2>1, <4>1 DEF Looks
      <4>2. ASSUME NEW i, NEW row, Puts(p, i, row)
            PROVE  <3>1!1 /\ <3>1!2
        BY <4>2, PermittedTalk, MineFacts DEF Puts, Talking
      <4>3. ASSUME NEW K, Removes(p, K) PROVE <3>1!1 /\ <3>1!2
        <5>1. \A n : Mine("turn", p, n)[2] = p
          BY DEF Mine
        <5> QED BY <1>4, <4>3, <5>1 DEF Removes
      <4> QED BY <2>1, <2>3, <4>1, <4>2, <4>3 DEF Affects, Loses, Quits, Delivers, Leaves
    <3>2. CASE Advising(p)
      <4>1. /\ \/ h[p].at = "arrived" /\ h'[p].at = "ask"
               \/ h[p].at = "ask" /\ h'[p].at = "model" /\ Mine("turn", p, 1) \in DOMAIN edits'[p]
               \/ h[p].at = "model" /\ h'[p].at = "answer"
               \/ h[p].at = "answer" /\ h'[p].at = "memory" /\ Mine("turn", p, 2) \in DOMAIN edits'[p]
               \/ h[p].at = "memory" /\ h'[p].at = "commit" /\ Mine("memory", p, 0) \in DOMAIN edits'[p]
            /\ Advising(p)' /\ ~Winning(p)'
        BY <1>1, <2>1, <2>3, <3>2 DEF Advising, Winning, Wins, Talker, OnCourse, Follows, Stations, FirstOf
      <4>2. Mine("turn", p, 1) # Mine("turn", p, 2)
        BY DEF Mine
      <4>3. Stage(p) /\ p \notin dead
        BY <1>1, <3>1 DEF Talker
      <4> QED BY <3>1, <3>2, <4>1, <4>2, <4>3 DEF Stage
    <3>3. CASE ~Advising(p)
      BY <1>1, <2>1, <2>3, <3>1, <3>3 DEF Advising, Winning, Wins, Stage, Talker, Follows, Stations, FirstOf, AskedBy, Mine
    <3> QED BY <3>2, <3>3
  <2> QED BY <2>2, <2>3
<1> QED BY <1>2, <1>3, <1>5, <1>6, <1>7

LEMMA TalkOfTheOthers ==
  ASSUME TalkInv, NEW p \in Requests, Aside(p), NEW q \in Requests \ {p}
  PROVE  OnCourse(q)' /\ Early(q)' /\ Spoken(q)' /\ InPairs(q)' /\ Stage(q)'
<1>1. /\ call' = call /\ Does(q)' = Does(q) /\ h'[q] = h[q] /\ edits'[q] = edits[q]
      /\ (q \in dead' <=> q \in dead)
      /\ OnCourse(q) /\ Early(q) /\ Spoken(q) /\ InPairs(q) /\ Stage(q)
  BY DEF Aside, Does, TalkInv, Talker
<1>2. OnCourse(q)' /\ Early(q)'
  BY <1>1 DEF OnCourse, Early
<1>3. Spoken(q)'
  BY <1>1 DEF Spoken
<1>4. InPairs(q)'
  BY <1>1 DEF InPairs
<1>5. Stage(q)'
  BY <1>1 DEF Stage, Advising, Winning, Wins
<1> QED BY <1>2, <1>3, <1>4, <1>5

(* What a commit of p does to the history of another request.              *)
LEMMA OthersInTheHistory ==
  ASSUME SInv, TalkInv, NEW p \in Requests, Delivers(p), NEW q \in Requests \ {p}
  PROVE  /\ \A t \in Talking : \A n : Mine(t, q, n) \in DOMAIN rows' => Mine(t, q, n) \in DOMAIN rows
         /\ Mine("turn", q, 1) \in DOMAIN rows' <=> Mine("turn", q, 2) \in DOMAIN rows'
         /\ Mine("memory", q, 0) \in DOMAIN rows => Mine("memory", q, 0) \in DOMAIN rows'
         /\ Mine("turn", q, 1) \in DOMAIN rows /\ Mine("turn", q, 1) \notin DOMAIN rows'
              => call[p] # None /\ Does(p) = "clear"
<1>1. \A t, n : Mine(t, q, n)[1] = t /\ Mine(t, q, n)[2] = q
  BY DEF Mine
<1>2. \A t \in Talking : \A n : Mine(t, q, n) \in DOMAIN edits[p] =>
         t = "turn" /\ call[p] # None /\ Does(p) = "clear" /\ edits[p][Mine(t, q, n)] = Gone
  BY <1>1 DEF TalkInv, Talker, Spoken
<1>3. \A t \in Talking : \A n : Mine(t, q, n) \in DOMAIN rows' <=>
         Mine(t, q, n) \in DOMAIN rows /\ Mine(t, q, n) \notin DOMAIN edits[p]
  BY <1>2, DeliveredRows
<1>4. Mine("turn", q, 1) \in DOMAIN edits[p] <=> Mine("turn", q, 2) \in DOMAIN edits[p]
  BY DEF TalkInv, Talker, InPairs
<1>5. Mine("turn", q, 1) \in DOMAIN rows <=> Mine("turn", q, 2) \in DOMAIN rows
  BY DEF TalkInv, TurnsAreWhole
<1> QED BY <1>2, <1>3, <1>4, <1>5 DEF Talking

(* And what it adds of its own.                                            *)
LEMMA OwnInTheHistory ==
  ASSUME SInv, TalkInv, NEW p \in Requests, Delivers(p)
  PROVE  /\ Mine("turn", p, 1) \in DOMAIN rows' <=> Advising(p)
         /\ Mine("turn", p, 2) \in DOMAIN rows' <=> Advising(p)
         /\ Advising(p) \/ Winning(p) => Mine("memory", p, 0) \in DOMAIN rows'
<1>1. \A t, n : Mine(t, p, n)[1] = t /\ Mine(t, p, n)[2] = p
  BY DEF Mine
<1>2. h[p].at = "commit" /\ p \notin dead
  BY DEF Delivers
<1>3. \A t \in Talking : \A n :
         /\ Mine(t, p, n) \notin DOMAIN rows
         /\ Mine(t, p, n) \in DOMAIN edits[p] => edits[p][Mine(t, p, n)] # Gone
  BY <1>1, <1>2, NotGone DEF TalkInv, Talker, Spoken, Unspoken
<1>4. \A t \in Talking : \A n : Mine(t, p, n) \in DOMAIN rows' <=> Mine(t, p, n) \in DOMAIN edits[p]
  BY <1>3, DeliveredRows
<1>5. Stage(p)
  BY DEF TalkInv, Talker
<1> QED BY <1>2, <1>4, <1>5 DEF Stage, Talking

LEMMA TalkGoesOn ==
  ASSUME IInv, SInv, TalkInv, NEW p \in Requests, Serve(p) \/ Fails(p), IInv'
  PROVE  TalkInv'
<1>1. Aside(p) /\ Affects(p)
  BY StepsTransact, StepsAffect
<1>2. OnCourse(p)' /\ Early(p)' /\ Spoken(p)' /\ InPairs(p)' /\ Stage(p)'
  BY <1>1, TalkOfOne, CoursesAreFollowed DEF TalkInv, Talker
<1>3. \A q \in Requests \ {p} : OnCourse(q)' /\ Early(q)' /\ Spoken(q)' /\ InPairs(q)' /\ Stage(q)'
  BY <1>1, TalkOfTheOthers
<1>4. \/ Delivers(p)
      \/ /\ rows' = rows
         /\ \A q \in Requests : \/ answer'[q] = answer[q] \/ ~answer'[q].ok
                                \/ Does(q) \in {"auto", "chat"}
  BY <1>1 DEF Affects, Looks, Puts, Removes, Loses, Quits, Remains, Aside
<1>5. \A q \in Requests : Unspoken(q)'
  <2>1. SUFFICES ASSUME NEW q \in Requests, h'[q].at # "done",
                        NEW i \in DOMAIN rows', i[1] \in Talking, i[2] = q
                 PROVE  FALSE
    BY DEF Unspoken
  <2>2. h[q].at # "done"
    BY <1>1, <2>1 DEF Aside, Affects, Looks, Puts, Removes, Loses, Quits, Delivers, Leaves, Remains
  <2>3. i \notin DOMAIN rows
    BY <2>1, <2>2 DEF TalkInv, Talker, Unspoken
  <2>4. Delivers(p) /\ i \in DOMAIN edits[p] /\ edits[p][i] # Gone
    BY <1>4, <2>1, <2>3, DeliveredRows
  <2>5. q = p
    BY <2>1, <2>4 DEF TalkInv, Talker, Spoken
  <2> QED BY <2>1, <2>4, <2>5 DEF Delivers, Leaves
<1>6. TurnsAreWhole'
  <2>1. CASE ~Delivers(p)
    <3>1. ASSUME NEW q \in Requests, NEW do \in {"advise", "evaluate"}, Well(q, do)' PROVE Well(q, do)
      BY <1>1, <1>4, <2>1, <3>1 DEF Well, Aside, Does
    <3>2. call' = call /\ rows' = rows /\ \A q : Does(q)' = Does(q)
      BY <1>1, <1>4, <2>1 DEF Aside, Does
    <3> QED BY <3>1, <3>2 DEF TalkInv, TurnsAreWhole
  <2>2. CASE Delivers(p)
    <3>1. /\ call' = call /\ \A q : Does(q)' = Does(q)
          /\ \A q \in Requests \ {p} : answer'[q] = answer[q]
      BY <1>1 DEF Aside, Does
    <3>2. ASSUME NEW q \in Requests \ {p}
          PROVE  /\ Mine("turn", q, 1) \in DOMAIN rows' <=> Mine("turn", q, 2) \in DOMAIN rows'
                 /\ Mine("turn", q, 1) \in DOMAIN rows' => Mine("memory", q, 0) \in DOMAIN rows'
                 /\ Well(q, "advise")' => \/ Mine("turn", q, 1) \in DOMAIN rows'
                                          \/ \E r \in Requests : call'[r] # None /\ Does(r)' = "clear"
                 /\ Well(q, "evaluate")' /\ call'[q].score >= 85 => Mine("memory", q, 0) \in DOMAIN rows'
      <4>1. \A do : Well(q, do)' => Well(q, do)
        BY <3>1 DEF Well
      <4>2. /\ Mine("turn", q, 1) \in DOMAIN rows => Mine("memory", q, 0) \in DOMAIN rows
            /\ Well(q, "advise") => \/ Mine("turn", q, 1) \in DOMAIN rows
                                    \/ \E r \in Requests : call[r] # None /\ Does(r) = "clear"
            /\ Well(q, "evaluate") /\ call[q].score >= 85 => Mine("memory", q, 0) \in DOMAIN rows
        BY DEF TalkInv, TurnsAreWhole
      <4> QED BY <2>2, <3>1, <4>1, <4>2, OthersInTheHistory DEF Talking
    <3>3. /\ Mine("turn", p, 1) \in DOMAIN rows' <=> Mine("turn", p, 2) \in DOMAIN rows'
          /\ Mine("turn", p, 1) \in DOMAIN rows' => Mine("memory", p, 0) \in DOMAIN rows'
          /\ Well(p, "advise")' => Mine("turn", p, 1) \in DOMAIN rows'
          /\ Well(p, "evaluate")' /\ call'[p].score >= 85 => Mine("memory", p, 0) \in DOMAIN rows'
      BY <2>2, <3>1, OwnInTheHistory DEF Well, Advising, Winning, Wins
    <3> QED BY <3>2, <3>3 DEF TurnsAreWhole
  <2> QED BY <2>1, <2>2
<1> QED BY <1>2, <1>3, <1>5, <1>6 DEF TalkInv, Talker

LEMMA TalkOpens == PracticeInit => TalkInv
  <1> SUFFICES ASSUME PracticeInit PROVE TalkInv
    OBVIOUS
  <1>1. /\ h = [p \in Requests |-> Fresh] /\ dead = {} /\ edits = [p \in Requests |-> Nothing]
        /\ answer = [p \in Requests |-> None]
        /\ rows \in Beginnings \cup {talk[2] : talk \in Talks}
    BY DEF PracticeInit, Init, SessionInit
  <1>2. \A i \in DOMAIN rows : i[2] \notin Requests
    BY <1>1, FoundAssumption, RequestsAssumption
  <1>3. \A p \in Requests : \A t, n : Mine(t, p, n) \notin DOMAIN rows
    BY <1>2 DEF Mine
  <1>4. TurnsAreWhole
    BY <1>1, <1>3 DEF TurnsAreWhole, Well
  <1>5. \A p \in Requests : h[p].at = "arrived" /\ DOMAIN edits[p] = {}
    BY <1>1 DEF Fresh, Nothing
  <1>6. \A p \in Requests : Talker(p)
    BY <1>2, <1>5 DEF Talker, OnCourse, Stations, Early, Spoken, InPairs, Stage, Unspoken
  <1> QED BY <1>4, <1>6 DEF TalkInv

LEMMA TalkStays ==
  ASSUME IInv, SInv, TalkInv, [PracticeNext]_vars
  PROVE  IInv' /\ SInv' /\ TalkInv'
<1>1. IInv'
  BY PracticeGoesOn
<1>2. ASSUME NEW p \in Requests, Serve(p) \/ Fails(p) PROVE SInv' /\ TalkInv'
  BY <1>1, <1>2, StepsTransact, StepsAffect, SessionsGoOn, TalkGoesOn
<1>3. CASE UNCHANGED vars
  <2>1. SInv'
    BY <1>3 DEF vars, session, SInv
  <2>2. TurnsAreWhole'
    BY <1>3 DEF vars, session, TalkInv, TurnsAreWhole, Well, Does
  <2>3. \A p \in Requests : Talker(p)'
    BY <1>3 DEF vars, session, TalkInv, Talker, OnCourse, Early, Spoken, InPairs, Stage, Unspoken,
                Advising, Winning, Wins, Does
  <2> QED BY <1>1, <2>1, <2>2, <2>3 DEF TalkInv
<1> QED BY <1>1, <1>2, <1>3 DEF PracticeNext

(* A mentor's question and its answer are in the history together or not   *)
(* at all, with what the mentor remembers of them, and no request that was *)
(* answered lost a memory, however the requests interleave and fail        *)
(* (ConversationManager.add_message, MentorService, AgentMemory).          *)
THEOREM TurnsAlwaysWhole == PracticeSpec => []TurnsAreWhole
<1>1. PracticeInit => IInv /\ SInv /\ TalkInv
  BY PracticeOpens, SessionsOpen, TalkOpens
<1>2. (IInv /\ SInv /\ TalkInv) /\ [PracticeNext]_vars => (IInv /\ SInv /\ TalkInv)'
  BY TalkStays
<1>3. TalkInv => TurnsAreWhole
  BY DEF TalkInv
<1> QED BY <1>1, <1>2, <1>3, PTL DEF PracticeSpec

-----------------------------------------------------------------------------
(* What all the properties of ended requests rely on.                      *)

LEMMA OnlyACommitEndsWell ==
  ASSUME IInv, NEW p \in Requests, Aside(p), Affects(p), NEW q \in Requests,
         NEW do \in {"feedback", "evaluate", "checkin"}, Well(q, do)'
  PROVE  call[q] # None /\ Does(q) = do /\ (Well(q, do) \/ (q = p /\ Delivers(p)))
<1>1. call[q] # None /\ Does(q) = do /\ answer'[q] # None /\ answer'[q].ok
  BY DEF Well, Aside, Does
<1>2. h[p].at # "done" => answer[p] = None
  BY DEF IInv, Place
<1> QED BY <1>1, <1>2 DEF Well, Aside, Affects, Looks, Puts, Removes, Loses, Quits, Remains

LEMMA OverlapsGrow ==
  ASSUME SInv, NEW p \in Requests, Affects(p), NEW q \in Requests
  PROVE  /\ overlap[q] \subseteq overlap'[q]
         /\ overlap'[q] \subseteq overlap[q] \cup {p}
         /\ Delivers(p) /\ q # p /\ h[q].at \notin {"arrived", "done"} => p \in overlap'[q]
         /\ q = p => overlap'[q] = overlap[q]
  BY DEF Affects, Looks, Puts, Removes, Loses, Quits, Delivers, Remains, SInv

LEMMA AloneBefore ==
  ASSUME SInv, NEW p \in Requests, Aside(p), Affects(p), NEW q \in Requests, NEW do, Alone(q, do)'
  PROVE  Alone(q, do)
  BY OverlapsGrow DEF Alone, Aside, Does

-----------------------------------------------------------------------------
(* Outcomes and interviews.  The twin is copied, extended and written      *)
(* back; who does so beside another such request may forget what that one  *)
(* has taught, who does so alone builds on it.                             *)

Lectures ==
  [feedback |-> {"arrived", "event", "lesson", "strengths", "confidence", "commit", "done"},
   evaluate |-> {"arrived", "session", "remember", "feed", "result", "commit", "done"}]
Rewriting == {"strengths", "confidence", "result"}

Learner(p) == call[p] # None /\ Does(p) \in DOMAIN Lectures
Learned(p) == Well(p, "feedback") \/ Well(p, "evaluate")
Untaught(p) == \A q \in Requests \ {p} : Lesson(q) # {} => q \notin overlap[p]
Strengths(p) == IF TwinId \in DOMAIN edits[p] THEN edits[p][TwinId].strengths ELSE rows[TwinId].strengths

Studied(p) ==
  /\ Learner(p) => h[p].at \in Lectures[Does(p)]
  /\ p \notin dead /\ call[p] # None /\ Does(p) = "feedback"
       /\ h[p].at \in {"lesson", "strengths", "confidence", "commit"}
       => Mine("event", p, 0) \in DOMAIN edits[p]
  /\ \A i \in DOMAIN edits[p] : i[1] = "event" => i = Mine("event", p, 0) /\ DOMAIN edits[p][i] # {}
  /\ h[p].at \in Rewriting => TwinId \in DOMAIN rows /\ "strengths" \in DOMAIN h[p].copy
  /\ h[p].at = "strengths" => Lesson(p) = call[p].skills
  /\ h[p].at = "confidence" => Lesson(p) = {}

TwinEdited(p) ==
  \A i \in DOMAIN edits[p] : i[1] = "twin" =>
    /\ i = TwinId /\ TwinId \in DOMAIN rows /\ "strengths" \in DOMAIN edits[p][i]
    /\ edits[p][i].strengths = rows[TwinId].strengths \/ Lesson(p) # {}

Unfed(p) ==
  /\ Learner(p) /\ h[p].at \notin {"commit", "done"} => TwinId \notin DOMAIN edits[p]
  /\ Lesson(p) # {} /\ TwinId \in DOMAIN rows /\ p \notin dead /\ Untaught(p) =>
       /\ h[p].at \in Rewriting => h[p].copy.strengths = rows[TwinId].strengths
       /\ h[p].at = "commit" => Lesson(p) \subseteq Strengths(p)

(* What p has taught is in the copy of who came after it.                  *)
PassesOn(p, q) ==
  /\ Learned(p) /\ Lesson(p) # {} /\ TwinId \in DOMAIN rows /\ TeachesAlone(p)
  /\ Lesson(q) # {} /\ q \in open
  => /\ h[q].at \in Rewriting => Lesson(p) \subseteq h[q].copy.strengths
     /\ TwinId \in DOMAIN edits[q] => Lesson(p) \subseteq edits[q][TwinId].strengths

TwinKept == TwinId \in DOMAIN rows => "strengths" \in DOMAIN rows[TwinId]
LessonInv ==
  /\ OutcomesAreLearned /\ TwinKept
  /\ \A p \in Requests : Studied(p) /\ TwinEdited(p) /\ Unfed(p)
  /\ \A p \in Requests : \A q \in Requests \ {p} : PassesOn(p, q)

Copies(p) == HasTwin(p) /\ h'[p].copy = View(p)[TwinId]
Lessons(p) ==
  LET at == h[p].at
      to == h'[p].at
  IN \/ to = "done"
     \/ at = "arrived" /\ to = FirstOf[Does(p)]
     \/ at = "event" /\ to = "lesson" /\ Mine("event", p, 0) \in DOMAIN edits'[p]
     \/ at = "session" /\ to \in {"remember", "feed"}
     \/ at = "remember" /\ to = "feed"
     \/ at \in {"lesson", "feed"} /\ to = "commit" /\ (~HasTwin(p) \/ Lesson(p) = {})
     \/ at = "lesson" /\ to = "strengths" /\ Copies(p) /\ Lesson(p) = call[p].skills
     \/ at = "lesson" /\ to = "confidence" /\ Copies(p) /\ Lesson(p) = {}
     \/ at = "feed" /\ to = "result" /\ Copies(p)
     \/ /\ at \in Rewriting /\ to = "commit"
        /\ Lesson(p) \subseteq h[p].copy.strengths \/ TwinId \in DOMAIN edits'[p]

LEMMA LessonFacts ==
  /\ \A p : Lesson(p) # {} => Learner(p)
  /\ \A p : h[p].at = "result" /\ Does(p) = "judge" => Lesson(p) = {}
  /\ call' = call => \A p : Lesson(p)' = Lesson(p) /\ (Learner(p)' <=> Learner(p))
<1>1. \A p : Lesson(p) # {} => Learner(p)
  BY DEF Lesson, Learner, Lectures
<1>2. \A p : Does(p) = "judge" => Lesson(p) = {}
  BY DEF Lesson
<1>3. call' = call => \A p : Lesson(p)' = Lesson(p) /\ (Learner(p)' <=> Learner(p))
  BY DEF Lesson, Learner, Does
<1> QED BY <1>1, <1>2, <1>3

LEMMA KeptCopy ==
  ASSUME IInv, NEW p \in Requests, NEW value, NEW to, Keeps(p, value, to)
  PROVE  h'[p].copy = value /\ h'[p].at = to
<1> DEFINE next == [h[p] EXCEPT !.copy = value, !.at = to]
<1>1. h' = [h EXCEPT ![p] = next] /\ DOMAIN h = Requests
  BY AskerFacts DEF Keeps
<1>2. next.at = to /\ next.copy = value
  BY AskerFacts DEF Locals
<1> HIDE DEF next
<1> QED BY <1>1, <1>2

(* What is written back: the copy with the lesson, and as a row.           *)
LEMMA FedFacts ==
  ASSUME NEW p \in Requests, h[p].at \in Rewriting, Studied(p)
  PROVE  Fed(p).strengths = h[p].copy.strengths \cup Lesson(p)
<1> DEFINE old == h[p].copy
<1>1. "strengths" \in DOMAIN old
  BY DEF Studied
<1> HIDE DEF old
<1>2. CASE h[p].at = "strengths"
  <2>1. Fed(p) = [old EXCEPT !.strengths = old.strengths \cup call[p].skills]
    BY <1>2 DEF Fed, old
  <2> QED BY <1>1, <1>2, <2>1 DEF Studied, old
<1>3. CASE h[p].at = "confidence"
  <2>1. PICK value : Fed(p) = [old EXCEPT !.confidence = value]
    BY <1>3 DEF Fed, old
  <2>2. Fed(p).strengths = old.strengths
    BY <1>1, <2>1
  <2> QED BY <1>3, <2>2 DEF Studied, old
<1>4. CASE h[p].at = "result"
  <2> DEFINE first == [old EXCEPT !.history = old.history + 1]
             second == [first EXCEPT !.strengths = first.strengths \cup Lesson(p)]
             third == [second EXCEPT !.weaknesses = second.weaknesses \cup call[p].weak]
  <2>1. Fed(p) = [third EXCEPT !.confidence = Lowered(third.confidence, call[p].weak, 15)]
    BY <1>4 DEF Fed, old
  <2>2. "strengths" \in DOMAIN first /\ first.strengths = old.strengths
    BY <1>1
  <2> HIDE DEF first
  <2>3. "strengths" \in DOMAIN second /\ second.strengths = old.strengths \cup Lesson(p)
    BY <2>2
  <2> HIDE DEF second
  <2>4. "strengths" \in DOMAIN third /\ third.strengths = old.strengths \cup Lesson(p)
    BY <2>3
  <2> HIDE DEF third
  <2> QED BY <2>1, <2>4 DEF old
<1> QED BY <1>2, <1>3, <1>4 DEF Rewriting

LEMMA LessonsAreFollowed ==
  ASSUME IInv, NEW p \in Requests, Serve(p) \/ Fails(p), Learner(p), Studied(p)
  PROVE  Lessons(p)
<1>1. /\ Practise(p) \/ PracticeFault(p)
      /\ call[p] # None /\ Does(p) \in {"feedback", "evaluate"} /\ h[p].at \in Lectures[Does(p)]
  BY DEF Serve, Fails, Practises, Learner, Studied, FirstOf, Lectures
<1>2. h[p].at \in {"arrived", "event", "lesson", "strengths", "confidence", "session", "remember",
                   "feed", "result", "commit", "done"}
  BY <1>1 DEF Lectures
<1>3. \A a : Ends(p, a) => h'[p].at = "done"
  BY EndedAt
<1>4. Raises(p) => h'[p].at = "done"
  BY <1>3 DEF Raises
<1>5. \A i, row : Write(p, i, row) => i \in DOMAIN edits'[p]
  BY StoredFacts
<1>6. \A to : Goes(p, to) => h'[p].at = to
  BY GoneTo
<1>7. \A to, value : Keeps(p, value, to) => h'[p].at = to /\ h'[p].copy = value
  BY KeptCopy
<1>8. CASE Sit(p)
  BY <1>6, <1>8 DEF Sit, Lessons
<1>9. CASE record_feedback(p) \/ evaluate(p) \/ RememberScore(p)
  BY <1>4, <1>5, <1>6, <1>9 DEF record_feedback, evaluate, RememberScore, Runs, Lessons
<1>10. CASE ReadTwin(p)
  <2>1. Does(p) = "feedback" /\ h[p].at = "lesson"
    BY <1>10, AskerFacts DEF ReadTwin, Runs, AskedBy
  <2>2. Lesson(p) = IF call[p].type \in Positive THEN call[p].skills ELSE {}
    BY <1>1, <2>1 DEF Lesson
  <2>3. "rejected" \notin Positive
    BY DEF Positive
  <2> QED BY <1>6, <1>7, <1>10, <2>1, <2>2, <2>3 DEF ReadTwin, Lessons, Copies
<1>11. CASE ReadHistory(p)
  <2>1. Does(p) = "evaluate" /\ h[p].at = "feed"
    BY <1>1, <1>11, AskerFacts DEF ReadHistory, Runs, AskedBy
  <2> QED BY <1>6, <1>7, <1>11, <2>1 DEF ReadHistory, Lessons, Copies
<1>12. CASE _apply_strengths(p) \/ _apply_rejection(p) \/ add_interview_result(p)
  <2>1. h[p].at \in Rewriting /\ Saves(p, Fed(p))
    BY <1>12 DEF _apply_strengths, _apply_rejection, add_interview_result, Runs, Fed, Rewriting
  <2>2. Goes(p, "commit")
    BY <1>1, <1>12 DEF _apply_strengths, _apply_rejection, add_interview_result
  <2>3. Fed(p) = h[p].copy => Lesson(p) \subseteq h[p].copy.strengths
    BY <2>1, FedFacts
  <2>4. Lesson(p) \subseteq h[p].copy.strengths \/ TwinId \in DOMAIN edits'[p]
    BY <1>5, <2>1, <2>3 DEF Saves
  <2> QED BY <1>6, <2>1, <2>2, <2>4 DEF Lessons
<1>13. CASE StatementRaises(p) \/ Commit(p) \/ CommitVanishes(p) \/ CommitRaises(p)
  BY <1>3, <1>4, <1>13 DEF StatementRaises, Commit, CommitVanishes, CommitRaises, Lessons
<1>14. CASE PracticeFault(p)
  <2>1. CASE \E a : Ends(p, a)
    BY <1>3, <2>1 DEF Lessons
  <2>2. CASE h[p].at = "remember" /\ h' = [h EXCEPT ![p].at = BestEffort(p)]
    <3>1. h'[p].at = BestEffort(p)
      BY <2>2, AskerFacts DEF Locals
    <3> QED BY <2>2, <3>1 DEF BestEffort, Lessons
  <2> QED BY <1>2, <1>14, <2>1, <2>2 DEF PracticeFault
<1> QED BY <1>1, <1>2, <1>8, <1>9, <1>10, <1>11, <1>12, <1>13, <1>14
        DEF Practise, get_for_date, check_in, CountStreak, generate, add_question, handle, ModelFails,
            BuildContext, Capture, Shadow, add_answer, _store_memory, summarize_if_long, AddSummary, clear, Runs

LEMMA ResultsHaveATwin ==
  ASSUME IInv, IInv', NEW p \in Requests, call' = call, Serve(p) \/ Fails(p), h'[p].at = "result"
  PROVE  Copies(p)
<1>1. AskedBy("result", Does(p)) /\ call[p] # None
  BY DEF IInv, Place, Asker, Does
<1>2. Practise(p) \/ PracticeFault(p)
  BY <1>1 DEF AskedBy, Serve, Fails, Practises, FirstOf
<1>3. (\A a : ~Ends(p, a)) /\ ~Raises(p)
  BY EndedAt DEF Raises
<1>4. \A to : Goes(p, to) \/ (\E value : Keeps(p, value, to)) => to = "result"
  BY GoneTo
<1>5. CASE ReadHistory(p)
  <2>1. HasTwin(p) /\ Keeps(p, View(p)[TwinId], "result")
    BY <1>4, <1>5 DEF ReadHistory
  <2> QED BY <2>1, KeptCopy DEF Copies
<1>6. CASE Sit(p)
  BY <1>1, <1>4, <1>6 DEF Sit, AskedBy, FirstOf
<1>7. CASE handle(p) \/ Shadow(p)
  <2>1. Does(p) \in {"advise", "judge", "agent", "chat", "summarize"}
    BY <1>7, AskerFacts DEF handle, Shadow, Runs, AskedBy
  <2>2. Told(p) # "result"
    BY <2>1 DEF Told
  <2> QED BY <1>4, <1>7, <2>2 DEF handle, Shadow
<1>8. CASE PracticeFault(p)
  <2>1. CASE h[p].at = "context" /\ \E aborted : h' = [h EXCEPT ![p].aborted = aborted, ![p].at = "commit"]
    <3>1. PICK aborted : h' = [h EXCEPT ![p] = [h[p] EXCEPT !.aborted = aborted, !.at = "commit"]]
      BY <2>1
    <3>2. h'[p].at = "commit"
      BY <3>1, AskerFacts DEF Locals
    <3> QED BY <3>2
  <2>2. CASE /\ h[p].at \in {"remember", "memory", "capture", "shadow", "model"}
             /\ h' = [h EXCEPT ![p].at = BestEffort(p)]
    <3>1. h'[p].at = BestEffort(p)
      BY <2>2, AskerFacts DEF Locals
    <3>2. h[p].at \in {"capture", "shadow", "model"} => Does(p) \in {"advise", "judge", "agent", "chat", "summarize"}
      BY AskerFacts DEF AskedBy
    <3> QED BY <2>2, <3>1, <3>2 DEF BestEffort, Told
  <2> QED BY <1>3, <1>8, <2>1, <2>2 DEF PracticeFault
<1>9. CASE \/ get_for_date(p) \/ check_in(p) \/ CountStreak(p) \/ record_feedback(p) \/ ReadTwin(p)
           \/ _apply_strengths(p) \/ _apply_rejection(p) \/ generate(p) \/ evaluate(p) \/ RememberScore(p)
  BY <1>3, <1>4, <1>9 DEF get_for_date, check_in, CountStreak, record_feedback, ReadTwin,
     _apply_strengths, _apply_rejection, generate, evaluate, RememberScore
<1>10. CASE \/ add_interview_result(p) \/ add_question(p) \/ ModelFails(p) \/ BuildContext(p) \/ Capture(p)
            \/ add_answer(p) \/ _store_memory(p) \/ summarize_if_long(p) \/ AddSummary(p) \/ clear(p)
            \/ StatementRaises(p) \/ Commit(p) \/ CommitVanishes(p) \/ CommitRaises(p)
  BY <1>3, <1>4, <1>10 DEF add_interview_result, add_question, ModelFails, BuildContext, Capture, add_answer,
     _store_memory, summarize_if_long, AddSummary, clear, StatementRaises, Commit, CommitVanishes, CommitRaises
<1> QED BY <1>2, <1>5, <1>6, <1>7, <1>8, <1>9, <1>10 DEF Practise

(* The twin a transaction sees, may write and delivers.                    *)
LEMMA TwinInView ==
  ASSUME SInv, LessonInv, NEW p \in Requests
  PROVE  /\ HasTwin(p) <=> TwinId \in DOMAIN rows
         /\ HasTwin(p) => "strengths" \in DOMAIN View(p)[TwinId] /\ View(p)[TwinId].strengths = Strengths(p)
<1>1. /\ TwinId \in DOMAIN rows => "strengths" \in DOMAIN rows[TwinId] /\ rows[TwinId] # Gone
      /\ TwinId \in DOMAIN edits[p] =>
           TwinId \in DOMAIN rows /\ "strengths" \in DOMAIN edits[p][TwinId] /\ edits[p][TwinId] # Gone
  BY NotGone DEF SInv, LessonInv, TwinKept, TwinEdited, TwinId
<1> QED BY <1>1, ViewFacts DEF HasTwin, Strengths

LEMMA TwinPut ==
  ASSUME SInv, LessonInv, NEW p \in Requests, NEW i, NEW row, Puts(p, i, row), i[1] = "twin"
  PROVE  /\ i = TwinId /\ TwinId \in DOMAIN rows /\ "strengths" \in DOMAIN row
         /\ h[p].at \in Rewriting
         /\ row.strengths = IF Lesson(p) \subseteq h[p].copy.strengths THEN Strengths(p)
                            ELSE h[p].copy.strengths \cup Lesson(p)
<1>1. i = TwinId /\ h[p].at \in Rewriting /\ row = Flushed(p, Fed(p))
  BY DEF Puts, Permits, Rewriting
<1>2. Studied(p) /\ TwinId \in DOMAIN rows
  BY <1>1 DEF LessonInv, Studied
<1>3. "strengths" \in DOMAIN View(p)[TwinId] /\ View(p)[TwinId].strengths = Strengths(p)
  BY <1>2, TwinInView
<1>4. Fed(p).strengths = h[p].copy.strengths \cup Lesson(p)
  BY <1>1, <1>2, FedFacts
<1>5. /\ "strengths" \in DOMAIN row
      /\ row.strengths = IF Fed(p).strengths = h[p].copy.strengths THEN View(p)[TwinId].strengths
                         ELSE Fed(p).strengths
  BY <1>1, <1>3 DEF Flushed
<1>6. Fed(p).strengths = h[p].copy.strengths <=> Lesson(p) \subseteq h[p].copy.strengths
  BY <1>4
<1> QED BY <1>1, <1>2, <1>3, <1>4, <1>5, <1>6

LEMMA TwinAfter ==
  ASSUME SInv, LessonInv, NEW p \in Requests, Affects(p)
  PROVE  /\ TwinId \in DOMAIN rows' <=> TwinId \in DOMAIN rows
         /\ TwinKept'
         /\ TwinId \in DOMAIN rows =>
              rows'[TwinId].strengths = IF Delivers(p) THEN Strengths(p) ELSE rows[TwinId].strengths
<1>1. ~Delivers(p) => rows' = rows
  BY DEF Affects, Looks, Puts, Removes, Loses, Quits, Remains
<1>2. /\ TwinId \in DOMAIN rows => "strengths" \in DOMAIN rows[TwinId] /\ rows[TwinId] # Gone
      /\ TwinId \in DOMAIN edits[p] =>
           TwinId \in DOMAIN rows /\ "strengths" \in DOMAIN edits[p][TwinId] /\ edits[p][TwinId] # Gone
  BY NotGone DEF SInv, LessonInv, TwinKept, TwinEdited, TwinId
<1> QED BY <1>1, <1>2, DeliveredRows DEF TwinKept, Strengths

(* Nobody but who teaches changes the strengths, and not unseen.           *)
LEMMA StrengthsAfter ==
  ASSUME SInv, LessonInv, NEW p \in Requests, Affects(p), TwinId \in DOMAIN rows
  PROVE  \/ rows'[TwinId].strengths = rows[TwinId].strengths
         \/ Delivers(p) /\ Lesson(p) # {} /\ TwinId \in DOMAIN edits[p]
<1>1. TwinId \in DOMAIN edits[p] => edits[p][TwinId].strengths = rows[TwinId].strengths \/ Lesson(p) # {}
  BY DEF LessonInv, TwinEdited, TwinId
<1> QED BY <1>1, TwinAfter DEF Strengths

LEMMA TeachesAloneBefore ==
  ASSUME SInv, NEW p \in Requests, Aside(p), Affects(p), NEW q \in Requests, TeachesAlone(q)'
  PROVE  TeachesAlone(q)
<1>1. \A s : Lesson(s)' = Lesson(s)
  BY LessonFacts DEF Aside
<1> QED BY <1>1, OverlapsGrow DEF TeachesAlone

LEMMA LessonsOfTheOthers ==
  ASSUME SInv, LessonInv, NEW p \in Requests, Aside(p), Affects(p), NEW q \in Requests \ {p}
  PROVE  Studied(q)' /\ TwinEdited(q)' /\ Unfed(q)'
<1>1. /\ call' = call /\ h'[q] = h[q] /\ edits'[q] = edits[q]
      /\ (q \in dead' <=> q \in dead) /\ (q \in open' <=> q \in open)
      /\ \A r : Does(r)' = Does(r)
  BY DEF Aside, Does
<1>2. \A r : Lesson(r)' = Lesson(r) /\ (Learner(r)' <=> Learner(r))
  BY <1>1, LessonFacts
<1>3. TwinId \in DOMAIN rows' <=> TwinId \in DOMAIN rows
  BY TwinAfter
<1>4. TwinId \in DOMAIN edits[q] => TwinId \notin DOMAIN edits[p]
  BY DEF SInv
<1>5. Studied(q) /\ TwinEdited(q) /\ Unfed(q)
  BY DEF LessonInv
<1>6. Studied(q)'
  BY <1>1, <1>2, <1>3, <1>5 DEF Studied
<1>7. TwinEdited(q)'
  <2>1. SUFFICES ASSUME NEW i \in DOMAIN edits[q], i[1] = "twin"
                 PROVE  /\ i = TwinId /\ TwinId \in DOMAIN rows' /\ "strengths" \in DOMAIN edits[q][i]
                        /\ edits[q][i].strengths = rows'[TwinId].strengths \/ Lesson(q) # {}
    BY <1>1, <1>2 DEF TwinEdited
  <2>2. /\ i = TwinId /\ TwinId \in DOMAIN rows /\ "strengths" \in DOMAIN edits[q][i]
        /\ edits[q][i].strengths = rows[TwinId].strengths \/ Lesson(q) # {}
    BY <1>5, <2>1 DEF TwinEdited
  <2>3. rows'[TwinId].strengths = rows[TwinId].strengths
    BY <1>4, <2>1, <2>2, StrengthsAfter
  <2> QED BY <1>3, <2>2, <2>3
<1>8. Unfed(q)'
  <2>1. SUFFICES ASSUME Lesson(q) # {}, TwinId \in DOMAIN rows', q \notin dead', Untaught(q)'
                 PROVE  /\ h[q].at \in Rewriting => h[q].copy.strengths = rows'[TwinId].strengths
                        /\ h[q].at = "commit" => Lesson(q) \subseteq Strengths(q)'
    BY <1>1, <1>2, <1>5 DEF Unfed
  <2>2. TwinId \in DOMAIN rows /\ Untaught(q)
    BY <1>2, <1>3, <2>1, OverlapsGrow DEF Untaught
  <2>3. h[q].at \in Rewriting \cup {"commit"} => rows'[TwinId].strengths = rows[TwinId].strengths
    <3>1. SUFFICES ASSUME h[q].at \in Rewriting \cup {"commit"}, Delivers(p), Lesson(p) # {} PROVE FALSE
      BY <2>2, StrengthsAfter
    <3>2. p \in overlap'[q]
      BY <3>1, OverlapsGrow DEF Rewriting
    <3> QED BY <1>2, <2>1, <3>1, <3>2 DEF Untaught
  <2>4. h[q].at = "commit" => Strengths(q)' = Strengths(q)
    BY <1>1, <2>3 DEF Strengths
  <2> QED BY <1>1, <1>5, <2>1, <2>2, <2>3, <2>4 DEF Unfed
<1> QED BY <1>6, <1>7, <1>8

(* What a statement of p leaves in its own transaction.                    *)
LEMMA TwinOfOne ==
  ASSUME SInv, LessonInv, NEW p \in Requests, Affects(p), NEW i \in DOMAIN edits'[p], i[1] = "twin"
  PROVE  /\ i = TwinId /\ TwinId \in DOMAIN rows /\ rows' = rows /\ "strengths" \in DOMAIN edits'[p][i]
         /\ \/ edits'[p][i].strengths = Strengths(p)
            \/ /\ h[p].at \in Rewriting /\ Lesson(p) # {}
               /\ edits'[p][i].strengths = h[p].copy.strengths \cup Lesson(p)
<1>1. i \in DOMAIN edits[p] =>
        /\ i = TwinId /\ TwinId \in DOMAIN rows /\ "strengths" \in DOMAIN edits[p][i]
        /\ edits[p][i].strengths = Strengths(p)
  BY DEF LessonInv, TwinEdited, Strengths
<1>2. CASE Looks(p)
  BY <1>1, <1>2 DEF Looks, Remains
<1>3. ASSUME NEW k, NEW row, Puts(p, k, row)
      PROVE  /\ i = TwinId /\ TwinId \in DOMAIN rows /\ rows' = rows /\ "strengths" \in DOMAIN edits'[p][i]
             /\ \/ edits'[p][i].strengths = Strengths(p)
                \/ /\ h[p].at \in Rewriting /\ Lesson(p) # {}
                   /\ edits'[p][i].strengths = h[p].copy.strengths \cup Lesson(p)
  <2>1. /\ rows' = rows /\ DOMAIN edits'[p] = {k} \cup DOMAIN edits[p] /\ edits'[p][k] = row
        /\ \A n \in DOMAIN edits[p] \ {k} : edits'[p][n] = edits[p][n]
    BY <1>3 DEF Puts, Remains
  <2>2. CASE i # k
    BY <1>1, <2>1, <2>2
  <2>3. CASE i = k
    <3>1. /\ i = TwinId /\ TwinId \in DOMAIN rows /\ "strengths" \in DOMAIN row /\ h[p].at \in Rewriting
          /\ row.strengths = IF Lesson(p) \subseteq h[p].copy.strengths THEN Strengths(p)
                             ELSE h[p].copy.strengths \cup Lesson(p)
      BY <1>3, <2>3, TwinPut
    <3>2. Lesson(p) = {} => Lesson(p) \subseteq h[p].copy.strengths
      OBVIOUS
    <3> QED BY <2>1, <2>3, <3>1, <3>2
  <2> QED BY <2>2, <2>3
<1>4. ASSUME NEW K, Removes(p, K)
      PROVE  rows' = rows /\ i \in DOMAIN edits[p] /\ edits'[p][i] = edits[p][i]
  BY <1>4 DEF Removes, Remains, Table
<1>5. CASE DOMAIN edits'[p] = {}
  BY <1>5
<1> QED BY <1>1, <1>2, <1>3, <1>4, <1>5 DEF Affects, Loses, Quits, Delivers, Leaves

LEMMA LessonsOfOne ==
  ASSUME IInv, SInv, LessonInv, NEW p \in Requests, Aside(p), Affects(p),
         Learner(p) => Lessons(p), h'[p].at = "result" => Copies(p), IInv', SInv'
  PROVE  Studied(p)' /\ TwinEdited(p)' /\ Unfed(p)'
<1>1. /\ call' = call /\ Does(p)' = Does(p)
      /\ h'[p].at \in {"event", "lesson", "strengths", "confidence"} => Learner(p) /\ Does(p) = "feedback"
  BY DEF Aside, Learner, Lectures, Does, IInv, Place, Asker, AskedBy
<1>2. \A r : Lesson(r)' = Lesson(r) /\ (Learner(r)' <=> Learner(r))
  BY <1>1, LessonFacts
<1>3. Studied(p) /\ TwinEdited(p) /\ Unfed(p)
  BY DEF LessonInv
<1>4. TwinId \in DOMAIN rows' <=> TwinId \in DOMAIN rows
  BY TwinAfter
<1>5. p \notin dead' /\ h'[p].at # "done" => p \notin dead /\ DOMAIN edits[p] \subseteq DOMAIN edits'[p]
  BY DEF Affects, Looks, Puts, Removes, Loses, Quits, Delivers, Leaves
<1>6. Studied(p)'
  <2>1. Learner(p) => h'[p].at \in Lectures[Does(p)]
    BY <1>3 DEF Lessons, Studied, Learner, Lectures, FirstOf, Rewriting
  <2>2. ASSUME p \notin dead', call[p] # None, Does(p) = "feedback",
               h'[p].at \in {"lesson", "strengths", "confidence", "commit"}
        PROVE  Mine("event", p, 0) \in DOMAIN edits'[p]
    <3>1. Lessons(p) /\ h[p].at \in Lectures.feedback
      BY <1>3, <2>2 DEF Learner, Lectures, Studied
    <3> QED BY <1>3, <1>5, <2>2, <3>1 DEF Lessons, Studied, Lectures, FirstOf, Rewriting
  <2>3. ASSUME NEW i \in DOMAIN edits'[p], i[1] = "event"
        PROVE  i = Mine("event", p, 0) /\ DOMAIN edits'[p][i] # {}
    <3>1. CASE Looks(p)
      BY <1>3, <2>3, <3>1 DEF Looks, Studied
    <3>2. ASSUME NEW k, NEW row, Puts(p, k, row)
          PROVE  i = Mine("event", p, 0) /\ DOMAIN edits'[p][i] # {}
      BY <1>3, <2>3, <3>2 DEF Puts, Permits, Studied
    <3>3. ASSUME NEW K, Removes(p, K)
          PROVE  i \in DOMAIN edits[p] /\ edits'[p][i] = edits[p][i]
      BY <2>3, <3>3 DEF Removes, Table
    <3>4. CASE DOMAIN edits'[p] = {}
      BY <2>3, <3>4
    <3> QED BY <1>3, <2>3, <3>1, <3>2, <3>3, <3>4 DEF Affects, Loses, Quits, Delivers, Leaves, Studied
  <2>4. ASSUME h'[p].at \in Rewriting
        PROVE  TwinId \in DOMAIN rows' /\ "strengths" \in DOMAIN h'[p].copy
    <3>1. Copies(p)
      BY <1>1, <2>4 DEF Lessons, Rewriting, Learner, FirstOf
    <3> QED BY <1>4, <3>1, TwinInView DEF Copies
  <2>5. (h'[p].at = "strengths" => Lesson(p) = call[p].skills) /\ (h'[p].at = "confidence" => Lesson(p) = {})
    BY <1>1 DEF Lessons, FirstOf
  <2> QED BY <1>1, <1>2, <2>1, <2>2, <2>3, <2>4, <2>5 DEF Studied
<1>7. TwinEdited(p)'
  <2>1. SUFFICES ASSUME NEW i \in DOMAIN edits'[p], i[1] = "twin"
                 PROVE  /\ i = TwinId /\ TwinId \in DOMAIN rows' /\ "strengths" \in DOMAIN edits'[p][i]
                        /\ edits'[p][i].strengths = rows'[TwinId].strengths \/ Lesson(p) # {}
    BY <1>2 DEF TwinEdited
  <2>2. Strengths(p) = rows[TwinId].strengths \/ Lesson(p) # {}
    BY <1>3 DEF Strengths, TwinEdited, TwinId
  <2> QED BY <1>4, <2>1, <2>2, TwinOfOne
<1>8. Unfed(p)'
  <2>1. ASSUME Learner(p), h'[p].at \notin {"commit", "done"}
        PROVE  /\ Remains(p) /\ TwinId \notin DOMAIN edits[p] /\ TwinId \notin DOMAIN edits'[p]
               /\ h[p].at \in {"arrived", "event", "session", "remember", "lesson", "feed"}
    <3>1. Lessons(p) /\ Remains(p)
      BY <2>1 DEF Affects, Looks, Puts, Removes, Loses, Quits, Delivers, Leaves
    <3>2. h[p].at \in {"arrived", "event", "session", "remember", "lesson", "feed"}
      BY <2>1, <3>1 DEF Lessons
    <3>3. TwinId \notin DOMAIN edits[p]
      BY <1>3, <2>1, <3>2 DEF Unfed
    <3>4. ASSUME NEW i, NEW row, Puts(p, i, row) PROVE i # TwinId
      BY <3>2, <3>4 DEF Puts, Permits, TwinId
    <3>5. TwinId \notin DOMAIN edits'[p]
      BY <2>1, <3>2, <3>3, <3>4 DEF Affects, Looks, Puts, Removes, Loses, Quits, Delivers, Leaves
    <3> QED BY <3>1, <3>2, <3>3, <3>5
  <2>2. ASSUME Lesson(p) # {}, TwinId \in DOMAIN rows', p \notin dead', Untaught(p)'
        PROVE  /\ h'[p].at \in Rewriting => h'[p].copy.strengths = rows'[TwinId].strengths
               /\ h'[p].at = "commit" => Lesson(p) \subseteq Strengths(p)'
    <3>1. TwinId \in DOMAIN rows /\ Untaught(p) /\ Learner(p) /\ HasTwin(p)
      BY <1>2, <1>4, <2>2, LessonFacts, OverlapsGrow, TwinInView DEF Untaught
    <3>2. ASSUME h'[p].at \in Rewriting PROVE h'[p].copy.strengths = rows'[TwinId].strengths
      <4>1. Remains(p) /\ TwinId \notin DOMAIN edits[p] /\ rows' = rows
        BY <2>1, <3>1, <3>2 DEF Rewriting, Remains
      <4>2. Copies(p)
        BY <2>1, <3>1, <3>2 DEF Lessons, Rewriting, FirstOf, Learner, Lectures
      <4> QED BY <3>1, <4>1, <4>2, TwinInView DEF Copies, Strengths
    <3>3. ASSUME h'[p].at = "commit" PROVE Lesson(p) \subseteq Strengths(p)'
      <4>1. /\ Remains(p) /\ rows' = rows /\ p \notin dead
        BY <1>5, <2>2, <3>3 DEF Affects, Looks, Puts, Removes, Loses, Quits, Delivers, Leaves, Remains
      <4>2. /\ h[p].at \in {"strengths", "result"} /\ h[p].at \in Rewriting
            /\ Lesson(p) \subseteq h[p].copy.strengths \/ TwinId \in DOMAIN edits'[p]
        BY <1>3, <2>2, <3>1, <3>3 DEF Lessons, Rewriting, Studied, FirstOf, Learner, Lectures
      <4>3. TwinId \notin DOMAIN edits[p] /\ h[p].copy.strengths = rows[TwinId].strengths
        BY <1>3, <2>2, <3>1, <4>1, <4>2 DEF Unfed
      <4>4. CASE TwinId \notin DOMAIN edits'[p]
        BY <4>1, <4>2, <4>3, <4>4 DEF Strengths
      <4>5. CASE TwinId \in DOMAIN edits'[p]
        <5>1. \E i, row : Puts(p, i, row)
          BY <4>1, <4>2, <4>3, <4>5 DEF Affects, Looks, Removes, Loses, Quits, Delivers, Leaves
        <5>2. PICK i, row : Puts(p, i, row)
          BY <5>1
        <5>3. i = TwinId
          BY <4>3, <4>5, <5>2 DEF Puts
        <5>4. i[1] = "twin"
          BY <5>3 DEF TwinId
        <5>5. row.strengths = IF Lesson(p) \subseteq h[p].copy.strengths THEN Strengths(p)
                              ELSE h[p].copy.strengths \cup Lesson(p)
          BY <5>2, <5>4, TwinPut
        <5>6. Lesson(p) \subseteq row.strengths
          BY <4>3, <5>5 DEF Strengths
        <5>7. edits'[p][TwinId] = row
          BY <5>2, <5>3 DEF Puts
        <5> QED BY <4>5, <5>6, <5>7 DEF Strengths
      <4> QED BY <4>4, <4>5
    <3> QED BY <3>2, <3>3
  <2> QED BY <1>2, <2>1, <2>2 DEF Unfed
<1> QED BY <1>6, <1>7, <1>8

LEMMA PassedOn ==
  ASSUME IInv, SInv, LessonInv, NEW p \in Requests, Aside(p), Affects(p),
         Learner(p) => Lessons(p), NEW r \in Requests, NEW q \in Requests \ {r}
  PROVE  PassesOn(r, q)'
<1>1. /\ call' = call
      /\ \A s \in Requests \ {p} :
            /\ h'[s] = h[s] /\ edits'[s] = edits[s] /\ (s \in open' <=> s \in open)
  BY DEF Aside
<1>2. \A s : Lesson(s)' = Lesson(s)
  BY <1>1, LessonFacts
<1>3. SUFFICES ASSUME Learned(r)', Lesson(r) # {}, TwinId \in DOMAIN rows', TeachesAlone(r)',
                      Lesson(q) # {}, q \in open'
               PROVE  /\ h'[q].at \in Rewriting => Lesson(r) \subseteq h'[q].copy.strengths
                      /\ TwinId \in DOMAIN edits'[q] => Lesson(r) \subseteq edits'[q][TwinId].strengths
  BY <1>2 DEF PassesOn
<1>4. TwinId \in DOMAIN rows /\ TeachesAlone(r) /\ (Learned(r) \/ (r = p /\ Delivers(p)))
  BY <1>3, TwinAfter, TeachesAloneBefore, OnlyACommitEndsWell DEF Learned
<1>5. CASE ~Learned(r)
  <2>1. q # p /\ q \in open /\ p \in overlap'[q]
    BY <1>1, <1>3, <1>4, <1>5, OverlapsGrow DEF SInv
  <2> QED BY <1>2, <1>3, <1>4, <1>5, <2>1 DEF TeachesAlone
<1>6. CASE Learned(r) /\ q # p
  <2>1. q \in open
    BY <1>1, <1>3, <1>6
  <2>2. PassesOn(r, q)
    BY DEF LessonInv
  <2>3. h'[q] = h[q] /\ edits'[q] = edits[q]
    BY <1>1, <1>6
  <2> QED BY <1>3, <1>4, <1>6, <2>1, <2>2, <2>3 DEF PassesOn
<1>7. CASE Learned(r) /\ q = p
  <2>1. Lesson(r) \subseteq rows[TwinId].strengths
    BY <1>3, <1>4, <1>7 DEF LessonInv, OutcomesAreLearned, Learned
  <2>2. /\ p \in open => PassesOn(r, p)
        /\ p \in open \/ (h[p].at = "arrived" /\ DOMAIN edits[p] = {})
    <3>1. h[p].at # "done"
      BY <1>3, <1>7 DEF Affects, Looks, Puts, Removes, Loses, Quits, Delivers, Leaves, Remains
    <3> QED BY <1>7, <3>1 DEF SInv, LessonInv
  <2>3. /\ Lesson(r) \subseteq Strengths(p)
        /\ h[p].at \in Rewriting => Lesson(r) \subseteq h[p].copy.strengths
    BY <1>3, <1>4, <1>7, <2>1, <2>2 DEF PassesOn, Strengths, Rewriting
  <2>4. ASSUME h'[p].at \in Rewriting PROVE Lesson(r) \subseteq h'[p].copy.strengths
    <3>1. Lessons(p) /\ Learner(p)
      BY <1>3, <1>7, LessonFacts
    <3>2. Copies(p)
      BY <2>4, <3>1 DEF Lessons, Rewriting, FirstOf, Learner, Lectures
    <3>3. h'[p].copy.strengths = Strengths(p)
      BY <3>2, TwinInView DEF Copies
    <3> QED BY <2>3, <3>3
  <2>5. ASSUME TwinId \in DOMAIN edits'[p] PROVE Lesson(r) \subseteq edits'[p][TwinId].strengths
    <3>1. TwinId[1] = "twin"
      BY DEF TwinId
    <3>2. \/ edits'[p][TwinId].strengths = Strengths(p)
          \/ /\ h[p].at \in Rewriting
             /\ edits'[p][TwinId].strengths = h[p].copy.strengths \cup Lesson(p)
      BY <2>5, <3>1, TwinOfOne
    <3> QED BY <2>3, <3>2
  <2> QED BY <1>7, <2>4, <2>5
<1> QED BY <1>5, <1>6, <1>7

LEMMA StillLearned ==
  ASSUME IInv, SInv, LessonInv, NEW p \in Requests, Aside(p), Affects(p)
  PROVE  OutcomesAreLearned'
<1>1. \A s : Lesson(s)' = Lesson(s) /\ Does(s)' = Does(s)
  BY LessonFacts DEF Aside, Does
<1>2. SUFFICES ASSUME NEW r \in Requests, Learned(r)'
               PROVE  /\ Does(r) = "feedback" => Mine("event", r, 0) \in DOMAIN rows'
                      /\ TwinId \in DOMAIN rows' /\ Lesson(r) # {} /\ TeachesAlone(r)'
                           => Lesson(r) \subseteq rows'[TwinId].strengths
  BY <1>1 DEF OutcomesAreLearned, Learned, Well
<1>3. call[r] # None /\ (Learned(r) \/ (r = p /\ Delivers(p)))
  BY <1>2, OnlyACommitEndsWell DEF Learned
<1>4. ~Delivers(p) => rows' = rows
  BY DEF Affects, Looks, Puts, Removes, Loses, Quits, Remains
<1>5. CASE Learned(r)
  <2>1. /\ Does(r) = "feedback" => Mine("event", r, 0) \in DOMAIN rows
        /\ TwinId \in DOMAIN rows /\ TeachesAlone(r) => Lesson(r) \subseteq rows[TwinId].strengths
    BY <1>5 DEF LessonInv, OutcomesAreLearned, Learned, Well
  <2>2. ASSUME Does(r) = "feedback" PROVE Mine("event", r, 0) \in DOMAIN rows'
    <3>1. Mine("event", r, 0) \in DOMAIN edits[p] => edits[p][Mine("event", r, 0)] # Gone
      BY MineFacts, NotGone DEF LessonInv, Studied
    <3> QED BY <1>4, <2>1, <2>2, <3>1, DeliveredRows
  <2>3. ASSUME TwinId \in DOMAIN rows', Lesson(r) # {}, TeachesAlone(r)'
        PROVE  Lesson(r) \subseteq rows'[TwinId].strengths
    <3>1. TwinId \in DOMAIN rows /\ TeachesAlone(r) /\ Lesson(r) \subseteq rows[TwinId].strengths
      BY <2>1, <2>3, TwinAfter, TeachesAloneBefore
    <3>2. CASE rows'[TwinId].strengths = rows[TwinId].strengths
      BY <3>1, <3>2
    <3>3. CASE Delivers(p) /\ Lesson(p) # {} /\ TwinId \in DOMAIN edits[p]
      <4>1. p \in open /\ r # p
        <5>1. h[p].at = "commit"
          BY <3>3 DEF Delivers
        <5> QED BY <1>5, <5>1 DEF SInv, IInv, Place, Learned, Well
      <4>2. PassesOn(r, p)
        BY <4>1 DEF LessonInv
      <4>3. Lesson(r) \subseteq edits[p][TwinId].strengths
        BY <1>5, <2>3, <3>1, <3>3, <4>1, <4>2 DEF PassesOn
      <4> QED BY <3>1, <3>3, <4>3, TwinAfter DEF Strengths
    <3> QED BY <3>1, <3>2, <3>3, StrengthsAfter
  <2> QED BY <2>2, <2>3
<1>6. CASE r = p /\ Delivers(p)
  <2>1. h[p].at = "commit" /\ p \notin dead
    BY <1>6 DEF Delivers
  <2>2. ASSUME Does(p) = "feedback" PROVE Mine("event", p, 0) \in DOMAIN rows'
    <3>1. Mine("event", p, 0) \in DOMAIN edits[p] /\ edits[p][Mine("event", p, 0)] # Gone
      BY <1>3, <1>6, <2>1, <2>2, MineFacts, NotGone DEF LessonInv, Studied
    <3> QED BY <1>6, <3>1, DeliveredRows
  <2>3. ASSUME TwinId \in DOMAIN rows', Lesson(p) # {}, TeachesAlone(p)'
        PROVE  Lesson(p) \subseteq rows'[TwinId].strengths
    <3>1. TwinId \in DOMAIN rows /\ TeachesAlone(p)
      BY <2>3, TwinAfter, TeachesAloneBefore
    <3>2. Untaught(p)
      BY <3>1 DEF Untaught, TeachesAlone
    <3> QED BY <1>6, <2>1, <2>3, <3>1, <3>2, TwinAfter DEF LessonInv, Unfed
  <2> QED BY <1>6, <2>2, <2>3
<1> QED BY <1>3, <1>5, <1>6

LEMMA LessonsGoOn ==
  ASSUME IInv, SInv, LessonInv, NEW p \in Requests, Serve(p) \/ Fails(p), IInv', SInv'
  PROVE  LessonInv'
<1>1. Aside(p) /\ Affects(p)
  BY StepsTransact, StepsAffect
<1>2. Learner(p) => Lessons(p)
  BY LessonsAreFollowed DEF LessonInv
<1>3. h'[p].at = "result" => Copies(p)
  BY <1>1, ResultsHaveATwin DEF Aside
<1>4. \A q \in Requests : Studied(q)' /\ TwinEdited(q)' /\ Unfed(q)'
  BY <1>1, <1>2, <1>3, LessonsOfOne, LessonsOfTheOthers
<1>5. \A r \in Requests : \A q \in Requests \ {r} : PassesOn(r, q)'
  BY <1>1, <1>2, PassedOn
<1>6. OutcomesAreLearned' /\ TwinKept'
  BY <1>1, StillLearned, TwinAfter
<1> QED BY <1>4, <1>5, <1>6 DEF LessonInv

LEMMA LessonsOpen == PracticeInit => LessonInv
  <1> SUFFICES ASSUME PracticeInit PROVE LessonInv
    OBVIOUS
  <1>1. /\ h = [p \in Requests |-> Fresh] /\ dead = {} /\ edits = [p \in Requests |-> Nothing]
        /\ answer = [p \in Requests |-> None]
        /\ rows \in Beginnings \cup {talk[2] : talk \in Talks}
    BY DEF PracticeInit, Init, SessionInit
  <1>2. TwinKept
    BY <1>1, FoundAssumption DEF TwinKept, TwinId
  <1>3. \A p \in Requests : h[p].at = "arrived" /\ DOMAIN edits[p] = {} /\ \A do : ~Well(p, do)
    BY <1>1 DEF Fresh, Nothing, Well
  <1>4. \A p \in Requests : Studied(p) /\ TwinEdited(p) /\ Unfed(p)
    BY <1>3 DEF Studied, TwinEdited, Unfed, Rewriting, Learner, Lectures
  <1>5. OutcomesAreLearned /\ \A p \in Requests : \A q \in Requests \ {p} : PassesOn(p, q)
    BY <1>3 DEF OutcomesAreLearned, PassesOn, Learned
  <1> QED BY <1>2, <1>4, <1>5 DEF LessonInv

LEMMA LessonsStay ==
  ASSUME IInv, SInv, LessonInv, [PracticeNext]_vars
  PROVE  IInv' /\ SInv' /\ LessonInv'
<1>1. IInv'
  BY PracticeGoesOn
<1>2. ASSUME NEW p \in Requests, Serve(p) \/ Fails(p) PROVE SInv' /\ LessonInv'
  BY <1>1, <1>2, StepsTransact, StepsAffect, SessionsGoOn, LessonsGoOn
<1>3. CASE UNCHANGED vars
  <2>1. SInv'
    BY <1>3 DEF vars, session, SInv
  <2>2. \A p : Lesson(p)' = Lesson(p) /\ (Learner(p)' <=> Learner(p))
    BY <1>3, LessonFacts DEF vars
  <2>3. OutcomesAreLearned' /\ TwinKept'
    BY <1>3, <2>2 DEF vars, session, LessonInv, OutcomesAreLearned, TwinKept, Well, TeachesAlone, Does
  <2>4. \A p \in Requests : Studied(p)' /\ TwinEdited(p)' /\ Unfed(p)'
    BY <1>3, <2>2 DEF vars, session, LessonInv, Studied, TwinEdited, Unfed, Untaught, Strengths, Does
  <2>5. \A p \in Requests : \A q \in Requests \ {p} : PassesOn(p, q)'
    BY <1>3, <2>2 DEF vars, session, LessonInv, PassesOn, Learned, Well, TeachesAlone, Does
  <2> QED BY <1>1, <2>1, <2>3, <2>4, <2>5 DEF LessonInv
<1> QED BY <1>1, <1>2, <1>3 DEF PracticeNext

(* What a confirmed outcome or interview has shown to be a strength stays  *)
(* among the twin's strengths whatever else is learned, unless another     *)
(* request that adds to them ran at the same moment, and every outcome     *)
(* that was accepted has its event (FeedbackService.record_feedback and    *)
(* _apply_strengths, CareerTwinService.add_interview_result).              *)
THEOREM OutcomesAlwaysLearned == PracticeSpec => []OutcomesAreLearned
<1>1. PracticeInit => IInv /\ SInv /\ LessonInv
  BY PracticeOpens, SessionsOpen, LessonsOpen
<1>2. (IInv /\ SInv /\ LessonInv) /\ [PracticeNext]_vars => (IInv /\ SInv /\ LessonInv)'
  BY LessonsStay
<1>3. LessonInv => OutcomesAreLearned
  BY DEF LessonInv
<1> QED BY <1>1, <1>2, <1>3, PTL DEF PracticeSpec

-----------------------------------------------------------------------------
(* Check-ins.  A check-in writes the day's row it has found or else its    *)
(* own; one that met no other has found all there are.                     *)

Checker(p) == call[p] # None /\ Does(p) = "checkin"
Uncrossed(p) == \A q \in Requests \ {p} : Checker(q) => q \notin overlap[p]
Sheet(row) == DOMAIN row = {"day", "tasks"} /\ row.tasks \in Nat
DayRows == {i \in Table("checkin", rows) : rows[i].day = 0}
DayEdits(p) == Table("checkin", edits[p])
Days(p) == DayRows \cup DayEdits(p)
Tasks(p, i) == IF i \in DOMAIN edits[p] THEN edits[p][i].tasks ELSE rows[i].tasks

Checking(p) ==
  /\ Checker(p) => h[p].at \in {"arrived", "day", "checkin", "streak", "commit", "done"}
  /\ \A i \in DayEdits(p) :
       /\ Checker(p) /\ h[p].at \in {"streak", "commit"}
       /\ Sheet(edits[p][i]) /\ edits[p][i].day = 0
       /\ i \in DayRows \/ i = Mine("checkin", p, 0)
  /\ h[p].at # "done" => Mine("checkin", p, 0) \notin DOMAIN rows
  /\ h[p].at = "checkin" => \A x \in h[p].copy : x[1] \in DayRows /\ x[2] \in Nat

Counted(p) ==
  Checker(p) /\ Uncrossed(p) =>
    /\ h[p].at = "checkin" =>
         /\ h[p].copy = {<<i, rows[i].tasks>> : i \in DayRows}
         /\ DayRows = {} \/ \E r \in DayRows : DayRows = {r}
    /\ h[p].at \in {"streak", "commit"} => \E r \in Days(p) : Days(p) = {r} /\ Tasks(p, r) >= call[p].tasks

(* Who comes after p writes no row but those of p, and no less into them.  *)
Heeds(p, q) ==
  Well(p, "checkin") /\ Alone(p, "checkin") /\ Checker(q) /\ q \in open =>
    /\ h[q].at = "checkin" => h[q].copy # {} /\ \A x \in h[q].copy : x[2] >= call[p].tasks
    /\ \A i \in DayEdits(q) : i \in DayRows /\ edits[q][i].tasks >= call[p].tasks

Sheets == IsFiniteSet(Table("checkin", rows)) /\ \A i \in Table("checkin", rows) : Sheet(rows[i])
CheckInv ==
  /\ CheckinsAreKept /\ Sheets
  /\ \A p \in Requests : Checking(p) /\ Counted(p)
  /\ \A p \in Requests : \A q \in Requests \ {p} : Heeds(p, q)

CheckSteps(p) ==
  LET at == h[p].at
      to == h'[p].at
      same == edits'[p] = edits[p]
  IN \/ to = "done"
     \/ at = "arrived" /\ to = "day"
     \/ /\ at = "day" /\ to = "checkin" /\ same
        /\ ~(Cardinality(Today(p)) > 1) /\ h'[p].copy = {<<i, View(p)[i].tasks>> : i \in Today(p)}
     \/ /\ at = "checkin" /\ to = "streak"
        /\ \/ h[p].copy = {} /\ Mine("checkin", p, 0) \in DOMAIN edits'[p]
           \/ \E found \in h[p].copy :
                IF call[p].tasks > found[2] THEN found[1] \in DOMAIN edits'[p] ELSE same
     \/ at = "streak" /\ to = "commit" /\ same

LEMMA CheckinsAreFollowed ==
  ASSUME IInv, NEW p \in Requests, Serve(p) \/ Fails(p), Checker(p), Checking(p)
  PROVE  CheckSteps(p)
<1>1. /\ Practise(p) \/ PracticeFault(p)
      /\ h[p].at \in {"arrived", "day", "checkin", "streak", "commit", "done"}
      /\ Does(p) = "checkin"
  BY DEF Serve, Fails, Practises, Checker, Checking, FirstOf
<1>2. \A a : Ends(p, a) => h'[p].at = "done"
  BY EndedAt
<1>3. Raises(p) => h'[p].at = "done"
  BY <1>2 DEF Raises
<1>4. \A i, row : Write(p, i, row) => i \in DOMAIN edits'[p]
  BY StoredFacts
<1>5. \A to : Goes(p, to) => h'[p].at = to
  BY GoneTo
<1>6. \A to, value : Keeps(p, value, to) => h'[p].at = to /\ h'[p].copy = value
  BY KeptCopy
<1>7. Reads(p) => edits'[p] = edits[p]
  BY DEF Reads, session
<1>8. CASE Sit(p)
  BY <1>1, <1>5, <1>8 DEF Sit, FirstOf, CheckSteps
<1>9. CASE get_for_date(p)
  <2>1. CASE Raises(p)
    BY <1>3, <2>1 DEF CheckSteps
  <2>2. CASE ~Raises(p)
    <3>1. /\ h[p].at = "day" /\ ~(Cardinality(Today(p)) > 1) /\ Reads(p)
          /\ Keeps(p, {<<i, View(p)[i].tasks>> : i \in Today(p)}, "checkin")
      BY <1>9, <2>2 DEF get_for_date, Runs
    <3>2. h'[p].at = "checkin" /\ h'[p].copy = {<<i, View(p)[i].tasks>> : i \in Today(p)}
      BY <1>6, <3>1
    <3> QED BY <1>7, <3>1, <3>2 DEF CheckSteps
  <2> QED BY <2>1, <2>2
<1>10. CASE check_in(p)
  BY <1>4, <1>5, <1>7, <1>10 DEF check_in, Started, Runs, CheckSteps
<1>11. CASE CountStreak(p)
  BY <1>6, <1>7, <1>11 DEF CountStreak, Runs, CheckSteps
<1>12. CASE StatementRaises(p) \/ Commit(p) \/ CommitVanishes(p) \/ CommitRaises(p)
  BY <1>2, <1>3, <1>12 DEF StatementRaises, Commit, CommitVanishes, CommitRaises, CheckSteps
<1>13. CASE PracticeFault(p)
  BY <1>1, <1>2, <1>13 DEF PracticeFault, CheckSteps
<1> QED BY <1>1, <1>8, <1>9, <1>10, <1>11, <1>12, <1>13
        DEF Practise, record_feedback, ReadTwin, _apply_strengths, _apply_rejection, generate, evaluate,
            RememberScore, ReadHistory, add_interview_result, add_question, handle, ModelFails, BuildContext, Capture,
            Shadow, add_answer, _store_memory, summarize_if_long, AddSummary, clear, Runs

(* The day as a transaction sees it.                                       *)
LEMMA TodayFacts ==
  ASSUME SInv, CheckInv, NEW p \in Requests
  PROVE  /\ Today(p) = Days(p)
         /\ \A i \in Days(p) : View(p)[i].tasks = Tasks(p, i) /\ Tasks(p, i) \in Nat
         /\ \A i \in DayRows : Tasks(p, i) \in Nat /\ rows[i].tasks \in Nat
<1>1. \A i \in DayEdits(p) : Sheet(edits[p][i]) /\ edits[p][i].day = 0 /\ edits[p][i] # Gone
  BY NotGone DEF CheckInv, Checking, Sheet
<1>2. \A i \in DayRows : Sheet(rows[i]) /\ rows[i].day = 0 /\ rows[i] # Gone /\ i \in DOMAIN rows /\ i[1] = "checkin"
  BY DEF CheckInv, Sheets, DayRows, SInv, Table
<1>3. ASSUME NEW i, i[1] = "checkin"
      PROVE  i \in DOMAIN View(p) /\ View(p)[i].day = 0 <=> i \in Days(p)
  BY <1>1, <1>2, <1>3, ViewFacts DEF Days, DayEdits, DayRows, Table
<1>4. Today(p) = Days(p)
  BY <1>2, <1>3 DEF Today, Table, Days, DayEdits
<1>5. ASSUME NEW i \in Days(p) PROVE View(p)[i].tasks = Tasks(p, i) /\ Tasks(p, i) \in Nat
  <2>1. i[1] = "checkin" /\ i \in DOMAIN View(p)
    BY <1>2, <1>3 DEF Days, DayEdits, Table
  <2> QED BY <1>1, <1>2, <1>5, <2>1, ViewFacts DEF Tasks, Days, DayEdits, Table, Sheet
<1>6. \A i \in DayRows : Tasks(p, i) \in Nat /\ rows[i].tasks \in Nat
  BY <1>2, <1>5 DEF Days, Sheet
<1> QED BY <1>4, <1>5, <1>6

LEMMA SheetPut ==
  ASSUME IInv, SInv, CheckInv, NEW p \in Requests, NEW i, NEW row, Puts(p, i, row), i[1] = "checkin"
  PROVE  /\ Checker(p) /\ h[p].at = "checkin" /\ DayEdits(p) = {}
         /\ Sheet(row) /\ row.day = 0 /\ row.tasks = call[p].tasks /\ call[p].tasks \in Nat
         /\ \/ h[p].copy = {} /\ i = Mine("checkin", p, 0)
            \/ i \in DayRows /\ \E found \in h[p].copy : i = found[1] /\ call[p].tasks > found[2]
<1>1. h[p].at = "checkin" /\ Permits(p, i, row)
  BY DEF Puts, Permits
<1>2. Checker(p) /\ call[p].tasks \in Nat
  BY <1>1, AskerFacts DEF AskedBy, Checker, IInv, Asked
<1>3. DayEdits(p) = {} /\ Checking(p)
  BY <1>1 DEF CheckInv, Checking
<1>4. CASE h[p].copy = {} /\ i = Mine("checkin", p, 0) /\ row = [day |-> 0, tasks |-> call[p].tasks]
  BY <1>1, <1>2, <1>3, <1>4 DEF Sheet
<1>5. ASSUME NEW found \in h[p].copy, call[p].tasks > found[2], i = found[1],
             row = [View(p)[i] EXCEPT !.tasks = call[p].tasks]
      PROVE  i \in DayRows /\ Sheet(row) /\ row.day = 0 /\ row.tasks = call[p].tasks
  <2>1. i \in DayRows
    BY <1>1, <1>3, <1>5 DEF Checking
  <2>2. Sheet(rows[i]) /\ rows[i].day = 0 /\ rows[i] # Gone /\ i \in DOMAIN rows
    BY <2>1 DEF CheckInv, Sheets, DayRows, SInv, Table
  <2>3. View(p)[i] = rows[i]
    <3>1. i \notin DOMAIN edits[p]
      BY <1>3, <2>1 DEF DayEdits, DayRows, Table
    <3> QED BY <2>2, <3>1, ViewFacts
  <2> DEFINE old == View(p)[i]
  <2>4. DOMAIN old = {"day", "tasks"} /\ old.day = 0
    BY <2>2, <2>3 DEF Sheet
  <2> HIDE DEF old
  <2>5. row = [old EXCEPT !.tasks = call[p].tasks]
    BY <1>5 DEF old
  <2> QED BY <1>2, <2>1, <2>4, <2>5 DEF Sheet
<1> QED BY <1>1, <1>2, <1>3, <1>4, <1>5 DEF Permits

LEMMA DayDelivered ==
  ASSUME SInv, CheckInv, NEW p \in Requests, Delivers(p)
  PROVE  /\ Table("checkin", rows') = Table("checkin", rows) \cup DayEdits(p)
         /\ \A i \in Table("checkin", rows') : Sheet(rows'[i])
         /\ DayRows' = Days(p)
         /\ \A i \in Days(p) : rows'[i].tasks = Tasks(p, i)
<1>1. \A i \in DayEdits(p) : Sheet(edits[p][i]) /\ edits[p][i].day = 0 /\ edits[p][i] # Gone
  BY NotGone DEF CheckInv, Checking, Sheet
<1>2. ASSUME NEW i, i[1] = "checkin"
      PROVE  /\ i \in DOMAIN rows' <=> i \in DOMAIN edits[p] \cup DOMAIN rows
             /\ i \in DOMAIN rows' => rows'[i] = IF i \in DOMAIN edits[p] THEN edits[p][i] ELSE rows[i]
             /\ i \in DOMAIN edits[p] => i \in DayEdits(p)
  BY <1>1, <1>2, DeliveredRows DEF DayEdits, Table
<1>3. Table("checkin", rows') = Table("checkin", rows) \cup DayEdits(p)
  BY <1>2 DEF Table, DayEdits
<1>4. \A i \in Table("checkin", rows') : Sheet(rows'[i])
  BY <1>1, <1>2 DEF CheckInv, Sheets, Table
<1>5. DayRows' = Days(p)
  BY <1>1, <1>2, <1>3 DEF DayRows, Days, DayEdits, Table
<1>6. \A i \in Days(p) : i[1] = "checkin" /\ i \in DOMAIN rows'
  BY <1>5 DEF DayRows, Table
<1>7. \A i \in Days(p) : rows'[i].tasks = Tasks(p, i)
  BY <1>2, <1>6 DEF Tasks
<1> QED BY <1>3, <1>4, <1>5, <1>7

LEMMA DayAfter ==
  ASSUME SInv, CheckInv, NEW p \in Requests, Affects(p)
  PROVE  /\ Sheets' /\ DayRows \subseteq DayRows'
         /\ ~Delivers(p) => rows' = rows /\ DayRows' = DayRows
         /\ Delivers(p) => DayRows' = Days(p) /\ \A i \in Days(p) : rows'[i].tasks = Tasks(p, i)
         /\ DayEdits(p) # {} => Checker(p)
         /\ \A i \in DOMAIN rows' : i[1] = "checkin" => i \in DOMAIN rows \/ i = Mine("checkin", p, 0)
<1>1. ~Delivers(p) => rows' = rows
  BY DEF Affects, Looks, Puts, Removes, Loses, Quits, Remains
<1>2. /\ DayEdits(p) # {} => Checker(p)
      /\ DayEdits(p) \subseteq DayRows \cup {Mine("checkin", p, 0)}
  BY DEF CheckInv, Checking
<1>3. CASE ~Delivers(p)
  BY <1>1, <1>2, <1>3 DEF CheckInv, Sheets, DayRows
<1>4. CASE Delivers(p)
  <2>1. /\ Table("checkin", rows') = Table("checkin", rows) \cup DayEdits(p)
        /\ \A i \in Table("checkin", rows') : Sheet(rows'[i])
        /\ DayRows' = Days(p) /\ \A i \in Days(p) : rows'[i].tasks = Tasks(p, i)
    BY <1>4, DayDelivered
  <2>2. Table("checkin", rows') \subseteq Table("checkin", rows) \cup {Mine("checkin", p, 0)}
    BY <1>2, <2>1 DEF DayRows
  <2>3. IsFiniteSet(Table("checkin", rows) \cup {Mine("checkin", p, 0)})
    BY FS_AddElement DEF CheckInv, Sheets
  <2>4. IsFiniteSet(Table("checkin", rows'))
    BY <2>2, <2>3, FS_Subset
  <2> QED BY <1>2, <1>4, <2>1, <2>2, <2>4 DEF Sheets, Days, Table
<1> QED BY <1>3, <1>4

LEMMA CheckinsOfTheOthers ==
  ASSUME SInv, CheckInv, NEW p \in Requests, Aside(p), Affects(p), NEW q \in Requests \ {p}
  PROVE  Checking(q)' /\ Counted(q)'
<1>1. /\ call' = call /\ h'[q] = h[q] /\ edits'[q] = edits[q] /\ DayEdits(q)' = DayEdits(q)
      /\ \A r : Checker(r)' <=> Checker(r)
  BY DEF Aside, Checker, Does, DayEdits
<1>2. Checking(q) /\ Counted(q)
  BY DEF CheckInv
<1>3. Mine("checkin", q, 0) # Mine("checkin", p, 0) /\ Mine("checkin", q, 0)[1] = "checkin"
  BY DEF Mine
<1>4. Checking(q)'
  BY <1>1, <1>2, <1>3, DayAfter DEF Checking
<1>5. Counted(q)'
  <2>1. SUFFICES ASSUME Checker(q), Uncrossed(q)', h[q].at \in {"checkin", "streak", "commit"}
                 PROVE  /\ h[q].at = "checkin" =>
                             /\ h[q].copy = {<<i, rows'[i].tasks>> : i \in DayRows'}
                             /\ DayRows' = {} \/ \E r \in DayRows' : DayRows' = {r}
                        /\ h[q].at \in {"streak", "commit"} =>
                             \E r \in Days(q)' : Days(q)' = {r} /\ Tasks(q, r)' >= call[q].tasks
    BY <1>1 DEF Counted
  <2>2. Uncrossed(q) /\ (Delivers(p) => ~Checker(p))
    BY <1>1, <2>1, OverlapsGrow DEF Uncrossed
  <2>3. Delivers(p) => DayEdits(p) = {}
    BY <2>2, DayAfter
  <2>4. DayRows' = DayRows
    BY <2>3, DayAfter DEF Days
  <2>5. ASSUME NEW i \in DayRows PROVE rows'[i].tasks = rows[i].tasks
    <3>1. Delivers(p) => i \in Days(p) /\ i \notin DOMAIN edits[p]
      BY <2>3, <2>5 DEF Days, DayEdits, DayRows, Table
    <3> QED BY <3>1, DayAfter DEF Tasks
  <2>6. Days(q)' = Days(q)
    BY <1>1, <2>4 DEF Days
  <2>7. ASSUME NEW i \in Days(q) PROVE Tasks(q, i)' = Tasks(q, i)
    BY <1>1, <2>5, <2>7 DEF Tasks, Days, DayEdits, Table
  <2>8. CASE h[q].at = "checkin"
    <3>1. h[q].copy = {<<i, rows[i].tasks>> : i \in DayRows} /\ (DayRows = {} \/ \E r \in DayRows : DayRows = {r})
      BY <1>2, <2>1, <2>2, <2>8 DEF Counted
    <3>2. {<<i, rows[i].tasks>> : i \in DayRows} = {<<i, rows'[i].tasks>> : i \in DayRows'}
      BY <2>4, <2>5
    <3> QED BY <2>4, <2>8, <3>1, <3>2
  <2>9. CASE h[q].at \in {"streak", "commit"}
    <3>1. PICK r \in Days(q) : Days(q) = {r} /\ Tasks(q, r) >= call[q].tasks
      BY <1>2, <2>1, <2>2, <2>9 DEF Counted
    <3>2. r \in Days(q)' /\ Days(q)' = {r} /\ Tasks(q, r)' >= call[q].tasks
      BY <2>6, <2>7, <3>1
    <3> QED BY <2>9, <3>2
  <2> QED BY <2>1, <2>8, <2>9
<1> QED BY <1>4, <1>5

(* The sheets in a transaction after one more statement.                   *)
LEMMA SheetsOfOne ==
  ASSUME IInv, SInv, CheckInv, NEW p \in Requests, Affects(p), NEW i \in DayEdits(p)'
  PROVE  /\ rows' = rows /\ i[1] = "checkin"
         /\ \/ i \in DayEdits(p) /\ edits'[p][i] = edits[p][i]
            \/ Puts(p, i, edits'[p][i])
<1>1. i \in DOMAIN edits'[p] /\ i[1] = "checkin"
  BY DEF DayEdits, Table
<1>2. CASE Looks(p)
  BY <1>1, <1>2 DEF Looks, Remains, DayEdits, Table
<1>3. ASSUME NEW k, NEW row, Puts(p, k, row)
      PROVE  rows' = rows /\ (\/ i \in DayEdits(p) /\ edits'[p][i] = edits[p][i]
                              \/ Puts(p, i, edits'[p][i]))
  <2>1. /\ rows' = rows /\ DOMAIN edits'[p] = {k} \cup DOMAIN edits[p] /\ edits'[p][k] = row
        /\ \A n \in DOMAIN edits[p] \ {k} : edits'[p][n] = edits[p][n]
    BY <1>3 DEF Puts, Remains
  <2>2. CASE i = k
    BY <1>3, <2>1, <2>2
  <2>3. CASE i # k
    BY <1>1, <2>1, <2>3 DEF DayEdits, Table
  <2> QED BY <2>2, <2>3
<1>4. ASSUME NEW K, Removes(p, K)
      PROVE  rows' = rows /\ i \in DayEdits(p) /\ edits'[p][i] = edits[p][i]
  BY <1>1, <1>4 DEF Removes, Remains, DayEdits, Table
<1> QED BY <1>1, <1>2, <1>3, <1>4 DEF Affects, Loses, Quits, Delivers, Leaves

LEMMA CheckinsOfOne ==
  ASSUME IInv, SInv, CheckInv, NEW p \in Requests, Aside(p), Affects(p),
         Checker(p) => CheckSteps(p), IInv', SInv'
  PROVE  Checking(p)' /\ Counted(p)'
<1>1. /\ call' = call /\ Does(p)' = Does(p) /\ \A r : Checker(r)' <=> Checker(r)
      /\ h'[p].at \in {"day", "checkin", "streak"} => Checker(p)
  BY DEF Aside, Checker, Does, IInv, Place, Asker, AskedBy
<1>2. Checking(p) /\ Counted(p)
  BY DEF CheckInv
<1>3. h'[p].at # "done" => Remains(p) /\ rows' = rows /\ DayRows' = DayRows
  BY DEF Affects, Looks, Puts, Removes, Loses, Quits, Delivers, Leaves, Remains, DayRows
<1>4. ASSUME h'[p].at = "checkin"
      PROVE  /\ Checker(p) /\ DayEdits(p) = {} /\ rows' = rows /\ DayRows' = DayRows
             /\ h'[p].copy = {<<i, rows[i].tasks>> : i \in DayRows}
             /\ ~(Cardinality(DayRows) > 1)
  <2>1. /\ Checker(p) /\ h[p].at = "day" /\ ~(Cardinality(Today(p)) > 1)
        /\ h'[p].copy = {<<i, View(p)[i].tasks>> : i \in Today(p)}
    BY <1>1, <1>4 DEF CheckSteps
  <2>2. DayEdits(p) = {}
    BY <1>2, <2>1 DEF Checking
  <2>3. Today(p) = DayRows
    BY <2>2, TodayFacts DEF Days
  <2>4. ASSUME NEW i \in DayRows PROVE View(p)[i].tasks = rows[i].tasks
    <3>1. i \notin DOMAIN edits[p]
      BY <2>2, <2>4 DEF DayEdits, DayRows, Table
    <3> QED BY <2>2, <2>4, <3>1, TodayFacts DEF Days, Tasks
  <2>5. {<<i, View(p)[i].tasks>> : i \in DayRows} = {<<i, rows[i].tasks>> : i \in DayRows}
    BY <2>4
  <2> QED BY <1>3, <1>4, <2>1, <2>2, <2>3, <2>5
<1>5. Checking(p)'
  <2>1. Checker(p) => h'[p].at \in {"day", "checkin", "streak", "commit", "done"}
    BY DEF CheckSteps
  <2>2. ASSUME NEW i \in DayEdits(p)'
        PROVE  /\ Checker(p) /\ h'[p].at \in {"streak", "commit"}
               /\ Sheet(edits'[p][i]) /\ edits'[p][i].day = 0
               /\ i \in DayRows' \/ i = Mine("checkin", p, 0)
    <3>1. h'[p].at # "done"
      BY <2>2 DEF SInv, DayEdits, Table
    <3>2. CASE i \in DayEdits(p) /\ edits'[p][i] = edits[p][i]
      BY <1>2, <1>3, <3>1, <3>2 DEF Checking, CheckSteps
    <3>3. CASE Puts(p, i, edits'[p][i])
      <4>1. i[1] = "checkin"
        BY <2>2, SheetsOfOne
      <4>2. /\ Checker(p) /\ h[p].at = "checkin" /\ Sheet(edits'[p][i]) /\ edits'[p][i].day = 0
            /\ i \in DayRows \/ i = Mine("checkin", p, 0)
        BY <3>3, <4>1, SheetPut
      <4> QED BY <1>3, <3>1, <4>2 DEF CheckSteps
    <3> QED BY <2>2, <3>2, <3>3, SheetsOfOne
  <2>3. h'[p].at # "done" => Mine("checkin", p, 0) \notin DOMAIN rows'
    BY <1>2, <1>3 DEF Checking, Remains
  <2>4. ASSUME h'[p].at = "checkin" PROVE \A x \in h'[p].copy : x[1] \in DayRows' /\ x[2] \in Nat
    BY <1>4, <2>4, TodayFacts
  <2> QED BY <1>1, <2>1, <2>2, <2>3, <2>4 DEF Checking
<1>6. Counted(p)'
  <2>1. SUFFICES ASSUME Checker(p), Uncrossed(p)', h'[p].at \in {"checkin", "streak", "commit"}
                 PROVE  /\ h'[p].at = "checkin" =>
                             /\ h'[p].copy = {<<i, rows'[i].tasks>> : i \in DayRows'}
                             /\ DayRows' = {} \/ \E r \in DayRows' : DayRows' = {r}
                        /\ h'[p].at \in {"streak", "commit"} =>
                             \E r \in Days(p)' : Days(p)' = {r} /\ Tasks(p, r)' >= call[p].tasks
    BY <1>1 DEF Counted
  <2>2. Uncrossed(p) /\ Remains(p) /\ rows' = rows /\ DayRows' = DayRows /\ CheckSteps(p)
    BY <1>1, <1>3, <2>1, OverlapsGrow DEF Uncrossed
  <2>3. CASE h'[p].at = "checkin"
    <3>1. DayRows = {} \/ \E r \in DayRows : DayRows = {r}
      <4>1. IsFiniteSet(DayRows)
        <5>1. DayRows \subseteq Table("checkin", rows)
          BY DEF DayRows
        <5> QED BY <5>1, FS_Subset DEF CheckInv, Sheets
      <4>2. Cardinality(DayRows) \in Nat /\ ~(Cardinality(DayRows) > 1)
        BY <1>4, <2>3, <4>1, FS_CardinalityType
      <4>3. Cardinality(DayRows) = 0 \/ Cardinality(DayRows) = 1
        BY <4>2
      <4> QED BY <4>1, <4>3, FS_EmptySet, FS_Singleton
    <3> QED BY <1>4, <2>2, <2>3, <3>1
  <2>4. CASE h'[p].at = "streak"
    <3>1. h[p].at = "checkin"
      BY <2>1, <2>2, <2>4 DEF CheckSteps
    <3>2. /\ DayEdits(p) = {}
          /\ h[p].copy = {<<i, rows[i].tasks>> : i \in DayRows}
          /\ DayRows = {} \/ \E r \in DayRows : DayRows = {r}
      BY <1>2, <2>1, <2>2, <3>1 DEF Counted, Checking
    <3>3. \/ /\ h[p].copy = {} /\ Mine("checkin", p, 0) \in DOMAIN edits'[p]
          \/ \E found \in h[p].copy :
               IF call[p].tasks > found[2] THEN found[1] \in DOMAIN edits'[p] ELSE edits'[p] = edits[p]
      BY <2>2, <3>1, <2>4 DEF CheckSteps
    <3>4. ASSUME NEW i \in DOMAIN edits'[p], i[1] = "checkin"
          PROVE  /\ Puts(p, i, edits'[p][i]) /\ edits'[p][i].tasks = call[p].tasks /\ call[p].tasks \in Nat
                 /\ DayEdits(p)' = {i}
      <4>1. Puts(p, i, edits'[p][i])
        BY <3>2, <3>4, SheetsOfOne DEF DayEdits, Table
      <4>2. DayEdits(p)' = {i}
        BY <3>2, <3>4, <4>1 DEF Puts, DayEdits, Table
      <4> QED BY <3>4, <4>1, <4>2, SheetPut
    <3>5. CASE h[p].copy = {} /\ Mine("checkin", p, 0) \in DOMAIN edits'[p]
      <4> DEFINE i == Mine("checkin", p, 0)
      <4>1. i \in DOMAIN edits'[p] /\ i[1] = "checkin"
        BY <3>5, MineFacts
      <4>2. DayRows = {}
        BY <3>2, <3>5
      <4> HIDE DEF i
      <4>3. Days(p)' = {i}
        BY <2>2, <3>4, <4>1, <4>2 DEF Days
      <4>4. Tasks(p, i)' >= call[p].tasks
        BY <3>4, <4>1 DEF Tasks
      <4> QED BY <2>4, <4>3, <4>4
    <3>6. ASSUME NEW found \in h[p].copy,
                 IF call[p].tasks > found[2] THEN found[1] \in DOMAIN edits'[p] ELSE edits'[p] = edits[p]
          PROVE  \E r \in Days(p)' : Days(p)' = {r} /\ Tasks(p, r)' >= call[p].tasks
      <4>1. PICK r \in DayRows : DayRows = {r} /\ found = <<r, rows[r].tasks>> /\ rows[r].tasks \in Nat
        BY <3>2, <3>6, TodayFacts
      <4>2. r[1] = "checkin" /\ r \notin DOMAIN edits[p] /\ found[1] = r /\ found[2] = rows[r].tasks
        BY <3>2, <4>1 DEF DayRows, DayEdits, Table
      <4>3. call[p].tasks \in Nat
        BY <2>1 DEF IInv, Asked, Checker
      <4>4. CASE call[p].tasks > found[2]
        <5>1. r \in DOMAIN edits'[p]
          BY <3>6, <4>2, <4>4
        <5>2. edits'[p][r].tasks = call[p].tasks /\ DayEdits(p)' = {r}
          BY <3>4, <4>2, <5>1
        <5>3. Days(p)' = {r}
          BY <2>2, <4>1, <5>2 DEF Days
        <5>4. Tasks(p, r)' >= call[p].tasks
          BY <4>3, <5>1, <5>2 DEF Tasks
        <5> QED BY <5>3, <5>4
      <4>5. CASE ~(call[p].tasks > found[2])
        <5>1. edits'[p] = edits[p]
          BY <3>6, <4>5
        <5>2. Days(p)' = {r}
          BY <2>2, <3>2, <4>1, <5>1 DEF Days, DayEdits
        <5>3. Tasks(p, r)' = rows[r].tasks
          BY <2>2, <4>2, <5>1 DEF Tasks
        <5>4. rows[r].tasks >= call[p].tasks
          BY <4>1, <4>2, <4>3, <4>5
        <5> QED BY <5>2, <5>3, <5>4
      <4> QED BY <4>4, <4>5
    <3> QED BY <2>4, <3>3, <3>5, <3>6
  <2>5. CASE h'[p].at = "commit"
    <3>1. h[p].at = "streak" /\ edits'[p] = edits[p]
      BY <2>1, <2>2, <2>5 DEF CheckSteps
    <3>2. PICK r \in Days(p) : Days(p) = {r} /\ Tasks(p, r) >= call[p].tasks
      BY <1>2, <2>1, <2>2, <3>1 DEF Counted
    <3>3. Days(p)' = Days(p) /\ Tasks(p, r)' = Tasks(p, r)
      BY <2>2, <3>1 DEF Days, DayEdits, Tasks
    <3>4. r \in Days(p)' /\ Days(p)' = {r} /\ Tasks(p, r)' >= call[p].tasks
      BY <3>2, <3>3
    <3> QED BY <2>5, <3>4
  <2> QED BY <2>1, <2>3, <2>4, <2>5
<1> QED BY <1>5, <1>6

LEMMA TheDayIsKept ==
  ASSUME CheckInv, NEW r \in Requests, Well(r, "checkin"), Alone(r, "checkin")
  PROVE  Cardinality(DayRows) = 1 /\ DayRows # {} /\ \A i \in DayRows : rows[i].tasks >= call[r].tasks
<1>1. Cardinality(DayRows) = 1 /\ \A i \in DayRows : rows[i].tasks >= call[r].tasks
  BY DEF CheckInv, CheckinsAreKept, DayRows
<1>2. Cardinality({}) = 0
  BY FS_EmptySet
<1> QED BY <1>1, <1>2

LEMMA Heeded ==
  ASSUME IInv, SInv, CheckInv, NEW p \in Requests, Aside(p), Affects(p),
         Checker(p) => CheckSteps(p), IInv', SInv', NEW r \in Requests, NEW q \in Requests \ {r}
  PROVE  Heeds(r, q)'
<1>1. /\ call' = call /\ \A s : (Checker(s)' <=> Checker(s))
      /\ \A s \in Requests \ {p} :
            /\ h'[s] = h[s] /\ edits'[s] = edits[s] /\ DayEdits(s)' = DayEdits(s)
            /\ (s \in open' <=> s \in open)
  BY DEF Aside, Checker, Does, DayEdits
<1>2. SUFFICES ASSUME Well(r, "checkin")', Alone(r, "checkin")', Checker(q), q \in open'
               PROVE  /\ h'[q].at = "checkin" =>
                           h'[q].copy # {} /\ \A x \in h'[q].copy : x[2] >= call[r].tasks
                      /\ \A i \in DayEdits(q)' : i \in DayRows' /\ edits'[q][i].tasks >= call[r].tasks
  BY <1>1 DEF Heeds
<1>3. Alone(r, "checkin") /\ (Well(r, "checkin") \/ (r = p /\ Delivers(p)))
  BY <1>2, AloneBefore, OnlyACommitEndsWell
<1>4. CASE ~Well(r, "checkin")
  <2>1. q # p /\ q \in open /\ p \in overlap'[q]
    BY <1>1, <1>2, <1>3, <1>4, OverlapsGrow DEF SInv
  <2>2. call'[q] # None /\ Does(q)' = "checkin"
    BY <1>1, <1>2 DEF Checker
  <2> QED BY <1>2, <1>3, <1>4, <2>1, <2>2 DEF Alone
<1>5. CASE Well(r, "checkin") /\ q # p
  <2>1. Heeds(r, q) /\ q \in open
    BY <1>1, <1>2, <1>5 DEF CheckInv
  <2> QED BY <1>1, <1>2, <1>3, <1>5, <2>1, DayAfter DEF Heeds
<1>6. CASE Well(r, "checkin") /\ q = p
  <2>1. DayRows # {} /\ \A i \in DayRows : rows[i].tasks >= call[r].tasks
    BY <1>3, <1>6, TheDayIsKept
  <2>2. h[p].at \in {"checkin", "streak", "commit"} => Heeds(r, p) /\ p \in open
    BY <1>6 DEF SInv, CheckInv
  <2>3. Checking(p) /\ CheckSteps(p) /\ h'[p].at # "done" /\ rows' = rows /\ DayRows' = DayRows
    <3>1. h'[p].at # "done"
      BY <1>2, <1>6 DEF SInv
    <3> QED BY <1>2, <1>6, <3>1
            DEF CheckInv, Affects, Looks, Puts, Removes, Loses, Quits, Delivers, Leaves, Remains, DayRows
  <2>4. ASSUME h'[p].at = "checkin"
        PROVE  h'[p].copy # {} /\ \A x \in h'[p].copy : x[2] >= call[r].tasks
    <3>1. h[p].at = "day" /\ h'[p].copy = {<<i, View(p)[i].tasks>> : i \in Today(p)}
      BY <2>3, <2>4 DEF CheckSteps
    <3>2. DayEdits(p) = {}
      BY <2>3, <3>1 DEF Checking
    <3>3. Today(p) = DayRows
      BY <3>2, TodayFacts DEF Days
    <3>4. ASSUME NEW i \in DayRows PROVE View(p)[i].tasks = rows[i].tasks
      <4>1. i \notin DOMAIN edits[p]
        BY <3>2, <3>4 DEF DayEdits, DayRows, Table
      <4> QED BY <3>2, <3>4, <4>1, TodayFacts DEF Days, Tasks
    <3>5. h'[p].copy = {<<i, rows[i].tasks>> : i \in DayRows}
      <4>1. {<<i, View(p)[i].tasks>> : i \in DayRows} = {<<i, rows[i].tasks>> : i \in DayRows}
        BY <3>4
      <4> QED BY <3>1, <3>3, <4>1
    <3>6. ASSUME NEW x \in h'[p].copy PROVE x[2] >= call[r].tasks
      <4>1. PICK i \in DayRows : x = <<i, rows[i].tasks>>
        BY <3>5, <3>6
      <4> QED BY <2>1, <4>1
    <3>7. h'[p].copy # {}
      BY <2>1, <3>5
    <3> QED BY <3>6, <3>7
  <2>5. ASSUME NEW i \in DayEdits(p)'
        PROVE  i \in DayRows /\ edits'[p][i].tasks >= call[r].tasks
    <3>1. CASE i \in DayEdits(p) /\ edits'[p][i] = edits[p][i]
      <4>1. Heeds(r, p) /\ p \in open
        BY <2>2, <2>3, <3>1 DEF Checking
      <4> QED BY <1>2, <1>3, <1>6, <3>1, <4>1 DEF Heeds
    <3>2. CASE Puts(p, i, edits'[p][i])
      <4>1. i[1] = "checkin"
        BY <2>5, SheetsOfOne
      <4>2. /\ h[p].at = "checkin" /\ edits'[p][i].tasks = call[p].tasks /\ call[p].tasks \in Nat
            /\ \/ h[p].copy = {} /\ i = Mine("checkin", p, 0)
               \/ i \in DayRows /\ \E found \in h[p].copy : i = found[1] /\ call[p].tasks > found[2]
        BY <3>2, <4>1, SheetPut
      <4>3. h[p].copy # {} /\ \A x \in h[p].copy : x[2] >= call[r].tasks
        BY <1>2, <1>3, <1>6, <2>2, <4>2 DEF Heeds
      <4>4. PICK found \in h[p].copy : i = found[1] /\ call[p].tasks > found[2]
        BY <4>2, <4>3
      <4>5. found[2] >= call[r].tasks /\ found[2] \in Nat
        BY <2>3, <4>2, <4>3, <4>4 DEF Checking
      <4>6. call[r].tasks \in Nat
        BY <1>6 DEF IInv, Asked, Well
      <4> QED BY <4>2, <4>3, <4>4, <4>5, <4>6
    <3> QED BY <2>5, <3>1, <3>2, SheetsOfOne
  <2> QED BY <1>6, <2>3, <2>4, <2>5
<1> QED BY <1>4, <1>5, <1>6

LEMMA CheckinsStillKept ==
  ASSUME IInv, SInv, CheckInv, NEW p \in Requests, Aside(p), Affects(p)
  PROVE  CheckinsAreKept'
<1>1. /\ call' = call /\ \A s : Checker(s)' <=> Checker(s)
  BY DEF Aside, Checker, Does
<1>2. SUFFICES ASSUME NEW r \in Requests, Well(r, "checkin")', Alone(r, "checkin")'
               PROVE  Cardinality(DayRows') = 1 /\ \A i \in DayRows' : rows'[i].tasks >= call[r].tasks
  BY <1>1 DEF CheckinsAreKept, DayRows
<1>3. /\ Alone(r, "checkin") /\ Checker(r)
      /\ Well(r, "checkin") \/ (r = p /\ Delivers(p))
  BY <1>2, AloneBefore, OnlyACommitEndsWell DEF Checker
<1>4. CASE Well(r, "checkin")
  <2>1. Cardinality(DayRows) = 1 /\ \A i \in DayRows : rows[i].tasks >= call[r].tasks
    BY <1>3, <1>4, TheDayIsKept
  <2>2. CASE ~Delivers(p)
    BY <2>1, <2>2, DayAfter
  <2>3. CASE Delivers(p)
    <3>1. p \in open /\ r # p
      <4>1. h[p].at = "commit"
        BY <2>3 DEF Delivers
      <4> QED BY <1>4, <4>1 DEF SInv, IInv, Place, Well
    <3>2. \A i \in DayEdits(p) : i \in DayRows /\ edits[p][i].tasks >= call[r].tasks
      <4>1. Heeds(r, p)
        BY <3>1 DEF CheckInv
      <4> QED BY <1>3, <1>4, <3>1, <4>1, DayAfter DEF Heeds
    <3>3. Days(p) = DayRows
      BY <3>2 DEF Days
    <3>4. ASSUME NEW i \in DayRows PROVE Tasks(p, i) >= call[r].tasks
      BY <2>1, <3>2, <3>4 DEF Tasks, DayEdits, DayRows, Table
    <3> QED BY <2>1, <2>3, <3>3, <3>4, DayAfter
  <2> QED BY <2>2, <2>3
<1>5. CASE r = p /\ Delivers(p)
  <2>1. Uncrossed(p) /\ h[p].at = "commit"
    BY <1>3, <1>5 DEF Uncrossed, Alone, Checker, Delivers
  <2>2. PICK i \in Days(p) : Days(p) = {i} /\ Tasks(p, i) >= call[p].tasks
    BY <1>3, <1>5, <2>1 DEF CheckInv, Counted
  <2>3. Cardinality({i}) = 1
    BY FS_Singleton
  <2> QED BY <1>5, <2>2, <2>3, DayAfter
<1> QED BY <1>3, <1>4, <1>5

LEMMA CheckinsGoOn ==
  ASSUME IInv, SInv, CheckInv, NEW p \in Requests, Serve(p) \/ Fails(p), IInv', SInv'
  PROVE  CheckInv'
<1>1. Aside(p) /\ Affects(p)
  BY StepsTransact, StepsAffect
<1>2. Checker(p) => CheckSteps(p)
  BY CheckinsAreFollowed DEF CheckInv
<1>3. \A q \in Requests : Checking(q)' /\ Counted(q)'
  BY <1>1, <1>2, CheckinsOfOne, CheckinsOfTheOthers
<1>4. \A r \in Requests : \A q \in Requests \ {r} : Heeds(r, q)'
  BY <1>1, <1>2, Heeded
<1>5. CheckinsAreKept' /\ Sheets'
  BY <1>1, CheckinsStillKept, DayAfter
<1> QED BY <1>3, <1>4, <1>5 DEF CheckInv

LEMMA CheckinsOpen == PracticeInit => CheckInv
  <1> SUFFICES ASSUME PracticeInit PROVE CheckInv
    OBVIOUS
  <1>1. /\ h = [p \in Requests |-> Fresh] /\ dead = {} /\ edits = [p \in Requests |-> Nothing]
        /\ answer = [p \in Requests |-> None]
        /\ rows \in Beginnings \cup {talk[2] : talk \in Talks}
    BY DEF PracticeInit, Init, SessionInit
  <1>2. IsFiniteSet(DOMAIN rows) /\ \A i \in DOMAIN rows : i[1] = "checkin" => Sheet(rows[i])
    BY <1>1, FoundAssumption DEF Sheet
  <1>3. Sheets
    <2>1. Table("checkin", rows) \subseteq DOMAIN rows
      BY DEF Table
    <2>2. IsFiniteSet(Table("checkin", rows))
      BY <1>2, <2>1, FS_Subset
    <2> QED BY <1>2, <2>2 DEF Sheets, Table
  <1>4. \A i \in DOMAIN rows : i[2] \notin Requests
    BY <1>1, FoundAssumption, RequestsAssumption
  <1>5. \A p \in Requests : /\ h[p].at = "arrived" /\ DayEdits(p) = {} /\ ~Well(p, "checkin")
                            /\ Mine("checkin", p, 0) \notin DOMAIN rows
    BY <1>1, <1>4 DEF Fresh, Nothing, Well, DayEdits, Table, Mine
  <1>6. \A p \in Requests : Checking(p) /\ Counted(p)
    BY <1>5 DEF Checking, Counted
  <1>7. CheckinsAreKept /\ \A p \in Requests : \A q \in Requests \ {p} : Heeds(p, q)
    BY <1>5 DEF CheckinsAreKept, Heeds
  <1> QED BY <1>3, <1>6, <1>7 DEF CheckInv

LEMMA CheckinsStay ==
  ASSUME IInv, SInv, CheckInv, [PracticeNext]_vars
  PROVE  IInv' /\ SInv' /\ CheckInv'
<1>1. IInv'
  BY PracticeGoesOn
<1>2. ASSUME NEW p \in Requests, Serve(p) \/ Fails(p) PROVE SInv' /\ CheckInv'
  BY <1>1, <1>2, StepsTransact, StepsAffect, SessionsGoOn, CheckinsGoOn
<1>3. CASE UNCHANGED vars
  <2>1. SInv'
    BY <1>3 DEF vars, session, SInv
  <2>2. CheckinsAreKept' /\ Sheets'
    BY <1>3 DEF vars, session, CheckInv, CheckinsAreKept, Sheets, Well, Alone, Does
  <2>3. \A p \in Requests : Checking(p)' /\ Counted(p)'
    BY <1>3 DEF vars, session, CheckInv, Checking, Counted, Checker, Uncrossed, DayRows, DayEdits, Days, Tasks, Does
  <2>4. \A p \in Requests : \A q \in Requests \ {p} : Heeds(p, q)'
    BY <1>3 DEF vars, session, CheckInv, Heeds, Checker, DayRows, DayEdits, Well, Alone, Does
  <2> QED BY <1>1, <2>1, <2>2, <2>3, <2>4 DEF CheckInv
<1> QED BY <1>1, <1>2, <1>3 DEF PracticeNext

(* A check-in that was answered is the day's only one and its count never  *)
(* falls, unless another check-in was made at the same moment              *)
(* (DailyCoachService.check_in, CheckInRepository.get_for_date).           *)
THEOREM CheckinsAlwaysKept == PracticeSpec => []CheckinsAreKept
<1>1. PracticeInit => IInv /\ SInv /\ CheckInv
  BY PracticeOpens, SessionsOpen, CheckinsOpen
<1>2. (IInv /\ SInv /\ CheckInv) /\ [PracticeNext]_vars => (IInv /\ SInv /\ CheckInv)'
  BY CheckinsStay
<1>3. CheckInv => CheckinsAreKept
  BY DEF CheckInv
<1> QED BY <1>1, <1>2, <1>3, PTL DEF PracticeSpec

-----------------------------------------------------------------------------
(* Resumes: which statements change what a request remembers of one, and   *)
(* from where to where an upload, an application and a verification go.    *)

Stays(p) == h'[p].told = h[p].told /\ h'[p].guess = h[p].guess /\ h'[p].resume = h[p].resume
Storing == {"parse", "select", "profile", "save"}

Routes(p) ==
  LET at == h[p].at
      to == h'[p].at
      own == Own(p)
      i == h[p].resume
      j == h'[p].resume
  IN /\ at # "skills" \/ to = "done" => h'[p].told = h[p].told
     /\ to # "score" => h'[p].guess = h[p].guess
     /\ at \notin {"resume", "select", "skills"} \/ to = "done" => j = i
     /\ to = "score" => /\ at = "resume" /\ ~Ambiguous(p) /\ j \in get_primary(p)
                        /\ h'[p].guess = (Primaries(View(p)) = {})
     /\ to = "file" => at = "score" /\ ~Ambiguous(p) /\ h'[p].copy \in get_primary(p)
     /\ at = "skills" /\ to # "done" =>
          /\ to \in {"flush", "commit"} /\ (h'[p].told <=> to = "flush")
          /\ j \in Parsed(View(p)) /\ h'[p].copy = View(p)[j].skills
          /\ to = "commit" => call[p].skill \in h'[p].copy
     /\ at = "commit" /\ Does(p) = "verify" => to = "done"
     /\ (to = "skills" => at = "arrived") /\ (to = "flush" => at = "skills")
     /\ at = "flush" /\ to # "done" =>
          /\ to = "commit" /\ i \in DOMAIN View(p) /\ i \in DOMAIN edits'[p]
          /\ edits'[p][i] = [View(p)[i] EXCEPT !.skills = h[p].copy \cup {call[p].skill}]
     /\ to \in Storing => at \in Storing \/ (at = "insert" /\ own \in DOMAIN edits'[p])
     /\ at = "insert" /\ Does(p) = "upload" => to \in Storing \cup {"done"}
     /\ at \in Storing /\ to \notin Storing \cup {"done"} =>
          /\ own \in DOMAIN edits'[p]
          /\ edits'[p][own] = [edits[p][own] EXCEPT !.status = "parsed", !.skills = call[p].skills]

LEMMA LocalsStay ==
  ASSUME IInv, NEW p \in Requests
  PROVE  /\ \A to : Goes(p, to) => Stays(p) /\ h'[p].at = to
         /\ \A to, value : Keeps(p, value, to) => Stays(p) /\ h'[p].at = to
         /\ \A a : Ends(p, a) => Stays(p) /\ h'[p].at = "done"
         /\ Raises(p) => Stays(p) /\ h'[p].at = "done"
         /\ \A aborted : Skips(p, aborted) => Stays(p) /\ h'[p].at \in {"commit", "resume"}
         /\ \A K : Matches(p, K) => Stays(p) /\ h'[p].at \in {Then(p), "update"}
<1> DEFINE Same(next) == next.told = h[p].told /\ next.guess = h[p].guess /\ next.resume = h[p].resume
<1>1. DOMAIN h = Requests /\ DOMAIN h[p] = Locals
  BY AskerFacts
<1>2. ASSUME NEW to, h' = [h EXCEPT ![p].at = to] PROVE Stays(p) /\ h'[p].at = to
  BY <1>1, <1>2 DEF Stays, Locals
<1>3. ASSUME NEW to, NEW value, Keeps(p, value, to) PROVE Stays(p) /\ h'[p].at = to
  <2> DEFINE next == [h[p] EXCEPT !.copy = value, !.at = to]
  <2>1. h' = [h EXCEPT ![p] = next]
    BY <1>3 DEF Keeps
  <2>2. Same(next) /\ next.at = to
    BY <1>1 DEF Locals
  <2> HIDE DEF next
  <2> QED BY <1>1, <2>1, <2>2 DEF Stays
<1>4. ASSUME NEW aborted, Skips(p, aborted) PROVE Stays(p) /\ h'[p].at \in {"commit", "resume"}
  <2> DEFINE next == [h[p] EXCEPT !.todo = Tail(h[p].todo), !.skipped = TRUE, !.aborted = aborted,
                                  !.at = IF Len(h[p].todo) = 1 THEN "commit" ELSE "resume"]
  <2>1. h' = [h EXCEPT ![p] = next]
    BY <1>4 DEF Skips
  <2>2. Same(next) /\ next.at \in {"commit", "resume"}
    BY <1>1 DEF Locals
  <2> HIDE DEF next
  <2> QED BY <1>1, <2>1, <2>2 DEF Stays
<1>5. ASSUME NEW K, Matches(p, K) PROVE Stays(p) /\ h'[p].at \in {Then(p), "update"}
  <2> DEFINE next == [h[p] EXCEPT !.match = K, !.at = IF K = {} THEN Then(p) ELSE "update"]
  <2>1. h' = [h EXCEPT ![p] = next]
    BY <1>5 DEF Matches
  <2>2. Same(next) /\ next.at \in {Then(p), "update"}
    BY <1>1 DEF Locals
  <2> HIDE DEF next
  <2> QED BY <1>1, <2>1, <2>2 DEF Stays
<1> QED BY <1>2, <1>3, <1>4, <1>5 DEF Goes, Ends, Raises

(* The requests of Practice are about no resume.                           *)
LEMMA PracticeRoutes ==
  ASSUME IInv, IInv', NEW p \in Requests, Practises(p), Practise(p) \/ PracticeFault(p), call' = call
  PROVE  Routes(p)
<1>1. Does(p) \in DOMAIN FirstOf /\ call[p] # None /\ Does(p)' = Does(p)
  BY DEF Practises, Does
<1>2. Stays(p)
  <2>1. CASE \E to : h' = [h EXCEPT ![p].at = to]
    BY <2>1, AskerFacts DEF Stays, Locals
  <2>2. CASE PracticeFault(p)
    <3>1. CASE \E aborted : h' = [h EXCEPT ![p].aborted = aborted, ![p].at = "commit"]
      <4>1. PICK aborted : h' = [h EXCEPT ![p] = [h[p] EXCEPT !.aborted = aborted, !.at = "commit"]]
        BY <3>1
      <4> QED BY <4>1, AskerFacts DEF Stays, Locals
    <3> QED BY <2>1, <2>2, <3>1 DEF PracticeFault, Ends
  <2>3. CASE \/ Sit(p) \/ record_feedback(p) \/ _apply_strengths(p) \/ _apply_rejection(p)
             \/ generate(p) \/ evaluate(p) \/ RememberScore(p) \/ add_interview_result(p) \/ add_question(p)
             \/ handle(p) \/ ModelFails(p) \/ BuildContext(p) \/ Capture(p) \/ Shadow(p)
             \/ add_answer(p) \/ _store_memory(p) \/ summarize_if_long(p) \/ AddSummary(p) \/ clear(p)
             \/ StatementRaises(p) \/ Commit(p) \/ CommitVanishes(p) \/ CommitRaises(p)
    BY <2>3, LocalsStay DEF Sit, record_feedback, _apply_strengths, _apply_rejection, generate, evaluate,
         RememberScore, add_interview_result, add_question, handle, ModelFails, BuildContext, Capture, Shadow,
         add_answer, _store_memory, summarize_if_long, AddSummary, clear, StatementRaises, Commit, CommitVanishes,
         CommitRaises
  <2>4. CASE get_for_date(p) \/ check_in(p) \/ CountStreak(p) \/ ReadTwin(p) \/ ReadHistory(p)
    BY <2>4, LocalsStay DEF get_for_date, check_in, CountStreak, ReadTwin, ReadHistory
  <2> QED BY <2>2, <2>3, <2>4 DEF Practise
<1>3. \A do \in DOMAIN FirstOf : \A at \in Storing \cup {"skills", "flush", "insert"} : ~AskedBy(at, do)
  BY DEF FirstOf, AskedBy, Storing
<1>4. h[p].at \notin Storing \cup {"skills", "flush", "insert", "score", "file"}
  BY <1>1, <1>3, AskerFacts DEF Queue, Applying, FirstOf
<1>5. AskedBy(h'[p].at, Does(p)) /\ (h'[p].at \in Applying => Does(p) \in {"approve", "auto"})
  BY <1>1 DEF IInv, Place, Asker, Queue
<1>6. h'[p].at \notin Storing \cup {"skills", "flush", "insert", "score", "file"}
  BY <1>1, <1>3, <1>5 DEF Applying, FirstOf
<1>7. Does(p) # "verify"
  BY <1>1 DEF FirstOf
<1> QED BY <1>2, <1>4, <1>6, <1>7 DEF Routes, Stays

Elsewhere == Storing \cup {"skills", "flush"}

LEMMA PlainRoute ==
  ASSUME NEW p \in Requests, Stays(p), h[p].at \notin Elsewhere \cup {"insert"} \/ h'[p].at = "done",
         h'[p].at \notin Elsewhere \cup {"score", "file"}, h[p].at = "commit" => h'[p].at = "done"
  PROVE  Routes(p)
  BY DEF Stays, Routes, Elsewhere, Storing

LEMMA ApplyingRoutes ==
  ASSUME IInv, NEW p \in Requests, ~Practises(p),
         \/ Arrive(p) \/ clear_primary(p) \/ mark_read(p) \/ Update(p) \/ get_for_user(p)
         \/ set_primary(p) \/ delete_resume(p) \/ ParseFails(p) \/ DeadlockDetected(p)
         \/ Commit(p) \/ CommitVanishes(p) \/ CommitRaises(p) \/ Fault(p)
         \/ CreateApplication(p) \/ create_application_update(p) \/ auto_apply(p)
  PROVE  Routes(p)
<1> DEFINE Same(next) == next.told = h[p].told /\ next.guess = h[p].guess /\ next.resume = h[p].resume
<1>1. DOMAIN h = Requests /\ DOMAIN h[p] = Locals
  BY AskerFacts
<1>2. Then(p) \in {"insert", "promote", "commit"}
  BY DEF Then
<1>3. ASSUME NEW next, h' = [h EXCEPT ![p] = next], Same(next),
             h[p].at \notin Elsewhere \cup {"insert", "commit"}, next.at \notin Elsewhere \cup {"score", "file"}
      PROVE  Routes(p)
  <2>1. h'[p] = next
    BY <1>1, <1>3
  <2> QED BY <1>3, <2>1, PlainRoute DEF Stays
<1>4. CASE Arrive(p)
  <2>1. call[p] # None /\ Does(p) \in Applies /\ h[p].at = "arrived" /\ Goes(p, Entry(p))
    BY <1>4 DEF Arrive, Practises, IInv, Asked
  <2>2. Entry(p) \notin Storing \cup {"score", "file", "flush"}
    BY <2>1 DEF Entry, Applies, Storing
  <2>3. Stays(p) /\ h'[p].at = Entry(p)
    BY <2>1, LocalsStay
  <2>4. h[p].at = "arrived" /\ h[p].at \notin Storing
    BY <2>1 DEF Storing
  <2> QED BY <2>2, <2>3, <2>4 DEF Routes, Stays
<1>5. CASE clear_primary(p) \/ mark_read(p)
  <2>1. h[p].at \in {"clear", "notes"} /\ \E K : Matches(p, K)
    BY <1>5 DEF clear_primary, mark_read
  <2>2. Stays(p) /\ h'[p].at \in {Then(p), "update"}
    BY <2>1, LocalsStay
  <2> QED BY <1>2, <2>1, <2>2, PlainRoute DEF Elsewhere, Storing
<1>6. CASE Update(p)
  <2>1. PICK i : h' = [h EXCEPT ![p].match = @ \ {i},
                                ![p].at = IF h[p].match = {i} THEN Then(p) ELSE @]
    BY <1>6 DEF Update
  <2> DEFINE to == IF h[p].match = {i} THEN Then(p) ELSE h[p].at
             next == [h[p] EXCEPT !.match = h[p].match \ {i}, !.at = to]
  <2>2. h' = [h EXCEPT ![p] = next] /\ h[p].at = "update"
    BY <1>6, <2>1 DEF Update
  <2>3. Same(next) /\ next.at \in {Then(p), "update"}
    BY <1>1, <2>2 DEF Locals
  <2> HIDE DEF next
  <2> QED BY <1>2, <1>3, <2>2, <2>3 DEF Elsewhere, Storing
<1>7. CASE get_for_user(p) /\ ~Raises(p)
  <2> DEFINE to == CASE Does(p) = "set_primary" -> "clear" [] Does(p) = "delete" -> "delete"
                     [] Does(p) = "rewrite" -> "insert"
             next == [h[p] EXCEPT !.copy = SkillsOf(p, call[p].id), !.at = to]
  <2>1. h[p].at = "find" /\ h' = [h EXCEPT ![p] = next]
    BY <1>7 DEF get_for_user
  <2>2. to \in {"clear", "delete", "insert"}
    BY <2>1, AskerFacts DEF AskedBy
  <2>3. Same(next) /\ next.at = to
    BY <1>1 DEF Locals
  <2> HIDE DEF next, to
  <2> QED BY <1>3, <2>1, <2>2, <2>3 DEF Elsewhere, Storing
<1>8. CASE set_primary(p) \/ delete_resume(p) \/ CreateApplication(p)
  <2>1. h[p].at \in {"promote", "delete", "file"} /\ (Goes(p, "commit") \/ Goes(p, "tell"))
    BY <1>8 DEF set_primary, delete_resume, CreateApplication
  <2>2. Stays(p) /\ h'[p].at \in {"commit", "tell"}
    BY <2>1, LocalsStay
  <2> QED BY <2>1, <2>2, PlainRoute DEF Elsewhere, Storing
<1>9. CASE Raises(p) \/ \E a : Ends(p, a)
  <2>1. Stays(p) /\ h'[p].at = "done"
    BY <1>9, LocalsStay
  <2> QED BY <2>1, PlainRoute DEF Elsewhere, Storing
<1>10. CASE Commit(p) \/ CommitVanishes(p) \/ CommitRaises(p) \/ ParseFails(p) \/ DeadlockDetected(p)
  BY <1>9, <1>10 DEF Commit, CommitVanishes, CommitRaises, ParseFails, DeadlockDetected
<1>11. CASE auto_apply(p) /\ ~Raises(p)
  <2>1. PICK todo : h' = [h EXCEPT ![p].todo = todo, ![p].at = IF todo = <<>> THEN "commit" ELSE "resume"]
    BY <1>11 DEF auto_apply
  <2> DEFINE to == IF todo = <<>> THEN "commit" ELSE "resume"
             next == [h[p] EXCEPT !.todo = todo, !.at = to]
  <2>2. h' = [h EXCEPT ![p] = next] /\ h[p].at = "agent"
    BY <1>11, <2>1 DEF auto_apply
  <2>3. Same(next) /\ next.at \in {"commit", "resume"}
    BY <1>1 DEF Locals
  <2> HIDE DEF next
  <2> QED BY <1>3, <2>2, <2>3 DEF Elsewhere, Storing
<1>12. CASE create_application_update(p)
  <2> DEFINE more == Does(p) = "auto" /\ Len(h[p].todo) > 1
             rest == IF h[p].todo = <<>> THEN h[p].todo ELSE Tail(h[p].todo)
             next == [h[p] EXCEPT !.queued = h[p].queued + 1, !.todo = rest,
                                  !.at = IF more THEN "resume" ELSE "commit"]
  <2>1. h[p].at = "tell" /\ h' = [h EXCEPT ![p] = next]
    BY <1>12 DEF create_application_update
  <2> HIDE DEF more, rest
  <2>2. Same(next) /\ next.at \in {"commit", "resume"}
    BY <1>1 DEF Locals
  <2> HIDE DEF next
  <2> QED BY <1>3, <2>1, <2>2 DEF Elsewhere, Storing
<1>13. CASE Fault(p)
  <2>1. CASE h[p].at \in {"select", "profile"}
    <3>1. h' = [h EXCEPT ![p].at = "save"]
      BY <1>13, <2>1 DEF Fault
    <3>2. h'[p].at = "save" /\ Stays(p)
      BY <1>1, <3>1 DEF Stays, Locals
    <3> QED BY <2>1, <3>2 DEF Routes, Stays, Storing
  <2>2. CASE (\E aborted : Skips(p, aborted)) /\ h[p].at \in {"resume", "score", "file", "tell"}
    <3>1. Stays(p) /\ h'[p].at \in {"commit", "resume"}
      BY <2>2, LocalsStay
    <3> QED BY <2>2, <3>1, PlainRoute DEF Elsewhere, Storing
  <2> QED BY <1>9, <1>13, <2>1, <2>2 DEF Fault
<1> QED BY <1>4, <1>5, <1>6, <1>7, <1>8, <1>9, <1>10, <1>11, <1>12, <1>13

LEMMA ResumeRoutes ==
  ASSUME IInv, NEW p \in Requests,
         \/ Insert(p) \/ Parse(p) \/ SelectProfile(p) \/ ProfilingRaises(p) \/ FlushProfile(p)
         \/ save_parsed(p) \/ ReadSkills(p) \/ add_verified_skills(p) \/ ReadResume(p) \/ ReadScored(p)
  PROVE  Routes(p)
<1>1. DOMAIN h = Requests /\ DOMAIN h[p] = Locals
  BY AskerFacts
<1>2. \A i, row : Write(p, i, row) => i \in DOMAIN edits'[p] /\ edits'[p][i] = row
  BY StoredFacts
<1>3. \A to : Goes(p, to) => Stays(p) /\ h'[p].at = to
  BY LocalsStay
<1>4. CASE Raises(p)
  <2>1. Stays(p) /\ h'[p].at = "done"
    BY <1>4, LocalsStay
  <2> QED BY <2>1, PlainRoute DEF Elsewhere, Storing
<1>5. CASE Insert(p)
  BY <1>2, <1>3, <1>5 DEF Insert, Routes, Stays, Storing
<1>6. CASE Parse(p) \/ ProfilingRaises(p) \/ FlushProfile(p)
  BY <1>3, <1>6 DEF Parse, ProfilingRaises, FlushProfile, Routes, Stays, Storing
<1>7. CASE save_parsed(p) /\ ~Raises(p)
  BY <1>2, <1>3, <1>7 DEF save_parsed, Routes, Stays, Storing
<1>8. CASE add_verified_skills(p) /\ ~Raises(p)
  BY <1>2, <1>3, <1>8 DEF add_verified_skills, Routes, Stays, Storing
<1>9. CASE SelectProfile(p)
  <2> DEFINE next == [h[p] EXCEPT !.resume = IF Profile \in DOMAIN View(p) THEN Profile ELSE None,
                                  !.at = "profile"]
  <2>1. h' = [h EXCEPT ![p] = next] /\ h[p].at = "select"
    BY <1>9 DEF SelectProfile
  <2>2. next.at = "profile" /\ next.told = h[p].told /\ next.guess = h[p].guess
    BY <1>1 DEF Locals
  <2> HIDE DEF next
  <2>3. h'[p] = next
    BY <1>1, <2>1
  <2> QED BY <2>1, <2>2, <2>3 DEF Routes, Storing
<1>10. CASE ReadSkills(p) /\ ~Raises(p)
  <2>1. PICK i \in get_primary(p) :
          /\ i # None
          /\ h' = [h EXCEPT ![p].resume = i, ![p].copy = View(p)[i].skills,
                            ![p].told = call[p].skill \notin View(p)[i].skills,
                            ![p].at = IF call[p].skill \notin View(p)[i].skills THEN "flush" ELSE "commit"]
    BY <1>10 DEF ReadSkills
  <2>2. i \in Parsed(View(p))
    BY <2>1 DEF get_primary, Primaries
  <2> DEFINE new == call[p].skill \notin View(p)[i].skills
             next == [h[p] EXCEPT !.resume = i, !.copy = View(p)[i].skills, !.told = new,
                                  !.at = IF new THEN "flush" ELSE "commit"]
  <2>3. h[p].at = "skills" /\ h' = [h EXCEPT ![p] = next]
    BY <1>10, <2>1 DEF ReadSkills
  <2>4. ~new => call[p].skill \in View(p)[i].skills
    OBVIOUS
  <2> HIDE DEF new
  <2>5. /\ next.resume = i /\ next.copy = View(p)[i].skills /\ next.told = new /\ next.guess = h[p].guess
        /\ next.at = IF new THEN "flush" ELSE "commit"
    BY <1>1 DEF Locals
  <2> HIDE DEF next
  <2>6. h'[p] = next
    BY <1>1, <2>3
  <2>7. (h'[p].told <=> new) /\ (h'[p].at = IF new THEN "flush" ELSE "commit")
    BY <2>5, <2>6
  <2> QED BY <2>2, <2>3, <2>4, <2>5, <2>6, <2>7 DEF Routes, Storing
<1>11. CASE (ReadResume(p) \/ ReadScored(p)) /\ ApprovalRaises(p)
  <2>1. h[p].at \in {"resume", "score"} /\ ((\E aborted : Skips(p, aborted)) \/ Raises(p))
    BY <1>11 DEF ReadResume, ReadScored, ApprovalRaises
  <2>2. Stays(p) /\ h'[p].at \in {"commit", "resume", "done"}
    BY <2>1, LocalsStay
  <2> QED BY <2>1, <2>2, PlainRoute DEF Elsewhere, Storing
<1>12. CASE ReadResume(p) /\ ~ApprovalRaises(p)
  <2>1. PICK i \in get_primary(p) : h' = [h EXCEPT ![p].resume = i, ![p].at = "score",
                                                   ![p].guess = Primaries(View(p)) = {}]
    BY <1>12 DEF ReadResume
  <2> DEFINE guess == Primaries(View(p)) = {}
             next == [h[p] EXCEPT !.resume = i, !.at = "score", !.guess = guess]
  <2>2. h' = [h EXCEPT ![p] = next] /\ h[p].at = "resume" /\ ~Ambiguous(p)
    BY <1>12, <2>1 DEF ReadResume
  <2> HIDE DEF guess
  <2>3. next.at = "score" /\ next.guess = guess /\ next.resume = i /\ next.told = h[p].told
    BY <1>1 DEF Locals
  <2> HIDE DEF next
  <2>4. h'[p] = next
    BY <1>1, <2>2
  <2>5. h'[p].guess = (Primaries(View(p)) = {})
    BY <2>3, <2>4 DEF guess
  <2> QED BY <2>1, <2>2, <2>3, <2>4, <2>5 DEF Routes, Storing
<1>13. CASE ReadScored(p) /\ ~ApprovalRaises(p)
  <2>1. PICK i \in get_primary(p) : h' = [h EXCEPT ![p].copy = i, ![p].at = "file"]
    BY <1>13 DEF ReadScored
  <2> DEFINE next == [h[p] EXCEPT !.copy = i, !.at = "file"]
  <2>2. h' = [h EXCEPT ![p] = next] /\ h[p].at = "score" /\ ~Ambiguous(p)
    BY <1>13, <2>1 DEF ReadScored
  <2>3. /\ next.at = "file" /\ next.copy = i /\ next.resume = h[p].resume
        /\ next.told = h[p].told /\ next.guess = h[p].guess
    BY <1>1 DEF Locals
  <2> HIDE DEF next
  <2>4. h'[p] = next
    BY <1>1, <2>2
  <2> QED BY <2>1, <2>2, <2>3, <2>4 DEF Routes, Storing
<1> QED BY <1>4, <1>5, <1>6, <1>7, <1>8, <1>9, <1>10, <1>11, <1>12, <1>13

LEMMA RoutesAreFollowed ==
  ASSUME IInv, IInv', NEW p \in Requests, Serve(p) \/ Fails(p), call' = call
  PROVE  Routes(p)
  BY PracticeRoutes, ApplyingRoutes, ResumeRoutes DEF Serve, Fails, Step

(* The resumes in a transaction: rows that are there, or the request's own *)
(* new one, which is unfinished only while it is being stored.  Who is no  *)
(* mover changes no primary, and nobody but a verification the skills of a *)
(* resume that is there.                                                   *)
Cols == {"status", "primary", "skills"}
Editors == {"upload", "set_primary", "delete", "rewrite", "verify"}
ResumeEdits(p) == Table("resume", edits[p])

Primary(p, i, row) ==
  p \notin Movers => IF i \in DOMAIN rows THEN row.primary = rows[i].primary ELSE ~row.primary
Ready(p, i, row) == row.status = "parsed" \/ (i = Own(p) /\ h[p].at \in Storing)
Edited(p, i, row) ==
  /\ i \in DOMAIN rows \/ i = Own(p)
  /\ Does(p) \in Editors
  /\ IF row = Gone THEN Does(p) = "delete"
     ELSE /\ DOMAIN row = Cols /\ Primary(p, i, row) /\ Ready(p, i, row)
          /\ i \in DOMAIN rows => IF Does(p) = "verify" THEN i = h[p].resume
                                  ELSE row.skills = rows[i].skills

ResumesIn(p) ==
  /\ \A i \in ResumeEdits(p) : Edited(p, i, edits[p][i])
  /\ h[p].at # "done" => Own(p) \notin DOMAIN rows
  /\ h[p].at \in Storing /\ p \notin dead => Own(p) \in ResumeEdits(p)
  /\ h[p].at \in {"skills", "flush"} => ResumeEdits(p) = {}

ResumeRows ==
  /\ IsFiniteSet(Table("resume", rows))
  /\ \A i \in Table("resume", rows) : DOMAIN rows[i] = Cols /\ rows[i].status = "parsed"
ResumeInv == ResumeRows /\ \A p \in Requests : ResumesIn(p)

LEMMA MoverFacts ==
  \A p \in Requests : p \in Movers <=> call[p] # None /\ Does(p) \in {"upload", "set_primary", "delete"}
  BY DEF Movers

LEMMA ResumeInView ==
  ASSUME SInv, ResumeInv, NEW p \in Requests, NEW i, i \in DOMAIN View(p), i[1] = "resume"
  PROVE  /\ DOMAIN View(p)[i] = Cols /\ View(p)[i] # Gone
         /\ i \in DOMAIN rows \/ i = Own(p)
         /\ Primary(p, i, View(p)[i]) /\ Ready(p, i, View(p)[i])
         /\ i \in DOMAIN rows /\ Does(p) # "verify" => View(p)[i].skills = rows[i].skills
<1>1. View(p)[i] # Gone /\ View(p)[i] = IF i \in DOMAIN edits[p] THEN edits[p][i] ELSE rows[i]
  BY ViewFacts
<1>2. CASE i \in DOMAIN edits[p]
  <2>1. Edited(p, i, edits[p][i])
    BY <1>2 DEF ResumeInv, ResumesIn, ResumeEdits, Table
  <2> QED BY <1>1, <1>2, <2>1 DEF Edited
<1>3. CASE i \notin DOMAIN edits[p]
  <2>1. i \in Table("resume", rows)
    BY <1>3, ViewFacts DEF Table
  <2> QED BY <1>1, <1>3, <2>1 DEF ResumeInv, ResumeRows, Primary, Ready, Table
<1> QED BY <1>2, <1>3

(* Changing a column keeps the columns, and the other two.                 *)
LEMMA ResumeColumns ==
  ASSUME NEW row, DOMAIN row = Cols, NEW value, NEW other
  PROVE  /\ LET new == [row EXCEPT !.primary = value]
            IN DOMAIN new = Cols /\ new.status = row.status /\ new.skills = row.skills
         /\ LET new == [row EXCEPT !.skills = value]
            IN DOMAIN new = Cols /\ new.status = row.status /\ new.primary = row.primary /\ new.skills = value
         /\ LET new == [row EXCEPT !.status = value, !.skills = other]
            IN DOMAIN new = Cols /\ new.status = value
  BY DEF Cols

LEMMA ResumePut ==
  ASSUME IInv, SInv, ResumeInv, NEW p \in Requests, NEW i, NEW row, Puts(p, i, row), i[1] = "resume",
         call' = call, Routes(p)
  PROVE  Edited(p, i, row)'
<1>1. /\ rows' = rows /\ Permits(p, i, row) /\ p \notin dead
      /\ h[p].at \notin {"arrived", "done"} /\ h'[p].at # "done"
  BY DEF Puts, Remains
<1>2. /\ call[p] # None /\ AskedBy(h[p].at, Does(p)) /\ Does(p)' = Does(p)
      /\ (p \in Movers <=> Does(p) \in {"upload", "set_primary", "delete"})
      /\ (p \in Movers)' <=> p \in Movers
  BY <1>1, AskerFacts, MoverFacts DEF Does, Movers
<1>3. ResumesIn(p) /\ Own(p)' = Own(p)
  BY DEF ResumeInv, Own
<1>4. CASE h[p].at = "insert" /\ i = Own(p)
  <2>1. Own(p) \notin DOMAIN rows /\ Does(p) \in {"upload", "rewrite"}
    BY <1>1, <1>2, <1>3, <1>4 DEF ResumesIn, AskedBy
  <2>2. row = IF Does(p) = "upload"
              THEN [status |-> "parsing", primary |-> call[p].primary, skills |-> None]
              ELSE [status |-> "parsed", primary |-> FALSE, skills |-> None]
    BY <1>1, <1>4 DEF Permits
  <2>3. DOMAIN row = Cols /\ (Does(p) = "rewrite" => ~row.primary /\ row.status = "parsed")
    BY <2>1, <2>2 DEF Cols
  <2>4. Does(p) = "upload" => h'[p].at \in Storing
    BY <1>1, <1>4 DEF Routes
  <2>5. row # Gone
    BY <2>3, NotGone DEF Cols
  <2> QED BY <1>1, <1>2, <1>3, <1>4, <2>1, <2>3, <2>4, <2>5 DEF Edited, Editors, Primary, Ready
<1>5. CASE h[p].at = "save" /\ i = Own(p)
  <2> DEFINE old == edits[p][Own(p)]
  <2>1. Own(p) \notin DOMAIN rows /\ Does(p) = "upload"
    BY <1>2, <1>3, <1>5 DEF ResumesIn, AskedBy
  <2>2. Edited(p, Own(p), old)
    BY <1>1, <1>3, <1>5 DEF ResumesIn, Storing
  <2>3. DOMAIN old = Cols
    BY <2>1, <2>2 DEF Edited
  <2>4. row = [old EXCEPT !.status = "parsed", !.skills = call[p].skills]
    BY <1>1, <1>5 DEF Permits
  <2> HIDE DEF old
  <2>5. DOMAIN row = Cols /\ row.status = "parsed"
    BY <2>3, <2>4, ResumeColumns
  <2>6. row # Gone
    BY <2>5, NotGone DEF Cols
  <2> QED BY <1>1, <1>2, <1>3, <1>5, <2>1, <2>5, <2>6 DEF Edited, Editors, Primary, Ready
<1>6. CASE i \in DOMAIN View(p) /\ h[p].at \in {"update", "promote", "delete", "flush"}
  <2> DEFINE old == View(p)[i]
  <2>1. /\ DOMAIN old = Cols /\ (i \in DOMAIN rows \/ i = Own(p))
        /\ Primary(p, i, old) /\ Ready(p, i, old)
        /\ i \in DOMAIN rows /\ Does(p) # "verify" => old.skills = rows[i].skills
    BY <1>6, ResumeInView
  <2>2. /\ \/ h[p].at = "update" /\ Does(p) \in {"upload", "set_primary"} /\ row = [old EXCEPT !.primary = FALSE]
           \/ h[p].at = "promote" /\ row = [old EXCEPT !.primary = TRUE]
           \/ h[p].at = "delete" /\ row = Gone
           \/ /\ h[p].at = "flush" /\ i = h[p].resume
              /\ row = [old EXCEPT !.skills = h[p].copy \cup {call[p].skill}]
    BY <1>1, <1>6 DEF Permits
  <2> HIDE DEF old
  <2>3. old.status = "parsed"
    BY <1>6, <2>1 DEF Ready, Storing
  <2>4. CASE h[p].at \in {"update", "promote"} /\ \E value : row = [old EXCEPT !.primary = value]
    <3>1. DOMAIN row = Cols /\ row.status = "parsed" /\ row.skills = old.skills
      BY <2>1, <2>3, <2>4, ResumeColumns
    <3>2. Does(p) \in {"upload", "set_primary"}
      BY <1>2, <2>2, <2>4 DEF AskedBy
    <3>3. row # Gone
      BY <3>1, NotGone DEF Cols
    <3> QED BY <1>1, <1>2, <1>3, <2>1, <3>1, <3>2, <3>3 DEF Edited, Editors, Primary, Ready
  <2>5. CASE h[p].at = "delete" /\ row = Gone
    <3>1. Does(p) = "delete"
      BY <1>2, <2>5 DEF AskedBy
    <3> QED BY <1>1, <1>2, <1>3, <2>1, <2>5, <3>1 DEF Edited, Editors
  <2>6. CASE /\ h[p].at = "flush" /\ i = h[p].resume
             /\ row = [old EXCEPT !.skills = h[p].copy \cup {call[p].skill}]
    <3>1. DOMAIN row = Cols /\ row.status = "parsed" /\ row.primary = old.primary
      BY <2>1, <2>3, <2>6, ResumeColumns
    <3>2. Does(p) = "verify" /\ h'[p].resume = i
      BY <1>2, <2>6 DEF AskedBy, Routes
    <3>3. row # Gone
      BY <3>1, NotGone DEF Cols
    <3> QED BY <1>1, <1>2, <1>3, <2>1, <3>1, <3>2, <3>3 DEF Edited, Editors, Primary, Ready
  <2> QED BY <2>2, <2>4, <2>5, <2>6
<1> QED BY <1>1, <1>4, <1>5, <1>6 DEF Permits

LEMMA ResumesDelivered ==
  ASSUME IInv, SInv, ResumeInv, NEW p \in Requests, Delivers(p)
  PROVE  /\ ResumeRows'
         /\ Table("resume", rows') \subseteq Table("resume", rows) \cup {Own(p)}
         /\ p \notin Movers => Primaries(rows') = Primaries(rows)
<1>1. /\ call[p] # None /\ ResumesIn(p) /\ h[p].at \notin Storing
      /\ (p \in Movers <=> Does(p) \in {"upload", "set_primary", "delete"})
  BY AskerFacts, MoverFacts DEF Delivers, ResumeInv, Storing
<1>2. ASSUME NEW i, i[1] = "resume"
      PROVE  /\ i \in DOMAIN rows' <=> IF i \in DOMAIN edits[p] THEN edits[p][i] # Gone ELSE i \in DOMAIN rows
             /\ i \in DOMAIN rows' => rows'[i] = IF i \in DOMAIN edits[p] THEN edits[p][i] ELSE rows[i]
             /\ i \in DOMAIN edits[p] => /\ Edited(p, i, edits[p][i])
                                         /\ edits[p][i] # Gone => /\ DOMAIN edits[p][i] = Cols
                                                                  /\ edits[p][i].status = "parsed"
  BY <1>1, <1>2, DeliveredRows DEF ResumesIn, ResumeEdits, Table, Edited, Ready
<1>3. Table("resume", rows') \subseteq Table("resume", rows) \cup {Own(p)}
  BY <1>2 DEF Table, Edited
<1>4. \A i \in Table("resume", rows') : DOMAIN rows'[i] = Cols /\ rows'[i].status = "parsed"
  BY <1>2 DEF ResumeInv, ResumeRows, Table
<1>5. IsFiniteSet(Table("resume", rows'))
  <2>1. IsFiniteSet(Table("resume", rows)) /\ IsFiniteSet({Own(p)})
    BY FS_Singleton DEF ResumeInv, ResumeRows
  <2>2. IsFiniteSet(Table("resume", rows) \cup {Own(p)})
    BY <2>1, FS_Union
  <2> QED BY <1>3, <2>2, FS_Subset
<1>6. ASSUME p \notin Movers PROVE Primaries(rows') = Primaries(rows)
  <2>1. ASSUME NEW i, i[1] = "resume"
        PROVE  i \in DOMAIN rows' /\ rows'[i].primary <=> i \in DOMAIN rows /\ rows[i].primary
    <3>1. CASE i \in DOMAIN edits[p]
      <4>1. Edited(p, i, edits[p][i]) /\ edits[p][i] # Gone
        BY <1>1, <1>2, <1>6, <2>1, <3>1 DEF Edited
      <4>2. Primary(p, i, edits[p][i])
        BY <4>1 DEF Edited
      <4> QED BY <1>2, <1>6, <2>1, <3>1, <4>1, <4>2 DEF Primary
    <3>2. CASE i \notin DOMAIN edits[p]
      BY <1>2, <2>1, <3>2
    <3> QED BY <3>1, <3>2
  <2>2. /\ Primaries(rows') = {i \in Table("resume", rows') : rows'[i].primary}
        /\ Primaries(rows) = {i \in Table("resume", rows) : rows[i].primary}
    BY <1>4 DEF Primaries, Parsed, ResumeInv, ResumeRows
  <2> QED BY <2>1, <2>2 DEF Table
<1> QED BY <1>3, <1>4, <1>5, <1>6 DEF ResumeRows

LEMMA ResumesAfter ==
  ASSUME IInv, SInv, ResumeInv, NEW p \in Requests, Affects(p)
  PROVE  /\ ResumeRows'
         /\ Table("resume", rows') \subseteq Table("resume", rows) \cup {Own(p)}
         /\ Primaries(rows') = Primaries(rows) \/ (p \in Movers /\ Delivers(p))
<1>1. CASE Delivers(p)
  BY <1>1, ResumesDelivered
<1>2. CASE rows' = rows
  BY <1>2 DEF ResumeInv, ResumeRows
<1> QED BY <1>1, <1>2 DEF Affects, Looks, Puts, Removes, Loses, Quits, Remains

LEMMA OwnFacts ==
  \A p, q : Own(p)[1] = "resume" /\ (Own(p) = Own(q) => p = q)
  BY DEF Own

LEMMA ResumesOfTheOthers ==
  ASSUME IInv, SInv, ResumeInv, NEW p \in Requests, Aside(p), Affects(p), NEW q \in Requests \ {p}
  PROVE  ResumesIn(q)'
<1>1. /\ call' = call /\ h'[q] = h[q] /\ edits'[q] = edits[q] /\ (q \in dead' <=> q \in dead)
      /\ Does(q)' = Does(q) /\ Own(q)' = Own(q) /\ ((q \in Movers)' <=> q \in Movers)
  BY DEF Aside, Does, Own, Movers
<1>2. ResumesIn(q)
  BY DEF ResumeInv
<1>3. ASSUME NEW i \in DOMAIN edits[q]
      PROVE  (i \in DOMAIN rows' <=> i \in DOMAIN rows) /\ (i \in DOMAIN rows => rows'[i] = rows[i])
  <2>1. i \notin DOMAIN edits[p]
    BY DEF SInv
  <2> QED BY <2>1, DeliveredRows DEF Affects, Looks, Puts, Removes, Loses, Quits, Remains
<1>4. ASSUME NEW i \in ResumeEdits(q) PROVE Edited(q, i, edits[q][i])'
  <2>1. Edited(q, i, edits[q][i]) /\ i \in DOMAIN edits[q]
    BY <1>2 DEF ResumesIn, ResumeEdits, Table
  <2>2. (i \in DOMAIN rows' <=> i \in DOMAIN rows) /\ (i \in DOMAIN rows => rows'[i] = rows[i])
    BY <1>3, <2>1
  <2> QED BY <1>1, <2>1, <2>2 DEF Edited, Primary, Ready
<1>5. h[q].at # "done" => Own(q) \notin DOMAIN rows'
  BY <1>2, ResumesAfter, OwnFacts DEF ResumesIn, Table
<1>6. ResumeEdits(q)' = ResumeEdits(q)
  BY <1>1 DEF ResumeEdits, Table
<1>7. \A i \in ResumeEdits(q)' : Edited(q, i, edits[q][i])'
  BY <1>4, <1>6
<1> QED BY <1>1, <1>2, <1>5, <1>6, <1>7 DEF ResumesIn

Carried(p, i) ==
  /\ i \in DOMAIN edits[p] => i \in DOMAIN edits'[p]
  /\ \/ i \in DOMAIN edits'[p] => i \in DOMAIN edits[p] /\ edits'[p][i] = edits[p][i]
     \/ \E row : Puts(p, i, row) /\ edits'[p][i] = row

LEMMA ResumesCarried ==
  ASSUME NEW p \in Requests, NEW i, i[1] # "turn",
         Looks(p) \/ (\E k, row : Puts(p, k, row)) \/ \E K : Removes(p, K)
  PROVE  Carried(p, i)
<1>1. CASE Looks(p)
  BY <1>1 DEF Looks, Carried
<1>2. ASSUME NEW k, NEW row, Puts(p, k, row) PROVE Carried(p, i)
  BY <1>2 DEF Puts, Carried
<1>3. ASSUME NEW K, Removes(p, K) PROVE Carried(p, i)
  <2>1. i \notin K
    BY <1>3 DEF Removes, Table
  <2> QED BY <1>3, <2>1 DEF Removes, Carried
<1> QED BY <1>1, <1>2, <1>3

LEMMA ResumesOfOne ==
  ASSUME IInv, SInv, ResumeInv, NEW p \in Requests, Aside(p), Affects(p), Routes(p)
  PROVE  ResumesIn(p)'
<1>1. /\ call' = call /\ Does(p)' = Does(p) /\ Own(p)' = Own(p) /\ ((p \in Movers)' <=> p \in Movers)
      /\ AskedBy(h[p].at, Does(p)) /\ ResumesIn(p)
      /\ h[p].at = "resume" => Does(p) \in {"approve", "auto"}
  BY AskerFacts DEF Aside, Does, Own, Movers, ResumeInv, Queue, Applying
<1>2. CASE DOMAIN edits'[p] = {} /\ (h'[p].at = "done" \/ (rows' = rows /\ h[p].at # "done" /\ p \in dead'))
  <2>1. ResumeEdits(p)' = {}
    BY <1>2 DEF ResumeEdits, Table
  <2> QED BY <1>1, <1>2, <2>1 DEF ResumesIn, Storing
<1>3. CASE Looks(p) \/ (\E i, row : Puts(p, i, row)) \/ \E K : Removes(p, K)
  <2>1. rows' = rows /\ h[p].at # "done" /\ h'[p].at # "done" /\ (p \in dead' <=> p \in dead)
    BY <1>3 DEF Looks, Puts, Removes, Remains
  <2>2. ASSUME NEW i \in ResumeEdits(p)' PROVE Edited(p, i, edits[p][i])'
    <3>1. i[1] = "resume" /\ i \in DOMAIN edits'[p] /\ Carried(p, i)
      BY <1>3, <2>2, ResumesCarried DEF ResumeEdits, Table
    <3>2. CASE \E row : Puts(p, i, row) /\ edits'[p][i] = row
      BY <1>1, <3>1, <3>2, ResumePut
    <3>3. CASE i \in DOMAIN edits[p] /\ edits'[p][i] = edits[p][i]
      <4> DEFINE row == edits[p][i]
      <4>1. i \in ResumeEdits(p) /\ Edited(p, i, row)
        BY <1>1, <3>1, <3>3 DEF ResumesIn, ResumeEdits, Table
      <4>2. Does(p) = "verify" => h'[p].resume = h[p].resume
        BY <1>1, <2>1, <4>1 DEF ResumesIn, AskedBy, Routes
      <4>3. row # Gone /\ i = Own(p) /\ h[p].at \in Storing /\ h'[p].at \notin Storing => row.status = "parsed"
        <5>1. SUFFICES ASSUME row # Gone, i = Own(p), h[p].at \in Storing, h'[p].at \notin Storing
                       PROVE  row.status = "parsed"
          OBVIOUS
        <5>2. row = [row EXCEPT !.status = "parsed", !.skills = call[p].skills]
          BY <2>1, <3>3, <5>1 DEF Routes
        <5>3. DOMAIN row = Cols
          BY <4>1, <5>1 DEF Edited
        <5> DEFINE new == [row EXCEPT !.status = "parsed", !.skills = call[p].skills]
        <5> HIDE DEF row
        <5>4. new.status = "parsed"
          BY <5>3, ResumeColumns
        <5>5. row = new
          BY <5>2
        <5> HIDE DEF new
        <5> QED BY <5>4, <5>5
      <4> QED BY <1>1, <2>1, <3>3, <4>1, <4>2, <4>3 DEF Edited, Primary, Ready
    <3> QED BY <3>1, <3>2, <3>3 DEF Carried
  <2>3. h'[p].at \in Storing /\ p \notin dead' => Own(p) \in ResumeEdits(p)'
    <3>1. SUFFICES ASSUME h'[p].at \in Storing, p \notin dead' PROVE Own(p) \in DOMAIN edits'[p]
      BY OwnFacts DEF ResumeEdits, Table
    <3>2. h[p].at \in Storing => Own(p) \in DOMAIN edits[p]
      BY <1>1, <2>1, <3>1 DEF ResumesIn, ResumeEdits, Table
    <3>3. Carried(p, Own(p))
      BY <1>3, OwnFacts, ResumesCarried
    <3> QED BY <3>1, <3>2, <3>3 DEF Routes, Carried
  <2>4. h'[p].at \in {"skills", "flush"} => ResumeEdits(p)' = {}
    <3>1. SUFFICES ASSUME h'[p].at \in {"skills", "flush"}, NEW i \in ResumeEdits(p)' PROVE FALSE
      OBVIOUS
    <3>2. i[1] = "resume" /\ i \in DOMAIN edits'[p] /\ Carried(p, i)
      BY <1>3, <3>1, ResumesCarried DEF ResumeEdits, Table
    <3>3. h[p].at \in {"arrived", "skills"}
      BY <3>1 DEF Routes
    <3>4. i \notin DOMAIN edits[p]
      BY <1>1, <3>2, <3>3 DEF ResumesIn, ResumeEdits, Table, SInv
    <3>5. \A row : ~Puts(p, i, row)
      BY <3>2, <3>3 DEF Puts, Permits
    <3> QED BY <3>2, <3>4, <3>5 DEF Carried
  <2> QED BY <1>1, <2>1, <2>2, <2>3, <2>4 DEF ResumesIn
<1> QED BY <1>2, <1>3 DEF Affects, Loses, Quits, Delivers, Leaves, Remains

LEMMA ResumesGoOn ==
  ASSUME IInv, SInv, ResumeInv, NEW p \in Requests, Serve(p) \/ Fails(p), IInv'
  PROVE  ResumeInv'
<1>1. Aside(p) /\ Affects(p)
  BY StepsTransact, StepsAffect
<1>2. Routes(p)
  BY <1>1, RoutesAreFollowed DEF Aside
<1> QED BY <1>1, <1>2, ResumesOfOne, ResumesOfTheOthers, ResumesAfter DEF ResumeInv

LEMMA ResumesOpen == PracticeInit => ResumeInv
  <1> SUFFICES ASSUME PracticeInit PROVE ResumeInv
    OBVIOUS
  <1>1. /\ h = [p \in Requests |-> Fresh] /\ dead = {} /\ edits = [p \in Requests |-> Nothing]
        /\ rows \in Beginnings \cup {talk[2] : talk \in Talks}
    BY DEF PracticeInit, Init, SessionInit
  <1>2. ResumeRows
    <2>1. IsFiniteSet(DOMAIN rows) /\ Table("resume", rows) \subseteq DOMAIN rows
      BY <1>1, FoundAssumption DEF Table
    <2>2. \A i \in Table("resume", rows) : DOMAIN rows[i] = Cols /\ rows[i].status = "parsed"
      BY <1>1, FoundAssumption DEF Table, Cols
    <2> QED BY <2>1, <2>2, FS_Subset DEF ResumeRows
  <1>3. \A i \in DOMAIN rows : i[2] \notin Requests
    BY <1>1, FoundAssumption, RequestsAssumption
  <1>4. \A p \in Requests : h[p].at = "arrived" /\ ResumeEdits(p) = {} /\ Own(p) \notin DOMAIN rows
    BY <1>1, <1>3 DEF Fresh, Nothing, ResumeEdits, Table, Own
  <1> QED BY <1>2, <1>4 DEF ResumeInv, ResumesIn, Storing

-----------------------------------------------------------------------------
(* Applications.  The two reads of approve_apply see the one primary there *)
(* is, unless a mover committed meanwhile or there was none to begin with. *)

Moved(p) == overlap[p] \cap Movers # {}
Unsettled(p) == Moved(p) \/ (h[p].guess /\ Primaries(rows) = {})

Sending(p) ==
  /\ h[p].at = "score" => Unsettled(p) \/ Primaries(rows) = {h[p].resume}
  /\ h[p].at = "file" => Unsettled(p) \/ h[p].resume = h[p].copy
  /\ \A i \in Table("app", edits[p]) :
       i[2] = p /\ (edits[p][i].resume = edits[p][i].scored \/ Unsettled(p))

Sent ==
  \A i \in Table("app", rows) :
    \/ rows[i].resume = rows[i].scored
    \/ i[2] \in Requests /\ h[i[2]].at = "done" /\ (h[i[2]].guess \/ Moved(i[2]))

SentInv == Sent /\ \A p \in Requests : Sending(p)

LEMMA SentMeansScored ==
  ASSUME ResumeInv, SentInv
  PROVE  SentAsScored
<1>1. Table("resume", rows) = Parsed(rows)
  BY DEF ResumeInv, ResumeRows, Parsed
<1>2. \A p \in Requests : p > 0
  BY RequestsAssumption
<1> QED BY <1>1, <1>2 DEF SentInv, Sent, SentAsScored, Moved

(* Who changes no resume sees the primaries of the table.                  *)
LEMMA PrimariesInView ==
  ASSUME SInv, NEW p \in Requests, ResumeEdits(p) = {}
  PROVE  Primaries(View(p)) = Primaries(rows)
<1>1. ASSUME NEW i, i[1] = "resume"
      PROVE  /\ i \in DOMAIN View(p) <=> i \in DOMAIN rows
             /\ i \in DOMAIN rows => View(p)[i] = rows[i]
  <2>1. i \notin DOMAIN edits[p]
    BY <1>1 DEF ResumeEdits, Table
  <2> QED BY <2>1, ViewFacts DEF SInv
<1>2. \A r : \A i : i \in Primaries(r) <=> i \in DOMAIN r /\ i[1] = "resume" /\ r[i].status = "parsed" /\ r[i].primary
  BY DEF Primaries, Parsed, Table
<1>3. \A i : i \in Primaries(View(p)) <=> i \in Primaries(rows)
  BY <1>1, <1>2
<1> QED BY <1>3 DEF Primaries

LEMMA SenderFacts ==
  ASSUME IInv, ResumeInv, NEW p \in Requests, h[p].at \in {"resume", "score", "file"}
  PROVE  Does(p) \in {"approve", "auto"} /\ p \notin Movers /\ ResumeEdits(p) = {}
<1>1. Does(p) \in {"approve", "auto"}
  BY AskerFacts DEF Queue, Applying
<1> QED BY <1>1 DEF Movers, ResumeInv, ResumesIn, Edited, Editors

(* A read that is not ambiguous finds the primary.                         *)
LEMMA OnePrimary ==
  ASSUME SInv, ResumeInv, NEW p \in Requests, ResumeEdits(p) = {}, ~Ambiguous(p), Primaries(rows) # {},
         NEW i \in get_primary(p)
  PROVE  Primaries(rows) = {i}
<1>1. Primaries(View(p)) = Primaries(rows)
  BY PrimariesInView
<1>2. i \in Primaries(rows)
  BY <1>1 DEF get_primary
<1>3. IsFiniteSet(Primaries(rows))
  <2>1. Primaries(rows) \subseteq Table("resume", rows)
    BY DEF Primaries, Parsed
  <2> QED BY <2>1, FS_Subset DEF ResumeInv, ResumeRows
<1>4. Cardinality(Primaries(rows)) \in Nat /\ ~(Cardinality(Primaries(rows)) > 1)
  BY <1>1, <1>3, FS_CardinalityType DEF Ambiguous
<1>5. Cardinality(Primaries(rows)) # 0
  BY <1>2, <1>3, FS_EmptySet
<1>6. Cardinality(Primaries(rows)) = 1
  BY <1>4, <1>5
<1> QED BY <1>2, <1>3, <1>6, FS_Singleton

LEMMA UnsettledStays ==
  ASSUME IInv, SInv, ResumeInv, NEW p \in Requests, Aside(p), Affects(p), NEW q \in Requests,
         IF q = p THEN ~Delivers(p) ELSE h[q].at \notin {"arrived", "done"}
  PROVE  /\ Primaries(rows') = Primaries(rows) \/ Moved(q)'
         /\ Moved(q) => Moved(q)'
         /\ Unsettled(q) /\ h'[q].guess = h[q].guess => Unsettled(q)'
<1>1. Movers' = Movers
  BY DEF Aside, Movers, Does
<1>2. overlap[q] \subseteq overlap'[q] /\ (Delivers(p) /\ q # p => p \in overlap'[q])
  BY OverlapsGrow
<1>3. Moved(q) => Moved(q)'
  BY <1>1, <1>2 DEF Moved
<1>4. Primaries(rows') = Primaries(rows) \/ Moved(q)'
  BY <1>1, <1>2, ResumesAfter DEF Moved
<1> QED BY <1>3, <1>4 DEF Unsettled

LEMMA SendingOfTheOthers ==
  ASSUME IInv, SInv, ResumeInv, SentInv, NEW p \in Requests, Aside(p), Affects(p), NEW q \in Requests \ {p}
  PROVE  Sending(q)'
<1>1. h'[q] = h[q] /\ edits'[q] = edits[q] /\ Sending(q)
  BY DEF Aside, SentInv
<1>2. CASE h[q].at \in {"arrived", "done"}
  BY <1>1, <1>2 DEF Sending, SInv, Table
<1>3. CASE h[q].at \notin {"arrived", "done"}
  <2>1. Unsettled(q) => Unsettled(q)'
    BY <1>1, <1>3, UnsettledStays
  <2>2. Primaries(rows') = Primaries(rows) \/ Unsettled(q)'
    BY <1>3, UnsettledStays DEF Unsettled
  <2>3. Table("app", edits'[q]) = Table("app", edits[q])
    BY <1>1
  <2> QED BY <1>1, <2>1, <2>2, <2>3 DEF Sending
<1> QED BY <1>2, <1>3

LEMMA SendingOfOne ==
  ASSUME IInv, SInv, ResumeInv, SentInv, NEW p \in Requests, Aside(p), Affects(p), Routes(p)
  PROVE  Sending(p)'
<1>1. Sending(p)
  BY DEF SentInv
<1>2. CASE Delivers(p)
  <2>1. h'[p].at = "done" /\ Table("app", edits'[p]) = {}
    BY <1>2 DEF Delivers, Leaves, Table
  <2> QED BY <2>1 DEF Sending
<1>3. CASE ~Delivers(p)
  <2>1. /\ Primaries(rows') = Primaries(rows)
        /\ Moved(p) => Moved(p)'
        /\ Unsettled(p) /\ h'[p].guess = h[p].guess => Unsettled(p)'
    BY <1>3, ResumesAfter, UnsettledStays
  <2>2. /\ h'[p].at = "score" => /\ h[p].at = "resume" /\ ~Ambiguous(p) /\ h'[p].resume \in get_primary(p)
                                 /\ h'[p].guess = (Primaries(View(p)) = {})
        /\ h'[p].at # "score" => h'[p].guess = h[p].guess
        /\ h'[p].at = "file" => /\ h[p].at = "score" /\ ~Ambiguous(p) /\ h'[p].copy \in get_primary(p)
                                /\ h'[p].resume = h[p].resume
    BY DEF Routes
  <2>3. h'[p].at = "score" => /\ ResumeEdits(p) = {} /\ Primaries(View(p)) = Primaries(rows)
                              /\ h'[p].guess <=> Primaries(rows) = {}
    BY <2>2, SenderFacts, PrimariesInView
  <2>4. Unsettled(p) => Unsettled(p)'
    BY <2>1, <2>2, <2>3 DEF Unsettled
  <2>5. h'[p].at = "score" => Unsettled(p)' \/ Primaries(rows') = {h'[p].resume}
    BY <2>1, <2>2, <2>3, OnePrimary DEF Unsettled
  <2>6. h'[p].at = "file" => Unsettled(p)' \/ h'[p].resume = h'[p].copy
    <3>1. SUFFICES ASSUME h'[p].at = "file", ~Unsettled(p) PROVE h'[p].resume = h'[p].copy
      BY <2>4
    <3>2. Primaries(rows) = {h[p].resume} /\ ResumeEdits(p) = {}
      BY <1>1, <2>2, <3>1, SenderFacts DEF Sending
    <3> QED BY <2>2, <3>1, <3>2, OnePrimary
  <2>7. ASSUME NEW i \in Table("app", edits'[p])
        PROVE  i[2] = p /\ (edits'[p][i].resume = edits'[p][i].scored \/ Unsettled(p)')
    <3>1. i[1] = "app" /\ i \in DOMAIN edits'[p]
      BY <2>7 DEF Table
    <3>2. CASE DOMAIN edits'[p] = {}
      BY <3>1, <3>2
    <3>3. CASE Looks(p) \/ (\E k, row : Puts(p, k, row)) \/ \E K : Removes(p, K)
      <4>1. Carried(p, i)
        BY <3>1, <3>3, ResumesCarried
      <4>2. CASE i \in DOMAIN edits[p] /\ edits'[p][i] = edits[p][i]
        BY <1>1, <2>4, <3>1, <4>2 DEF Sending, Table
      <4>3. CASE \E row : Puts(p, i, row) /\ edits'[p][i] = row
        <5>1. /\ h[p].at = "file" /\ i = AppId(p)
              /\ edits'[p][i] = [job |-> Job(p), resume |-> h[p].resume, scored |-> h[p].copy]
          BY <3>1, <4>3 DEF Puts, Permits
        <5>2. i[2] = p
          BY <5>1 DEF AppId
        <5>3. edits'[p][i].resume = h[p].resume /\ edits'[p][i].scored = h[p].copy
          BY <5>1
        <5> QED BY <1>1, <2>4, <5>1, <5>2, <5>3 DEF Sending
      <4> QED BY <3>1, <4>1, <4>2, <4>3 DEF Carried
    <3> QED BY <1>3, <3>2, <3>3 DEF Affects, Loses, Quits, Leaves
  <2> QED BY <2>5, <2>6, <2>7 DEF Sending
<1> QED BY <1>2, <1>3

LEMMA StillSent ==
  ASSUME IInv, SInv, ResumeInv, SentInv, NEW p \in Requests, Aside(p), Affects(p), Routes(p), h[p].at # "done"
  PROVE  Sent'
<1>1. Movers' = Movers
  BY DEF Aside, Movers, Does
<1>2. \A q \in Requests : Moved(q) => Moved(q)'
  BY <1>1, OverlapsGrow DEF Moved
<1>3. SUFFICES ASSUME NEW i \in Table("app", rows'), rows'[i].resume # rows'[i].scored
               PROVE  i[2] \in Requests /\ h'[i[2]].at = "done" /\ (h'[i[2]].guess \/ Moved(i[2])')
  BY DEF Sent
<1>4. CASE i \in Table("app", rows) /\ rows'[i] = rows[i]
  <2>1. i[2] \in Requests /\ h[i[2]].at = "done" /\ (h[i[2]].guess \/ Moved(i[2]))
    BY <1>3, <1>4 DEF SentInv, Sent
  <2>2. h'[i[2]] = h[i[2]]
    BY <1>1, <2>1 DEF Aside
  <2> QED BY <1>2, <2>1, <2>2
<1>5. CASE Delivers(p) /\ i \in DOMAIN edits[p] /\ rows'[i] = edits[p][i]
  <2>1. i \in Table("app", edits[p]) /\ Sending(p)
    BY <1>3, <1>5 DEF SentInv, Table
  <2>2. i[2] = p /\ Unsettled(p)
    BY <1>3, <1>5, <2>1 DEF Sending
  <2>3. h'[p].at = "done" /\ h'[p].guess = h[p].guess
    BY <1>5 DEF Delivers, Leaves, Routes
  <2> QED BY <1>2, <2>2, <2>3 DEF Unsettled
<1>6. CASE Delivers(p)
  BY <1>3, <1>4, <1>5, <1>6, DeliveredRows DEF Table
<1>7. CASE rows' = rows
  BY <1>3, <1>4, <1>7
<1> QED BY <1>6, <1>7 DEF Affects, Looks, Puts, Removes, Loses, Quits, Remains

LEMMA SentOpens == PracticeInit => SentInv
  <1> SUFFICES ASSUME PracticeInit PROVE SentInv
    OBVIOUS
  <1>1. /\ h = [p \in Requests |-> Fresh] /\ edits = [p \in Requests |-> Nothing]
        /\ rows \in Beginnings \cup {talk[2] : talk \in Talks}
    BY DEF PracticeInit, Init, SessionInit
  <1>2. Sent
    BY <1>1, FoundAssumption DEF Sent, Table
  <1>3. \A p \in Requests : h[p].at = "arrived" /\ Table("app", edits[p]) = {}
    BY <1>1 DEF Fresh, Nothing, Table
  <1> QED BY <1>2, <1>3 DEF SentInv, Sending

LEMMA SentStays ==
  ASSUME IInv, SInv, ResumeInv, SentInv, [PracticeNext]_vars
  PROVE  IInv' /\ SInv' /\ ResumeInv' /\ SentInv'
<1>1. IInv'
  BY PracticeGoesOn
<1>2. ASSUME NEW p \in Requests, Serve(p) \/ Fails(p) PROVE SInv' /\ ResumeInv' /\ SentInv'
  <2>1. Aside(p) /\ Affects(p) /\ h[p].at # "done"
    BY <1>2, StepsTransact, StepsAffect DEF Transacts
  <2>2. Routes(p)
    BY <1>1, <1>2, <2>1, RoutesAreFollowed DEF Aside
  <2>3. SInv' /\ ResumeInv'
    BY <1>1, <1>2, <2>1, SessionsGoOn, ResumesGoOn
  <2>4. \A q \in Requests : Sending(q)'
    BY <2>1, <2>2, SendingOfOne, SendingOfTheOthers
  <2> QED BY <2>1, <2>2, <2>3, <2>4, StillSent DEF SentInv
<1>3. CASE UNCHANGED vars
  <2>1. SInv'
    BY <1>3 DEF vars, session, SInv
  <2>2. ResumeInv'
    BY <1>3 DEF vars, session, ResumeInv, ResumeRows, ResumesIn, ResumeEdits, Edited, Primary, Ready, Own, Does, Movers
  <2>3. SentInv'
    BY <1>3 DEF vars, session, SentInv, Sent, Sending, Unsettled, Moved, Movers, Does
  <2> QED BY <1>1, <2>1, <2>2, <2>3
<1> QED BY <1>1, <1>2, <1>3 DEF PracticeNext

(* The table holds no resume that was not parsed, and an application is    *)
(* sent with the resume it was scored with, unless the primary was changed *)
(* meanwhile or there was none (RecommendationService.approve_apply,       *)
(* ResumeRepository.get_primary, ResumeService.upload_and_process).        *)
THEOREM AlwaysSentAsScored == PracticeSpec => []SentAsScored
<1>1. PracticeInit => IInv /\ SInv /\ ResumeInv /\ SentInv
  BY PracticeOpens, SessionsOpen, ResumesOpen, SentOpens
<1>2. (IInv /\ SInv /\ ResumeInv /\ SentInv) /\ [PracticeNext]_vars => (IInv /\ SInv /\ ResumeInv /\ SentInv)'
  BY SentStays
<1>3. ResumeInv /\ SentInv => SentAsScored
  BY SentMeansScored
<1> QED BY <1>1, <1>2, <1>3, PTL DEF PracticeSpec

-----------------------------------------------------------------------------
(* Verified skills.  A verification writes back the skills it has read,    *)
(* with its own: who began after one that was confirmed has read what that *)
(* one wrote, and a resume that was deleted does not come back.            *)

Verifier(p) == call[p] # None /\ Does(p) = "verify"
Confirmed(p) == answer[p] # None /\ answer[p].ok /\ h[p].told
Spared(p) == \A q \in Requests : p \in overlap[q] => Does(q) # "verify"

Telling(p) ==
  /\ h[p].told => /\ Verifier(p) /\ h[p].at \in {"flush", "commit", "done"}
                  /\ h[p].resume[1] = "resume"
                  /\ \A q \in Requests : h[q].at # "done" => h[p].resume # Own(q)
  /\ h[p].at = "flush" => h[p].told
  /\ h[p].told /\ h[p].at = "commit" /\ p \notin dead =>
       h[p].resume \in DOMAIN edits[p] /\ call[p].skill \in edits[p][h[p].resume].skills

(* What p has told is in the copy of who came after it.                    *)
Hears(p, q) ==
  Confirmed(p) /\ Spared(p) /\ Verifier(q) /\ q \in open /\ h[q].resume = h[p].resume =>
    /\ h[q].at = "flush" => call[p].skill \in h[q].copy
    /\ h[p].resume \in DOMAIN edits[q] => call[p].skill \in edits[q][h[p].resume].skills

TellInv ==
  /\ ToldSkillsStay
  /\ \A p \in Requests : Telling(p)
  /\ \A p \in Requests : \A q \in Requests \ {p} : Hears(p, q)

(* What a verification writes: the skills it has read, and its own.        *)
LEMMA SkillsWritten ==
  ASSUME SInv, ResumeInv, NEW p \in Requests, NEW i, i \in DOMAIN View(p), i[1] = "resume", NEW skills
  PROVE  [View(p)[i] EXCEPT !.skills = skills].skills = skills
<1> DEFINE old == View(p)[i]
<1>1. DOMAIN old = Cols
  BY ResumeInView
<1> HIDE DEF old
<1>2. [old EXCEPT !.skills = skills].skills = skills
  BY <1>1 DEF Cols
<1> QED BY <1>2 DEF old

LEMMA SkillsAfter ==
  ASSUME IInv, SInv, ResumeInv, NEW p \in Requests, Affects(p),
         NEW i, i[1] = "resume", i \in DOMAIN rows, i \in DOMAIN rows'
  PROVE  \/ rows'[i].skills = rows[i].skills
         \/ /\ Delivers(p) /\ Verifier(p) /\ i = h[p].resume
            /\ i \in DOMAIN edits[p] /\ rows'[i] = edits[p][i]
<1>1. CASE Delivers(p) /\ i \in DOMAIN edits[p]
  <2>1. rows'[i] = edits[p][i] /\ edits[p][i] # Gone
    BY <1>1, DeliveredRows
  <2>2. Edited(p, i, edits[p][i]) /\ call[p] # None
    BY <1>1, AskerFacts DEF ResumeInv, ResumesIn, ResumeEdits, Table, Delivers
  <2> QED BY <1>1, <2>1, <2>2 DEF Edited, Verifier
<1>2. CASE Delivers(p) /\ i \notin DOMAIN edits[p]
  BY <1>2, DeliveredRows
<1>3. CASE rows' = rows
  BY <1>3
<1> QED BY <1>1, <1>2, <1>3 DEF Affects, Looks, Puts, Removes, Loses, Quits, Remains

LEMMA ResumeRead ==
  ASSUME SInv, ResumeInv, NEW p \in Requests, h[p].at = "skills", NEW i \in Parsed(View(p))
  PROVE  i[1] = "resume" /\ i \in DOMAIN rows /\ View(p)[i] = rows[i]
<1>1. i[1] = "resume" /\ i \in DOMAIN View(p)
  BY DEF Parsed, Table
<1>2. i \notin DOMAIN edits[p]
  BY <1>1 DEF ResumeInv, ResumesIn, ResumeEdits, Table
<1> QED BY <1>1, <1>2, ViewFacts

LEMMA StillUnfinished ==
  ASSUME NEW p \in Requests, Aside(p), h[p].at # "done", NEW q \in Requests, h'[q].at # "done"
  PROVE  h[q].at # "done"
  BY DEF Aside

LEMMA TellingOfTheOthers ==
  ASSUME TellInv, NEW p \in Requests, Aside(p), h[p].at # "done", NEW q \in Requests \ {p}
  PROVE  Telling(q)'
<1>1. /\ call' = call /\ h'[q] = h[q] /\ edits'[q] = edits[q] /\ (q \in dead' <=> q \in dead)
      /\ Telling(q) /\ (Verifier(q)' <=> Verifier(q)) /\ \A r : Own(r)' = Own(r)
  BY DEF Aside, TellInv, Verifier, Does, Own
<1>2. \A r \in Requests : h'[r].at # "done" => h[r].at # "done"
  BY StillUnfinished
<1> QED BY <1>1, <1>2 DEF Telling

LEMMA TellingOfOne ==
  ASSUME IInv, SInv, ResumeInv, TellInv, NEW p \in Requests, Aside(p), Routes(p), h[p].at # "done"
  PROVE  Telling(p)'
<1>1. /\ call' = call /\ (Verifier(p)' <=> Verifier(p)) /\ \A r : Own(r)' = Own(r)
      /\ AskedBy(h[p].at, Does(p)) /\ (h[p].at # "arrived" => call[p] # None) /\ Held(p)
  BY AskerFacts DEF Aside, Verifier, Does, Own
<1>2. Telling(p)
  BY DEF TellInv
<1>3. \A r \in Requests : h'[r].at # "done" => h[r].at # "done"
  BY StillUnfinished
<1>4. CASE h[p].at = "skills" /\ h'[p].at # "done"
  <2>1. /\ h'[p].at \in {"flush", "commit"} /\ (h'[p].told <=> h'[p].at = "flush")
        /\ h'[p].resume \in Parsed(View(p))
    BY <1>4 DEF Routes
  <2>2. h'[p].resume[1] = "resume" /\ h'[p].resume \in DOMAIN rows
    BY <1>4, <2>1, ResumeRead
  <2>3. \A q \in Requests : h[q].at # "done" => h'[p].resume # Own(q)
    BY <2>2 DEF ResumeInv, ResumesIn
  <2>4. Verifier(p)
    BY <1>1, <1>4 DEF AskedBy, Verifier
  <2> QED BY <1>1, <1>3, <2>1, <2>2, <2>3, <2>4 DEF Telling
<1>5. CASE ~(h[p].at = "skills" /\ h'[p].at # "done")
  <2>1. h'[p].told = h[p].told /\ (h'[p].at = "flush" => h[p].at = "skills")
    BY <1>5 DEF Routes
  <2>2. ASSUME h[p].told
        PROVE  /\ Verifier(p) /\ h[p].at \in {"flush", "commit"} /\ h'[p].resume = h[p].resume
               /\ h'[p].at \in {"commit", "done"} /\ (h'[p].at = "commit" => h[p].at = "flush")
    BY <1>2, <2>2 DEF Telling, Verifier, Routes
  <2>3. ASSUME h[p].at = "flush", h'[p].at = "commit"
        PROVE  /\ h[p].resume \in DOMAIN edits'[p]
               /\ call[p].skill \in edits'[p][h[p].resume].skills
    <3> DEFINE skills == h[p].copy \cup {call[p].skill}
    <3>1. /\ h[p].resume[1] = "resume" /\ h[p].resume \in DOMAIN View(p) /\ h[p].resume \in DOMAIN edits'[p]
          /\ edits'[p][h[p].resume] = [View(p)[h[p].resume] EXCEPT !.skills = skills]
      BY <1>1, <2>3 DEF Held, Routes
    <3>2. call[p].skill \in skills
      OBVIOUS
    <3> HIDE DEF skills
    <3> QED BY <3>1, <3>2, SkillsWritten
  <2>4. h'[p].at = "flush" => h'[p].told
    BY <1>5, <2>1
  <2> QED BY <1>1, <1>2, <1>3, <2>1, <2>2, <2>3, <2>4 DEF Telling
<1> QED BY <1>4, <1>5

LEMMA ConfirmedBefore ==
  ASSUME IInv, SInv, TellInv, NEW p \in Requests, Aside(p), Affects(p), Routes(p), h[p].at # "done",
         NEW q \in Requests, Confirmed(q)'
  PROVE  \/ q = p /\ Delivers(p) /\ h[p].told /\ h'[p].resume = h[p].resume
         \/ q # p /\ h'[q] = h[q] /\ Confirmed(q)
<1>1. CASE q # p
  BY <1>1 DEF Aside, Confirmed
<1>2. CASE q = p
  <2>1. answer[p] = None
    BY DEF IInv, Place
  <2>2. ~Quits(p)
    <3>1. h'[p].at = "done" => h'[p].told = h[p].told
      BY DEF Routes
    <3> QED BY <1>2, <3>1 DEF Confirmed, Quits, Leaves, TellInv, Telling, Verifier
  <2>3. Delivers(p)
    BY <1>2, <2>1, <2>2 DEF Confirmed, Affects, Looks, Puts, Removes, Loses, Remains
  <2> QED BY <1>2, <2>3 DEF Confirmed, Delivers, Leaves, Routes
<1> QED BY <1>1, <1>2

LEMMA SparedBefore ==
  ASSUME SInv, NEW p \in Requests, Aside(p), Affects(p), NEW q \in Requests, Spared(q)'
  PROVE  Spared(q)
  BY OverlapsGrow DEF Spared, Aside, Does

(* Nobody hears of p while p commits: who is there then met it.            *)
LEMMA Unheard ==
  ASSUME SInv, NEW p \in Requests, Aside(p), Affects(p), Delivers(p), NEW q \in Requests \ {p},
         Spared(p)', Verifier(q), q \in open'
  PROVE  FALSE
<1>1. q \in open /\ Does(q)' = "verify"
  BY DEF Aside, Verifier, Does
<1>2. p \in overlap'[q]
  BY <1>1, OverlapsGrow DEF SInv
<1> QED BY <1>1, <1>2 DEF Spared

LEMMA HeardByTheOthers ==
  ASSUME IInv, SInv, TellInv, NEW p \in Requests, Aside(p), Affects(p), Routes(p), h[p].at # "done",
         NEW q \in Requests, NEW r \in Requests \ {p, q}
  PROVE  Hears(q, r)'
<1>1. /\ call' = call /\ h'[r] = h[r] /\ edits'[r] = edits[r] /\ (r \in open' <=> r \in open)
      /\ (Verifier(r)' <=> Verifier(r))
  BY DEF Aside, Verifier, Does
<1>2. SUFFICES ASSUME Confirmed(q)', Spared(q)', Verifier(r)', r \in open', h'[r].resume = h'[q].resume
               PROVE  /\ h'[r].at = "flush" => call'[q].skill \in h'[r].copy
                      /\ h'[q].resume \in DOMAIN edits'[r] =>
                           call'[q].skill \in edits'[r][h'[q].resume].skills
  BY DEF Hears
<1>3. q # p /\ h'[q] = h[q] /\ Confirmed(q)
  BY <1>1, <1>2, ConfirmedBefore, Unheard
<1>4. Spared(q) /\ Hears(q, r)
  BY <1>2, SparedBefore DEF TellInv
<1> QED BY <1>1, <1>2, <1>3, <1>4 DEF Hears

LEMMA HeardByOne ==
  ASSUME IInv, SInv, ResumeInv, TellInv, NEW p \in Requests, Aside(p), Affects(p), Routes(p),
         h[p].at # "done", NEW q \in Requests \ {p}
  PROVE  Hears(q, p)'
<1>1. /\ call' = call /\ (Verifier(p)' <=> Verifier(p)) /\ AskedBy(h[p].at, Does(p))
      /\ h[p].at = "resume" => Does(p) \in {"approve", "auto"}
  BY AskerFacts DEF Aside, Verifier, Does, Queue, Applying
<1> DEFINE i == h'[q].resume
           skill == call[q].skill
<1>2. SUFFICES ASSUME Confirmed(q)', Spared(q)', Verifier(p), p \in open', h'[p].resume = i
               PROVE  /\ h'[p].at = "flush" => skill \in h'[p].copy
                      /\ i \in DOMAIN edits'[p] => skill \in edits'[p][i].skills
  BY <1>1 DEF Hears
<1>3. h'[q] = h[q] /\ Confirmed(q) /\ Spared(q)
  BY <1>2, ConfirmedBefore, SparedBefore
<1>4. /\ ToldSkillsStay /\ Hears(q, p) /\ h[q].told /\ i[1] = "resume"
  BY <1>3 DEF TellInv, Telling, Confirmed
<1>5. i \in DOMAIN rows => skill \in rows[i].skills
  BY <1>3, <1>4 DEF ToldSkillsStay, Confirmed, Spared
<1>6. Looks(p) \/ (\E k, row : Puts(p, k, row)) \/ (\E K : Removes(p, K)) \/ DOMAIN edits'[p] = {}
  BY DEF Affects, Loses, Quits, Delivers, Leaves
<1>7. i \in DOMAIN edits'[p] => Carried(p, i)
  BY <1>4, <1>6, ResumesCarried
<1>8. h'[p].at # "done"
  BY <1>2 DEF Affects, Looks, Puts, Removes, Loses, Quits, Delivers, Leaves, Remains
<1> HIDE DEF i, skill
<1>9. CASE h[p].at = "skills"
  <2>1. i \in Parsed(View(p)) /\ h'[p].copy = View(p)[i].skills
    BY <1>2, <1>8, <1>9 DEF Routes
  <2>2. skill \in h'[p].copy
    BY <1>5, <1>9, <2>1, ResumeRead
  <2>3. i \notin DOMAIN edits[p]
    BY <1>4, <1>9 DEF ResumeInv, ResumesIn, ResumeEdits, Table
  <2>4. \A row : ~Puts(p, i, row)
    BY <1>4, <1>9 DEF Puts, Permits
  <2> QED BY <1>7, <2>2, <2>3, <2>4 DEF Carried
<1>10. CASE h[p].at # "skills"
  <2>1. h'[p].resume = h[p].resume /\ h'[p].at # "flush"
    BY <1>1, <1>2, <1>10 DEF Verifier, AskedBy, Routes
  <2>2. h[p].resume = h[q].resume /\ h[q].resume = i
    BY <1>2, <1>3, <2>1 DEF i
  <2>3. ASSUME i \in DOMAIN edits'[p] PROVE skill \in edits'[p][i].skills
    <3>1. CASE i \in DOMAIN edits[p] /\ edits'[p][i] = edits[p][i]
      <4>1. p \in open
        BY <3>1 DEF SInv
      <4> QED BY <1>2, <1>3, <1>4, <2>2, <3>1, <4>1 DEF Hears, skill
    <3>2. CASE \E row : Puts(p, i, row) /\ edits'[p][i] = row
      <4>1. PICK row : Puts(p, i, row) /\ edits'[p][i] = row
        BY <3>2
      <4>2. Does(p) = "verify" /\ h[p].at \notin {"arrived", "done"} /\ p \in open
        BY <1>2, <4>1 DEF Verifier, Puts, Remains, SInv
      <4> DEFINE skills == h[p].copy \cup {call[p].skill}
      <4>3. i \in DOMAIN View(p) /\ h[p].at = "flush" /\ row = [View(p)[i] EXCEPT !.skills = skills]
        BY <1>1, <1>4, <4>1, <4>2 DEF Puts, Permits, AskedBy
      <4>4. skill \in skills
        BY <1>2, <1>3, <1>4, <2>2, <4>2, <4>3 DEF Hears, skill
      <4> HIDE DEF skills
      <4> QED BY <1>4, <4>1, <4>3, <4>4, SkillsWritten
    <3> QED BY <1>7, <2>3, <3>1, <3>2 DEF Carried
  <2> QED BY <2>1, <2>3
<1> QED BY <1>9, <1>10

LEMMA SkillsStillStay ==
  ASSUME IInv, SInv, ResumeInv, TellInv, NEW p \in Requests, Aside(p), Affects(p), Routes(p), h[p].at # "done"
  PROVE  ToldSkillsStay'
<1>1. SUFFICES ASSUME NEW q \in Requests, Confirmed(q)', Spared(q)', h'[q].resume \in DOMAIN rows'
               PROVE  call'[q].skill \in rows'[h'[q].resume].skills
  BY DEF ToldSkillsStay, Confirmed, Spared
<1>2. call' = call /\ Spared(q) /\ Telling(q)
  BY <1>1, SparedBefore DEF Aside, TellInv
<1>3. CASE q = p /\ Delivers(p) /\ h[p].told /\ h'[p].resume = h[p].resume
  <2>1. h[p].resume \in DOMAIN edits[p] /\ call[p].skill \in edits[p][h[p].resume].skills
    BY <1>2, <1>3 DEF Telling, Delivers
  <2> QED BY <1>1, <1>2, <1>3, <2>1, DeliveredRows
<1>4. CASE q # p /\ h'[q] = h[q] /\ Confirmed(q)
  <2> DEFINE i == h[q].resume
  <2>1. i[1] = "resume" /\ i # Own(p)
    BY <1>2, <1>4 DEF Telling, Confirmed
  <2>2. i \in DOMAIN rows
    BY <1>1, <1>4, <2>1, ResumesAfter DEF Table
  <2>3. call[q].skill \in rows[i].skills
    BY <1>2, <1>4, <2>2 DEF TellInv, ToldSkillsStay, Confirmed, Spared
  <2>4. ASSUME Delivers(p), Verifier(p), i = h[p].resume, i \in DOMAIN edits[p]
        PROVE  call[q].skill \in edits[p][i].skills
    <3>1. p \in open
      BY <2>4 DEF SInv
    <3> QED BY <1>2, <1>4, <2>4, <3>1 DEF TellInv, Hears
  <2> HIDE DEF i
  <2>5. call[q].skill \in rows'[i].skills
    BY <1>1, <1>4, <2>1, <2>2, <2>3, <2>4, SkillsAfter DEF i
  <2> QED BY <1>2, <1>4, <2>5 DEF i
<1> QED BY <1>1, <1>3, <1>4, ConfirmedBefore

LEMMA TellOpens == PracticeInit => TellInv
  <1> SUFFICES ASSUME PracticeInit PROVE TellInv
    OBVIOUS
  <1>1. h = [p \in Requests |-> Fresh] /\ answer = [p \in Requests |-> None]
    BY DEF PracticeInit, Init
  <1>2. \A p \in Requests : h[p].at = "arrived" /\ ~h[p].told /\ answer[p] = None
    BY <1>1 DEF Fresh
  <1> QED BY <1>2 DEF TellInv, ToldSkillsStay, Telling, Hears, Confirmed

LEMMA TellStays ==
  ASSUME IInv, SInv, ResumeInv, TellInv, [PracticeNext]_vars
  PROVE  IInv' /\ SInv' /\ ResumeInv' /\ TellInv'
<1>1. IInv'
  BY PracticeGoesOn
<1>2. ASSUME NEW p \in Requests, Serve(p) \/ Fails(p) PROVE SInv' /\ ResumeInv' /\ TellInv'
  <2>1. Aside(p) /\ Affects(p) /\ h[p].at # "done"
    BY <1>2, StepsTransact, StepsAffect DEF Transacts
  <2>2. Routes(p)
    BY <1>1, <1>2, <2>1, RoutesAreFollowed DEF Aside
  <2>3. SInv' /\ ResumeInv'
    BY <1>1, <1>2, <2>1, SessionsGoOn, ResumesGoOn
  <2>4. \A q \in Requests : Telling(q)'
    BY <2>1, <2>2, TellingOfOne, TellingOfTheOthers
  <2>5. \A q \in Requests : \A r \in Requests \ {q} : Hears(q, r)'
    BY <2>1, <2>2, HeardByOne, HeardByTheOthers
  <2> QED BY <2>1, <2>2, <2>3, <2>4, <2>5, SkillsStillStay DEF TellInv
<1>3. CASE UNCHANGED vars
  <2>1. SInv'
    BY <1>3 DEF vars, session, SInv
  <2>2. ResumeInv'
    BY <1>3 DEF vars, session, ResumeInv, ResumeRows, ResumesIn, ResumeEdits, Edited, Primary, Ready, Own, Does, Movers
  <2>3. ToldSkillsStay' /\ \A p \in Requests : Telling(p)'
    BY <1>3 DEF vars, session, TellInv, ToldSkillsStay, Telling, Verifier, Does, Own
  <2>4. \A p \in Requests : \A q \in Requests \ {p} : Hears(p, q)'
    BY <1>3 DEF vars, session, TellInv, Hears, Confirmed, Spared, Verifier, Does
  <2> QED BY <1>1, <2>1, <2>2, <2>3, <2>4 DEF TellInv
<1> QED BY <1>1, <1>2, <1>3 DEF PracticeNext

(* A skill the user was told is on a resume is on it as long as the resume *)
(* is there, unless another verification of the same moment wrote back its *)
(* own copy (ResumeService.add_verified_skills).                           *)
THEOREM ToldSkillsAlwaysStay == PracticeSpec => []ToldSkillsStay
<1>1. PracticeInit => IInv /\ SInv /\ ResumeInv /\ TellInv
  BY PracticeOpens, SessionsOpen, ResumesOpen, TellOpens
<1>2. (IInv /\ SInv /\ ResumeInv /\ TellInv) /\ [PracticeNext]_vars => (IInv /\ SInv /\ ResumeInv /\ TellInv)'
  BY TellStays
<1>3. TellInv => ToldSkillsStay
  BY DEF TellInv
<1> QED BY <1>1, <1>2, <1>3, PTL DEF PracticeSpec
=============================================================================
