------------------------------ MODULE Sessions -------------------------------
(***************************************************************************)
(* database/session.py: every request works in one transaction, committed  *)
(* when its handler returns and rolled back when it raises.  The database  *)
(* is READ COMMITTED: a statement sees what was committed when it began,   *)
(* and its own transaction; a write waits for the row's open transaction.  *)
(* After a failed statement the transaction is rolled back and the later   *)
(* statements of its session raise.                                        *)
(***************************************************************************)
EXTENDS Integers, FiniteSets

CONSTANT
  Requests      \* 1, 2, ...

ASSUME RequestsAssumption == Requests \subseteq Nat \ {0}

VARIABLES
  rows,         \* committed: id -> row, an id being <<table, request, number>>
  edits,        \* what each open transaction wrote, and has locked
  dead,         \* sessions with a failed statement
  open,         \* requests with a session
  overlap       \* the requests that committed during a request

session == <<rows, edits, dead, open, overlap>>

Gone == <<>>        \* what a deleted row is changed to
Nothing == <<>>     \* no edits

SessionInit(committed) ==
  /\ rows = committed
  /\ edits = [p \in Requests |-> Nothing]
  /\ dead = {} /\ open = {}
  /\ overlap = [p \in Requests |-> {}]

Over(new, old) ==
  [i \in DOMAIN new \cup DOMAIN old |-> IF i \in DOMAIN new THEN new[i] ELSE old[i]]

View(p) ==
  LET all == Over(edits[p], rows)
  IN [i \in {k \in DOMAIN all : all[k] # Gone} |-> all[i]]

Table(t, r) == {i \in DOMAIN r : i[1] = t}

Free(p, i) == \A q \in Requests \ {p} : i \notin DOMAIN edits[q]

Begins(p) ==
  /\ open' = open \cup {p}
  /\ UNCHANGED <<rows, edits, dead, overlap>>

Write(p, i, row) ==
  /\ p \notin dead /\ Free(p, i)
  /\ edits' = [edits EXCEPT ![p] = Over([k \in {i} |-> row], @)]
  /\ UNCHANGED <<rows, dead, open, overlap>>

Dies(p) ==
  /\ dead' = dead \cup {p}
  /\ edits' = [edits EXCEPT ![p] = Nothing]
  /\ UNCHANGED <<rows, open, overlap>>

Closes(p) ==
  /\ edits' = [edits EXCEPT ![p] = Nothing]
  /\ dead' = dead \ {p} /\ open' = open \ {p}

Commits(p) ==
  /\ p \notin dead
  /\ rows' = View(p)
  /\ overlap' = [q \in Requests |-> IF q \in open \ {p} THEN overlap[q] \cup {p} ELSE overlap[q]]
  /\ Closes(p)

KeepsWrites(p) ==                                                    \* mutant
  /\ rows' = View(p) /\ UNCHANGED overlap
  /\ Closes(p)
KeepsLocks(p) ==                                                     \* mutant
  /\ dead' = dead \ {p} /\ open' = open \ {p}
  /\ UNCHANGED <<rows, edits, overlap>>
RollsBack(p) ==
  /\ UNCHANGED <<rows, overlap>>
  /\ Closes(p)
=============================================================================
