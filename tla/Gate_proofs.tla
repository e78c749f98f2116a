----------------------------- MODULE Gate_proofs -----------------------------
(***************************************************************************)
(* What a budget that is read before a call and charged after it, and a    *)
(* window that is counted in one round trip and added to in another, still *)
(* guarantee, for any number of requests, processes and windows.           *)
(***************************************************************************)
EXTENDS Gate, FiniteSetTheorems, TLAPS

Caches == {None, "brief", "salary"}
Fields == {"at", "t", "hit", "capped", "key"}

TypeOK ==
  /\ case \in Cases
  /\ usage \in Nat /\ books \in Nat /\ versions \in Nat /\ crowd \in Nat /\ outside \in Nat
  /\ DOMAIN r = Requests
  /\ \A p \in Requests : DOMAIN r[p] = Fields /\ r[p].key \in Caches

(* The warmer does not pass the limiter and the guard of a route.          *)
AtTheGate == {"ping", "count", "oldest", "add", "expire", "guard"}
PassesBy == \A p \in Requests : r[p].at \in AtTheGate => ~Warms(p)

IInv == TypeOK /\ PassesBy /\ BudgetHolds

-----------------------------------------------------------------------------
LEMMA KeysOfRoutes == \A k \in DOMAIN Routes : Routes[k].caches \in Caches
<1> USE DEF Endpoint, Caches
<1>1. mentor_chat.caches \in Caches /\ mentor_chat_stream.caches \in Caches
  BY DEF mentor_chat, mentor_chat_stream
<1>2. mentor_daily_brief.caches \in Caches /\ salary_estimate.caches \in Caches
  BY DEF mentor_daily_brief, salary_estimate
<1>3. resume_score.caches \in Caches /\ resume_rewrite.caches \in Caches
  BY DEF resume_score, resume_rewrite
<1>4. interview_questions.caches \in Caches /\ interview_evaluate.caches \in Caches
  BY DEF interview_questions, interview_evaluate
<1>5. learn_lesson.caches \in Caches /\ learn_flashcards.caches \in Caches
  BY DEF learn_lesson, learn_flashcards
<1>6. code_review.caches \in Caches /\ code_challenge.caches \in Caches
  BY DEF code_review, code_challenge
<1>7. Endpoint(None, {}).caches \in Caches
  OBVIOUS
<1>8. mentor_ask.caches \in Caches /\ interview_prep.caches \in Caches
  BY DEF mentor_ask, interview_prep, Enriched
<1>9. resume_upload.caches \in Caches /\ resume_intelligence.caches \in Caches
  BY DEF resume_upload, resume_intelligence, Enriched
<1>10. salary_intelligence.caches \in Caches
  BY DEF salary_intelligence, Enriched
<1>11. roadmap_targets.caches \in Caches /\ roadmap_dream.caches \in Caches
  BY DEF roadmap_targets, roadmap_dream, Enriched
<1> HIDE DEF Endpoint, Caches
<1> QED BY <1>1, <1>2, <1>3, <1>4, <1>5, <1>6, <1>7, <1>8, <1>9, <1>10, <1>11 DEF Routes

(* The warmer checks the budget; an upload does not.                       *)
LEMMA GuardsOfRoutes ==
  \A p : /\ Warms(p) => Guarded(p)
         /\ Uploads(p) => ~Guarded(p)
<1>1. Routes["warm"].guarded = TRUE
  BY DEF Routes, Endpoint
<1>2. Routes["resume_upload"].guarded = FALSE
  BY DEF Routes, resume_upload, Enriched, Endpoint
<1> QED BY <1>1, <1>2 DEF Warms, Uploads, Guarded, Route

LEMMA OwedMembers ==
  \A x : x \in Owed <=> \E p \in Requests : \E k \in Awaits(p) : x = <<p, k>>
  BY DEF Owed

LEMMA OwedIsFinite ==
  ASSUME TypeOK PROVE IsFiniteSet(Owed) /\ Cardinality(Owed) \in Nat
<1>1. IsFiniteSet(Requests)
  BY CasesAssumption DEF TypeOK, Requests, asked
<1>2. IsFiniteSet(Caches)
  <2>1. IsFiniteSet({None}) BY FS_Singleton
  <2>2. IsFiniteSet({None} \cup {"brief"}) BY <2>1, FS_AddElement
  <2>3. IsFiniteSet(({None} \cup {"brief"}) \cup {"salary"}) BY <2>2, FS_AddElement
  <2> QED BY <2>3 DEF Caches
<1>3. IsFiniteSet(Requests \X Caches)
  BY <1>1, <1>2, FS_Product
<1>4. \A p \in Requests : Awaits(p) \subseteq Caches
  BY DEF Awaits, TypeOK, Caches
<1>5. Owed \subseteq Requests \X Caches
  BY <1>4, OwedMembers
<1> QED BY <1>3, <1>5, FS_Subset, FS_CardinalityType

LEMMA AddOne ==
  ASSUME NEW S, NEW x, IsFiniteSet(S)
  PROVE  /\ IsFiniteSet(S \cup {x}) /\ Cardinality(S \cup {x}) \in Nat
         /\ Cardinality(S \cup {x}) <= Cardinality(S) + 1
<1>1. IsFiniteSet(S \cup {x}) /\ Cardinality(S \cup {x}) = IF x \in S THEN Cardinality(S) ELSE Cardinality(S) + 1
  BY FS_AddElement
<1>2. Cardinality(S) \in Nat
  BY FS_CardinalityType
<1> QED BY <1>1, <1>2

LEMMA MaxOfTwo ==
  ASSUME NEW a \in Nat, NEW b \in Nat
  PROVE  Max({a, b}) \in Nat /\ Max({a, b}) >= a /\ Max({a, b}) >= b
<1>1. \E x \in {a, b} : \A y \in {a, b} : x >= y
  OBVIOUS
<1> QED BY <1>1 DEF Max

(* A request that does not come to owe more leaves less owed in all.       *)
LEMMA OwesNoMore ==
  ASSUME case' = case, NEW p \in Requests, \A q \in Requests \ {p} : r'[q] = r[q],
         Awaits(p)' \subseteq Awaits(p)
  PROVE  Owed' \subseteq Owed
<1>1. Requests' = Requests /\ asked' = asked
  BY DEF Requests, asked
<1>2. \A q \in Requests \ {p} : Awaits(q)' = Awaits(q)
  BY <1>1 DEF Awaits, Warms, Guarded, Route
<1>3. \A q \in Requests : Awaits(q)' \subseteq Awaits(q)
  BY <1>2
<1> QED BY <1>1, <1>3 DEF Owed

(* So the bound holds after a step that bills nothing behind the guard.    *)
LEMMA NothingBilled ==
  ASSUME IInv, TypeOK', Owed' \subseteq Owed, case' = case, crowd' = crowd,
         NEW n \in Nat, usage' = usage + n, outside' = outside + n, versions' <= books'
  PROVE  BudgetHolds'
<1>1. Cardinality(Owed') <= Cardinality(Owed) /\ Cardinality(Owed) \in Nat /\ Cardinality(Owed') \in Nat
  BY OwedIsFinite, FS_Subset, FS_CardinalityType DEF IInv
<1>2. Budget' = Budget /\ Budget \in Nat
  BY CasesAssumption DEF Budget, IInv, TypeOK
<1>3. /\ usage \in Nat /\ outside \in Nat /\ usage' \in Nat /\ outside' \in Nat
      /\ crowd \in Nat /\ crowd' = crowd
  BY DEF IInv, TypeOK
<1>4. usage' > outside' => usage > outside
  BY <1>3
<1>5. ASSUME usage' > outside' \/ Owed' # {}
      PROVE  usage' - outside' + Cardinality(Owed') < Budget' + crowd'
  <2>1. usage - outside + Cardinality(Owed) < Budget + crowd
    BY <1>4, <1>5 DEF IInv, BudgetHolds
  <2> QED BY <1>1, <1>2, <1>3, <2>1
<1> QED BY <1>5 DEF BudgetHolds

(* One request moves on, and owes no more than it did.                     *)
Moves(p) ==
  /\ case' = case /\ crowd' = crowd /\ usage' = usage /\ outside' = outside
  /\ books' = books /\ versions' = versions
  /\ DOMAIN r' = Requests /\ DOMAIN r'[p] = Fields /\ r'[p].key \in Caches
  /\ \A q \in Requests \ {p} : r'[q] = r[q]
  /\ Awaits(p)' \subseteq Awaits(p)
  /\ r'[p].at \in AtTheGate => ~Warms(p)

LEMMA MovesOn ==
  ASSUME IInv, NEW p \in Requests, Moves(p) PROVE IInv'
<1>1. Requests' = Requests
  BY DEF Requests, asked, Moves
<1>2. TypeOK'
  BY <1>1 DEF IInv, TypeOK, Moves
<1>4. Owed' \subseteq Owed
  BY OwesNoMore DEF Moves
<1>5. versions' <= books'
  BY DEF Moves, IInv, BudgetHolds
<1>6. PassesBy'
  BY <1>1 DEF Moves, IInv, PassesBy, Warms, asked
<1>7. usage' = usage + 0 /\ outside' = outside + 0
  BY DEF Moves, IInv, TypeOK
<1> QED BY <1>2, <1>4, <1>5, <1>6, <1>7, NothingBilled DEF IInv, Moves

-----------------------------------------------------------------------------
LEMMA Start == Init => IInv
<1> SUFFICES ASSUME Init PROVE IInv
  OBVIOUS
<1>1. \A p \in Requests : Route(p).caches \in Caches
  BY KeysOfRoutes, BucketAssumption DEF Init, Route, Requests, asked
<1>3. TypeOK
  BY <1>1 DEF Init, TypeOK, Fields
<1>4. \A p \in Requests : Awaits(p) = {}
  BY DEF Init, Awaits, Behind
<1>5. Owed = {}
  BY <1>4 DEF Owed
<1>6. PassesBy
  BY DEF Init, PassesBy, AtTheGate
<1> QED BY <1>3, <1>5, <1>6 DEF IInv, BudgetHolds, Init

(* p is somewhere in front of the guard, or refused, and nothing is billed. *)
Waits(p) ==
  /\ DOMAIN r' = Requests /\ DOMAIN r'[p] = Fields /\ r'[p].key \in Caches
  /\ \A q \in Requests \ {p} : r'[q] = r[q]
  /\ r'[p].at \notin Behind \cup {"parse"}
  /\ r'[p].at \in AtTheGate => ~Warms(p)
  /\ UNCHANGED <<case, crowd, usage, books, versions, outside>>

LEMMA WaitingMoves == ASSUME IInv, NEW p \in Requests, Waits(p) PROVE Moves(p)
<1>1. Awaits(p)' = {}
  BY DEF Waits, Awaits
<1> QED BY <1>1 DEF Waits, Moves

LEMMA MemoryHit ==
  ASSUME IInv, NEW p \in Requests, ~Warms(p), _hit_memory(p) PROVE Waits(p)
<1>2. CASE Refused(p)
  BY <1>2 DEF _hit_memory, Refused, Waits, IInv, TypeOK, Fields, Behind, money, ledgers
<1>3. CASE r' = [r EXCEPT ![p].at = "guard", ![p].t = T(p), ![p].hit = TRUE]
  BY <1>3 DEF _hit_memory, Waits, IInv, TypeOK, Fields, Behind, money, ledgers
<1> QED BY <1>2, <1>3 DEF _hit_memory

LEMMA LimiterMoves ==
  ASSUME IInv, NEW p \in Requests,
         \/ Hit(p) \/ _client(p) \/ Count(p) \/ Oldest(p) \/ Add(p) \/ Expire(p) \/ RedisRaises(p)
  PROVE  Waits(p)
<1> USE DEF Waits, Goes, Refused, IInv, TypeOK, Fields, Behind, AtTheGate, PassesBy, money, ledgers
<1>0. ~Warms(p)
  BY DEF Hit, _client, Count, Oldest, Add, Expire, RedisRaises
<1>1. CASE _hit_memory(p)
  BY <1>0, <1>1, MemoryHit
<1>2. CASE Hit(p) /\ ~_hit_memory(p)
  BY <1>0, <1>2 DEF Hit, stores
<1>3. CASE _client(p) /\ ~_hit_memory(p)
  BY <1>0, <1>3 DEF _client
<1>4. CASE Count(p)
  BY <1>0, <1>4 DEF Count
<1>5. CASE Oldest(p)
  BY <1>0, <1>5 DEF Oldest
<1>6. CASE Add(p)
  BY <1>0, <1>6 DEF Add
<1>7. CASE Expire(p)
  BY <1>0, <1>7 DEF Expire
<1> QED BY <1>1, <1>2, <1>3, <1>4, <1>5, <1>6, <1>7 DEF RedisRaises

-----------------------------------------------------------------------------
(* Behind the guard a step lets a request go on, and what it owes with it. *)
LEMMA AnswerMoves ==
  ASSUME IInv, NEW p \in Requests,
         Unguarded(p) \/ Check(p) \/ allow(p) \/ get(p) \/ Call(p) \/ Parse(p) \/ Streamed(p)
  PROVE  Moves(p)
<1> USE DEF Moves, Awaits, Goes, Refused, Ends, Without, IInv, TypeOK, Fields, Behind, AtTheGate,
            money, ledgers, Warms
<1>0. asked' = asked /\ Requests' = Requests /\ Guarded(p)' = Guarded(p)
  BY DEF asked, Requests, Unguarded, Check, allow, get, Call, Parse, Streamed, Guarded, Route
<1>7. CASE Unguarded(p)
  BY <1>0, <1>7, GuardsOfRoutes DEF Unguarded
<1>1. CASE Check(p)
  BY <1>0, <1>1 DEF Check, Onward
<1>2. CASE allow(p)
  BY <1>0, <1>2 DEF allow
<1>3. CASE get(p)
  BY <1>0, <1>3 DEF get, Caches
<1>4. CASE Call(p)
  BY <1>0, <1>4 DEF Call, Caches
<1>5. CASE Parse(p)
  BY <1>0, <1>5 DEF Parse, Caches
<1>6. CASE Streamed(p)
  BY <1>0, <1>6 DEF Streamed
<1> QED BY <1>1, <1>2, <1>3, <1>4, <1>5, <1>6, <1>7

(* A call that is billed is owed no more, if it was behind the guard; else *)
(* it counts among what is billed outside.                                 *)
LEMMA TrackKeeps == ASSUME IInv, NEW p \in Requests, Track(p) PROVE IInv'
<1> DEFINE bill == <<p, r[p].key>>
<1>1. /\ case' = case /\ crowd' = crowd /\ books' = books /\ versions' = versions
      /\ Requests' = Requests /\ asked' = asked /\ Guarded(p)' = Guarded(p)
  BY DEF Track, Requests, asked, Guarded, Route
<1>2. /\ DOMAIN r' = Requests /\ DOMAIN r'[p] = Fields
      /\ r'[p].key = r[p].key /\ r'[p].at \in {"parse", "commit"} /\ r[p].at = "track"
      /\ \A q \in Requests \ {p} : r'[q] = r[q]
  BY DEF Track, Goes, IInv, TypeOK, Fields
<1>3. PICK n \in {0, 1} : Bills(p, n)
  BY DEF Track
<1>4. usage' = usage + n /\ outside' = IF Guarded(p) THEN outside ELSE outside + n
  BY <1>3 DEF Bills
<1>5. TypeOK'
  BY <1>1, <1>2, <1>4 DEF IInv, TypeOK
<1>6. Awaits(p)' \subseteq Awaits(p) /\ (Guarded(p) => r[p].key \notin Awaits(p)')
  BY <1>1, <1>2 DEF Awaits, Behind, Warms
<1>7. Owed' \subseteq Owed
  BY <1>1, <1>2, <1>6, OwesNoMore
<1>8. PassesBy'
  BY <1>1, <1>2 DEF IInv, PassesBy, Warms, AtTheGate
<1>9. versions' <= books'
  BY <1>1 DEF IInv, BudgetHolds
<1>10. CASE ~Guarded(p)
  <2>1. n \in Nat /\ usage' = usage + n /\ outside' = outside + n
    BY <1>4, <1>10
  <2> QED BY <1>1, <1>5, <1>7, <1>8, <1>9, <2>1, NothingBilled DEF IInv
<1>11. CASE Guarded(p)
  <2>1. bill \in Owed
    BY <1>2, <1>11, OwedMembers DEF Awaits, Behind
  <2>2. bill \notin Owed'
    BY <1>1, <1>6, <1>11 DEF Owed
  <2>3. Cardinality(Owed') + 1 <= Cardinality(Owed) /\ Cardinality(Owed') \in Nat /\ Cardinality(Owed) \in Nat
    <3>1. IsFiniteSet(Owed) /\ Cardinality(Owed) \in Nat
      BY OwedIsFinite DEF IInv
    <3>2. Cardinality(Owed \ {bill}) = Cardinality(Owed) - 1 /\ IsFiniteSet(Owed \ {bill})
      BY <2>1, <3>1, FS_RemoveElement
    <3>3. Owed' \in SUBSET (Owed \ {bill})
      BY <1>7, <2>2
    <3> QED BY <3>1, <3>2, <3>3, FS_Subset, FS_CardinalityType
  <2>4. Budget' = Budget /\ Budget \in Nat
    BY <1>1, CasesAssumption DEF Budget, IInv, TypeOK
  <2>5. usage' \in {usage, usage + 1} /\ outside' = outside
    BY <1>4, <1>11 DEF IInv, TypeOK
  <2> QED BY <1>1, <1>5, <1>8, <1>9, <2>1, <2>3, <2>4, <2>5 DEF IInv, BudgetHolds, TypeOK
<1> QED BY <1>10, <1>11

(* The version and the row of a request are committed together.            *)
LEMMA CommitKeeps == ASSUME IInv, NEW p \in Requests, Commit(p) PROVE IInv'
<1> USE DEF Goes, IInv, TypeOK, Fields, Behind
<1>1. /\ case' = case /\ crowd' = crowd /\ Requests' = Requests /\ asked' = asked
      /\ Guarded(p)' = Guarded(p)
  BY DEF Commit, Requests, asked, Guarded, Route
<1>2. /\ DOMAIN r' = Requests /\ DOMAIN r'[p] = Fields /\ r'[p].key = r[p].key /\ r'[p].at = "done"
      /\ \A q \in Requests \ {p} : r'[q] = r[q]
  BY DEF Commit
<1>3. \E n \in Nat : usage' = usage + n /\ outside' = outside + n
  BY GuardsOfRoutes DEF Commit, Bills
<1>4. versions' <= books' /\ versions' \in Nat /\ books' \in Nat
  <2>1. asked[p].route = "resume_rewrite" => ~Uploads(p)
    BY DEF Uploads
  <2> QED BY <2>1 DEF Commit, BudgetHolds
<1>5. TypeOK'
  BY <1>1, <1>2, <1>3, <1>4
<1>6. Awaits(p)' \subseteq Awaits(p)
  BY <1>1, <1>2 DEF Awaits
<1>7. Owed' \subseteq Owed
  BY <1>1, <1>2, <1>6, OwesNoMore
<1>8. PassesBy'
  BY <1>1, <1>2 DEF PassesBy, Warms, AtTheGate
<1> HIDE DEF TypeOK
<1> QED BY <1>1, <1>3, <1>4, <1>5, <1>7, <1>8, NothingBilled

-----------------------------------------------------------------------------
(* The guard lets a request through while something is left, and whatever  *)
(* it will be owed is in the crowd from then on.                           *)
LEMMA LetThrough ==
  ASSUME IInv, TypeOK', PassesBy', ~OverBudget, case' = case, UNCHANGED ledgers, NEW n \in Nat, Crowds(n),
         IsFiniteSet(Owed'), Cardinality(Owed') <= Cardinality(Owed) + n
  PROVE  IInv'
<1>1. Cardinality(Owed) \in Nat /\ Cardinality(Owed') \in Nat
  BY OwedIsFinite, FS_CardinalityType DEF IInv
<1>2. crowd' >= Cardinality(Owed) + n
  <2>1. Cardinality(Owed) + n \in Nat
    BY <1>1
  <2> QED BY <2>1, MaxOfTwo DEF Crowds, IInv, TypeOK
<1>3. Budget' = Budget /\ Budget \in Nat
  BY CasesAssumption DEF Budget, IInv, TypeOK
<1>4. usage - outside + Cardinality(Owed') < Budget + crowd'
  <2>1. crowd' \in Nat
    BY DEF TypeOK
  <2> QED BY <1>1, <1>2, <1>3, <2>1 DEF OverBudget, IInv, TypeOK
<1>5. usage' = usage /\ outside' = outside /\ versions' = versions /\ books' = books
  BY DEF ledgers
<1>6. usage' - outside' + Cardinality(Owed') < Budget' + crowd'
  BY <1>3, <1>4, <1>5
<1>7. BudgetHolds'
  BY <1>5, <1>6 DEF IInv, BudgetHolds
<1> QED BY <1>7 DEF IInv

(* Owed grows by the calls of the request that is let through.             *)
LEMMA OwesAtMost ==
  ASSUME case' = case, NEW p \in Requests, \A q \in Requests \ {p} : r'[q] = r[q],
         NEW K, Awaits(p)' \subseteq K
  PROVE  \A x \in Owed' : x \in Owed \/ \E k \in K : x = <<p, k>>
<1>1. Requests' = Requests /\ asked' = asked
  BY DEF Requests, asked
<1>2. \A q \in Requests \ {p} : Awaits(q)' = Awaits(q)
  BY <1>1 DEF Awaits, Warms, Guarded, Route
<1> QED BY <1>1, <1>2 DEF Owed

(* r moves p to a place behind the check, and K is what it is owed there.  *)
Enters(p, at, key) ==
  /\ case' = case /\ UNCHANGED ledgers
  /\ DOMAIN r' = Requests /\ DOMAIN r'[p] = Fields /\ r'[p].key = key /\ r'[p].at = at
  /\ \A q \in Requests \ {p} : r'[q] = r[q]

LEMMA EntersTyped ==
  ASSUME IInv, NEW p \in Requests, NEW at, at \notin AtTheGate, NEW key \in Caches, NEW n \in Nat,
         Enters(p, at, key), Crowds(n)
  PROVE  TypeOK' /\ PassesBy' /\ Requests' = Requests /\ asked' = asked
<1>1. Requests' = Requests /\ asked' = asked
  BY DEF Enters, Requests, asked
<1>2. crowd' \in Nat
  <2>1. Cardinality(Owed) + n \in Nat
    BY OwedIsFinite DEF IInv
  <2> QED BY <2>1, MaxOfTwo DEF Crowds, IInv, TypeOK
<1>3. TypeOK'
  BY <1>1, <1>2 DEF Enters, IInv, TypeOK, ledgers
<1>4. PassesBy'
  BY <1>1 DEF Enters, IInv, PassesBy, Warms
<1> QED BY <1>1, <1>3, <1>4

LEMMA GuardKeeps == ASSUME IInv, NEW p \in Requests, ai_guard(p) PROVE IInv'
<1>1. CASE OverBudget
  <2>1. Waits(p)
    BY <1>1 DEF ai_guard, is_over_budget, Waits, Behind, AtTheGate, Refused, IInv, TypeOK, Fields, ledgers
  <2> QED BY <2>1, WaitingMoves, MovesOn
<1>2. CASE ~OverBudget
  <2>1. Enters(p, "check", r[p].key) /\ Crowds(1) /\ ~Warms(p)
    BY <1>2 DEF ai_guard, is_over_budget, Enters, Goes, IInv, TypeOK, Fields, PassesBy, AtTheGate
  <2>2. TypeOK' /\ PassesBy' /\ Requests' = Requests /\ asked' = asked
    BY <2>1, EntersTyped DEF AtTheGate, IInv, TypeOK
  <2>3. Awaits(p)' \subseteq {r[p].key}
    BY <2>1, <2>2 DEF Awaits, Warms, Enters
  <2>4. Owed' \in SUBSET (Owed \cup {<<p, r[p].key>>})
    BY <2>1, <2>3, OwesAtMost DEF Enters
  <2>5. IsFiniteSet(Owed') /\ Cardinality(Owed') <= Cardinality(Owed) + 1
    <3>1. IsFiniteSet(Owed) /\ Cardinality(Owed) \in Nat
      BY OwedIsFinite DEF IInv
    <3>2. /\ IsFiniteSet(Owed \cup {<<p, r[p].key>>})
          /\ Cardinality(Owed \cup {<<p, r[p].key>>}) <= Cardinality(Owed) + 1
          /\ Cardinality(Owed \cup {<<p, r[p].key>>}) \in Nat
      BY <3>1, AddOne
    <3> QED BY <3>1, <3>2, <2>4, FS_Subset, FS_CardinalityType
  <2> QED BY <1>2, <2>1, <2>2, <2>5, LetThrough DEF Enters
<1> QED BY <1>1, <1>2

(* The warmer is let through with two calls.                               *)
LEMMA WarmerKeeps == ASSUME IInv, NEW p \in Requests, warm_user_caches(p) PROVE IInv'
<1>1. CASE OverBudget
  <2>1. Waits(p)
    BY <1>1 DEF warm_user_caches, is_over_budget, Waits, Behind, AtTheGate, Refused, IInv, TypeOK, Fields, ledgers
  <2> QED BY <2>1, WaitingMoves, MovesOn
<1>2. CASE ~OverBudget
  <2> DEFINE K == {"brief", "salary"}  Two == (Owed \cup {<<p, "brief">>}) \cup {<<p, "salary">>}
  <2>1. Enters(p, "cache", "brief") /\ Crowds(2)
    BY <1>2 DEF warm_user_caches, is_over_budget, Enters, IInv, TypeOK, Fields
  <2>2. TypeOK' /\ PassesBy' /\ Requests' = Requests /\ asked' = asked
    BY <2>1, EntersTyped DEF AtTheGate, Caches
  <2>3. Awaits(p)' \subseteq K
    BY <2>1, <2>2 DEF Awaits, Enters
  <2>4. Owed' \in SUBSET Two
    BY <2>1, <2>3, OwesAtMost DEF Enters
  <2>5. IsFiniteSet(Owed') /\ Cardinality(Owed') <= Cardinality(Owed) + 2
    <3>1. IsFiniteSet(Owed) /\ Cardinality(Owed) \in Nat
      BY OwedIsFinite DEF IInv
    <3>2. /\ IsFiniteSet(Owed \cup {<<p, "brief">>})
          /\ Cardinality(Owed \cup {<<p, "brief">>}) <= Cardinality(Owed) + 1
          /\ Cardinality(Owed \cup {<<p, "brief">>}) \in Nat
      BY <3>1, AddOne
    <3>3. /\ IsFiniteSet(Two) /\ Cardinality(Two) \in Nat
          /\ Cardinality(Two) <= Cardinality(Owed \cup {<<p, "brief">>}) + 1
      BY <3>2, AddOne
    <3> QED BY <3>1, <3>2, <3>3, <2>4, FS_Subset, FS_CardinalityType
  <2> QED BY <1>2, <2>1, <2>2, <2>5, LetThrough DEF Enters
<1> QED BY <1>1, <1>2

-----------------------------------------------------------------------------
LEMMA NextKeeps == IInv /\ [Next]_vars => IInv'
<1> SUFFICES ASSUME IInv, [Next]_vars PROVE IInv'
  OBVIOUS
<1>1. CASE Tick \/ RedisTurns \/ UNCHANGED vars
  <2>1. UNCHANGED <<case, r, usage, books, versions, crowd, outside>>
    BY <1>1 DEF Tick, RedisTurns, vars, money, ledgers
  <2>2. Owed' = Owed /\ Budget' = Budget
    BY <2>1 DEF Owed, Awaits, Requests, asked, Warms, Guarded, Route, Budget
  <2> QED BY <2>1, <2>2 DEF IInv, TypeOK, PassesBy, BudgetHolds, Requests, asked, Warms
<1>2. ASSUME NEW p \in Requests, Step(p) PROVE IInv'
  <2>1. CASE Hit(p) \/ _client(p) \/ Count(p) \/ Oldest(p) \/ Add(p) \/ Expire(p) \/ RedisRaises(p)
    BY <2>1, LimiterMoves, WaitingMoves, MovesOn
  <2>2. CASE Unguarded(p) \/ Check(p) \/ allow(p) \/ get(p) \/ Call(p) \/ Parse(p) \/ Streamed(p)
    BY <2>2, AnswerMoves, MovesOn
  <2> QED BY <1>2, <2>1, <2>2, GuardKeeps, TrackKeeps, CommitKeeps, WarmerKeeps DEF Step
<1> QED BY <1>1, <1>2 DEF Next

(* BudgetHolds, for any number of requests, processes and cases: what a    *)
(* user is billed behind the check exceeds the budget by no more than was  *)
(* owed there at once (ai_features.py:63, cache_warmer.py:38), whatever    *)
(* the routes without a check bill meanwhile.                              *)
THEOREM BudgetAlwaysHolds == Spec => []BudgetHolds
<1>1. IInv => BudgetHolds
  BY DEF IInv
<1> QED BY Start, NextKeeps, <1>1, PTL DEF Spec

-----------------------------------------------------------------------------
(* The limits.  A request's time is taken when it comes to the limiter and *)
(* stays; a member of the sorted set is the hit of a request that has      *)
(* counted; and whom the mentor's limiter let through within the window    *)
(* is still among its hits.                                                *)
Uncounted == {"arrived", "ping", "count", "oldest", "add"}
Clocked(x) ==
  /\ x.t \in Nat \cup {None}
  /\ x.hit \/ x.at \in {"ping", "count", "oldest", "add", "expire"} => x.t \in Nat
  /\ x.at \in Uncounted => ~x.hit
Clocks == \A p \in Requests : Clocked(r[p])
Hitters ==
  /\ DOMAIN redis = {"up", "turns", "hits", "expires"}
  /\ \A h \in redis.hits : \E q \in Requests : r[q].hit /\ h = <<r[q].t, q>>
MentorsHits ==
  /\ now \in Nat /\ DOMAIN mentor = Workers
  /\ \A w \in Workers : \A q \in mentor[w] : q \in Requests /\ r[q].capped \in Nat
  /\ \A q \in Requests : r[q].capped # None =>
       r[q].capped \in 0..now /\ (now - r[q].capped < Window => q \in mentor[W(q)])
Windows == \A w \in Workers : \A t \in Nat : Cardinality(Admitted(w, t)) <= MaxCalls
AllFull == \A p \in Requests : r[p].at = "oldest" => Full(p)

Shape == DOMAIN r = Requests /\ (\A p \in Requests : DOMAIN r[p] = Fields) /\ case \in Cases
LInv == Shape /\ Clocks /\ Hitters /\ AllFull /\ MentorsHits /\ Windows

LEMMA CaseFacts ==
  ASSUME case \in Cases
  PROVE  /\ IsFiniteSet(Requests) /\ MaxCalls \in Nat \ {0}
         /\ \A p \in Requests : W(p) \in Workers
  BY CasesAssumption DEF Requests, asked, MaxCalls, W

LEMMA SubsetCard ==
  ASSUME NEW S, IsFiniteSet(S), NEW U \in SUBSET S
  PROVE  /\ IsFiniteSet(U) /\ Cardinality(U) <= Cardinality(S)
         /\ Cardinality(U) \in Nat /\ Cardinality(S) \in Nat
  BY FS_Subset, FS_CardinalityType

LEMMA LimitsStart == Init => LInv
<1> SUFFICES ASSUME Init PROVE LInv
  OBVIOUS
<1>1. Shape
  BY DEF Init, Shape, Fields
<1>2. Clocks /\ Hitters /\ AllFull
  BY DEF Init, Clocks, Clocked, Hitters, AllFull
<1>3. MentorsHits
  BY DEF Init, MentorsHits
<1>4. \A w, t : Admitted(w, t) = {}
  BY DEF Init, Admitted
<1>5. Windows
  BY <1>1, <1>4, CaseFacts, FS_EmptySet DEF Windows, Shape
<1> QED BY <1>1, <1>2, <1>3, <1>5 DEF LInv

(* A full window stays full: nobody takes back a hit.                      *)
LEMMA StaysFull ==
  ASSUME Shape, case' = case, NEW p \in Requests, Full(p), r'[p].t = r[p].t,
         \A q \in Requests : r[q].hit => r'[q].hit /\ r'[q].t = r[q].t
  PROVE  Full(p)'
<1> DEFINE others == {q \in Requests \ {p} : r[q].hit /\ r[q].t > r[p].t - Window}
           later == {q \in Requests \ {p} : r'[q].hit /\ r'[q].t > r'[p].t - Window}
<1>1. Requests' = Requests /\ MaxCalls' = MaxCalls
  BY DEF Requests, asked, MaxCalls
<1>2. others \in SUBSET later
  OBVIOUS
<1>3. IsFiniteSet(later)
  BY CaseFacts, FS_Subset DEF Shape
<1>4. Cardinality(others) <= Cardinality(later) /\ Cardinality(others) \in Nat /\ Cardinality(later) \in Nat
  BY <1>2, <1>3, SubsetCard
<1>5. Cardinality(others) >= MaxCalls /\ MaxCalls \in Nat
  BY CaseFacts DEF Full, Shape
<1>6. Cardinality(later) >= MaxCalls
  BY <1>4, <1>5
<1> QED BY <1>1, <1>6 DEF Full

(* Who finds the window full in Redis was preceded by as many requests:    *)
(* the members of the set are hits of different requests.                  *)
LEMMA FullWhenCounted ==
  ASSUME LInv, NEW p \in Requests, r[p].at = "count",
         NEW hits \in SUBSET redis.hits, \A h \in hits : h[1] > T(p) - Window,
         Cardinality(hits) >= MaxCalls
  PROVE  Full(p)
<1> DEFINE others == {q \in Requests \ {p} : r[q].hit /\ r[q].t > r[p].t - Window}
           of == [h \in hits |-> h[2]]
<1>1. T(p) = r[p].t /\ ~r[p].hit /\ r[p].t \in Nat
  BY NumbersAssumption DEF LInv, Clocks, Clocked, Uncounted, T
<1>2. \A h \in hits : h[2] \in Requests /\ r[h[2]].hit /\ h = <<r[h[2]].t, h[2]>>
  BY DEF LInv, Hitters
<1>3. \A h \in hits : h[2] \in others
  BY <1>1, <1>2
<1>4. IsFiniteSet(others) /\ MaxCalls \in Nat
  BY CaseFacts, FS_Subset DEF LInv, Shape
<1>5. of \in Injection(hits, others)
  <2>1. of \in [hits -> others]
    BY <1>3
  <2>2. \A a, b \in hits : of[a] = of[b] => a = b
    BY <1>2
  <2> QED BY <2>1, <2>2 DEF Injection, IsInjective
<1>6. IsFiniteSet(hits) /\ Cardinality(hits) <= Cardinality(others)
  BY <1>4, <1>5, FS_Injection
<1>7. Cardinality(hits) \in Nat /\ Cardinality(others) \in Nat
  BY <1>4, <1>6, FS_CardinalityType
<1> QED BY <1>4, <1>6, <1>7 DEF Full

(* A step of one request that the mentor's limiter has no part in.         *)
Limited(p) ==
  /\ case' = case /\ now' = now /\ mentor' = mentor
  /\ DOMAIN r' = Requests /\ DOMAIN r'[p] = Fields /\ \A q \in Requests \ {p} : r'[q] = r[q]
  /\ r'[p].capped = r[p].capped
  /\ r[p].hit => r'[p].hit /\ r'[p].t = r[p].t
  /\ Clocked(r'[p]) /\ DOMAIN redis' = DOMAIN redis

LEMMA LimitedKeeps ==
  ASSUME LInv, NEW p \in Requests, Limited(p),
         \A h \in redis'.hits : h \in redis.hits \/ (r'[p].hit /\ h = <<r'[p].t, p>>),
         r'[p].at = "oldest" => Full(p)'
  PROVE  LInv'
<1>1. Requests' = Requests /\ MaxCalls' = MaxCalls /\ \A q : W(q)' = W(q)
  BY DEF Limited, Requests, asked, MaxCalls, W
<1>2. Shape' /\ Clocks'
  BY <1>1 DEF LInv, Shape, Clocks, Limited
<1>3. \A q \in Requests : r[q].hit => r'[q].hit /\ r'[q].t = r[q].t
  BY DEF Limited
<1>4. Hitters'
  BY <1>1, <1>3 DEF LInv, Hitters, Limited
<1>5. AllFull'
  <2>1. ASSUME NEW q \in Requests, r'[q].at = "oldest", q # p PROVE Full(q)'
    BY <1>3, <2>1, StaysFull DEF LInv, AllFull, Limited
  <2> QED BY <1>1, <2>1 DEF AllFull
<1>6. \A q \in Requests : r'[q].capped = r[q].capped
  BY DEF Limited
<1>7. MentorsHits'
  BY <1>1, <1>6 DEF LInv, MentorsHits, Limited
<1>8. \A w, t : Admitted(w, t)' = Admitted(w, t)
  BY <1>1, <1>6 DEF Admitted
<1>9. Windows'
  BY <1>1, <1>8 DEF LInv, Windows
<1> QED BY <1>2, <1>4, <1>5, <1>7, <1>9 DEF LInv

(* What a step leaves alone, and where it moves p.                         *)
Stays(p) == r'[p].t = r[p].t /\ r'[p].hit = r[p].hit /\ r'[p].capped = r[p].capped
Alone(p) ==
  /\ case' = case /\ now' = now /\ mentor' = mentor
  /\ DOMAIN r' = Requests /\ DOMAIN r'[p] = Fields /\ \A q \in Requests \ {p} : r'[q] = r[q]

(* Behind the limiter nothing of it changes.                               *)
LEMMA PastLimiter ==
  ASSUME LInv, NEW p \in Requests, Alone(p), Stays(p), redis' = redis,
         r'[p].at \notin Uncounted \cup {"expire"}
  PROVE  LInv'
<1>1. Clocked(r'[p])
  BY DEF LInv, Clocks, Clocked, Stays, Uncounted
<1>2. Limited(p)
  BY <1>1 DEF Limited, Alone, Stays
<1> QED BY <1>2, LimitedKeeps DEF Uncounted

LEMMA MemoryLimits == ASSUME LInv, NEW p \in Requests, _hit_memory(p) PROVE LInv'
<1> USE DEF LInv, Shape, Fields
<1>1. now \in Nat /\ Clocked(r[p])
  BY DEF MentorsHits, Clocks
<1>2. T(p) \in Nat /\ (r[p].t \in Nat => T(p) = r[p].t)
  BY <1>1, NumbersAssumption DEF T, Clocked
<1>3. Alone(p) /\ redis' = redis
  BY DEF Alone, _hit_memory, Refused
<1>4. CASE Refused(p)
  BY <1>3, <1>4, PastLimiter DEF Refused, Stays, Uncounted
<1>5. CASE r' = [r EXCEPT ![p].at = "guard", ![p].t = T(p), ![p].hit = TRUE]
  <2>1. r'[p].at = "guard" /\ r'[p].t = T(p) /\ r'[p].hit /\ r'[p].capped = r[p].capped
    BY <1>5
  <2>2. Clocked(r'[p])
    BY <1>2, <2>1 DEF Clocked, Uncounted
  <2>3. Limited(p)
    BY <1>1, <1>2, <1>3, <2>1, <2>2 DEF Limited, Alone, Clocked
  <2> QED BY <1>3, <2>1, <2>3, LimitedKeeps
<1> QED BY <1>4, <1>5 DEF _hit_memory

(* p goes on to a command of Redis, with its clock.                        *)
LEMMA ToRedis ==
  ASSUME LInv, NEW p \in Requests, Alone(p), redis' = redis, r[p].at \in {"arrived", "ping"},
         r'[p].at \in {"ping", "count"}, r'[p].t \in Nat, ~r'[p].hit, r'[p].capped = r[p].capped
  PROVE  LInv'
<1>1. Clocked(r'[p])
  BY DEF Clocked
<1>2. ~r[p].hit
  BY DEF LInv, Clocks, Clocked, Uncounted
<1> QED BY <1>1, <1>2, LimitedKeeps DEF Limited, Alone

LEMMA HitLimits == ASSUME LInv, NEW p \in Requests, Hit(p) PROVE LInv'
<1> USE DEF LInv, Shape, Fields
<1>1. now \in Nat /\ Clocked(r[p]) /\ r[p].at = "arrived" /\ ~r[p].hit
  BY DEF MentorsHits, Clocks, Clocked, Hit, Uncounted
<1>2. CASE _hit_memory(p)
  BY <1>2, MemoryLimits
<1>3. CASE ~_hit_memory(p)
  <2>1. Alone(p) /\ redis' = redis
    BY <1>3 DEF Hit, Alone, Goes, stores
  <2>2. \/ r'[p].at = "guard" /\ Stays(p)
        \/ /\ r'[p].at \in {"ping", "count"} /\ r'[p].t = now
           /\ r'[p].hit = r[p].hit /\ r'[p].capped = r[p].capped
    BY <1>3 DEF Hit, Goes, Stays
  <2> QED BY <1>1, <2>1, <2>2, PastLimiter, ToRedis DEF Uncounted
<1> QED BY <1>2, <1>3

LEMMA ClientLimits == ASSUME LInv, NEW p \in Requests, _client(p) PROVE LInv'
<1> USE DEF LInv, Shape, Fields
<1>1. Clocked(r[p]) /\ r[p].at = "ping" /\ ~r[p].hit /\ r[p].t \in Nat
  BY DEF Clocks, Clocked, _client, Uncounted
<1>2. CASE _hit_memory(p)
  BY <1>2, MemoryLimits
<1>3. CASE ~_hit_memory(p)
  <2>1. Alone(p) /\ redis' = redis /\ r'[p].at = "count" /\ Stays(p)
    BY <1>3 DEF _client, Alone, Goes, Stays
  <2> QED BY <1>1, <2>1, ToRedis DEF Stays
<1> QED BY <1>2, <1>3

(* Redis only forgets hits, apart from the one that is added.              *)
LEMMA CountLimits == ASSUME LInv, NEW p \in Requests, Count(p) PROVE LInv'
<1> USE DEF LInv, Shape, Fields
<1> DEFINE hits == {h \in Hits : h[1] > T(p) - Window}
<1>1. Clocked(r[p]) /\ r[p].at = "count" /\ ~r[p].hit /\ r[p].t \in Nat
  BY DEF Clocks, Clocked, Count, Uncounted
<1>2. Alone(p) /\ Stays(p) /\ r'[p].at = IF Cardinality(hits) >= MaxCalls THEN "oldest" ELSE "add"
  BY DEF Count, Goes, Alone, Stays
<1>3. hits \in SUBSET redis.hits
  BY DEF Hits
<1>4. redis'.hits \subseteq redis.hits
  <2>1. redis' = [redis EXCEPT !.hits = hits, !.expires = IF hits = {} THEN None ELSE @]
    BY DEF Count
  <2> HIDE DEF hits
  <2> QED BY <1>3, <2>1
<1>5. Limited(p)
  <2>1. Clocked(r'[p])
    BY <1>1, <1>2 DEF Clocked, Stays
  <2>2. DOMAIN redis' = DOMAIN redis
    BY DEF Count
  <2> QED BY <1>1, <1>2, <2>1, <2>2 DEF Limited, Alone, Stays
<1>6. r'[p].at = "oldest" => Full(p)'
  <2> SUFFICES ASSUME r'[p].at = "oldest" PROVE Full(p)'
    OBVIOUS
  <2>1. Full(p)
    <3>1. \A h \in hits : h[1] > T(p) - Window
      OBVIOUS
    <3>2. Cardinality(hits) >= MaxCalls
      BY <1>2
    <3> HIDE DEF hits
    <3> QED BY <1>1, <1>3, <3>1, <3>2, FullWhenCounted
  <2> QED BY <1>2, <2>1, StaysFull DEF Alone, Stays
<1> HIDE DEF LInv
<1> QED BY <1>4, <1>5, <1>6, LimitedKeeps

LEMMA AddLimits == ASSUME LInv, NEW p \in Requests, Add(p) PROVE LInv'
<1> USE DEF LInv, Shape, Fields
<1>1. Clocked(r[p]) /\ r[p].at = "add" /\ ~r[p].hit /\ r[p].t \in Nat
  BY DEF Clocks, Clocked, Add, Uncounted
<1>2. Alone(p) /\ r'[p].at = "expire" /\ r'[p].hit /\ r'[p].t = r[p].t /\ r'[p].capped = r[p].capped
  BY DEF Add, Alone
<1>3. T(p) = r[p].t
  BY <1>1, NumbersAssumption DEF T
<1>4. redis'.hits \subseteq redis.hits \cup {<<r[p].t, p>>}
  <2> DEFINE hits == Hits \cup {<<T(p), p>>}
  <2>1. redis' = [redis EXCEPT !.hits = hits, !.expires = IF Hits = {} THEN None ELSE @]
    BY DEF Add
  <2>2. hits \subseteq redis.hits \cup {<<r[p].t, p>>}
    BY <1>3 DEF Hits
  <2> HIDE DEF hits
  <2> QED BY <2>1, <2>2
<1>5. Limited(p)
  <2>1. Clocked(r'[p])
    BY <1>1, <1>2 DEF Clocked, Uncounted
  <2>2. DOMAIN redis' = DOMAIN redis
    BY DEF Add
  <2> QED BY <1>1, <1>2, <2>1, <2>2 DEF Limited, Alone
<1> HIDE DEF LInv
<1> QED BY <1>2, <1>4, <1>5, LimitedKeeps

LEMMA ExpireLimits == ASSUME LInv, NEW p \in Requests, Expire(p) PROVE LInv'
<1> USE DEF LInv, Shape, Fields
<1>1. Clocked(r[p]) /\ r[p].at = "expire" /\ r[p].t \in Nat
  BY DEF Clocks, Clocked, Expire
<1>2. Alone(p) /\ r'[p].at = "guard" /\ Stays(p)
  BY DEF Expire, Goes, Alone, Stays
<1>3. redis'.hits \subseteq redis.hits
  <2>1. redis' = [redis EXCEPT !.hits = Hits, !.expires = IF Hits = {} THEN None ELSE now + Window]
    BY DEF Expire
  <2> QED BY <2>1 DEF Hits
<1>4. Limited(p)
  <2>1. Clocked(r'[p])
    BY <1>1, <1>2 DEF Clocked, Uncounted, Stays
  <2>2. DOMAIN redis' = DOMAIN redis
    BY DEF Expire
  <2> QED BY <1>1, <1>2, <2>1, <2>2 DEF Limited, Alone, Stays
<1> HIDE DEF LInv
<1> QED BY <1>2, <1>3, <1>4, LimitedKeeps

-----------------------------------------------------------------------------
(* Behind the guard.                                                       *)
LEMMA AnswerLimits ==
  ASSUME LInv, NEW p \in Requests,
         \/ Oldest(p) \/ ai_guard(p) \/ Unguarded(p) \/ Check(p) \/ get(p) \/ Call(p) \/ Track(p) \/ Parse(p) \/ Commit(p)
         \/ Streamed(p) \/ warm_user_caches(p)
  PROVE  LInv'
<1> USE DEF LInv, Shape, Fields, Alone, Stays, Uncounted, Goes, Refused, Ends, stores, money, ledgers
<1>1. CASE Oldest(p) \/ ai_guard(p) \/ Unguarded(p)
  BY <1>1, PastLimiter DEF Oldest, ai_guard, Unguarded
<1>2. CASE Check(p)
  BY <1>2, PastLimiter DEF Check, Onward
<1>3. CASE get(p)
  BY <1>3, PastLimiter DEF get
<1>4. CASE Call(p) \/ Track(p)
  BY <1>4, PastLimiter DEF Call, Track, Without
<1>5. CASE Parse(p)
  BY <1>5, PastLimiter DEF Parse, Without
<1>6. CASE Commit(p) \/ Streamed(p)
  BY <1>6, PastLimiter DEF Commit, Streamed
<1>7. CASE warm_user_caches(p)
  BY <1>7, PastLimiter DEF warm_user_caches
<1> QED BY <1>1, <1>2, <1>3, <1>4, <1>5, <1>6, <1>7

(* The mentor's limiter looks and counts in one step: a window that the    *)
(* request falls into holds, apart from it, only what was recent.          *)
LEMMA AllowLimits == ASSUME LInv, NEW p \in Requests, allow(p) PROVE LInv'
<1> USE DEF LInv, Shape, Fields
<1> DEFINE recent == {q \in mentor[W(p)] : now - r[q].capped < Window}
<1>1. W(p) \in Workers /\ MaxCalls \in Nat \ {0} /\ IsFiniteSet(Requests) /\ now \in Nat
      /\ Window \in Nat \ {0}
  BY CaseFacts, NumbersAssumption DEF MentorsHits
<1>2. /\ case' = case /\ now' = now /\ redis' = redis /\ r[p].at = "allow"
      /\ DOMAIN r' = Requests /\ DOMAIN r'[p] = Fields /\ \A q \in Requests \ {p} : r'[q] = r[q]
      /\ r'[p].t = r[p].t /\ r'[p].hit = r[p].hit /\ r'[p].at \in {"refused", "call"}
  BY DEF allow, Refused, stores
<1>3. Requests' = Requests /\ MaxCalls' = MaxCalls /\ \A q : W(q)' = W(q)
  BY <1>2 DEF Requests, asked, MaxCalls, W
<1>4. Shape' /\ Clocks' /\ Hitters' /\ AllFull'
  <2>1. Clocks'
    BY <1>2, <1>3 DEF Clocks, Clocked, Uncounted
  <2>2. Hitters'
    BY <1>2, <1>3 DEF Hitters
  <2>3. AllFull'
    <3>1. ASSUME NEW q \in Requests, r'[q].at = "oldest" PROVE Full(q)'
      BY <1>2, <3>1, StaysFull DEF AllFull
    <3> QED BY <1>3, <3>1 DEF AllFull
  <2> QED BY <1>2, <1>3, <2>1, <2>2, <2>3
<1>5. recent \subseteq mentor[W(p)] /\ recent \subseteq Requests
  BY <1>1 DEF MentorsHits
<1>6. \A q \in Requests : W(q) = W(p) /\ r[q].capped # None /\ now - r[q].capped < Window => q \in recent
  BY DEF MentorsHits
<1>7. CASE Cardinality(recent) >= MaxCalls
  <2>1. mentor' = [mentor EXCEPT ![W(p)] = recent] /\ r'[p].capped = r[p].capped
    BY <1>7 DEF allow, Refused
  <2>2. \A q \in Requests : r'[q].capped = r[q].capped
    BY <1>2, <2>1
  <2>3. MentorsHits'
    <3> HIDE DEF recent
    <3> QED BY <1>1, <1>2, <1>3, <1>5, <1>6, <2>1, <2>2 DEF MentorsHits
  <2>4. \A w, t : Admitted(w, t)' = Admitted(w, t)
    BY <1>3, <2>2 DEF Admitted
  <2>5. Windows'
    BY <1>3, <2>4 DEF Windows
  <2> QED BY <1>4, <2>3, <2>5
<1>8. CASE ~(Cardinality(recent) >= MaxCalls)
  <2>1. mentor' = [mentor EXCEPT ![W(p)] = recent \cup {p}] /\ r'[p].capped = now
    BY <1>8 DEF allow
  <2>2. \A q \in Requests \ {p} : r'[q].capped = r[q].capped
    BY <1>2
  <2>3. MentorsHits'
    <3> HIDE DEF recent
    <3>1. ASSUME NEW w \in Workers, NEW q \in mentor'[w] PROVE q \in Requests /\ r'[q].capped \in Nat
      BY <1>1, <1>2, <1>5, <2>1, <2>2 DEF MentorsHits
    <3>2. ASSUME NEW q \in Requests, r'[q].capped # None
          PROVE  r'[q].capped \in 0..now /\ (now - r'[q].capped < Window => q \in mentor'[W(q)])
      <4>1. CASE q = p
        BY <1>1, <2>1, <4>1 DEF MentorsHits
      <4>2. CASE q # p
        BY <1>1, <1>6, <2>1, <2>2, <3>2, <4>2 DEF MentorsHits
      <4> QED BY <4>1, <4>2
    <3> QED BY <1>1, <1>2, <1>3, <2>1, <3>1, <3>2 DEF MentorsHits
  <2>4. ASSUME NEW w \in Workers, NEW t \in Nat PROVE Cardinality(Admitted(w, t)') <= MaxCalls
    <3>1. CASE p \notin Admitted(w, t)'
      <4>1. Admitted(w, t)' \in SUBSET Admitted(w, t)
        BY <1>3, <2>2, <3>1 DEF Admitted
      <4>2. IsFiniteSet(Admitted(w, t))
        BY <1>1, FS_Subset DEF Admitted
      <4>3. Cardinality(Admitted(w, t)) <= MaxCalls
        BY DEF Windows
      <4> QED BY <1>1, <4>1, <4>2, <4>3, SubsetCard
    <3>2. CASE p \in Admitted(w, t)'
      <4>1. w = W(p) /\ now \in t..(t + Window - 1)
        BY <1>3, <2>1, <3>2 DEF Admitted
      <4>2. ASSUME NEW q \in Admitted(w, t)', q # p PROVE q \in recent
        <5>1. q \in Requests /\ W(q) = W(p) /\ r[q].capped # None /\ r[q].capped \in t..(t + Window - 1)
          BY <1>3, <2>2, <4>1, <4>2 DEF Admitted
        <5>2. now - r[q].capped < Window
          BY <1>1, <4>1, <5>1
        <5> HIDE DEF recent
        <5> QED BY <1>6, <5>1, <5>2
      <4>3. Admitted(w, t)' \in SUBSET (recent \cup {p})
        BY <4>2
      <4>4. IsFiniteSet(recent) /\ Cardinality(recent) \in Nat
        BY <1>1, <1>5, FS_Subset, FS_CardinalityType
      <4> HIDE DEF recent
      <4>5. /\ IsFiniteSet(recent \cup {p}) /\ Cardinality(recent \cup {p}) \in Nat
            /\ Cardinality(recent \cup {p}) <= Cardinality(recent) + 1
        BY <4>4, AddOne
      <4>6. Cardinality(recent \cup {p}) <= MaxCalls
        BY <1>1, <1>8, <4>4, <4>5
      <4> QED BY <1>1, <4>3, <4>5, <4>6, SubsetCard
    <3> QED BY <3>1, <3>2
  <2>5. Windows'
    BY <1>3, <2>4 DEF Windows
  <2> QED BY <1>4, <2>3, <2>5
<1> QED BY <1>7, <1>8

LEMMA LimitsNext == LInv /\ [Next]_vars => LInv'
<1> SUFFICES ASSUME LInv, [Next]_vars PROVE LInv'
  OBVIOUS
<1>1. CASE Tick \/ RedisTurns \/ UNCHANGED vars
  <2>1. case' = case /\ r' = r /\ mentor' = mentor /\ now' \in {now, now + 1}
       /\ redis'.hits = redis.hits
       /\ DOMAIN redis' = DOMAIN redis
    <3>1. CASE RedisTurns
      <4>1. redis' = [redis EXCEPT !.up = ~redis.up, !.turns = redis.turns + 1]
        BY <3>1 DEF RedisTurns
      <4>2. redis'.hits = redis.hits /\ DOMAIN redis' = DOMAIN redis
        BY <4>1 DEF LInv, Hitters
      <4> QED BY <3>1, <4>2 DEF RedisTurns
    <3> QED BY <1>1, <3>1 DEF Tick, vars, stores
  <2>2. Requests' = Requests /\ MaxCalls' = MaxCalls /\ \A q : W(q)' = W(q)
    BY <2>1 DEF Requests, asked, MaxCalls, W
  <2>3. \A p : Full(p)' = Full(p)
    BY <2>1, <2>2 DEF Full
  <2>4. \A w, t : Admitted(w, t)' = Admitted(w, t)
    BY <2>1, <2>2 DEF Admitted
  <2>5. Shape' /\ Clocks' /\ Hitters' /\ AllFull' /\ Windows'
    BY <2>1, <2>2, <2>3, <2>4 DEF LInv, Shape, Clocks, Hitters, AllFull, Windows
  <2>6. MentorsHits'
    <3>1. now \in Nat /\ Window \in Nat
      BY NumbersAssumption DEF LInv, MentorsHits
    <3>2. ASSUME NEW q \in Requests, r[q].capped # None
          PROVE  r[q].capped \in 0..now' /\ (now' - r[q].capped < Window => q \in mentor[W(q)])
      <4>1. r[q].capped \in 0..now /\ (now - r[q].capped < Window => q \in mentor[W(q)])
        BY <3>2 DEF LInv, MentorsHits
      <4> QED BY <2>1, <3>1, <4>1
    <3> QED BY <2>1, <2>2, <3>1, <3>2 DEF LInv, MentorsHits
  <2> QED BY <2>5, <2>6 DEF LInv
<1>2. ASSUME NEW p \in Requests, Step(p) PROVE LInv'
  <2>1. CASE RedisRaises(p)
    BY <2>1, MemoryLimits DEF RedisRaises
  <2> QED BY <1>2, <2>1, HitLimits, ClientLimits, CountLimits, AddLimits, ExpireLimits, AllowLimits,
            AnswerLimits DEF Step
<1> QED BY <1>1, <1>2 DEF Next

(* LimitsHold, for any number of requests and processes, any window and    *)
(* any clocks: a refusal by Redis has as many counted hits behind it       *)
(* (rate_limit.py:56-79), and the mentor's own window is exact in every    *)
(* process (ai_features.py:73-109).                                   *)
THEOREM LimitsAlwaysHold == Spec => []LimitsHold
<1>1. LInv => LimitsHold
  BY DEF LInv, AllFull, Windows, LimitsHold, MentorsHits
<1> QED BY LimitsStart, LimitsNext, <1>1, PTL DEF Spec

=============================================================================
