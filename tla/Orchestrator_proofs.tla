------------------------- MODULE Orchestrator_proofs -------------------------
(***************************************************************************)
(* What the chain of engines guarantees for any requests, tasks, texts and *)
(* lifetimes: replays are faithful, paid calls are billed, and a request   *)
(* that begins while an equal one's fresh answer lives costs nothing.      *)
(***************************************************************************)
EXTENDS Orchestrator, SequenceTheorems, FiniteSetTheorems, TLAPS

Costly(s) == {i \in DOMAIN s : s[i].cost > 0}
Spent(s) == Cardinality(Costly(s))

(* A request that has not started has no history, one that has knows its   *)
(* ask, and one that is done has been served.                              *)
Staged ==
    \A r \in Requests :
        /\ phase[r] = "new" => paid[r] = 0 /\ rows[r] = <<>> /\ ~warm[r]
        /\ phase[r] # "new" => ask[r] \in Asks
        /\ phase[r] \notin {"done", "failed"} => tx[r] = "open"
        /\ phase[r] = "done" => served[r] \in Served /\ served[r].at <= now

(* No entry is older than its lifetime says.                               *)
Dated == \A e \in exact : e.expires = e.answer.at + Ttl

Faithful(r) ==
    LET a == served[r].answer.ask IN
    /\ \/ Young(r)
       \/ /\ served[r].via = "similar"
          /\ [answer |-> served[r].answer, place |-> Home[r]] \in bucket
    /\ a.task = ask[r].task
    /\ served[r].via = "exact" => OrchKey(a) = OrchKey(ask[r])
    /\ Alike(ask[r].text, a.text)

(* The hosted model is called at most once, then there are at most two     *)
(* summaries, then Bedrock is called once.                                 *)
Counted(r) ==
    /\ phase[r] = "hosted" => paid[r] = 0
    /\ phase[r] = "claude" => paid[r] <= 1
    /\ phase[r] = "bedrock" => paid[r] <= 3

Billed(r) ==
    phase[r] # "new" /\ ~ask[r].direct /\ ask[r].long = 0 /\ tx[r] # "rolled_back"
        => Spent(rows[r]) >= paid[r]

(* What makes an equal request free: the answer of a request that was      *)
(* served afresh is still in each store it entered, or a later one to the  *)
(* same key is.                                                            *)
FreshAnswer(r) ==
    /\ phase[r] = "done" /\ served[r].via \in {"hosted", "claude"} /\ ~ask[r].direct
Remembered(r) ==
    FreshAnswer(r) =>
        \A p \in Stores(Home[r], served[r].shared) :
            \E e \in exact : /\ e.place = p /\ OrchKey(e.answer.ask) = OrchKey(ask[r])
                             /\ e.expires >= served[r].at + Ttl

WarmIsFree(r) == warm[r] => phase[r] = "done" /\ paid[r] = 0 /\ Spent(rows[r]) = 0

IInv ==
    /\ TypeOK /\ Staged /\ Dated
    /\ \A r \in Replays : Faithful(r)
    /\ \A r \in Requests : Counted(r) /\ Billed(r) /\ Remembered(r) /\ WarmIsFree(r)

-----------------------------------------------------------------------------
(* Rows.                                                                   *)

LEMMA SpentNothing == Spent(<<>>) = 0
<1>1. Costly(<<>>) = {}
  BY DEF Costly
<1> QED BY <1>1, FS_EmptySet DEF Spent

LEMMA SpentMore ==
  ASSUME NEW s \in Seq(Row), NEW x \in Row
  PROVE  /\ Spent(s) \in Nat
         /\ Append(s, x) \in Seq(Row)
         /\ Spent(Append(s, x)) = Spent(s) + x.cost
<1>1. IsFiniteSet(Costly(s))
  <2>1. Costly(s) \subseteq 1..Len(s) /\ Len(s) \in Nat
    BY DEF Costly
  <2>2. IsFiniteSet(1..Len(s))
    BY <2>1, FS_Interval
  <2> QED BY <2>1, <2>2, FS_Subset
<1>2. Spent(s) \in Nat
  BY <1>1, FS_CardinalityType DEF Spent
<1>3. /\ Append(s, x) \in Seq(Row) /\ Len(Append(s, x)) = Len(s) + 1 /\ Len(s) \in Nat
      /\ Append(s, x)[Len(s) + 1] = x
      /\ \A i \in 1..Len(s) : Append(s, x)[i] = s[i]
  OBVIOUS
<1>4. x.cost \in 0..1
  BY DEF Row
<1>5. CASE x.cost = 0
  <2>1. Costly(Append(s, x)) = Costly(s)
    BY <1>3, <1>5 DEF Costly
  <2> QED BY <1>2, <1>3, <1>5, <2>1 DEF Spent
<1>6. CASE x.cost = 1
  <2>1. Costly(Append(s, x)) = Costly(s) \cup {Len(s) + 1}
    BY <1>3, <1>6 DEF Costly
  <2>2. Len(s) + 1 \notin Costly(s)
    BY <1>3 DEF Costly
  <2> QED BY <1>1, <1>2, <1>3, <1>6, <2>1, <2>2, FS_AddElement DEF Spent
<1> QED BY <1>4, <1>5, <1>6

(* What a log is with one row more, or as it was.                          *)
LEMMA LogAdds ==
  ASSUME TypeOK, NEW r \in Requests, NEW a \in Asks, NEW tier, NEW cost \in 0..1,
         [tier |-> tier, cost |-> cost] \in Row
  PROVE  /\ Log(r, a, tier, cost) \in Seq(Row)
         /\ Spent(rows[r]) \in Nat
         /\ ~a.direct => Spent(Log(r, a, tier, cost)) = Spent(rows[r]) + cost
<1> DEFINE x == [tier |-> tier, cost |-> cost]
<1>1. rows[r] \in Seq(Row) /\ x \in Row /\ x.cost = cost
  BY DEF TypeOK
<1>2. /\ Append(rows[r], x) \in Seq(Row) /\ Spent(rows[r]) \in Nat
      /\ Spent(Append(rows[r], x)) = Spent(rows[r]) + x.cost
  BY <1>1, SpentMore
<1> HIDE DEF x
<1>3. Log(r, a, tier, cost) = IF a.direct THEN rows[r] ELSE Append(rows[r], x)
  BY DEF Log, record_usage, x
<1> QED BY <1>1, <1>2, <1>3

(* The end of a transaction keeps the log or drops it.                     *)
LEMMA EndsFacts ==
  ASSUME TypeOK, NEW r \in Requests, NEW log \in Seq(Row), Ends(r, log)
  PROVE  /\ rows' \in [Requests -> Seq(Row)] /\ tx' \in [Requests -> Transactions]
         /\ \A s \in Requests \ {r} : rows'[s] = rows[s] /\ tx'[s] = tx[s]
         /\ \/ tx'[r] = "committed" /\ rows'[r] = log
            \/ tx'[r] = "rolled_back" /\ rows'[r] = <<>>
<1>1. PICK fate \in {"committed", "rolled_back"} :
         /\ tx' = [tx EXCEPT ![r] = fate]
         /\ rows' = [rows EXCEPT ![r] = IF fate = "committed" THEN log ELSE <<>>]
  BY DEF Ends
<1>2. <<>> \in Seq(Row)
  OBVIOUS
<1>3. rows \in [Requests -> Seq(Row)] /\ tx \in [Requests -> Transactions] /\ fate \in Transactions
  BY DEF TypeOK, Transactions
<1> QED BY <1>1, <1>2, <1>3

-----------------------------------------------------------------------------
LEMMA InitHolds == Init => IInv
<1> SUFFICES ASSUME Init PROVE IInv
  OBVIOUS
<1>1. TypeOK
  BY MaxTimeAssumption, MaxAwayAssumption
     DEF Init, TypeOK, LlmInit, LlmTypeOK, Phases, Time, Transactions
<1>2. \A r \in Requests : phase[r] = "new" /\ ~warm[r]
  BY DEF Init
<1> QED BY <1>1, <1>2 DEF IInv, Staged, Dated, Init, LlmInit, Replays, Done,
             Counted, Billed, Remembered, FreshAnswer, WarmIsFree

(* A step of request r leaves the others alone: what is to be shown of it. *)
LEMMA OneRequest ==
  ASSUME IInv, TypeOK', NEW r \in Requests, now' = now, bucket \subseteq bucket',
         \A s \in Requests \ {r} :
            /\ phase'[s] = phase[s] /\ ask'[s] = ask[s] /\ served'[s] = served[s]
            /\ rows'[s] = rows[s] /\ tx'[s] = tx[s]
            /\ paid'[s] = paid[s] /\ warm'[s] = warm[s]
            /\ Remembered(s)',
         phase'[r] # "new", ask'[r] \in Asks,
         phase'[r] \notin {"done", "failed"} => tx'[r] = "open",
         phase'[r] = "done" => served'[r] \in Served /\ served'[r].at <= now,
         Dated', phase'[r] = "done" /\ served'[r].via \in {"exact", "similar"} => Faithful(r)',
         Counted(r)', Billed(r)', Remembered(r)', WarmIsFree(r)'
  PROVE  IInv'
<1>1. Staged'
  BY DEF IInv, Staged
<1>2. ASSUME NEW s \in Requests PROVE Counted(s)' /\ Billed(s)' /\ Remembered(s)' /\ WarmIsFree(s)'
  <2>1. CASE s = r
    BY <2>1
  <2>2. CASE s # r
    BY <2>2 DEF IInv, Counted, Billed, WarmIsFree
  <2> QED BY <2>1, <2>2
<1>3. ASSUME NEW s \in Requests, (s \in Replays)' PROVE Faithful(s)'
  <2>1. phase'[s] = "done" /\ served'[s].via \in {"exact", "similar"}
    BY <1>3 DEF Replays, Done
  <2>2. CASE s = r
    BY <2>1, <2>2
  <2>3. CASE s # r
    <3>1. s \in Replays /\ Faithful(s)
      BY <2>1, <2>3 DEF IInv, Replays, Done
    <3> QED BY <2>3, <3>1 DEF Faithful, Young
  <2> QED BY <2>2, <2>3
<1>4. \A s : (s \in Replays)' => s \in Requests
  BY DEF Replays
<1> QED BY <1>1, <1>2, <1>3, <1>4 DEF IInv

(* What an update of a keyed store holds at a place.                       *)
LEMMA StoresArePlaces ==
  ASSUME NEW w \in Workers, NEW up \in BOOLEAN
  PROVE  Stores(w, up) \subseteq Places /\ w \in Stores(w, up)
  BY DEF Stores, Places

(* The cache after an answer was kept or not.                              *)
LEMMA KeepRemembers ==
  ASSUME IInv, NEW a \in Asks, NEW answer \in Answers, NEW isCached \in BOOLEAN,
         NEW w \in Workers, NEW up \in BOOLEAN,
         isCached \/ (answer.ask = a /\ answer.at = now),
         Keep(a, answer, isCached, w, up)
  PROVE  /\ \A e \in exact' : /\ e.answer \in Answers /\ e.expires \in Nat /\ e.place \in Places
                              /\ e.expires = e.answer.at + Ttl
         /\ bucket' \subseteq [answer : Answers, place : Workers]
         /\ bucket \subseteq bucket'
         /\ \A s \in Requests : FreshAnswer(s) =>
               \A p \in Stores(Home[s], served[s].shared) :
                  \E e \in exact' : /\ e.place = p /\ OrchKey(e.answer.ask) = OrchKey(ask[s])
                                    /\ e.expires >= served[s].at + Ttl
         /\ ~a.direct /\ ~isCached => \A p \in Stores(w, up) :
               \E e \in exact' : /\ e.place = p /\ OrchKey(e.answer.ask) = OrchKey(a)
                                 /\ e.expires = now + Ttl
<1> DEFINE new(p) == [answer |-> answer, expires |-> now + Ttl, place |-> p]
           others == {e \in exact : OrchKey(e.answer.ask) # OrchKey(a) \/ e.place \notin Stores(w, up)}
<1>1. /\ now \in Nat /\ Ttl \in Nat
      /\ \A e \in exact : e.answer \in Answers /\ e.expires \in Nat /\ e.place \in Places
      /\ bucket \subseteq [answer : Answers, place : Workers]
  BY OrchTtlAssumption, MaxTimeAssumption DEF IInv, TypeOK, LlmTypeOK, Time
<1>2. \A e \in exact : e.expires = e.answer.at + Ttl
  BY DEF IInv, Dated
<1>3. \A s \in Requests : FreshAnswer(s) =>
         /\ \A p \in Stores(Home[s], served[s].shared) :
               \E e \in exact : /\ e.place = p /\ OrchKey(e.answer.ask) = OrchKey(ask[s])
                                /\ e.expires >= served[s].at + Ttl
         /\ served[s].at \in Nat /\ served[s].at <= now
  <2>1. \A s \in Requests : FreshAnswer(s) => served[s] \in Served /\ served[s].at <= now
    BY DEF IInv, Staged, FreshAnswer
  <2> QED BY <2>1, MaxTimeAssumption DEF IInv, Remembered, Served, Time
<1>4. CASE WritesBack(a, isCached)
  <2>1. /\ exact' = others \cup {new(p) : p \in Stores(w, up)} /\ ~isCached
        /\ bucket' = IF up THEN bucket ELSE bucket \cup {[answer |-> answer, place |-> w]}
    BY <1>4 DEF Keep, WritesBack
  <2>2. /\ \A p \in Stores(w, up) : /\ new(p).answer = answer /\ new(p).expires = now + Ttl
                                    /\ new(p).place = p /\ new(p) \in exact'
        /\ answer.ask = a /\ answer.at = now
    BY <2>1
  <2>3. \A e \in exact : e \in exact' \/ (OrchKey(e.answer.ask) = OrchKey(a) /\ e.place \in Stores(w, up))
    BY <2>1
  <2>4. \A e \in exact' : e \in exact \/ \E p \in Stores(w, up) : e = new(p)
    BY <2>1
  <2>5. ASSUME NEW s \in Requests, FreshAnswer(s), NEW p \in Stores(Home[s], served[s].shared)
        PROVE  \E e \in exact' : /\ e.place = p /\ OrchKey(e.answer.ask) = OrchKey(ask[s])
                                 /\ e.expires >= served[s].at + Ttl
    <3>1. PICK e \in exact : /\ e.place = p /\ OrchKey(e.answer.ask) = OrchKey(ask[s])
                             /\ e.expires >= served[s].at + Ttl
      BY <1>3, <2>5
    <3>2. CASE e \in exact'
      BY <3>1, <3>2
    <3>3. CASE e \notin exact'
      <4>1. OrchKey(ask[s]) = OrchKey(a) /\ p \in Stores(w, up)
        BY <2>3, <3>1, <3>3
      <4>2. now + Ttl >= served[s].at + Ttl
        BY <1>1, <1>3, <2>5
      <4> QED BY <2>2, <4>1, <4>2
    <3> QED BY <3>2, <3>3
  <2>6. \A e \in exact' : /\ e.answer \in Answers /\ e.expires \in Nat /\ e.place \in Places
                          /\ e.expires = e.answer.at + Ttl
    BY <1>1, <1>2, <2>2, <2>4, StoresArePlaces
  <2>7. /\ bucket' \subseteq [answer : Answers, place : Workers]
        /\ bucket \subseteq bucket'
    BY <1>1, <2>1
  <2> HIDE DEF new, others
  <2> QED BY <2>2, <2>5, <2>6, <2>7
<1>5. CASE ~WritesBack(a, isCached)
  <2>1. exact' = exact /\ bucket' = bucket /\ (a.direct \/ isCached)
    BY <1>5 DEF Keep, WritesBack
  <2> QED BY <1>1, <1>2, <1>3, <2>1
<1> QED BY <1>4, <1>5

LEMMA FinishFacts ==
  ASSUME IInv, NEW r \in Requests, NEW answer \in Answers, NEW via \in Tiers,
         NEW shared \in BOOLEAN, Finish(r, answer, via, shared)
  PROVE  /\ phase' \in [Requests -> Phases]
         /\ phase'[r] = "done"
         /\ \A s \in Requests \ {r} : phase'[s] = phase[s] /\ served'[s] = served[s]
         /\ served'[r] = [answer |-> answer, via |-> via, at |-> now, shared |-> shared]
         /\ served'[r] \in Served
         /\ DOMAIN served' = Requests
<1>1. now \in Time /\ DOMAIN served = Requests /\ phase \in [Requests -> Phases]
  BY DEF IInv, TypeOK, LlmTypeOK
<1>2. "done" \in Phases
  BY DEF Phases
<1> QED BY <1>1, <1>2 DEF Finish, Served

LEMMA WarmHits ==
  ASSUME IInv, NEW a \in Asks, NEW w \in Workers, NEW up \in BOOLEAN, Warm(a, w, up)
  PROVE  ExactHits(a, w, up) # {}
<1>1. PICK s \in Requests : /\ FreshAnswer(s) /\ OrchKey(ask[s]) = OrchKey(a)
                            /\ now < served[s].at + Ttl
                            /\ Home[s] = w \/ (up /\ served[s].shared)
  BY DEF Warm, FreshAnswer
<1>2. PICK p \in Stores(Home[s], served[s].shared) : p = w \/ (up /\ p = Redis)
  BY <1>1 DEF Stores
<1>3. PICK e \in exact : /\ e.place = p /\ OrchKey(e.answer.ask) = OrchKey(ask[s])
                         /\ e.expires >= served[s].at + Ttl
  <2>1. Remembered(s) /\ FreshAnswer(s)
    BY <1>1 DEF IInv
  <2> QED BY <2>1 DEF Remembered
<1>4. now \in Nat /\ Ttl \in Nat /\ e.expires \in Nat /\ served[s].at \in Nat
  <2>1. served[s] \in Served
    <3>1. Staged /\ phase[s] = "done"
      BY <1>1 DEF IInv, FreshAnswer
    <3> QED BY <3>1 DEF Staged
  <2> QED BY <2>1, OrchTtlAssumption, MaxTimeAssumption DEF IInv, TypeOK, LlmTypeOK, Time, Served
<1> DEFINE entries == {x \in Live : OrchKey(x.answer.ask) = OrchKey(a)}
<1>5. e \in entries
  BY <1>1, <1>3, <1>4 DEF Live
<1> HIDE DEF entries
<1>6. Found(entries, w, up) # {}
  BY <1>2, <1>3, <1>5 DEF Found
<1> QED BY <1>6 DEF ExactHits, entries

LEMMA BeginFacts ==
  ASSUME IInv, NEW r \in Requests, NEW a \in Asks, NEW up \in BOOLEAN, Begin(r, a, up)
  PROVE  /\ phase[r] = "new" /\ paid[r] = 0 /\ rows[r] = <<>>
         /\ ask' \in [Requests -> Asks \cup {Nothing}] /\ ask'[r] = a
         /\ warm' \in [Requests -> BOOLEAN]
         /\ warm'[r] => ~a.direct /\ ExactHits(a, Home[r], up) # {}
         /\ \A s \in Requests \ {r} : ask'[s] = ask[s] /\ warm'[s] = warm[s]
<1>1. phase[r] = "new" /\ paid[r] = 0 /\ rows[r] = <<>>
  BY DEF Begin, IInv, Staged
<1>2. /\ ask' \in [Requests -> Asks \cup {Nothing}] /\ ask'[r] = a
      /\ \A s \in Requests \ {r} : ask'[s] = ask[s]
  BY DEF Begin, IInv, TypeOK
<1> DEFINE w == ~a.direct /\ Warm(a, Home[r], up)
<1>3. w \in BOOLEAN
  BY Zenon
<1>4. warm' = [warm EXCEPT ![r] = w] /\ warm \in [Requests -> BOOLEAN]
  BY DEF Begin, IInv, TypeOK
<1>5. w => ~a.direct /\ ExactHits(a, Home[r], up) # {}
  BY HomeAssumption, WarmHits
<1> HIDE DEF w
<1>6. /\ warm' \in [Requests -> BOOLEAN] /\ warm'[r] = w
      /\ \A s \in Requests \ {r} : warm'[s] = warm[s]
  BY <1>3, <1>4
<1> QED BY <1>1, <1>2, <1>5, <1>6, Zenon

-----------------------------------------------------------------------------
(* Beginnings.                                                             *)

(* A request that is answered at once, and without a paid call.            *)
LEMMA ServedFree ==
  ASSUME IInv, away' \in 0..MaxAway, NEW r \in Requests, NEW a \in Asks, NEW up \in BOOLEAN, ~a.direct,
         NEW answer \in Answers, NEW via \in {"free", "exact", "similar"}, NEW tier \in {"free", "cache"},
         Begin(r, a, up), Finish(r, answer, via, FALSE), Ends(r, Log(r, a, tier, 0)),
         UNCHANGED <<now, llmVars, exact, bucket, paid>>,
         via # "free" => /\ \/ now < answer.at + Ttl
                            \/ via = "similar" /\ [answer |-> answer, place |-> Home[r]] \in bucket
                         /\ answer.ask.task = a.task
                         /\ via = "exact" => OrchKey(answer.ask) = OrchKey(a)
                         /\ Alike(a.text, answer.ask.text)
  PROVE  IInv'
<1>1. /\ phase' \in [Requests -> Phases] /\ phase'[r] = "done"
      /\ \A s \in Requests \ {r} : phase'[s] = phase[s] /\ served'[s] = served[s]
      /\ served'[r] = [answer |-> answer, via |-> via, at |-> now, shared |-> FALSE]
      /\ served'[r] \in Served
      /\ DOMAIN served' = Requests
  <2>1. via \in Tiers
    BY DEF Tiers
  <2>2. PICK shared \in BOOLEAN : shared = FALSE
    OBVIOUS
  <2>3. Finish(r, answer, via, shared)
    BY <2>2
  <2>4. /\ phase' \in [Requests -> Phases] /\ phase'[r] = "done"
        /\ \A s \in Requests \ {r} : phase'[s] = phase[s] /\ served'[s] = served[s]
        /\ served'[r] = [answer |-> answer, via |-> via, at |-> now, shared |-> shared]
        /\ served'[r] \in Served /\ DOMAIN served' = Requests
    BY <2>1, <2>3, FinishFacts
  <2> QED BY <2>2, <2>4
<1>2. /\ rows' \in [Requests -> Seq(Row)] /\ tx' \in [Requests -> Transactions]
      /\ \A s \in Requests \ {r} : rows'[s] = rows[s] /\ tx'[s] = tx[s]
      /\ Spent(rows'[r]) = 0
  <2>1. [tier |-> tier, cost |-> 0] \in Row
    BY DEF Row
  <2>2. rows[r] = <<>> /\ TypeOK
    BY BeginFacts DEF IInv
  <2>3. PICK cost \in 0..1 : cost = 0
    OBVIOUS
  <2>4. [tier |-> tier, cost |-> cost] \in Row /\ Ends(r, Log(r, a, tier, cost))
    BY <2>1, <2>3
  <2>5. Log(r, a, tier, cost) \in Seq(Row) /\ Spent(Log(r, a, tier, cost)) = 0 + cost
    BY <2>2, <2>4, LogAdds, SpentNothing
  <2> HIDE DEF TypeOK
  <2>6. /\ rows' \in [Requests -> Seq(Row)] /\ tx' \in [Requests -> Transactions]
        /\ \A s \in Requests \ {r} : rows'[s] = rows[s] /\ tx'[s] = tx[s]
        /\ \/ tx'[r] = "committed" /\ rows'[r] = Log(r, a, tier, cost)
           \/ tx'[r] = "rolled_back" /\ rows'[r] = <<>>
    BY <2>2, <2>4, <2>5, EndsFacts
  <2> QED BY <2>3, <2>5, <2>6, SpentNothing
<1>3. /\ paid[r] = 0 /\ ask' \in [Requests -> Asks \cup {Nothing}] /\ ask'[r] = a
      /\ warm' \in [Requests -> BOOLEAN]
      /\ \A s \in Requests \ {r} : ask'[s] = ask[s] /\ warm'[s] = warm[s]
  BY BeginFacts
<1>4. TypeOK'
  BY <1>1, <1>2, <1>3 DEF IInv, TypeOK, LlmTypeOK, llmVars
<1>5. Dated' /\ exact' = exact /\ paid' = paid
  BY DEF IInv, Dated
<1>6. ASSUME NEW s \in Requests \ {r} PROVE Remembered(s)'
  <2>1. Remembered(s)
    BY <1>6 DEF IInv
  <2> QED BY <1>1, <1>3, <1>5, <1>6, <2>1 DEF Remembered, FreshAnswer
<1>7. Counted(r)' /\ Billed(r)' /\ Remembered(r)' /\ WarmIsFree(r)'
  <2>1. ~FreshAnswer(r)'
    BY <1>1 DEF FreshAnswer
  <2>2. Remembered(r)'
    BY <2>1 DEF Remembered
  <2>3. Counted(r)' /\ WarmIsFree(r)'
    BY <1>1, <1>2, <1>3, <1>5 DEF Counted, WarmIsFree
  <2>4. Billed(r)'
    BY <1>2, <1>3, <1>5 DEF Billed
  <2> QED BY <2>2, <2>3, <2>4
<1>8. phase'[r] = "done" /\ served'[r].via \in {"exact", "similar"} => Faithful(r)'
  BY <1>1, <1>3 DEF Faithful, Young, OrchKey, PayloadSystem, Alike
<1>9. served'[r].at <= now /\ now' = now /\ bucket \subseteq bucket'
  BY <1>1, MaxTimeAssumption DEF IInv, TypeOK, LlmTypeOK, Time
<1> QED BY <1>1, <1>2, <1>3, <1>4, <1>5, <1>6, <1>7, <1>8, <1>9, OneRequest

LEMMA LiveEntries ==
  ASSUME IInv, NEW e \in Live
  PROVE  e \in exact /\ e.answer \in Answers /\ now < e.answer.at + Ttl
  BY DEF Live, IInv, Dated, TypeOK

LEMMA StartsFree ==
  ASSUME IInv, away' \in 0..MaxAway, NEW r \in Requests, NEW a \in Asks, NEW up \in BOOLEAN,
         AnswerFree(r, a, up) \/ ReplayExact(r, a, up) \/ ReplaySimilar(r, a, up)
  PROVE  IInv'
<1>1. CASE AnswerFree(r, a, up)
  <2> DEFINE answer == [ask |-> a, kind |-> "computed", at |-> now]
  <2>1. answer \in Answers
    BY DEF Answers, Kinds, IInv, TypeOK, LlmTypeOK
  <2>2. /\ ~a.direct /\ Begin(r, a, up) /\ Finish(r, answer, "free", FALSE)
        /\ Ends(r, Log(r, a, "free", 0)) /\ UNCHANGED <<now, llmVars, exact, bucket, paid>>
    BY <1>1 DEF AnswerFree
  <2> HIDE DEF answer
  <2> QED BY <2>1, <2>2, ServedFree
<1>2. CASE ReplayExact(r, a, up)
  <2>1. PICK x \in ExactHits(a, Home[r], up) : Replay(r, a, up, x, "exact")
    BY <1>2 DEF ReplayExact
  <2>2. PICK e \in Live : x = e.answer /\ OrchKey(x.ask) = OrchKey(a)
    BY <2>1 DEF ExactHits, Found
  <2>3. x \in Answers /\ now < x.at + Ttl
    BY <2>2, LiveEntries
  <2>4. x.ask.task = a.task /\ x.ask.text = a.text
    BY <2>2 DEF OrchKey
  <2>5. /\ ~a.direct /\ Begin(r, a, up) /\ Finish(r, x, "exact", FALSE)
        /\ Ends(r, Log(r, a, "cache", 0)) /\ UNCHANGED <<now, llmVars, exact, bucket, paid>>
    BY <2>1 DEF Replay
  <2> QED BY <2>2, <2>3, <2>4, <2>5, ServedFree DEF Alike
<1>3. CASE ReplaySimilar(r, a, up)
  <2>1. PICK x \in SimilarHits(a, Home[r], up) : Replay(r, a, up, x, "similar")
    BY <1>3 DEF ReplaySimilar
  <2>2. /\ x \in Embedded(a, Home[r], up)
        /\ Text[x.ask] = a.text \/ Alike(a.text, Text[x.ask])
    BY <2>1 DEF SimilarHits, Closest
  <2>3. /\ x \in Answers /\ x.ask.task = a.task
        /\ now < x.at + Ttl \/ [answer |-> x, place |-> Home[r]] \in bucket
    <3>1. CASE \E e \in Live : x = e.answer /\ e.answer.ask.task = a.task
      BY <3>1, LiveEntries
    <3>2. CASE \E y \in bucket : x = y.answer /\ y.place = Home[r] /\ y.answer.ask.task = a.task
      <4>1. PICK y \in bucket : x = y.answer /\ y.place = Home[r] /\ y.answer.ask.task = a.task
        BY <3>2
      <4>2. y = [answer |-> y.answer, place |-> y.place] /\ y.answer \in Answers
        BY DEF IInv, TypeOK
      <4> QED BY <4>1, <4>2
    <3> QED BY <2>2, <3>1, <3>2 DEF Embedded
  <2>4. Text[x.ask] = x.ask.text
    BY <2>3 DEF Text, Answers
  <2>5. /\ ~a.direct /\ Begin(r, a, up) /\ Finish(r, x, "similar", FALSE)
        /\ Ends(r, Log(r, a, "cache", 0)) /\ UNCHANGED <<now, llmVars, exact, bucket, paid>>
    BY <2>1 DEF Replay
  <2> QED BY <2>2, <2>3, <2>4, <2>5, ServedFree DEF Alike
<1> QED BY <1>1, <1>2, <1>3

(* A request that goes on to an engine or to AIRouter was not warm.        *)
LEMMA StartsOnward ==
  ASSUME IInv, away' \in 0..MaxAway, NEW r \in Requests, NEW a \in Asks, NEW up \in BOOLEAN,
         Miss(r, a, up) \/ RouteDirectly(r, a, up)
  PROVE  IInv'
<1>1. Begin(r, a, up) /\ UNCHANGED <<now, llmVars, exact, bucket, served, rows, tx, paid>>
  BY DEF Miss, RouteDirectly
<1>2. \E to \in {"hosted", "claude"} : phase' = [phase EXCEPT ![r] = to]
  BY DEF Miss, RouteDirectly
<1>3. /\ phase' \in [Requests -> Phases] /\ phase'[r] \in {"hosted", "claude"}
      /\ \A s \in Requests \ {r} : phase'[s] = phase[s]
  BY <1>2 DEF IInv, TypeOK, Phases
<1>4. /\ paid[r] = 0 /\ rows[r] = <<>>
      /\ ask' \in [Requests -> Asks \cup {Nothing}] /\ ask'[r] = a
      /\ warm' \in [Requests -> BOOLEAN]
      /\ \A s \in Requests \ {r} : ask'[s] = ask[s] /\ warm'[s] = warm[s]
  BY <1>1, BeginFacts
<1>5. ~warm'[r]
  BY <1>1, BeginFacts DEF Miss, RouteDirectly
<1>6. TypeOK'
  BY <1>1, <1>3, <1>4 DEF IInv, TypeOK, LlmTypeOK, llmVars
<1>7. Dated' /\ bucket \subseteq bucket'
  BY <1>1 DEF IInv, Dated
<1>8. ASSUME NEW s \in Requests \ {r} PROVE Remembered(s)'
  BY <1>1, <1>3, <1>4, <1>8 DEF IInv, Remembered, FreshAnswer
<1>9. Counted(r)' /\ Billed(r)' /\ Remembered(r)' /\ WarmIsFree(r)'
  BY <1>1, <1>3, <1>4, <1>5, SpentNothing DEF Counted, Billed, Remembered, FreshAnswer, WarmIsFree
<1>10. now' = now /\ tx'[r] = "open" /\ phase[r] = "new"
  <2>1. phase[r] = "new" /\ Staged
    BY <1>1 DEF Begin, IInv
  <2> QED BY <1>1, <2>1 DEF Staged
<1> QED BY <1>1, <1>3, <1>4, <1>6, <1>7, <1>8, <1>9, <1>10, OneRequest

-----------------------------------------------------------------------------
(* Steps of a request under way.                                           *)

LEMMA UnderWay ==
  ASSUME IInv, NEW r \in Requests, phase[r] \in {"hosted", "claude", "bedrock"}
  PROVE  /\ ask[r] \in Asks /\ ask[r].long \in 0..2 /\ TypeOK /\ ~warm[r]
         /\ now \in Nat /\ Ttl \in Nat /\ Home[r] \in Workers
         /\ paid[r] \in 0..3
         /\ phase[r] = "hosted" => paid[r] = 0
         /\ phase[r] = "claude" => paid[r] <= 1
         /\ Spent(rows[r]) \in Nat
         /\ rows[r] \in Seq(Row)
<1>1. ask[r] \in Asks /\ TypeOK /\ ~warm[r] /\ rows[r] \in Seq(Row)
  BY DEF IInv, Staged, TypeOK, WarmIsFree
<1>2. ask[r].long \in 0..2
  BY <1>1, AsksAssumption
<1>3. now \in Nat /\ Ttl \in Nat /\ Home[r] \in Workers
  BY <1>1, OrchTtlAssumption, MaxTimeAssumption, HomeAssumption DEF TypeOK, LlmTypeOK, Time
<1>4. /\ paid[r] \in 0..3 /\ (phase[r] = "hosted" => paid[r] = 0)
      /\ phase[r] = "claude" => paid[r] <= 1
  BY <1>1 DEF IInv, Counted, TypeOK
<1>5. Spent(rows[r]) \in Nat
  <2>1. [tier |-> "free", cost |-> 0] \in Row
    BY DEF Row
  <2> QED BY <1>1, <2>1, SpentMore
<1> QED BY <1>1, <1>2, <1>3, <1>4, <1>5

(* A request that an engine or AIRouter answers; bill: what it paid.       *)
LEMMA ServedByEngine ==
  ASSUME IInv, away' \in 0..MaxAway, NEW r \in Requests, phase[r] \in {"hosted", "claude", "bedrock"},
         NEW answer \in Answers, NEW via \in {"hosted", "llm_exact", "llm_similar", "claude"},
         NEW tier \in {"hosted", "claude"}, NEW cost \in 0..1, NEW bill \in 0..1,
         NEW isCached \in BOOLEAN, NEW up \in BOOLEAN, NEW shared \in BOOLEAN,
         isCached \/ (answer.ask = ask[r] /\ answer.at = now),
         via \in {"hosted", "claude"} => ~isCached /\ shared = up,
         bill <= cost,
         Keep(ask[r], answer, isCached, Home[r], up), Finish(r, answer, via, shared),
         Ends(r, Log(r, ask[r], tier, cost)),
         paid' = [paid EXCEPT ![r] = @ + bill],
         UNCHANGED <<now, ask, warm>>,
         LlmTypeOK'
  PROVE  IInv'
<1>1. /\ ask[r] \in Asks /\ TypeOK /\ now \in Nat /\ Ttl \in Nat /\ Home[r] \in Workers
      /\ paid[r] \in 0..3 /\ ~warm[r] /\ Spent(rows[r]) \in Nat /\ rows[r] \in Seq(Row)
  BY UnderWay
<1>3. /\ phase' \in [Requests -> Phases] /\ phase'[r] = "done"
      /\ \A s \in Requests \ {r} : phase'[s] = phase[s] /\ served'[s] = served[s]
      /\ served'[r] = [answer |-> answer, via |-> via, at |-> now, shared |-> shared]
      /\ served'[r] \in Served
      /\ DOMAIN served' = Requests
  <2>1. via \in Tiers
    BY DEF Tiers
  <2> QED BY <2>1, FinishFacts
<1>4. /\ rows' \in [Requests -> Seq(Row)] /\ tx' \in [Requests -> Transactions]
      /\ \A s \in Requests \ {r} : rows'[s] = rows[s] /\ tx'[s] = tx[s]
      /\ ~ask[r].direct /\ tx'[r] # "rolled_back" => Spent(rows'[r]) = Spent(rows[r]) + cost
  <2>1. [tier |-> tier, cost |-> cost] \in Row
    BY DEF Row
  <2>2. /\ Log(r, ask[r], tier, cost) \in Seq(Row)
        /\ ~ask[r].direct => Spent(Log(r, ask[r], tier, cost)) = Spent(rows[r]) + cost
    BY <1>1, <2>1, LogAdds
  <2> HIDE DEF TypeOK
  <2>3. /\ rows' \in [Requests -> Seq(Row)] /\ tx' \in [Requests -> Transactions]
        /\ \A s \in Requests \ {r} : rows'[s] = rows[s] /\ tx'[s] = tx[s]
        /\ \/ tx'[r] = "committed" /\ rows'[r] = Log(r, ask[r], tier, cost)
           \/ tx'[r] = "rolled_back" /\ rows'[r] = <<>>
    BY <1>1, <2>2, EndsFacts
  <2> QED BY <2>2, <2>3
<1>5. /\ \A e \in exact' : /\ e.answer \in Answers /\ e.expires \in Nat /\ e.place \in Places
                           /\ e.expires = e.answer.at + Ttl
      /\ bucket' \subseteq [answer : Answers, place : Workers]
      /\ bucket \subseteq bucket'
      /\ \A s \in Requests : FreshAnswer(s) =>
            \A p \in Stores(Home[s], served[s].shared) :
               \E e \in exact' : /\ e.place = p /\ OrchKey(e.answer.ask) = OrchKey(ask[s])
                                 /\ e.expires >= served[s].at + Ttl
      /\ ~ask[r].direct /\ ~isCached => \A p \in Stores(Home[r], up) :
            \E e \in exact' : /\ e.place = p /\ OrchKey(e.answer.ask) = OrchKey(ask[r])
                              /\ e.expires = now + Ttl
  <2>1. PICK a \in Asks : a = ask[r]
    BY <1>1
  <2>2. PICK w \in Workers : w = Home[r]
    BY <1>1
  <2>3. Keep(a, answer, isCached, w, up) /\ (isCached \/ (answer.ask = a /\ answer.at = now))
    BY <2>1, <2>2
  <2> HIDE DEF Keep
  <2>4. /\ \A e \in exact' : /\ e.answer \in Answers /\ e.expires \in Nat /\ e.place \in Places
                             /\ e.expires = e.answer.at + Ttl
        /\ bucket' \subseteq [answer : Answers, place : Workers]
        /\ bucket \subseteq bucket'
        /\ \A s \in Requests : FreshAnswer(s) =>
              \A p \in Stores(Home[s], served[s].shared) :
                 \E e \in exact' : /\ e.place = p /\ OrchKey(e.answer.ask) = OrchKey(ask[s])
                                   /\ e.expires >= served[s].at + Ttl
        /\ ~a.direct /\ ~isCached => \A p \in Stores(w, up) :
              \E e \in exact' : /\ e.place = p /\ OrchKey(e.answer.ask) = OrchKey(a)
                                /\ e.expires = now + Ttl
    BY <2>3, KeepRemembers
  <2> QED BY <2>1, <2>2, <2>4
<1>6. /\ paid' \in [Requests -> 0..4] /\ paid'[r] = paid[r] + bill
      /\ \A s \in Requests \ {r} : paid'[s] = paid[s]
  BY <1>1 DEF TypeOK
<1>7. TypeOK'
  BY <1>1, <1>3, <1>4, <1>5, <1>6 DEF TypeOK
<1>8. Dated'
  BY <1>5 DEF Dated
<1>9. ASSUME NEW s \in Requests \ {r} PROVE Remembered(s)'
  BY <1>3, <1>5, <1>9 DEF Remembered, FreshAnswer
<1>10. Remembered(r)'
  <2> SUFFICES ASSUME FreshAnswer(r)', NEW p \in Stores(Home[r], served'[r].shared)
               PROVE  \E e \in exact' : /\ e.place = p /\ OrchKey(e.answer.ask) = OrchKey(ask'[r])
                                        /\ e.expires >= served'[r].at + Ttl
    BY DEF Remembered, Stores
  <2>1. served'[r].at = now /\ ~ask[r].direct /\ ~isCached /\ p \in Stores(Home[r], up)
    BY <1>3 DEF FreshAnswer
  <2> QED BY <1>1, <1>5, <2>1
<1>11. Counted(r)' /\ WarmIsFree(r)'
  BY <1>1, <1>3 DEF Counted, WarmIsFree
<1>12. Billed(r)'
  <2> SUFFICES ASSUME ~ask[r].direct, ask[r].long = 0, tx'[r] # "rolled_back"
               PROVE  Spent(rows'[r]) >= paid'[r]
    BY DEF Billed
  <2>1. Spent(rows[r]) >= paid[r]
    BY DEF IInv, Billed, Staged
  <2> QED BY <1>1, <1>4, <1>6, <2>1
<1>13. /\ phase'[r] # "new" /\ ask'[r] \in Asks /\ served'[r].at <= now
       /\ ~(served'[r].via \in {"exact", "similar"})
  BY <1>1, <1>3
<1> QED BY <1>3, <1>4, <1>5, <1>6, <1>7, <1>8, <1>9, <1>10, <1>11, <1>12, <1>13, OneRequest

(* A request that goes on without an answer; more: what it paid meanwhile. *)
LEMMA Passed ==
  ASSUME IInv, away' \in 0..MaxAway, NEW r \in Requests, phase[r] \in {"hosted", "claude"},
         NEW to \in {"claude", "bedrock"}, NEW more \in 0..2,
         NEW bill \in 0..1, bill = 1 => phase[r] = "hosted",
         phase[r] = "hosted" => more <= bill /\ to = "claude",
         phase[r] = "claude" => to = "bedrock" /\ more <= ask[r].long,
         phase' = [phase EXCEPT ![r] = to],
         paid' = [paid EXCEPT ![r] = @ + more],
         IF bill = 1 THEN rows' = [rows EXCEPT ![r] = Log(r, ask[r], "hosted", 1)] ELSE rows' = rows,
         UNCHANGED <<now, llmVars, exact, bucket, ask, served, tx, warm>>
  PROVE  IInv'
<1>1. /\ ask[r] \in Asks /\ ask[r].long \in 0..2 /\ TypeOK /\ rows[r] \in Seq(Row)
      /\ paid[r] \in 0..3 /\ (phase[r] = "hosted" => paid[r] = 0) /\ ~warm[r]
      /\ (phase[r] = "claude" => paid[r] <= 1) /\ Spent(rows[r]) \in Nat
  BY UnderWay
<1>2. tx[r] = "open" /\ (~ask[r].direct /\ ask[r].long = 0 => Spent(rows[r]) >= paid[r])
  BY DEF IInv, Billed, Staged
<1>3. /\ phase' \in [Requests -> Phases] /\ phase'[r] = to
      /\ \A s \in Requests \ {r} : phase'[s] = phase[s]
  BY <1>1 DEF TypeOK, Phases
<1>5. /\ rows' \in [Requests -> Seq(Row)]
      /\ \A s \in Requests \ {r} : rows'[s] = rows[s]
      /\ ~ask[r].direct => Spent(rows'[r]) = Spent(rows[r]) + bill
  <2>1. CASE bill = 1
    <3>1. [tier |-> "hosted", cost |-> bill] \in Row
      BY <2>1 DEF Row
    <3>2. /\ Log(r, ask[r], "hosted", bill) \in Seq(Row)
          /\ ~ask[r].direct => Spent(Log(r, ask[r], "hosted", bill)) = Spent(rows[r]) + bill
      BY <1>1, <3>1, LogAdds
    <3>3. rows' = [rows EXCEPT ![r] = Log(r, ask[r], "hosted", bill)] /\ rows \in [Requests -> Seq(Row)]
      BY <1>1, <2>1 DEF TypeOK
    <3> QED BY <3>2, <3>3
  <2>2. CASE bill = 0
    BY <1>1, <2>2 DEF TypeOK
  <2> QED BY <2>1, <2>2
<1>6. /\ paid' \in [Requests -> 0..4] /\ paid'[r] = paid[r] + more
      /\ \A s \in Requests \ {r} : paid'[s] = paid[s]
  BY <1>1 DEF TypeOK
<1>7. TypeOK'
  BY <1>1, <1>3, <1>5, <1>6 DEF TypeOK, LlmTypeOK, llmVars
<1>8. Dated' /\ bucket \subseteq bucket'
  BY DEF IInv, Dated
<1>9. ASSUME NEW s \in Requests \ {r} PROVE Remembered(s)'
  BY <1>3, <1>9 DEF IInv, Remembered, FreshAnswer
<1>10. Counted(r)' /\ Remembered(r)' /\ WarmIsFree(r)'
  BY <1>1, <1>3, <1>6 DEF Counted, Remembered, FreshAnswer, WarmIsFree
<1>11. Billed(r)'
  <2> SUFFICES ASSUME ~ask[r].direct, ask[r].long = 0 PROVE Spent(rows'[r]) >= paid'[r]
    BY DEF Billed
  <2>1. more <= bill
    BY <1>1
  <2> QED BY <1>1, <1>2, <1>5, <1>6, <2>1
<1> QED BY <1>1, <1>2, <1>3, <1>5, <1>6, <1>7, <1>8, <1>9, <1>10, <1>11, OneRequest

(* handle() raises: the caller copes and commits, or loses the rows.       *)
LEMMA RaisesOut ==
  ASSUME IInv, away' \in 0..MaxAway, NEW r \in Requests, Refused(r)
  PROVE  IInv'
<1>1. /\ phase[r] = "claude" /\ phase' = [phase EXCEPT ![r] = "failed"] /\ Ends(r, rows[r])
      /\ UNCHANGED <<now, llmVars, exact, bucket, ask, served, paid, warm>>
  BY DEF Refused
<1>2. /\ ask[r] \in Asks /\ TypeOK /\ rows[r] \in Seq(Row) /\ ~warm[r]
  BY <1>1, UnderWay
<1>3. /\ phase' \in [Requests -> Phases] /\ phase'[r] = "failed"
      /\ \A s \in Requests \ {r} : phase'[s] = phase[s]
  BY <1>1, <1>2 DEF TypeOK, Phases
<1>4. /\ rows' \in [Requests -> Seq(Row)] /\ tx' \in [Requests -> Transactions]
      /\ \A s \in Requests \ {r} : rows'[s] = rows[s] /\ tx'[s] = tx[s]
      /\ tx'[r] # "rolled_back" => rows'[r] = rows[r]
  BY <1>1, <1>2, EndsFacts
<1>5. TypeOK'
  BY <1>1, <1>2, <1>3, <1>4 DEF TypeOK, LlmTypeOK, llmVars
<1>6. Dated' /\ bucket \subseteq bucket'
  BY <1>1 DEF IInv, Dated
<1>7. ASSUME NEW s \in Requests \ {r} PROVE Remembered(s)'
  BY <1>1, <1>3, <1>7 DEF IInv, Remembered, FreshAnswer
<1>8. Counted(r)' /\ Remembered(r)' /\ WarmIsFree(r)'
  BY <1>1, <1>2, <1>3 DEF Counted, Remembered, FreshAnswer, WarmIsFree
<1>9. Billed(r)'
  BY <1>1, <1>4 DEF IInv, Billed, Staged
<1> QED BY <1>1, <1>2, <1>3, <1>4, <1>5, <1>6, <1>7, <1>8, <1>9, OneRequest

(* What AIRouter's cache gives out is an answer.                           *)
LEMMA LlmHits ==
  ASSUME IInv, NEW a \in Asks, NEW w \in Workers, NEW up \in BOOLEAN,
         NEW x \in LlmExactHits(a, w, up) \cup LlmSimilarHits(a, w, up)
  PROVE  x \in Answers
<1>1. CASE x \in LlmExactHits(a, w, up)
  BY <1>1 DEF LlmExactHits, Found, IInv, TypeOK, LlmTypeOK
<1>2. CASE x \in LlmSimilarHits(a, w, up)
  <2>1. x \in Scanned(w, up)
    BY <1>2 DEF LlmSimilarHits, Closest
  <2> QED BY <2>1 DEF Scanned, IInv, TypeOK, LlmTypeOK
<1> QED BY <1>1, <1>2

LEMMA CostIsABit == ASSUME NEW answer PROVE Cost(answer) \in 0..1
  BY DEF Cost

LEMMA ReplaysFromTheRouter ==
  ASSUME IInv, away' \in 0..MaxAway, NEW r \in Requests, phase[r] = "claude", NEW up \in BOOLEAN,
         NEW x \in LlmExactHits(ask[r], Home[r], up) \cup LlmSimilarHits(ask[r], Home[r], up),
         NEW via \in {"llm_exact", "llm_similar"}, Replayed(r, x, via, up)
  PROVE  IInv'
<1>1. ask[r] \in Asks /\ Home[r] \in Workers
  BY UnderWay
<1>2. x \in Answers /\ Cost(x) \in 0..1
  BY <1>1, LlmHits, CostIsABit
<1>3. PICK bill \in 0..1 : bill = 0
  OBVIOUS
<1>4. PICK isCached \in BOOLEAN, shared \in BOOLEAN : isCached = TRUE /\ shared = FALSE
  OBVIOUS
<1>5. /\ Keep(ask[r], x, isCached, Home[r], up) /\ Finish(r, x, via, shared)
      /\ Ends(r, Log(r, ask[r], "claude", Cost(x)))
      /\ UNCHANGED <<now, llmVars, ask, paid, warm>>
  BY <1>4 DEF Replayed
<1>6. paid' = [paid EXCEPT ![r] = @ + bill]
  <2>1. paid \in [Requests -> 0..4] /\ paid' = paid
    BY <1>5 DEF IInv, TypeOK
  <2> QED BY <1>3, <2>1
<1>7. LlmTypeOK'
  BY <1>5 DEF IInv, TypeOK, LlmTypeOK, llmVars
<1>8. bill <= Cost(x) /\ isCached
  BY <1>2, <1>3, <1>4
<1> HIDE DEF IInv
<1> QED BY <1>2, <1>5, <1>6, <1>7, <1>8, ServedByEngine

(* An answer of Bedrock enters both caches.                                *)
LEMMA LlmStoreFacts ==
  ASSUME IInv, NEW answer \in Answers, NEW w \in Workers, NEW up \in BOOLEAN,
         LlmStore(answer, w, up), now' = now
  PROVE  LlmTypeOK'
<1>1. LlmTypeOK
  BY DEF IInv, TypeOK
<1>2. \A p : /\ LlmEntry(answer, p).answer = answer /\ LlmEntry(answer, p).place = p
             /\ LlmEntry(answer, p).expires \in Nat
  <2>1. now \in Nat /\ answer.ask \in Asks
    BY <1>1, MaxTimeAssumption DEF LlmTypeOK, Time, Answers
  <2> QED BY <2>1, TtlAssumption DEF LlmEntry, TaskType
<1>3. \A e \in llmExact' : e \in llmExact \/ \E p \in Stores(w, up) : e = LlmEntry(answer, p)
  BY DEF LlmStore, Others
<1>4. \A x \in llmSimilar' : x \in llmSimilar \/ \E p \in Stores(w, up) : x = [answer |-> answer, place |-> p]
  BY DEF LlmStore, store_with_embedding, Others
<1>5. \A p \in Stores(w, up) : p \in Places
  BY StoresArePlaces
<1> QED BY <1>1, <1>2, <1>3, <1>4, <1>5 DEF LlmTypeOK

LEMMA BedrockAnswers ==
  ASSUME IInv, away' \in 0..MaxAway, NEW r \in Requests, NEW up \in BOOLEAN,
         NEW kind \in {"claude", "fallback"}, BedrockReturns(r, kind, up)
  PROVE  IInv'
<1> DEFINE answer == [ask |-> ask[r], kind |-> kind, at |-> now]
<1>1. /\ phase[r] = "bedrock" /\ LlmStore(answer, Home[r], up) /\ Keep(ask[r], answer, FALSE, Home[r], up)
      /\ Finish(r, answer, "claude", up) /\ Ends(r, Log(r, ask[r], "claude", Cost(answer)))
      /\ paid' = [paid EXCEPT ![r] = @ + Cost(answer)] /\ UNCHANGED <<now, ask, warm>>
  BY DEF BedrockReturns
<1>2. /\ answer \in Answers /\ Home[r] \in Workers
      /\ answer.ask = ask[r] /\ answer.at = now /\ Cost(answer) \in 0..1
  BY <1>1, CostIsABit, UnderWay DEF IInv, Staged, TypeOK, LlmTypeOK, Answers, Kinds
<1> HIDE DEF answer
<1>3. LlmTypeOK'
  BY <1>1, <1>2, LlmStoreFacts
<1>4. PICK isCached \in BOOLEAN : isCached = FALSE
  OBVIOUS
<1>5. Keep(ask[r], answer, isCached, Home[r], up)
  BY <1>1, <1>4
<1>6. Cost(answer) <= Cost(answer)
  BY <1>2
<1> HIDE DEF IInv
<1> QED BY <1>1, <1>2, <1>3, <1>4, <1>5, <1>6, ServedByEngine

LEMMA HostedAnswers ==
  ASSUME IInv, away' \in 0..MaxAway, NEW r \in Requests, NEW up \in BOOLEAN, HostedAccepts(r, up)
  PROVE  IInv'
<1> DEFINE answer == [ask |-> ask[r], kind |-> "hosted", at |-> now]
<1>1. PICK bill \in 0..1 : bill = 1
  OBVIOUS
<1>2. PICK isCached \in BOOLEAN : isCached = FALSE
  OBVIOUS
<1>3. /\ phase[r] = "hosted" /\ Keep(ask[r], answer, isCached, Home[r], up)
      /\ Finish(r, answer, "hosted", up) /\ Ends(r, Log(r, ask[r], "hosted", bill))
      /\ paid' = [paid EXCEPT ![r] = @ + bill] /\ UNCHANGED <<now, llmVars, ask, warm>>
  BY <1>1, <1>2 DEF HostedAccepts
<1>4. answer \in Answers /\ answer.ask = ask[r] /\ answer.at = now
  BY <1>3 DEF IInv, Staged, TypeOK, LlmTypeOK, Answers, Kinds
<1> HIDE DEF answer
<1>5. LlmTypeOK'
  BY <1>3 DEF IInv, TypeOK, LlmTypeOK, llmVars
<1>6. bill <= bill
  BY <1>1
<1> HIDE DEF IInv
<1> QED BY <1>2, <1>3, <1>4, <1>5, <1>6, ServedByEngine

LEMMA GoesOn ==
  ASSUME IInv, away' \in 0..MaxAway, NEW r \in Requests, NEW up \in BOOLEAN,
         HostedLowConfidence(r) \/ HostedUnavailable(r) \/ CallBedrock(r, up)
  PROVE  IInv'
<1> HIDE DEF IInv
<1>1. CASE HostedLowConfidence(r)
  <2>1. PICK bill \in 0..1, more \in 0..2 : bill = 1 /\ more = 1
    OBVIOUS
  <2>2. /\ phase[r] = "hosted" /\ phase' = [phase EXCEPT ![r] = "claude"]
        /\ rows' = [rows EXCEPT ![r] = Log(r, ask[r], "hosted", 1)]
        /\ paid' = [paid EXCEPT ![r] = @ + more]
        /\ UNCHANGED <<now, llmVars, exact, bucket, ask, served, tx, warm>>
    BY <1>1, <2>1 DEF HostedLowConfidence, BillRejected
  <2>3. more <= bill
    BY <2>1
  <2> QED BY <2>1, <2>2, <2>3, Passed
<1>2. CASE HostedUnavailable(r) \/ CallBedrock(r, up)
  <2>1. PICK bill \in 0..1 : bill = 0
    OBVIOUS
  <2>2. /\ phase[r] \in {"hosted", "claude"}
        /\ UNCHANGED <<now, llmVars, exact, bucket, ask, served, rows, tx, warm>>
    BY <1>2 DEF HostedUnavailable, CallBedrock
  <2>3. ask[r].long \in 0..2 /\ paid \in [Requests -> 0..4]
    BY <2>2, UnderWay DEF TypeOK
  <2>4. PICK to \in {"claude", "bedrock"}, more \in 0..2 :
          /\ phase' = [phase EXCEPT ![r] = to] /\ paid' = [paid EXCEPT ![r] = @ + more]
          /\ phase[r] = "hosted" => more <= 0 /\ to = "claude"
          /\ phase[r] = "claude" => to = "bedrock" /\ more <= ask[r].long
    <3>1. CASE HostedUnavailable(r)
      <4>1. /\ phase' = [phase EXCEPT ![r] = "claude"] /\ phase[r] = "hosted"
            /\ paid' = [paid EXCEPT ![r] = @ + 0]
        BY <2>3, <3>1 DEF HostedUnavailable
      <4> QED BY <4>1
    <3>2. CASE CallBedrock(r, up)
      <4>1. PICK more \in 0..ask[r].long : paid' = [paid EXCEPT ![r] = @ + more]
        BY <3>2 DEF CallBedrock
      <4>2. phase' = [phase EXCEPT ![r] = "bedrock"] /\ phase[r] = "claude"
        BY <3>2 DEF CallBedrock
      <4>3. more \in 0..2 /\ more <= ask[r].long
        BY <2>3, <4>1
      <4> QED BY <4>1, <4>2, <4>3
    <3> QED BY <1>2, <3>1, <3>2
  <2>5. /\ bill = 1 => phase[r] = "hosted"
        /\ phase[r] = "hosted" => more <= bill /\ to = "claude"
        /\ IF bill = 1 THEN rows' = [rows EXCEPT ![r] = Log(r, ask[r], "hosted", 1)] ELSE rows' = rows
        /\ UNCHANGED <<now, llmVars, exact, bucket, ask, served, tx, warm>>
    BY <2>1, <2>2, <2>4
  <2> QED BY <2>2, <2>4, <2>5, Passed
<1> QED BY <1>1, <1>2

(* Time only takes lifetimes away; a stutter changes nothing.              *)
LEMMA ClockMoves ==
  ASSUME IInv, now' \in Time, now <= now',
         UNCHANGED <<llmVars, exact, bucket, away, phase, ask, served, rows, tx, paid, warm>>
  PROVE  IInv'
<1>1. TypeOK'
  BY DEF IInv, TypeOK, LlmTypeOK, llmVars
<1>2. Staged'
  <2>1. \A r \in Requests : phase[r] = "done" => served[r].at \in Nat /\ served[r].at <= now
    BY MaxTimeAssumption DEF IInv, Staged, Served, Time
  <2>2. now \in Nat /\ now' \in Nat
    BY MaxTimeAssumption DEF IInv, TypeOK, LlmTypeOK, Time
  <2> QED BY <2>1, <2>2 DEF IInv, Staged
<1>3. Dated'
  BY DEF IInv, Dated
<1>4. ASSUME NEW r \in Requests PROVE (Counted(r) /\ Billed(r) /\ Remembered(r) /\ WarmIsFree(r))'
  BY DEF IInv, Counted, Billed, Remembered, FreshAnswer, WarmIsFree
<1>5. ASSUME NEW r \in Replays' PROVE Faithful(r)'
  BY DEF IInv, Replays, Done, Faithful, Young
<1> QED BY <1>1, <1>2, <1>3, <1>4, <1>5 DEF IInv

LEMMA Inductive == IInv /\ [Next]_vars => IInv'
<1> SUFFICES ASSUME IInv, [Next]_vars PROVE IInv'
  OBVIOUS
<1>0. away \in 0..MaxAway
  BY DEF IInv, TypeOK
<1>1. ASSUME NEW r \in Requests, NEW up \in BOOLEAN, Start(r, up), Reaches(up) PROVE IInv'
  <2>1. away' \in 0..MaxAway
    BY <1>0, <1>1, MaxAwayAssumption DEF Reaches
  <2>2. PICK a \in Asks : \/ AnswerFree(r, a, up) \/ ReplayExact(r, a, up) \/ ReplaySimilar(r, a, up)
                         \/ Miss(r, a, up) \/ RouteDirectly(r, a, up)
    BY <1>1, WantsAssumption DEF Start
  <2> QED BY <2>1, <2>2, StartsFree, StartsOnward
<1>2. ASSUME NEW r \in Requests, NEW up \in BOOLEAN, Continue(r, up), Reaches(up) PROVE IInv'
  <2> HIDE DEF IInv
  <2>0. away' \in 0..MaxAway
    BY <1>0, <1>2, MaxAwayAssumption DEF Reaches
  <2>1. CASE HostedAccepts(r, up)
    BY <2>0, <2>1, HostedAnswers
  <2>2. CASE HostedLowConfidence(r) \/ HostedUnavailable(r) \/ CallBedrock(r, up)
    BY <2>0, <2>2, GoesOn
  <2>3. CASE ClaudeReplaysExact(r, up) \/ ClaudeReplaysSimilar(r, up)
    <3>1. PICK x \in LlmExactHits(ask[r], Home[r], up) \cup LlmSimilarHits(ask[r], Home[r], up),
               via \in {"llm_exact", "llm_similar"} : phase[r] = "claude" /\ Replayed(r, x, via, up)
      BY <2>3 DEF ClaudeReplaysExact, ClaudeReplaysSimilar
    <3> QED BY <2>0, <3>1, ReplaysFromTheRouter
  <2>4. CASE \E kind \in {"claude", "fallback"} : BedrockReturns(r, kind, up)
    BY <2>0, <2>4, BedrockAnswers
  <2>5. CASE Refused(r)
    BY <2>0, <2>5, RaisesOut
  <2> QED BY <1>2, <2>1, <2>2, <2>3, <2>4, <2>5 DEF Continue
<1>3. CASE Tick /\ UNCHANGED away
  BY <1>3, MaxTimeAssumption, ClockMoves DEF Tick, IInv, TypeOK, LlmTypeOK, Time
<1>4. CASE UNCHANGED vars
  BY <1>4, MaxTimeAssumption, ClockMoves DEF vars, llmVars, IInv, TypeOK, LlmTypeOK, Time
<1> QED BY <1>1, <1>2, <1>3, <1>4 DEF Next

LEMMA AlwaysInductive == Spec => []IInv
  BY InitHolds, Inductive, PTL DEF Spec

(* The variables keep their types.                                         *)
THEOREM TypeCorrect == Spec => []TypeOK
<1>1. IInv => TypeOK
  BY DEF IInv
<1> QED BY <1>1, AlwaysInductive, PTL

(* A replay of the cache engine is younger than its lifetime when it is    *)
(* served, unless its process kept it while Redis was away and found it    *)
(* again by likeness; and it answers the task and, up to likeness, the     *)
(* text that was asked.                                                    *)
THEOREM ReplaysAlwaysFaithful == Spec => []ReplaysAreFaithful
<1>1. IInv => ReplaysAreFaithful
  BY DEF IInv, Faithful, ReplaysAreFaithful
<1> QED BY <1>1, AlwaysInductive, PTL

(* Every answer an engine was paid for has a row with its cost once the    *)
(* caller has committed, also when the request itself failed.              *)
THEOREM PaidCallsAlwaysBilled == Spec => []PaidCallsAreBilled
<1>1. IInv => PaidCallsAreBilled
  <2> SUFFICES ASSUME IInv, NEW r \in Requests, tx[r] = "committed", ~ask[r].direct, ask[r].long = 0
               PROVE  CostOf(r) >= paid[r]
    BY DEF PaidCallsAreBilled
  <2>1. phase[r] # "new" /\ Billed(r)
    BY DEF IInv, Staged
  <2> QED BY <2>1 DEF Billed, Spent, Costly, CostOf
<1> QED BY <1>1, AlwaysInductive, PTL

(* A request that begins while the fresh answer to an equal one lives is   *)
(* answered without a provider and without a cost.                         *)
THEOREM IdenticalCallsAlwaysFree == Spec => []IdenticalCallsAreFree
<1>1. IInv => IdenticalCallsAreFree
  BY DEF IInv, WarmIsFree, Spent, Costly, CostOf, IdenticalCallsAreFree
<1> QED BY <1>1, AlwaysInductive, PTL
=============================================================================
