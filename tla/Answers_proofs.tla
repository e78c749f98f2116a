---------------------------- MODULE Answers_proofs ----------------------------
(***************************************************************************)
(* What the answers guarantee for any users, postings and interleavings:   *)
(* a brief is of one version of the career twin, what the copilot decides  *)
(* agrees with what it counts, a roadmap fits its weeks, and what a model  *)
(* adds to a resume, a report or a kit takes nothing away.                 *)
(***************************************************************************)
EXTENDS Answers, FiniteSetTheorems, WellFoundedInduction, TLAPS

-----------------------------------------------------------------------------
(* The brief.  What is stashed is the only version that was read, unless   *)
(* nothing was there to read.                                              *)

AssemblyFields == {"at", "want", "rows", "layers", "skipped", "stash", "aborted"}

VersionOf(twin) == IF twin = None THEN 0 ELSE twin.version

OneVersion(g) ==
    /\ DOMAIN g = AssemblyFields
    /\ \A l \in DOMAIN g.layers \cap OfTheTwin : g.layers[l].version \in {0, VersionOf(g.stash)}

GroundInv == ground # None => OneVersion(ground)

(* A layer of the twin says which version of the twin it is from.          *)
LEMMA ProvidedVersion ==
  ASSUME NEW g, NEW twin, NEW layer \in OfTheTwin, Provided(g, layer, twin) # None
  PROVE  Provided(g, layer, twin).version = VersionOf(twin)
<1>1. Facts(twin).version = VersionOf(twin) /\ DOMAIN Facts(twin) = {"version"}
  BY DEF Facts, VersionOf
<1> HIDE DEF Facts
<1>3. CASE layer = "career_twin"
  <2>1. Provided(g, layer, twin) = CareerTwinProvider(twin)
    BY <1>3 DEF Provided
  <2> QED BY <1>1, <2>1 DEF CareerTwinProvider
<1>4. CASE layer = "skills"
  <2>1. Provided(g, layer, twin) = SkillsProvider(twin)
    BY <1>4 DEF Provided
  <2> QED BY <2>1 DEF SkillsProvider, Has, VersionOf
<1>5. CASE layer = "companies"
  <2>1. Provided(g, layer, twin) = CompaniesProvider(g, twin)
    BY <1>5 DEF Provided
  <2> QED BY <1>1, <2>1 DEF CompaniesProvider
<1>6. CASE layer = "projects"
  <2>1. Provided(g, layer, twin) = ProjectsProvider(twin)
    BY <1>6 DEF Provided
  <2> QED BY <1>1, <2>1 DEF ProjectsProvider
<1>7. CASE layer = "interview"
  <2>1. Provided(g, layer, twin) = InterviewProvider(g, twin)
    BY <1>7 DEF Provided
  <2> QED BY <1>1, <2>1 DEF InterviewProvider
<1>8. CASE layer = "salary"
  <2>1. Provided(g, layer, twin) = SalaryProvider(g, twin)
    BY <1>8 DEF Provided
  <2> QED BY <1>1, <2>1 DEF SalaryProvider
<1>9. CASE layer = "goals"
  <2>1. Provided(g, layer, twin) = GoalsProvider(twin)
    BY <1>9 DEF Provided
  <2> QED BY <1>1, <2>1 DEF GoalsProvider
<1>10. CASE layer = "habits"
  <2>1. Provided(g, layer, twin) = HabitsProvider(g, twin)
    BY <1>10 DEF Provided
  <2> QED BY <1>1, <2>1 DEF HabitsProvider
<1>11. CASE layer = "professional_growth"
  <2>1. Provided(g, layer, twin) = ProfessionalGrowthProvider(g, twin)
    BY <1>11 DEF Provided
  <2> QED BY <1>1, <2>1 DEF ProfessionalGrowthProvider
<1> QED BY <1>3, <1>4, <1>5, <1>6, <1>7, <1>8, <1>9, <1>10, <1>11 DEF OfTheTwin

(* Stashing keeps what was read: the stash is only set when it was empty.  *)
LEMMA StashedOneVersion ==
  ASSUME NEW g, OneVersion(g)
  PROVE  LET h == Stashed(g, load_twin(g))
         IN  /\ OneVersion(h) /\ h.layers = g.layers /\ h.at = g.at
             /\ Now \in OfTheTwin => VersionOf(load_twin(g)) \in {0, VersionOf(h.stash)}
<1> DEFINE twin == load_twin(g)
<1>1. g.stash # None => twin = g.stash
  BY DEF load_twin
<1>2. CASE Now \in OfTheTwin /\ twin # None
  <2> DEFINE h == [g EXCEPT !.stash = twin]
  <2>1. h.stash = twin /\ h.layers = g.layers /\ h.at = g.at /\ DOMAIN h = AssemblyFields
    BY DEF OneVersion, AssemblyFields
  <2>2. Stashed(g, twin) = h
    BY <1>2 DEF Stashed
  <2> HIDE DEF h, twin
  <2>3. VersionOf(g.stash) \in {0, VersionOf(twin)}
    BY <1>1 DEF VersionOf
  <2>4. OneVersion(h)
    BY <2>1, <2>3 DEF OneVersion
  <2> QED BY <2>1, <2>2, <2>4 DEF twin
<1>3. CASE ~(Now \in OfTheTwin /\ twin # None)
  <2>1. Stashed(g, twin) = g
    BY <1>3 DEF Stashed
  <2> QED BY <1>3, <2>1 DEF VersionOf
<1> QED BY <1>2, <1>3

LEMMA MarkedOneVersion ==
  ASSUME NEW g, OneVersion(g), NEW reason
  PROVE  OneVersion(mark_skipped(g, reason))
  BY DEF mark_skipped, OneVersion, AssemblyFields

LEMMA KeptOneVersion ==
  ASSUME NEW g, OneVersion(g), NEW data,
         Now \in OfTheTwin /\ data # None => data.version \in {0, VersionOf(g.stash)}
  PROVE  OneVersion(Kept(g, data))
<1>1. CASE data = None
  BY <1>1, MarkedOneVersion DEF Kept
<1>2. CASE data # None
  <2> DEFINE layers == With(g.layers, Now, data)
             h == [g EXCEPT !.layers = layers]
  <2>1. Kept(g, data) = h
    BY <1>2 DEF Kept, set_layer
  <2>2. DOMAIN layers = DOMAIN g.layers \cup {Now} /\ layers[Now] = data
    BY DEF With
  <2>3. \A l \in DOMAIN g.layers \ {Now} : layers[l] = g.layers[l]
    BY DEF With
  <2> HIDE DEF layers
  <2>5. DOMAIN h = AssemblyFields /\ h.layers = layers /\ h.stash = g.stash
    BY DEF OneVersion, AssemblyFields
  <2> HIDE DEF h
  <2> QED BY <1>2, <2>1, <2>2, <2>3, <2>5 DEF OneVersion
<1> QED BY <1>1, <1>2

LEMMA PassedOneVersion ==
  ASSUME NEW g, OneVersion(g), Passes(g)
  PROVE  GroundInv'
<1> DEFINE h == [g EXCEPT !.at = g.at + 1]
<1>1. ground' = h
  BY DEF Passes
<1>2. h.layers = g.layers /\ h.stash = g.stash /\ DOMAIN h = AssemblyFields
  BY DEF OneVersion, AssemblyFields
<1> HIDE DEF h
<1>3. OneVersion(h)
  BY <1>2 DEF OneVersion
<1> QED BY <1>1, <1>3 DEF GroundInv, OneVersion, VersionOf

LEMMA AssemblyKeepsVersion ==
  ASSUME GroundInv, AssembleNext
  PROVE  GroundInv'
<1>1. Assembling
  BY DEF AssembleNext, Unwanted, Planned, Provides, Fails, Refused, TwinChanges
<1>2. OneVersion(ground)
  BY <1>1 DEF GroundInv, Assembling
<1>3. CASE Unwanted
  BY <1>2, <1>3, PassedOneVersion DEF Unwanted
<1>4. CASE Planned
  BY <1>2, <1>4, PassedOneVersion, MarkedOneVersion DEF Planned
<1>5. CASE Provides
  <2> DEFINE twin == load_twin(ground)
             g == Stashed(ground, twin)
             data == Provided(ground, Now, twin)
  <2>1. OneVersion(g) /\ (Now \in OfTheTwin => VersionOf(twin) \in {0, VersionOf(g.stash)})
    BY <1>2, StashedOneVersion
  <2>2. Now \in OfTheTwin /\ data # None => data.version = VersionOf(twin)
    BY ProvidedVersion
  <2>3. Passes(Kept(g, data))
    BY <1>5 DEF Provides
  <2> HIDE DEF twin, g, data
  <2>4. OneVersion(Kept(g, data))
    BY <2>1, <2>2, KeptOneVersion
  <2> QED BY <2>3, <2>4, PassedOneVersion
<1>6. CASE Fails
  <2>1. PICK aborts \in BOOLEAN, g \in {ground, Stashed(ground, load_twin(ground))} :
           Passes([mark_skipped(g, "error") EXCEPT !.aborted = aborts])
    BY <1>6 DEF Fails
  <2>2. OneVersion(g)
    BY <1>2, <2>1, StashedOneVersion
  <2> DEFINE h == mark_skipped(g, "error")
             k == [h EXCEPT !.aborted = aborts]
  <2>3. OneVersion(h)
    BY <2>2, MarkedOneVersion
  <2> HIDE DEF h
  <2>4. k.layers = h.layers /\ k.stash = h.stash /\ DOMAIN k = AssemblyFields
    BY <2>3 DEF OneVersion, AssemblyFields
  <2>5. Passes(k)
    BY <2>1 DEF h
  <2> HIDE DEF k
  <2>6. OneVersion(k)
    BY <2>3, <2>4 DEF OneVersion
  <2> QED BY <2>5, <2>6, PassedOneVersion
<1>7. CASE Refused
  BY <1>2, <1>7, PassedOneVersion, MarkedOneVersion DEF Refused
<1>8. CASE TwinChanges
  BY <1>8 DEF TwinChanges, GroundInv, OneVersion, VersionOf
<1> QED BY <1>3, <1>4, <1>5, <1>6, <1>7, <1>8 DEF AssembleNext

LEMMA GroundInductive == GroundInv /\ [AnswersNext]_answers => GroundInv'
<1> SUFFICES ASSUME GroundInv, [AnswersNext]_answers PROVE GroundInv'
  OBVIOUS
<1>1. CASE AssembleNext
  BY <1>1, AssemblyKeepsVersion
<1>2. CASE UNCHANGED grounding
  BY <1>2 DEF grounding, GroundInv, OneVersion, VersionOf
<1>3. UNCHANGED grounding \/ AssembleNext
  BY DEF AnswersNext, answers, Gives, graph_query, daily_brief, flashcard_schedule, mock_interview,
         mock_evaluate, get_lesson, personal_plan, interview_prep, resume_intelligence,
         profile_domains, agent_call, twin_day, usage_pages, Grounded
<1> QED BY <1>1, <1>2, <1>3

(* However many requests change the twin while a brief is assembled, and   *)
(* whichever of its layers fail: its layers are of one version of it.      *)
THEOREM AlwaysOneTwin == AnswersSpec => []OneTwinInABrief
<1>1. AnswersInit => GroundInv
  <2> SUFFICES ASSUME AnswersInit, ground # None PROVE OneVersion(ground)
    BY DEF GroundInv
  <2>1. ground = Assembly(ask.layers, ask.rows)
    BY DEF AnswersInit
  <2>2. DOMAIN NoAlias = {}
    BY DEF NoAlias
  <2> HIDE DEF NoAlias
  <2> QED BY <2>1, <2>2 DEF Assembly, OneVersion, AssemblyFields
<1>2. GroundInv => OneTwinInABrief
  BY DEF GroundInv, OneVersion, OneTwinInABrief
<1> QED BY <1>1, <1>2, GroundInductive, PTL DEF AnswersSpec

-----------------------------------------------------------------------------
(* Sorting.  Prior[i] is what comes before i; InOrder takes for its r-th   *)
(* the one that r - 1 are ahead of.                                        *)

StrictOrder(K, Prior) ==
    /\ \A i \in K : Prior[i] \subseteq K /\ i \notin Prior[i]
    /\ \A i, j \in K : i # j => i \in Prior[j] \/ j \in Prior[i]
    /\ \A i, j \in K : j \in Prior[i] => Prior[j] \subseteq Prior[i]

Ranking(K, Prior) ==
    [r \in 1..Cardinality(K) |-> CHOOSE i \in K : Cardinality(Prior[i]) = r - 1]

(* Every element has a rank of its own, and every rank an element.         *)
LEMMA RankingFacts ==
  ASSUME NEW K, IsFiniteSet(K), NEW Prior, StrictOrder(K, Prior)
  PROVE  Ranking(K, Prior) \in Bijection(1..Cardinality(K), K)
<1> DEFINE n == Cardinality(K)
           place == [i \in K |-> Cardinality(Prior[i]) + 1]
           order == Ranking(K, Prior)
<1>1. n \in Nat
  BY FS_CardinalityType
<1>2. ASSUME NEW i \in K
      PROVE  IsFiniteSet(Prior[i]) /\ Cardinality(Prior[i]) \in 0..(n - 1)
  <2>1. Prior[i] \in SUBSET (K \ {i})
    BY DEF StrictOrder
  <2>2. IsFiniteSet(K \ {i}) /\ Cardinality(K \ {i}) = n - 1
    BY FS_RemoveElement
  <2>3. IsFiniteSet(Prior[i]) /\ Cardinality(Prior[i]) <= n - 1
    BY <2>1, <2>2, FS_Subset
  <2>4. Cardinality(Prior[i]) \in Nat
    BY <2>3, FS_CardinalityType
  <2> QED BY <1>1, <2>3, <2>4
<1>3. ASSUME NEW i \in K, NEW j \in K, j \in Prior[i]
      PROVE  Cardinality(Prior[j]) # Cardinality(Prior[i])
  <2>1. Prior[j] \in SUBSET Prior[i] /\ Prior[j] # Prior[i]
    BY <1>3 DEF StrictOrder
  <2> QED BY <1>2, <2>1, FS_Subset
<1>4. \A i, j \in K : Cardinality(Prior[i]) = Cardinality(Prior[j]) => i = j
  BY <1>3 DEF StrictOrder
<1>5. place \in [K -> 1..n]
  BY <1>1, <1>2
<1>6. \A i, j \in K : place[i] = place[j] => i = j
  <2>1. \A i \in K : Cardinality(Prior[i]) \in Int
    BY <1>2
  <2> QED BY <1>4, <2>1
<1>7. place \in Surjection(K, 1..n)
  <2>1. place \in Injection(K, 1..n)
    <3> HIDE DEF place
    <3> QED BY <1>5, <1>6 DEF Injection, IsInjective
  <2>2. IsFiniteSet(1..n) /\ Cardinality(1..n) = n
    BY <1>1, FS_Interval
  <2> HIDE DEF place
  <2> QED BY <2>1, <2>2, FS_Injection
<1>8. \A r \in 1..n : order[r] \in K /\ place[order[r]] = r
  <2> TAKE r \in 1..n
  <2>1. PICK i \in K : place[i] = r
    BY <1>7 DEF Surjection
  <2>2. Cardinality(Prior[i]) = r - 1
    BY <1>2, <2>1
  <2>3. order[r] = CHOOSE k \in K : Cardinality(Prior[k]) = r - 1
    BY DEF Ranking
  <2>4. order[r] \in K /\ Cardinality(Prior[order[r]]) = r - 1
    BY <2>2, <2>3
  <2> HIDE DEF order
  <2> QED BY <1>1, <2>4
<1>9. order = [r \in 1..n |-> order[r]]
  BY DEF Ranking
<1> HIDE DEF order, place, n
<1>10. order \in [1..n -> K]
  BY <1>8, <1>9
<1>11. \A r, q \in 1..n : order[r] = order[q] => r = q
  BY <1>8
<1>12. \A i \in K : \E r \in 1..n : order[r] = i
  <2> TAKE i \in K
  <2>1. place[i] \in 1..n
    BY <1>5
  <2>2. order[place[i]] \in K /\ place[order[place[i]]] = place[i]
    BY <1>8, <2>1
  <2> QED BY <1>6, <2>1, <2>2
<1> QED BY <1>10, <1>11, <1>12 DEF Bijection, Injection, Surjection, IsInjective, order, n

(* As many positions lead into a part of what is ranked as it has elements. *)
LeadsInto(f, S, T, A, U) ==
    /\ A \in SUBSET S /\ U \in SUBSET T
    /\ \A s \in S : s \in A <=> f[s] \in U

LEMMA PartOfBijection ==
  ASSUME NEW S, NEW T, IsFiniteSet(S), NEW f, f \in Bijection(S, T), NEW A, NEW U,
         LeadsInto(f, S, T, A, U)
  PROVE  Cardinality(A) = Cardinality(U)
<1>0. A \in SUBSET S /\ U \in SUBSET T /\ \A s \in S : s \in A <=> f[s] \in U
  BY DEF LeadsInto
<1> DEFINE g == [s \in A |-> f[s]]
<1>1. IsFiniteSet(A)
  BY <1>0, FS_Subset
<1>2. g \in [A -> U]
  BY <1>0
<1>3. \A s, t \in A : g[s] = g[t] => s = t
  BY <1>0 DEF Bijection, Injection, IsInjective
<1>4. \A u \in U : \E s \in A : g[s] = u
  <2> TAKE u \in U
  <2>1. PICK s \in S : f[s] = u
    BY <1>0 DEF Bijection, Surjection
  <2>2. s \in A /\ g[s] = u
    BY <1>0, <2>1
  <2> QED BY <2>2
<1> HIDE DEF g
<1>5. ExistsBijection(A, U)
  BY <1>2, <1>3, <1>4 DEF ExistsBijection, Bijection, Injection, Surjection, IsInjective
<1>6. Cardinality(U) = Cardinality(A)
  BY <1>1, <1>5, FS_Bijection
<1> QED BY <1>6

(* Comparing three numbers, one after the other.                           *)
Triple == Int \X Int \X Int
Precedes(a, b) ==
    a[1] < b[1] \/ (a[1] = b[1] /\ (a[2] < b[2] \/ (a[2] = b[2] /\ a[3] < b[3])))

LEMMA LexOfTriples ==
  ASSUME NEW a \in Triple, NEW b \in Triple
  PROVE  Lex(a, b) <=> Precedes(a, b)
<1>1. DOMAIN a = 1..3 /\ a[1] \in Int /\ a[2] \in Int /\ a[3] \in Int
  BY DEF Triple
<1>2. b[1] \in Int /\ b[2] \in Int /\ b[3] \in Int
  BY DEF Triple
<1>3. Precedes(a, b) => Lex(a, b)
  <2>1. CASE a[1] < b[1]
    <3>1. 1 \in 1..3 /\ \A m \in 1..(1 - 1) : a[m] = b[m]
      OBVIOUS
    <3> QED BY <1>1, <2>1, <3>1 DEF Lex
  <2>2. CASE a[1] = b[1] /\ a[2] < b[2]
    <3>1. 2 \in 1..3 /\ \A m \in 1..(2 - 1) : a[m] = b[m]
      <4>1. \A m \in 1..(2 - 1) : m = 1
        OBVIOUS
      <4> QED BY <2>2, <4>1
    <3> QED BY <1>1, <2>2, <3>1 DEF Lex
  <2>3. CASE a[1] = b[1] /\ a[2] = b[2] /\ a[3] < b[3]
    <3>1. 3 \in 1..3 /\ \A m \in 1..(3 - 1) : a[m] = b[m]
      <4>1. \A m \in 1..(3 - 1) : m = 1 \/ m = 2
        OBVIOUS
      <4> QED BY <2>3, <4>1
    <3> QED BY <1>1, <2>3, <3>1 DEF Lex
  <2> QED BY <2>1, <2>2, <2>3 DEF Precedes
<1>4. Lex(a, b) => Precedes(a, b)
  <2> SUFFICES ASSUME Lex(a, b) PROVE Precedes(a, b)
    OBVIOUS
  <2>1. PICK n \in 1..3 : a[n] < b[n] /\ \A m \in 1..(n - 1) : a[m] = b[m]
    BY <1>1 DEF Lex
  <2>2. CASE n = 1
    BY <2>1, <2>2 DEF Precedes
  <2>3. CASE n = 2
    <3>1. 1 \in 1..(n - 1)
      BY <2>3
    <3> QED BY <2>1, <2>3, <3>1 DEF Precedes
  <2>4. CASE n = 3
    <3>1. 1 \in 1..(n - 1) /\ 2 \in 1..(n - 1)
      BY <2>4
    <3> QED BY <2>1, <2>4, <3>1 DEF Precedes
  <2> QED BY <2>2, <2>3, <2>4
<1> QED BY <1>3, <1>4

(* Keys of three numbers, and the place where they are equal, make an order. *)
LEMMA TriplesAreOrdered ==
  ASSUME NEW K \in SUBSET Nat, NEW key \in [K -> Triple], NEW Prior,
         \A i \in K : Prior[i] = {k \in K : Lex(key[k], key[i]) \/ (~Lex(key[i], key[k]) /\ k < i)}
  PROVE  StrictOrder(K, Prior)
<1> DEFINE Before(k, i) == Precedes(key[k], key[i]) \/ (~Precedes(key[i], key[k]) /\ k < i)
<1>1. \A i \in K : Prior[i] = {k \in K : Before(k, i)}
  BY LexOfTriples
<1>2. \A i \in K : key[i][1] \in Int /\ key[i][2] \in Int /\ key[i][3] \in Int /\ i \in Nat
  BY DEF Triple
<1>3. \A i \in K : ~Before(i, i)
  BY <1>2 DEF Precedes
<1>4. \A i, j \in K : i # j => Before(i, j) \/ Before(j, i)
  BY <1>2 DEF Precedes
<1>5. \A i, j, k \in K : Before(k, j) /\ Before(j, i) => Before(k, i)
  BY <1>2 DEF Precedes
<1> HIDE DEF Before
<1>6. \A i, k \in K : k \in Prior[i] <=> Before(k, i)
  BY <1>1
<1>7. \A i \in K : Prior[i] \subseteq K
  BY <1>1
<1>8. \A i, j \in K : j \in Prior[i] => Prior[j] \subseteq Prior[i]
  BY <1>5, <1>6, <1>7
<1> QED BY <1>3, <1>4, <1>6, <1>7, <1>8 DEF StrictOrder

(* Places alone make an order.                                             *)
LEMMA PlacesAreOrdered ==
  ASSUME NEW K \in SUBSET Nat, NEW Prior, \A i \in K : Prior[i] = {k \in K : k < i}
  PROVE  StrictOrder(K, Prior)
<1>1. \A i, k \in K : k \in Prior[i] <=> k < i
  OBVIOUS
<1>2. \A i \in K : Prior[i] \subseteq K /\ i \in Nat
  OBVIOUS
<1>3. \A i, j \in K : i # j => i < j \/ j < i
  BY <1>2
<1>4. \A i, j, k \in K : k < j /\ j < i => k < i
  BY <1>2
<1>5. \A i, j \in K : j \in Prior[i] => Prior[j] \subseteq Prior[i]
  BY <1>1, <1>2, <1>4
<1>6. \A i \in K : i \notin Prior[i]
  BY <1>1, <1>2
<1>7. \A i, j \in K : i # j => i \in Prior[j] \/ j \in Prior[i]
  BY <1>1, <1>3
<1> QED BY <1>2, <1>5, <1>6, <1>7 DEF StrictOrder

-----------------------------------------------------------------------------
(* Sums.  A sum over a finite set is defined by taking elements away one   *)
(* after the other; such a function exists, by induction over the size.    *)

Below == {p \in Nat \X Nat : p[1] < p[2]}

LEMMA LeastNat ==
  ASSUME NEW T, T \subseteq Nat, T # {}
  PROVE  \E n \in T : \A m \in T : n <= m
<1>1. OpToRel(<, Nat) = Below
  BY DEF OpToRel, Below
<1>2. IsWellFoundedOn(Below, Nat)
  BY <1>1, NatLessThanWellFounded
<1>3. \E n \in T : \A m \in T : ~(<<m, n>> \in Below)
  <2> HIDE DEF Below
  <2> QED BY <1>2, WFMin
<1>4. \A m, n \in Nat : m < n => <<m, n>> \in Below
  BY DEF Below
<1> HIDE DEF Below
<1>5. PICK n \in T : \A m \in T : <<m, n>> \notin Below
  BY <1>3
<1>6. \A m \in T : ~(m < n)
  BY <1>4, <1>5
<1> QED BY <1>6

LEMMA Induct ==
  ASSUME NEW S, S \subseteq Nat, 0 \in S, \A n \in S : n + 1 \in S
  PROVE  S = Nat
<1> SUFFICES ASSUME Nat \ S # {} PROVE FALSE OBVIOUS
<1>1. PICK n \in Nat \ S : \A m \in Nat \ S : n <= m
  BY LeastNat
<1>2. n # 0 /\ n - 1 \in Nat /\ n - 1 \in S
  BY <1>1
<1>3. (n - 1) + 1 \in S
  BY <1>2
<1> QED BY <1>3, <1>1

(* What holds of a finite set whenever it holds of those with an element   *)
(* less, the empty set included, holds of every subset.                    *)
LEMMA InductOverSubsets ==
  ASSUME NEW S, IsFiniteSet(S), NEW G,
         \A t \in SUBSET S : (\A x \in t : t \ {x} \in G) => t \in G
  PROVE  SUBSET S \subseteq G
<1> DEFINE N == {m \in Nat : \A t \in SUBSET S : Cardinality(t) <= m => t \in G}
<1>1. \A t \in SUBSET S : IsFiniteSet(t) /\ Cardinality(t) \in Nat
  BY FS_Subset, FS_CardinalityType
<1>2. 0 \in N
  <2>1. \A t \in SUBSET S : Cardinality(t) <= 0 => t = {}
    BY <1>1, FS_EmptySet
  <2> QED BY <2>1
<1>3. ASSUME NEW m \in N PROVE m + 1 \in N
  <2>1. ASSUME NEW t \in SUBSET S, Cardinality(t) <= m + 1 PROVE t \in G
    <3>1. ASSUME NEW x \in t PROVE t \ {x} \in G
      <4>1. t \ {x} \in SUBSET S /\ Cardinality(t \ {x}) = Cardinality(t) - 1
        BY <1>1, FS_RemoveElement
      <4>2. Cardinality(t \ {x}) <= m
        BY <1>1, <1>3, <2>1, <4>1
      <4> QED BY <1>3, <4>1, <4>2
    <3> QED BY <3>1
  <2> QED BY <1>3, <2>1
<1>4. N = Nat
  <2> HIDE DEF N
  <2>1. N \subseteq Nat
    BY DEF N
  <2> QED BY <1>2, <1>3, <2>1, Induct
<1> QED BY <1>1, <1>4

(* g takes away the elements one by one, the one that CHOOSE names first.  *)
One(t) == CHOOSE x \in t : TRUE
Sums(f, S, g) ==
    /\ g \in [SUBSET S -> Int]
    /\ \A t \in SUBSET S : g[t] = IF t = {} THEN 0 ELSE f[One(t)] + g[t \ {One(t)}]

LEMMA SumsExist ==
  ASSUME NEW S, IsFiniteSet(S), NEW f \in [S -> Int]
  PROVE  \E g : Sums(f, S, g)
<1> DEFINE Up(m) == {t \in SUBSET S : Cardinality(t) <= m}
           Step(g, t) == IF t = {} THEN 0 ELSE f[One(t)] + g[t \ {One(t)}]
           Defined(m) == \E g \in [Up(m) -> Int] : \A t \in Up(m) : g[t] = Step(g, t)
           N == {m \in Nat : Defined(m)}
<1>1. \A t \in SUBSET S : IsFiniteSet(t) /\ Cardinality(t) \in Nat
  BY FS_Subset, FS_CardinalityType
<1>2. \A t \in SUBSET S : t # {} => One(t) \in t
  BY DEF One
<1>3. \A t \in SUBSET S : t # {} => Cardinality(t \ {One(t)}) = Cardinality(t) - 1
  BY <1>1, <1>2, FS_RemoveElement
<1>4. Defined(0)
  <2>1. \A t \in Up(0) : t = {}
    BY <1>1, FS_EmptySet
  <2> DEFINE g == [t \in Up(0) |-> 0]
  <2>2. g \in [Up(0) -> Int] /\ \A t \in Up(0) : g[t] = Step(g, t)
    BY <2>1
  <2> HIDE DEF g
  <2> QED BY <2>2
<1>5. ASSUME NEW m \in Nat, Defined(m) PROVE Defined(m + 1)
  <2>1. PICK g \in [Up(m) -> Int] : \A t \in Up(m) : g[t] = Step(g, t)
    BY <1>5
  <2>2. \A t \in Up(m + 1) : t # {} => t \ {One(t)} \in Up(m)
    <3> TAKE t \in Up(m + 1)
    <3> HAVE t # {}
    <3>1. Cardinality(t \ {One(t)}) = Cardinality(t) - 1 /\ Cardinality(t) \in Nat
      BY <1>1, <1>3
    <3> QED BY <3>1
  <2>3. Up(m) \subseteq Up(m + 1)
    BY <1>1
  <2> DEFINE h == [t \in Up(m + 1) |-> IF t = {} THEN 0 ELSE f[One(t)] + g[t \ {One(t)}]]
  <2> HIDE DEF Up
  <2>4. Up(m + 1) \subseteq SUBSET S
    BY DEF Up
  <2>5. h \in [Up(m + 1) -> Int]
    BY <1>2, <2>2, <2>4
  <2>6. \A t \in Up(m) : h[t] = g[t]
    BY <2>1, <2>3
  <2>7. \A t \in Up(m + 1) : h[t] = Step(h, t)
    BY <2>2, <2>3, <2>6
  <2> HIDE DEF h
  <2> QED BY <2>5, <2>7
<1>6. N = Nat
  <2>1. N \subseteq Nat /\ 0 \in N /\ \A m \in N : m + 1 \in N
    <3> HIDE DEF Defined
    <3> QED BY <1>4, <1>5
  <2> HIDE DEF N
  <2> QED BY <2>1, Induct
<1>7. Defined(Cardinality(S))
  <2> HIDE DEF Defined
  <2>1. Cardinality(S) \in Nat
    BY FS_CardinalityType
  <2> QED BY <1>6, <2>1
<1>8. Up(Cardinality(S)) = SUBSET S
  BY FS_Subset
<1> QED BY <1>7, <1>8 DEF Sums

(* and whatever takes the elements away in that order is such a function.   *)
LEMMA SumsAreOne ==
  ASSUME NEW S, IsFiniteSet(S), NEW f \in [S -> Int], NEW iter,
         iter = [t \in SUBSET S |-> IF t = {} THEN 0 ELSE f[One(t)] + iter[t \ {One(t)}]]
  PROVE  Sums(f, S, iter)
<1> DEFINE G == {t \in SUBSET S : iter[t] \in Int}
<1>1. ASSUME NEW t \in SUBSET S, \A x \in t : t \ {x} \in G PROVE t \in G
  <2>1. iter[t] = IF t = {} THEN 0 ELSE f[One(t)] + iter[t \ {One(t)}]
    OBVIOUS
  <2>2. CASE t = {}
    BY <2>1, <2>2
  <2>3. CASE t # {}
    <3>1. One(t) \in t
      BY <2>3 DEF One
    <3>2. iter[t \ {One(t)}] \in Int /\ f[One(t)] \in Int
      BY <1>1, <3>1
    <3> QED BY <2>1, <2>3, <3>2
  <2> QED BY <2>2, <2>3
<1>2. SUBSET S \subseteq G
  <2> HIDE DEF G
  <2> QED BY <1>1, InductOverSubsets
<1> QED BY <1>2 DEF Sums

-----------------------------------------------------------------------------
(* The score is a number up to 99, and the flags of a ranked job follow    *)
(* from it.                                                                *)

LEMMA QuotientType ==
  ASSUME NEW a \in Int, NEW b \in Int, NEW c \in Int, NEW d \in Nat \ {0}
  PROVE  (a * b * c) \div d \in Int
<1>1. a * b \in Int
  OBVIOUS
<1>2. (a * b) * c \in Int
  BY <1>1
<1> DEFINE p == (a * b) * c
<1> HIDE DEF p
<1>3. p \in Int
  BY <1>2 DEF p
<1>4. p \div d \in Int
  BY <1>3
<1> QED BY <1>4 DEF p

LEMMA TotalType ==
  ASSUME NEW cats, IsFiniteSet(DOMAIN cats), NEW need, NEW met, NEW bonus \in Int,
         \A i \in DOMAIN cats : /\ cats[i].weight \in Int
                                /\ IsFiniteSet(need[i]) /\ IsFiniteSet(met[i])
  PROVE  Total(cats, need, met, bonus) \in 0..99
<1> DEFINE D == DOMAIN cats
           share(i) == IF need[i] = {} THEN 0
                       ELSE (Scale * cats[i].weight * Cardinality(met[i])) \div Cardinality(need[i])
           f == [i \in D |-> share(i)]
           Step(g, t) == IF t = {} THEN 0 ELSE share(One(t)) + g[t \ {One(t)}]
           sum == CHOOSE g : g = [t \in SUBSET D |-> Step(g, t)]
<1>1. ASSUME NEW i \in D PROVE share(i) \in Int
  <2>1. CASE need[i] = {}
    BY <2>1
  <2>2. CASE need[i] # {}
    <3>1. Cardinality(met[i]) \in Int /\ Cardinality(need[i]) \in Nat \ {0}
      BY <2>2, FS_CardinalityType, FS_EmptySet
    <3>2. Scale \in Int /\ cats[i].weight \in Int
      BY TablesAssumption
    <3>3. (Scale * cats[i].weight * Cardinality(met[i])) \div Cardinality(need[i]) \in Int
      BY <3>1, <3>2, QuotientType
    <3> QED BY <2>2, <3>3
  <2> QED BY <2>1, <2>2
<1>2. Total(cats, need, met, bonus) = Clamp(0, 99, MapThenSumSet(share, D) \div Scale + bonus)
  BY DEF Total
<1>3. MapThenSumSet(share, D) = sum[D]
  BY DEF MapThenSumSet, MapThenFoldSet, One
<1>4. sum[D] \in Int
  <2> HIDE DEF share
  <2>1. f \in [D -> Int]
    BY <1>1
  <2>2. \A i \in D : f[i] = share(i)
    OBVIOUS
  <2> HIDE DEF f
  <2>3. \A t \in SUBSET D : t # {} => One(t) \in D
    BY DEF One
  <2>4. PICK g : Sums(f, D, g)
    BY <2>1, SumsExist
  <2>5. g = [t \in SUBSET D |-> Step(g, t)]
    BY <2>2, <2>3, <2>4 DEF Sums
  <2>6. sum = [t \in SUBSET D |-> Step(sum, t)]
    BY <2>5
  <2> HIDE DEF sum
  <2>7. sum = [t \in SUBSET D |-> IF t = {} THEN 0 ELSE f[One(t)] + sum[t \ {One(t)}]]
    BY <2>2, <2>3, <2>6
  <2>8. Sums(f, D, sum)
    BY <2>1, <2>7, SumsAreOne
  <2> QED BY <2>8 DEF Sums
<1> DEFINE y == MapThenSumSet(share, D)
           x == y \div Scale + bonus
<1>5. x \in Int
  <2>1. Scale \in Nat \ {0}
    BY TablesAssumption
  <2>2. y \in Int
    BY <1>3, <1>4
  <2> HIDE DEF y
  <2> QED BY <2>1, <2>2
<1>6. Total(cats, need, met, bonus) = Clamp(0, 99, x)
  BY <1>2
<1> HIDE DEF x
<1>7. Clamp(0, 99, x) \in 0..99
  BY <1>5 DEF Clamp
<1> QED BY <1>6, <1>7

(* What the copilot scores with, which knows of no registry.               *)
Countable(config) ==
    /\ IsFiniteSet(DOMAIN config.cats)
    /\ \A i \in DOMAIN config.cats :
          /\ config.cats[i].weight \in Int
          /\ config.cats[i].universal
               \/ (DOMAIN config.cats[i].alias = {} /\ IsFiniteSet(config.cats[i].vocab))

LEMMA ConfigFacts ==
  ASSUME NEW job
  PROVE  Countable(_config_for_job(job, NoContext.scoring))
<1>1. _config_for_job(job, NoContext.scoring) \in {embedded_default_config, generic_config}
  BY DEF _config_for_job, NoContext, NoAlias
<1>2. DOMAIN NoAlias = {}
  BY DEF NoAlias
<1>3. Countable(generic_config)
  <2> DEFINE config == generic_config
  <2>1. DOMAIN config.cats = {1} /\ config.cats[1].universal = TRUE /\ config.cats[1].weight = 100
    BY DEF generic_config
  <2>2. IsFiniteSet({1})
    BY FS_Singleton
  <2> HIDE DEF config
  <2>3. Countable(config)
    BY <2>1, <2>2 DEF Countable
  <2> QED BY <2>3 DEF config
<1>4. Countable(embedded_default_config)
  <2> DEFINE config == embedded_default_config
  <2>1. DOMAIN WeightOrder = 1..7
    BY DEF WeightOrder
  <2>2. \A i \in 1..7 : WeightOrder[i] \in DOMAIN WEIGHTS /\ WEIGHTS[WeightOrder[i]] \in Int
    BY DEF WeightOrder, WEIGHTS
  <2>3. config.cats = [i \in 1..7 |->
     [code |-> WeightOrder[i], weight |-> WEIGHTS[WeightOrder[i]],
      vocab |-> Vocabulary[WeightOrder[i]], alias |-> NoAlias,
      universal |-> FALSE, bucketed |-> TRUE]]
    BY <2>1 DEF embedded_default_config, BucketConfig
  <2> HIDE DEF config
  <2>4. DOMAIN config.cats = 1..7 /\ \A i \in 1..7 :
           /\ config.cats[i].weight = WEIGHTS[WeightOrder[i]]
           /\ config.cats[i].vocab = Vocabulary[WeightOrder[i]] /\ config.cats[i].alias = NoAlias
    BY <2>3
  <2>5. IsFiniteSet(1..7)
    <3>1. 1 \in Int /\ 7 \in Int
      OBVIOUS
    <3> QED BY <3>1, FS_Interval, Zenon
  <2>6. \A i \in 1..7 : IsFiniteSet(Vocabulary[WeightOrder[i]])
    BY <2>2, TablesAssumption
  <2>7. Countable(config)
    BY <1>2, <2>2, <2>4, <2>5, <2>6 DEF Countable
  <2> QED BY <2>7 DEF config
<1> QED BY <1>1, <1>3, <1>4

LEMMA ScoreType ==
  ASSUME NEW who, NEW job, IsFiniteSet(job.required)
  PROVE  compute_match(who, job, _config_for_job(job, NoContext.scoring), NoContext.targets).total \in 0..99
<1> DEFINE config == _config_for_job(job, NoContext.scoring)
           need == [i \in DOMAIN config.cats |-> JobWords(config.cats[i], job)]
           met == [i \in DOMAIN config.cats |-> need[i] \cap ProfileWords(config.cats[i], who)]
           bonus == ExperienceBonus(job, who.years) + DomainBonus(config, job, who, NoContext.targets)
<1>1. Countable(config)
  BY ConfigFacts
<1>2. compute_match(who, job, config, NoContext.targets).total = Total(config.cats, need, met, bonus)
  BY DEF compute_match, Matched, MatchOf
<1> HIDE DEF config
<1>3. ASSUME NEW i \in DOMAIN config.cats
      PROVE  IsFiniteSet(need[i]) /\ IsFiniteSet(met[i])
  <2>1. IsFiniteSet(JobWords(config.cats[i], job))
    <3>1. CASE config.cats[i].universal
      BY <3>1 DEF JobWords
    <3>2. CASE ~config.cats[i].universal
      <4>1. JobWords(config.cats[i], job) = config.cats[i].vocab \cap (job.text \cup job.required)
        BY <1>1, <3>2 DEF JobWords, Countable
      <4>2. IsFiniteSet(config.cats[i].vocab)
        BY <1>1, <3>2 DEF Countable
      <4> QED BY <4>1, <4>2, FS_Intersection
    <3> QED BY <3>1, <3>2
  <2>2. need[i] = JobWords(config.cats[i], job) /\ met[i] = need[i] \cap ProfileWords(config.cats[i], who)
    OBVIOUS
  <2> QED BY <2>1, <2>2, FS_Intersection
<1>4. bonus \in Int
  <2>1. ExperienceBonus(job, who.years) \in Int
    BY DEF ExperienceBonus
  <2>2. DomainBonus(config, job, who, NoContext.targets) \in Int
    BY DEF DomainBonus, Flag
  <2> QED BY <2>1, <2>2
<1> HIDE DEF need, met, bonus
<1>5. Total(config.cats, need, met, bonus) \in 0..99
  BY <1>1, <1>3, <1>4, TotalType DEF Countable
<1> QED BY <1>2, <1>5 DEF config

-----------------------------------------------------------------------------
(* A ranking lists what was kept, and counts what it lists.                *)

Flagged(job) ==
    /\ job.score \in Int
    /\ job.auto => job.score >= 85
    /\ job.tier = "strong" <=> ~job.auto /\ job.score >= 70

AutoIn(jobs) == {i \in DOMAIN jobs : jobs[i].auto}
StrongIn(jobs) == {i \in DOMAIN jobs : ~jobs[i].auto /\ jobs[i].score >= 70}

Counted(r) ==
    /\ \A i \in DOMAIN r.jobs : Flagged(r.jobs[i])
    /\ r.auto = Cardinality(AutoIn(r.jobs))
    /\ r.strong = Cardinality(StrongIn(r.jobs))

LEMMA RankedCounts ==
  ASSUME NEW n \in Nat, NEW row, DOMAIN row = 1..n,
         \A i \in 1..n : Flagged(row[i]),
         NEW kept \in SUBSET (1..n)
  PROVE  Counted(Ranked(row, kept))
<1> DEFINE r == Ranked(row, kept)
           Before(i, k) == Lex(SortKey(row[i]), SortKey(row[k]))
           key == [i \in kept |-> SortKey(row[i])]
           Prior == [i \in kept |->
             {k \in kept : Before(k, i) \/ (~Before(i, k) /\ k < i)}]
           m == Cardinality(kept)
           order == Ranking(kept, Prior)
<1>1. IsFiniteSet(kept) /\ m \in Nat
  <2>1. IsFiniteSet(1..n)
    BY FS_Interval
  <2> QED BY <2>1, FS_Subset, FS_CardinalityType
<1>2. order \in Bijection(1..m, kept)
  <2>1. \A i \in kept : SortKey(row[i]) \in Triple
    BY DEF SortKey, Flag, Triple, Flagged
  <2>2. key \in [kept -> Triple]
    BY <2>1
  <2>3. kept \in SUBSET Nat
    OBVIOUS
  <2>4. \A i \in kept : Prior[i] = {k \in kept : Lex(key[k], key[i]) \/ (~Lex(key[i], key[k]) /\ k < i)}
    OBVIOUS
  <2> HIDE DEF key, Prior
  <2>5. StrictOrder(kept, Prior)
    BY <2>2, <2>3, <2>4, TriplesAreOrdered
  <2> QED BY <1>1, <2>5, RankingFacts
<1>3. InOrder(kept, Before) = order
  BY DEF InOrder, Ranking
<1>4. r.jobs = Picked(row, order) /\ r.auto = Cardinality({i \in kept : row[i].auto})
      /\ r.strong = Cardinality({i \in kept : row[i].tier = "strong"})
  BY <1>3 DEF Ranked
<1> HIDE DEF order, r
<1>5. DOMAIN order = 1..m /\ \A k \in 1..m : order[k] \in kept
  BY <1>2 DEF Bijection, Injection
<1>6. DOMAIN r.jobs = 1..m /\ \A k \in 1..m : r.jobs[k] = row[order[k]]
  BY <1>4, <1>5 DEF Picked
<1>7. IsFiniteSet(1..m)
  BY <1>1, FS_Interval
<1>8. r.auto = Cardinality(AutoIn(r.jobs))
  <2> DEFINE U == {i \in kept : row[i].auto}
  <2>1. /\ AutoIn(r.jobs) \in SUBSET (1..m)
        /\ \A k \in 1..m : k \in AutoIn(r.jobs) <=> order[k] \in U
    BY <1>5, <1>6 DEF AutoIn
  <2>2. U \in SUBSET kept
    OBVIOUS
  <2> HIDE DEF U, m
  <2> DEFINE A == AutoIn(r.jobs)  P == 1..m
  <2>3. LeadsInto(order, P, kept, A, U)
    BY <2>1, <2>2 DEF LeadsInto
  <2>4. order \in Bijection(P, kept) /\ IsFiniteSet(P)
    BY <1>2, <1>7
  <2> HIDE DEF A, P
  <2>5. Cardinality(A) = Cardinality(U)
    BY <2>3, <2>4, PartOfBijection
  <2> QED BY <1>4, <2>5 DEF A, U
<1>9. r.strong = Cardinality(StrongIn(r.jobs))
  <2> DEFINE U == {i \in kept : row[i].tier = "strong"}
  <2>1. /\ StrongIn(r.jobs) \in SUBSET (1..m)
        /\ \A k \in 1..m : k \in StrongIn(r.jobs) <=> order[k] \in U
    BY <1>5, <1>6 DEF StrongIn, Flagged
  <2>2. U \in SUBSET kept
    OBVIOUS
  <2> HIDE DEF U, m
  <2> DEFINE A == StrongIn(r.jobs)  P == 1..m
  <2>3. LeadsInto(order, P, kept, A, U)
    BY <2>1, <2>2 DEF LeadsInto
  <2>4. order \in Bijection(P, kept) /\ IsFiniteSet(P)
    BY <1>2, <1>7
  <2> HIDE DEF A, P
  <2>5. Cardinality(A) = Cardinality(U)
    BY <2>3, <2>4, PartOfBijection
  <2> QED BY <1>4, <2>5 DEF A, U
<1>10. \A k \in DOMAIN r.jobs : Flagged(r.jobs[k])
  BY <1>5, <1>6
<1> QED BY <1>8, <1>9, <1>10 DEF Counted, r

LEMMA MergedPostings ==
  ASSUME NEW live, NEW seed, Postings(live), Postings(seed)
  PROVE  Postings(_merge_corpus(live, seed))
<1> DEFINE all == live \o seed
           new == {i \in DOMAIN all : \A k \in 1..(i - 1) : all[k].key # all[i].key}
           Before(i, k) == FALSE
           Prior == [i \in new |-> {k \in new : Before(k, i) \/ (~Before(i, k) /\ k < i)}]
           m == Cardinality(new)
           order == Ranking(new, Prior)
           merged == _merge_corpus(live, seed)
<1>1. PICK n \in Nat : DOMAIN all = 1..n /\ \A i \in 1..n : IsFiniteSet(all[i].required)
  <2> DEFINE T == {live[i] : i \in DOMAIN live}  U == {seed[i] : i \in DOMAIN seed}
  <2>1. /\ live \in Seq(T) /\ \A i \in DOMAIN live : IsFiniteSet(live[i].required)
        /\ seed \in Seq(U) /\ \A i \in DOMAIN seed : IsFiniteSet(seed[i].required)
    BY DEF Postings
  <2> HIDE DEF T, U
  <2>2. /\ DOMAIN all = 1..(Len(live) + Len(seed)) /\ Len(live) \in Nat /\ Len(seed) \in Nat
        /\ DOMAIN live = 1..Len(live) /\ DOMAIN seed = 1..Len(seed)
        /\ \A i \in DOMAIN all : all[i] = IF i <= Len(live) THEN live[i] ELSE seed[i - Len(live)]
    BY <2>1
  <2> HIDE DEF all
  <2>3. \A i \in DOMAIN all : IF i <= Len(live) THEN i \in DOMAIN live ELSE i - Len(live) \in DOMAIN seed
    BY <2>2
  <2>4. \A i \in DOMAIN all : IsFiniteSet(all[i].required)
    BY <2>1, <2>2, <2>3
  <2> QED BY <2>2, <2>4
<1>2. new \in SUBSET (1..n) /\ new \in SUBSET Nat
  BY <1>1
<1>3. IsFiniteSet(new) /\ m \in Nat
  <2>1. IsFiniteSet(1..n)
    BY <1>1, FS_Interval
  <2> HIDE DEF new
  <2> QED BY <1>2, <2>1, FS_Subset, FS_CardinalityType
<1> HIDE DEF all
<1>4. InOrder(new, Before) = order
  BY DEF InOrder, Ranking
<1>5. merged = Picked(all, order)
  BY <1>4 DEF _merge_corpus, Filtered, all
<1> HIDE DEF new, merged
<1>6. order \in Bijection(1..m, new)
  <2>0. \A i \in new : Prior[i] = {k \in new : k < i}
    OBVIOUS
  <2> HIDE DEF Prior
  <2>1. StrictOrder(new, Prior)
    BY <1>2, <2>0, PlacesAreOrdered
  <2> QED BY <1>3, <2>1, RankingFacts
<1> HIDE DEF order
<1>7. DOMAIN order = 1..m /\ \A k \in 1..m : order[k] \in new
  BY <1>6 DEF Bijection, Injection
<1>8. merged = [k \in 1..m |-> all[order[k]]]
  BY <1>5, <1>7 DEF Picked
<1>9. \A k \in 1..m : IsFiniteSet(merged[k].required)
  BY <1>1, <1>2, <1>7, <1>8
<1>10. DOMAIN merged = 1..m /\ merged \in [1..m -> {merged[i] : i \in DOMAIN merged}]
  BY <1>8
<1>11. merged \in Seq({merged[i] : i \in DOMAIN merged})
  <2> DEFINE T == {merged[i] : i \in DOMAIN merged}
  <2>1. merged \in [1..m -> T]
    BY <1>10
  <2> HIDE DEF T
  <2>2. merged \in Seq(T)
    BY <1>3, <2>1
  <2> QED BY <2>2 DEF T
<1> QED BY <1>9, <1>10, <1>11 DEF Postings, merged

(* Whatever the profile and the postings, salary bar and minimal score.    *)
LEMMA MatchingCounts ==
  ASSUME NEW who, NEW jobs, Postings(jobs), NEW min_score, NEW bar
  PROVE  Counted(run_matching(who, jobs, min_score, bar, NoContext))
<1> DEFINE scored(i) == compute_match(who, jobs[i], _config_for_job(jobs[i], NoContext.scoring),
                                      NoContext.targets)
           row == [i \in DOMAIN jobs |-> RankedJob(jobs[i], scored(i), bar)]
           kept == {i \in DOMAIN row : row[i].score >= min_score}
<1>1. PICK n \in Nat : DOMAIN jobs = 1..n
  BY DEF Postings
<1>2. \A i \in 1..n : scored(i).total \in 0..99
  BY <1>1, ScoreType DEF Postings
<1>3. ASSUME NEW job, NEW made, made.total \in 0..99
      PROVE  Flagged(RankedJob(job, made, bar))
  <2> DEFINE meets == _meets_salary(job, bar)
             j == RankedJob(job, made, bar)
  <2>1. meets \in BOOLEAN
    BY DEF _meets_salary
  <2>2. /\ j.score = made.total /\ j.auto = (made.total >= 85 /\ meets)
        /\ j.tier = _tier(made.total, meets)
    BY DEF RankedJob
  <2> HIDE DEF j, meets
  <2>3. j.tier = "strong" <=> ~(made.total >= 85 /\ meets) /\ made.total >= 70
    BY <1>3, <2>1, <2>2 DEF _tier
  <2>4. j.auto <=> made.total >= 85 /\ meets
    BY <2>2
  <2>5. j.score \in Int /\ (j.auto => j.score >= 85)
    BY <1>3, <2>2, <2>4
  <2>6. j.tier = "strong" <=> ~j.auto /\ j.score >= 70
    BY <2>2, <2>3, <2>4
  <2>7. Flagged(j)
    BY <2>5, <2>6 DEF Flagged
  <2> QED BY <2>7 DEF j
<1>4. DOMAIN row = 1..n /\ \A i \in 1..n : row[i] = RankedJob(jobs[i], scored(i), bar)
  BY <1>1
<1>5. run_matching(who, jobs, min_score, bar, NoContext) = Ranked(row, kept)
  BY DEF run_matching, rank_jobs, FromScore
<1> HIDE DEF scored
<1>6. \A i \in 1..n : Flagged(row[i])
  BY <1>2, <1>3, <1>4
<1> HIDE DEF row
<1>7. kept \in SUBSET (1..n)
  BY <1>4
<1> HIDE DEF kept
<1> QED BY <1>4, <1>5, <1>6, <1>7, RankedCounts

-----------------------------------------------------------------------------
(* The copilot.  What it decided it decided of the ranking it still has,   *)
(* whose counts the insights repeat.                                       *)

AfterDecisions == {"decided", "planned", "coached", "done"}
AfterReasons == AfterDecisions \cup {"reasoned"}

RunInv ==
    /\ \E case \in Cases : ask = case[2]
    /\ phase \in AfterReasons \cup {"found"} => Counted(result)
    /\ phase \in AfterReasons => insights.auto = result.auto /\ insights.strong = result.strong
    /\ decisions = IF phase \in AfterDecisions THEN [i \in DOMAIN Jobs |-> decide_for_job(Jobs[i])]
                   ELSE <<>>

LEMMA BucketsFit ==
  ASSUME NEW job, Flagged(job)
  PROVE  BucketFitsAction(job)
<1> DEFINE crit == Cardinality(job.gap["HIGH"])
           small == crit <= 2
           none == crit = 0
<1>1. /\ job.score \in Int
      /\ job.auto => job.score >= 85
  BY DEF Flagged
<1>2. Action(job) =
        CASE job.auto -> "apply_now"
          [] ~job.auto /\ job.score >= 70 -> IF none THEN "recommend" ELSE "interview_prep"
          [] job.score \in 55..69 /\ small -> IF none THEN "recommend" ELSE "upskill_first"
          [] job.score \in 40..69 /\ ~(job.score >= 55 /\ small) -> "stretch"
          [] OTHER -> "skip"
  BY DEF Action
<1> HIDE DEF small, none
<1>3. CASE job.auto
  <2>1. Action(job) = "apply_now"
    BY <1>1, <1>2, <1>3
  <2> QED BY <1>1, <1>3, <2>1 DEF BucketFitsAction, _bucket
<1>4. CASE ~job.auto /\ job.score >= 70
  <2>1. Action(job) \in {"recommend", "interview_prep"}
    BY <1>1, <1>2, <1>4
  <2> QED BY <1>1, <1>4, <2>1 DEF BucketFitsAction, _bucket
<1>5. CASE ~job.auto /\ job.score < 70 /\ job.score >= 40
  <2>1. Action(job) \in {"recommend", "upskill_first", "stretch"}
    BY <1>1, <1>2, <1>5
  <2> QED BY <1>1, <1>5, <2>1 DEF BucketFitsAction, _bucket
<1>6. CASE ~job.auto /\ job.score < 40
  <2>1. Action(job) = "skip"
    BY <1>1, <1>2, <1>6
  <2> QED BY <1>1, <1>6, <2>1 DEF BucketFitsAction, _bucket
<1> QED BY <1>1, <1>3, <1>4, <1>5, <1>6

LEMMA BucketsAgree == RunInv => BucketsAgreeWithDecisions
<1> SUFFICES ASSUME RunInv, decisions # <<>> PROVE
      /\ \A i \in DOMAIN Jobs : BucketFitsAction(Jobs[i]) /\ decisions[i].action = Action(Jobs[i])
      /\ insights.auto = Cardinality(InBucket("apply_now"))
      /\ insights.strong = Cardinality(InBucket("strong"))
  BY DEF BucketsAgreeWithDecisions
<1>1. phase \in AfterDecisions /\ phase \in AfterReasons
  BY DEF RunInv, AfterReasons
<1>2. /\ Counted(result) /\ insights.auto = result.auto /\ insights.strong = result.strong
      /\ decisions = [i \in DOMAIN Jobs |-> decide_for_job(Jobs[i])]
  BY <1>1 DEF RunInv
<1>3. \A i \in DOMAIN Jobs : Flagged(Jobs[i])
  BY <1>2 DEF Counted, Jobs
<1>4. \A i \in DOMAIN Jobs : BucketFitsAction(Jobs[i])
  BY <1>3, BucketsFit
<1>5. \A i \in DOMAIN Jobs : decisions[i].action = Action(Jobs[i])
  BY <1>2 DEF decide_for_job
<1>6. \A i \in DOMAIN Jobs : find_opportunities[i].bucket = _bucket(Jobs[i])
  BY DEF find_opportunities, _to_opportunity
<1>7. InBucket("apply_now") = AutoIn(Jobs)
  <2>1. \A i \in DOMAIN Jobs : _bucket(Jobs[i]) = "apply_now" <=> Jobs[i].auto
    BY DEF _bucket
  <2> QED BY <1>6, <2>1 DEF InBucket, AutoIn
<1>8. InBucket("strong") = StrongIn(Jobs)
  <2>1. \A i \in DOMAIN Jobs : _bucket(Jobs[i]) = "strong" <=> ~Jobs[i].auto /\ Jobs[i].score >= 70
    BY DEF _bucket
  <2> QED BY <1>6, <2>1 DEF InBucket, StrongIn
<1> QED BY <1>2, <1>4, <1>5, <1>7, <1>8 DEF Counted, Jobs

LEMMA RunInductive == RunInv /\ [AnswersNext]_answers => RunInv'
<1> SUFFICES ASSUME RunInv, [AnswersNext]_answers PROVE RunInv'
  OBVIOUS
<1> USE DEF AfterDecisions, AfterReasons
<1>1. CASE AddVerifiedSkills
  BY <1>1 DEF AddVerifiedSkills, RunInv
<1>2. CASE Find
  <2>1. Postings(Corpus)
    <3>1. Postings(ask.seed) /\ (ask.live = None \/ Postings(ask.live))
      BY CasesAssumption DEF RunInv
    <3> QED BY <3>1, MergedPostings DEF Corpus
  <2>2. Counted(result')
    BY <1>2, <2>1, MatchingCounts DEF Find
  <2> QED BY <1>2, <2>2 DEF Find, RunInv
<1>3. CASE Reason
  <2>1. insights'.auto = result.auto /\ insights'.strong = result.strong
    BY <1>3 DEF Reason, reason_about_career
  <2> QED BY <1>3, <2>1 DEF Reason, RunInv
<1>4. CASE Decide
  BY <1>4 DEF Decide, RunInv, Jobs
<1>5. CASE Plan
  BY <1>5 DEF Plan, RunInv, Jobs
<1>6. CASE Coach
  BY <1>6 DEF Coach, RunInv, Jobs
<1>7. CASE Execute
  <2>1. phase = "coached" /\ phase' = "done" /\ UNCHANGED <<ask, result, insights, decisions>>
    BY <1>7 DEF Execute
  <2> QED BY <2>1 DEF RunInv, Jobs
<1>8. CASE get_recommendations
  <2>1. phase \in {"start", "verified"} /\ phase' = "served" /\ UNCHANGED <<ask, decisions>>
    BY <1>8 DEF get_recommendations
  <2> QED BY <2>1 DEF RunInv
<1>9. CASE \E kind, answer : Serves(kind, answer)
  <2>1. phase \in {"start", "verified"} /\ phase' = "served" /\ UNCHANGED <<ask, decisions>>
    BY <1>9 DEF Serves
  <2> QED BY <2>1 DEF RunInv
<1>10. CASE UNCHANGED vars
  BY <1>10 DEF vars, RunInv, Jobs
<1>11. \/ Next \/ UNCHANGED vars \/ \E kind, answer : Serves(kind, answer)
  <2>1. CASE AdviceNext
    BY <2>1 DEF AdviceNext, simulate_career, salary_negotiation, job_roadmap, general_roadmap,
         adaptive_targets, adaptive_dream, get_profile, get_dashboard, weekly_report,
         get_job_gaps, search_jobs, feedback_summary, company_profile, review_code,
         submit_solution, unified_matching
  <2>2. CASE ~AdviceNext
    BY <2>2 DEF AnswersNext, answers, advice, Gives, graph_query, daily_brief, flashcard_schedule,
         mock_interview, mock_evaluate, get_lesson, personal_plan, interview_prep,
         resume_intelligence, profile_domains, agent_call, twin_day, usage_pages, Grounded
  <2> QED BY <2>1, <2>2
<1> QED BY <1>1, <1>2, <1>3, <1>4, <1>5, <1>6, <1>7, <1>8, <1>9, <1>10, <1>11 DEF Next

(* Whatever the postings, the profile and the thresholds: finder, reasoner *)
(* and decision engine put every job on the same side of their lines, and  *)
(* the counts of the headline are those of the list below it.              *)
THEOREM AlwaysAgree == AnswersSpec => []BucketsAgreeWithDecisions
<1>1. AnswersInit => RunInv
  BY DEF AnswersInit, AdviceInit, Init, RunInv, AfterDecisions, AfterReasons
<1> QED BY <1>1, BucketsAgree, RunInductive, PTL DEF AnswersSpec
-----------------------------------------------------------------------------
(* What such a sum is, whatever is taken away first.                       *)
Plus(f, t) == (CHOOSE g : Sums(f, DOMAIN f, g))[t]

LEMMA PlusFacts ==
  ASSUME NEW S, IsFiniteSet(S), NEW f \in [S -> Int]
  PROVE  /\ \A t \in SUBSET S : Plus(f, t) \in Int
         /\ Plus(f, {}) = 0
         /\ \A t \in SUBSET S : \A x \in t : Plus(f, t) = f[x] + Plus(f, t \ {x})
<1> DEFINE g == CHOOSE g : Sums(f, S, g)
           G == {t \in SUBSET S : \A x \in t : g[t] = f[x] + g[t \ {x}]}
<1>1. Sums(f, S, g)
  BY SumsExist
<1>2. \A t \in SUBSET S : Plus(f, t) = g[t]
  BY DEF Plus
<1> HIDE DEF g
<1>3. \A t \in SUBSET S : g[t] \in Int
  BY <1>1 DEF Sums
<1>4. \A t \in SUBSET S : t # {} => One(t) \in t /\ g[t] = f[One(t)] + g[t \ {One(t)}]
  BY <1>1 DEF Sums, One
<1>5. ASSUME NEW t \in SUBSET S, \A x \in t : t \ {x} \in G PROVE t \in G
  <2> SUFFICES ASSUME NEW x \in t PROVE g[t] = f[x] + g[t \ {x}]
    OBVIOUS
  <2> DEFINE y == One(t)
  <2>1. y \in t /\ g[t] = f[y] + g[t \ {y}]
    BY <1>4
  <2> HIDE DEF y
  <2>2. CASE x = y
    BY <2>1, <2>2
  <2>3. CASE x # y
    <3>1. g[t \ {y}] = f[x] + g[(t \ {y}) \ {x}]
      BY <1>5, <2>1, <2>3
    <3>2. g[t \ {x}] = f[y] + g[(t \ {x}) \ {y}]
      BY <1>5, <2>1, <2>3
    <3>3. (t \ {x}) \ {y} = (t \ {y}) \ {x}
      OBVIOUS
    <3>4. f[x] \in Int /\ f[y] \in Int /\ g[(t \ {x}) \ {y}] \in Int
      BY <1>3, <2>1
    <3>5. g[t] = f[y] + (f[x] + g[(t \ {x}) \ {y}])
      BY <2>1, <3>1, <3>3
    <3> HIDE DEF G
    <3> QED BY <3>2, <3>4, <3>5
  <2> QED BY <2>2, <2>3
<1>6. SUBSET S \subseteq G
  <2> HIDE DEF G
  <2> QED BY <1>5, InductOverSubsets
<1>7. g[{}] = 0
  BY <1>1 DEF Sums
<1> QED BY <1>2, <1>3, <1>6, <1>7

(* A part of S may be summed by a function of its own.                     *)
Sums1(f, T, g) ==
  g = [t \in SUBSET T |-> IF t = {} THEN 0 ELSE f[One(t)] + g[t \ {One(t)}]]

LEMMA PlusOfPart ==
  ASSUME NEW S, IsFiniteSet(S), NEW f \in [S -> Int], NEW T \in SUBSET S
  PROVE  /\ \E g : Sums1(f, T, g)
         /\ \A g : Sums1(f, T, g) => g[T] = Plus(f, T)
<1>1. \A t \in SUBSET T : t # {} => One(t) \in t /\ Plus(f, t) = f[One(t)] + Plus(f, t \ {One(t)})
  <2> TAKE t \in SUBSET T
  <2> HAVE t # {}
  <2>1. One(t) \in t
    BY DEF One
  <2> QED BY <2>1, PlusFacts
<1>2. \E g : Sums1(f, T, g)
  <2> DEFINE g == [t \in SUBSET T |-> Plus(f, t)]
  <2>1. \A t \in SUBSET T : g[t] = IF t = {} THEN 0 ELSE f[One(t)] + g[t \ {One(t)}]
    BY <1>1, PlusFacts
  <2>2. g = [t \in SUBSET T |-> g[t]]
    OBVIOUS
  <2> HIDE DEF g
  <2>3. Sums1(f, T, g)
    BY <2>1, <2>2 DEF Sums1
  <2> QED BY <2>3
<1>3. ASSUME NEW g, Sums1(f, T, g) PROVE g[T] = Plus(f, T)
  <2> DEFINE G == {t \in SUBSET T : g[t] = Plus(f, t)}
  <2>1. IsFiniteSet(T)
    BY FS_Subset
  <2>2. \A t \in SUBSET T : g[t] = IF t = {} THEN 0 ELSE f[One(t)] + g[t \ {One(t)}]
    BY <1>3 DEF Sums1
  <2>3. ASSUME NEW t \in SUBSET T, \A x \in t : t \ {x} \in G PROVE t \in G
    BY <1>1, <2>2, <2>3, PlusFacts
  <2>4. SUBSET T \subseteq G
    <3> HIDE DEF G
    <3> QED BY <2>1, <2>3, InductOverSubsets
  <2> QED BY <2>4
<1> QED BY <1>2, <1>3

(* Two parts without a common element add up.                              *)
LEMMA PlusOfUnion ==
  ASSUME NEW S, IsFiniteSet(S), NEW f \in [S -> Int], NEW T \in SUBSET S, NEW U \in SUBSET S,
         T \cap U = {}
  PROVE  Plus(f, T \cup U) = Plus(f, T) + Plus(f, U)
<1> DEFINE G == {t \in SUBSET T : Plus(f, t \cup U) = Plus(f, t) + Plus(f, U)}
<1>1. IsFiniteSet(T)
  BY FS_Subset
<1>2. ASSUME NEW t \in SUBSET T, \A x \in t : t \ {x} \in G PROVE t \in G
  <2>1. CASE t = {}
    BY <2>1, PlusFacts
  <2>2. CASE t # {}
    <3>1. PICK x : x \in t
      BY <2>2
    <3>2. Plus(f, t) = f[x] + Plus(f, t \ {x})
      BY <3>1, PlusFacts
    <3>3. t \cup U \in SUBSET S /\ x \in t \cup U /\ (t \cup U) \ {x} = (t \ {x}) \cup U
      BY <3>1
    <3>4. Plus(f, t \cup U) = f[x] + Plus(f, (t \ {x}) \cup U)
      BY <3>3, PlusFacts
    <3>5. Plus(f, (t \ {x}) \cup U) = Plus(f, t \ {x}) + Plus(f, U)
      BY <1>2, <3>1
    <3>6. /\ f[x] \in Int /\ Plus(f, t \ {x}) \in Int /\ Plus(f, U) \in Int
      BY <3>1, PlusFacts
    <3> QED BY <3>2, <3>4, <3>5, <3>6
  <2> QED BY <2>1, <2>2
<1>3. SUBSET T \subseteq G
  <2> HIDE DEF G
  <2> QED BY <1>1, <1>2, InductOverSubsets
<1> QED BY <1>3

(* Larger summands, a larger sum.                                          *)
LEMMA PlusGrows ==
  ASSUME NEW S, IsFiniteSet(S), NEW f \in [S -> Int], NEW h \in [S -> Int],
         \A i \in S : f[i] <= h[i]
  PROVE  Plus(f, S) <= Plus(h, S)
<1> DEFINE G == {t \in SUBSET S : Plus(f, t) <= Plus(h, t)}
<1>1. ASSUME NEW t \in SUBSET S, \A x \in t : t \ {x} \in G PROVE t \in G
  <2>1. CASE t = {}
    BY <2>1, PlusFacts
  <2>2. CASE t # {}
    <3>1. PICK x : x \in t
      BY <2>2
    <3>2. Plus(f, t) = f[x] + Plus(f, t \ {x})
      BY <3>1, PlusFacts
    <3>3. Plus(h, t) = h[x] + Plus(h, t \ {x})
      BY <3>1, PlusFacts
    <3>4. Plus(f, t \ {x}) <= Plus(h, t \ {x}) /\ f[x] <= h[x]
      BY <1>1, <3>1
    <3>5. /\ f[x] \in Int /\ Plus(f, t \ {x}) \in Int /\ h[x] \in Int /\ Plus(h, t \ {x}) \in Int
      BY <3>1, PlusFacts
    <3> QED BY <3>2, <3>3, <3>4, <3>5
  <2> QED BY <2>1, <2>2
<1>2. SUBSET S \subseteq G
  <2> HIDE DEF G
  <2> QED BY <1>1, InductOverSubsets
<1> QED BY <1>2

(* and of more summands which are not negative.                            *)
LEMMA PlusOfMore ==
  ASSUME NEW S, IsFiniteSet(S), NEW f \in [S -> Nat], NEW T \in SUBSET S
  PROVE  0 <= Plus(f, T) /\ Plus(f, T) <= Plus(f, S)
<1> DEFINE G == {t \in SUBSET S : 0 <= Plus(f, t)}
<1>0. f \in [S -> Int]
  OBVIOUS
<1>1. ASSUME NEW t \in SUBSET S, \A x \in t : t \ {x} \in G PROVE t \in G
  <2>1. CASE t = {}
    BY <1>0, <2>1, PlusFacts
  <2>2. CASE t # {}
    <3>1. PICK x : x \in t
      BY <2>2
    <3>2. Plus(f, t) = f[x] + Plus(f, t \ {x})
      BY <1>0, <3>1, PlusFacts
    <3>3. 0 <= Plus(f, t \ {x}) /\ f[x] \in Nat /\ Plus(f, t \ {x}) \in Int
      BY <1>0, <1>1, <3>1, PlusFacts
    <3> QED BY <3>2, <3>3
  <2> QED BY <2>1, <2>2
<1>2. SUBSET S \subseteq G
  <2> HIDE DEF G
  <2> QED BY <1>1, InductOverSubsets
<1>3. Plus(f, T \cup (S \ T)) = Plus(f, T) + Plus(f, S \ T)
  BY <1>0, PlusOfUnion
<1>4. T \cup (S \ T) = S /\ T \in SUBSET S /\ S \ T \in SUBSET S
  OBVIOUS
<1>5. Plus(f, T) \in Int /\ Plus(f, S \ T) \in Int
  BY <1>0, <1>4, PlusFacts
<1> QED BY <1>2, <1>3, <1>4, <1>5
LEMMA PlusOfOne ==
  ASSUME NEW S, IsFiniteSet(S), NEW f \in [S -> Int], NEW x \in S
  PROVE  Plus(f, {x}) = f[x]
<1>1. {x} \in SUBSET S /\ x \in {x}
  OBVIOUS
<1>2. Plus(f, {x}) = f[x] + Plus(f, {x} \ {x})
  BY <1>1, PlusFacts
<1>3. {x} \ {x} = {}
  OBVIOUS
<1>4. Plus(f, {x}) = f[x] + 0
  BY <1>2, <1>3, PlusFacts
<1> QED BY <1>4

LEMMA PlusOfOneMore ==
  ASSUME NEW S, IsFiniteSet(S), NEW f \in [S -> Int], NEW T \in SUBSET S, NEW x \in S \ T
  PROVE  Plus(f, T \cup {x}) = Plus(f, T) + f[x]
<1>1. T \cup {x} \in SUBSET S /\ x \in T \cup {x}
  OBVIOUS
<1>2. Plus(f, T \cup {x}) = f[x] + Plus(f, (T \cup {x}) \ {x})
  BY <1>1, PlusFacts
<1>3. (T \cup {x}) \ {x} = T
  OBVIOUS
<1>4. Plus(f, (T \cup {x}) \ {x}) = Plus(f, T)
  BY <1>3, Zenon
<1>5. f[x] \in Int /\ Plus(f, T) \in Int
  BY PlusFacts
<1> QED BY <1>2, <1>4, <1>5
-----------------------------------------------------------------------------
(* A function on 0..n that is defined from its value before.               *)
LEMMA UpTo ==
  ASSUME NEW n \in Nat, NEW S, 0 \in S, \A m \in 0..(n - 1) : m \in S => m + 1 \in S
  PROVE  0..n \subseteq S
<1> DEFINE G == {m \in Nat : m <= n => m \in S}
<1>1. 0 \in G /\ G \subseteq Nat
  OBVIOUS
<1>2. ASSUME NEW m \in G PROVE m + 1 \in G
  <2>1. m + 1 <= n => m \in 0..(n - 1) /\ m \in S
    BY <1>2
  <2> QED BY <2>1
<1>3. G = Nat
  <2> HIDE DEF G
  <2> QED BY <1>1, <1>2, Induct
<1> QED BY <1>3

Follows(base, n, F, g) == g = [m \in 0..n |-> IF m = 0 THEN base ELSE F[<<g[m - 1], m>>]]

LEMMA RecursionExists ==
  ASSUME NEW A, NEW base \in A, NEW n \in Nat, NEW F \in [A \X (1..n) -> A]
  PROVE  \E g : Follows(base, n, F, g)
<1> DEFINE Step(g, m) == IF m = 0 THEN base ELSE F[<<g[m - 1], m>>]
           Defined(k) == \E g \in [0..k -> A] : \A m \in 0..k : g[m] = Step(g, m)
           S == {k \in Nat : Defined(k)}
<1>1. Defined(0)
  <2> DEFINE g == [m \in 0..0 |-> base]
  <2>1. g \in [0..0 -> A] /\ \A m \in 0..0 : g[m] = Step(g, m)
    OBVIOUS
  <2> HIDE DEF g
  <2> QED BY <2>1
<1>2. ASSUME NEW k \in 0..(n - 1), Defined(k) PROVE Defined(k + 1)
  <2>1. PICK g \in [0..k -> A] : \A m \in 0..k : g[m] = Step(g, m)
    BY <1>2
  <2> DEFINE f == [m \in 0..(k + 1) |-> IF m = k + 1 THEN F[<<g[k], k + 1>>] ELSE g[m]]
  <2>2. f \in [0..(k + 1) -> A]
    <3>1. g[k] \in A /\ k + 1 \in 1..n
      BY <2>1
    <3> QED BY <2>1, <3>1
  <2>3. ASSUME NEW m \in 0..(k + 1) PROVE f[m] = Step(f, m)
    <3>1. CASE m = k + 1
      <4>1. f[m - 1] = g[k] /\ f[m] = F[<<g[k], k + 1>>] /\ m # 0
        BY <3>1
      <4> QED BY <3>1, <4>1
    <3>2. CASE m # k + 1
      <4>1. m \in 0..k /\ f[m] = g[m] /\ (m # 0 => m - 1 \in 0..k /\ f[m - 1] = g[m - 1])
        BY <3>2
      <4> QED BY <2>1, <4>1
    <3> QED BY <3>1, <3>2
  <2> HIDE DEF f
  <2> QED BY <2>2, <2>3
<1>3. 0..n \subseteq S
  <2>1. 0 \in S /\ \A m \in 0..(n - 1) : m \in S => m + 1 \in S
    <3> HIDE DEF Defined
    <3> QED BY <1>1, <1>2
  <2> HIDE DEF S
  <2> QED BY <2>1, UpTo
<1>4. Defined(n)
  <2> HIDE DEF Defined
  <2> QED BY <1>3
<1>5. PICK g \in [0..n -> A] : \A m \in 0..n : g[m] = Step(g, m)
  BY <1>4
<1>6. Follows(base, n, F, g)
  BY <1>5 DEF Follows
<1> QED BY <1>6

-----------------------------------------------------------------------------
(* What a list comprehension picks, and what sorting makes of a list.      *)
IsPick(rows, K, picked) ==
    /\ Cardinality(K) \in Nat
    /\ \E order \in Bijection(1..Cardinality(K), K) : picked = [r \in 1..Cardinality(K) |-> rows[order[r]]]

LEMMA FilteredPicks ==
  ASSUME NEW rows, NEW n \in Nat, NEW K \in SUBSET (1..n)
  PROVE  IsPick(rows, K, Filtered(rows, K))
<1> DEFINE Before(i, k) == FALSE
           Prior == [i \in K |-> {k \in K : Before(k, i) \/ (~Before(i, k) /\ k < i)}]
           m == Cardinality(K)
           order == Ranking(K, Prior)
<1>1. IsFiniteSet(K) /\ m \in Nat
  <2>1. IsFiniteSet(1..n)
    BY FS_Interval
  <2> QED BY <2>1, FS_Subset, FS_CardinalityType
<1>2. Filtered(rows, K) = Picked(rows, order)
  BY DEF Filtered, InOrder, Ranking
<1>3. order \in Bijection(1..m, K)
  <2>1. \A i \in K : Prior[i] = {k \in K : k < i}
    OBVIOUS
  <2> HIDE DEF Prior
  <2>2. StrictOrder(K, Prior)
    BY <2>1, PlacesAreOrdered
  <2> QED BY <1>1, <2>2, RankingFacts
<1> HIDE DEF order
<1>4. DOMAIN order = 1..m
  BY <1>3 DEF Bijection, Injection
<1>5. Filtered(rows, K) = [r \in 1..m |-> rows[order[r]]]
  BY <1>2, <1>4 DEF Picked
<1> QED BY <1>1, <1>3, <1>5 DEF IsPick

LEMMA PickedFacts ==
  ASSUME NEW rows, NEW K, NEW picked, IsPick(rows, K, picked)
  PROVE  /\ DOMAIN picked = 1..Cardinality(K) /\ Cardinality(K) \in Nat
         /\ \A i \in DOMAIN picked : \E k \in K : picked[i] = rows[k]
         /\ \A k \in K : \E i \in DOMAIN picked : picked[i] = rows[k]
<1>1. PICK order \in Bijection(1..Cardinality(K), K) : picked = [r \in 1..Cardinality(K) |-> rows[order[r]]]
  BY DEF IsPick
<1>2. /\ \A r \in 1..Cardinality(K) : order[r] \in K
      /\ \A k \in K : \E r \in 1..Cardinality(K) : order[r] = k
  BY DEF Bijection, Injection, Surjection
<1> QED BY <1>1, <1>2 DEF IsPick

LEMMA LexOfPairs ==
  ASSUME NEW a \in Int \X Int, NEW b \in Int \X Int
  PROVE  Lex(a, b) <=> Lex(<<a[1], a[2], 0>>, <<b[1], b[2], 0>>)
<1>1. Lex(a, b) <=> a[1] < b[1] \/ (a[2] < b[2] /\ a[1] = b[1])
  <2>1. DOMAIN a = 1..2 /\ 1 \in 1..2 /\ 2 \in 1..2
    OBVIOUS
  <2>2. 1..(1 - 1) = {} /\ 1..(2 - 1) = {1}
    OBVIOUS
  <2>3. \A n \in 1..2 : n = 1 \/ n = 2
    OBVIOUS
  <2> QED BY <2>1, <2>2, <2>3 DEF Lex
<1>2. <<a[1], a[2], 0>> \in Triple /\ <<b[1], b[2], 0>> \in Triple
  BY DEF Triple
<1>3. Precedes(<<a[1], a[2], 0>>, <<b[1], b[2], 0>>) <=> a[1] < b[1] \/ (a[2] < b[2] /\ a[1] = b[1])
  BY DEF Precedes
<1> QED BY <1>1, <1>2, <1>3, LexOfTriples

LEMMA PairsAreOrdered ==
  ASSUME NEW K \in SUBSET Nat, NEW key \in [K -> Int \X Int], NEW Prior,
         \A i \in K : Prior[i] = {k \in K : Lex(key[k], key[i]) \/ (~Lex(key[i], key[k]) /\ k < i)}
  PROVE  StrictOrder(K, Prior)
<1>1. PICK wide \in [K -> Triple] : \A i, k \in K : Lex(key[k], key[i]) <=> Lex(wide[k], wide[i])
  <2> DEFINE w == [i \in K |-> <<key[i][1], key[i][2], 0>>]
  <2>1. w \in [K -> Triple]
    BY DEF Triple
  <2>2. \A i, k \in K : Lex(key[k], key[i]) <=> Lex(w[k], w[i])
    BY LexOfPairs
  <2> HIDE DEF w
  <2> QED BY <2>1, <2>2
<1>2. \A i \in K : Prior[i] = {k \in K : Lex(wide[k], wide[i]) \/ (~Lex(wide[i], wide[k]) /\ k < i)}
  BY <1>1
<1> HIDE DEF Triple
<1>3. StrictOrder(K, Prior)
  <2>1. K \in SUBSET Nat /\ wide \in [K -> Triple]
    OBVIOUS
  <2>2. \A i \in K : Prior[i] = {k \in K : Lex(wide[k], wide[i]) \/ (~Lex(wide[i], wide[k]) /\ k < i)}
    BY <1>2
  <2> QED BY <2>1, <2>2, TriplesAreOrdered, SMTT(60)
<1> QED BY <1>3

-----------------------------------------------------------------------------
(* Packing the weeks.                                                      *)
Hired == [week : Nat \ {0}, load : Nat]
Packed(hours, n, capacity, slot) ==
    /\ slot[0] = [week |-> 1, load |-> 0]
    /\ \A i \in 1..n :
          slot[i] = IF slot[i - 1].load + hours[i] > capacity /\ slot[i - 1].load > 0
                    THEN [week |-> slot[i - 1].week + 1, load |-> hours[i]]
                    ELSE [week |-> slot[i - 1].week, load |-> slot[i - 1].load + hours[i]]

LEMMA ScheduleIsPacked ==
  ASSUME NEW n \in Nat, NEW hours \in [1..n -> Nat \ {0}], NEW capacity \in Nat
  PROVE  Packed(hours, n, capacity, Schedule(hours, capacity))
<1> DEFINE Base == [week |-> 1, load |-> 0]
           Fill(s, i) == IF s.load + hours[i] > capacity /\ s.load > 0
                         THEN [week |-> s.week + 1, load |-> hours[i]]
                         ELSE [week |-> s.week, load |-> s.load + hours[i]]
           F == [si \in Hired \X (1..n) |-> Fill(si[1], si[2])]
           slot == Schedule(hours, capacity)
<1>1. hours \in Seq(Nat) /\ Len(hours) = n
  <2>1. hours \in [1..n -> Nat]
    OBVIOUS
  <2>2. hours \in Seq(Nat)
    BY <2>1
  <2>3. 1..Len(hours) = 1..n /\ Len(hours) \in Nat
    BY <2>1, <2>2
  <2> QED BY <2>2, <2>3
<1>2. slot = CHOOSE s : s = [i \in 0..n |-> IF i = 0 THEN Base ELSE Fill(s[i - 1], i)]
  BY <1>1 DEF Schedule
<1>3. F \in [Hired \X (1..n) -> Hired] /\ Base \in Hired
  BY DEF Hired
<1>4. PICK g : Follows(Base, n, F, g)
  <2> HIDE DEF F, Base
  <2> QED BY <1>3, RecursionExists
<1>5. g \in [0..n -> Hired]
  <2> DEFINE S == {i \in 0..n : g[i] \in Hired}
  <2>1. \A i \in 0..n : g[i] = IF i = 0 THEN Base ELSE F[<<g[i - 1], i>>]
    BY <1>4 DEF Follows
  <2> HIDE DEF F, Base
  <2>2. 0 \in S
    <3>1. 0 \in 0..n
      OBVIOUS
    <3> QED BY <1>3, <2>1, <3>1
  <2>3. ASSUME NEW i \in 0..(n - 1), i \in S PROVE i + 1 \in S
    <3>1. i + 1 \in 1..n /\ i + 1 # 0 /\ (i + 1) - 1 = i /\ i + 1 \in 0..n
      OBVIOUS
    <3>2. g[i + 1] = F[<<g[i], i + 1>>]
      BY <2>1, <3>1
    <3> QED BY <1>3, <2>3, <3>1, <3>2
  <2>4. 0..n \subseteq S
    <3> HIDE DEF S
    <3> QED BY <2>2, <2>3, UpTo
  <2>5. \A i \in 0..n : g[i] \in Hired
    BY <2>4
  <2> QED BY <1>4, <2>5 DEF Follows
<1>6. g = [i \in 0..n |-> IF i = 0 THEN Base ELSE Fill(g[i - 1], i)]
  <2>1. \A i \in 0..n : i # 0 => i - 1 \in 0..n /\ i \in 1..n
    OBVIOUS
  <2>2. \A i \in 0..n : i # 0 => F[<<g[i - 1], i>>] = Fill(g[i - 1], i)
    BY <1>5, <2>1
  <2> HIDE DEF F, Fill, Base
  <2> QED BY <1>4, <2>2 DEF Follows
<1>7. slot = [i \in 0..n |-> IF i = 0 THEN Base ELSE Fill(slot[i - 1], i)]
  <2> HIDE DEF slot, Fill, Base
  <2> QED BY <1>2, <1>6
<1>8. slot[0] = Base /\ \A i \in 1..n : slot[i] = Fill(slot[i - 1], i)
  <2>1. 0 \in 0..n /\ \A i \in 1..n : i \in 0..n /\ i # 0
    OBVIOUS
  <2> HIDE DEF slot, Fill, Base
  <2> QED BY <1>7, <2>1
<1> QED BY <1>8 DEF Packed

(* The first m tasks fill their weeks as they should.                      *)
InWeek(slot, m, w) == {i \in 1..m : slot[i].week = w}
WellFilled(hours, capacity, slot, m, w) ==
    /\ InWeek(slot, m, w) # {}
    /\ Plus(hours, InWeek(slot, m, w)) <= capacity \/ Cardinality(InWeek(slot, m, w)) = 1
    /\ w > 1 => Plus(hours, InWeek(slot, m, w - 1)) + hours[Min(InWeek(slot, m, w))] > capacity
Fits(hours, capacity, slot, m) ==
    /\ slot[m] \in Hired
    /\ \A i \in 1..m : slot[i].week \in 1..slot[m].week
    /\ Plus(hours, InWeek(slot, m, slot[m].week)) = slot[m].load
    /\ m = 0 => slot[m] = [week |-> 1, load |-> 0]
    /\ m > 0 => /\ slot[m].load > 0
                /\ \A w \in 1..slot[m].week : WellFilled(hours, capacity, slot, m, w)

LEMMA Least ==
  ASSUME NEW T, T \subseteq Nat, T # {}
  PROVE  Min(T) \in T /\ \A k \in T : Min(T) <= k
  BY LeastNat DEF Min

LEMMA SameLeast ==
  ASSUME NEW T, T \subseteq Nat, T # {}, NEW m \in Nat, \A k \in T : k <= m
  PROVE  Min(T \cup {m}) = Min(T)
<1>1. Min(T) \in T /\ \A k \in T : Min(T) <= k
  BY Least
<1>2. T \cup {m} \subseteq Nat /\ T \cup {m} # {}
  OBVIOUS
<1>3. Min(T \cup {m}) \in T \cup {m} /\ \A k \in T \cup {m} : Min(T \cup {m}) <= k
  BY <1>2, Least
<1> DEFINE a == Min(T)  b == Min(T \cup {m})
<1> HIDE DEF a, b
<1>4. a \in Nat /\ b \in Nat /\ a <= b /\ b <= a
  <2>1. a \in T /\ \A k \in T : a <= k
    BY <1>1 DEF a
  <2>2. b \in T \cup {m} /\ \A k \in T \cup {m} : b <= k
    BY <1>3 DEF b
  <2> QED BY <2>1, <2>2
<1>5. a = b
  BY <1>4
<1> QED BY <1>5 DEF a, b

LEMMA PackedFits ==
  ASSUME NEW n \in Nat, NEW hours \in [1..n -> Nat \ {0}], NEW capacity \in Nat, NEW slot,
         Packed(hours, n, capacity, slot)
  PROVE  Fits(hours, capacity, slot, n)
<1> DEFINE S == {m \in 0..n : Fits(hours, capacity, slot, m)}
<1>0. IsFiniteSet(1..n) /\ hours \in [1..n -> Int]
  BY FS_Interval
<1>1. 0 \in S
  <2>1. slot[0] = [week |-> 1, load |-> 0]
    BY DEF Packed
  <2>2. InWeek(slot, 0, 1) = {} /\ \A i \in 1..0 : FALSE
    BY DEF InWeek
  <2>3. Plus(hours, {}) = 0
    BY <1>0, PlusFacts
  <2>4. slot[0].week = 1 /\ slot[0].load = 0 /\ slot[0] \in Hired
    BY <2>1 DEF Hired
  <2>5. Fits(hours, capacity, slot, 0)
    BY <2>1, <2>2, <2>3, <2>4 DEF Fits
  <2> HIDE DEF Fits
  <2> QED BY <2>5
<1>2. ASSUME NEW m \in 0..(n - 1), m \in S PROVE m + 1 \in S
  <2> DEFINE k == m + 1
             s == slot[m]
             t == slot[k]
             h == hours[k]
  <2>1. k \in 1..n /\ k - 1 = m /\ k \in 0..n /\ h \in Nat \ {0} /\ k > 0 /\ m \in Nat
    OBVIOUS
  <2>2. Fits(hours, capacity, slot, m)
    BY <1>2
  <2>3. s.week \in Nat \ {0} /\ s.load \in Nat
    BY <2>2 DEF Fits, Hired
  <2>4. t = IF s.load + h > capacity /\ s.load > 0 THEN [week |-> s.week + 1, load |-> h]
            ELSE [week |-> s.week, load |-> s.load + h]
    BY <2>1 DEF Packed
  <2>5. 1..k = (1..m) \cup {k} /\ k \notin 1..m
    BY <2>1
  <2>6. \A w : InWeek(slot, k, w) = InWeek(slot, m, w) \cup {i \in {k} : slot[i].week = w}
    BY <2>5 DEF InWeek
  <2>7. \A w : InWeek(slot, m, w) \in SUBSET (1..m) /\ InWeek(slot, m, w) \in SUBSET (1..n)
    BY <2>1 DEF InWeek
  <2>8. Plus(hours, {k}) = h
    BY <1>0, <2>1, PlusOfOne
  <2>9. \A i \in 1..m : slot[i].week \in 1..s.week
    BY <2>2 DEF Fits
  <2>10. /\ Plus(hours, InWeek(slot, m, s.week)) = s.load
         /\ m = 0 => s = [week |-> 1, load |-> 0]
         /\ m > 0 => s.load > 0 /\ \A w \in 1..s.week : WellFilled(hours, capacity, slot, m, w)
    BY <2>2 DEF Fits
  <2> HIDE DEF k, s, t, h
  <2>11. CASE s.load + h > capacity /\ s.load > 0
    <3>1. t.week = s.week + 1 /\ t.load = h /\ t \in Hired
      BY <2>1, <2>3, <2>4, <2>11 DEF Hired
    <3>2. m > 0
      BY <2>1, <2>10, <2>11
    <3>3. \A w \in 1..s.week : InWeek(slot, k, w) = InWeek(slot, m, w)
      <4> TAKE w \in 1..s.week
      <4>1. slot[k].week # w
        BY <2>3, <3>1 DEF t
      <4>2. {i \in {k} : slot[i].week = w} = {}
        BY <4>1
      <4> QED BY <2>6, <4>2
    <3>4. InWeek(slot, m, t.week) = {}
      BY <2>3, <2>9, <3>1 DEF InWeek
    <3>5. InWeek(slot, k, t.week) = {k}
      BY <2>6, <3>4 DEF t
    <3>6. ASSUME NEW w \in 1..s.week PROVE WellFilled(hours, capacity, slot, k, w)
      <4>1. WellFilled(hours, capacity, slot, m, w)
        BY <2>10, <3>2
      <4>2. w > 1 => w - 1 \in 1..s.week
        BY <2>3
      <4> QED BY <3>3, <4>1, <4>2 DEF WellFilled
    <3>7. WellFilled(hours, capacity, slot, k, t.week)
      <4>1. t.week - 1 = s.week /\ InWeek(slot, k, s.week) = InWeek(slot, m, s.week)
        <5>1. s.week \in 1..s.week /\ t.week - 1 = s.week
          BY <2>3, <3>1
        <5> QED BY <3>3, <5>1
      <4>2. Min({k}) = k
        BY DEF Min
      <4>3. Cardinality({k}) = 1
        BY FS_Singleton
      <4> QED BY <2>10, <2>11, <3>5, <4>1, <4>2, <4>3 DEF WellFilled, h
    <3>8. \A w \in 1..t.week : w \in 1..s.week \/ w = t.week
      BY <2>3, <3>1
    <3>9. \A i \in 1..k : slot[i].week \in 1..t.week
      <4>1. \A i \in 1..m : slot[i].week \in 1..t.week
        BY <2>3, <2>9, <3>1
      <4>2. slot[k].week \in 1..t.week
        BY <2>3, <3>1 DEF t
      <4> QED BY <2>5, <4>1, <4>2
    <3>10. Fits(hours, capacity, slot, k)
      <4>1. t.load > 0 /\ k # 0 /\ Plus(hours, InWeek(slot, k, t.week)) = t.load
        <5>1. Plus(hours, InWeek(slot, k, t.week)) = Plus(hours, {k})
          BY <3>5, Zenon
        <5> QED BY <2>1, <2>8, <3>1, <5>1
      <4>2. \A w \in 1..t.week : WellFilled(hours, capacity, slot, k, w)
        BY <3>6, <3>7, <3>8
      <4> QED BY <3>1, <3>9, <4>1, <4>2 DEF Fits, t
    <3> QED BY <2>1, <3>10 DEF k
  <2>12. CASE ~(s.load + h > capacity /\ s.load > 0)
    <3>1. t.week = s.week /\ t.load = s.load + h /\ t \in Hired
      BY <2>1, <2>3, <2>4, <2>12 DEF Hired
    <3>2. \A w : w # s.week => InWeek(slot, k, w) = InWeek(slot, m, w)
      BY <2>6, <3>1 DEF t
    <3>3. InWeek(slot, k, s.week) = InWeek(slot, m, s.week) \cup {k}
      BY <2>6, <3>1 DEF t
    <3>4. Plus(hours, InWeek(slot, k, s.week)) = t.load
      <4>1. InWeek(slot, m, s.week) \in SUBSET (1..n) /\ k \in (1..n) \ InWeek(slot, m, s.week)
        BY <2>1, <2>5, <2>7
      <4>2. Plus(hours, InWeek(slot, m, s.week) \cup {k}) = Plus(hours, InWeek(slot, m, s.week)) + hours[k]
        BY <1>0, <4>1, PlusOfOneMore
      <4>3. Plus(hours, InWeek(slot, k, s.week)) = Plus(hours, InWeek(slot, m, s.week) \cup {k})
        BY <3>3, Zenon
      <4> QED BY <2>10, <3>1, <4>2, <4>3 DEF h
    <3>5. \A i \in 1..k : slot[i].week \in 1..t.week
      <4>1. slot[k].week \in 1..t.week
        BY <2>3, <3>1 DEF t
      <4> QED BY <2>5, <2>9, <3>1, <4>1
    <3>6. ASSUME NEW w \in 1..s.week PROVE WellFilled(hours, capacity, slot, k, w)
      <4>1. CASE m = 0
        <5>1. s.week = 1 /\ w = 1
          BY <2>10, <4>1
        <5>2. InWeek(slot, k, 1) = {k}
          BY <2>7, <3>3, <4>1, <5>1
        <5>3. Cardinality({k}) = 1
          BY FS_Singleton
        <5>4. Cardinality(InWeek(slot, k, 1)) = 1
          BY <5>2, <5>3, Zenon
        <5>5. InWeek(slot, k, 1) # {}
          BY <5>2
        <5> QED BY <5>1, <5>4, <5>5 DEF WellFilled
      <4>2. CASE m > 0 /\ w # s.week
        <5>1. WellFilled(hours, capacity, slot, m, w)
          BY <2>10, <4>2
        <5>2. InWeek(slot, k, w) = InWeek(slot, m, w) /\ w - 1 # s.week
          BY <2>3, <3>2, <4>2
        <5>3. InWeek(slot, k, w - 1) = InWeek(slot, m, w - 1)
          BY <3>2, <5>2
        <5> QED BY <5>1, <5>2, <5>3 DEF WellFilled
      <4>3. CASE m > 0 /\ w = s.week
        <5>1. WellFilled(hours, capacity, slot, m, w) /\ s.load > 0
          BY <2>10, <4>3
        <5>2. t.load <= capacity
          BY <2>1, <2>3, <2>12, <3>1, <5>1
        <5>3. w - 1 # s.week /\ InWeek(slot, k, w - 1) = InWeek(slot, m, w - 1)
          BY <2>3, <3>2, <4>3
        <5>4. Min(InWeek(slot, k, w)) = Min(InWeek(slot, m, w))
          <6>1. InWeek(slot, m, w) \subseteq Nat /\ \A i \in InWeek(slot, m, w) : i <= k
            BY <2>1, <2>7
          <6>2. InWeek(slot, m, w) # {} /\ k \in Nat
            BY <2>1, <5>1 DEF WellFilled
          <6> QED BY <3>3, <4>3, <6>1, <6>2, SameLeast
        <5>5. InWeek(slot, k, w) # {} /\ Plus(hours, InWeek(slot, k, w)) <= capacity
          BY <3>3, <3>4, <4>3, <5>2
        <5> QED BY <5>1, <5>3, <5>4, <5>5 DEF WellFilled
      <4> QED BY <2>1, <4>1, <4>2, <4>3
    <3>7. t.load > 0
      BY <2>1, <2>3, <3>1
    <3>8. Fits(hours, capacity, slot, k)
      BY <2>1, <3>1, <3>4, <3>5, <3>6, <3>7 DEF Fits, t
    <3> QED BY <2>1, <3>8 DEF k
  <2> QED BY <2>11, <2>12
<1>3. 0..n \subseteq S
  <2> HIDE DEF S
  <2> QED BY <1>1, <1>2, UpTo
<1> QED BY <1>3

-----------------------------------------------------------------------------
(* The hours and the points of tasks.                                      *)
HoursOf(tasks, T) == MapThenSumSet(LAMBDA i : tasks[i].hours, T)
DeltaOf(tasks, T) == MapThenSumSet(LAMBDA i : tasks[i].delta, T)

LEMMA SummedHours ==
  ASSUME NEW n \in Nat, NEW tasks, \A i \in 1..n : tasks[i].hours \in Int, NEW T \in SUBSET (1..n)
  PROVE  HoursOf(tasks, T) = Plus([i \in 1..n |-> tasks[i].hours], T)
<1> DEFINE share(i) == tasks[i].hours
           f == [i \in 1..n |-> share(i)]
           sum == CHOOSE g : g = [t \in SUBSET T |-> IF t = {} THEN 0 ELSE share(One(t)) + g[t \ {One(t)}]]
<1>1. HoursOf(tasks, T) = sum[T]
  BY DEF HoursOf, MapThenSumSet, MapThenFoldSet, One
<1>2. f \in [1..n -> Int] /\ IsFiniteSet(1..n)
  BY FS_Interval
<1>3. \A t \in SUBSET T : t # {} => share(One(t)) = f[One(t)]
  <2>1. \A t \in SUBSET T : t # {} => One(t) \in 1..n
    BY DEF One
  <2>2. \A i \in 1..n : share(i) = f[i]
    OBVIOUS
  <2> HIDE DEF share, f
  <2> QED BY <2>1, <2>2
<1>4. \A g : (g = [t \in SUBSET T |-> IF t = {} THEN 0 ELSE share(One(t)) + g[t \ {One(t)}]]) <=> Sums1(f, T, g)
  <2> HIDE DEF share, f
  <2> QED BY <1>3 DEF Sums1
<1> HIDE DEF share, f
<1>5. PICK g : Sums1(f, T, g)
  BY <1>2, PlusOfPart
<1>6. Sums1(f, T, sum)
  BY <1>4, <1>5
<1> HIDE DEF sum
<1>7. sum[T] = Plus(f, T)
  BY <1>2, <1>6, PlusOfPart
<1> QED BY <1>1, <1>7 DEF f, share

LEMMA SummedDeltas ==
  ASSUME NEW n \in Nat, NEW tasks, \A i \in 1..n : tasks[i].delta \in Int, NEW T \in SUBSET (1..n)
  PROVE  DeltaOf(tasks, T) = Plus([i \in 1..n |-> tasks[i].delta], T)
<1> DEFINE share(i) == tasks[i].delta
           f == [i \in 1..n |-> share(i)]
           sum == CHOOSE g : g = [t \in SUBSET T |-> IF t = {} THEN 0 ELSE share(One(t)) + g[t \ {One(t)}]]
<1>1. DeltaOf(tasks, T) = sum[T]
  BY DEF DeltaOf, MapThenSumSet, MapThenFoldSet, One
<1>2. f \in [1..n -> Int] /\ IsFiniteSet(1..n)
  BY FS_Interval
<1>3. \A t \in SUBSET T : t # {} => share(One(t)) = f[One(t)]
  <2>1. \A t \in SUBSET T : t # {} => One(t) \in 1..n
    BY DEF One
  <2>2. \A i \in 1..n : share(i) = f[i]
    OBVIOUS
  <2> HIDE DEF share, f
  <2> QED BY <2>1, <2>2
<1>4. \A g : (g = [t \in SUBSET T |-> IF t = {} THEN 0 ELSE share(One(t)) + g[t \ {One(t)}]]) <=> Sums1(f, T, g)
  <2> HIDE DEF share, f
  <2> QED BY <1>3 DEF Sums1
<1> HIDE DEF share, f
<1>5. PICK g : Sums1(f, T, g)
  BY <1>2, PlusOfPart
<1>6. Sums1(f, T, sum)
  BY <1>4, <1>5
<1> HIDE DEF sum
<1>7. sum[T] = Plus(f, T)
  BY <1>2, <1>6, PlusOfPart
<1> QED BY <1>1, <1>7 DEF f, share

(* Capped at 99 every week, the points of all weeks count as if capped     *)
(* once, for no task loses any.                                            *)
LEMMA LastMilestone ==
  ASSUME NEW n \in Nat, NEW tasks, DOMAIN tasks = 1..n, \A i \in 1..n : tasks[i].delta \in Nat,
         NEW slot, NEW weeks \in Nat \ {0}, \A i \in 1..n : slot[i].week \in 1..weeks, NEW score \in Int
  PROVE  _milestones(tasks, slot, weeks, score)[weeks] = AtMost(99, score + DeltaOf(tasks, 1..n))
<1> DEFINE d == [i \in 1..n |-> tasks[i].delta]
           In(w) == {i \in DOMAIN tasks : slot[i].week = w}
           FromStart(w) == {i \in 1..n : slot[i].week <= w}
           Gain(w) == Plus(d, In(w))
           F == [aw \in Int \X (1..weeks) |-> AtMost(99, aw[1] + Gain(aw[2]))]
           running == CHOOSE g : g = [w \in 0..weeks |-> IF w = 0 THEN score
                                        ELSE AtMost(99, g[w - 1] + DeltaOf(tasks, In(w)))]
<1>1. _milestones(tasks, slot, weeks, score)[weeks] = running[weeks]
  <2>1. _milestones(tasks, slot, weeks, score) = [w \in 1..weeks |-> running[w]]
    BY DEF _milestones, DeltaOf
  <2>2. weeks \in 1..weeks
    OBVIOUS
  <2> HIDE DEF running
  <2> QED BY <2>1, <2>2
<1>2. IsFiniteSet(1..n) /\ d \in [1..n -> Int] /\ d \in [1..n -> Nat]
  BY FS_Interval
<1>3. \A w : In(w) \in SUBSET (1..n) /\ FromStart(w) \in SUBSET (1..n)
  OBVIOUS
<1>4. \A w : DeltaOf(tasks, In(w)) = Gain(w)
  <2> TAKE w
  <2>1. \A i \in 1..n : tasks[i].delta \in Int
    OBVIOUS
  <2> HIDE DEF In
  <2> QED BY <1>3, <2>1, SummedDeltas
<1>5. \A w : Gain(w) \in Nat
  <2> TAKE w
  <2>1. Plus(d, In(w)) \in Int /\ 0 <= Plus(d, In(w))
    <3> HIDE DEF In, d
    <3> QED BY <1>2, <1>3, PlusFacts, PlusOfMore
  <2> QED BY <2>1
<1>6. F \in [Int \X (1..weeks) -> Int]
  <2> HIDE DEF Gain
  <2> QED BY <1>5 DEF AtMost
<1>7. PICK g : Follows(score, weeks, F, g)
  <2> HIDE DEF F
  <2> QED BY <1>6, RecursionExists
<1>8. g = [w \in 0..weeks |-> IF w = 0 THEN score ELSE F[<<g[w - 1], w>>]]
  BY <1>7 DEF Follows
<1> HIDE DEF In, Gain
<1>9. \A w \in 0..weeks : g[w] \in Int
  <2> DEFINE S == {w \in 0..weeks : g[w] \in Int}
  <2> HIDE DEF F
  <2>1. 0 \in 0..weeks /\ g[0] = score
    <3>1. 0 \in 0..weeks
      OBVIOUS
    <3> QED BY <1>8, <3>1
  <2>2. ASSUME NEW w \in 0..(weeks - 1), w \in S PROVE w + 1 \in S
    <3>1. w + 1 \in 1..weeks /\ w + 1 # 0 /\ (w + 1) - 1 = w /\ w + 1 \in 0..weeks
      OBVIOUS
    <3>2. g[w + 1] = F[<<g[w], w + 1>>]
      BY <1>8, <3>1
    <3> QED BY <1>6, <2>2, <3>1, <3>2
  <2>3. 0..weeks \subseteq S
    <3>1. 0 \in S
      BY <2>1
    <3> HIDE DEF S
    <3> QED BY <2>2, <3>1, UpTo
  <2> QED BY <2>3
<1>10. \A w \in 0..weeks : g[w] = IF w = 0 THEN score ELSE AtMost(99, g[w - 1] + Gain(w))
  <2> TAKE w \in 0..weeks
  <2>1. CASE w = 0
    <3> HIDE DEF F
    <3> QED BY <1>8, <2>1
  <2>2. CASE w # 0
    <3>1. w - 1 \in 0..weeks /\ w \in 1..weeks
      BY <2>2
    <3>2. g[w] = F[<<g[w - 1], w>>]
      <4> HIDE DEF F
      <4> QED BY <1>8, <2>2
    <3> QED BY <1>9, <2>2, <3>1, <3>2
  <2> QED BY <2>1, <2>2
<1> HIDE DEF F
<1>11. running = [w \in 0..weeks |-> IF w = 0 THEN score ELSE AtMost(99, running[w - 1] + DeltaOf(tasks, In(w)))]
  <2>1. g = [w \in 0..weeks |-> IF w = 0 THEN score ELSE AtMost(99, g[w - 1] + DeltaOf(tasks, In(w)))]
    <3>1. DOMAIN g = 0..weeks /\ g = [w \in 0..weeks |-> g[w]]
      BY <1>8
    <3> QED BY <1>4, <1>10, <3>1
  <2> QED BY <2>1
<1>12. \A w \in 0..weeks : running[w] = IF w = 0 THEN score ELSE AtMost(99, running[w - 1] + Gain(w))
  <2> HIDE DEF running
  <2> QED BY <1>4, <1>11
<1> HIDE DEF running
<1> DEFINE S == {w \in 0..weeks : running[w] = IF w = 0 THEN score ELSE AtMost(99, score + Plus(d, FromStart(w)))}
<1>13. 0 \in S
  <2>1. 0 \in 0..weeks
    OBVIOUS
  <2> QED BY <1>12, <2>1
<1>14. ASSUME NEW w \in 0..(weeks - 1), w \in S PROVE w + 1 \in S
  <2> DEFINE k == w + 1
  <2>1. k \in 0..weeks /\ k # 0 /\ k - 1 = w /\ w \in 0..weeks
    OBVIOUS
  <2>2. running[k] = AtMost(99, running[w] + Gain(k))
    BY <1>12, <2>1
  <2>3. FromStart(k) = FromStart(w) \cup In(k) /\ FromStart(w) \cap In(k) = {}
    BY DEF In
  <2>4. Plus(d, FromStart(w) \cup In(k)) = Plus(d, FromStart(w)) + Gain(k)
    <3>1. FromStart(w) \in SUBSET (1..n) /\ In(k) \in SUBSET (1..n) /\ FromStart(w) \cap In(k) = {}
      BY <1>3, <2>3
    <3>2. PICK T \in SUBSET (1..n), U \in SUBSET (1..n) : T = FromStart(w) /\ U = In(k) /\ T \cap U = {}
      BY <3>1
    <3>3. Plus(d, T \cup U) = Plus(d, T) + Plus(d, U)
      <4> HIDE DEF d
      <4> QED BY <1>2, <3>2, PlusOfUnion
    <3>4. T = FromStart(w) /\ U = In(k)
      BY <3>2
    <3> QED BY <3>3, <3>4, Zenon DEF Gain
  <2>5. Plus(d, FromStart(k)) = Plus(d, FromStart(w)) + Gain(k)
    <3> HIDE DEF FromStart, d, k
    <3> QED BY <2>3, <2>4
  <2>6. Plus(d, FromStart(w)) \in Int
    <3>1. FromStart(w) \in SUBSET (1..n)
      BY <1>3
    <3> HIDE DEF d, FromStart
    <3> QED BY <1>2, <3>1, PlusFacts
  <2>7. running[k] = AtMost(99, score + Plus(d, FromStart(k)))
    <3>1. CASE w = 0
      <4>1. FromStart(0) = {}
        OBVIOUS
      <4>2. Plus(d, {}) = 0
        <5> HIDE DEF d
        <5> QED BY <1>2, PlusFacts
      <4>3. Plus(d, FromStart(w)) = 0
        <5> HIDE DEF d, FromStart
        <5> QED BY <3>1, <4>1, <4>2
      <4>4. running[w] = score
        BY <1>14, <3>1
      <4> HIDE DEF d, FromStart, k
      <4> QED BY <1>5, <2>2, <2>5, <4>3, <4>4
    <3>2. CASE w # 0
      <4>1. running[w] = AtMost(99, score + Plus(d, FromStart(w)))
        BY <1>14, <3>2
      <4>2. Gain(k) \in Nat
        BY <1>5
      <4> HIDE DEF d, FromStart, k
      <4> QED BY <2>2, <2>5, <2>6, <4>1, <4>2 DEF AtMost
    <3> QED BY <3>1, <3>2
  <2> HIDE DEF d, FromStart
  <2> QED BY <2>1, <2>7
<1>15. weeks \in S
  <2>1. 0..weeks \subseteq S
    <3> HIDE DEF S
    <3> QED BY <1>13, <1>14, UpTo
  <2>2. weeks \in 0..weeks
    OBVIOUS
  <2> QED BY <2>1, <2>2
<1>16. FromStart(weeks) = 1..n
  OBVIOUS
<1>17. DeltaOf(tasks, 1..n) = Plus(d, 1..n)
  <2>1. \A i \in 1..n : tasks[i].delta \in Int
    OBVIOUS
  <2>2. 1..n \in SUBSET (1..n)
    OBVIOUS
  <2> QED BY <2>1, <2>2, SummedDeltas
<1>18. running[weeks] = AtMost(99, score + Plus(d, 1..n))
  <2>1. running[weeks] = AtMost(99, score + Plus(d, FromStart(weeks)))
    BY <1>15
  <2> HIDE DEF d, FromStart
  <2> QED BY <1>16, <2>1, Zenon
<1> QED BY <1>1, <1>17, <1>18

(* A schedule of tasks fits the weeks it is made for.                      *)
Fitting(tasks, week, weeks, milestones, projected, capacity) ==
    /\ \A w \in 1..weeks :
          LET in(v) == {i \in DOMAIN tasks : week[i] = v}
          IN /\ in(w) # {}
             /\ HoursOf(tasks, in(w)) <= capacity \/ Cardinality(in(w)) = 1
             /\ w > 1 => HoursOf(tasks, in(w - 1)) + tasks[Min(in(w))].hours > capacity
    /\ weeks > 0 => milestones[weeks] = projected
WeeksFit(r, capacity) == Fitting(r.tasks, r.week, r.weeks, r.milestones, r.projected, capacity)

Teachable(tasks, n) ==
    /\ n \in Nat /\ tasks \in [1..n -> {tasks[i] : i \in 1..n}]
    /\ \A i \in 1..n : tasks[i].hours \in Nat \ {0} /\ tasks[i].delta \in Nat

LEMMA InWeeksFit ==
  ASSUME NEW n, NEW tasks, Teachable(tasks, n), NEW capacity \in Int, NEW score \in Int
  PROVE  /\ InWeeks(tasks, score, capacity).tasks = tasks
         /\ WeeksFit(InWeeks(tasks, score, capacity), Max({1, capacity}))
<1> DEFINE h == [i \in 1..n |-> tasks[i].hours]
           cap == Max({1, capacity})
           slot == Schedule(h, cap)
           weeks == IF tasks = <<>> THEN 0 ELSE slot[Len(tasks)].week
           r == InWeeks(tasks, score, capacity)
<1> SUFFICES r.tasks = tasks /\ WeeksFit(r, cap)
  OBVIOUS
<1>0. n \in Nat /\ DOMAIN tasks = 1..n
  BY DEF Teachable
<1>1. Len(tasks) = n /\ (tasks = <<>> <=> n = 0)
  <2> DEFINE T == {tasks[i] : i \in 1..n}
  <2>1. n \in Nat /\ tasks \in [1..n -> T]
    BY DEF Teachable
  <2> HIDE DEF T
  <2>2. tasks \in Seq(T)
    BY <2>1
  <2>3. 1..Len(tasks) = 1..n /\ Len(tasks) \in Nat
    BY <2>1, <2>2
  <2>4. Len(tasks) = n
    BY <2>1, <2>3
  <2> QED BY <2>2, <2>4
<1>2. \A i \in 1..n : tasks[i].hours \in Nat \ {0} /\ tasks[i].delta \in Nat
  BY DEF Teachable
<1>3. cap \in Nat \ {0}
  <2> DEFINE S == {1, capacity}
  <2>1. \E x \in S : \A y \in S : x >= y
    OBVIOUS
  <2>2. 1 \in S /\ \A x \in S : x \in Int
    OBVIOUS
  <2> HIDE DEF S
  <2>3. Max(S) \in S /\ \A y \in S : Max(S) >= y
    BY <2>1 DEF Max
  <2>4. Max(S) \in Int /\ Max(S) >= 1
    BY <2>2, <2>3
  <2> QED BY <2>4 DEF S
<1>4. h = [i \in DOMAIN tasks |-> tasks[i].hours]
  BY <1>0
<1>5. r = Scheduled(tasks, slot, score)
  <2> HIDE DEF h
  <2> QED BY <1>4 DEF InWeeks
<1>6. /\ r.tasks = tasks /\ r.weeks = weeks /\ r.week = [i \in DOMAIN tasks |-> slot[i].week]
      /\ r.projected = AtMost(99, score + DeltaOf(tasks, DOMAIN tasks))
      /\ r.milestones = _milestones(tasks, slot, weeks, score)
  <2> HIDE DEF h, slot, r
  <2> QED BY <1>5 DEF Scheduled, DeltaOf
<1> HIDE DEF r, cap
<1>7. h \in [1..n -> Nat \ {0}]
  BY <1>2
<1>8. Fits(h, cap, slot, n)
  <2>1. cap \in Nat
    BY <1>3
  <2> HIDE DEF h, slot
  <2>2. Packed(h, n, cap, slot)
    BY <1>0, <1>7, <2>1, ScheduleIsPacked DEF slot
  <2> QED BY <1>0, <1>7, <2>1, <2>2, PackedFits
<1> HIDE DEF slot
<1>9. \A w : HoursOf(tasks, InWeek(slot, n, w)) = Plus(h, InWeek(slot, n, w))
  <2> TAKE w
  <2>1. InWeek(slot, n, w) \in SUBSET (1..n) /\ \A i \in 1..n : tasks[i].hours \in Int
    BY <1>2 DEF InWeek
  <2> QED BY <1>0, <2>1, SummedHours
<1>10. \A i \in 1..n : h[i] = tasks[i].hours
  OBVIOUS
<1> HIDE DEF h
<1>11. CASE n = 0
  <2>1. weeks = 0
    BY <1>1, <1>11
  <2> QED BY <1>6, <2>1 DEF WeeksFit, Fitting
<1>12. CASE n # 0
  <2>1. weeks = slot[n].week /\ weeks \in Nat \ {0}
    BY <1>0, <1>1, <1>8, <1>12 DEF Fits, Hired
  <2>2. \A i \in 1..n : slot[i].week \in 1..weeks
    BY <1>8, <2>1 DEF Fits
  <2>3. \A w \in 1..weeks : WellFilled(h, cap, slot, n, w)
    BY <1>0, <1>8, <1>12, <2>1 DEF Fits
  <2>4. r.milestones[r.weeks] = r.projected
    <3>1. _milestones(tasks, slot, weeks, score)[weeks] = AtMost(99, score + DeltaOf(tasks, 1..n))
      <4> HIDE DEF weeks
      <4>1. PICK last, at : last = weeks /\ at = slot
        OBVIOUS
      <4>2. last \in Nat \ {0} /\ \A i \in 1..n : at[i].week \in 1..last
        BY <2>1, <2>2, <4>1
      <4>3. n \in Nat /\ DOMAIN tasks = 1..n /\ score \in Int /\ \A i \in 1..n : tasks[i].delta \in Nat
        BY <1>0, <1>2
      <4>4. last \in Nat \ {0}
        BY <4>2
      <4>5. \A i \in 1..n : at[i].week \in 1..last
        BY <4>2
      <4>6. _milestones(tasks, at, last, score)[last] = AtMost(99, score + DeltaOf(tasks, 1..n))
        BY <4>3, <4>4, <4>5, LastMilestone, Zenon
      <4> QED BY <4>1, <4>6
    <3>2. DeltaOf(tasks, DOMAIN tasks) = DeltaOf(tasks, 1..n)
      BY <1>0, Zenon
    <3> HIDE DEF weeks
    <3> QED BY <1>6, <3>1, <3>2
  <2>5. \A v : {i \in DOMAIN r.tasks : r.week[i] = v} = InWeek(slot, n, v)
    BY <1>0, <1>6 DEF InWeek
  <2>6. ASSUME NEW w \in 1..weeks
        PROVE  LET in(v) == {i \in DOMAIN r.tasks : r.week[i] = v}
               IN /\ in(w) # {}
                  /\ HoursOf(r.tasks, in(w)) <= cap \/ Cardinality(in(w)) = 1
                  /\ w > 1 => HoursOf(r.tasks, in(w - 1)) + r.tasks[Min(in(w))].hours > cap
    <3> DEFINE in(v) == {i \in DOMAIN r.tasks : r.week[i] = v}
    <3>1. WellFilled(h, cap, slot, n, w)
      BY <2>3
    <3>2. \A v : in(v) = InWeek(slot, n, v)
      BY <2>5
    <3>3. \A v : HoursOf(r.tasks, in(v)) = Plus(h, InWeek(slot, n, v))
      <4> HIDE DEF in
      <4> QED BY <1>6, <1>9, <3>2
    <3>4. Min(in(w)) = Min(InWeek(slot, n, w)) /\ Cardinality(in(w)) = Cardinality(InWeek(slot, n, w))
      <4> HIDE DEF in
      <4> QED BY <3>2
    <3>5. in(w) # {} /\ Min(in(w)) \in 1..n
      <4>1. InWeek(slot, n, w) # {} /\ InWeek(slot, n, w) \subseteq Nat /\ InWeek(slot, n, w) \subseteq 1..n
        BY <3>1 DEF WellFilled, InWeek
      <4>2. Min(InWeek(slot, n, w)) \in InWeek(slot, n, w)
        BY <4>1, Least
      <4> HIDE DEF in
      <4> QED BY <3>2, <3>4, <4>1, <4>2
    <3>6. r.tasks[Min(in(w))].hours = h[Min(InWeek(slot, n, w))]
      <4> HIDE DEF in
      <4> QED BY <1>6, <1>10, <3>4, <3>5
    <3>7. /\ in(w) # {}
          /\ HoursOf(r.tasks, in(w)) <= cap \/ Cardinality(in(w)) = 1
          /\ w > 1 => HoursOf(r.tasks, in(w - 1)) + r.tasks[Min(in(w))].hours > cap
      <4> HIDE DEF in
      <4> QED BY <3>1, <3>3, <3>4, <3>5, <3>6 DEF WellFilled
    <3> QED BY <3>7
  <2>7. r.weeks = weeks
    BY <1>6
  <2> HIDE DEF weeks
  <2> QED BY <1>6, <2>4, <2>6, <2>7 DEF WeeksFit, Fitting
<1> QED BY <1>6, <1>11, <1>12

(* Every task is planned, and has hours and points to plan it with.        *)
LEMMA UrgentFirst ==
  ASSUME NEW n \in Nat, NEW new, DOMAIN new = 1..n,
         \A i \in 1..n : Urgent(new[i]) \in Int /\ new[i].hours \in Int
  PROVE  IsPick(new, 1..n, MostUrgentFirst(new))
<1> DEFINE K == DOMAIN new
           Before(i, k) == Lex(<<Urgent(new[i]), new[i].hours>>, <<Urgent(new[k]), new[k].hours>>)
           Prior == [i \in K |-> {k \in K : Before(k, i) \/ (~Before(i, k) /\ k < i)}]
           key == [i \in K |-> <<Urgent(new[i]), new[i].hours>>]
           order == Ranking(K, Prior)
<1>1. MostUrgentFirst(new) = Picked(new, order)
  BY DEF MostUrgentFirst, InOrder, Ranking
<1>2. key \in [K -> Int \X Int]
  OBVIOUS
<1>3. \A i \in K : Prior[i] = {k \in K : Lex(key[k], key[i]) \/ (~Lex(key[i], key[k]) /\ k < i)}
  OBVIOUS
<1>4. K \in SUBSET Nat /\ IsFiniteSet(K) /\ K = 1..n /\ Cardinality(K) = n
  BY FS_Interval
<1> HIDE DEF Prior, key, K
<1>5. StrictOrder(K, Prior)
  <2>1. K \in SUBSET Nat
    BY <1>4
  <2>2. PICK P, c, N : P = Prior /\ c = key /\ N = K
    OBVIOUS
  <2>3. N \in SUBSET Nat
    BY <2>1, <2>2
  <2>4. c \in [N -> Int \X Int]
    BY <1>2, <2>2, Zenon
  <2>5. \A i \in N : P[i] = {k \in N : Lex(c[k], c[i]) \/ (~Lex(c[i], c[k]) /\ k < i)}
    BY <1>3, <2>2, Zenon
  <2>6. StrictOrder(N, P)
    BY <2>3, <2>4, <2>5, PairsAreOrdered
  <2> QED BY <2>2, <2>6
<1>6. order \in Bijection(1..Cardinality(K), K)
  BY <1>4, <1>5, RankingFacts
<1> HIDE DEF order
<1>7. DOMAIN order = 1..Cardinality(K)
  BY <1>6 DEF Bijection, Injection
<1>8. MostUrgentFirst(new) = [r \in 1..Cardinality(K) |-> new[order[r]]]
  BY <1>1, <1>7 DEF Picked
<1>9. IsPick(new, K, MostUrgentFirst(new))
  BY <1>4, <1>6, <1>8 DEF IsPick
<1> QED BY <1>4, <1>9, Zenon

LEMMA TaskFacts ==
  ASSUME NEW skill, \A s \in DOMAIN Hours : Hours[s] \in Nat \ {0},
         NEW have \in Int, NEW demand \in Nat, NEW affinity \in Int
  PROVE  LET t == Task(skill, have, demand, affinity)
         IN t.skill = skill /\ t.hours \in Nat \ {0} /\ t.delta \in Nat /\ Urgent(t) \in Int
<1> DEFINE base == At(Hours, skill, 25)
           left == (base * (100 - have)) \div 100
           t == Task(skill, have, demand, affinity)
<1>1. base \in Nat \ {0}
  BY DEF At
<1>2. left \in Int
  <2>1. 100 - have \in Int
    OBVIOUS
  <2>2. PICK a \in Int, b \in Int : a = base /\ b = 100 - have
    BY <1>1, <2>1
  <2>3. a * b \in Int
    OBVIOUS
  <2>4. PICK c \in Int : c = a * b
    BY <2>3
  <2>5. c \div 100 \in Int
    OBVIOUS
  <2> QED BY <2>2, <2>4, <2>5
<1> HIDE DEF left, base
<1>3. Max({4, left}) \in Nat \ {0}
  <2> DEFINE S == {4, left}
  <2>1. \E x \in S : \A y \in S : x >= y
    BY <1>2
  <2>2. \A x \in S : x \in Int /\ 4 \in S
    BY <1>2
  <2> HIDE DEF S
  <2>3. Max(S) \in S /\ \A y \in S : Max(S) >= y
    BY <2>1 DEF Max
  <2>4. Max(S) \in Int /\ Max(S) >= 4
    BY <2>2, <2>3
  <2> QED BY <2>4 DEF S
<1>4. /\ t.skill = skill /\ t.demand = demand /\ t.affinity = affinity /\ t.gap = (have = 0)
      /\ t.hours = IF have = 0 THEN base ELSE Max({4, left})
      /\ t.delta = (IF have = 0 THEN 5 ELSE 3) + AtMost(3, demand - 1)
  BY DEF Task, base, left
<1>5. t.hours \in Nat \ {0}
  BY <1>1, <1>3, <1>4
<1>6. t.delta \in Nat
  BY <1>4 DEF AtMost
<1> HIDE DEF t
<1>7. Urgent(t) \in Int
  BY <1>4, <1>5 DEF Urgent
<1> QED BY <1>4, <1>5, <1>6, <1>7 DEF t

(* A roadmap for whatever list of words.                                   *)
IsList(list, n) == n \in Nat /\ list \in [1..n -> {list[i] : i \in 1..n}]

LEMMA ListFacts ==
  ASSUME NEW list, NEW n, IsList(list, n)
  PROVE  n \in Nat /\ Len(list) = n /\ DOMAIN list = 1..n /\ (list = <<>> <=> n = 0)
<1> DEFINE T == {list[i] : i \in 1..n}
<1>1. n \in Nat /\ list \in [1..n -> T]
  BY DEF IsList
<1> HIDE DEF T
<1>2. list \in Seq(T)
  BY <1>1
<1>3. 1..Len(list) = 1..n /\ Len(list) \in Nat
  BY <1>1, <1>2
<1>4. Len(list) = n
  BY <1>1, <1>3
<1> QED BY <1>1, <1>2, <1>4

LEMMA PickIsList ==
  ASSUME NEW rows, NEW K, NEW picked, IsPick(rows, K, picked)
  PROVE  IsList(picked, Cardinality(K))
<1>1. PICK order : picked = [r \in 1..Cardinality(K) |-> rows[order[r]]]
  BY DEF IsPick
<1>2. Cardinality(K) \in Nat
  BY DEF IsPick
<1> QED BY <1>1, <1>2 DEF IsList

LEMMA CoverageType ==
  ASSUME NEW confidence, NEW targets, NEW m, IsList(targets, m)
  PROVE  _coverage_score(confidence, targets) \in Int
<1> DEFINE have == {i \in DOMAIN targets : At(confidence, targets[i], 0) >= _CONFIDENT}
<1>1. m \in Nat /\ Len(targets) = m /\ DOMAIN targets = 1..m /\ (targets = <<>> <=> m = 0)
  BY ListFacts
<1>2. _coverage_score(confidence, targets) = IF targets = <<>> THEN 0 ELSE Round(100 * Cardinality(have), Len(targets))
  BY DEF _coverage_score
<1>3. Cardinality(have) \in Nat
  <2>1. have \in SUBSET (1..m) /\ IsFiniteSet(1..m)
    BY <1>1, FS_Interval
  <2> HIDE DEF have
  <2> QED BY <2>1, FS_Subset, FS_CardinalityType
<1> HIDE DEF have
<1>4. CASE m # 0
  <2>1. PICK a \in Int, d \in Nat \ {0} : a = 100 * Cardinality(have) /\ d = Len(targets)
    BY <1>1, <1>3, <1>4
  <2>2. a \div d \in Int
    OBVIOUS
  <2>3. Round(a, d) \in Int
    BY <2>2 DEF Round
  <2> QED BY <1>1, <1>2, <1>4, <2>1, <2>3
<1> QED BY <1>1, <1>2, <1>4

RoadFits(r, words, confidence, capacity) ==
    /\ {r.tasks[i].skill : i \in DOMAIN r.tasks} = {s \in words : At(confidence, s, 0) < _CONFIDENT}
    /\ WeeksFit(r, Max({1, capacity}))

Countables(confidence, affinity, demand) ==
    /\ \A s \in DOMAIN Hours : Hours[s] \in Nat \ {0}
    /\ \A s \in DOMAIN confidence : confidence[s] \in Int
    /\ \A s \in DOMAIN affinity : affinity[s] \in Int
    /\ \A s \in DOMAIN demand : demand[s] \in Nat

LEMMA RoadsFit ==
  ASSUME NEW confidence, NEW affinity, NEW demand, Countables(confidence, affinity, demand),
         NEW targets, NEW m, IsList(targets, m), NEW capacity \in Int, NEW ai
  PROVE  RoadFits(roadmap_for_targets(confidence, targets, affinity, demand, capacity, ai),
                  {targets[i] : i \in DOMAIN targets}, confidence, capacity)
<1> DEFINE K == {i \in DOMAIN targets : At(confidence, targets[i], 0) < _CONFIDENT}
           open == ToLearn(confidence, targets)
           task(s) == Task(s, At(confidence, s, 0), At(demand, s, 1), At(affinity, s, 0))
           new == Tasks(open, confidence, affinity, demand)
           planned == MostUrgentFirst(new)
           score == _coverage_score(confidence, targets)
           road == InWeeks(planned, score, capacity)
           n == Cardinality(K)
<1>1. m \in Nat /\ DOMAIN targets = 1..m
  BY ListFacts
<1>2. IsPick(targets, K, open)
  <2>1. K \in SUBSET (1..m)
    BY <1>1
  <2>2. open = Filtered(targets, K)
    BY DEF ToLearn
  <2> HIDE DEF K, open
  <2> QED BY <1>1, <2>1, <2>2, FilteredPicks
<1>3. /\ DOMAIN open = 1..n /\ n \in Nat
      /\ \A i \in 1..n : \E k \in K : open[i] = targets[k]
      /\ \A k \in K : \E i \in 1..n : open[i] = targets[k]
  <2> HIDE DEF K, open
  <2> QED BY <1>2, PickedFacts
<1>4. DOMAIN new = 1..n /\ \A i \in 1..n : new[i] = task(open[i])
  <2> HIDE DEF open, K
  <2> QED BY <1>3 DEF Tasks
<1>5. \A s : /\ task(s).skill = s /\ task(s).hours \in Nat \ {0} /\ task(s).delta \in Nat
             /\ Urgent(task(s)) \in Int
  <2> TAKE s
  <2>1. /\ \A w \in DOMAIN Hours : Hours[w] \in Nat \ {0}
        /\ At(confidence, s, 0) \in Int /\ At(demand, s, 1) \in Nat /\ At(affinity, s, 0) \in Int
    BY DEF Countables, At
  <2> QED BY <2>1, TaskFacts
<1> HIDE DEF open, new, task, planned, n
<1>6. IsPick(new, 1..n, planned)
  <2>1. \A i \in 1..n : Urgent(new[i]) \in Int /\ new[i].hours \in Int
    BY <1>4, <1>5
  <2> HIDE DEF K
  <2> QED BY <1>3, <1>4, <2>1, UrgentFirst DEF planned
<1>7. Cardinality(1..n) = n
  <2> HIDE DEF K
  <2> QED BY <1>3, FS_Interval
<1>8. /\ DOMAIN planned = 1..n /\ IsList(planned, n)
      /\ \A i \in 1..n : \E k \in 1..n : planned[i] = new[k]
      /\ \A k \in 1..n : \E i \in 1..n : planned[i] = new[k]
  <2> HIDE DEF K
  <2>1. PICK N : N = 1..n
    OBVIOUS
  <2>2. IsPick(new, N, planned) /\ Cardinality(N) = n
    BY <1>6, <1>7, <2>1, Zenon
  <2>3. /\ DOMAIN planned = 1..n /\ IsList(planned, n)
        /\ \A i \in DOMAIN planned : \E k \in N : planned[i] = new[k]
        /\ \A k \in N : \E i \in DOMAIN planned : planned[i] = new[k]
    BY <2>2, PickedFacts, PickIsList
  <2> QED BY <2>1, <2>3
<1>9. Teachable(planned, n)
  <2> HIDE DEF K
  <2>1. n \in Nat /\ planned \in [1..n -> {planned[i] : i \in 1..n}]
    BY <1>8 DEF IsList
  <2>2. \A i \in 1..n : new[i].hours \in Nat \ {0} /\ new[i].delta \in Nat
    BY <1>4, <1>5
  <2>3. \A i \in 1..n : planned[i].hours \in Nat \ {0} /\ planned[i].delta \in Nat
    BY <1>8, <2>2
  <2> QED BY <2>1, <2>3 DEF Teachable
<1>10. road.tasks = planned /\ WeeksFit(road, Max({1, capacity}))
  <2>1. score \in Int
    BY CoverageType
  <2> HIDE DEF K, score
  <2> QED BY <1>9, <2>1, InWeeksFit
<1>11. {planned[i].skill : i \in 1..n} = {s \in {targets[i] : i \in DOMAIN targets} : At(confidence, s, 0) < _CONFIDENT}
  <2>1. \A i \in 1..n : new[i].skill = open[i]
    BY <1>4, <1>5
  <2>2. \A i \in 1..n : \E k \in K : planned[i].skill = targets[k]
    <3> HIDE DEF K
    <3> TAKE i \in 1..n
    <3>1. PICK k \in 1..n : planned[i] = new[k]
      BY <1>8
    <3>2. PICK j \in K : open[k] = targets[j]
      BY <1>3
    <3> QED BY <2>1, <3>1, <3>2
  <2>3. \A k \in K : \E i \in 1..n : planned[i].skill = targets[k]
    <3> HIDE DEF K
    <3> TAKE k \in K
    <3>1. PICK j \in 1..n : open[j] = targets[k]
      BY <1>3
    <3>2. PICK i \in 1..n : planned[i] = new[j]
      BY <1>8
    <3> QED BY <2>1, <3>1, <3>2
  <2>4. \A s : s \in {targets[k] : k \in K} <=> s \in {targets[i] : i \in DOMAIN targets} /\ At(confidence, s, 0) < _CONFIDENT
    OBVIOUS
  <2> HIDE DEF K
  <2> QED BY <2>2, <2>3, <2>4
<1> DEFINE r == roadmap_for_targets(confidence, targets, affinity, demand, capacity, ai)
<1>12. r = build_ai(road, ai)
  BY DEF roadmap_for_targets, build, planned, new, open
<1> HIDE DEF road
<1>13. /\ r.tasks = road.tasks /\ r.week = road.week /\ r.weeks = road.weeks
       /\ r.projected = road.projected /\ r.milestones = road.milestones
  <2> HIDE DEF r
  <2> QED BY <1>12 DEF build_ai
<1> HIDE DEF r, K
<1>14. WeeksFit(r, Max({1, capacity}))
  BY <1>10, <1>13 DEF WeeksFit
<1>15. {r.tasks[i].skill : i \in DOMAIN r.tasks} = {planned[i].skill : i \in 1..n}
  <2>1. r.tasks = planned /\ DOMAIN r.tasks = 1..n
    BY <1>8, <1>10, <1>13
  <2> QED BY <2>1, Zenon
<1>16. RoadFits(r, {targets[i] : i \in DOMAIN targets}, confidence, capacity)
  BY <1>11, <1>14, <1>15 DEF RoadFits
<1> QED BY <1>16 DEF r

-----------------------------------------------------------------------------
(* What feedback says of a word is a number.                               *)
LEMMA AffinityType ==
  ASSUME NEW n \in Nat, NEW events, \A i \in 1..n : events[i].type \in DOMAIN _SIGNALS,
         NEW T \in SUBSET (1..n)
  PROVE  Affinity(events, T) \in Int
<1> DEFINE share(i) == Signal(events[i])
           f == [i \in 1..n |-> share(i)]
           sum == CHOOSE g : g = [t \in SUBSET T |-> IF t = {} THEN 0 ELSE share(One(t)) + g[t \ {One(t)}]]
           all == MapThenSumSet(LAMBDA i : Signal(events[i]), T)
<1>1. all = sum[T]
  BY DEF MapThenSumSet, MapThenFoldSet, One
<1>2. \A i \in 1..n : share(i) \in Int
  <2>1. \A t \in DOMAIN _SIGNALS : _SIGNALS[t] \in Int
    BY DEF _SIGNALS
  <2> QED BY <2>1 DEF Signal
<1>3. f \in [1..n -> Int] /\ IsFiniteSet(1..n)
  <2> HIDE DEF share
  <2> QED BY <1>2, FS_Interval
<1>4. \A t \in SUBSET T : t # {} => share(One(t)) = f[One(t)]
  <2>1. \A t \in SUBSET T : t # {} => One(t) \in 1..n
    BY DEF One
  <2>2. \A i \in 1..n : share(i) = f[i]
    OBVIOUS
  <2> HIDE DEF share, f
  <2> QED BY <2>1, <2>2
<1>5. \A g : (g = [t \in SUBSET T |-> IF t = {} THEN 0 ELSE share(One(t)) + g[t \ {One(t)}]]) <=> Sums1(f, T, g)
  <2> HIDE DEF share, f
  <2> QED BY <1>4 DEF Sums1
<1> HIDE DEF share, f
<1>6. PICK g : Sums1(f, T, g)
  BY <1>3, PlusOfPart
<1>7. Sums1(f, T, sum)
  BY <1>5, <1>6
<1> HIDE DEF sum
<1>8. sum[T] \in Int
  <2>1. sum[T] = Plus(f, T)
    BY <1>3, <1>7, PlusOfPart
  <2>2. Plus(f, T) \in Int
    BY <1>3, PlusFacts
  <2> QED BY <2>1, <2>2
<1>9. CASE T # {}
  <2>1. Cardinality(T) \in Nat \ {0}
    BY <1>3, <1>9, FS_Subset, FS_CardinalityType, FS_EmptySet
  <2>2. Affinity(events, T) = Clamp(-1000, 1000, Round(all, Cardinality(T)))
    BY <1>9 DEF Affinity
  <2> HIDE DEF all
  <2>3. PICK a \in Int, d \in Nat \ {0} : a = all /\ d = Cardinality(T)
    BY <1>1, <1>8, <2>1
  <2>4. a \div d \in Int
    OBVIOUS
  <2>5. Round(a, d) \in Int
    BY <2>4 DEF Round
  <2>6. Clamp(-1000, 1000, Round(a, d)) \in Int
    BY <2>5 DEF Clamp
  <2> QED BY <2>2, <2>3, <2>6
<1> QED BY <1>9 DEF Affinity

LEMMA AffinitiesType ==
  ASSUME NEW events, events \in Seq({events[i] : i \in DOMAIN events}),
         \A i \in DOMAIN events : events[i].type \in DOMAIN _SIGNALS
  PROVE  \A s \in DOMAIN get_affinities(events) : get_affinities(events)[s] \in Int
<1> DEFINE about(s) == {i \in DOMAIN events : s \in events[i].skills}
           words == UNION {events[i].skills : i \in DOMAIN events}
<1>1. PICK n \in Nat : DOMAIN events = 1..n
  OBVIOUS
<1>2. \A s : Affinity(events, about(s)) \in Int
  <2> TAKE s
  <2>1. about(s) \in SUBSET (1..n)
    BY <1>1
  <2>2. \A i \in 1..n : events[i].type \in DOMAIN _SIGNALS
    BY <1>1
  <2> HIDE DEF about
  <2> QED BY <2>1, <2>2, AffinityType
<1>3. get_affinities(events) = [s \in words |-> Affinity(events, about(s))]
  BY DEF get_affinities
<1> HIDE DEF about, words
<1> QED BY <1>2, <1>3

(* Two ways to a roadmap.                                                  *)
Adapts(kind) == Answered(kind) /\ ask.twin # None
OfTargets(ai) ==
  roadmap_for_targets(ask.twin.confidence, ask.wanted, get_affinities(ask.events), NoAlias, ask.hours, ai)
OfDreams(ai) ==
  roadmap_for_dream_companies(ask.twin.confidence, ask.twin.dream, get_affinities(ask.events), ask.hours, ai)
RoadInv ==
    /\ \E case \in Cases : ask = case[2]
    /\ Answered("adaptive") => \E ai : reply = AdaptiveAnswer(OfTargets(ai))
    /\ Answered("dream") => \E ai : reply = AdaptiveAnswer(OfDreams(ai))

LEMMA RoadInductive == RoadInv /\ [AnswersNext]_answers => RoadInv'
<1> SUFFICES ASSUME RoadInv, [AnswersNext]_answers PROVE RoadInv'
  OBVIOUS
<1>1. CASE \E ai \in Enrichments : Serves("adaptive", AdaptiveAnswer(OfTargets(ai)))
  <2>1. PICK ai : Serves("adaptive", AdaptiveAnswer(OfTargets(ai)))
    BY <1>1
  <2>2. UNCHANGED ask /\ reply' = AdaptiveAnswer(OfTargets(ai)) /\ ask.kind = "adaptive"
    BY <2>1 DEF Serves
  <2>3. reply' = AdaptiveAnswer(OfTargets(ai))'
    BY <2>2 DEF AdaptiveAnswer, OfTargets
  <2> QED BY <2>2, <2>3 DEF RoadInv, Answered
<1>2. CASE \E ai \in Enrichments : Serves("dream", AdaptiveAnswer(OfDreams(ai)))
  <2>1. PICK ai : Serves("dream", AdaptiveAnswer(OfDreams(ai)))
    BY <1>2
  <2>2. UNCHANGED ask /\ reply' = AdaptiveAnswer(OfDreams(ai)) /\ ask.kind = "dream"
    BY <2>1 DEF Serves
  <2>3. reply' = AdaptiveAnswer(OfDreams(ai))'
    BY <2>2 DEF AdaptiveAnswer, OfDreams
  <2> QED BY <2>2, <2>3 DEF RoadInv, Answered
<1> DEFINE Other(kind) == kind \notin {"adaptive", "dream"}
<1>7. /\ Other("agent") /\ Other("answers") /\ Other("brief") /\ Other("code")
      /\ Other("company") /\ Other("dashboard") /\ Other("domains") /\ Other("feedback")
      /\ Other("flashcard") /\ Other("gaps") /\ Other("general_roadmap") /\ Other("graph")
      /\ Other("ground") /\ Other("job_roadmap") /\ Other("kit") /\ Other("lab")
      /\ Other("lesson") /\ Other("mock") /\ Other("plan") /\ Other("profile")
      /\ Other("resume") /\ Other("salary") /\ Other("search") /\ Other("simulate")
      /\ Other("twin") /\ Other("unified") /\ Other("usage") /\ Other("weekly")
  BY DEF Other
<1>0. \A kind, answer : Serves(kind, answer) => UNCHANGED ask /\ ask.kind = kind
  BY DEF Serves
<1>3. CASE \E kind, answer : Serves(kind, answer) /\ Other(kind)
  <2>1. UNCHANGED ask /\ ask.kind \notin {"adaptive", "dream"}
    BY <1>0, <1>3
  <2> QED BY <2>1 DEF RoadInv, Answered
<1>4. CASE Next /\ UNCHANGED reply
  <2>1. UNCHANGED ask /\ (phase' # "served" \/ ask.kind = "recommend")
    BY <1>4 DEF Next, AddVerifiedSkills, Find, Reason, Decide, Plan, Coach, Execute, get_recommendations
  <2> QED BY <2>1 DEF RoadInv, Answered
<1>5. CASE UNCHANGED advice
  <2>1. UNCHANGED <<phase, ask, reply>>
    BY <1>5 DEF advice, vars
  <2>2. \A ai : OfTargets(ai)' = OfTargets(ai) /\ OfDreams(ai)' = OfDreams(ai)
    BY <2>1 DEF OfTargets, OfDreams
  <2>3. \A road : AdaptiveAnswer(road)' = AdaptiveAnswer(road)
    BY <2>1 DEF AdaptiveAnswer
  <2> QED BY <2>1, <2>2, <2>3 DEF RoadInv, Answered
<1>6. \/ \E ai \in Enrichments : Serves("adaptive", AdaptiveAnswer(OfTargets(ai)))
      \/ \E ai \in Enrichments : Serves("dream", AdaptiveAnswer(OfDreams(ai)))
      \/ \E kind, answer : Serves(kind, answer) /\ Other(kind)
      \/ Next /\ UNCHANGED reply
      \/ UNCHANGED advice
  <2> HIDE DEF Other
  <2>1. CASE adaptive_targets \/ adaptive_dream
    BY <2>1 DEF adaptive_targets, adaptive_dream, OfTargets, OfDreams
  <2>2. CASE AdviceNext /\ ~(adaptive_targets \/ adaptive_dream)
    <3>1. CASE simulate_career \/ salary_negotiation \/ job_roadmap \/ general_roadmap \/ get_profile
      BY <1>7, <3>1 DEF simulate_career, salary_negotiation, job_roadmap, general_roadmap, get_profile
    <3>2. CASE get_dashboard \/ weekly_report \/ get_job_gaps
      <4>1. \E kind \in {"dashboard", "weekly", "gaps"} : \E answer : Serves(kind, answer)
        BY <3>2 DEF get_dashboard, weekly_report, get_job_gaps
      <4> QED BY <1>7, <4>1
    <3>3. CASE search_jobs
      <4>1. \E answer : Serves("search", answer)
        BY <3>3 DEF search_jobs
      <4> QED BY <1>7, <4>1
    <3>4. CASE feedback_summary \/ company_profile \/ review_code \/ submit_solution
      BY <1>7, <3>4 DEF feedback_summary, company_profile, review_code, submit_solution
    <3>5. CASE unified_matching
      BY <1>7, <3>5 DEF unified_matching
    <3> QED BY <2>2, <3>1, <3>2, <3>3, <3>4, <3>5 DEF AdviceNext
  <2>3. CASE ~AdviceNext
    BY <1>7, <2>3 DEF AnswersNext, answers, Gives, graph_query, daily_brief, flashcard_schedule,
         mock_interview, mock_evaluate, get_lesson, personal_plan, interview_prep,
         resume_intelligence, profile_domains, agent_call, twin_day, usage_pages, Grounded
  <2> QED BY <2>1, <2>2, <2>3
<1> QED BY <1>1, <1>2, <1>3, <1>4, <1>5, <1>6

LEMMA TargetsFit ==
  ASSUME NEW k, \E case \in Cases : k = case[2], k.kind = "adaptive", k.twin # None, NEW ai
  PROVE  RoadFits(roadmap_for_targets(k.twin.confidence, k.wanted, get_affinities(k.events), NoAlias, k.hours, ai),
                  {k.wanted[i] : i \in DOMAIN k.wanted}, k.twin.confidence, k.hours)
<1>1. /\ k.hours \in Int /\ \A s \in DOMAIN k.twin.confidence : k.twin.confidence[s] \in Int
      /\ k.events \in Seq({k.events[i] : i \in DOMAIN k.events})
      /\ \A i \in DOMAIN k.events : k.events[i].type \in DOMAIN _SIGNALS
      /\ k.wanted \in Seq({k.wanted[i] : i \in DOMAIN k.wanted})
  <2>1. RoadAsked(k)
    BY RoadsAssumption
  <2> QED BY <2>1 DEF RoadAsked
<1>2. \A s \in DOMAIN get_affinities(k.events) : get_affinities(k.events)[s] \in Int
  BY <1>1, AffinitiesType
<1>3. DOMAIN NoAlias = {}
  BY DEF NoAlias
<1>4. Countables(k.twin.confidence, get_affinities(k.events), NoAlias)
  BY <1>1, <1>2, <1>3, RoadsAssumption DEF Countables
<1>5. PICK m : IsList(k.wanted, m)
  <2>1. PICK w, T : w = k.wanted /\ w \in Seq(T) /\ T = {w[i] : i \in DOMAIN w}
    BY <1>1
  <2>2. PICK m \in Nat : DOMAIN w = 1..m /\ w \in [1..m -> T]
    BY <2>1
  <2>3. T = {w[i] : i \in 1..m}
    BY <2>1, <2>2
  <2>4. w \in [1..m -> {w[i] : i \in 1..m}]
    BY <2>2, <2>3, Zenon
  <2>5. IsList(w, m)
    BY <2>4 DEF IsList
  <2> QED BY <2>1, <2>5
<1> QED BY <1>1, <1>4, <1>5, RoadsFit

LEMMA DreamsFit ==
  ASSUME NEW k, \E case \in Cases : k = case[2], k.kind = "dream", k.twin # None, NEW ai,
         NEW r, r = roadmap_for_dream_companies(k.twin.confidence, k.twin.dream, get_affinities(k.events), k.hours, ai),
         r # None
  PROVE  RoadFits(r, UNION {At(TechStack, c, {}) : c \in k.twin.dream}, k.twin.confidence, k.hours)
<1> DEFINE known == k.twin.dream \cap DOMAIN TechStack
           words == UNION {TechStack[c] : c \in known}
           demand == [s \in words |-> Cardinality({c \in known : s \in TechStack[c]})]
           K == {i \in DOMAIN Alphabet : Alphabet[i] \in words}
           list == sorted(words)
<1>1. /\ k.hours \in Int /\ \A s \in DOMAIN k.twin.confidence : k.twin.confidence[s] \in Int
      /\ k.events \in Seq({k.events[i] : i \in DOMAIN k.events})
      /\ \A i \in DOMAIN k.events : k.events[i].type \in DOMAIN _SIGNALS
  <2>1. RoadAsked(k)
    BY RoadsAssumption
  <2> QED BY <2>1 DEF RoadAsked
<1>2. \A s \in DOMAIN get_affinities(k.events) : get_affinities(k.events)[s] \in Int
  BY <1>1, AffinitiesType
<1>3. \A s \in DOMAIN demand : demand[s] \in Nat
  <2>1. IsFiniteSet(DOMAIN TechStack)
    BY RoadsAssumption
  <2>2. ASSUME NEW s PROVE Cardinality({c \in known : s \in TechStack[c]}) \in Nat
    <3> DEFINE C == {c \in known : s \in TechStack[c]}
    <3>1. C \in SUBSET DOMAIN TechStack
      OBVIOUS
    <3> HIDE DEF C
    <3>2. Cardinality(C) \in Nat
      BY <2>1, <3>1, FS_Subset, FS_CardinalityType
    <3> QED BY <3>2 DEF C
  <2> HIDE DEF known, words
  <2> QED BY <2>2
<1>4. Countables(k.twin.confidence, get_affinities(k.events), demand)
  <2> HIDE DEF demand
  <2> QED BY <1>1, <1>2, <1>3, RoadsAssumption DEF Countables
<1>5. IsPick(Alphabet, K, list)
  <2>1. PICK n \in Nat : DOMAIN Alphabet = 1..n
    BY RoadsAssumption
  <2>2. list = Filtered(Alphabet, K)
    BY DEF sorted
  <2>3. K \in SUBSET (1..n)
    BY <2>1
  <2> HIDE DEF K, list
  <2> QED BY <2>2, <2>3, FilteredPicks
<1>6. IsList(list, Cardinality(K))
  <2> HIDE DEF K, list
  <2> QED BY <1>5, PickIsList
<1>7. {list[i] : i \in DOMAIN list} = words
  <2>1. /\ \A i \in DOMAIN list : \E j \in K : list[i] = Alphabet[j]
        /\ \A j \in K : \E i \in DOMAIN list : list[i] = Alphabet[j]
    <3> HIDE DEF K, list
    <3> QED BY <1>5, PickedFacts
  <2>2. words \subseteq {Alphabet[i] : i \in DOMAIN Alphabet}
    BY RoadsAssumption
  <2>3. \A w \in words : \E j \in K : w = Alphabet[j]
    <3> HIDE DEF words
    <3> QED BY <2>2
  <2>4. \A j \in K : Alphabet[j] \in words
    OBVIOUS
  <2> HIDE DEF K, list, words
  <2> QED BY <2>1, <2>3, <2>4
<1>8. r = roadmap_for_targets(k.twin.confidence, list, get_affinities(k.events), demand, k.hours, ai)
  BY DEF roadmap_for_dream_companies
<1>9. words = UNION {At(TechStack, c, {}) : c \in k.twin.dream}
  BY DEF At
<1> HIDE DEF list, demand, words, K
<1>10. RoadFits(r, {list[i] : i \in DOMAIN list}, k.twin.confidence, k.hours)
  BY <1>1, <1>4, <1>6, <1>8, RoadsFit
<1> QED BY <1>7, <1>9, <1>10, Zenon

LEMMA RoadsServed == RoadInv => RoadmapFitsTheWeeks
<1> DEFINE wanted == IF ask.kind = "dream" THEN UNION {At(TechStack, c, {}) : c \in ask.twin.dream}
                     ELSE {ask.wanted[i] : i \in DOMAIN ask.wanted}
           r == reply.body
           in(w) == {i \in DOMAIN r.tasks : r.week[i] = w}
           hours == Max({1, ask.hours})
<1> SUFFICES ASSUME RoadInv, Answered("adaptive") \/ Answered("dream"), reply.status = 200
             PROVE  /\ {r.tasks[i].skill : i \in DOMAIN r.tasks} =
                         {s \in wanted : At(ask.twin.confidence, s, 0) < _CONFIDENT}
                    /\ \A w \in 1..r.weeks :
                         /\ in(w) # {}
                         /\ MapThenSumSet(LAMBDA i : r.tasks[i].hours, in(w)) <= hours \/ Cardinality(in(w)) = 1
                         /\ w > 1 => MapThenSumSet(LAMBDA i : r.tasks[i].hours, in(w - 1))
                                       + r.tasks[Min(in(w))].hours > hours
                    /\ r.weeks > 0 => r.milestones[r.weeks] = r.projected
  BY DEF RoadmapFitsTheWeeks
<1>1. \E case \in Cases : ask = case[2]
  BY DEF RoadInv
<1>2. \A road : reply = AdaptiveAnswer(road) => ask.twin # None /\ road # None /\ reply.body = road
  BY DEF AdaptiveAnswer, Found
<1>3. CASE Answered("adaptive")
  <2>1. PICK ai : reply = AdaptiveAnswer(OfTargets(ai))
    BY <1>3 DEF RoadInv
  <2>2. ask.twin # None /\ r = OfTargets(ai) /\ ask.kind = "adaptive"
    BY <1>2, <1>3, <2>1 DEF Answered
  <2>3. RoadFits(OfTargets(ai), {ask.wanted[i] : i \in DOMAIN ask.wanted}, ask.twin.confidence, ask.hours)
    BY <1>1, <2>2, TargetsFit DEF OfTargets
  <2>4. wanted = {ask.wanted[i] : i \in DOMAIN ask.wanted}
    BY <2>2
  <2>5. RoadFits(r, wanted, ask.twin.confidence, ask.hours)
    BY <2>2, <2>3, <2>4, Zenon
  <2> QED BY <2>5 DEF RoadFits, WeeksFit, Fitting, HoursOf
<1>4. CASE Answered("dream")
  <2>1. PICK ai : reply = AdaptiveAnswer(OfDreams(ai))
    BY <1>4 DEF RoadInv
  <2>2. ask.twin # None /\ r = OfDreams(ai) /\ r # None /\ ask.kind = "dream"
    BY <1>2, <1>4, <2>1 DEF Answered
  <2>3. RoadFits(r, UNION {At(TechStack, c, {}) : c \in ask.twin.dream}, ask.twin.confidence, ask.hours)
    BY <1>1, <2>2, DreamsFit DEF OfDreams
  <2>4. wanted = UNION {At(TechStack, c, {}) : c \in ask.twin.dream}
    BY <2>2
  <2>5. RoadFits(r, wanted, ask.twin.confidence, ask.hours)
    BY <2>3, <2>4, Zenon
  <2> QED BY <2>5 DEF RoadFits, WeeksFit, Fitting, HoursOf
<1> QED BY <1>3, <1>4

(* Whatever is wanted, known, liked and asked for in hours: an adaptive    *)
(* roadmap teaches exactly the words not yet confident, overloads no week  *)
(* but for a single task, starts no week early, and its last milestone is  *)
(* the score it projects.                                                  *)
THEOREM RoadmapsAlwaysFit == AnswersSpec => []RoadmapFitsTheWeeks
<1>1. AnswersInit => RoadInv
  BY DEF AnswersInit, AdviceInit, Init, RoadInv, Answered
<1> QED BY <1>1, RoadInductive, RoadsServed, PTL DEF AnswersSpec

-----------------------------------------------------------------------------
(* What enrichment adds.  A list of found words has each of them once.     *)
Words == {Alphabet[k] : k \in DOMAIN Alphabet}
FoundOnce(found, n) ==
    /\ n \in Nat /\ IsList(found, n)
    /\ \A i \in 1..n : found[i].name \in Words /\ found[i].confidence \in Int
    /\ \A i, k \in 1..n : found[i].name = found[k].name => i = k

(* The rows of one list are among the rows of another.                     *)
Within(list, n, more, m) == {list[i] : i \in 1..n} \subseteq {more[i] : i \in 1..m}

LEMMA PlaceType ==
  ASSUME NEW w \in Words
  PROVE  Place(w) \in Int
<1>1. PICK n \in Nat : DOMAIN Alphabet = 1..n
  BY RoadsAssumption
<1>2. \E k \in DOMAIN Alphabet : Alphabet[k] = w
  BY DEF Words
<1>3. Place(w) \in DOMAIN Alphabet
  BY <1>2 DEF Place
<1> QED BY <1>1, <1>3

(* A pick of distinct rows is of distinct rows.                            *)
LEMMA PickKeepsNames ==
  ASSUME NEW rows, NEW K, NEW picked, IsPick(rows, K, picked),
         \A i, k \in K : rows[i].name = rows[k].name => i = k
  PROVE  \A i, k \in 1..Cardinality(K) : picked[i].name = picked[k].name => i = k
<1>1. PICK order \in Bijection(1..Cardinality(K), K) : picked = [r \in 1..Cardinality(K) |-> rows[order[r]]]
  BY DEF IsPick
<1>2. /\ \A r \in 1..Cardinality(K) : order[r] \in K
      /\ \A r, q \in 1..Cardinality(K) : order[r] = order[q] => r = q
  BY DEF Bijection, Injection, IsInjective
<1> QED BY <1>1, <1>2

LEMMA SureFirstPicks ==
  ASSUME NEW n \in Nat, NEW found, DOMAIN found = 1..n,
         \A i \in 1..n : found[i].name \in Words /\ found[i].confidence \in Int
  PROVE  IsPick(found, 1..n, SureFirst(found))
<1> DEFINE K == DOMAIN found
           Key(i) == <<-found[i].confidence, Place(found[i].name)>>
           Before(i, k) == Lex(Key(i), Key(k))
           Prior == [i \in K |-> {k \in K : Before(k, i) \/ (~Before(i, k) /\ k < i)}]
           key == [i \in K |-> Key(i)]
           order == Ranking(K, Prior)
<1>1. SureFirst(found) = Picked(found, order)
  BY DEF SureFirst, InOrder, Ranking
<1>2. key \in [K -> Int \X Int]
  <2>1. \A i \in K : -found[i].confidence \in Int /\ Place(found[i].name) \in Int
    BY PlaceType
  <2> QED BY <2>1
<1>3. \A i \in K : Prior[i] = {k \in K : Lex(key[k], key[i]) \/ (~Lex(key[i], key[k]) /\ k < i)}
  OBVIOUS
<1>4. K \in SUBSET Nat /\ IsFiniteSet(K) /\ K = 1..n /\ Cardinality(K) = n
  BY FS_Interval
<1> HIDE DEF Prior, key, K
<1>5. StrictOrder(K, Prior)
  <2>2. PICK P, c, N : P = Prior /\ c = key /\ N = K
    OBVIOUS
  <2>3. N \in SUBSET Nat
    BY <1>4, <2>2
  <2>4. c \in [N -> Int \X Int]
    BY <1>2, <2>2, Zenon
  <2>5. \A i \in N : P[i] = {k \in N : Lex(c[k], c[i]) \/ (~Lex(c[i], c[k]) /\ k < i)}
    BY <1>3, <2>2, Zenon
  <2>6. StrictOrder(N, P)
    BY <2>3, <2>4, <2>5, PairsAreOrdered
  <2> QED BY <2>2, <2>6
<1>6. order \in Bijection(1..Cardinality(K), K)
  BY <1>4, <1>5, RankingFacts
<1> HIDE DEF order
<1>7. DOMAIN order = 1..Cardinality(K)
  BY <1>6 DEF Bijection, Injection
<1>8. SureFirst(found) = [r \in 1..Cardinality(K) |-> found[order[r]]]
  BY <1>1, <1>7 DEF Picked
<1>9. IsPick(found, K, SureFirst(found))
  BY <1>4, <1>6, <1>8 DEF IsPick
<1> QED BY <1>4, <1>9, Zenon

(* Sorting a list of found words loses none.                               *)
LEMMA SureFirstFacts ==
  ASSUME NEW n, NEW found, FoundOnce(found, n)
  PROVE  FoundOnce(SureFirst(found), n) /\ Within(found, n, SureFirst(found), n)
<1>1. n \in Nat /\ DOMAIN found = 1..n
  BY ListFacts DEF FoundOnce
<1>2. Cardinality(1..n) = n
  BY <1>1, FS_Interval
<1>3. IsPick(found, 1..n, SureFirst(found))
  BY <1>1, SureFirstPicks DEF FoundOnce
<1>4. PICK K, more : K = 1..n /\ more = SureFirst(found)
  OBVIOUS
<1>5. Cardinality(K) = n /\ IsPick(found, K, more)
  BY <1>2, <1>3, <1>4, Zenon
<1>6. IsList(more, n)
  BY <1>5, PickIsList
<1>7. /\ DOMAIN more = 1..n
      /\ \A i \in 1..n : \E k \in K : more[i] = found[k]
      /\ \A k \in K : \E i \in 1..n : more[i] = found[k]
  BY <1>5, PickedFacts
<1>8. \A i, k \in 1..n : more[i].name = more[k].name => i = k
  <2>1. \A i, k \in K : found[i].name = found[k].name => i = k
    BY <1>4 DEF FoundOnce
  <2> QED BY <1>5, <2>1, PickKeepsNames
<1>9. \A i \in 1..n : more[i].name \in Words /\ more[i].confidence \in Int
  BY <1>4, <1>7 DEF FoundOnce
<1>10. \A k \in 1..n : found[k] \in {more[i] : i \in 1..n}
  BY <1>4, <1>7, Zenon
<1>11. Within(found, n, more, n)
  BY <1>10, Zenon DEF Within
<1>12. FoundOnce(more, n)
  BY <1>1, <1>6, <1>8, <1>9 DEF FoundOnce
<1> QED BY <1>4, <1>11, <1>12, Zenon

(* Each word is counted once.                                              *)
LEMMA NamesCounted ==
  ASSUME NEW n, NEW found, FoundOnce(found, n)
  PROVE  Cardinality(NamesOf(found)) = Len(found) /\ DOMAIN found = 1..n
<1> DEFINE names == NamesOf(found)
           f == [i \in 1..n |-> found[i].name]
<1>1. n \in Nat /\ Len(found) = n /\ DOMAIN found = 1..n
  BY ListFacts DEF FoundOnce
<1>2. names = {found[i].name : i \in 1..n}
  BY <1>1 DEF NamesOf
<1>3. /\ f \in [1..n -> names]
      /\ \A i, k \in 1..n : f[i] = f[k] => i = k
      /\ \A w \in names : \E i \in 1..n : f[i] = w
  BY <1>2 DEF FoundOnce
<1> HIDE DEF f, names
<1>4. ExistsBijection(1..n, names)
  BY <1>3 DEF ExistsBijection, Bijection, Injection, Surjection, IsInjective
<1>5. IsFiniteSet(1..n) /\ Cardinality(1..n) = n
  BY <1>1, FS_Interval
<1>6. Cardinality(names) = n
  BY <1>4, <1>5, FS_Bijection
<1> QED BY <1>1, <1>6 DEF names

(* One list behind another.                                                *)
IsJoin(a, n, b, m, c) ==
    /\ IsList(c, n + m)
    /\ \A i \in 1..n : c[i] = a[i]
    /\ \A i \in 1..m : c[n + i] = b[i]

LEMMA JoinFacts ==
  ASSUME NEW a, NEW b, NEW n, NEW m, IsList(a, n), IsList(b, m)
  PROVE  IsJoin(a, n, b, m, a \o b)
<1> DEFINE T == {a[i] : i \in 1..n} \cup {b[i] : i \in 1..m}
<1>1. n \in Nat /\ m \in Nat /\ Len(a) = n /\ Len(b) = m
  BY ListFacts
<1>2. a \in [1..n -> T] /\ b \in [1..m -> T]
  BY DEF IsList
<1> HIDE DEF T
<1>3. a \in Seq(T) /\ b \in Seq(T)
  BY <1>1, <1>2
<1>4. PICK c : c = a \o b
  OBVIOUS
<1>5. c \in Seq(T) /\ Len(c) = n + m
  <2>1. a \o b \in Seq(T) /\ Len(a \o b) = Len(a) + Len(b)
    BY <1>3
  <2> QED BY <1>1, <1>4, <2>1
<1>6. \A i \in 1..(n + m) : c[i] = IF i <= n THEN a[i] ELSE b[i - n]
  BY <1>1, <1>3, <1>4
<1>7. \A i \in 1..n : c[i] = a[i]
  BY <1>1, <1>6
<1>8. \A i \in 1..m : c[n + i] = b[i]
  <2> TAKE i \in 1..m
  <2>1. n + i \in 1..(n + m) /\ ~(n + i <= n) /\ (n + i) - n = i
    BY <1>1
  <2> QED BY <1>6, <2>1
<1>9. IsList(c, n + m)
  <2>1. c \in [1..(n + m) -> T] /\ n + m \in Nat
    BY <1>1, <1>5
  <2> QED BY <2>1 DEF IsList
<1>10. IsJoin(a, n, b, m, c)
  BY <1>7, <1>8, <1>9 DEF IsJoin
<1> QED BY <1>4, <1>10, Zenon

LEMMA ConfidenceType ==
  ASSUME NEW text, IsFiniteSet(DOMAIN text), NEW s, NEW section, NEW near
  PROVE  _skill_confidence(Cardinality(Naming(text, s)), section \cap Naming(text, s) # {}, s \in near) \in Int
<1>1. Naming(text, s) \in SUBSET DOMAIN text
  BY DEF Naming
<1>2. PICK m \in Nat : m = Cardinality(Naming(text, s))
  BY <1>1, FS_Subset, FS_CardinalityType
<1>3. AtMost(3, m - 1) \in Int
  BY DEF AtMost
<1>4. Flag(section \cap Naming(text, s) # {}) \in Int /\ Flag(s \in near) \in Int
  BY DEF Flag
<1>5. PICK a, b, c \in Int : a = AtMost(3, m - 1) /\ b = Flag(section \cap Naming(text, s) # {}) /\ c = Flag(s \in near)
  BY <1>3, <1>4
<1>6. _skill_confidence(m, section \cap Naming(text, s) # {}, s \in near) = AtMost(1000, 450 + 120 * a + 250 * b + 150 * c)
  BY <1>5 DEF _skill_confidence
<1>7. AtMost(1000, 450 + 120 * a + 250 * b + 150 * c) \in Int
  BY DEF AtMost
<1> QED BY <1>2, <1>6, <1>7

(* The words in alphabetical order are a list of words, each of them once. *)
LEMMA SortedFacts ==
  ASSUME NEW words
  PROVE  \E m \in Nat :
           /\ IsList(sorted(words), m)
           /\ \A i \in 1..m : sorted(words)[i] \in Words
           /\ \A i, k \in 1..m : sorted(words)[i] = sorted(words)[k] => i = k
<1> DEFINE K == {i \in DOMAIN Alphabet : Alphabet[i] \in words}
<1>1. PICK n \in Nat : DOMAIN Alphabet = 1..n
  BY RoadsAssumption
<1>2. PICK names : names = sorted(words)
  OBVIOUS
<1>3. names = Filtered(Alphabet, K)
  BY <1>2 DEF sorted
<1>4. K \in SUBSET (1..n)
  BY <1>1
<1> HIDE DEF K
<1>5. IsPick(Alphabet, K, names)
  BY <1>3, <1>4, FilteredPicks
<1>6. PICK m : m = Cardinality(K)
  OBVIOUS
<1>7. IsList(names, m) /\ m \in Nat
  BY <1>5, <1>6, PickIsList DEF IsList
<1>8. PICK order \in Bijection(1..m, K) : names = [r \in 1..m |-> Alphabet[order[r]]]
  BY <1>5, <1>6 DEF IsPick
<1>9. /\ \A r \in 1..m : order[r] \in K
      /\ \A r, q \in 1..m : order[r] = order[q] => r = q
  BY <1>8 DEF Bijection, Injection, IsInjective
<1>10. \A r \in 1..m : names[r] = Alphabet[order[r]] /\ order[r] \in DOMAIN Alphabet
  BY <1>1, <1>4, <1>8, <1>9
<1>11. \A r \in 1..m : names[r] \in Words
  BY <1>10 DEF Words
<1>12. \A r, q \in 1..m : names[r] = names[q] => r = q
  BY <1>9, <1>10, EnrichmentAssumption
<1> QED BY <1>2, <1>7, <1>11, <1>12

LEMMA ExtractFinds ==
  ASSUME NEW text, IsFiniteSet(DOMAIN text)
  PROVE  \E n : FoundOnce(extract(text), n)
<1> DEFINE all == UNION {text[i].skills : i \in DOMAIN text}
           section == _skills_section(text)
           near == _experience_terms(text)
           found == Scored(sorted(all), text, section, near)
<1>1. PICK names : names = sorted(all)
  OBVIOUS
<1>2. PICK m \in Nat : /\ IsList(names, m)
                       /\ \A i \in 1..m : names[i] \in Words
                       /\ \A i, k \in 1..m : names[i] = names[k] => i = k
  BY <1>1, SortedFacts
<1>3. DOMAIN names = 1..m
  BY <1>2, ListFacts
<1>4. extract(text) = SureFirst(found)
  BY DEF extract
<1> DEFINE confidence(w) == _skill_confidence(Cardinality(Naming(text, w)), section \cap Naming(text, w) # {}, w \in near)
<1>5. found = [i \in 1..m |-> [name |-> names[i], confidence |-> confidence(names[i])]]
  BY <1>1, <1>3 DEF Scored
<1>6. \A w : confidence(w) \in Int
  <2> HIDE DEF section, near
  <2> QED BY ConfidenceType
<1> HIDE DEF found, confidence
<1>7. IsList(found, m) /\ \A i \in 1..m : found[i].name = names[i] /\ found[i].confidence = confidence(names[i])
  BY <1>5 DEF IsList
<1>8. FoundOnce(found, m)
  BY <1>2, <1>6, <1>7 DEF FoundOnce
<1>9. FoundOnce(SureFirst(found), m)
  BY <1>8, SureFirstFacts
<1> QED BY <1>4, <1>9

(* What the model reads comes behind what was found, as far as it is new.  *)
Readable(inferred) ==
    /\ inferred \in Seq({inferred[i] : i \in DOMAIN inferred})
    /\ \A i \in DOMAIN inferred : lower(inferred[i]) \in Words

LEMMA ExtractAiAdds ==
  ASSUME NEW base, NEW n, FoundOnce(base, n), NEW inferred, inferred # None, Readable(inferred)
  PROVE  \E m : /\ FoundOnce(extract_ai(base, inferred), m)
                /\ Within(base, n, extract_ai(base, inferred), m)
<1> DEFINE new == {i \in DOMAIN inferred :
                     /\ lower(inferred[i]) \notin NamesOf(base)
                     /\ \A k \in 1..(i - 1) : lower(inferred[k]) # lower(inferred[i])}
           words == Filtered(inferred, new)
           added == [r \in DOMAIN words |-> Inferred(lower(words[r]))]
<1>1. PICK all : all = base \o added
  OBVIOUS
<1>2. extract_ai(base, inferred) = SureFirst(all)
  BY <1>1 DEF extract_ai
<1>3. PICK l \in Nat : DOMAIN inferred = 1..l
  BY DEF Readable
<1>4. new \in SUBSET (1..l)
  BY <1>3
<1>5. /\ \A i \in new : lower(inferred[i]) \notin NamesOf(base) /\ lower(inferred[i]) \in Words
      /\ \A i, k \in new : k < i => lower(inferred[k]) # lower(inferred[i])
  <2>1. \A i, k \in new : k < i => k \in 1..(i - 1)
    BY <1>4
  <2> QED BY <2>1 DEF Readable
<1> HIDE DEF new
<1>6. IsPick(inferred, new, words)
  BY <1>4, FilteredPicks
<1> HIDE DEF words
<1>7. PICK m : m = Cardinality(new)
  OBVIOUS
<1>8. m \in Nat /\ DOMAIN words = 1..m
  BY <1>6, <1>7, PickedFacts
<1>9. PICK order \in Bijection(1..m, new) : words = [r \in 1..m |-> inferred[order[r]]]
  BY <1>6, <1>7 DEF IsPick
<1>10. /\ \A r \in 1..m : order[r] \in new
       /\ \A r, q \in 1..m : order[r] = order[q] => r = q
  BY <1>9 DEF Bijection, Injection, IsInjective
<1>11. added = [r \in 1..m |-> Inferred(lower(inferred[order[r]]))]
  BY <1>8, <1>9
<1> HIDE DEF added
<1>12. \A r \in 1..m : added[r].name = lower(inferred[order[r]]) /\ added[r].confidence = 500
  BY <1>11 DEF Inferred
<1>13. IsList(added, m)
  BY <1>8, <1>11 DEF IsList
<1>14. IsList(base, n) /\ n \in Nat
  BY DEF FoundOnce
<1>15. /\ IsList(all, n + m)
       /\ \A i \in 1..n : all[i] = base[i]
       /\ \A i \in 1..m : all[n + i] = added[i]
  <2>1. IsJoin(base, n, added, m, base \o added)
    BY <1>13, <1>14, JoinFacts
  <2>2. IsJoin(base, n, added, m, all)
    BY <1>1, <2>1, Zenon
  <2> QED BY <2>2 DEF IsJoin
<1>16. \A i \in 1..m : added[i].name \in Words /\ added[i].name \notin NamesOf(base)
  BY <1>5, <1>10, <1>12
<1>17. \A i, k \in 1..m : added[i].name = added[k].name => i = k
  <2>1. \A i, k \in new : i \in Int /\ k \in Int /\ (i = k \/ i < k \/ k < i)
    BY <1>4
  <2>2. \A i, k \in new : lower(inferred[i]) = lower(inferred[k]) => i = k
    BY <1>5, <2>1
  <2> QED BY <1>10, <1>12, <2>2
<1>18. \A i \in 1..n : base[i].name \in NamesOf(base)
  BY <1>14, ListFacts DEF NamesOf
<1>19. \A i \in 1..(n + m) : i \in 1..n \/ \E k \in 1..m : i = n + k
  <2> TAKE i \in 1..(n + m)
  <2>1. CASE i > n
    <3>1. i - n \in 1..m /\ i = n + (i - n)
      BY <1>8, <1>14, <2>1
    <3> QED BY <3>1
  <2> QED BY <1>14, <2>1
<1>20. FoundOnce(all, n + m)
  <2>1. n + m \in Nat
    BY <1>8, <1>14
  <2>2. \A i \in 1..(n + m) : all[i].name \in Words /\ all[i].confidence \in Int
    <3> TAKE i \in 1..(n + m)
    <3>1. CASE i \in 1..n
      BY <1>15, <3>1 DEF FoundOnce
    <3>2. CASE \E k \in 1..m : i = n + k
      <4>1. PICK k \in 1..m : i = n + k
        BY <3>2
      <4>2. all[i] = added[k]
        BY <1>15, <4>1
      <4> QED BY <1>12, <1>16, <4>2
    <3> QED BY <1>19, <3>1, <3>2
  <2>3. ASSUME NEW i \in 1..(n + m), NEW k \in 1..(n + m), all[i].name = all[k].name PROVE i = k
    <3>1. CASE i \in 1..n /\ k \in 1..n
      BY <1>15, <2>3, <3>1 DEF FoundOnce
    <3>2. CASE \E a \in 1..m : i = n + a /\ k \in 1..n
      BY <1>15, <1>16, <1>18, <2>3, <3>2
    <3>3. CASE \E b \in 1..m : k = n + b /\ i \in 1..n
      BY <1>15, <1>16, <1>18, <2>3, <3>3
    <3>4. CASE \E a, b \in 1..m : i = n + a /\ k = n + b
      BY <1>15, <1>17, <2>3, <3>4
    <3> QED BY <1>19, <3>1, <3>2, <3>3, <3>4
  <2> QED BY <1>15, <2>1, <2>2, <2>3 DEF FoundOnce
<1>21. PICK N, more : N = n + m /\ more = SureFirst(all)
  OBVIOUS
<1>22. FoundOnce(more, N) /\ Within(all, N, more, N)
  <2>1. FoundOnce(all, N)
    BY <1>20, <1>21, Zenon
  <2>2. FoundOnce(SureFirst(all), N) /\ Within(all, N, SureFirst(all), N)
    BY <2>1, SureFirstFacts
  <2> QED BY <1>21, <2>2, Zenon
<1>23. Within(base, n, all, N)
  <2>1. ASSUME NEW i \in 1..n PROVE base[i] \in {all[k] : k \in 1..N}
    <3>1. i \in 1..N /\ all[i] = base[i]
      BY <1>8, <1>14, <1>15, <1>21
    <3> QED BY <3>1, Zenon
  <2> QED BY <2>1, Zenon DEF Within
<1>24. Within(base, n, more, N)
  BY <1>22, <1>23, Zenon DEF Within
<1>25. more = extract_ai(base, inferred)
  BY <1>2, <1>21
<1> QED BY <1>22, <1>24, <1>25, Zenon

(* A list of everything is the list itself.                                *)
LEMMA FilteredAll ==
  ASSUME NEW rows, NEW n, IsList(rows, n)
  PROVE  Filtered(rows, 1..n) = rows
<1> DEFINE K == 1..n
           Before(i, k) == FALSE
           Prior == [i \in K |-> {k \in K : Before(k, i) \/ (~Before(i, k) /\ k < i)}]
           order == Ranking(K, Prior)
<1>1. n \in Nat /\ rows = [i \in 1..n |-> rows[i]]
  BY DEF IsList
<1>2. Filtered(rows, K) = Picked(rows, order)
  BY DEF Filtered, InOrder, Ranking
<1>3. \A i \in K : Cardinality(Prior[i]) = i - 1
  <2> TAKE i \in K
  <2>1. Prior[i] = 1..(i - 1)
    BY <1>1
  <2>2. i - 1 \in Nat
    BY <1>1
  <2>3. Cardinality(1..(i - 1)) = i - 1
    BY <2>2, FS_Interval
  <2> QED BY <2>1, <2>3
<1>4. Cardinality(K) = n
  BY <1>1, FS_Interval
<1> HIDE DEF Prior
<1>5. order = [r \in 1..n |-> r]
  <2>1. order = [r \in 1..n |-> CHOOSE i \in K : Cardinality(Prior[i]) = r - 1]
    BY <1>4 DEF Ranking
  <2>2. ASSUME NEW r \in 1..n PROVE (CHOOSE i \in K : Cardinality(Prior[i]) = r - 1) = r
    <3>1. \A i \in K : Cardinality(Prior[i]) = r - 1 => i = r
      BY <1>1, <1>3
    <3>2. r \in K /\ Cardinality(Prior[r]) = r - 1
      BY <1>3
    <3> QED BY <3>1, <3>2
  <2> QED BY <2>1, <2>2
<1> HIDE DEF order
<1>6. Picked(rows, order) = [r \in 1..n |-> rows[r]]
  BY <1>5 DEF Picked
<1> QED BY <1>1, <1>2, <1>6

(* What is joined stands behind what was there.                            *)
Starts(list, more, T) ==
    /\ list \in Seq(T) /\ more \in Seq(T) /\ Len(list) <= Len(more)
    /\ \A i \in 1..Len(list) : more[i] = list[i]

LEMMA JoinsFacts ==
  ASSUME NEW T, NEW list \in Seq(T), NEW more \in Seq(T)
  PROVE  Starts(list, Joins(list, more), T)
<1> DEFINE K == {j \in DOMAIN more : /\ \A i \in DOMAIN list : list[i] # more[j]
                                     /\ \A k \in 1..(j - 1) : more[k] # more[j]}
           rest == Filtered(more, K)
<1>1. PICK n \in Nat : n = Len(more) /\ DOMAIN more = 1..n
  OBVIOUS
<1>2. K \in SUBSET (1..n)
  BY <1>1
<1>3. PICK c : c = list \o rest
  OBVIOUS
<1>4. c = Joins(list, more)
  BY <1>3 DEF Joins
<1> HIDE DEF K
<1>5. IsPick(more, K, rest)
  BY <1>2, FilteredPicks
<1> HIDE DEF rest
<1>6. PICK m \in Nat : m = Cardinality(K)
  BY <1>5 DEF IsPick
<1>7. PICK order \in Bijection(1..m, K) : rest = [r \in 1..m |-> more[order[r]]]
  BY <1>5, <1>6 DEF IsPick
<1>8. \A r \in 1..m : order[r] \in K
  BY <1>7 DEF Bijection, Injection
<1>9. \A r \in 1..m : order[r] \in DOMAIN more
  BY <1>1, <1>2, <1>8
<1>10. rest \in [1..m -> T]
  BY <1>7, <1>9
<1>11. rest \in Seq(T)
  BY <1>10
<1>12. c \in Seq(T) /\ Len(c) = Len(list) + Len(rest)
  BY <1>3, <1>11
<1>13. \A i \in 1..Len(list) : c[i] = list[i]
  BY <1>3, <1>11
<1>14. Starts(list, c, T)
  BY <1>11, <1>12, <1>13 DEF Starts
<1> QED BY <1>4, <1>14

LEMMA JoinsFirst ==
  ASSUME NEW list, NEW n, IsList(list, n), \A i, k \in 1..n : list[i] = list[k] => i = k
  PROVE  Joins(<<>>, list) = list
<1>1. n \in Nat /\ DOMAIN list = 1..n
  BY ListFacts DEF IsList
<1>2. {j \in DOMAIN list : /\ \A i \in DOMAIN <<>> : <<>>[i] # list[j]
                           /\ \A k \in 1..(j - 1) : list[k] # list[j]} = 1..n
  <2>1. \A j \in 1..n : \A k \in 1..(j - 1) : k \in 1..n /\ k # j
    BY <1>1
  <2>2. \A j \in 1..n : \A k \in 1..(j - 1) : list[k] # list[j]
    BY <2>1
  <2> QED BY <1>1, <2>2
<1>3. Joins(<<>>, list) = <<>> \o Filtered(list, 1..n)
  BY <1>2 DEF Joins
<1>4. Joins(<<>>, list) = <<>> \o list
  BY <1>3, FilteredAll
<1>5. list \in Seq({list[i] : i \in 1..n})
  BY DEF IsList
<1>6. <<>> \o list = list
  BY <1>5
<1> QED BY <1>4, <1>6

Unfolds(lists, n, T) ==
    \E list \in [0..n -> Seq(T)] :
      /\ Joined(lists, n) = list[n]
      /\ list[0] = <<>>
      /\ \A k \in 1..n : list[k] = Joins(list[k - 1], lists[k])

LEMMA JoinedUnfolds ==
  ASSUME NEW T, NEW n \in Nat, NEW lists, \A k \in 1..n : lists[k] \in Seq(T)
  PROVE  Unfolds(lists, n, T)
<1> DEFINE A == Seq(T)
           Fill(s, i) == Joins(s, lists[i])
           F == [si \in A \X (1..n) |-> Fill(si[1], si[2])]
           list == CHOOSE s : s = [i \in 0..n |-> IF i = 0 THEN <<>> ELSE Fill(s[i - 1], i)]
<1>1. Joined(lists, n) = list[n]
  BY DEF Joined
<1>2. <<>> \in A
  OBVIOUS
<1>3. F \in [A \X (1..n) -> A]
  <2>1. ASSUME NEW s \in A, NEW i \in 1..n PROVE Fill(s, i) \in A
    <3>1. Starts(s, Joins(s, lists[i]), T)
      BY JoinsFacts
    <3> QED BY <3>1 DEF Starts
  <2> HIDE DEF A, Fill
  <2> QED BY <2>1
<1>4. PICK g : Follows(<<>>, n, F, g)
  <2> HIDE DEF F, A
  <2> QED BY <1>2, <1>3, RecursionExists
<1>5. g \in [0..n -> A]
  <2> DEFINE S == {i \in 0..n : g[i] \in A}
  <2>1. \A i \in 0..n : g[i] = IF i = 0 THEN <<>> ELSE F[<<g[i - 1], i>>]
    BY <1>4 DEF Follows
  <2> HIDE DEF F, A
  <2>2. 0 \in S
    <3>1. 0 \in 0..n
      OBVIOUS
    <3> QED BY <1>2, <2>1, <3>1
  <2>3. ASSUME NEW i \in 0..(n - 1), i \in S PROVE i + 1 \in S
    <3>1. i + 1 \in 1..n /\ i + 1 # 0 /\ (i + 1) - 1 = i /\ i + 1 \in 0..n
      OBVIOUS
    <3>2. g[i + 1] = F[<<g[i], i + 1>>]
      BY <2>1, <3>1
    <3> QED BY <1>3, <2>3, <3>1, <3>2
  <2>4. 0..n \subseteq S
    <3> HIDE DEF S
    <3> QED BY <2>2, <2>3, UpTo
  <2>5. \A i \in 0..n : g[i] \in A
    BY <2>4
  <2> QED BY <1>4, <2>5 DEF Follows
<1>6. g = [i \in 0..n |-> IF i = 0 THEN <<>> ELSE Fill(g[i - 1], i)]
  <2>1. \A i \in 0..n : i # 0 => i - 1 \in 0..n /\ i \in 1..n
    OBVIOUS
  <2>2. \A i \in 0..n : i # 0 => F[<<g[i - 1], i>>] = Fill(g[i - 1], i)
    <3> HIDE DEF A, Fill
    <3> QED BY <1>5, <2>1
  <2> HIDE DEF F, Fill
  <2> QED BY <1>4, <2>2 DEF Follows
<1>7. list = [i \in 0..n |-> IF i = 0 THEN <<>> ELSE Fill(list[i - 1], i)]
  <2>1. list = CHOOSE s : s = [i \in 0..n |-> IF i = 0 THEN <<>> ELSE Fill(s[i - 1], i)]
    OBVIOUS
  <2> HIDE DEF list, Fill
  <2> QED BY <1>6, <2>1
<1> HIDE DEF list, Fill, A
<1>8. list[0] = <<>> /\ \A i \in 1..n : list[i] = Fill(list[i - 1], i)
  <2>1. 0 \in 0..n /\ \A i \in 1..n : i \in 0..n /\ i # 0
    OBVIOUS
  <2> QED BY <1>7, <2>1
<1>9. list \in [0..n -> A]
  <2> DEFINE S == {i \in 0..n : list[i] \in A}
  <2>1. 0 \in S
    BY <1>2, <1>8
  <2>2. ASSUME NEW i \in 0..(n - 1), i \in S PROVE i + 1 \in S
    <3>1. i + 1 \in 1..n /\ (i + 1) - 1 = i /\ i + 1 \in 0..n
      OBVIOUS
    <3>2. list[i + 1] = Joins(list[i], lists[i + 1])
      BY <1>8, <3>1 DEF Fill
    <3>3. list[i] \in Seq(T) /\ lists[i + 1] \in Seq(T)
      BY <2>2, <3>1 DEF A
    <3>4. Starts(list[i], Joins(list[i], lists[i + 1]), T)
      BY <3>3, JoinsFacts
    <3> QED BY <3>1, <3>2, <3>4 DEF Starts, A
  <2>3. 0..n \subseteq S
    <3> HIDE DEF S
    <3> QED BY <2>1, <2>2, UpTo
  <2>4. \A i \in 0..n : list[i] \in A
    BY <2>3
  <2> QED BY <1>7, <2>4
<1> QED BY <1>1, <1>8, <1>9 DEF Unfolds, A, Fill

LEMMA MaxOfTwo ==
  ASSUME NEW a \in Int, NEW b \in Int
  PROVE  Max({a, b}) >= a
<1> DEFINE S == {a, b}
<1>1. \E x \in S : \A y \in S : x >= y
  OBVIOUS
<1>2. a \in S
  OBVIOUS
<1> HIDE DEF S
<1>3. \A y \in S : Max(S) >= y
  BY <1>1 DEF Max
<1>4. Max(S) >= a
  BY <1>2, <1>3
<1> QED BY <1>4 DEF S

LEMMA CutKeepsStart ==
  ASSUME NEW T, NEW top, NEW words, Starts(top, words, T), Len(top) <= 10
  PROVE  LET cut == SubSeq(words, 1, AtMost(20, Len(words)))
         IN SubSeq(cut, 1, Len(top)) = top
<1>1. PICK cut : cut = SubSeq(words, 1, AtMost(20, Len(words)))
  OBVIOUS
<1>2. /\ top \in Seq(T) /\ words \in Seq(T) /\ Len(top) <= Len(words)
      /\ \A i \in 1..Len(top) : words[i] = top[i]
  BY DEF Starts
<1>3. PICK n \in Nat, l \in Nat, h \in Nat :
        /\ n = Len(top) /\ l = Len(words) /\ h = AtMost(20, l) /\ n <= h /\ h <= l
  BY <1>2 DEF AtMost
<1>4. cut \in Seq(T) /\ Len(cut) = h /\ \A i \in 1..h : cut[i] = words[i]
  <2>1. cut = SubSeq(words, 1, h)
    BY <1>1, <1>3
  <2> QED BY <1>2, <1>3, <2>1
<1>5. PICK front : front = SubSeq(cut, 1, n)
  OBVIOUS
<1>6. front \in Seq(T) /\ Len(front) = n /\ \A i \in 1..n : front[i] = cut[i]
  BY <1>3, <1>4, <1>5
<1>7. \A i \in 1..n : front[i] = top[i]
  BY <1>2, <1>3, <1>4, <1>6
<1>8. front = top
  BY <1>2, <1>3, <1>6, <1>7
<1> QED BY <1>1, <1>3, <1>5, <1>8

(* The words joined in the report are behind those it has.                 *)
LEMMA JoinedTwo ==
  ASSUME NEW top, NEW inferred,
         top \in Seq({top[i] : i \in DOMAIN top}), inferred \in Seq({inferred[i] : i \in DOMAIN inferred}),
         \A i, k \in DOMAIN top : top[i] = top[k] => i = k
  PROVE  \E T : Starts(top, Joined(<<top, inferred>>, 2), T)
<1> DEFINE T == {top[i] : i \in DOMAIN top} \cup {inferred[i] : i \in DOMAIN inferred}
           lists == <<top, inferred>>
<1>1. top \in Seq(T) /\ inferred \in Seq(T)
  OBVIOUS
<1>2. lists[1] = top /\ lists[2] = inferred
  OBVIOUS
<1>3. \A k \in 1..2 : k = 1 \/ k = 2
  OBVIOUS
<1>4. \A k \in 1..2 : lists[k] \in Seq(T)
  <2> HIDE DEF lists, T
  <2> QED BY <1>1, <1>2, <1>3
<1> HIDE DEF lists, T
<1>5. PICK list \in [0..2 -> Seq(T)] :
        /\ Joined(lists, 2) = list[2]
        /\ list[0] = <<>>
        /\ \A k \in 1..2 : list[k] = Joins(list[k - 1], lists[k])
  <2>1. PICK n \in Nat : n = 2
    OBVIOUS
  <2>2. \A k \in 1..n : lists[k] \in Seq(T)
    BY <1>4, <2>1
  <2>3. Unfolds(lists, n, T)
    BY <2>2, JoinedUnfolds
  <2> QED BY <2>1, <2>3 DEF Unfolds
<1>6. list[1] = Joins(<<>>, top) /\ list[2] = Joins(list[1], inferred)
  <2>1. 1 \in 1..2 /\ 2 \in 1..2 /\ 1 - 1 = 0 /\ 2 - 1 = 1
    OBVIOUS
  <2>2. list[1] = Joins(list[1 - 1], lists[1]) /\ list[2] = Joins(list[2 - 1], lists[2])
    BY <1>5, <2>1
  <2> QED BY <1>2, <1>5, <2>1, <2>2
<1>7. list[1] = top
  <2>1. PICK n \in Nat : n = Len(top) /\ DOMAIN top = 1..n
    OBVIOUS
  <2>2. top \in [1..n -> {top[i] : i \in 1..n}]
    BY <2>1
  <2>3. IsList(top, n)
    BY <2>2 DEF IsList
  <2>4. \A i, k \in 1..n : top[i] = top[k] => i = k
    BY <2>1
  <2> QED BY <1>6, <2>3, <2>4, JoinsFirst
<1>8. Starts(top, Joins(top, inferred), T)
  BY <1>1, JoinsFacts
<1>9. Joined(lists, 2) = Joins(top, inferred)
  BY <1>5, <1>6, <1>7
<1> QED BY <1>8, <1>9 DEF lists

(* A report with the model's words behind its own.                         *)
MergeAdds(report, merged) ==
    /\ SubSeq(merged.top, 1, Len(report.top)) = report.top
    /\ merged.skills >= report.skills

LEMMA AnalyzeAiAdds ==
  ASSUME NEW sheet, NEW sections, NEW found, NEW n, FoundOnce(found, n), NEW inferred,
         inferred # None => Readable(inferred)
  PROVE  MergeAdds(Report(sheet, sections, found), analyze_ai(Report(sheet, sections, found), inferred))
<1>1. n \in Nat /\ Len(found) = n
  BY ListFacts DEF FoundOnce
<1>2. PICK m \in Nat : m = AtMost(10, n) /\ m <= 10
  BY <1>1 DEF AtMost
<1> DEFINE top == [i \in 1..m |-> found[i].name]
           report == Report(sheet, sections, found)
<1>3. report = [ats |-> report.ats, tips |-> report.tips, skills |-> n, top |-> top]
  BY <1>1, <1>2 DEF Report
<1>4. top \in Seq({top[i] : i \in 1..m}) /\ Len(top) = m /\ DOMAIN top = 1..m
  BY <1>2
<1>8. \A i, k \in DOMAIN top : top[i] = top[k] => i = k
  <2>1. \A i \in 1..m : i \in 1..n
    BY <1>1, <1>2 DEF AtMost
  <2> QED BY <1>4, <2>1 DEF FoundOnce
<1> HIDE DEF top, report
<1>5. report.top = top /\ report.skills = n
  BY <1>3
<1>6. CASE inferred = None
  <2>1. analyze_ai(report, inferred) = report
    BY <1>6 DEF analyze_ai
  <2>2. SubSeq(top, 1, Len(top)) = top
    BY <1>4
  <2>3. MergeAdds(report, report)
    BY <1>1, <1>5, <2>2 DEF MergeAdds
  <2> QED BY <2>1, <2>3 DEF report
<1>7. CASE inferred # None
  <2>1. PICK words : words = Joined(<<top, inferred>>, 2)
    OBVIOUS
  <2>2. PICK T : Starts(top, words, T)
    <3>1. top \in Seq({top[i] : i \in DOMAIN top}) /\ inferred \in Seq({inferred[i] : i \in DOMAIN inferred})
      BY <1>4, <1>7 DEF Readable
    <3> QED BY <1>8, <2>1, <3>1, JoinedTwo
  <2> DEFINE h == AtMost(20, Len(words))
             cut == SubSeq(words, 1, h)
             count == Cardinality({lower(words[i]) : i \in 1..h})
  <2>3. analyze_ai(report, inferred) = [report EXCEPT !.top = cut, !.skills = Max({@, count})]
    BY <1>5, <1>7, <2>1 DEF analyze_ai, Merged
  <2>4. count \in Nat
    <3>1. h \in Nat
      BY <2>2 DEF Starts, AtMost
    <3> DEFINE read == [i \in 1..h |-> lower(words[i])]
               set == {lower(words[i]) : i \in 1..h}
    <3> HIDE DEF h
    <3>2. read \in Surjection(1..h, set)
      BY DEF Surjection
    <3>3. IsFiniteSet(1..h)
      BY <3>1, FS_Interval
    <3> HIDE DEF read, set
    <3>4. IsFiniteSet(set)
      BY <3>2, <3>3, FS_Surjection
    <3>5. Cardinality(set) \in Nat
      BY <3>4, FS_CardinalityType
    <3> QED BY <3>5 DEF set
  <2>5. SubSeq(cut, 1, Len(top)) = top
    <3>1. Len(top) <= 10
      BY <1>2, <1>4
    <3> QED BY <2>2, <3>1, CutKeepsStart
  <2> HIDE DEF cut, count, h
  <2>6. PICK merged : merged = analyze_ai(report, inferred)
    OBVIOUS
  <2>7. merged.top = cut /\ merged.skills = Max({n, count})
    BY <1>3, <1>5, <2>3, <2>6
  <2>8. Max({n, count}) >= n
    BY <1>1, <2>4, MaxOfTwo
  <2>9. MergeAdds(report, merged)
    BY <1>5, <2>5, <2>7, <2>8 DEF MergeAdds
  <2> QED BY <2>6, <2>9 DEF report
<1> QED BY <1>6, <1>7

(* The questions of a kit, and what stands behind the model's.             *)
Keeps(all, static) == SubSeq(all, Len(all) - Len(static) + 1, Len(all)) = static

LEMMA KeepsBehind ==
  ASSUME NEW T, NEW front \in Seq(T), NEW static \in Seq(T)
  PROVE  Keeps(front \o static, static)
<1>1. PICK n \in Nat, m \in Nat : n = Len(front) /\ m = Len(static)
  OBVIOUS
<1>2. PICK all : all = front \o static
  OBVIOUS
<1>3. all \in Seq(T) /\ Len(all) = n + m
  BY <1>1, <1>2
<1>4. \A i \in 1..m : all[n + i] = static[i]
  BY <1>1, <1>2
<1>5. PICK back : back = SubSeq(all, n + 1, n + m)
  OBVIOUS
<1>6. back \in Seq(T) /\ Len(back) = m /\ \A i \in 1..m : back[i] = all[n + i]
  BY <1>1, <1>3, <1>5
<1>7. back = static
  BY <1>1, <1>4, <1>6
<1>8. Len(all) - Len(static) + 1 = n + 1
  BY <1>1, <1>3
<1>9. Keeps(all, static)
  BY <1>3, <1>5, <1>7, <1>8 DEF Keeps
<1> QED BY <1>2, <1>9, Zenon

LEMMA KeepsItself ==
  ASSUME NEW T, NEW static \in Seq(T)
  PROVE  Keeps(static, static)
<1>1. SubSeq(static, 1, Len(static)) = static
  OBVIOUS
<1>2. Len(static) - Len(static) + 1 = 1
  OBVIOUS
<1> QED BY <1>1, <1>2 DEF Keeps

LEMMA FlatType ==
  ASSUME NEW skills, NEW n, IsList(skills, n)
  PROVE  \E T : get_all_questions_flat(skills) \in Seq(T)
<1> DEFINE T == UNION {{KitBank[s][i] : i \in DOMAIN KitBank[s]} : s \in DOMAIN KitBank}
           lists == [i \in DOMAIN skills |-> At(KitBank, skills[i], <<>>)]
<1>1. n \in Nat /\ Len(skills) = n /\ DOMAIN skills = 1..n
  BY ListFacts
<1>2. get_all_questions_flat(skills) = Joined(lists, n)
  BY <1>1 DEF get_all_questions_flat
<1>3. \A s \in DOMAIN KitBank : KitBank[s] \in Seq(T)
  <2> TAKE s \in DOMAIN KitBank
  <2>1. KitBank[s] \in Seq({KitBank[s][i] : i \in DOMAIN KitBank[s]})
    BY EnrichmentAssumption
  <2>2. {KitBank[s][i] : i \in DOMAIN KitBank[s]} \subseteq T
    OBVIOUS
  <2> QED BY <2>1, <2>2
<1> HIDE DEF T
<1>4. \A k \in 1..n : lists[k] \in Seq(T)
  BY <1>1, <1>3 DEF At
<1> HIDE DEF lists
<1>5. Unfolds(lists, n, T)
  BY <1>1, <1>4, JoinedUnfolds
<1>6. Joined(lists, n) \in Seq(T)
  <2>1. n \in 0..n
    BY <1>1
  <2> QED BY <1>5, <2>1 DEF Unfolds
<1> QED BY <1>2, <1>6

LEMMA EnrichedKeeps ==
  ASSUME NEW kit, "all" \in DOMAIN kit, NEW T, kit.all \in Seq(T), NEW skill, NEW asked \in Nat \cup {None}
  PROVE  Keeps(Enriched(kit, skill, asked).all, kit.all)
<1>1. CASE asked \in {None, 0}
  <2>1. Enriched(kit, skill, asked) = kit
    BY <1>1 DEF Enriched
  <2> QED BY <2>1, KeepsItself
<1>2. CASE asked \notin {None, 0}
  <2> DEFINE front == [n \in 1..asked |-> "ai"]
             S == T \cup {"ai"}
  <2>1. PICK all : all = front \o kit.all
    OBVIOUS
  <2>2. Enriched(kit, skill, asked).all = all
    BY <1>2, <2>1 DEF Enriched
  <2>3. asked \in Nat
    BY <1>2
  <2>4. front \in Seq(S) /\ kit.all \in Seq(S)
    BY <2>3
  <2> HIDE DEF front, S
  <2>5. Keeps(front \o kit.all, kit.all)
    BY <2>4, KeepsBehind
  <2> QED BY <2>1, <2>2, <2>5
<1> QED BY <1>1, <1>2

LEMMA KitAdds ==
  ASSUME NEW job, NEW asked \in Asked
  PROVE  Keeps(KitOf(job, asked).all, KitOf(job, None).all)
<1>1. PICK skills, d, score : skills = sorted(job.matched) /\ d = job.domain /\ score = job.score
  OBVIOUS
<1>2. \A a : KitOf(job, a) = generate_interview_kit_ai(d, skills, score, a)
  BY <1>1 DEF KitOf
<1>3. CASE has_domain_kit(d)
  <2>1. \A a : KitOf(job, a) = build_domain_kit(d, skills, score)
    BY <1>2, <1>3 DEF generate_interview_kit_ai
  <2>2. build_domain_kit(d, skills, score).all = DomainKits[d]
    BY DEF build_domain_kit, Kit
  <2>3. DomainKits[d] \in Seq({DomainKits[d][i] : i \in DOMAIN DomainKits[d]})
    BY <1>3, EnrichmentAssumption DEF has_domain_kit
  <2>4. Keeps(DomainKits[d], DomainKits[d])
    BY <2>3, KeepsItself
  <2> QED BY <2>1, <2>2, <2>4
<1>4. CASE ~has_domain_kit(d)
  <2>1. PICK kit : kit = interview_kit(skills, score)
    OBVIOUS
  <2>2. "all" \in DOMAIN kit /\ kit.all = get_all_questions_flat(skills)
    BY <2>1 DEF interview_kit, Kit
  <2>3. PICK n : IsList(skills, n)
    BY <1>1, SortedFacts
  <2>4. PICK T : kit.all \in Seq(T)
    BY <2>2, <2>3, FlatType
  <2>5. PICK skill : skill = IF skills = <<>> THEN "embedded" ELSE skills[1]
    OBVIOUS
  <2>6. \A a : KitOf(job, a) = Enriched(kit, skill, a)
    BY <1>2, <1>4, <2>1, <2>5 DEF generate_interview_kit_ai
  <2>7. KitOf(job, None) = kit
    BY <2>6 DEF Enriched
  <2>8. asked \in Nat \cup {None}
    BY EnrichmentAssumption
  <2>9. Keeps(Enriched(kit, skill, asked).all, kit.all)
    BY <2>2, <2>4, <2>8, EnrichedKeeps
  <2> QED BY <2>6, <2>7, <2>9
<1> QED BY <1>3, <1>4

(* What is served of a resume, and for a job.                              *)
ReadAs(k, inferred, r) ==
    /\ r.found = extract(k.text) /\ r.enriched = extract_ai(r.found, inferred)
    /\ r.report = analyze(k.text, k.sheet) /\ r.merged = analyze_ai(r.report, inferred)
KitsWith(asked, r) ==
    r.kit # None => \E job : r.kit.kit = KitOf(job, asked) /\ r.static.kit = KitOf(job, None)
EnrichInv ==
    /\ \E case \in Cases : ask = case[2]
    /\ Answered("resume") => \E inferred \in Inferences : ReadAs(ask, inferred, reply)
    /\ Answered("kit") => \E asked \in Asked : KitsWith(asked, reply)

LEMMA KitsServed ==
  ASSUME NEW jobs, NEW id, NEW subrole, NEW asked, NEW reads, NEW r,
         r.static = get_interview_kit(jobs, id, subrole, None, reads),
         r.kit = get_interview_kit(jobs, id, subrole, asked, reads)
  PROVE  KitsWith(asked, r)
<1> DEFINE K == {i \in DOMAIN jobs : jobs[i].id = id}
<1> SUFFICES ASSUME r.kit # None
             PROVE  \E job : r.kit.kit = KitOf(job, asked) /\ r.static.kit = KitOf(job, None)
  BY DEF KitsWith
<1>1. K # {}
  BY DEF get_interview_kit
<1>2. PICK job, over : job = jobs[Min(K)] /\ over = _curated_overlay(subrole, reads)
  OBVIOUS
<1>3. \A a : get_interview_kit(jobs, id, subrole, a, reads) = [kit |-> KitOf(job, a), overlay |-> over]
  BY <1>1, <1>2 DEF get_interview_kit
<1> QED BY <1>3

LEMMA EnrichmentServed == EnrichInv => EnrichmentOnlyAdds
<1> SUFFICES ASSUME EnrichInv PROVE EnrichmentOnlyAdds
  OBVIOUS
<1>1. ASSUME Answered("resume")
      PROVE  /\ {reply.found[i] : i \in DOMAIN reply.found} \subseteq {reply.enriched[i] : i \in DOMAIN reply.enriched}
             /\ Cardinality(NamesOf(reply.enriched)) = Len(reply.enriched)
             /\ MergeAdds(reply.report, reply.merged)
  <2>1. PICK inferred \in Inferences : ReadAs(ask, inferred, reply)
    BY <1>1 DEF EnrichInv
  <2>2. PICK text, sheet : text = ask.text /\ sheet = ask.sheet /\ IsFiniteSet(DOMAIN text)
    BY <1>1, EnrichmentAssumption DEF EnrichInv, Answered
  <2>3. PICK base, more : base = reply.found /\ more = reply.enriched
    OBVIOUS
  <2>4. /\ base = extract(text) /\ more = extract_ai(base, inferred)
        /\ reply.report = analyze(text, sheet) /\ reply.merged = analyze_ai(reply.report, inferred)
    BY <2>1, <2>2, <2>3 DEF ReadAs
  <2>5. PICK n : FoundOnce(base, n)
    BY <2>2, <2>4, ExtractFinds
  <2>6. inferred # None => Readable(inferred)
    BY EnrichmentAssumption DEF Readable, Words
  <2>7. \E m : FoundOnce(more, m) /\ Within(base, n, more, m)
    <3>1. CASE inferred = None
      <4>1. more = base
        BY <2>4, <3>1 DEF extract_ai
      <4> QED BY <2>5, <4>1 DEF Within
    <3>2. CASE inferred # None
      BY <2>4, <2>5, <2>6, <3>2, ExtractAiAdds
    <3> QED BY <3>1, <3>2
  <2>8. PICK m : FoundOnce(more, m) /\ Within(base, n, more, m)
    BY <2>7
  <2>9. DOMAIN base = 1..n /\ DOMAIN more = 1..m /\ Cardinality(NamesOf(more)) = Len(more)
    BY <2>5, <2>8, NamesCounted
  <2>10. {base[i] : i \in DOMAIN base} \subseteq {more[i] : i \in DOMAIN more}
    BY <2>8, <2>9, Zenon DEF Within
  <2>11. MergeAdds(reply.report, reply.merged)
    <3>1. PICK sections : sections = Sections(text)
      OBVIOUS
    <3>2. reply.report = Report(sheet, sections, base)
      BY <2>4, <3>1 DEF analyze
    <3>3. MergeAdds(Report(sheet, sections, base), analyze_ai(Report(sheet, sections, base), inferred))
      BY <2>5, <2>6, AnalyzeAiAdds
    <3> QED BY <2>4, <3>2, <3>3
  <2> QED BY <2>3, <2>9, <2>10, <2>11, Zenon
<1>2. ASSUME Answered("kit"), reply.kit # None
      PROVE  Keeps(reply.kit.kit.all, reply.static.kit.all)
  <2>1. PICK asked \in Asked : KitsWith(asked, reply)
    BY <1>2 DEF EnrichInv
  <2>2. PICK job : reply.kit.kit = KitOf(job, asked) /\ reply.static.kit = KitOf(job, None)
    BY <1>2, <2>1 DEF KitsWith
  <2> QED BY <2>2, KitAdds
<1> QED BY <1>1, <1>2 DEF EnrichmentOnlyAdds, MergeAdds, Keeps

LEMMA EnrichInductive == EnrichInv /\ [AnswersNext]_answers => EnrichInv'
<1> SUFFICES ASSUME EnrichInv, [AnswersNext]_answers PROVE EnrichInv'
  OBVIOUS
<1>1. CASE resume_intelligence
  <2>1. PICK inferred \in Inferences : Serves("resume",
          [found |-> extract(ask.text), enriched |-> extract_ai(extract(ask.text), inferred),
           report |-> analyze(ask.text, ask.sheet), merged |-> analyze_ai(analyze(ask.text, ask.sheet), inferred),
           tailored |-> _tailor_recommendation(tailor_to_job(ask.text, ask.posting)),
           experience |-> extract_experience(ask.text)])
    BY <1>1 DEF resume_intelligence, Gives
  <2>2. UNCHANGED ask /\ ask.kind = "resume"
    BY <2>1 DEF Serves
  <2>3. ReadAs(ask, inferred, reply')
    BY <2>1 DEF Serves, ReadAs
  <2>4. ReadAs(ask', inferred, reply')
    BY <2>2, <2>3
  <2> QED BY <2>2, <2>4 DEF EnrichInv, Answered
<1>2. CASE interview_prep
  <2>1. PICK asked \in Asked, reads \in BOOLEAN : \E jobs, prep : Serves("kit",
          [asked |-> asked, static |-> get_interview_kit(jobs, ask.job, ask.subrole, None, reads),
           kit |-> get_interview_kit(jobs, ask.job, ask.subrole, asked, reads), prep |-> prep])
    BY <1>2 DEF interview_prep, Gives
  <2>2. PICK jobs, prep : Serves("kit",
          [asked |-> asked, static |-> get_interview_kit(jobs, ask.job, ask.subrole, None, reads),
           kit |-> get_interview_kit(jobs, ask.job, ask.subrole, asked, reads), prep |-> prep])
    BY <2>1
  <2>3. UNCHANGED ask /\ ask.kind = "kit"
    BY <2>2 DEF Serves
  <2>4. /\ reply'.static = get_interview_kit(jobs, ask.job, ask.subrole, None, reads)
        /\ reply'.kit = get_interview_kit(jobs, ask.job, ask.subrole, asked, reads)
    BY <2>2 DEF Serves
  <2>5. KitsWith(asked, reply')
    BY <2>4, KitsServed
  <2> QED BY <2>3, <2>5 DEF EnrichInv, Answered
<1> DEFINE Other(kind) == kind \notin {"resume", "kit"}
<1>3. \A kind, answer : Serves(kind, answer) => UNCHANGED ask /\ ask.kind = kind
  BY DEF Serves
<1>4. CASE \E kind, answer : Serves(kind, answer) /\ Other(kind)
  <2>1. UNCHANGED ask /\ ask.kind \notin {"resume", "kit"}
    BY <1>3, <1>4
  <2> QED BY <2>1 DEF EnrichInv, Answered
<1>5. CASE Next /\ UNCHANGED reply
  <2>1. UNCHANGED ask /\ (phase' # "served" \/ ask.kind = "recommend")
    BY <1>5 DEF Next, AddVerifiedSkills, Find, Reason, Decide, Plan, Coach, Execute, get_recommendations
  <2> QED BY <2>1 DEF EnrichInv, Answered
<1>6. CASE UNCHANGED advice
  <2>1. UNCHANGED <<phase, ask, reply>>
    BY <1>6 DEF advice, vars
  <2> QED BY <2>1 DEF EnrichInv, Answered
<1>7. /\ Other("agent") /\ Other("answers") /\ Other("brief") /\ Other("code")
      /\ Other("company") /\ Other("dashboard") /\ Other("domains") /\ Other("feedback")
      /\ Other("flashcard") /\ Other("gaps") /\ Other("general_roadmap") /\ Other("graph")
      /\ Other("ground") /\ Other("job_roadmap") /\ Other("adaptive") /\ Other("lab")
      /\ Other("lesson") /\ Other("mock") /\ Other("plan") /\ Other("profile")
      /\ Other("dream") /\ Other("salary") /\ Other("search") /\ Other("simulate")
      /\ Other("twin") /\ Other("unified") /\ Other("usage") /\ Other("weekly")
  BY DEF Other
<1>8. \/ resume_intelligence \/ interview_prep
      \/ \E kind, answer : Serves(kind, answer) /\ Other(kind)
      \/ Next /\ UNCHANGED reply
      \/ UNCHANGED advice
  <2> HIDE DEF Other
  <2>1. CASE AdviceNext
    <3>1. CASE simulate_career \/ salary_negotiation \/ job_roadmap \/ general_roadmap \/ get_profile
      BY <1>7, <3>1 DEF simulate_career, salary_negotiation, job_roadmap, general_roadmap, get_profile
    <3>2. CASE get_dashboard \/ weekly_report \/ get_job_gaps
      <4>1. \E kind \in {"dashboard", "weekly", "gaps"} : \E answer : Serves(kind, answer)
        BY <3>2 DEF get_dashboard, weekly_report, get_job_gaps
      <4> QED BY <1>7, <4>1
    <3>3. CASE search_jobs
      <4>1. \E answer : Serves("search", answer)
        BY <3>3 DEF search_jobs
      <4> QED BY <1>7, <4>1
    <3>4. CASE feedback_summary \/ company_profile \/ review_code \/ submit_solution
      BY <1>7, <3>4 DEF feedback_summary, company_profile, review_code, submit_solution
    <3>5. CASE unified_matching
      BY <1>7, <3>5 DEF unified_matching
    <3>6. CASE adaptive_targets \/ adaptive_dream
      BY <1>7, <3>6 DEF adaptive_targets, adaptive_dream
    <3> QED BY <2>1, <3>1, <3>2, <3>3, <3>4, <3>5, <3>6 DEF AdviceNext
  <2>2. CASE ~AdviceNext /\ ~resume_intelligence /\ ~interview_prep
    BY <1>7, <2>2 DEF AnswersNext, answers, Gives, graph_query, daily_brief, flashcard_schedule,
         mock_interview, mock_evaluate, get_lesson, personal_plan, profile_domains,
         agent_call, twin_day, usage_pages, Grounded
  <2> QED BY <2>1, <2>2
<1> QED BY <1>1, <1>2, <1>4, <1>5, <1>6, <1>8

(* Whatever the model infers, writes or fails to: the skills found in a    *)
(* resume stay as they were found and each is listed once, the report      *)
(* keeps its skills in front and counts no fewer, and a kit keeps its own  *)
(* questions, in their order, behind the model's.                          *)
THEOREM EnrichmentAlwaysAdds == AnswersSpec => []EnrichmentOnlyAdds
<1>1. AnswersInit => EnrichInv
  BY DEF AnswersInit, AdviceInit, Init, EnrichInv, Answered
<1> QED BY <1>1, EnrichInductive, EnrichmentServed, PTL DEF AnswersSpec
=============================================================================
