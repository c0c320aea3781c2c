----------------------- MODULE CapabilityRouterProofs -----------------------
(***************************************************************************)
(* Proofs about CapabilityRouter, for every registry, document, profile    *)
(* and mission.                                                            *)
(***************************************************************************)
EXTENDS CapabilityRouter, OrderTheorems, SequenceTheorems

-----------------------------------------------------------------------------
(* What a mission asks for.                                                *)

Listed(outputs) == outputs \in Seq({outputs[j] : j \in DOMAIN outputs})

LEMMA ShortLists ==
    /\ \A a : Listed(<<a>>)
    /\ \A a, b : Listed(<<a, b>>)
    /\ \A a, b, c : Listed(<<a, b, c>>)
<1>1. ASSUME NEW a PROVE Listed(<<a>>)
    BY DEF Listed
<1>2. ASSUME NEW a, NEW b PROVE Listed(<<a, b>>)
    BY DEF Listed
<1>3. ASSUME NEW a, NEW b, NEW c PROVE Listed(<<a, b, c>>)
    BY DEF Listed
<1> QED
    BY <1>1, <1>2, <1>3

LEMMA EmbeddedFacts ==
    /\ DOMAIN EmbeddedDescriptors = 1..7
    /\ \A i \in 1..7 : OutputList(EmbeddedDescriptors[i].outputs)
<1> DEFINE Out(i) == EmbeddedDescriptors[i].outputs
<1>1. DOMAIN EmbeddedDescriptors = 1..7
    BY DEF EmbeddedDescriptors
<1>2. /\ \A a : a.required \in BOOLEAN => OutputList(<<a>>)
      /\ \A a, b : {a.required, b.required} \subseteq BOOLEAN => OutputList(<<a, b>>)
      /\ \A a, b, c : {a.required, b.required, c.required} \subseteq BOOLEAN
            => OutputList(<<a, b, c>>)
    BY ShortLists DEF OutputList, Listed
<1>3. /\ \E a, b : {a.required, b.required} \subseteq BOOLEAN /\ Out(1) = <<a, b>>
      /\ \E a, b : {a.required, b.required} \subseteq BOOLEAN /\ Out(2) = <<a, b>>
      /\ \E a, b : {a.required, b.required} \subseteq BOOLEAN /\ Out(6) = <<a, b>>
    BY DEF EmbeddedDescriptors, Rule, Needs, Plainly
<1>4. \E a, b, c : {a.required, b.required, c.required} \subseteq BOOLEAN /\ Out(5) = <<a, b, c>>
    BY DEF EmbeddedDescriptors, Rule, Needs, Plainly
<1> DEFINE a3 == Needs("speech_to_text", TRUE, "audio", NoKind, AnyEvidence)
           a4 == Plainly("deterministic_processing", TRUE)
           a7 == Plainly("filesystem_read", TRUE)
<1>5. Out(3) = <<a3>> /\ Out(4) = <<a4>> /\ Out(7) = <<a7>>
    BY DEF EmbeddedDescriptors, Rule
<1>6. {a3.required, a4.required, a7.required} \subseteq BOOLEAN
    BY DEF Needs, Plainly
<1> HIDE DEF a3, a4, a7
<1> HIDE DEF Out
<1>7. \A i \in {1, 2, 6} : OutputList(Out(i))
    BY <1>2, <1>3
<1>8. OutputList(Out(5))
    BY <1>2, <1>4
<1>9. \A i \in {3, 4, 7} : OutputList(Out(i))
    <2>1. OutputList(<<a3>>) /\ OutputList(<<a4>>) /\ OutputList(<<a7>>)
        BY <1>2, <1>6
    <2> QED
        BY <1>5, <2>1
<1>10. \A i \in 1..7 : OutputList(Out(i))
    BY <1>7, <1>8, <1>9
<1> QED
    BY <1>1, <1>10 DEF Out

LEMMA WantedWellFormed ==
    ASSUME query \in Queries
    PROVE  OutputList(Wanted)
<1> DEFINE rules == LoadDescriptors(query.document)
           hits == Hits(query.mission, rules)
<1>1. /\ DOMAIN rules \subseteq Nat
      /\ \A i \in DOMAIN rules : OutputList(rules[i].outputs)
    <2>1. CASE query.document.state = "missing"
        BY <2>1, EmbeddedFacts DEF LoadDescriptors
    <2>2. CASE query.document.state # "missing"
        BY <2>2, QueriesAssumption DEF LoadDescriptors
    <2> QED
        BY <2>1, <2>2
<1>2. CASE query.mission.short \/ hits = {}
    <2>1. Wanted = << >>
        BY <1>2 DEF Wanted, Requirements
    <2> QED
        BY <2>1, EmptySeq DEF OutputList
<1>3. CASE ~(query.mission.short \/ hits = {})
    <2> DEFINE first == First(hits)
    <2>1. Wanted = rules[first].outputs
        BY <1>3 DEF Wanted, Requirements
    <2>2. hits \in SUBSET Nat /\ hits # {} /\ hits \subseteq DOMAIN rules
        BY <1>1, <1>3 DEF Hits
    <2>3. first \in hits
        <3> HIDE DEF hits
        <3> QED
            BY <2>2, LeastNatural DEF First
    <2> HIDE DEF first
    <2> QED
        BY <1>1, <2>1, <2>2, <2>3
<1> QED
    BY <1>2, <1>3

-----------------------------------------------------------------------------
(* The ranking.                                                            *)

LEMMA StrengthType ==
    ASSUME NEW c, NEW capability
    PROVE  Strength(c, capability) \in 1..4
<1>1. Evidence(c, capability) \in {"VALIDATED", "OBSERVED", "DECLARED", "FOUND_NOT_TESTED"}
    BY DEF Evidence
<1>2. /\ DOMAIN ValidationOrder = 1..4
      /\ ValidationOrder[1] = "VALIDATED" /\ ValidationOrder[2] = "OBSERVED"
      /\ ValidationOrder[3] = "DECLARED" /\ ValidationOrder[4] = "FOUND_NOT_TESTED"
    BY DEF ValidationOrder
<1>3. \E i \in 1..4 : ValidationOrder[i] = Evidence(c, capability)
    BY <1>1, <1>2
<1> QED
    BY <1>2, <1>3 DEF Strength, Position

LEMMA EconomyPair ==
    ASSUME NEW kind, NEW economy
    PROVE  \E p, q \in Int : EconomyKey(kind, economy) = <<p, q>>
<1>1. CostTier(kind) \in Int /\ QualityTier(kind) \in Int
    BY DEF CostTier, QualityTier
<1>2. -QualityTier(kind) \in Int /\ QualityTier(kind) - 2 \in Int
    BY <1>1
<1> HIDE DEF CostTier, QualityTier
<1> QED
    BY <1>1, <1>2 DEF EconomyKey

\* A key of eight places keeps its first and its last.
LEMMA EightPlaces ==
    ASSUME NEW S, NEW a \in S, NEW b \in S, NEW c \in S, NEW d \in S, NEW e \in S,
           NEW p \in S, NEW q \in S, NEW h \in S
    PROVE  LET k == <<a, b, c, d, e>> \o <<p, q>> \o <<h>>
           IN  k \in [1..8 -> S] /\ k[1] = a /\ k[8] = h
<1> DEFINE u == <<a, b, c, d, e>>
           v == <<p, q>>
           w == <<h>>
           uv == u \o v
           k == uv \o w
<1>1. /\ u \in Seq(S) /\ v \in Seq(S) /\ w \in Seq(S)
      /\ Len(u) = 5 /\ Len(v) = 2 /\ Len(w) = 1 /\ u[1] = a /\ w[1] = h
    OBVIOUS
<1> HIDE DEF u, v, w
<1>2. /\ uv \in Seq(S) /\ Len(uv) = Len(u) + Len(v)
      /\ \A i \in 1..(Len(u) + Len(v)) : uv[i] = IF i <= Len(u) THEN u[i] ELSE v[i - Len(u)]
    BY <1>1, ConcatProperties
<1>3. Len(uv) = 7 /\ uv[1] = a
    BY <1>1, <1>2
<1> HIDE DEF uv
<1>4. /\ k \in Seq(S) /\ Len(k) = Len(uv) + Len(w)
      /\ \A i \in 1..(Len(uv) + Len(w)) : k[i] = IF i <= Len(uv) THEN uv[i] ELSE w[i - Len(uv)]
    <2>1. uv \in Seq(S) /\ w \in Seq(S)
        BY <1>1, <1>2
    <2> QED
        BY <2>1, ConcatProperties
<1>5. Len(k) = 8 /\ k[1] = a /\ k[8] = h
    BY <1>1, <1>3, <1>4
<1> HIDE DEF k
<1>6. k \in [1..8 -> S]
    BY <1>4, <1>5, LenProperties
<1> QED
    BY <1>5, <1>6 DEF k, uv, u, v, w

LEMMA RankKeyType ==
    ASSUME NEW requirement, NEW c, c.id \in Int, NEW economy
    PROVE  /\ RankKey(requirement, c, economy) \in [1..8 -> Int]
           /\ RankKey(requirement, c, economy)[1] = Strength(c, requirement.capability)
           /\ RankKey(requirement, c, economy)[8] = c.id
<1> DEFINE strength == Strength(c, requirement.capability)
           preferred == Mark(requirement.preferred # NoKind /\ c.kind = requirement.preferred)
           specialized == Mark(c.kind \in SpecializedKinds)
           local == Mark(c.local /\ ~c.cloud_required)
           up == Mark(c.available)
           id == c.id
<1>1. strength \in Int
    BY StrengthType
<1>2. preferred \in Int /\ specialized \in Int /\ local \in Int /\ up \in Int /\ id \in Int
    BY DEF Mark
<1>3. PICK p \in Int, q \in Int : EconomyKey(c.kind, economy) = <<p, q>>
    BY EconomyPair
<1>4. RankKey(requirement, c, economy)
        = <<strength, preferred, specialized, local, up>> \o <<p, q>> \o <<id>>
    BY <1>3 DEF RankKey
<1> HIDE DEF strength, preferred, specialized, local, up, id
<1> DEFINE Z == Int
<1>5. {strength, preferred, specialized, local, up, id, p, q} \subseteq Z
    BY <1>1, <1>2
<1> HIDE DEF Z
<1>6. /\ (<<strength, preferred, specialized, local, up>> \o <<p, q>> \o <<id>>) \in [1..8 -> Z]
      /\ (<<strength, preferred, specialized, local, up>> \o <<p, q>> \o <<id>>)[1] = strength
      /\ (<<strength, preferred, specialized, local, up>> \o <<p, q>> \o <<id>>)[8] = id
    BY <1>5, EightPlaces
<1> QED
    BY <1>4, <1>6 DEF strength, id, Z

\* rank_candidates puts first a candidate with evidence as good as any.
LEMMA BestFacts ==
    ASSUME query \in Queries, NEW requirement, NEW economy,
           NEW candidates \in SUBSET query.registry.resources, candidates # {}
    PROVE  LET best == Best(requirement, candidates, economy)
           IN  /\ best \in candidates
               /\ \A d \in candidates : Strength(best, requirement.capability)
                                             <= Strength(d, requirement.capability)
<1> DEFINE key == [c \in candidates |-> RankKey(requirement, c, economy)]
           n == 8
           best == Best(requirement, candidates, economy)
<1>1. IsFiniteSet(candidates)
    BY QueriesAssumption, FS_Subset
<1>2. \A c \in candidates :
         /\ key[c] \in [1..n -> Int] /\ key[c][1] = Strength(c, requirement.capability)
         /\ key[c][n] = c.id
    <2>1. ASSUME NEW c \in candidates PROVE c.id \in Int
        BY QueriesAssumption
    <2> QED
        BY <2>1, RankKeyType
<1>3. n \in Nat /\ n >= 1 /\ key \in [candidates -> [1..n -> Int]]
    BY <1>2
<1>4. PICK m \in candidates : \A x \in candidates : key[x] = key[m] \/ Before(key[m], key[x])
    <2> HIDE DEF key, n
    <2> QED
        BY <1>1, <1>3, FirstExists
<1>5. ASSUME NEW x \in candidates \ {m} PROVE Before(key[m], key[x])
    <2>1. key[x] # key[m]
        <3>1. x.id # m.id
            BY QueriesAssumption
        <3>2. key[x][n] = x.id /\ key[m][n] = m.id
            BY <1>2
        <3> HIDE DEF key
        <3> QED
            BY <3>1, <3>2
    <2> QED
        BY <1>4, <2>1
<1>6. \E c \in candidates : \A d \in candidates \ {c} :
         Before(RankKey(requirement, c, economy), RankKey(requirement, d, economy))
    BY <1>5
<1>7. /\ best \in candidates
      /\ \A d \in candidates \ {best} : Before(key[best], key[d])
    BY <1>6 DEF Best
<1> HIDE DEF best, key, n
<1>8. ASSUME NEW d \in candidates
      PROVE  Strength(best, requirement.capability) <= Strength(d, requirement.capability)
    <2>1. CASE d = best
        <3>1. Strength(best, requirement.capability) \in Int
            BY StrengthType
        <3> QED
            BY <2>1, <3>1
    <2>2. CASE d # best
        <3>1. PICK i \in 1..n : key[best][i] < key[d][i]
                               /\ \A j \in 1..(i - 1) : key[best][j] = key[d][j]
            BY <1>2, <1>7, <2>2 DEF Before
        <3>2. key[best][1] \in Int /\ key[d][1] \in Int
            BY <1>2, <1>3, <1>7
        <3>3. CASE i = 1
            BY <1>2, <1>7, <3>1, <3>2, <3>3
        <3>4. CASE i # 1
            <4>1. 1 \in 1..(i - 1)
                BY <1>3, <3>4
            <4> QED
                BY <1>2, <1>7, <3>1, <3>2, <4>1
        <3> QED
            BY <3>3, <3>4
    <2> QED
        BY <2>1, <2>2
<1> QED
    BY <1>7, <1>8 DEF best

-----------------------------------------------------------------------------
(* The inductive invariant.                                                *)

Handled == Len(Wanted) - Len(left)

\* What is left to route is the end of what was wanted.
Suffix ==
    /\ left \in Seq({Wanted[i] : i \in DOMAIN Wanted})
    /\ Len(left) <= Len(Wanted)
    /\ \A i \in 1..Len(left) : left[i] = Wanted[Handled + i]

\* A requirement is served by a step with an available candidate; as long as no
\* degradation is noted no candidate has better evidence than that one.
Served(requirement) ==
    \E c \in Available(requirement) :
        /\ c.id \in Selected
        /\ degradations = {} => \A d \in Candidates(requirement) :
              Strength(c, requirement.capability) <= Strength(d, requirement.capability)

\* A required requirement that was handled is served or has failed the route.
Covered == pc \in {"routing", "done"} =>
    \A i \in 1..Handled :
        Wanted[i].required => unroutable \/ unexecutable \/ Served(Wanted[i])

\* What was selected was an available candidate of something wanted.
Admitted == \A id \in Selected :
    \E i \in DOMAIN Wanted : \E c \in Available(Wanted[i]) : c.id = id

\* How far a route is, and what its conclusion rests on.
Progress ==
    /\ pc = "derive" => plan = << >> /\ degradations = {} /\ ~unroutable /\ ~unexecutable
    /\ pc = "done" => left = << >>
    /\ pc # "done" => status = "none"
    /\ pc = "done" /\ (unroutable \/ unexecutable) => plan = << >>
    /\ status = "NORMAL" => degradations = {}
    /\ degradations # {} => plan # << >>

IInv ==
    /\ query \in Queries /\ TypeOK
    /\ Listed(plan) /\ IsFiniteSet(Selected)
    /\ Suffix /\ Progress /\ Covered /\ Admitted

LEMMA WantedFacts ==
    ASSUME query \in Queries
    PROVE  /\ Len(Wanted) \in Nat /\ DOMAIN Wanted = 1..Len(Wanted)
           /\ \A i \in DOMAIN Wanted : Wanted[i].required \in BOOLEAN
<1>1. OutputList(Wanted)
    BY WantedWellFormed
<1> QED
    BY <1>1, LenProperties DEF OutputList

LEMMA CandidateFacts ==
    ASSUME NEW requirement
    PROVE  /\ Available(requirement) \subseteq Candidates(requirement)
           /\ Candidates(requirement) \subseteq query.registry.resources
           /\ \A c \in Candidates(requirement) : Exclusion(c, requirement, query.profile) = "none"
BY DEF Available, Candidates, Found

LEMMA InitIInv == Init => IInv
<1> SUFFICES ASSUME Init PROVE IInv
    OBVIOUS
<1>1. /\ query \in Queries /\ pc = "derive" /\ left = << >> /\ plan = << >>
      /\ degradations = {} /\ unroutable = FALSE /\ unexecutable = FALSE /\ status = "none"
    BY DEF Init
<1>2. Selected = {} /\ Listed(plan) /\ IsFiniteSet(Selected) /\ Cardinality(Selected) = Len(plan)
    <2>1. Selected = {}
        BY <1>1 DEF Selected
    <2>2. Listed(plan) /\ Len(plan) = 0
        BY <1>1, EmptySeq DEF Listed
    <2> QED
        BY <2>1, <2>2, FS_EmptySet
<1>3. TypeOK
    <2>1. DOMAIN plan = {}
        BY <1>1, EmptySeq, LenProperties
    <2>3. unroutable \in BOOLEAN /\ unexecutable \in BOOLEAN
        BY <1>1
    <2>2. pc \in {"derive", "routing", "done", "raised"} /\ status \in Statuses
          /\ status \notin {"NORMAL", "DEGRADED"} /\ pc # "done"
          /\ degradations \subseteq {"validated_candidate_unavailable",
                                     "best_known_candidate_unavailable"}
        BY <1>1 DEF Statuses
    <2> QED
        BY <1>1, <1>2, <2>1, <2>2, <2>3 DEF TypeOK
<1>4. Suffix
    BY <1>1, WantedFacts, EmptySeq DEF Suffix, Handled
<1> QED
    BY <1>1, <1>2, <1>3, <1>4 DEF IInv, Progress, Covered, Admitted

\* The next requirement is the first that was not handled.
LEMMA HeadFacts ==
    ASSUME query \in Queries, Suffix, left # << >>
    PROVE  /\ Handled \in Nat /\ Handled + 1 \in DOMAIN Wanted
           /\ Head(left) = Wanted[Handled + 1]
           /\ Head(left).required \in BOOLEAN
<1> DEFINE R == {Wanted[i] : i \in DOMAIN Wanted}
<1>1. left \in Seq(R) /\ Len(left) \in Nat /\ Len(left) >= 1 /\ Head(left) = left[1]
    <2>1. left \in Seq(R)
        BY DEF Suffix
    <2> HIDE DEF R
    <2> QED
        BY <2>1, LenProperties, EmptySeq
<1>2. left[1] = Wanted[Handled + 1] /\ Len(left) <= Len(Wanted)
    BY <1>1 DEF Suffix
<1> QED
    BY <1>1, <1>2, WantedFacts DEF Handled

\* Handling it leaves the rest.
LEMMA TailFacts ==
    ASSUME query \in Queries, Suffix, left # << >>, left' = Tail(left), query' = query
    PROVE  Suffix' /\ Handled' = Handled + 1 /\ Wanted' = Wanted
<1> DEFINE R == {Wanted[i] : i \in DOMAIN Wanted}
<1>1. Wanted' = Wanted
    BY DEF Wanted
<1>2. left \in Seq(R) /\ Len(left) <= Len(Wanted)
      /\ \A i \in 1..Len(left) : left[i] = Wanted[Handled + i]
    BY DEF Suffix
<1> HIDE DEF R
<1>3. /\ left' \in Seq(R) /\ Len(left') = Len(left) - 1 /\ Len(left) \in Nat
      /\ \A i \in 1..Len(left') : left'[i] = left[i + 1]
    BY <1>2, HeadTailProperties, LenProperties
<1>4. Len(left) >= 1
    BY <1>2, EmptySeq
<1>5. Handled' = Handled + 1 /\ Handled \in Int
    BY <1>1, <1>3, WantedFacts DEF Handled
<1>6. ASSUME NEW i \in 1..Len(left') PROVE left'[i] = Wanted[Handled' + i]
    <2>1. i + 1 \in 1..Len(left) /\ Handled' + i = Handled + (i + 1)
        BY <1>3, <1>5
    <2> QED
        BY <1>2, <1>3, <2>1
<1>7. Len(left') <= Len(Wanted)
    BY <1>2, <1>3, WantedFacts
<1> QED
    BY <1>1, <1>3, <1>5, <1>6, <1>7 DEF Suffix, R

\* What a requirement can be routed to does not change during a route.
LEMMA SameQuery ==
    ASSUME query' = query
    PROVE  /\ Wanted' = Wanted
           /\ \A i : /\ Candidates(Wanted[i])' = Candidates(Wanted[i])
                     /\ Available(Wanted[i])' = Available(Wanted[i])
BY DEF Wanted, Candidates, Available

-----------------------------------------------------------------------------
(* One step per action.                                                    *)

LEMMA RaiseIInv == IInv /\ Raise => IInv'
<1> SUFFICES ASSUME IInv, Raise PROVE IInv'
    OBVIOUS
<1>1. /\ pc' = "raised" /\ pc \in {"derive", "routing"}
      /\ UNCHANGED <<query, left, plan, degradations, unroutable, unexecutable, status>>
    BY DEF Raise
<1>2. Selected' = Selected /\ Wanted' = Wanted /\ Handled' = Handled
      /\ \A i : Available(Wanted[i])' = Available(Wanted[i])
    BY <1>1, SameQuery DEF Selected, Handled
<1>3. TypeOK'
    BY <1>1, <1>2 DEF IInv, TypeOK, Progress
<1>4. Listed(plan)' /\ IsFiniteSet(Selected)'
    BY <1>1, <1>2 DEF IInv, Listed
<1>5. Suffix'
    BY <1>1, <1>2 DEF IInv, Suffix
<1>6. Progress'
    BY <1>1 DEF IInv, Progress
<1>7. Covered'
    BY <1>1 DEF Covered
<1>8. Admitted'
    BY <1>2 DEF IInv, Admitted
<1> QED
    BY <1>1, <1>3, <1>4, <1>5, <1>6, <1>7, <1>8 DEF IInv

LEMMA DeriveIInv == IInv /\ Derive => IInv'
<1> SUFFICES ASSUME IInv, Derive PROVE IInv'
    OBVIOUS
<1>1. /\ pc = "derive" /\ pc' = "routing" /\ left' = Wanted
      /\ UNCHANGED <<query, plan, degradations, unroutable, unexecutable, status>>
    BY DEF Derive, Wanted
<1>2. Selected' = Selected /\ Wanted' = Wanted /\ \A i : Available(Wanted[i])' = Available(Wanted[i])
    BY <1>1, SameQuery DEF Selected
<1>3. OutputList(Wanted) /\ Len(Wanted) \in Nat /\ DOMAIN Wanted = 1..Len(Wanted)
    BY WantedWellFormed, WantedFacts DEF IInv, TypeOK
<1>4. Handled' = 0
    BY <1>1, <1>2, <1>3 DEF Handled
<1>5. Suffix'
    <2>1. left' \in Seq({Wanted[i] : i \in DOMAIN Wanted})
        BY <1>1, <1>3 DEF OutputList
    <2>2. Len(left') <= Len(Wanted)' /\ \A i \in 1..Len(left') : left'[i] = Wanted'[Handled' + i]
        BY <1>1, <1>2, <1>3, <1>4
    <2> QED
        BY <1>2, <2>1, <2>2 DEF Suffix
<1>6. TypeOK'
    BY <1>1, <1>2 DEF IInv, TypeOK, Progress
<1>7. Listed(plan)' /\ IsFiniteSet(Selected)'
    BY <1>1, <1>2 DEF IInv, Listed
<1>8. Progress'
    BY <1>1 DEF IInv, Progress
<1>9. Covered'
    BY <1>4 DEF Covered
<1>10. Admitted'
    BY <1>2 DEF IInv, Admitted
<1> QED
    BY <1>1, <1>5, <1>6, <1>7, <1>8, <1>9, <1>10 DEF IInv

\* A requirement that cannot be routed is dropped if it is optional and fails
\* the route if it is required.
LEMMA SkipIInv == IInv /\ (NoCandidate \/ NoneAvailable) => IInv'
<1> SUFFICES ASSUME IInv, NoCandidate \/ NoneAvailable PROVE IInv'
    OBVIOUS
<1>1. /\ pc = "routing" /\ left # << >> /\ left' = Tail(left)
      /\ UNCHANGED <<query, pc, plan, degradations, status>>
    BY DEF NoCandidate, NoneAvailable, Routing
<1>2. query \in Queries /\ Suffix /\ unroutable \in BOOLEAN /\ unexecutable \in BOOLEAN
    BY DEF IInv, TypeOK
<1>3. /\ Handled \in Nat /\ Handled + 1 \in DOMAIN Wanted /\ Head(left) = Wanted[Handled + 1]
      /\ Head(left).required \in BOOLEAN
    BY <1>1, <1>2, HeadFacts
<1>4. Suffix' /\ Handled' = Handled + 1 /\ Wanted' = Wanted
    BY <1>1, <1>2, TailFacts
<1>5. /\ unroutable' \in BOOLEAN /\ unexecutable' \in BOOLEAN
      /\ unroutable => unroutable'
      /\ unexecutable => unexecutable'
      /\ Head(left).required => unroutable' \/ unexecutable'
    <2>1. DeadEnd(Head(left)) \in BOOLEAN
        BY DEF DeadEnd
    <2>2. CASE NoCandidate
        BY <1>2, <1>3, <2>1, <2>2 DEF NoCandidate
    <2>3. CASE NoneAvailable
        BY <1>2, <1>3, <2>3 DEF NoneAvailable
    <2> QED
        BY <2>2, <2>3
<1>6. /\ Selected' = Selected
      /\ \A i : /\ Candidates(Wanted[i])' = Candidates(Wanted[i])
                /\ Available(Wanted[i])' = Available(Wanted[i])
    BY <1>1, SameQuery DEF Selected
<1>7. \A i : Served(Wanted[i]) => Served(Wanted[i])'
    BY <1>1, <1>4, <1>6 DEF Served
<1>8. TypeOK'
    BY <1>1, <1>5, <1>6 DEF IInv, TypeOK
<1>9. Listed(plan)' /\ IsFiniteSet(Selected)'
    BY <1>1, <1>6 DEF IInv, Listed
<1>10. Progress'
    BY <1>1 DEF IInv, Progress
<1>11. Covered'
    <2> SUFFICES ASSUME NEW i \in 1..Handled', Wanted[i].required,
                        ~unroutable', ~unexecutable'
                 PROVE  Served(Wanted[i])'
        BY <1>4 DEF Covered
    <2>1. i # Handled + 1
        BY <1>3, <1>5
    <2>2. i \in 1..Handled
        BY <1>3, <1>4, <2>1
    <2> QED
        <3>1. unroutable \/ unexecutable \/ Served(Wanted[i])
            BY <1>1, <2>2 DEF IInv, Covered
        <3>2. Served(Wanted[i])
            BY <1>5, <3>1
        <3> QED
            BY <1>7, <3>2
<1>12. Admitted'
    BY <1>4, <1>6 DEF IInv, Admitted
<1> QED
    BY <1>1, <1>4, <1>8, <1>9, <1>10, <1>11, <1>12 DEF IInv

\* A step is added for a resource that has none yet.
LEMMA StepOnceFacts ==
    ASSUME Listed(plan), IsFiniteSet(Selected), Cardinality(Selected) = Len(plan),
           NEW id, NEW step, step.resource = id, plan' = StepOnce(id, step)
    PROVE  /\ Listed(plan)' /\ IsFiniteSet(Selected)' /\ Cardinality(Selected)' = Len(plan)'
           /\ Selected' = Selected \cup {id}
           /\ plan' # << >>
<1> DEFINE S == {plan[i] : i \in DOMAIN plan}
<1>1. plan \in Seq(S) /\ Len(plan) \in Nat /\ DOMAIN plan = 1..Len(plan)
    BY LenProperties DEF Listed
<1>2. CASE id \in Selected
    <2>1. plan' = plan
        BY <1>2 DEF StepOnce
    <2>2. Selected' = Selected
        BY <2>1 DEF Selected
    <2>3. plan # << >>
        BY <1>2 DEF Selected
    <2> QED
        BY <1>2, <2>1, <2>2, <2>3 DEF Listed
<1>3. CASE id \notin Selected
    <2> DEFINE T == S \cup {step}
               longer == Append(plan, step)
    <2>1. plan' = longer
        BY <1>3 DEF StepOnce
    <2>2. plan \in Seq(T) /\ step \in T
        BY <1>1, SeqMonotonic
    <2> HIDE DEF T
    <2>3. /\ longer \in Seq(T) /\ longer # << >> /\ Len(longer) = Len(plan) + 1
          /\ \A i \in 1..Len(plan) : longer[i] = plan[i]
          /\ longer[Len(plan) + 1] = step
        BY <2>2, AppendProperties
    <2>4. DOMAIN longer = 1..(Len(plan) + 1)
        BY <2>3, LenProperties
    <2> HIDE DEF longer
    <2>5. \A i \in 1..(Len(plan) + 1) : i \in 1..Len(plan) \/ i = Len(plan) + 1
        BY <1>1
    <2>6. Len(plan) + 1 \in 1..(Len(plan) + 1) /\ 1..Len(plan) \subseteq 1..(Len(plan) + 1)
        BY <1>1
    <2>7. {longer[i] : i \in DOMAIN longer} = T
        BY <1>1, <2>3, <2>4, <2>5, <2>6 DEF T
    <2>8. Selected' = Selected \cup {id}
        BY <1>1, <2>1, <2>3, <2>4, <2>5, <2>6 DEF Selected
    <2>9. Listed(longer)
        BY <2>3, <2>7 DEF Listed
    <2>10. IsFiniteSet(Selected') /\ Cardinality(Selected') = Cardinality(Selected) + 1
        BY <1>3, <2>8, FS_AddElement
    <2> QED
        BY <2>1, <2>3, <2>8, <2>9, <2>10
<1> QED
    BY <1>2, <1>3

LEMMA SelectIInv == IInv /\ Select => IInv'
<1> SUFFICES ASSUME IInv, Select PROVE IInv'
    OBVIOUS
<1> DEFINE r == Head(left)
           best_known == Best(r, Candidates(r), query.economy)
           chosen == Best(r, Available(r), query.economy)
           reason == IF chosen = best_known THEN {} ELSE {DegradationReason(r, best_known)}
           step == [capability |-> r.capability, resource |-> chosen.id, kind |-> chosen.kind,
                    best_known |-> best_known.id, degraded |-> reason # {}]
<1>1. /\ pc = "routing" /\ left # << >> /\ left' = Tail(left) /\ Available(r) # {}
      /\ degradations' = degradations \cup reason /\ plan' = StepOnce(chosen.id, step)
      /\ UNCHANGED <<query, pc, unroutable, unexecutable, status>>
    BY DEF Select, Routing
<1>2. query \in Queries /\ Suffix /\ unroutable \in BOOLEAN /\ unexecutable \in BOOLEAN
    BY DEF IInv, TypeOK
<1>3. /\ Handled \in Nat /\ Handled + 1 \in DOMAIN Wanted /\ r = Wanted[Handled + 1]
    BY <1>1, <1>2, HeadFacts
<1>4. Suffix' /\ Handled' = Handled + 1 /\ Wanted' = Wanted
    BY <1>1, <1>2, TailFacts
<1>5. \A i : /\ Candidates(Wanted[i])' = Candidates(Wanted[i])
            /\ Available(Wanted[i])' = Available(Wanted[i])
    BY <1>1, SameQuery
<1>6. /\ Available(r) \subseteq Candidates(r) /\ Available(r) \in SUBSET query.registry.resources
      /\ Candidates(r) \in SUBSET query.registry.resources /\ Candidates(r) # {}
    BY <1>1, CandidateFacts
<1>7. /\ chosen \in Available(r) /\ best_known \in Candidates(r)
      /\ \A d \in Candidates(r) : Strength(best_known, r.capability) <= Strength(d, r.capability)
    BY <1>1, <1>2, <1>6, BestFacts
<1>8. /\ reason = {} => chosen = best_known
      /\ reason \subseteq {"validated_candidate_unavailable", "best_known_candidate_unavailable"}
    BY DEF DegradationReason
<1>9. step.resource = chosen.id
    OBVIOUS
<1> HIDE DEF r, best_known, chosen, reason, step
<1>10. /\ Listed(plan)' /\ IsFiniteSet(Selected)' /\ Cardinality(Selected)' = Len(plan)'
       /\ Selected' = Selected \cup {chosen.id} /\ plan' # << >>
    BY <1>1, <1>9, StepOnceFacts DEF IInv, TypeOK
<1>11. Admitted'
    <2> SUFFICES ASSUME NEW id \in Selected'
                 PROVE  \E i \in DOMAIN Wanted : \E c \in Available(Wanted[i]) : c.id = id
        BY <1>4, <1>5 DEF Admitted
    <2>1. CASE id \in Selected
        BY <2>1 DEF IInv, Admitted
    <2>2. CASE id = chosen.id
        BY <1>3, <1>7, <2>2
    <2> QED
        BY <1>10, <2>1, <2>2
<1>12. TypeOK'
    <2>1. ASSUME NEW i \in DOMAIN plan'
          PROVE  \E c \in query'.registry.resources : c.id = plan'[i].resource
        <3>1. plan'[i].resource \in Selected'
            BY DEF Selected
        <3>2. PICK j \in DOMAIN Wanted : \E c \in Available(Wanted[j]) : c.id = plan'[i].resource
            BY <1>4, <1>5, <1>11, <3>1 DEF Admitted
        <3> QED
            BY <1>1, <3>2, CandidateFacts
    <2>2. degradations' \subseteq {"validated_candidate_unavailable",
                                  "best_known_candidate_unavailable"}
        BY <1>1, <1>8 DEF IInv, TypeOK
    <2>3. status' \notin {"NORMAL", "DEGRADED"}
        BY <1>1 DEF IInv, TypeOK, Progress
    <2> QED
        BY <1>1, <1>2, <1>10, <2>1, <2>2, <2>3 DEF IInv, TypeOK
<1>13. Progress'
    BY <1>1, <1>10 DEF IInv, Progress
<1>14. Covered'
    <2> SUFFICES ASSUME NEW i \in 1..Handled', Wanted[i].required
                 PROVE  unroutable \/ unexecutable \/ Served(Wanted[i])'
        BY <1>1, <1>4 DEF Covered
    <2>1. CASE i = Handled + 1
        <3>1. Wanted[i] = r
            BY <1>3, <2>1
        <3>2. chosen \in Available(Wanted[i])' /\ chosen.id \in Selected'
            BY <1>5, <1>7, <1>10, <3>1
        <3>3. degradations' = {} => \A d \in Candidates(Wanted[i])' :
                 Strength(chosen, Wanted[i].capability) <= Strength(d, Wanted[i].capability)
            BY <1>1, <1>5, <1>7, <1>8, <3>1
        <3>4. Served(Wanted[i])'
            BY <1>4, <3>2, <3>3 DEF Served
        <3> QED
            BY <3>4
    <2>2. CASE i # Handled + 1
        <3>1. i \in 1..Handled
            BY <1>3, <1>4, <2>2
        <3>2. unroutable \/ unexecutable \/ Served(Wanted[i])
            BY <1>1, <3>1 DEF IInv, Covered
        <3>3. Served(Wanted[i]) => Served(Wanted[i])'
            BY <1>1, <1>4, <1>5, <1>10 DEF Served
        <3> QED
            BY <3>2, <3>3
    <2> QED
        BY <2>1, <2>2
<1> QED
    BY <1>1, <1>4, <1>10, <1>11, <1>12, <1>13, <1>14 DEF IInv

LEMMA FailClosedIInv == IInv /\ FailClosed => IInv'
<1> SUFFICES ASSUME IInv, FailClosed PROVE IInv'
    OBVIOUS
<1>1. /\ pc = "routing" /\ left = << >> /\ (unexecutable \/ unroutable)
      /\ plan' = << >> /\ degradations' = {} /\ pc' = "done"
      /\ status' \in Statuses \ {"NORMAL", "DEGRADED"}
      /\ UNCHANGED <<query, left, unroutable, unexecutable>>
    BY DEF FailClosed, Statuses
<1>2. Listed(plan)' /\ IsFiniteSet(Selected)' /\ Cardinality(Selected)' = Len(plan)'
      /\ Selected' = {} /\ DOMAIN plan' = {}
    <2>1. DOMAIN plan' = {} /\ Len(plan') = 0
        BY <1>1, EmptySeq, LenProperties
    <2>2. Selected' = {}
        BY <2>1 DEF Selected
    <2>3. Listed(plan)'
        BY <1>1, EmptySeq DEF Listed
    <2> QED
        BY <2>1, <2>2, <2>3, FS_EmptySet
<1>3. Wanted' = Wanted /\ Handled' = Handled
    BY <1>1, SameQuery DEF Handled
<1>4. TypeOK'
    <2>1. \A i \in DOMAIN plan' : \E c \in query'.registry.resources : c.id = plan'[i].resource
        BY <1>2
    <2>2. query' \in Queries /\ unroutable' \in BOOLEAN /\ unexecutable' \in BOOLEAN
        BY <1>1 DEF IInv, TypeOK
    <2> QED
        BY <1>1, <1>2, <2>1, <2>2 DEF TypeOK
<1>5. Suffix'
    BY <1>1, <1>3 DEF IInv, Suffix
<1>6. Progress'
    BY <1>1 DEF Progress
<1>7. Covered'
    BY <1>1 DEF Covered
<1>8. Admitted'
    BY <1>2 DEF Admitted
<1> QED
    BY <1>1, <1>2, <1>4, <1>5, <1>6, <1>7, <1>8 DEF IInv

LEMMA ConcludeIInv == IInv /\ Conclude => IInv'
<1> SUFFICES ASSUME IInv, Conclude PROVE IInv'
    OBVIOUS
<1>1. /\ pc = "routing" /\ left = << >> /\ ~unexecutable /\ ~unroutable /\ pc' = "done"
      /\ status' = CASE degradations # {} -> "DEGRADED"
                     [] degradations = {} /\ plan # << >> -> "NORMAL"
                     [] OTHER -> "NO_ELIGIBLE_RESOURCE"
      /\ UNCHANGED <<query, left, plan, degradations, unroutable, unexecutable>>
    BY DEF Conclude
<1>2. degradations # {} => plan # << >>
    BY DEF IInv, Progress
<1>3. /\ status' \in Statuses
      /\ status' \in {"NORMAL", "DEGRADED"} <=> plan # << >>
      /\ status' = "NORMAL" => degradations = {}
    BY <1>1, <1>2 DEF Statuses
<1>4. Selected' = Selected /\ Wanted' = Wanted /\ Handled' = Handled
      /\ \A i : /\ Candidates(Wanted[i])' = Candidates(Wanted[i])
                /\ Available(Wanted[i])' = Available(Wanted[i])
    BY <1>1, SameQuery DEF Selected, Handled
<1>5. TypeOK'
    BY <1>1, <1>3, <1>4 DEF IInv, TypeOK
<1>6. Listed(plan)' /\ IsFiniteSet(Selected)'
    BY <1>1, <1>4 DEF IInv, Listed
<1>7. Suffix'
    BY <1>1, <1>4 DEF IInv, Suffix
<1>8. Progress'
    BY <1>1, <1>2, <1>3 DEF Progress
<1>9. Covered'
    <2> SUFFICES ASSUME NEW i \in 1..Handled, Wanted[i].required
                 PROVE  Served(Wanted[i])'
        BY <1>4 DEF Covered
    <2>1. Served(Wanted[i])
        BY <1>1 DEF IInv, Covered
    <2> QED
        BY <1>1, <1>4, <2>1 DEF Served
<1>10. Admitted'
    BY <1>4 DEF IInv, Admitted
<1> QED
    BY <1>1, <1>5, <1>6, <1>7, <1>8, <1>9, <1>10 DEF IInv

LEMMA NextIInv == IInv /\ [Next]_vars => IInv'
<1> SUFFICES ASSUME IInv, [Next]_vars PROVE IInv'
    OBVIOUS
<1>1. CASE UNCHANGED vars
    <2>1. UNCHANGED <<query, pc, left, plan, degradations, unroutable, unexecutable, status>>
        BY <1>1 DEF vars
    <2>2. Selected' = Selected /\ Wanted' = Wanted /\ Handled' = Handled
          /\ \A i : /\ Candidates(Wanted[i])' = Candidates(Wanted[i])
                    /\ Available(Wanted[i])' = Available(Wanted[i])
        BY <2>1, SameQuery DEF Selected, Handled
    <2>3. TypeOK' /\ Listed(plan)' /\ IsFiniteSet(Selected)'
        BY <2>1, <2>2 DEF IInv, TypeOK, Listed
    <2>4. Suffix' /\ Progress' /\ Admitted'
        BY <2>1, <2>2 DEF IInv, Suffix, Progress, Admitted
    <2>5. Covered'
        <3>1. \A i : Served(Wanted[i]) => Served(Wanted[i])'
            BY <2>1, <2>2 DEF Served
        <3> QED
            BY <2>1, <2>2, <3>1 DEF IInv, Covered
    <2> QED
        BY <2>1, <2>3, <2>4, <2>5 DEF IInv
<1> QED
    BY <1>1, RaiseIInv, DeriveIInv, SkipIInv, SelectIInv, FailClosedIInv, ConcludeIInv DEF Next

-----------------------------------------------------------------------------
(* The theorems.                                                           *)

\* IInv is inductive: a route is an invariant account of what was handled.
THEOREM Invariant == Spec => []IInv
<1>1. Init => IInv
    BY InitIInv
<1>2. IInv /\ [Next]_vars => IInv'
    BY NextIInv
<1> QED
    BY <1>1, <1>2, PTL DEF Spec

\* A plan names resources of the registry, each once, and the status tells
\* whether there is a plan.
THEOREM TypeCorrect == Spec => []TypeOK
<1>1. IInv => TypeOK
    BY DEF IInv
<1> QED
    BY <1>1, Invariant, PTL

\* An id names one resource of the registry.
LEMMA ResourceFacts ==
    ASSUME query \in Queries, NEW c \in query.registry.resources
    PROVE  Resource(c.id) = c
BY QueriesAssumption DEF Resource

\* When a route is done, with a plan, everything wanted was handled.
LEMMA DoneFacts ==
    ASSUME IInv, pc = "done", plan # << >>
    PROVE  \A i \in DOMAIN Wanted : Wanted[i].required => Served(Wanted[i])
<1>1. query \in Queries /\ left = << >> /\ ~unroutable /\ ~unexecutable
    BY DEF IInv, TypeOK, Progress
<1>2. Handled = Len(Wanted) /\ DOMAIN Wanted = 1..Len(Wanted)
    BY <1>1, WantedFacts, EmptySeq DEF Handled
<1> QED
    BY <1>1, <1>2 DEF IInv, Covered

\* route() returns no plan in which a required capability is missing.
THEOREM RequiredAlwaysCovered == Spec => []RequiredCovered
<1>1. IInv => RequiredCovered
    <2> SUFFICES ASSUME IInv, pc = "done", plan # << >>,
                        NEW i \in DOMAIN Wanted, Wanted[i].required
                 PROVE  \E id \in Selected : Resource(id) \in Available(Wanted[i])
        BY DEF RequiredCovered
    <2>1. PICK c \in Available(Wanted[i]) : c.id \in Selected
        BY DoneFacts DEF Served
    <2>2. c \in query.registry.resources /\ query \in Queries
        BY CandidateFacts DEF IInv, TypeOK
    <2>3. Resource(c.id) = c
        BY <2>2, ResourceFacts
    <2> QED
        BY <2>1, <2>3
<1> QED
    BY <1>1, Invariant, PTL

\* The location gates of _exclusion: what passes them was permitted.
LEMMA LocationGates ==
    ASSUME NEW c, NEW requirement, NEW profile, Exclusion(c, requirement, profile) = "none"
    PROVE  /\ c.location = "grid" => profile.grid
           /\ c.location = "cloud" \/ (c.location = "unset" /\ (c.cloud_required \/ ~c.local))
                => requirement.cloud /\ profile.cloud
<1>1. CASE c.location = "grid"
    BY <1>1 DEF Exclusion
<1>2. CASE c.location = "cloud"
    BY <1>2 DEF Exclusion, CloudAllowed
<1>3. CASE c.location = "unset"
    <2>1. LegacyGates(c, requirement, profile) = "none"
        BY <1>3 DEF Exclusion
    <2> QED
        BY <1>3, <2>1 DEF LegacyGates, CloudAllowed
<1> QED
    BY <1>1, <1>2, <1>3

\* No step of a plan runs in the cloud or on the grid without permission.
THEOREM OptInAlways == Spec => []OptInOnly
<1>1. IInv => OptInOnly
    <2> SUFFICES ASSUME IInv, NEW id \in Selected
                 PROVE  LET c == Resource(id)
                        IN /\ c.location = "grid" => query.profile.grid
                           /\ c.location = "cloud"
                                \/ (c.location = "unset" /\ (c.cloud_required \/ ~c.local))
                              => /\ query.profile.cloud
                                 /\ \E i \in DOMAIN Wanted :
                                        Wanted[i].cloud /\ c \in Candidates(Wanted[i])
        BY DEF OptInOnly
    <2>1. PICK i \in DOMAIN Wanted : \E c \in Available(Wanted[i]) : c.id = id
        BY DEF IInv, Admitted
    <2>2. PICK c \in Available(Wanted[i]) : c.id = id
        BY <2>1
    <2>3. c \in Candidates(Wanted[i]) /\ c \in query.registry.resources
          /\ Exclusion(c, Wanted[i], query.profile) = "none"
        BY CandidateFacts
    <2>4. Resource(id) = c
        BY <2>2, <2>3, ResourceFacts DEF IInv, TypeOK
    <2> QED
        BY <2>3, <2>4, LocationGates
<1> QED
    BY <1>1, Invariant, PTL

\* A NORMAL route runs nothing weaker than what policy admits.
THEOREM DegradedAlwaysHonest == Spec => []DegradedHonest
<1>1. IInv => DegradedHonest
    <2> SUFFICES ASSUME IInv, pc = "done", status = "NORMAL",
                        NEW i \in DOMAIN Wanted, Wanted[i].required,
                        NEW d \in Candidates(Wanted[i])
                 PROVE  \E id \in Selected :
                            /\ Resource(id) \in Candidates(Wanted[i])
                            /\ Strength(Resource(id), Wanted[i].capability)
                                 <= Strength(d, Wanted[i].capability)
        BY DEF DegradedHonest
    <2>1. plan # << >> /\ degradations = {}
        BY DEF IInv, TypeOK, Progress
    <2>2. PICK c \in Available(Wanted[i]) :
              c.id \in Selected /\ Strength(c, Wanted[i].capability)
                                     <= Strength(d, Wanted[i].capability)
        BY <2>1, DoneFacts DEF Served
    <2>3. c \in Candidates(Wanted[i]) /\ c \in query.registry.resources
        BY CandidateFacts
    <2>4. Resource(c.id) = c
        BY <2>3, ResourceFacts DEF IInv, TypeOK
    <2> QED
        BY <2>2, <2>3, <2>4
<1> QED
    BY <1>1, Invariant, PTL

=============================================================================
