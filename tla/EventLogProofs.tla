--------------------------- MODULE EventLogProofs ---------------------------
(***************************************************************************)
(* Proofs about EventLog, for every set of writers, readers and events,    *)
(* every choice of the long ones, every filter and every number of torn    *)
(* appends: what its readers see is a log, RunLog.                         *)
(***************************************************************************)
EXTENDS EventLog, OrderTheorems

Pieces == [event : Events, part : {"whole", "head", "tail"}]

-----------------------------------------------------------------------------
(* Lines.                                                                   *)

LEMMA NewlinesAreFinite ==
    ASSUME NEW p \in Seq(Pieces)
    PROVE  Newlines(p) \in SUBSET Int /\ IsFiniteSet(Newlines(p)) /\ Newlines(p) \subseteq 1..Len(p)
<1>1. Newlines(p) \subseteq 1..Len(p) /\ Len(p) \in Nat
    BY DEF Newlines
<1>2. IsFiniteSet(1..Len(p))
    BY <1>1, FS_Interval
<1> QED
    BY <1>1, <1>2, FS_Subset

\* The lines of p, the k-th of which ends at t[k].
Cut(p, t, n) == [k \in 1..n |-> SubSeq(p, (IF k = 1 THEN 0 ELSE t[k - 1]) + 1, t[k])]

LEMMA LinesAreCut ==
    ASSUME NEW p \in Seq(Pieces), NEW t, Sorts(t, Newlines(p))
    PROVE  Lines(p) = Cut(p, t, Cardinality(Newlines(p)))
<1> DEFINE ends == Newlines(p)
           n == Cardinality(ends)
           End(k) == CHOOSE i \in ends : Cardinality({j \in ends : j <= i}) = k
<1>1. ends \in SUBSET Int /\ IsFiniteSet(ends) /\ n \in Nat
    BY NewlinesAreFinite, FS_CardinalityType
<1>2. Sorted(ends) = t
    BY <1>1, SortedIsTheOne
<1>3. \A k \in 1..n : End(k) = t[k]
    <2>1. Sorted(ends) = [k \in 1..n |-> End(k)]
        BY DEF Sorted
    <2> HIDE DEF ends, n, End
    <2> QED
        BY <1>2, <2>1
<1>4. \A k \in 1..n : k # 1 => k - 1 \in 1..n
    BY <1>1
<1>5. Lines(p) = [k \in 1..n |-> SubSeq(p, (IF k = 1 THEN 0 ELSE End(k - 1)) + 1, End(k))]
    BY DEF Lines
<1> HIDE DEF ends, n, End
<1>6. Lines(p) = Cut(p, t, n)
    BY <1>3, <1>4, <1>5 DEF Cut
<1> QED
    BY <1>6 DEF ends, n

LEMMA LinesSorted ==
    ASSUME NEW p \in Seq(Pieces)
    PROVE  /\ \E t : Sorts(t, Newlines(p)) /\ Lines(p) = Cut(p, t, Cardinality(Newlines(p)))
           /\ Cardinality(Newlines(p)) \in Nat
BY NewlinesAreFinite, LinesAreCut, SortsExist, FS_CardinalityType

\* Lines are parts of what they are the lines of.
LEMMA LinesAreParts ==
    ASSUME NEW p \in Seq(Pieces)
    PROVE  /\ Lines(p) \in Seq(Seq(Pieces)) /\ Len(Lines(p)) = Cardinality(Newlines(p))
           /\ \A k \in 1..Len(Lines(p)) :
                 /\ Len(Lines(p)[k]) > 0
                 /\ \E i \in 1..Len(p) : Lines(p)[k][1] = p[i]
<1> DEFINE ends == Newlines(p)
           n == Cardinality(ends)
<1>1. n \in Nat /\ ends \in SUBSET Int /\ IsFiniteSet(ends) /\ ends \subseteq 1..Len(p) /\ Len(p) \in Nat
    BY LinesSorted, NewlinesAreFinite
<1>2. PICK t : Sorts(t, ends) /\ Lines(p) = Cut(p, t, n)
    BY LinesSorted
<1>3. t \in [1..n -> ends] /\ \A i, j \in 1..n : i < j => t[i] < t[j]
    BY <1>2 DEF Sorts
<1> HIDE DEF n, ends
<1>4. ASSUME NEW k \in 1..n
      PROVE  /\ Cut(p, t, n)[k] \in Seq(Pieces) /\ Len(Cut(p, t, n)[k]) > 0
             /\ \E i \in 1..Len(p) : Cut(p, t, n)[k][1] = p[i]
    <2> DEFINE a == IF k = 1 THEN 0 ELSE t[k - 1]
               b == t[k]
    <2>1. b \in 1..Len(p)
        BY <1>1, <1>3
    <2>2. a \in 0..Len(p) /\ a < b
        <3>1. CASE k = 1
            BY <1>1, <2>1, <3>1
        <3>2. CASE k # 1
            <4>1. k - 1 \in 1..n /\ k - 1 < k
                BY <1>1, <3>2
            <4>2. t[k - 1] < t[k] /\ t[k - 1] \in 1..Len(p)
                BY <1>1, <1>3, <4>1
            <4> QED
                BY <1>1, <3>2, <4>2
        <3> QED
            BY <3>1, <3>2
    <2>3. Cut(p, t, n)[k] = SubSeq(p, a + 1, b)
        BY DEF Cut
    <2> HIDE DEF a, b
    <2>4. a + 1 \in 1..Len(p) /\ a + 1 <= b /\ a \in Nat
        BY <1>1, <2>1, <2>2
    <2>5. SubSeq(p, a + 1, b) \in Seq(Pieces) /\ Len(SubSeq(p, a + 1, b)) = b - a
        BY <1>1, <2>1, <2>4
    <2>6. SubSeq(p, a + 1, b)[1] = p[a + 1]
        BY <1>1, <2>1, <2>4
    <2>7. b - a > 0
        BY <2>1, <2>2, <2>4
    <2> QED
        BY <2>3, <2>4, <2>5, <2>6, <2>7
<1>5. Cut(p, t, n) = [k \in 1..n |-> Cut(p, t, n)[k]]
    BY DEF Cut
<1>6. Cut(p, t, n) \in Seq(Seq(Pieces)) /\ Len(Cut(p, t, n)) = n
    BY <1>1, <1>4, <1>5
<1>7. Len(Lines(p)) = Cardinality(Newlines(p))
    BY <1>2, <1>6 DEF n, ends
<1> QED
    BY <1>2, <1>4, <1>6, <1>7


\* A part of a list is a part of the list it is the beginning, or the end, of.
LEMMA PartsOfConcat ==
    ASSUME NEW T, NEW p \in Seq(T), NEW q \in Seq(T), NEW a \in Nat, NEW b \in Nat
    PROVE  /\ b <= Len(p) => SubSeq(p \o q, a + 1, b) = SubSeq(p, a + 1, b)
           /\ b <= Len(q) => SubSeq(p \o q, (Len(p) + a) + 1, Len(p) + b) = SubSeq(q, a + 1, b)
<1>1. /\ Len(p) \in Nat /\ Len(q) \in Nat /\ p \o q \in Seq(T) /\ Len(p \o q) = Len(p) + Len(q)
      /\ \A i \in 1..Len(p) : (p \o q)[i] = p[i]
      /\ \A i \in 1..Len(q) : (p \o q)[Len(p) + i] = q[i]
    OBVIOUS
<1>2. ASSUME b <= Len(p) PROVE SubSeq(p \o q, a + 1, b) = SubSeq(p, a + 1, b)
    <2>1. SubSeq(p \o q, a + 1, b) = [i \in 1..(b - a) |-> (p \o q)[a + i]]
        BY <1>1, <1>2
    <2>2. SubSeq(p, a + 1, b) = [i \in 1..(b - a) |-> p[a + i]]
        BY <1>1, <1>2
    <2>3. \A i \in 1..(b - a) : a + i \in 1..Len(p)
        BY <1>1, <1>2
    <2> QED
        BY <1>1, <2>1, <2>2, <2>3
<1>3. ASSUME b <= Len(q)
      PROVE  SubSeq(p \o q, (Len(p) + a) + 1, Len(p) + b) = SubSeq(q, a + 1, b)
    <2>1. SubSeq(p \o q, (Len(p) + a) + 1, Len(p) + b)
              = [i \in 1..(b - a) |-> (p \o q)[Len(p) + (a + i)]]
        BY <1>1, <1>3
    <2>2. SubSeq(q, a + 1, b) = [i \in 1..(b - a) |-> q[a + i]]
        BY <1>1, <1>3
    <2>3. \A i \in 1..(b - a) : a + i \in 1..Len(q)
        BY <1>1, <1>3
    <2> QED
        BY <1>1, <2>1, <2>2, <2>3
<1> QED
    BY <1>2, <1>3

LEMMA WholePart ==
    ASSUME NEW T, NEW p \in Seq(T)
    PROVE  SubSeq(p, 1, Len(p)) = p
<1>1. SubSeq(p, 1, Len(p)) \in Seq(T) /\ Len(SubSeq(p, 1, Len(p))) = Len(p)
    OBVIOUS
<1>2. \A i \in 1..Len(p) : SubSeq(p, 1, Len(p))[i] = p[i]
    OBVIOUS
<1> QED
    BY <1>1, <1>2

LEMMA ConcatByPlaces ==
    ASSUME NEW T, NEW p \in Seq(T), NEW q \in Seq(T), NEW r \in Seq(T),
           Len(r) = Len(p) + Len(q), \A k \in 1..Len(p) : r[k] = p[k],
           \A k \in 1..Len(q) : r[Len(p) + k] = q[k]
    PROVE  r = p \o q
<1>1. /\ Len(p) \in Nat /\ Len(q) \in Nat /\ p \o q \in Seq(T) /\ Len(p \o q) = Len(p) + Len(q)
      /\ \A i \in 1..Len(p) : (p \o q)[i] = p[i]
      /\ \A i \in 1..Len(q) : (p \o q)[Len(p) + i] = q[i]
    OBVIOUS
<1>2. ASSUME NEW k \in 1..Len(r) PROVE r[k] = (p \o q)[k]
    <2>1. CASE k \in 1..Len(p)
        BY <1>1, <2>1
    <2>2. CASE k \notin 1..Len(p)
        <3>1. k - Len(p) \in 1..Len(q) /\ Len(p) + (k - Len(p)) = k
            BY <1>1, <2>2
        <3> QED
            BY <1>1, <3>1
    <2> QED
        BY <2>1, <2>2
<1> QED
    BY <1>1, <1>2

\* The newlines of two parts are those of the whole.
LEMMA NewlinesOfConcat ==
    ASSUME NEW p \in Seq(Pieces), NEW q \in Seq(Pieces)
    PROVE  \A i \in Int : i \in Newlines(p \o q) <=> i \in Newlines(p) \/ i - Len(p) \in Newlines(q)
<1>1. /\ Len(p) \in Nat /\ Len(q) \in Nat /\ Len(p \o q) = Len(p) + Len(q)
      /\ DOMAIN p = 1..Len(p) /\ DOMAIN q = 1..Len(q) /\ DOMAIN (p \o q) = 1..(Len(p) + Len(q))
    OBVIOUS
<1>2. \A i \in 1..Len(p) : (p \o q)[i] = p[i]
    OBVIOUS
<1>3. \A i \in 1..Len(q) : (p \o q)[Len(p) + i] = q[i]
    OBVIOUS
<1> SUFFICES ASSUME NEW i \in Int
             PROVE  i \in Newlines(p \o q) <=> i \in Newlines(p) \/ i - Len(p) \in Newlines(q)
    OBVIOUS
<1>4. CASE i \in 1..Len(p)
    <2>1. i \in 1..(Len(p) + Len(q)) /\ i - Len(p) \notin 1..Len(q)
        BY <1>1, <1>4
    <2> QED
        BY <1>1, <1>2, <1>4, <2>1 DEF Newlines
<1>5. CASE i - Len(p) \in 1..Len(q)
    <2>1. i \in 1..(Len(p) + Len(q)) /\ i \notin 1..Len(p) /\ Len(p) + (i - Len(p)) = i
        BY <1>1, <1>5
    <2>2. (p \o q)[i] = q[i - Len(p)]
        BY <1>3, <1>5, <2>1
    <2> QED
        BY <1>1, <1>5, <2>1, <2>2 DEF Newlines
<1>6. CASE i \notin 1..Len(p) /\ i - Len(p) \notin 1..Len(q)
    <2>1. i \notin 1..(Len(p) + Len(q))
        BY <1>1, <1>6
    <2> QED
        BY <1>1, <1>6, <2>1 DEF Newlines
<1> QED
    BY <1>4, <1>5, <1>6

\* Nothing follows the last newline.
Ended(p) == p = <<>> \/ p[Len(p)].part # "head"

\* What follows a newline begins a line: the lines of p and q are those of p,
\* then those of q.
LEMMA LinesOfConcat ==
    ASSUME NEW p \in Seq(Pieces), NEW q \in Seq(Pieces), Ended(p)
    PROVE  /\ Lines(p \o q) = Lines(p) \o Lines(q)
           /\ Len(Lines(p \o q)) = Len(Lines(p)) + Len(Lines(q))
           /\ Len(Lines(p)) = 0 <=> p = <<>>
<1> DEFINE S == Newlines(p)
           T == Newlines(q)
           U == Newlines(p \o q)
           m == Cardinality(S)
           n == Cardinality(T)
           d == Len(p)
<1>1. /\ S \in SUBSET Int /\ IsFiniteSet(S) /\ S \subseteq 1..d
      /\ T \in SUBSET Int /\ IsFiniteSet(T) /\ T \subseteq 1..Len(q)
      /\ d \in Nat /\ Len(q) \in Nat /\ m \in Nat /\ n \in Nat
    BY NewlinesAreFinite, FS_CardinalityType
<1>2. PICK s : Sorts(s, S) /\ Lines(p) = Cut(p, s, m)
    BY LinesSorted
<1>3. PICK t : Sorts(t, T) /\ Lines(q) = Cut(q, t, n)
    BY LinesSorted
<1> DEFINE a == After(s, m, t, n, d)
<1>4. U \in SUBSET Int /\ Joins(U, S, T, d)
    <2>1. p \o q \in Seq(Pieces)
        OBVIOUS
    <2>2. U \in SUBSET Int
        BY <2>1, NewlinesAreFinite
    <2>3. ASSUME NEW x \in S, NEW y \in T PROVE x < d + y
        <3>1. x \in 1..d /\ y \in 1..Len(q)
            BY <1>1
        <3> QED
            BY <1>1, <3>1
    <2> QED
        BY <2>2, <2>3, NewlinesOfConcat DEF Joins
<1>5. Cardinality(U) = m + n /\ Sorts(a, U)
    <2> HIDE DEF S, T, U, d
    <2>1. d \in Int /\ Sorts(s, S) /\ Sorts(t, T)
        BY <1>1, <1>2, <1>3
    <2>2. /\ Cardinality(U) = Cardinality(S) + Cardinality(T)
          /\ Sorts(After(s, Cardinality(S), t, Cardinality(T), d), U)
        BY <1>1, <1>4, <2>1, SortsAfter
    <2> QED
        BY <2>2
<1>6. Lines(p \o q) = Cut(p \o q, a, m + n)
    <2>1. p \o q \in Seq(Pieces)
        OBVIOUS
    <2> HIDE DEF a, m, n
    <2> QED
        BY <1>5, <2>1, LinesAreCut
<1>7. s \in [1..m -> S] /\ \A i, j \in 1..m : i < j => s[i] < s[j]
    BY <1>2 DEF Sorts
<1>8. t \in [1..n -> T] /\ \A i, j \in 1..n : i < j => t[i] < t[j]
    BY <1>3 DEF Sorts
<1>9. IF p = <<>> THEN d = 0 /\ m = 0 ELSE m > 0 /\ s[m] = d
    <2>1. CASE p = <<>>
        <3>1. S = {}
            BY <2>1 DEF Newlines
        <3> QED
            BY <2>1, <3>1, FS_EmptySet
    <2>2. CASE p # <<>>
        <3>1. d \in S /\ d > 0
            BY <1>1, <2>2 DEF Ended, Newlines
        <3>2. PICK i \in 1..m : s[i] = d
            BY <1>1, <1>2, <3>1, SortsAll
        <3>3. m > 0 /\ m \in 1..m
            BY <1>1, <3>2
        <3>4. s[m] \in 1..d
            BY <1>1, <1>7, <3>3
        <3>5. i = m
            <4>1. ~(i < m)
                <5>1. i < m => s[i] < s[m]
                    BY <1>7, <3>3
                <5> QED
                    BY <1>1, <3>2, <3>4, <5>1
            <4> QED
                BY <1>1, <4>1
        <3> QED
            BY <2>2, <3>2, <3>3, <3>5
    <2> QED
        BY <2>1, <2>2
<1>10. ASSUME NEW k \in 1..m
       PROVE  Cut(p \o q, a, m + n)[k] = Cut(p, s, m)[k]
    <2> DEFINE b == IF k = 1 THEN 0 ELSE s[k - 1]
    <2>1. k \in 1..(m + n) /\ a[k] = s[k] /\ s[k] \in 1..d
        BY <1>1, <1>7 DEF After
    <2>2. b \in Nat /\ (IF k = 1 THEN 0 ELSE a[k - 1]) = b
        <3>1. CASE k = 1
            BY <3>1
        <3>2. CASE k # 1
            <4>1. k - 1 \in 1..m /\ k - 1 \in 1..(m + n) /\ k - 1 <= m
                BY <1>1, <3>2
            <4>2. a[k - 1] = s[k - 1] /\ s[k - 1] \in 1..d
                BY <1>1, <1>7, <4>1 DEF After
            <4> QED
                BY <1>1, <3>2, <4>2
        <3> QED
            BY <3>1, <3>2
    <2>3. /\ Cut(p \o q, a, m + n)[k] = SubSeq(p \o q, b + 1, s[k])
          /\ Cut(p, s, m)[k] = SubSeq(p, b + 1, s[k])
        BY <2>1, <2>2 DEF Cut
    <2> HIDE DEF b
    <2>4. s[k] \in Nat /\ s[k] <= Len(p)
        BY <1>1, <2>1
    <2> QED
        BY <2>2, <2>3, <2>4, PartsOfConcat
<1>11. ASSUME NEW k \in 1..n
       PROVE  Cut(p \o q, a, m + n)[m + k] = Cut(q, t, n)[k]
    <2> DEFINE b == IF k = 1 THEN 0 ELSE t[k - 1]
    <2>1. m + k \in 1..(m + n) /\ ~(m + k <= m) /\ (m + k) - m = k /\ t[k] \in 1..Len(q)
        BY <1>1, <1>8
    <2>2. a[m + k] = d + t[k]
        BY <2>1 DEF After
    <2>3. b \in Nat /\ (IF m + k = 1 THEN 0 ELSE a[(m + k) - 1]) = d + b
        <3>1. CASE k = 1 /\ p = <<>>
            BY <1>1, <1>9, <3>1
        <3>2. CASE k = 1 /\ p # <<>>
            <4>1. m + k # 1 /\ (m + k) - 1 = m /\ m \in 1..(m + n) /\ m <= m
                BY <1>1, <1>9, <3>2
            <4>2. a[m] = s[m]
                BY <4>1 DEF After
            <4> QED
                BY <1>1, <1>9, <3>2, <4>1, <4>2
        <3>3. CASE k # 1
            <4>1. /\ k - 1 \in 1..n /\ m + k # 1 /\ (m + k) - 1 \in 1..(m + n)
                  /\ ~((m + k) - 1 <= m) /\ ((m + k) - 1) - m = k - 1
                BY <1>1, <3>3
            <4>2. a[(m + k) - 1] = d + t[k - 1] /\ t[k - 1] \in 1..Len(q)
                BY <1>1, <1>8, <4>1 DEF After
            <4> QED
                BY <1>1, <3>3, <4>1, <4>2
        <3> QED
            BY <3>1, <3>2, <3>3
    <2>4. /\ Cut(p \o q, a, m + n)[m + k] = SubSeq(p \o q, (d + b) + 1, d + t[k])
          /\ Cut(q, t, n)[k] = SubSeq(q, b + 1, t[k])
        BY <2>1, <2>2, <2>3 DEF Cut
    <2> HIDE DEF b
    <2>5. t[k] \in Nat /\ t[k] <= Len(q) /\ b \in Nat
        BY <1>1, <2>1, <2>3
    <2>6. SubSeq(p \o q, (d + b) + 1, d + t[k]) = SubSeq(q, b + 1, t[k])
        BY <2>5, PartsOfConcat
    <2> QED
        BY <2>4, <2>6
<1>12. /\ Lines(p) \in Seq(Seq(Pieces)) /\ Len(Lines(p)) = m
       /\ Lines(q) \in Seq(Seq(Pieces)) /\ Len(Lines(q)) = n
       /\ Lines(p \o q) \in Seq(Seq(Pieces)) /\ Len(Lines(p \o q)) = m + n
    <2>1. p \o q \in Seq(Pieces)
        OBVIOUS
    <2> QED
        BY <1>5, <2>1, LinesAreParts
<1> HIDE DEF m, n, d, S, T, U, a
<1>13. /\ \A k \in 1..m : Lines(p \o q)[k] = Lines(p)[k]
       /\ \A k \in 1..n : Lines(p \o q)[m + k] = Lines(q)[k]
    BY <1>2, <1>3, <1>6, <1>10, <1>11
<1>14. Lines(p \o q) = Lines(p) \o Lines(q)
    <2>1. /\ Len(Lines(p \o q)) = Len(Lines(p)) + Len(Lines(q))
          /\ \A k \in 1..Len(Lines(p)) : Lines(p \o q)[k] = Lines(p)[k]
          /\ \A k \in 1..Len(Lines(q)) : Lines(p \o q)[Len(Lines(p)) + k] = Lines(q)[k]
        BY <1>12, <1>13
    <2> QED
        BY <1>12, <2>1, ConcatByPlaces
<1> QED
    BY <1>9, <1>12, <1>14

\* A run of pieces that ends with its only newline is one line.
LEMMA LinesOfOne ==
    ASSUME NEW p \in Seq(Pieces), p # <<>>, \A i \in 1..Len(p) : p[i].part # "head" <=> i = Len(p)
    PROVE  Lines(p) = <<p>>
<1>1. Len(p) \in Nat /\ Len(p) > 0 /\ DOMAIN p = 1..Len(p) /\ Len(p) \in 1..Len(p)
    OBVIOUS
<1>2. Newlines(p) = {Len(p)}
    BY <1>1 DEF Newlines
<1>3. Cardinality(Newlines(p)) = 1
    BY <1>2, FS_Singleton
<1>4. PICK t : Sorts(t, Newlines(p)) /\ Lines(p) = Cut(p, t, 1)
    BY <1>3, LinesSorted
<1>5. t[1] = Len(p)
    <2>1. t \in [1..1 -> {Len(p)}]
        BY <1>2, <1>3, <1>4 DEF Sorts
    <2> QED
        BY <2>1
<1>6. Cut(p, t, 1) = [k \in 1..1 |-> SubSeq(p, 1, Len(p))]
    BY <1>5 DEF Cut
<1>7. SubSeq(p, 1, Len(p)) = p
    BY WholePart
<1>8. Lines(p) = [k \in 1..1 |-> p]
    BY <1>4, <1>6, <1>7
<1>9. <<p>> = [k \in 1..1 |-> p]
    OBVIOUS
<1> QED
    BY <1>8, <1>9

-----------------------------------------------------------------------------
(* The complete lines.                                                     *)

\* p can be cut after o pieces; c is the last place where it can.
Marks(p, o) == o \in 0..Len(p) /\ (o = 0 \/ p[o].part # "head")
Stops(p, c) == Marks(p, c) /\ \A i \in 1..Len(p) : i > c => p[i].part = "head"

LEMMA StopExists ==
    ASSUME NEW p \in Seq(Pieces)
    PROVE  \E c : Stops(p, c)
<1>1. /\ Newlines(p) \in SUBSET Int /\ IsFiniteSet(Newlines(p)) /\ Newlines(p) \subseteq 1..Len(p)
      /\ Len(p) \in Nat /\ DOMAIN p = 1..Len(p)
    BY NewlinesAreFinite
<1>2. CASE Newlines(p) = {}
    <2>1. Stops(p, 0)
        BY <1>1, <1>2 DEF Newlines, Stops, Marks
    <2> QED
        BY <2>1
<1>3. CASE Newlines(p) # {}
    <2>1. PICK m \in Newlines(p) : \A x \in Newlines(p) : x <= m
        BY <1>1, <1>3, GreatestExists
    <2>2. m \in 1..Len(p) /\ p[m].part # "head"
        BY <1>1, <2>1 DEF Newlines
    <2>3. ASSUME NEW i \in 1..Len(p), i > m PROVE p[i].part = "head"
        <3>1. ~(i <= m)
            BY <1>1, <2>2, <2>3
        <3> QED
            BY <1>1, <2>1, <3>1 DEF Newlines
    <2>4. Stops(p, m)
        BY <1>1, <2>2, <2>3 DEF Stops, Marks
    <2> QED
        BY <2>4
<1> QED
    BY <1>2, <1>3

\* complete is what comes before that place.
LEMMA CompleteStops ==
    ASSUME NEW p \in Seq(Pieces), NEW c, Stops(p, c)
    PROVE  /\ Complete(p) = SubSeq(p, 1, c) /\ Complete(p) \in Seq(Pieces)
           /\ Len(Complete(p)) = c /\ c \in 0..Len(p)
<1>1. Len(p) \in Nat /\ DOMAIN p = 1..Len(p) /\ c \in 0..Len(p)
    BY DEF Stops, Marks
<1>2. Complete(p) = SubSeq(p, 1, c)
    <2>1. CASE c = 0
        <3>1. Newlines(p) = {}
            BY <1>1, <2>1 DEF Stops, Newlines
        <3>2. SubSeq(p, 1, 0) = <<>>
            OBVIOUS
        <3> QED
            BY <2>1, <3>1, <3>2 DEF Complete
    <2>2. CASE c # 0
        <3>1. c \in Newlines(p)
            BY <1>1, <2>2 DEF Stops, Marks, Newlines
        <3>2. \A x \in Newlines(p) : x \in Int /\ c >= x
            BY <1>1 DEF Stops, Newlines
        <3>3. ASSUME NEW x \in Newlines(p), \A y \in Newlines(p) : x >= y PROVE x = c
            <4>1. x \in Int /\ x >= c /\ c >= x /\ c \in Int
                BY <1>1, <3>1, <3>2, <3>3
            <4> QED
                BY <4>1
        <3>4. Max(Newlines(p)) = c
            BY <3>1, <3>2, <3>3 DEF Max
        <3> QED
            BY <3>1, <3>4 DEF Complete
    <2> QED
        BY <2>1, <2>2
<1>3. SubSeq(p, 1, c) \in Seq(Pieces) /\ Len(SubSeq(p, 1, c)) = c
    BY <1>1
<1> QED
    BY <1>1, <1>2, <1>3

LEMMA PrefixEnds ==
    ASSUME NEW p \in Seq(Pieces), NEW o, Marks(p, o)
    PROVE  /\ SubSeq(p, 1, o) \in Seq(Pieces) /\ Len(SubSeq(p, 1, o)) = o
           /\ \A i \in 1..o : SubSeq(p, 1, o)[i] = p[i]
           /\ Ended(SubSeq(p, 1, o))
<1>1. o \in 0..Len(p) /\ Len(p) \in Nat
    BY DEF Marks
<1>2. SubSeq(p, 1, o) \in Seq(Pieces) /\ Len(SubSeq(p, 1, o)) = o
    BY <1>1
<1>3. \A i \in 1..o : SubSeq(p, 1, o)[i] = p[i]
    BY <1>1
<1>4. CASE o = 0
    BY <1>2, <1>3, <1>4 DEF Ended
<1>5. CASE o # 0
    <2>1. o \in 1..o
        BY <1>1, <1>5
    <2> QED
        BY <1>2, <1>3, <1>5, <2>1 DEF Ended, Marks
<1> QED
    BY <1>2, <1>3, <1>4, <1>5

\* What a reader finds that begins at a mark: the complete lines of the file,
\* less those before the mark; and it leaves off at a mark.
LEMMA CompleteFrom ==
    ASSUME NEW p \in Seq(Pieces), NEW o, Marks(p, o)
    PROVE  LET chunk == SubSeq(p, o + 1, Len(p))
               c == o + Len(Complete(chunk))
           IN  /\ chunk \in Seq(Pieces) /\ Complete(chunk) \in Seq(Pieces)
               /\ Complete(p) = SubSeq(p, 1, o) \o Complete(chunk)
               /\ Stops(p, c)
<1> DEFINE chunk == SubSeq(p, o + 1, Len(p))
<1>1. o \in 0..Len(p) /\ Len(p) \in Nat /\ (o = 0 \/ p[o].part # "head")
    BY DEF Marks
<1>2. chunk \in Seq(Pieces) /\ Len(chunk) = Len(p) - o
    BY <1>1
<1>3. \A i \in 1..(Len(p) - o) : chunk[i] = p[o + i]
    BY <1>1
<1> HIDE DEF chunk
<1>4. PICK c : Stops(p, c)
    BY StopExists
<1>5. c \in 0..Len(p) /\ (c = 0 \/ p[c].part # "head") /\ \A i \in 1..Len(p) : i > c => p[i].part = "head"
    BY <1>4 DEF Stops, Marks
<1>6. o <= c /\ c - o \in 0..Len(chunk)
    <2>1. CASE o = 0
        BY <1>1, <1>2, <1>5, <2>1
    <2>2. CASE o # 0
        <3>1. o \in 1..Len(p) /\ p[o].part # "head"
            BY <1>1, <2>2
        <3>2. ~(o > c)
            BY <1>5, <3>1
        <3> QED
            BY <1>1, <1>2, <1>5, <3>2
    <2> QED
        BY <2>1, <2>2
<1>7. Stops(chunk, c - o)
    <2>1. c - o = 0 \/ chunk[c - o].part # "head"
        <3>1. CASE c = o
            BY <1>1, <3>1
        <3>2. CASE c # o
            <4>1. c - o \in 1..(Len(p) - o) /\ o + (c - o) = c /\ c # 0
                BY <1>1, <1>5, <1>6, <3>2
            <4> QED
                BY <1>3, <1>5, <4>1
        <3> QED
            BY <3>1, <3>2
    <2>2. ASSUME NEW i \in 1..Len(chunk), i > c - o PROVE chunk[i].part = "head"
        <3>1. i \in 1..(Len(p) - o) /\ o + i \in 1..Len(p) /\ o + i > c
            BY <1>1, <1>2, <1>5, <2>2
        <3> QED
            BY <1>3, <1>5, <3>1
    <2> QED
        BY <1>6, <2>1, <2>2 DEF Stops, Marks
<1>8. /\ Complete(p) = SubSeq(p, 1, c) /\ Complete(p) \in Seq(Pieces) /\ Len(Complete(p)) = c
      /\ \A i \in 1..c : Complete(p)[i] = p[i]
    BY <1>4, CompleteStops, PrefixEnds DEF Stops
<1>9. /\ Complete(chunk) = SubSeq(chunk, 1, c - o) /\ Complete(chunk) \in Seq(Pieces)
      /\ Len(Complete(chunk)) = c - o
      /\ \A i \in 1..(c - o) : Complete(chunk)[i] = chunk[i]
    BY <1>2, <1>7, CompleteStops, PrefixEnds DEF Stops
<1>10. /\ SubSeq(p, 1, o) \in Seq(Pieces) /\ Len(SubSeq(p, 1, o)) = o
       /\ \A i \in 1..o : SubSeq(p, 1, o)[i] = p[i]
    BY PrefixEnds
<1>11. Complete(p) = SubSeq(p, 1, o) \o Complete(chunk)
    <2> DEFINE a == SubSeq(p, 1, o)
               b == Complete(chunk)
               r == Complete(p)
    <2>1. a \in Seq(Pieces) /\ b \in Seq(Pieces) /\ r \in Seq(Pieces)
        BY <1>8, <1>9, <1>10
    <2>2. Len(r) = Len(a) + Len(b)
        BY <1>1, <1>5, <1>8, <1>9, <1>10
    <2>3. ASSUME NEW k \in 1..Len(a) PROVE r[k] = a[k]
        <3>1. k \in 1..o /\ k \in 1..c
            BY <1>1, <1>5, <1>6, <1>10
        <3> QED
            BY <1>8, <1>10, <3>1
    <2>4. ASSUME NEW k \in 1..Len(b) PROVE r[Len(a) + k] = b[k]
        <3>1. k \in 1..(c - o) /\ o + k \in 1..c /\ k \in 1..(Len(p) - o)
            BY <1>1, <1>5, <1>6, <1>9
        <3> QED
            BY <1>3, <1>8, <1>9, <1>10, <3>1
    <2> HIDE DEF a, b, r
    <2>5. r = a \o b
        BY <2>1, <2>2, <2>3, <2>4, ConcatByPlaces
    <2> QED
        BY <2>5 DEF a, b, r
<1>12. Stops(p, o + Len(Complete(chunk)))
    <2>1. o + (c - o) = c
        BY <1>1, <1>5
    <2> QED
        BY <1>4, <1>9, <2>1
<1> QED
    BY <1>2, <1>9, <1>11, <1>12 DEF chunk

\* The complete lines before a mark, and after it.
LEMMA LinesFrom ==
    ASSUME NEW p \in Seq(Pieces), NEW o, Marks(p, o)
    PROVE  LET before == Lines(SubSeq(p, 1, o))
               behind == Lines(Complete(SubSeq(p, o + 1, Len(p))))
           IN  /\ Lines(Complete(p)) = before \o behind
               /\ before \in Seq(Seq(Pieces)) /\ behind \in Seq(Seq(Pieces))
               /\ Len(before) = Cardinality(Newlines(SubSeq(p, 1, o)))
               /\ Len(before) = 0 <=> o = 0
<1>1. /\ SubSeq(p, 1, o) \in Seq(Pieces) /\ Ended(SubSeq(p, 1, o))
      /\ SubSeq(p, 1, o) = <<>> <=> o = 0
    <2>1. SubSeq(p, 1, o) \in Seq(Pieces) /\ Ended(SubSeq(p, 1, o)) /\ Len(SubSeq(p, 1, o)) = o
        BY PrefixEnds
    <2> DEFINE a == SubSeq(p, 1, o)
    <2>2. a = <<>> <=> Len(a) = 0
        <3> HIDE DEF a
        <3>1. a \in Seq(Pieces)
            BY <2>1 DEF a
        <3> QED
            BY <3>1
    <2> QED
        BY <2>1, <2>2
<1>2. /\ Complete(SubSeq(p, o + 1, Len(p))) \in Seq(Pieces)
      /\ Complete(p) = SubSeq(p, 1, o) \o Complete(SubSeq(p, o + 1, Len(p)))
    BY CompleteFrom
<1> QED
    BY <1>1, <1>2, LinesOfConcat, LinesAreParts

LEMMA PrefixOfAppend ==
    ASSUME NEW p \in Seq(Pieces), NEW x \in Pieces, NEW o, Marks(p, o)
    PROVE  /\ Append(p, x) \in Seq(Pieces) /\ Len(Append(p, x)) = Len(p) + 1
           /\ Append(p, x)[Len(p) + 1] = x
           /\ \A i \in 1..Len(p) : Append(p, x)[i] = p[i]
           /\ Marks(Append(p, x), o) /\ SubSeq(Append(p, x), 1, o) = SubSeq(p, 1, o)
<1>1. o \in 0..Len(p) /\ Len(p) \in Nat /\ (o = 0 \/ p[o].part # "head")
    BY DEF Marks
<1> DEFINE a == Append(p, x)
<1>2. a \in Seq(Pieces) /\ Len(a) = Len(p) + 1 /\ a[Len(p) + 1] = x
    OBVIOUS
<1>3. \A i \in 1..Len(p) : a[i] = p[i]
    OBVIOUS
<1> HIDE DEF a
<1>4. Marks(a, o)
    <2>1. o \in 0..Len(a)
        BY <1>1, <1>2
    <2>2. CASE o = 0
        BY <2>1, <2>2 DEF Marks
    <2>3. CASE o # 0
        <3>1. o \in 1..Len(p)
            BY <1>1, <2>3
        <3> QED
            BY <1>1, <1>3, <2>1, <2>3, <3>1 DEF Marks
    <2> QED
        BY <2>2, <2>3
<1>5. /\ SubSeq(a, 1, o) \in Seq(Pieces) /\ Len(SubSeq(a, 1, o)) = o
      /\ \A i \in 1..o : SubSeq(a, 1, o)[i] = a[i]
    BY <1>2, <1>4, PrefixEnds
<1>6. /\ SubSeq(p, 1, o) \in Seq(Pieces) /\ Len(SubSeq(p, 1, o)) = o
      /\ \A i \in 1..o : SubSeq(p, 1, o)[i] = p[i]
    BY PrefixEnds
<1>7. \A i \in 1..o : i \in 1..Len(p)
    BY <1>1
<1>8. SubSeq(a, 1, o) = SubSeq(p, 1, o)
    BY <1>3, <1>5, <1>6, <1>7
<1> QED
    BY <1>2, <1>3, <1>4, <1>8 DEF a

\* A head is not seen yet.
LEMMA HeadWaits ==
    ASSUME NEW p \in Seq(Pieces), NEW x \in Pieces, x.part = "head"
    PROVE  Complete(Append(p, x)) = Complete(p)
<1>1. PICK c : Stops(p, c)
    BY StopExists
<1>2. Marks(p, c) /\ \A i \in 1..Len(p) : i > c => p[i].part = "head"
    BY <1>1 DEF Stops
<1> DEFINE a == Append(p, x)
<1>3. /\ a \in Seq(Pieces) /\ Len(a) = Len(p) + 1 /\ a[Len(p) + 1] = x
      /\ \A i \in 1..Len(p) : a[i] = p[i]
      /\ Marks(a, c) /\ SubSeq(a, 1, c) = SubSeq(p, 1, c)
    BY <1>2, PrefixOfAppend
<1> HIDE DEF a
<1>4. ASSUME NEW i \in 1..Len(a), i > c PROVE a[i].part = "head"
    <2>1. i \in 1..Len(p) \/ i = Len(p) + 1
        BY <1>3
    <2> QED
        BY <1>2, <1>3, <1>4, <2>1
<1>5. Stops(a, c)
    BY <1>3, <1>4 DEF Stops
<1>6. Complete(a) = Complete(p)
    BY <1>1, <1>3, <1>5, CompleteStops
<1> QED
    BY <1>6 DEF a

\* The line that a newline x ends: what has come since the last one.
Finishes(p, x, line) ==
    /\ line \in Seq(Pieces) /\ line # <<>> /\ line[Len(line)] = x
    /\ \E c : /\ Stops(p, c) /\ Len(line) = (Len(p) - c) + 1
              /\ \A i \in 1..(Len(p) - c) : line[i] = p[c + i]

LEMMA NewlineFinishes ==
    ASSUME NEW p \in Seq(Pieces), NEW x \in Pieces, x.part # "head"
    PROVE  \E line : /\ Finishes(p, x, line)
                     /\ Lines(Complete(Append(p, x))) = Append(Lines(Complete(p)), line)
<1>1. PICK c : Stops(p, c)
    BY StopExists
<1>2. Marks(p, c) /\ \A i \in 1..Len(p) : i > c => p[i].part = "head"
    BY <1>1 DEF Stops
<1>3. c \in 0..Len(p) /\ Len(p) \in Nat /\ Len(p) - c \in Nat
    BY <1>2 DEF Marks
<1> DEFINE a == Append(p, x)
           line == SubSeq(a, c + 1, Len(a))
<1>4. /\ a \in Seq(Pieces) /\ Len(a) = Len(p) + 1 /\ a[Len(p) + 1] = x
      /\ \A i \in 1..Len(p) : a[i] = p[i]
      /\ Marks(a, c) /\ SubSeq(a, 1, c) = SubSeq(p, 1, c)
    BY <1>2, PrefixOfAppend
<1> HIDE DEF a
<1>5. line \in Seq(Pieces) /\ Len(line) = (Len(p) - c) + 1
    BY <1>3, <1>4
<1>6. \A i \in 1..((Len(p) - c) + 1) : line[i] = a[c + i]
    BY <1>3, <1>4
<1> HIDE DEF line
<1>7. line[Len(line)] = x
    <2>1. Len(line) \in 1..((Len(p) - c) + 1) /\ c + Len(line) = Len(p) + 1
        BY <1>3, <1>5
    <2> QED
        BY <1>4, <1>6, <2>1
<1>8. ASSUME NEW i \in 1..(Len(p) - c)
      PROVE  line[i] = p[c + i] /\ p[c + i].part = "head"
    <2>1. i \in 1..((Len(p) - c) + 1) /\ c + i \in 1..Len(p) /\ c + i > c
        BY <1>3
    <2> QED
        BY <1>2, <1>4, <1>6, <2>1
<1>9. line # <<>>
    BY <1>3, <1>5
<1>10. Finishes(p, x, line)
    BY <1>1, <1>5, <1>7, <1>8, <1>9 DEF Finishes
<1>11. ASSUME NEW i \in 1..Len(line) PROVE line[i].part # "head" <=> i = Len(line)
    <2>1. i = Len(line) \/ (i \in 1..(Len(p) - c) /\ i # Len(line))
        BY <1>3, <1>5
    <2> QED
        BY <1>7, <1>8, <2>1
<1>12. Lines(line) = <<line>>
    BY <1>5, <1>9, <1>11, LinesOfOne
<1>13. Complete(line) = line
    <2>1. Len(line) \in 0..Len(line) /\ Len(line) \in Nat
        BY <1>3, <1>5
    <2>2. Stops(line, Len(line))
        BY <1>7, <2>1 DEF Stops, Marks
    <2> QED
        BY <1>5, <2>2, CompleteStops, WholePart
<1>14. /\ Lines(Complete(a)) = Lines(SubSeq(a, 1, c)) \o Lines(line)
       /\ Lines(SubSeq(a, 1, c)) \in Seq(Seq(Pieces))
    BY <1>4, <1>13, LinesFrom DEF line
<1>15. Complete(p) = SubSeq(a, 1, c)
    BY <1>1, <1>4, CompleteStops
<1>16. Lines(Complete(a)) = Lines(Complete(p)) \o <<line>>
    BY <1>12, <1>14, <1>15
<1>17. Lines(Complete(p)) \o <<line>> = Append(Lines(Complete(p)), line)
    <2> DEFINE l == Lines(Complete(p))
    <2>1. l \in Seq(Seq(Pieces))
        BY <1>14, <1>15
    <2> HIDE DEF l
    <2>2. l \o <<line>> = Append(l, line)
        BY <1>5, <2>1
    <2> QED
        BY <2>2 DEF l
<1> QED
    BY <1>10, <1>16, <1>17 DEF a

\* A line that parses holds the event of its last piece: a whole one, or a tail
\* right behind its head.
LEMMA ParsedLine ==
    ASSUME NEW p \in Seq(Pieces), NEW x \in Pieces, NEW line, Finishes(p, x, line), Parses(line)
    PROVE  /\ line[1].event = x.event
           /\ \/ x.part = "whole"
              \/ x.part = "tail" /\ Len(p) > 0 /\ Stops(p, Len(p) - 1) /\ p[Len(p)].event = x.event
<1> DEFINE e == line[1].event
<1>1. PICK c : /\ Stops(p, c) /\ Len(line) = (Len(p) - c) + 1
               /\ \A i \in 1..(Len(p) - c) : line[i] = p[c + i]
    BY DEF Finishes
<1>2. line[Len(line)] = x /\ c \in 0..Len(p) /\ Len(p) \in Nat
    BY <1>1 DEF Finishes, Stops, Marks
<1>3. line = <<Piece(e, "whole")>> \/ line = <<Piece(e, "head"), Piece(e, "tail")>>
    BY DEF Parses
<1> HIDE DEF e
<1>4. CASE line = <<Piece(e, "whole")>>
    <2>1. Len(line) = 1 /\ line[1] = Piece(e, "whole")
        BY <1>4
    <2>2. x = Piece(e, "whole")
        BY <1>2, <2>1
    <2> QED
        BY <2>1, <2>2 DEF Piece
<1>5. CASE line = <<Piece(e, "head"), Piece(e, "tail")>>
    <2>1. Len(line) = 2 /\ line[1] = Piece(e, "head") /\ line[2] = Piece(e, "tail")
        BY <1>5
    <2>2. x = Piece(e, "tail")
        BY <1>2, <2>1
    <2>3. c = Len(p) - 1 /\ 1 \in 1..(Len(p) - c) /\ c + 1 = Len(p)
        <3>1. (Len(p) - c) + 1 = 2
            BY <1>1, <2>1
        <3>2. c \in Nat /\ Len(p) \in Nat
            BY <1>2
        <3>3. Len(p) - c = 1 /\ c = Len(p) - 1 /\ c + 1 = Len(p)
            BY <3>1, <3>2
        <3>4. 1 \in 1..(Len(p) - c)
            BY <3>3
        <3> QED
            BY <3>3, <3>4
    <2>4. p[Len(p)] = Piece(e, "head")
        BY <1>1, <2>1, <2>3
    <2>5. Len(p) > 0
        BY <1>2, <2>3
    <2> QED
        BY <1>1, <2>1, <2>2, <2>3, <2>4, <2>5 DEF Piece
<1> QED
    BY <1>3, <1>4, <1>5

-----------------------------------------------------------------------------
(* The log that lines make.                                                *)

LogOf(lines) ==
    LET readable == IF Garbage(lines) = {} THEN Len(lines) ELSE Min(Garbage(lines)) - 1
    IN  [k \in 1..readable |-> lines[k][1].event]

LEMMA LogIsLogOf == Log = LogOf(Written)
BY DEF Log, LogOf

\* The first line that does not parse.
LEMMA FirstGarbage ==
    ASSUME NEW lines \in Seq(Seq(Pieces)), Garbage(lines) # {}
    PROVE  /\ Min(Garbage(lines)) \in Garbage(lines)
           /\ \A k \in Garbage(lines) : Min(Garbage(lines)) <= k
<1>1. Garbage(lines) \subseteq 1..Len(lines) /\ Len(lines) \in Nat
    BY DEF Garbage
<1>2. PICK m \in Garbage(lines) : \A k \in Garbage(lines) : m <= k
    <2>1. Garbage(lines) \in SUBSET Nat
        BY <1>1
    <2> QED
        BY <2>1, LeastNatural
<1> QED
    BY <1>2 DEF Min

\* One more line, of a log that is whole so far, is one more event or breaks it.
LEMMA LogGrows ==
    ASSUME NEW lines \in Seq(Seq(Pieces)), NEW line \in Seq(Pieces)
    PROVE  LET grown == Append(lines, line)
           IN  /\ Garbage(grown) = {} <=> Garbage(lines) = {} /\ Parses(line)
               /\ LogOf(grown) = IF Garbage(grown) = {}
                                 THEN Append(LogOf(lines), line[1].event)
                                 ELSE LogOf(lines)
<1> DEFINE grown == Append(lines, line)
           n == Len(lines)
<1>1. n \in Nat /\ Len(grown) = n + 1 /\ DOMAIN lines = 1..n /\ DOMAIN grown = 1..(n + 1)
    OBVIOUS
<1>2. grown[n + 1] = line /\ \A k \in 1..n : grown[k] = lines[k]
    OBVIOUS
<1>3. grown \in Seq(Seq(Pieces))
    OBVIOUS
<1> HIDE DEF n, grown
<1>4. \A k : k \in Garbage(grown) <=> k \in Garbage(lines) \/ (k = n + 1 /\ ~Parses(line))
    <2>1. \A k : k \in 1..(n + 1) <=> k \in 1..n \/ k = n + 1
        BY <1>1
    <2>2. n + 1 \notin 1..n
        BY <1>1
    <2> QED
        BY <1>1, <1>2, <2>1, <2>2 DEF Garbage
<1>5. Garbage(grown) = {} <=> Garbage(lines) = {} /\ Parses(line)
    BY <1>4
<1>6. Garbage(lines) \subseteq 1..n /\ Garbage(grown) \subseteq 1..(n + 1)
    BY <1>1 DEF Garbage
<1>7. CASE Garbage(grown) = {}
    <2>1. LogOf(lines) = [k \in 1..n |-> lines[k][1].event]
        BY <1>5, <1>7 DEF LogOf, n
    <2>2. LogOf(grown) = [k \in 1..(n + 1) |-> grown[k][1].event]
        BY <1>1, <1>7 DEF LogOf
    <2>3. Append([k \in 1..n |-> lines[k][1].event], line[1].event)
              = [k \in 1..(n + 1) |-> IF k <= n THEN lines[k][1].event ELSE line[1].event]
        BY <1>1
    <2>4. ASSUME NEW k \in 1..(n + 1)
          PROVE  grown[k][1].event = IF k <= n THEN lines[k][1].event ELSE line[1].event
        <3>1. (k \in 1..n /\ k <= n) \/ (k = n + 1 /\ ~(k <= n))
            BY <1>1
        <3> QED
            BY <1>2, <3>1
    <2> QED
        BY <1>5, <1>7, <2>1, <2>2, <2>3, <2>4 DEF grown
<1>8. CASE Garbage(grown) # {} /\ Garbage(lines) = {}
    <2>1. \A k : k \in Garbage(grown) <=> k = n + 1
        BY <1>4, <1>5, <1>8
    <2>2. Min(Garbage(grown)) = n + 1
        BY <1>3, <1>8, <2>1, FirstGarbage
    <2>3. LogOf(grown) = [k \in 1..((n + 1) - 1) |-> grown[k][1].event]
        BY <1>8, <2>2 DEF LogOf
    <2>4. LogOf(lines) = [k \in 1..n |-> lines[k][1].event]
        BY <1>8 DEF LogOf, n
    <2>5. (n + 1) - 1 = n
        BY <1>1
    <2>6. LogOf(grown) = LogOf(lines)
        BY <1>2, <2>3, <2>4, <2>5
    <2> QED
        BY <1>5, <1>8, <2>6 DEF grown
<1>9. CASE Garbage(lines) # {}
    <2> DEFINE m == Min(Garbage(lines))
    <2>1. m \in Garbage(lines) /\ \A k \in Garbage(lines) : m <= k
        BY <1>9, FirstGarbage
    <2>2. m \in 1..n
        BY <1>6, <2>1
    <2> HIDE DEF m
    <2>3. Garbage(grown) # {}
        BY <1>5, <1>9
    <2>4. m \in Garbage(grown) /\ \A k \in Garbage(grown) : m <= k
        <3>1. m <= n + 1
            BY <1>1, <2>2
        <3> QED
            BY <1>4, <2>1, <3>1
    <2>5. Min(Garbage(grown)) = m
        <3> DEFINE l == Min(Garbage(grown))
        <3>1. l \in Garbage(grown) /\ \A k \in Garbage(grown) : l <= k
            BY <1>3, <2>3, FirstGarbage
        <3>2. l \in 1..(n + 1)
            BY <1>6, <3>1
        <3> HIDE DEF l
        <3>3. l <= m /\ m <= l
            BY <2>4, <3>1
        <3>4. l = m
            BY <1>1, <2>2, <3>2, <3>3
        <3> QED
            BY <3>4 DEF l
    <2>6. LogOf(grown) = [k \in 1..(m - 1) |-> grown[k][1].event]
        BY <2>3, <2>5 DEF LogOf
    <2>7. LogOf(lines) = [k \in 1..(m - 1) |-> lines[k][1].event]
        BY <1>9 DEF LogOf, m
    <2>8. \A k \in 1..(m - 1) : k \in 1..n
        BY <1>1, <2>2
    <2>9. LogOf(grown) = LogOf(lines)
        BY <1>2, <2>6, <2>7, <2>8
    <2> QED
        BY <1>5, <1>9, <2>3, <2>9 DEF grown
<1> QED
    BY <1>7, <1>8, <1>9

\* What the lines behind a whole log hold is what the log has behind it.
LEMMA LogBehind ==
    ASSUME NEW before \in Seq(Seq(Pieces)), NEW behind \in Seq(Seq(Pieces)), Garbage(before) = {}
    PROVE  LET lines == before \o behind
               n == Len(before)
           IN  /\ Garbage(lines) = {} <=> Garbage(behind) = {}
               /\ Garbage(lines) = {} =>
                     /\ Len(LogOf(lines)) = n + Len(behind)
                     /\ SubSeq(LogOf(lines), n + 1, Len(LogOf(lines)))
                            = [k \in DOMAIN behind |-> behind[k][1].event]
<1> DEFINE lines == before \o behind
           n == Len(before)
           m == Len(behind)
<1>1. /\ n \in Nat /\ m \in Nat /\ Len(lines) = n + m
      /\ DOMAIN before = 1..n /\ DOMAIN behind = 1..m /\ DOMAIN lines = 1..(n + m)
    OBVIOUS
<1>2. \A k \in 1..n : lines[k] = before[k]
    OBVIOUS
<1>3. \A k \in 1..m : lines[n + k] = behind[k]
    OBVIOUS
<1> HIDE DEF lines, n, m
<1>4. Garbage(lines) = {} <=> Garbage(behind) = {}
    <2>1. ASSUME NEW k \in Garbage(behind) PROVE n + k \in Garbage(lines)
        <3>1. k \in 1..m /\ ~Parses(behind[k]) /\ n + k \in 1..(n + m)
            BY <1>1 DEF Garbage
        <3> QED
            BY <1>1, <1>3, <3>1 DEF Garbage
    <2>2. ASSUME NEW k \in Garbage(lines) PROVE k - n \in Garbage(behind)
        <3>1. k \in 1..(n + m) /\ ~Parses(lines[k])
            BY <1>1 DEF Garbage
        <3>2. k \notin 1..n
            BY <1>1, <1>2, <3>1 DEF Garbage
        <3>3. k - n \in 1..m /\ n + (k - n) = k
            BY <1>1, <3>1, <3>2
        <3> QED
            BY <1>1, <1>3, <3>1, <3>3 DEF Garbage
    <2> QED
        BY <2>1, <2>2
<1>5. ASSUME Garbage(lines) = {}
      PROVE  /\ Len(LogOf(lines)) = n + m
             /\ SubSeq(LogOf(lines), n + 1, Len(LogOf(lines)))
                    = [k \in 1..m |-> behind[k][1].event]
    <2> DEFINE log == [k \in 1..(n + m) |-> lines[k][1].event]
    <2>1. LogOf(lines) = log
        BY <1>1, <1>5 DEF LogOf
    <2>2. Len(log) = n + m /\ n + m \in Nat
        BY <1>1
    <2>3. SubSeq(log, n + 1, n + m) = [k \in 1..((n + m) - n) |-> log[n + k]]
        BY <1>1, <2>2
    <2>4. (n + m) - n = m
        BY <1>1
    <2>5. ASSUME NEW k \in 1..m PROVE log[n + k] = behind[k][1].event
        <3>1. n + k \in 1..(n + m)
            BY <1>1
        <3> QED
            BY <1>3, <3>1
    <2> HIDE DEF log
    <2>6. SubSeq(log, n + 1, n + m) = [k \in 1..m |-> behind[k][1].event]
        BY <2>3, <2>4, <2>5
    <2> QED
        BY <2>1, <2>2, <2>6
<1> QED
    BY <1>1, <1>4, <1>5 DEF lines, n, m

-----------------------------------------------------------------------------
(* The inductive invariant.                                                *)

TypeOK ==
    /\ file \in Seq(Pieces)
    /\ writing \in [Writers -> Events \cup {None}]
    /\ offset \in [Readers -> Nat]

\* A reader stands behind lines that it could read.
Behind(r) == Marks(file, offset[r]) /\ Garbage(Lines(SubSeq(file, 1, offset[r]))) = {}

\* An event whose second write is due has had one, and no other writer's is due.
Begun(w) == writing[w] # None =>
    /\ \E i \in 1..Len(file) : file[i].event = writing[w]
    /\ \A i, j \in 1..Len(file) : file[i].event = writing[w] /\ file[j].event = writing[w] => i = j
    /\ \A v \in Writers : writing[v] = writing[w] => v = w

IInv == TypeOK /\ (\A r \in Readers : Behind(r)) /\ (\A w \in Writers : Begun(w))

\* A new event is in no piece.
LEMMA NewIsNew ==
    ASSUME TypeOK, NEW e \in New
    PROVE  e \in Events /\ \A i \in 1..Len(file) : file[i].event # e
<1>1. DOMAIN file = 1..Len(file)
    BY DEF TypeOK
<1>2. \A i \in DOMAIN file : file[i] \in Range(file)
    BY DEF Range
<1> QED
    BY <1>1, <1>2 DEF New

\* What a write of x may do: x is a new event's, or the second half of one.
Writes(x) ==
    /\ x \in Pieces
    /\ file' = Append(file, x)
    /\ UNCHANGED <<offset, got, raised>>
    /\ \/ \A i \in 1..Len(file) : file[i].event # x.event
       \/ /\ x.part = "tail"
          /\ \E i \in 1..Len(file) : file[i].event = x.event
          /\ \A i, j \in 1..Len(file) : file[i].event = x.event /\ file[j].event = x.event => i = j

LEMMA Writing ==
    ASSUME IInv, NEW w \in Writers, NEW e \in Events,
           EndLine(w) \/ AppendLine(w, e) \/ BeginLine(w, e) \/ Tear(w, e)
    PROVE  \E x \in Pieces : Writes(x)
<1>1. TypeOK /\ Begun(w)
    BY DEF IInv
<1>2. CASE EndLine(w)
    <2> DEFINE x == Piece(writing[w], "tail")
    <2>1. writing[w] \in Events /\ writing[w] # None
        BY <1>1, <1>2 DEF TypeOK, EndLine
    <2>2. x \in Pieces /\ x.part = "tail" /\ x.event = writing[w]
        BY <2>1 DEF Pieces, Piece
    <2>3. file' = Append(file, x) /\ UNCHANGED <<offset, got, raised>>
        BY <1>2 DEF EndLine, Write
    <2> HIDE DEF x
    <2>4. Writes(x)
        BY <1>1, <2>1, <2>2, <2>3 DEF Writes, Begun
    <2> QED
        BY <2>2, <2>4
<1>3. ASSUME NEW part \in {"whole", "head"}, e \in New, Write(e, part),
             UNCHANGED <<offset, got, raised>>
      PROVE  \E x \in Pieces : Writes(x)
    <2> DEFINE x == Piece(e, part)
    <2>1. x \in Pieces /\ x.event = e
        BY <1>3 DEF Pieces, Piece
    <2>2. \A i \in 1..Len(file) : file[i].event # e
        BY <1>1, <1>3, NewIsNew
    <2>3. file' = Append(file, x) /\ UNCHANGED <<offset, got, raised>>
        BY <1>3 DEF Write
    <2> HIDE DEF x
    <2>4. Writes(x)
        BY <2>1, <2>2, <2>3 DEF Writes
    <2> QED
        BY <2>1, <2>4
<1>4. CASE AppendLine(w, e)
    BY <1>3, <1>4 DEF AppendLine
<1>5. CASE BeginLine(w, e)
    BY <1>3, <1>5 DEF BeginLine
<1>6. CASE Tear(w, e)
    BY <1>3, <1>6 DEF Tear
<1> QED
    BY <1>2, <1>4, <1>5, <1>6

\* A write leaves what is before a reader's offset as it is.
LEMMA WriteKeepsReaders ==
    ASSUME IInv, NEW x \in Pieces, Writes(x), NEW r \in Readers
    PROVE  Behind(r)' /\ SubSeq(file, 1, offset[r])' = SubSeq(file, 1, offset[r])
<1>1. file \in Seq(Pieces) /\ Marks(file, offset[r]) /\ Garbage(Lines(SubSeq(file, 1, offset[r]))) = {}
    BY DEF IInv, TypeOK, Behind
<1>2. file' = Append(file, x) /\ offset' = offset
    BY DEF Writes
<1> DEFINE o == offset[r]
<1>3. Marks(Append(file, x), o) /\ SubSeq(Append(file, x), 1, o) = SubSeq(file, 1, o)
    <2>1. Marks(file, o)
        BY <1>1
    <2> HIDE DEF o
    <2> QED
        BY <1>1, <2>1, PrefixOfAppend
<1> QED
    BY <1>1, <1>2, <1>3 DEF Behind

\* It leaves another writer's event alone.
LEMMA WriteKeepsBegun ==
    ASSUME IInv, NEW x \in Pieces, file' = Append(file, x),
           NEW v \in Writers, writing'[v] = writing[v], writing[v] # x.event,
           \A u \in Writers : writing'[u] = writing[v] => writing[u] = writing[v]
    PROVE  Begun(v)'
<1> SUFFICES ASSUME writing[v] # None
             PROVE  /\ \E i \in 1..Len(file') : file'[i].event = writing[v]
                    /\ \A i, j \in 1..Len(file') :
                          file'[i].event = writing[v] /\ file'[j].event = writing[v] => i = j
                    /\ \A u \in Writers : writing'[u] = writing[v] => u = v
    BY DEF Begun
<1>1. file \in Seq(Pieces) /\ Begun(v)
    BY DEF IInv, TypeOK
<1>2. /\ Len(file) \in Nat /\ Len(file') = Len(file) + 1 /\ file'[Len(file) + 1] = x
      /\ \A i \in 1..Len(file) : file'[i] = file[i]
    BY <1>1
<1>3. \A i \in 1..Len(file') : i \in 1..Len(file) \/ i = Len(file) + 1
    BY <1>2
<1>4. \A i \in 1..Len(file) : i \in 1..Len(file')
    BY <1>2
<1>5. \A i \in 1..Len(file') : file'[i].event = writing[v] =>
          i \in 1..Len(file) /\ file[i].event = writing[v]
    BY <1>2, <1>3
<1> QED
    BY <1>1, <1>2, <1>4, <1>5 DEF Begun

LEMMA WriterKeepsBegun ==
    ASSUME IInv, NEW w \in Writers, NEW e \in Events,
           EndLine(w) \/ LeaveLine(w) \/ AppendLine(w, e) \/ BeginLine(w, e) \/ Tear(w, e)
    PROVE  \A v \in Writers : Begun(v)'
<1> SUFFICES ASSUME NEW v \in Writers PROVE Begun(v)'
    OBVIOUS
<1>1. /\ file \in Seq(Pieces) /\ Begun(v) /\ Begun(w)
      /\ writing \in [Writers -> Events \cup {None}]
    BY DEF IInv, TypeOK
<1>2. CASE EndLine(w)
    <2> DEFINE x == Piece(writing[w], "tail")
    <2>1. writing[w] \in Events /\ writing[w] # None /\ writing' = [writing EXCEPT ![w] = None]
        BY <1>1, <1>2 DEF EndLine
    <2>2. x \in Pieces /\ x.event = writing[w] /\ file' = Append(file, x)
        BY <1>2, <2>1 DEF EndLine, Write, Pieces, Piece
    <2>3. CASE v = w
        BY <1>1, <2>1, <2>3 DEF Begun
    <2>4. CASE v # w
        <3>1. writing'[v] = writing[v]
            BY <1>1, <2>1, <2>4
        <3>2. writing[v] # None => writing[v] # writing[w]
            BY <1>1, <2>1, <2>4 DEF Begun
        <3>3. CASE writing[v] = None
            BY <3>1, <3>3 DEF Begun
        <3>4. CASE writing[v] # None
            <4>1. \A u \in Writers : writing'[u] = writing[v] => writing[u] = writing[v]
                BY <1>1, <2>1, <3>4
            <4> HIDE DEF x
            <4> QED
                BY <2>2, <3>1, <3>2, <3>4, <4>1, WriteKeepsBegun
        <3> QED
            BY <3>3, <3>4
    <2> QED
        BY <2>3, <2>4
<1>3. CASE LeaveLine(w)
    <2>1. file' = file /\ writing' = [writing EXCEPT ![w] = None]
        BY <1>3 DEF LeaveLine
    <2>2. \A u \in Writers : writing'[u] = IF u = w THEN None ELSE writing[u]
        BY <1>1, <2>1
    <2> QED
        BY <1>1, <2>1, <2>2 DEF Begun
<1>4. ASSUME NEW part \in {"whole", "head"}, e \in New, Write(e, part), writing[w] = None,
             writing' = writing \/ writing' = [writing EXCEPT ![w] = e]
      PROVE  Begun(v)'
    <2> DEFINE x == Piece(e, part)
    <2>1. x \in Pieces /\ x.event = e /\ file' = Append(file, x)
        BY <1>4 DEF Write, Pieces, Piece
    <2>2. \A i \in 1..Len(file) : file[i].event # e
        BY <1>4, NewIsNew DEF IInv
    <2>3. \A u \in Writers : writing[u] # None => writing[u] # e
        BY <2>2 DEF IInv, Begun
    <2>4. \A u \in Writers : writing'[u] = IF u = w THEN writing'[w] ELSE writing[u]
        BY <1>1, <1>4
    <2>5. writing'[w] \in {None, e}
        BY <1>1, <1>4
    <2> HIDE DEF x
    <2>6. CASE writing'[v] = None
        BY <2>6 DEF Begun
    <2>7. CASE writing'[v] # None /\ writing[v] = writing'[v]
        <3>1. \A u \in Writers : writing'[u] = writing[v] => writing[u] = writing[v]
            BY <1>4, <2>3, <2>4, <2>5, <2>7
        <3> QED
            BY <2>1, <2>3, <2>7, <3>1, WriteKeepsBegun
    <2>8. CASE writing'[v] # None /\ writing[v] # writing'[v]
        <3>1. v = w /\ writing'[v] = e
            BY <2>4, <2>5, <2>8
        <3>2. /\ Len(file) \in Nat /\ Len(file') = Len(file) + 1 /\ file'[Len(file) + 1] = x
              /\ \A i \in 1..Len(file) : file'[i] = file[i]
            BY <1>1, <2>1
        <3>3. \A i \in 1..Len(file') : i \in 1..Len(file) \/ i = Len(file) + 1
            BY <3>2
        <3>4. \A i \in 1..Len(file') : file'[i].event = e <=> i = Len(file) + 1
            BY <2>1, <2>2, <3>2, <3>3
        <3>5. Len(file) + 1 \in 1..Len(file')
            BY <3>2
        <3>6. \A u \in Writers : writing'[u] = e => u = w
            BY <2>3, <2>4, <2>8, <3>1
        <3> QED
            BY <3>1, <3>4, <3>5, <3>6 DEF Begun
    <2> QED
        BY <2>6, <2>7, <2>8
<1>5. CASE AppendLine(w, e)
    BY <1>4, <1>5 DEF AppendLine
<1>6. CASE BeginLine(w, e)
    BY <1>4, <1>6 DEF BeginLine
<1>7. CASE Tear(w, e)
    BY <1>4, <1>7 DEF Tear
<1> QED
    BY <1>2, <1>3, <1>5, <1>6, <1>7

-----------------------------------------------------------------------------
(* Reading.                                                                *)

\* How many lines r has read: the position of the log it is at.
PositionAt(o) == Cardinality(Newlines(SubSeq(file, 1, o)))

\* The two places a reader may begin at are marks, with readable lines before.
LEMMA BeginsAtMark ==
    ASSUME IInv, NEW r \in Readers, NEW from \in {0, offset[r]}
    PROVE  Marks(file, from) /\ Garbage(Lines(SubSeq(file, 1, from))) = {}
<1>1. file \in Seq(Pieces) /\ Behind(r)
    BY DEF IInv, TypeOK
<1>2. CASE from = offset[r]
    BY <1>1, <1>2 DEF Behind
<1>3. CASE from = 0
    <2>1. Marks(file, 0)
        BY <1>1 DEF Marks
    <2>2. Len(Lines(SubSeq(file, 1, 0))) = 0 /\ Lines(SubSeq(file, 1, 0)) \in Seq(Seq(Pieces))
        BY <1>1, <2>1, LinesFrom
    <2>3. DOMAIN Lines(SubSeq(file, 1, 0)) = {}
        BY <2>2
    <2> QED
        BY <1>3, <2>1, <2>3 DEF Garbage
<1> QED
    BY <1>2, <1>3

\* What a read finds is what the log has behind its beginning.
LEMMA ReadsBehind ==
    ASSUME IInv, NEW r \in Readers, NEW from \in {0, offset[r]}
    PROVE  LET complete == Complete(SubSeq(file, from + 1, Len(file)))
               lines == Lines(complete)
               events == [k \in DOMAIN lines |-> lines[k][1].event]
               end == from + Len(complete)
           IN  /\ Garbage(lines) = {} <=> Garbage(Written) = {}
               /\ PositionAt(from) = 0 <=> from = 0
               /\ Garbage(lines) = {} =>
                     /\ SubSeq(Log, PositionAt(from) + 1, Len(Log)) = events
                     /\ Marks(file, end) /\ end \in Nat
                     /\ Garbage(Lines(SubSeq(file, 1, end))) = {}
                     /\ PositionAt(end) = Len(Log)
<1> DEFINE complete == Complete(SubSeq(file, from + 1, Len(file)))
           lines == Lines(complete)
           before == Lines(SubSeq(file, 1, from))
           events == [k \in DOMAIN lines |-> lines[k][1].event]
           end == from + Len(complete)
<1>1. file \in Seq(Pieces) /\ Marks(file, from) /\ Garbage(before) = {}
    BY BeginsAtMark DEF IInv, TypeOK
<1>2. /\ Written = before \o lines
      /\ before \in Seq(Seq(Pieces)) /\ lines \in Seq(Seq(Pieces))
      /\ Len(before) = PositionAt(from) /\ (Len(before) = 0 <=> from = 0)
    BY <1>1, LinesFrom DEF Written, PositionAt
<1>3. Stops(file, end)
    BY <1>1, CompleteFrom
<1>4. Complete(file) = SubSeq(file, 1, end) /\ Complete(file) \in Seq(Pieces) /\ end \in 0..Len(file)
    BY <1>1, <1>3, CompleteStops
<1>5. Written \in Seq(Seq(Pieces)) /\ Len(Written) = PositionAt(end)
    BY <1>4, LinesAreParts DEF Written, PositionAt
<1>6. Len(Written) = Len(before) + Len(lines)
    <2> HIDE DEF before, lines
    <2>1. before \in Seq(Seq(Pieces)) /\ lines \in Seq(Seq(Pieces))
        BY <1>2
    <2>2. Len(before \o lines) = Len(before) + Len(lines)
        BY <2>1
    <2> QED
        BY <1>2, <2>2
<1> HIDE DEF before, lines, complete, end
<1>7. /\ Garbage(Written) = {} <=> Garbage(lines) = {}
      /\ Garbage(Written) = {} =>
            /\ Len(LogOf(Written)) = Len(before) + Len(lines)
            /\ SubSeq(LogOf(Written), Len(before) + 1, Len(LogOf(Written))) = events
    BY <1>1, <1>2, LogBehind
<1>8. ASSUME Garbage(lines) = {}
      PROVE  /\ SubSeq(Log, PositionAt(from) + 1, Len(Log)) = events
             /\ Marks(file, end) /\ end \in Nat
             /\ Garbage(Lines(SubSeq(file, 1, end))) = {}
             /\ PositionAt(end) = Len(Log)
    <2>1. Garbage(Written) = {} /\ Log = LogOf(Written)
        BY <1>7, <1>8, LogIsLogOf
    <2>2. Written = Lines(SubSeq(file, 1, end))
        BY <1>4 DEF Written
    <2>3. end \in Nat
        BY <1>1, <1>4
    <2> QED
        BY <1>2, <1>3, <1>5, <1>6, <1>7, <2>1, <2>2, <2>3 DEF Stops
<1> QED
    BY <1>2, <1>7, <1>8 DEF before, lines, complete, end

\* What of a read is not about got.
ReadAhead(r, from) ==
    /\ UNCHANGED <<file, writing>>
    /\ \/ UNCHANGED offset
       \/ \E o : /\ offset' = [offset EXCEPT ![r] = o]
                 /\ Marks(file, o) /\ o \in Nat
                 /\ Garbage(Lines(SubSeq(file, 1, o))) = {}

LEMMA ReadAheads ==
    ASSUME IInv, NEW r \in Readers, NEW from \in {0, offset[r]}, ReadFrom(r, from)
    PROVE  ReadAhead(r, from)
<1> DEFINE complete == Complete(SubSeq(file, from + 1, Len(file)))
           lines == Lines(complete)
           end == from + Len(complete)
<1>1. UNCHANGED <<file, writing>>
    BY DEF ReadFrom
<1>2. CASE Garbage(lines) = {}
    <2>1. offset' = [offset EXCEPT ![r] = end]
        BY <1>2 DEF ReadFrom
    <2>2. Marks(file, end) /\ end \in Nat /\ Garbage(Lines(SubSeq(file, 1, end))) = {}
        BY <1>2, ReadsBehind
    <2> HIDE DEF end
    <2> QED
        BY <1>1, <2>1, <2>2 DEF ReadAhead
<1>3. CASE Garbage(lines) # {}
    <2>1. UNCHANGED offset
        BY <1>3 DEF ReadFrom
    <2> QED
        BY <1>1, <2>1 DEF ReadAhead
<1> QED
    BY <1>2, <1>3

-----------------------------------------------------------------------------
(* The invariant holds.                                                    *)

LEMMA InitInv == Init => IInv
<1> SUFFICES ASSUME Init PROVE IInv
    OBVIOUS
<1>1. TypeOK
    BY DEF Init, TypeOK
<1>2. ASSUME NEW r \in Readers PROVE Behind(r)
    <2>1. offset[r] = 0 /\ file \in Seq(Pieces)
        BY <1>1 DEF Init, TypeOK
    <2>2. Marks(file, 0)
        BY <2>1 DEF Marks
    <2>3. Len(Lines(SubSeq(file, 1, 0))) = 0 /\ Lines(SubSeq(file, 1, 0)) \in Seq(Seq(Pieces))
        BY <2>1, <2>2, LinesFrom
    <2>4. DOMAIN Lines(SubSeq(file, 1, 0)) = {}
        BY <2>3
    <2> QED
        BY <2>1, <2>2, <2>4 DEF Behind, Garbage
<1>3. ASSUME NEW w \in Writers PROVE Begun(w)
    BY DEF Init, Begun
<1> QED
    BY <1>1, <1>2, <1>3 DEF IInv

LEMMA WritersKeep ==
    ASSUME IInv, NEW w \in Writers, NEW e \in Events,
           EndLine(w) \/ AppendLine(w, e) \/ BeginLine(w, e) \/ Tear(w, e)
    PROVE  IInv'
<1>1. PICK x \in Pieces : Writes(x)
    BY Writing
<1>2. \A r \in Readers : Behind(r)'
    BY <1>1, WriteKeepsReaders
<1>3. \A v \in Writers : Begun(v)'
    BY WriterKeepsBegun
<1>4. TypeOK
    BY DEF IInv
<1>5. file' \in Seq(Pieces) /\ offset' \in [Readers -> Nat]
    BY <1>1, <1>4 DEF TypeOK, Writes
<1>6. writing' \in [Writers -> Events \cup {None}]
    BY <1>4 DEF TypeOK, EndLine, AppendLine, BeginLine, Tear
<1> QED
    BY <1>2, <1>3, <1>5, <1>6 DEF IInv, TypeOK

LEMMA LeaveKeeps ==
    ASSUME IInv, NEW w \in Writers, LeaveLine(w)
    PROVE  IInv'
<1>1. TypeOK /\ file' = file /\ offset' = offset /\ writing' = [writing EXCEPT ![w] = None]
    BY DEF LeaveLine, IInv
<1>2. TypeOK'
    BY <1>1 DEF TypeOK
<1>3. \A r \in Readers : Behind(r)'
    BY <1>1 DEF IInv, Behind
<1>4. \A v \in Writers : Begun(v)'
    <2>1. \A u \in Writers : writing'[u] = IF u = w THEN None ELSE writing[u]
        BY <1>1 DEF TypeOK
    <2> QED
        BY <1>1, <2>1 DEF IInv, Begun
<1> QED
    BY <1>2, <1>3, <1>4 DEF IInv

LEMMA ReadKeeps ==
    ASSUME IInv, NEW r \in Readers, NEW from \in {0, offset[r]}, ReadFrom(r, from)
    PROVE  IInv'
<1>1. TypeOK /\ ReadAhead(r, from) /\ file' = file /\ writing' = writing
    BY ReadAheads DEF IInv, ReadAhead
<1>2. TypeOK'
    BY <1>1 DEF TypeOK, ReadAhead
<1>3. ASSUME NEW q \in Readers PROVE Behind(q)'
    <2>1. CASE UNCHANGED offset
        BY <1>1, <2>1 DEF IInv, Behind
    <2>2. CASE offset' # offset
        <3>1. PICK o : /\ offset' = [offset EXCEPT ![r] = o]
                       /\ Marks(file, o) /\ Garbage(Lines(SubSeq(file, 1, o))) = {}
            BY <1>1, <2>2 DEF ReadAhead
        <3>2. offset'[q] = o \/ offset'[q] = offset[q]
            BY <1>1, <3>1 DEF TypeOK
        <3> QED
            BY <1>1, <3>1, <3>2 DEF IInv, Behind
    <2> QED
        BY <2>1, <2>2
<1>4. \A v \in Writers : Begun(v)'
    BY <1>1 DEF IInv, Begun
<1> QED
    BY <1>2, <1>3, <1>4 DEF IInv

LEMMA NextInv == IInv /\ [Next]_vars => IInv'
<1> SUFFICES ASSUME IInv, [Next]_vars PROVE IInv'
    OBVIOUS
<1>1. CASE UNCHANGED vars
    BY <1>1 DEF vars, IInv, TypeOK, Behind, Begun
<1>2. ASSUME NEW w \in Writers, EndLine(w) PROVE IInv'
    <2>1. \E e \in Events : TRUE
        BY <1>2 DEF EndLine, IInv, TypeOK
    <2> QED
        BY <1>2, <2>1, WritersKeep
<1>3. ASSUME NEW w \in Writers, NEW e \in Events, AppendLine(w, e) \/ BeginLine(w, e) \/ Tear(w, e)
      PROVE  IInv'
    BY <1>3, WritersKeep
<1> QED
    BY <1>1, <1>2, <1>3, LeaveKeeps, ReadKeeps DEF Next

\* Whoever writes, tears or reads, the invariant holds.
THEOREM Invariant == Spec => []IInv
BY InitInv, NextInv, PTL DEF Spec

-----------------------------------------------------------------------------
(* The file is a log.                                                      *)

\* A write adds an event to the log, breaks it, or is not seen.
LEMMA WriteAdds ==
    ASSUME IInv, NEW x \in Pieces, Writes(x)
    PROVE  \/ \E e \in Events : AsLog!Add(e)
           \/ AsLog!Break
           \/ UNCHANGED AsLog!vars
<1>1. file \in Seq(Pieces) /\ file' = Append(file, x) /\ UNCHANGED <<got, raised>>
    BY DEF IInv, TypeOK, Writes
<1>2. UNCHANGED [r \in Readers |-> Cardinality(Newlines(SubSeq(file, 1, offset[r])))]
    BY WriteKeepsReaders
<1>3. Log = LogOf(Written) /\ Log' = LogOf(Written)'
    BY LogIsLogOf DEF Log, LogOf
<1>4. LogOf(Written)' = LogOf(Written')
    BY DEF LogOf, Garbage, Parses
<1>5. CASE x.part = "head"
    <2>1. Written' = Written
        BY <1>1, <1>5, HeadWaits DEF Written
    <2>2. Log' = Log /\ UNCHANGED (Garbage(Written) # {})
        BY <1>3, <1>4, <2>1
    <2> QED
        BY <1>1, <1>2, <2>2 DEF AsLog!vars
<1>6. CASE x.part # "head"
    <2>1. PICK line : /\ Finishes(file, x, line)
                      /\ Lines(Complete(Append(file, x))) = Append(Lines(Complete(file)), line)
        BY <1>1, <1>6, NewlineFinishes
    <2>2. Written' = Append(Written, line)
        BY <1>1, <2>1 DEF Written
    <2>3. Written \in Seq(Seq(Pieces)) /\ line \in Seq(Pieces)
        <3>1. Complete(file) \in Seq(Pieces)
            BY <1>1, StopExists, CompleteStops
        <3> QED
            BY <2>1, <3>1, LinesAreParts DEF Written, Finishes
    <2>4. /\ Garbage(Written') = {} <=> Garbage(Written) = {} /\ Parses(line)
          /\ LogOf(Written') = IF Garbage(Written') = {}
                               THEN Append(LogOf(Written), line[1].event)
                               ELSE LogOf(Written)
        BY <2>2, <2>3, LogGrows
    <2>5. CASE Garbage(Written) # {}
        <3>1. Log' = Log /\ UNCHANGED (Garbage(Written) # {})
            BY <1>3, <1>4, <2>4, <2>5
        <3> QED
            BY <1>1, <1>2, <3>1 DEF AsLog!vars
    <2>6. CASE Garbage(Written) = {} /\ ~Parses(line)
        <3>1. Log' = Log /\ (Garbage(Written) # {})'
            BY <1>3, <1>4, <2>4, <2>6
        <3>2. AsLog!Break
            BY <1>1, <1>2, <2>6, <3>1 DEF AsLog!Break
        <3> QED
            BY <3>2
    <2>7. CASE Garbage(Written) = {} /\ Parses(line)
        <3> DEFINE e == x.event
        <3>1. e \in Events /\ line[1].event = e
            BY <2>1, <2>7, <1>1, ParsedLine DEF Pieces
        <3>2. Log' = Append(Log, e) /\ UNCHANGED (Garbage(Written) # {})
            BY <1>3, <1>4, <2>4, <2>7, <3>1
        <3>3. PICK c : Stops(file, c)
            BY <1>1, StopExists
        <3>4. /\ Complete(file) \in Seq(Pieces) /\ Len(Complete(file)) = c /\ c \in 0..Len(file)
              /\ \A i \in 1..c : Complete(file)[i] = file[i]
            BY <1>1, <3>3, CompleteStops, PrefixEnds DEF Stops
        <3>5. ASSUME NEW k \in DOMAIN Log PROVE Log[k] # e
            <4>1. k \in 1..Len(Written) /\ Log[k] = Written[k][1].event
                BY <1>3, <2>7 DEF LogOf
            <4>2. PICK i \in 1..Len(Complete(file)) : Written[k][1] = Complete(file)[i]
                BY <3>4, <4>1, LinesAreParts DEF Written
            <4>3. i \in 1..c /\ i \in 1..Len(file) /\ Log[k] = file[i].event
                BY <1>1, <3>4, <4>1, <4>2
            <4>4. CASE \A j \in 1..Len(file) : file[j].event # e
                BY <4>3, <4>4
            <4>5. CASE ~ \A j \in 1..Len(file) : file[j].event # e
                <5>1. /\ x.part = "tail"
                      /\ \A h, j \in 1..Len(file) : file[h].event = e /\ file[j].event = e => h = j
                    BY <4>5 DEF Writes
                <5>2. Len(file) > 0 /\ Stops(file, Len(file) - 1) /\ file[Len(file)].event = e
                    BY <1>1, <2>1, <2>7, <5>1, ParsedLine
                <5>3. c = Len(file) - 1
                    BY <1>1, <3>3, <3>4, <5>2, CompleteStops
                <5>4. Len(file) \in 1..Len(file) /\ i # Len(file)
                    BY <1>1, <4>3, <5>2, <5>3
                <5> QED
                    BY <4>3, <5>1, <5>2, <5>4
            <4> QED
                BY <4>4, <4>5
        <3>6. e \notin AsLog!Range(Log)
            BY <3>5 DEF AsLog!Range
        <3> HIDE DEF e
        <3>7. AsLog!Add(e)
            BY <1>1, <1>2, <2>7, <3>2, <3>6 DEF AsLog!Add
        <3> QED
            BY <3>1, <3>7
    <2> QED
        BY <2>5, <2>6, <2>7
<1> QED
    BY <1>5, <1>6

\* A read is a read of the log, or is refused because the log is broken.
LEMMA ReadReads ==
    ASSUME IInv, NEW r \in Readers, NEW from \in {0, offset[r]}, ReadFrom(r, from)
    PROVE  LET position == [q \in Readers |-> Cardinality(Newlines(SubSeq(file, 1, offset[q])))]
           IN  AsLog!ReadRaises(r) \/ \E begin \in {0, position[r]} : AsLog!Read(r, begin)
<1> DEFINE complete == Complete(SubSeq(file, from + 1, Len(file)))
           lines == Lines(complete)
           events == [k \in DOMAIN lines |-> lines[k][1].event]
           end == from + Len(complete)
           position == [q \in Readers |-> Cardinality(Newlines(SubSeq(file, 1, offset[q])))]
           begin == PositionAt(from)
<1>1. UNCHANGED file /\ UNCHANGED Log /\ UNCHANGED (Garbage(Written) # {})
    BY DEF ReadFrom, Log, Written
<1>2. /\ Garbage(lines) = {} <=> Garbage(Written) = {}
      /\ begin = 0 <=> from = 0
      /\ Garbage(lines) = {} =>
            /\ SubSeq(Log, begin + 1, Len(Log)) = events
            /\ PositionAt(end) = Len(Log)
    BY ReadsBehind
<1>3. CASE Garbage(lines) # {}
    <2>1. raised' = [raised EXCEPT ![r] = TRUE] /\ UNCHANGED <<file, offset, got>>
        BY <1>3 DEF ReadFrom
    <2>2. UNCHANGED position
        BY <2>1
    <2>3. AsLog!ReadRaises(r)
        BY <1>1, <1>2, <1>3, <2>1, <2>2 DEF AsLog!ReadRaises
    <2> QED
        BY <2>3
<1>4. CASE Garbage(lines) = {}
    <2>1. /\ offset' = [offset EXCEPT ![r] = end]
          /\ raised' = [raised EXCEPT ![r] = FALSE]
          /\ got' = [got EXCEPT ![r] = (IF from = 0 THEN <<>> ELSE @)
                                       \o SelectSeq(events, LAMBDA e : Wants(r, e))]
        BY <1>4 DEF ReadFrom
    <2>2. got' = [got EXCEPT ![r] = (IF begin = 0 THEN <<>> ELSE @)
                     \o SelectSeq(SubSeq(Log, begin + 1, Len(Log)), LAMBDA e : Wants(r, e))]
        <3> HIDE DEF events, begin
        <3> QED
            BY <1>2, <1>4, <2>1
    <2>3. position' = [position EXCEPT ![r] = Len(Log)]
        <3> HIDE DEF end
        <3>1. \A q \in Readers : offset'[q] = IF q = r THEN end ELSE offset[q]
            BY <2>1 DEF IInv, TypeOK
        <3>2. \A q \in Readers : position'[q] = IF q = r THEN Len(Log) ELSE position[q]
            BY <1>1, <1>2, <1>4, <3>1 DEF PositionAt
        <3> QED
            BY <3>2
    <2>4. begin \in {0, position[r]}
        BY <1>2 DEF PositionAt
    <2> HIDE DEF begin
    <2>5. AsLog!Read(r, begin)
        BY <1>1, <1>2, <1>4, <2>1, <2>2, <2>3 DEF AsLog!Read
    <2> QED
        BY <2>4, <2>5
<1> QED
    BY <1>3, <1>4

LEMMA LogInit == Init => AsLog!Init
<1> SUFFICES ASSUME Init PROVE AsLog!Init
    OBVIOUS
<1>1. IInv /\ file = <<>> /\ file \in Seq(Pieces)
    BY InitInv DEF Init
<1>2. Newlines(<<>>) = {}
    BY DEF Newlines
<1>3. Complete(file) = <<>>
    BY <1>1, <1>2 DEF Complete
<1>4. Cardinality(Newlines(<<>>)) = 0
    BY <1>2, FS_EmptySet
<1>5. Written \in Seq(Seq(Pieces)) /\ Len(Written) = 0
    BY <1>1, <1>3, <1>4, LinesAreParts DEF Written
<1>6. Garbage(Written) = {}
    BY <1>5 DEF Garbage
<1>7. Log = <<>>
    BY <1>5, <1>6 DEF Log
<1>8. [r \in Readers |-> Cardinality(Newlines(SubSeq(file, 1, offset[r])))] = [r \in Readers |-> 0]
    <2>1. ASSUME NEW r \in Readers PROVE SubSeq(file, 1, offset[r]) = <<>>
        BY <1>1 DEF Init
    <2> QED
        BY <1>4, <2>1
<1> QED
    BY <1>6, <1>7, <1>8 DEF Init, AsLog!Init

LEMMA LogNext == IInv /\ [Next]_vars => [AsLog!Next]_AsLog!vars
<1> SUFFICES ASSUME IInv, [Next]_vars PROVE [AsLog!Next]_AsLog!vars
    OBVIOUS
<1>1. CASE UNCHANGED vars
    <2>1. /\ UNCHANGED <<got, raised>> /\ UNCHANGED Log /\ UNCHANGED (Garbage(Written) # {})
          /\ UNCHANGED [r \in Readers |-> Cardinality(Newlines(SubSeq(file, 1, offset[r])))]
        BY <1>1 DEF vars, Log, Written
    <2> QED
        BY <2>1 DEF AsLog!vars
<1>2. ASSUME NEW w \in Writers, NEW e \in Events,
             EndLine(w) \/ AppendLine(w, e) \/ BeginLine(w, e) \/ Tear(w, e)
      PROVE  [AsLog!Next]_AsLog!vars
    <2>1. \E x \in Pieces : Writes(x)
        BY <1>2, Writing
    <2> QED
        BY <2>1, WriteAdds DEF AsLog!Next
<1>3. ASSUME NEW w \in Writers, EndLine(w) PROVE [AsLog!Next]_AsLog!vars
    <2>1. \E e \in Events : TRUE
        BY <1>3 DEF EndLine, IInv, TypeOK
    <2> QED
        BY <1>2, <1>3, <2>1
<1>4. ASSUME NEW w \in Writers, LeaveLine(w) PROVE [AsLog!Next]_AsLog!vars
    <2>1. /\ UNCHANGED <<got, raised>> /\ UNCHANGED Log /\ UNCHANGED (Garbage(Written) # {})
          /\ UNCHANGED [r \in Readers |-> Cardinality(Newlines(SubSeq(file, 1, offset[r])))]
        BY <1>4 DEF LeaveLine, Log, Written
    <2> QED
        BY <2>1 DEF AsLog!vars
<1>5. ASSUME NEW r \in Readers, NEW from \in {0, offset[r]}, ReadFrom(r, from)
      PROVE  AsLog!Next
    BY <1>5, ReadReads DEF AsLog!Next
<1> QED
    BY <1>1, <1>2, <1>3, <1>4, <1>5 DEF Next

\* While others append, are half through a line, or die there, a reader that
\* goes from offset to offset is given every event once, in order, and no part
\* of one; a line that holds more than an event stops it for good.
THEOREM StreamsImplementLogs == Spec => StreamsAreLogs
<1>1. Init => AsLog!Init
    BY LogInit
<1>2. IInv /\ [Next]_vars => [AsLog!Next]_AsLog!vars
    BY LogNext
<1> QED
    BY <1>1, <1>2, Invariant, PTL DEF Spec, StreamsAreLogs, AsLog!Spec

=============================================================================
