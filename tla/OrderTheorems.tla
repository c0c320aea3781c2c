--------------------------- MODULE OrderTheorems ---------------------------
(***************************************************************************)
(* Facts about Orders and about lists that are walked once, and the two    *)
(* forms of induction these rest on, stated for sets.                      *)
(***************************************************************************)
EXTENDS Orders, Sequences, FiniteSetTheorems, WellFoundedInduction, TLAPS

-----------------------------------------------------------------------------
(* Induction.                                                              *)

\* A set of natural numbers that is not empty has a least member.
LEMMA LeastNatural ==
    ASSUME NEW S \in SUBSET Nat, S # {}
    PROVE  \E m \in S : \A n \in S : m <= n
<1> DEFINE R == {pair \in Nat \X Nat : pair[1] < pair[2]}
<1>1. IsWellFoundedOn(R, Nat)
    BY NatLessThanWellFounded DEF OpToRel
<1>2. \E m \in S : \A n \in S : <<n, m>> \notin R
    <2> HIDE DEF R
    <2> QED
        BY <1>1, WFMin
<1>3. PICK m \in S : \A n \in S : <<n, m>> \notin R
    BY <1>2
<1>4. ASSUME NEW n \in S, n < m PROVE FALSE
    <2>1. <<n, m>> \in R
        BY <1>4
    <2> QED
        BY <1>3, <2>1
<1> QED
    BY <1>4

\* A property that holds of 0 and passes from n to n + 1 holds of every n.
LEMMA InductionOnNat ==
    ASSUME NEW P \in SUBSET Nat, 0 \in P, \A n \in P : n + 1 \in P
    PROVE  P = Nat
<1> SUFFICES ASSUME P # Nat PROVE FALSE
    OBVIOUS
<1>1. PICK m \in Nat \ P : \A n \in Nat \ P : m <= n
    BY LeastNatural
<1>2. m # 0 /\ m - 1 \in P
    BY <1>1
<1> QED
    BY <1>1, <1>2

Minimal(T, family) == T \in family /\ \A U \in family : U \subseteq T => T \subseteq U

\* Among the subsets of a finite set with some property there is one that
\* contains no other.
LEMMA MinimalSubset ==
    ASSUME NEW S, IsFiniteSet(S), NEW Bad, \A T \in Bad : T \subseteq S, Bad # {}
    PROVE  \E T : Minimal(T, Bad)
<1> DEFINE R == StrictSubsetOrdering(S)
           F == FiniteSubsetsOf(S)
<1>1. IsWellFoundedOn(R, F)
    BY FS_StrictSubsetOrderingWellFounded
<1>2. Bad \subseteq F
    BY FS_FiniteSubsetsOfFinite
<1>3. \E T \in Bad : \A U \in Bad : <<U, T>> \notin R
    <2> HIDE DEF R, F
    <2> QED
        BY <1>1, <1>2, WFMin
<1>4. PICK T \in Bad : \A U \in Bad : <<U, T>> \notin R
    BY <1>3
<1>5. ASSUME NEW U \in Bad, U \subseteq T PROVE T \subseteq U
    BY <1>4, <1>5 DEF StrictSubsetOrdering
<1> QED
    BY <1>4, <1>5 DEF Minimal

-----------------------------------------------------------------------------
(* The order of tuples.                                                    *)

\* Of two different tuples of one length, one comes before the other.
LEMMA BeforeTotal ==
    ASSUME NEW n \in Nat, NEW k \in [1..n -> Int], NEW l \in [1..n -> Int], k # l
    PROVE  Before(k, l) \/ Before(l, k)
<1> DEFINE D == {i \in 1..n : k[i] # l[i]}
<1>1. D \in SUBSET Nat /\ D # {}
    OBVIOUS
<1>2. PICK i \in D : \A j \in D : i <= j
    <2> HIDE DEF D
    <2> QED
        BY <1>1, LeastNatural
<1>3. i \in 1..n /\ k[i] # l[i] /\ \A j \in 1..(i - 1) : k[j] = l[j]
    BY <1>2
<1>4. k[i] < l[i] \/ l[i] < k[i]
    BY <1>3
<1> QED
    BY <1>3, <1>4 DEF Before

LEMMA BeforeTransitive ==
    ASSUME NEW n \in Nat, NEW k \in [1..n -> Int], NEW l \in [1..n -> Int],
           NEW m \in [1..n -> Int], Before(k, l), Before(l, m)
    PROVE  Before(k, m)
<1>1. PICK i \in 1..n : k[i] < l[i] /\ \A j \in 1..(i - 1) : k[j] = l[j]
    BY DEF Before
<1>2. PICK h \in 1..n : l[h] < m[h] /\ \A j \in 1..(h - 1) : l[j] = m[j]
    BY DEF Before
<1>3. /\ i \in Int /\ h \in Int
      /\ k[i] \in Int /\ l[i] \in Int /\ m[i] \in Int
      /\ k[h] \in Int /\ l[h] \in Int /\ m[h] \in Int
    OBVIOUS
<1>4. ASSUME NEW p \in 1..n, k[p] < m[p], p <= i, p <= h PROVE Before(k, m)
    <2>1. \A j \in 1..(p - 1) : j \in 1..(i - 1) /\ j \in 1..(h - 1)
        BY <1>3, <1>4
    <2>2. \A j \in 1..(p - 1) : k[j] = m[j]
        BY <1>1, <1>2, <2>1
    <2> QED
        BY <1>4, <2>2 DEF Before
<1>5. CASE i = h
    <2>1. k[i] < m[i]
        BY <1>1, <1>2, <1>3, <1>5
    <2> QED
        BY <1>3, <1>4, <1>5, <2>1
<1>6. CASE i < h
    <2>1. i \in 1..(h - 1)
        BY <1>3, <1>6
    <2>2. k[i] < m[i]
        BY <1>1, <1>2, <2>1
    <2> QED
        BY <1>3, <1>4, <1>6, <2>2
<1>7. CASE h < i
    <2>1. h \in 1..(i - 1)
        BY <1>3, <1>7
    <2>2. k[h] < m[h]
        BY <1>1, <1>2, <2>1
    <2> QED
        BY <1>3, <1>4, <1>7, <2>2
<1> QED
    BY <1>3, <1>5, <1>6, <1>7

LEMMA BeforeIrreflexive ==
    ASSUME NEW n \in Nat, NEW k \in [1..n -> Int]
    PROVE  ~Before(k, k)
BY DEF Before

\* sorted(things, key=...)[0] exists: the members of a finite set have keys, and
\* of one of them the key comes first.
THEOREM FirstExists ==
    ASSUME NEW S, IsFiniteSet(S), S # {}, NEW n \in Nat, NEW key \in [S -> [1..n -> Int]]
    PROVE  \E m \in S : \A x \in S : key[x] = key[m] \/ Before(key[m], key[x])
<1> DEFINE Firsts(U) == {m \in U : \A x \in U : key[x] = key[m] \/ Before(key[m], key[x])}
           Bad == {U \in SUBSET S : U # {} /\ Firsts(U) = {}}
<1> SUFFICES ASSUME Firsts(S) = {} PROVE FALSE
    OBVIOUS
<1>1. (\A T \in Bad : T \subseteq S) /\ Bad # {}
    OBVIOUS
<1>2. PICK T : Minimal(T, Bad)
    <2> HIDE DEF Bad
    <2> QED
        BY <1>1, MinimalSubset
<1> T \subseteq S /\ T # {} /\ Firsts(T) = {} /\ \A U \in Bad : U \subseteq T => T \subseteq U
    BY <1>2 DEF Minimal
<1>3. PICK x \in T : TRUE
    BY <1>2
<1>4. T \ {x} # {}
    BY <1>2, <1>3
<1>5. Firsts(T \ {x}) # {}
    <2>1. T \ {x} \notin Bad
        BY <1>2, <1>3
    <2> QED
        BY <1>2, <1>4, <2>1
<1>6. PICK m \in T \ {x} : \A y \in T \ {x} : key[y] = key[m] \/ Before(key[m], key[y])
    BY <1>5
<1>7. key[x] \in [1..n -> Int] /\ key[m] \in [1..n -> Int]
    BY <1>2, <1>3, <1>6
<1>8. CASE key[x] = key[m] \/ Before(key[m], key[x])
    BY <1>2, <1>6, <1>8
<1>9. CASE Before(key[x], key[m])
    <2>1. \A y \in T \ {x} : Before(key[x], key[y])
        BY <1>2, <1>6, <1>7, <1>9, BeforeTransitive
    <2> QED
        BY <1>2, <1>3, <2>1
<1> QED
    BY <1>7, <1>8, <1>9, BeforeTotal

-----------------------------------------------------------------------------
(* Sorted lists.                                                           *)

LEMMA GreatestExists ==
    ASSUME NEW S \in SUBSET Int, IsFiniteSet(S), S # {}
    PROVE  \E m \in S : \A x \in S : x <= m
<1> DEFINE key == [x \in S |-> [i \in 1..1 |-> 0 - x]]
<1>1. key \in [S -> [1..1 -> Int]]
    OBVIOUS
<1>2. PICK m \in S : \A x \in S : key[x] = key[m] \/ Before(key[m], key[x])
    <2> HIDE DEF key
    <2> QED
        BY <1>1, FirstExists
<1>3. \A x \in S : key[x] \in [1..1 -> Int] /\ key[x][1] = 0 - x
    OBVIOUS
<1>4. ASSUME NEW x \in S PROVE x <= m
    <2> HIDE DEF key
    <2>1. CASE key[x] = key[m]
        <3>1. key[x][1] = key[m][1]
            BY <2>1
        <3>2. 0 - x = 0 - m
            BY <1>3, <3>1
        <3> QED
            BY <3>2
    <2>2. CASE Before(key[m], key[x])
        <3>1. PICK i \in DOMAIN key[m] : key[m][i] < key[x][i]
            BY <2>2 DEF Before
        <3>2. i = 1
            BY <1>3, <3>1
        <3> QED
            BY <1>3, <3>1, <3>2
    <2> QED
        BY <1>2, <2>1, <2>2
<1> QED
    BY <1>4

Sorts(s, T) ==
    /\ s \in [1..Cardinality(T) -> T]
    /\ \A i, j \in 1..Cardinality(T) : i < j => s[i] < s[j]

\* A list with one more number, greater than those of the list.
LEMMA SortedAppend ==
    ASSUME NEW T \in SUBSET Int, IsFiniteSet(T), NEW s, Sorts(s, T),
           NEW m \in Int, \A x \in T : x < m
    PROVE  \E t : Sorts(t, T \cup {m})
<1> DEFINE n == Cardinality(T)
           t == [i \in 1..(n + 1) |-> IF i = n + 1 THEN m ELSE s[i]]
<1>1. n \in Nat
    BY FS_CardinalityType
<1>2. m \notin T
    OBVIOUS
<1>3. Cardinality(T \cup {m}) = n + 1
    BY <1>2, FS_AddElement
<1>4. t \in [1..(n + 1) -> T \cup {m}]
    BY <1>1 DEF Sorts
<1>5. ASSUME NEW i \in 1..(n + 1), NEW j \in 1..(n + 1), i < j PROVE t[i] < t[j]
    <2>1. i \in 1..n /\ t[i] = s[i] /\ s[i] \in T
        BY <1>1, <1>5 DEF Sorts
    <2>2. CASE j = n + 1
        BY <2>1, <2>2
    <2>3. CASE j # n + 1
        <3>1. j \in 1..n
            BY <1>1, <2>3
        <3>2. t[j] = s[j]
            BY <2>3
        <3> QED
            BY <1>5, <2>1, <3>1, <3>2 DEF Sorts
    <2> QED
        BY <2>2, <2>3
<1> QED
    BY <1>3, <1>4, <1>5 DEF Sorts

LEMMA SortsExist ==
    ASSUME NEW S \in SUBSET Int, IsFiniteSet(S)
    PROVE  \E s : Sorts(s, S)
<1> DEFINE Bad == {U \in SUBSET S : ~ \E s : Sorts(s, U)}
<1> SUFFICES ASSUME ~ \E s : Sorts(s, S) PROVE FALSE
    OBVIOUS
<1>1. (\A T \in Bad : T \subseteq S) /\ Bad # {}
    OBVIOUS
<1>2. PICK T : Minimal(T, Bad)
    <2> HIDE DEF Bad
    <2> QED
        BY <1>1, MinimalSubset
<1>3. /\ T \in SUBSET Int /\ T \subseteq S
      /\ ~ \E s : Sorts(s, T)
      /\ \A U \in SUBSET T : (\E s : Sorts(s, U)) \/ T \subseteq U
    BY <1>2 DEF Minimal
<1>4. IsFiniteSet(T)
    BY <1>3, FS_Subset
<1>5. T # {}
    <2>1. Sorts(<<>>, {})
        BY FS_EmptySet DEF Sorts
    <2> QED
        BY <1>3, <2>1
<1>6. PICK m \in T : \A x \in T : x <= m
    BY <1>3, <1>4, <1>5, GreatestExists
<1> DEFINE U == T \ {m}
<1>7. U \in SUBSET Int /\ IsFiniteSet(U) /\ \A x \in U : x < m
    BY <1>3, <1>4, <1>6, FS_RemoveElement
<1>8. PICK s : Sorts(s, U)
    BY <1>3, <1>6
<1>9. \E t : Sorts(t, U \cup {m})
    <2> HIDE DEF U
    <2> QED
        BY <1>3, <1>6, <1>7, <1>8, SortedAppend
<1>10. U \cup {m} = T
    BY <1>6
<1> QED
    BY <1>3, <1>9, <1>10

\* A sorted list has every member of the set, once.
LEMMA SortsAll ==
    ASSUME NEW S \in SUBSET Int, IsFiniteSet(S), NEW s, Sorts(s, S)
    PROVE  /\ \A i, j \in 1..Cardinality(S) : s[i] = s[j] => i = j
           /\ \A x \in S : \E i \in 1..Cardinality(S) : s[i] = x
<1> DEFINE n == Cardinality(S)
<1>1. n \in Nat
    BY FS_CardinalityType
<1>3. s \in [1..n -> S] /\ \A i, j \in 1..n : i < j => s[i] < s[j]
    BY DEF Sorts
<1>4. ASSUME NEW i \in 1..n, NEW j \in 1..n, s[i] = s[j] PROVE i = j
    <2>1. s[i] \in S
        BY <1>3
    <2>2. ~(s[i] < s[j]) /\ ~(s[j] < s[i])
        <3>1. \A x \in S : ~(x < x)
            OBVIOUS
        <3> QED
            BY <1>4, <2>1, <3>1
    <2>3. ~(i < j) /\ ~(j < i)
        BY <1>3, <2>2
    <2> QED
        BY <1>1, <2>3
<1>5. s \in Injection(1..n, S)
    BY <1>3, <1>4 DEF Injection, IsInjective
<1>6. Cardinality(1..n) = n
    BY <1>1, FS_Interval
<1>7. s \in Surjection(1..n, S)
    BY <1>5, <1>6, FS_Injection
<1>8. \A x \in S : \E i \in 1..n : s[i] = x
    BY <1>7 DEF Surjection
<1> QED
    BY <1>4, <1>8

\* The k-th of a sorted list has k members of the set up to it.
LEMMA SortsRank ==
    ASSUME NEW S \in SUBSET Int, IsFiniteSet(S), NEW s, Sorts(s, S),
           NEW k \in 1..Cardinality(S)
    PROVE  Cardinality({y \in S : y <= s[k]}) = k
<1> DEFINE n == Cardinality(S)
           upto == {y \in S : y <= s[k]}
           t == [i \in 1..k |-> s[i]]
<1>1. n \in Nat /\ k \in Nat /\ 1..k \subseteq 1..n
    BY FS_CardinalityType
<1>2. s \in [1..n -> S] /\ \A i, j \in 1..n : i < j => s[i] < s[j]
    BY DEF Sorts
<1>3. \A i \in 1..k : s[i] \in upto
    <2>1. ASSUME NEW i \in 1..k PROVE s[i] <= s[k]
        <3>1. i \in 1..n /\ s[i] \in Int /\ s[k] \in Int
            BY <1>1, <1>2
        <3>2. CASE i = k
            BY <3>1, <3>2
        <3>3. CASE i < k
            BY <1>2, <3>1, <3>3
        <3> QED
            BY <3>2, <3>3
    <2> QED
        BY <1>1, <1>2, <2>1
<1>4. \A y \in upto : \E i \in 1..k : s[i] = y
    <2> SUFFICES ASSUME NEW y \in S, y <= s[k] PROVE \E i \in 1..k : s[i] = y
        OBVIOUS
    <2>1. PICK i \in 1..n : s[i] = y
        BY SortsAll
    <2>2. ~(k < i)
        <3>1. y \in Int /\ s[k] \in Int
            BY <1>2
        <3> QED
            BY <1>2, <2>1, <3>1
    <2> QED
        BY <1>1, <2>1, <2>2
<1>5. \A i, j \in 1..k : s[i] = s[j] => i = j
    BY <1>1, SortsAll
<1> HIDE DEF upto
<1>6. t \in Bijection(1..k, upto)
    BY <1>3, <1>4, <1>5 DEF Bijection, Injection, IsInjective, Surjection
<1>7. IsFiniteSet(1..k) /\ Cardinality(1..k) = k
    BY <1>1, FS_Interval
<1>8. ExistsBijection(1..k, upto)
    BY <1>6 DEF ExistsBijection
<1>9. Cardinality(upto) = k
    BY <1>7, <1>8, FS_Bijection
<1> QED
    BY <1>9 DEF upto

\* There is one sorted list of a set.
LEMMA SortedIsTheOne ==
    ASSUME NEW S \in SUBSET Int, IsFiniteSet(S), NEW s, Sorts(s, S)
    PROVE  Sorted(S) = s /\ Len(Sorted(S)) = Cardinality(S)
<1> DEFINE n == Cardinality(S)
           Rank(x) == Cardinality({y \in S : y <= x})
<1>1. n \in Nat
    BY FS_CardinalityType
<1>3. s \in [1..n -> S] /\ \A i, j \in 1..n : i < j => s[i] < s[j]
    BY DEF Sorts
<1>4. \A x \in S : \E i \in 1..n : s[i] = x
    BY SortsAll
<1>5. \A k \in 1..n : Rank(s[k]) = k
    BY SortsRank
<1> HIDE DEF Rank
<1>6. ASSUME NEW k \in 1..n PROVE (CHOOSE x \in S : Rank(x) = k) = s[k]
    <2>1. ASSUME NEW x \in S, Rank(x) = k PROVE x = s[k]
        <3>1. PICK i \in 1..n : s[i] = x
            BY <1>4
        <3> QED
            BY <1>5, <2>1, <3>1
    <2>2. s[k] \in S /\ Rank(s[k]) = k
        BY <1>3, <1>5
    <2> QED
        BY <2>1, <2>2
<1>7. Sorted(S) = [k \in 1..n |-> CHOOSE x \in S : Rank(x) = k]
    BY DEF Sorted, Rank
<1>8. Sorted(S) = s
    BY <1>3, <1>6, <1>7
<1>9. Len(s) = n
    BY <1>1, <1>3
<1> QED
    BY <1>8, <1>9

\* sorted() lists every member of a set, once, and nothing else.
THEOREM SortedLists ==
    ASSUME NEW S \in SUBSET Int, IsFiniteSet(S)
    PROVE  /\ Sorted(S) \in Seq(S) /\ Len(Sorted(S)) = Cardinality(S)
           /\ \A i, j \in DOMAIN Sorted(S) : i < j => Sorted(S)[i] < Sorted(S)[j]
           /\ \A x \in S : \E i \in DOMAIN Sorted(S) : Sorted(S)[i] = x
<1> DEFINE n == Cardinality(S)
<1>1. n \in Nat
    BY FS_CardinalityType
<1>2. PICK s : Sorts(s, S)
    BY SortsExist
<1>3. s \in [1..n -> S] /\ \A i, j \in 1..n : i < j => s[i] < s[j]
    BY <1>2 DEF Sorts
<1>4. \A x \in S : \E i \in 1..n : s[i] = x
    BY <1>2, SortsAll
<1>5. Sorted(S) = s
    BY <1>2, SortedIsTheOne
<1>6. s \in Seq(S) /\ Len(s) = n /\ DOMAIN s = 1..n
    BY <1>1, <1>3
<1> QED
    BY <1>3, <1>4, <1>5, <1>6

\* Any list that is in order and has all of the set is the sorted one.
LEMMA SortsCounts ==
    ASSUME NEW S \in SUBSET Int, NEW n \in Nat, NEW s \in [1..n -> S],
           \A i, j \in 1..n : i < j => s[i] < s[j],
           \A x \in S : \E i \in 1..n : s[i] = x
    PROVE  Cardinality(S) = n /\ IsFiniteSet(S) /\ Sorts(s, S)
<1>1. ASSUME NEW i \in 1..n, NEW j \in 1..n, s[i] = s[j] PROVE i = j
    <2>1. \A x \in Int : ~(x < x)
        OBVIOUS
    <2>2. s[i] \in Int
        OBVIOUS
    <2>3. ~(s[i] < s[j]) /\ ~(s[j] < s[i])
        BY <1>1, <2>1, <2>2
    <2>4. ~(i < j) /\ ~(j < i)
        BY <2>3
    <2> QED
        BY <2>4
<1>2. s \in Bijection(1..n, S)
    BY <1>1 DEF Bijection, Injection, IsInjective, Surjection
<1>3. IsFiniteSet(1..n) /\ Cardinality(1..n) = n
    BY FS_Interval
<1>4. ExistsBijection(1..n, S)
    BY <1>2 DEF ExistsBijection
<1>5. Cardinality(S) = n /\ IsFiniteSet(S)
    BY <1>3, <1>4, FS_Bijection
<1> QED
    BY <1>5 DEF Sorts

\* One sorted list after another, all of whose numbers are greater.
After(s, m, t, n, d) == [k \in 1..(m + n) |-> IF k <= m THEN s[k] ELSE d + t[k - m]]

\* U is S with T behind it, T moved by d.
Joins(U, S, T, d) ==
    /\ \A x \in S, y \in T : x < d + y
    /\ \A u \in Int : u \in U <=> u \in S \/ u - d \in T

LEMMA SortsAfter ==
    ASSUME NEW S \in SUBSET Int, IsFiniteSet(S), NEW s, Sorts(s, S),
           NEW T \in SUBSET Int, IsFiniteSet(T), NEW t, Sorts(t, T),
           NEW d \in Int, NEW U \in SUBSET Int, Joins(U, S, T, d)
    PROVE  LET m == Cardinality(S)
               n == Cardinality(T)
           IN  /\ Cardinality(U) = m + n /\ IsFiniteSet(U)
               /\ Sorts(After(s, m, t, n, d), U)
<1> DEFINE m == Cardinality(S)
           n == Cardinality(T)
           a == After(s, m, t, n, d)
<1>0. /\ \A x \in S, y \in T : x < d + y
      /\ \A u \in Int : u \in U <=> u \in S \/ u - d \in T
    BY DEF Joins
<1>1. m \in Nat /\ n \in Nat /\ m + n \in Nat
    BY FS_CardinalityType
<1>2. s \in [1..m -> S] /\ \A i, j \in 1..m : i < j => s[i] < s[j]
    BY DEF Sorts
<1>3. t \in [1..n -> T] /\ \A i, j \in 1..n : i < j => t[i] < t[j]
    BY DEF Sorts
<1> HIDE DEF m, n
<1>4. \A k \in 1..m : k \in 1..(m + n) /\ a[k] = s[k] /\ s[k] \in S /\ s[k] \in Int
    <2> SUFFICES ASSUME NEW k \in 1..m
                 PROVE  k \in 1..(m + n) /\ a[k] = s[k] /\ s[k] \in S /\ s[k] \in Int
        OBVIOUS
    <2>1. k \in 1..(m + n) /\ k <= m
        BY <1>1
    <2>2. s[k] \in S
        BY <1>2
    <2> QED
        BY <2>1, <2>2 DEF After
<1>5. \A k \in 1..(m + n) : k > m => /\ k - m \in 1..n /\ a[k] = d + t[k - m]
                                    /\ t[k - m] \in T /\ t[k - m] \in Int
    <2> SUFFICES ASSUME NEW k \in 1..(m + n), k > m
                 PROVE  /\ k - m \in 1..n /\ a[k] = d + t[k - m]
                        /\ t[k - m] \in T /\ t[k - m] \in Int
        OBVIOUS
    <2>1. k - m \in 1..n /\ ~(k <= m)
        BY <1>1
    <2>2. t[k - m] \in T
        BY <1>3, <2>1
    <2> QED
        BY <2>1, <2>2 DEF After
<1>6. \A k \in 1..(m + n) : k \in 1..m \/ k > m
    BY <1>1
<1> HIDE DEF a
<1>7. ASSUME NEW k \in 1..(m + n) PROVE a[k] \in U
    <2>1. CASE k \in 1..m
        BY <1>0, <1>4, <2>1
    <2>2. CASE k > m
        <3>1. a[k] \in Int /\ a[k] - d = t[k - m]
            BY <1>5, <2>2
        <3> QED
            BY <1>0, <1>5, <2>2, <3>1
    <2> QED
        BY <1>6, <2>1, <2>2
<1>8. ASSUME NEW i \in 1..(m + n), NEW j \in 1..(m + n), i < j PROVE a[i] < a[j]
    <2>1. CASE i \in 1..m /\ j \in 1..m
        BY <1>2, <1>4, <1>8, <2>1
    <2>2. CASE i \in 1..m /\ j > m
        BY <1>0, <1>4, <1>5, <2>2
    <2>3. CASE i > m /\ j > m
        <3>1. i - m < j - m
            BY <1>1, <1>8
        <3>2. t[i - m] < t[j - m]
            BY <1>3, <1>5, <2>3, <3>1
        <3> QED
            BY <1>5, <2>3, <3>2
    <2> QED
        BY <1>1, <1>6, <1>8, <2>1, <2>2, <2>3
<1>9. ASSUME NEW u \in U PROVE \E i \in 1..(m + n) : a[i] = u
    <2>1. CASE u \in S
        <3>1. PICK i \in 1..m : s[i] = u
            BY <2>1, SortsAll DEF m
        <3> QED
            BY <1>4, <3>1
    <2>2. CASE u - d \in T
        <3>1. PICK i \in 1..n : t[i] = u - d
            BY <2>2, SortsAll DEF n
        <3>2. m + i \in 1..(m + n) /\ m + i > m /\ (m + i) - m = i
            BY <1>1
        <3>3. a[m + i] = d + (u - d)
            BY <1>5, <3>1, <3>2
        <3>4. d + (u - d) = u
            OBVIOUS
        <3> QED
            BY <3>2, <3>3, <3>4
    <2> QED
        BY <1>0, <2>1, <2>2
<1>10. a \in [1..(m + n) -> U]
    <2>1. a = [k \in 1..(m + n) |-> a[k]]
        BY DEF a, After
    <2> QED
        BY <1>7, <2>1
<1>11. Cardinality(U) = m + n /\ IsFiniteSet(U) /\ Sorts(a, U)
    BY <1>1, <1>8, <1>9, <1>10, SortsCounts
<1> QED
    BY <1>11 DEF a, m, n
-----------------------------------------------------------------------------
(* A list walked from its first member to its last, keeping some of them.  *)

\* Numbers that follow each other without a gap follow each other in the list.
LEMMA ListedNext ==
    ASSUME NEW S \in SUBSET Int, IsFiniteSet(S), NEW s, Sorts(s, S),
           NEW b \in 1..Cardinality(S), s[b] + 1 \in S
    PROVE  b + 1 \in 1..Cardinality(S) /\ s[b + 1] = s[b] + 1
<1> DEFINE n == Cardinality(S)
<1>1. n \in Nat
    BY FS_CardinalityType
<1>2. s \in [1..n -> S] /\ \A i, j \in 1..n : i < j => s[i] < s[j]
    BY DEF Sorts
<1>3. PICK c \in 1..n : s[c] = s[b] + 1
    BY SortsAll
<1>4. s[b] \in Int
    BY <1>2
<1>5. ~(c < b)
    <2>1. c < b => s[c] < s[b]
        BY <1>2
    <2> QED
        BY <1>3, <1>4, <2>1
<1>6. c # b
    BY <1>3, <1>4
<1>7. b + 1 \in 1..n /\ (c = b + 1 \/ b + 1 < c)
    BY <1>1, <1>5, <1>6
<1>8. ~(b + 1 < c)
    <2> SUFFICES ASSUME b + 1 < c PROVE FALSE
        OBVIOUS
    <2>1. s[b] < s[b + 1] /\ s[b + 1] < s[c]
        BY <1>1, <1>2, <1>7
    <2>2. s[b + 1] \in Int
        BY <1>2, <1>7
    <2> QED
        BY <1>3, <1>4, <2>1, <2>2
<1> QED
    BY <1>3, <1>7, <1>8

\* The same for a run of m numbers.
LEMMA ListedRun ==
    ASSUME NEW S \in SUBSET Int, IsFiniteSet(S), NEW s, Sorts(s, S),
           NEW b \in 1..Cardinality(S), NEW m \in Nat, \A k \in 1..m : s[b] + k \in S
    PROVE  \A k \in 0..m : b + k \in 1..Cardinality(S) /\ s[b + k] = s[b] + k
<1> DEFINE n == Cardinality(S)
           P == {k \in Nat : k <= m => b + k \in 1..n /\ s[b + k] = s[b] + k}
<1>1. n \in Nat /\ s[b] \in Int
    BY FS_CardinalityType DEF Sorts
<1>2. 0 \in P
    BY <1>1
<1>3. ASSUME NEW k \in P PROVE k + 1 \in P
    <2> SUFFICES ASSUME k + 1 <= m
                 PROVE  b + (k + 1) \in 1..n /\ s[b + (k + 1)] = s[b] + (k + 1)
        OBVIOUS
    <2>1. b + k \in 1..n /\ s[b + k] = s[b] + k
        OBVIOUS
    <2>2. s[b + k] + 1 \in S
        <3>1. s[b] + (k + 1) \in S /\ (s[b] + k) + 1 = s[b] + (k + 1)
            BY <1>1
        <3> QED
            BY <2>1, <3>1
    <2>3. (b + k) + 1 \in 1..n /\ s[(b + k) + 1] = s[b + k] + 1
        <3> HIDE DEF P
        <3> QED
            BY <2>1, <2>2, ListedNext
    <2> QED
        BY <1>1, <2>1, <2>3
<1>4. P = Nat
    <2> HIDE DEF P
    <2>1. P \in SUBSET Nat
        BY DEF P
    <2> QED
        BY <1>2, <1>3, <2>1, InductionOnNat
<1>5. \A k \in Nat : k \in P
    <2> HIDE DEF P
    <2> QED
        BY <1>4
<1> QED
    BY <1>5

\* The members that stay, in the order of the list they come from.
Picks(t, w, K) ==
    \E s : Sorts(s, K) /\ t = [k \in 1..Cardinality(K) |-> w[s[k]]]

\* A function on 1..n is a list of length n.
LEMMA FunctionIsSeq ==
    ASSUME NEW n \in Nat, NEW T, NEW q \in [1..n -> T]
    PROVE  q \in Seq(T) /\ Len(q) = n
OBVIOUS

\* The places of a list form a finite set of numbers.
LEMMA PlacesAreFinite ==
    ASSUME NEW n \in Nat, NEW K \in SUBSET (1..n)
    PROVE  IsFiniteSet(K) /\ K \in SUBSET Int
<1>1. IsFiniteSet(1..n)
    BY FS_Interval
<1>2. IsFiniteSet(K)
    BY <1>1, FS_Subset
<1> QED
    BY <1>2

\* What stays of the first i members of a list, s sorting the places that stay.
Prefix(w, s, K, i) == [k \in 1..Cardinality({y \in K : y <= i}) |-> w[s[k]]]

\* One place more adds its member if it stays.
Accumulates(w, s, K, n) ==
    /\ Prefix(w, s, K, 0) = <<>>
    /\ \A i \in 0..(n - 1) :
          Prefix(w, s, K, i + 1) = IF i + 1 \in K THEN Append(Prefix(w, s, K, i), w[i + 1])
                                   ELSE Prefix(w, s, K, i)
    /\ Prefix(w, s, K, n) = [k \in 1..Cardinality(K) |-> w[s[k]]]

LEMMA PrefixAccumulates ==
    ASSUME NEW n \in Nat, NEW T, NEW w \in [1..n -> T], NEW K \in SUBSET (1..n),
           NEW s, Sorts(s, K)
    PROVE  Accumulates(w, s, K, n)
<1> DEFINE UpTo(i) == {y \in K : y <= i}
           c(i) == Cardinality(UpTo(i))
           N == Cardinality(K)
<1>0. \A y \in K : y \in Int /\ 1 <= y /\ y <= n
    OBVIOUS
<1>1. IsFiniteSet(K) /\ K \in SUBSET Int
    <2>1. IsFiniteSet(1..n)
        BY FS_Interval
    <2> QED
        BY <1>0, <2>1, FS_Subset
<1>3. N \in Nat /\ s \in [1..N -> K] /\ (\A k \in 1..N : c(s[k]) = k)
      /\ \A x \in K : \E k \in 1..N : s[k] = x
    BY <1>1, FS_CardinalityType, SortsRank, SortsAll DEF Sorts
<1>4. \A i \in Nat : IsFiniteSet(UpTo(i)) /\ c(i) \in Nat /\ c(i) <= N
    <2> SUFFICES ASSUME NEW i \in Nat PROVE IsFiniteSet(UpTo(i)) /\ c(i) \in Nat /\ c(i) <= N
        OBVIOUS
    <2>1. UpTo(i) \in SUBSET K
        OBVIOUS
    <2> HIDE DEF UpTo
    <2> QED
        BY <1>1, <2>1, FS_Subset, FS_CardinalityType
<1> DEFINE g(i) == [k \in 1..c(i) |-> w[s[k]]]
<1>5. g(0) = <<>>
    <2>1. UpTo(0) = {}
        <3>1. \A y \in K : ~(y <= 0)
            BY <1>0
        <3> QED
            BY <3>1
    <2>2. c(0) = 0
        BY <2>1, FS_EmptySet
    <2> HIDE DEF c
    <2> QED
        BY <2>2
<1>6. ASSUME NEW i \in 0..(n - 1)
      PROVE  g(i + 1) = IF i + 1 \in K THEN Append(g(i), w[i + 1]) ELSE g(i)
    <2>1. i \in Nat /\ i + 1 <= n
        OBVIOUS
    <2>3. CASE i + 1 \notin K
        <3>1. \A y \in K : y <= i + 1 <=> y <= i
            BY <1>0, <2>1, <2>3
        <3>2. UpTo(i + 1) = UpTo(i)
            BY <3>1
        <3>3. g(i + 1) = g(i)
            BY <3>2
        <3> QED
            BY <2>3, <3>3
    <2>4. CASE i + 1 \in K
        <3>1. UpTo(i + 1) = UpTo(i) \cup {i + 1} /\ i + 1 \notin UpTo(i)
            <4>1. \A y \in K : y <= i + 1 <=> y <= i \/ y = i + 1
                BY <1>0, <2>1
            <4>2. \A y : y \in UpTo(i + 1) <=> y \in UpTo(i) \/ y = i + 1
                BY <2>4, <4>1
            <4>3. ~(i + 1 <= i)
                BY <2>1
            <4> QED
                BY <4>2, <4>3
        <3>2. c(i + 1) = c(i) + 1
            <4> HIDE DEF UpTo
            <4> QED
                BY <1>4, <2>1, <3>1, FS_AddElement
        <3>3. PICK k \in 1..N : s[k] = i + 1
            BY <1>3, <2>4
        <3>4. k = c(i + 1)
            <4>1. c(s[k]) = k
                BY <1>3
            <4> QED
                BY <3>3, <4>1
        <3> HIDE DEF c, UpTo
        <3>5. c(i) \in Nat /\ k = c(i) + 1
            BY <1>4, <2>1, <3>2, <3>4
        <3>6. g(i) \in Seq(T) /\ Len(g(i)) = c(i)
            <4>1. \A l \in 1..c(i) : w[s[l]] \in T
                <5> SUFFICES ASSUME NEW l \in 1..c(i) PROVE w[s[l]] \in T
                    OBVIOUS
                <5>1. l \in 1..N
                    BY <1>3, <1>4, <2>1
                <5>2. s[l] \in 1..n
                    BY <1>3, <5>1
                <5> QED
                    BY <5>2
            <4>2. g(i) \in [1..c(i) -> T]
                BY <4>1
            <4>3. [l \in 1..c(i) |-> w[s[l]]] \in Seq(T)
                BY <3>5, <4>2, FunctionIsSeq
            <4>4. Len(g(i)) = c(i)
                BY <3>5, <4>2, FunctionIsSeq
            <4> QED
                BY <4>3, <4>4
        <3>7. Append(g(i), w[i + 1]) = g(i + 1)
            <4>1. w[i + 1] \in T /\ w[i + 1] = w[s[k]]
                BY <2>1, <3>3
            <4>2. /\ Append(g(i), w[i + 1]) \in Seq(T)
                  /\ Len(Append(g(i), w[i + 1])) = c(i) + 1
                  /\ \A l \in 1..(c(i) + 1) :
                        Append(g(i), w[i + 1])[l] = IF l <= c(i) THEN g(i)[l] ELSE w[i + 1]
                <5> HIDE DEF g
                <5> QED
                    BY <3>5, <3>6, <4>1
            <4>3. \A l \in 1..(c(i) + 1) : Append(g(i), w[i + 1])[l] = w[s[l]]
                <5> SUFFICES ASSUME NEW l \in 1..(c(i) + 1)
                             PROVE  Append(g(i), w[i + 1])[l] = w[s[l]]
                    OBVIOUS
                <5>1. CASE l <= c(i)
                    <6>1. l \in 1..c(i)
                        BY <3>5, <5>1
                    <6> QED
                        BY <4>2, <5>1, <6>1
                <5>2. CASE ~(l <= c(i))
                    <6>1. l = k
                        BY <3>5, <5>2
                    <6> QED
                        BY <4>1, <4>2, <5>2, <6>1
                <5> QED
                    BY <5>1, <5>2
            <4>4. Append(g(i), w[i + 1]) =
                     [l \in 1..(c(i) + 1) |-> Append(g(i), w[i + 1])[l]]
                <5> DEFINE q == Append(g(i), w[i + 1])
                <5>1. q \in Seq(T) /\ Len(q) = c(i) + 1
                    BY <4>2
                <5>2. q = [l \in 1..(c(i) + 1) |-> q[l]]
                    <6> HIDE DEF q
                    <6> QED
                        BY <3>5, <5>1
                <5> QED
                    BY <5>2
            <4> QED
                BY <3>2, <4>3, <4>4
        <3> QED
            BY <2>4, <3>7
    <2> QED
        BY <2>3, <2>4
<1>8. UpTo(n) = K
    BY <1>0
<1>9. g(n) = [k \in 1..N |-> w[s[k]]]
    BY <1>8
<1>10. \A i : Prefix(w, s, K, i) = g(i)
    BY DEF Prefix
<1> HIDE DEF g
<1> QED
    BY <1>5, <1>6, <1>9, <1>10 DEF Accumulates

\* The recursion that walks a list and appends what stays.
Walks(f, w, K, n) ==
    f = [i \in 0..n |-> IF i = 0 THEN <<>>
                        ELSE IF i \in K THEN Append(f[i - 1], w[i]) ELSE f[i - 1]]

LEMMA WalkExists ==
    ASSUME NEW n \in Nat, NEW T, NEW w \in [1..n -> T], NEW K \in SUBSET (1..n)
    PROVE  \E f : Walks(f, w, K, n)
<1>1. IsFiniteSet(K) /\ K \in SUBSET Int
    BY PlacesAreFinite
<1>2. PICK s : Sorts(s, K)
    BY <1>1, SortsExist
<1>3. Accumulates(w, s, K, n)
    BY <1>2, PrefixAccumulates
<1> DEFINE f == [i \in 0..n |-> Prefix(w, s, K, i)]
<1>4. \A i \in 0..n : f[i] = IF i = 0 THEN <<>>
                             ELSE IF i \in K THEN Append(f[i - 1], w[i]) ELSE f[i - 1]
    <2> SUFFICES ASSUME NEW i \in 0..n
                 PROVE  f[i] = IF i = 0 THEN <<>>
                               ELSE IF i \in K THEN Append(f[i - 1], w[i]) ELSE f[i - 1]
        OBVIOUS
    <2>1. CASE i = 0
        BY <1>3, <2>1 DEF Accumulates
    <2>2. CASE i # 0
        <3>1. i - 1 \in 0..(n - 1) /\ i - 1 \in 0..n /\ (i - 1) + 1 = i
            BY <2>2
        <3>2. Prefix(w, s, K, (i - 1) + 1) =
                 IF (i - 1) + 1 \in K THEN Append(Prefix(w, s, K, i - 1), w[(i - 1) + 1])
                 ELSE Prefix(w, s, K, i - 1)
            BY <1>3, <3>1 DEF Accumulates
        <3>3. f[i] = Prefix(w, s, K, i) /\ f[i - 1] = Prefix(w, s, K, i - 1)
            BY <3>1
        <3> HIDE DEF f
        <3> QED
            BY <2>2, <3>1, <3>2, <3>3
    <2> QED
        BY <2>1, <2>2
<1>5. Walks(f, w, K, n)
    <2>1. f = [i \in 0..n |-> f[i]]
        OBVIOUS
    <2> HIDE DEF f
    <2> QED
        BY <1>4, <2>1 DEF Walks
<1> QED
    BY <1>5

LEMMA WalkPicks ==
    ASSUME NEW n \in Nat, NEW T, NEW w \in [1..n -> T], NEW K \in SUBSET (1..n),
           NEW f, Walks(f, w, K, n)
    PROVE  Picks(f[n], w, K)
<1>1. IsFiniteSet(K) /\ K \in SUBSET Int
    BY PlacesAreFinite
<1>2. PICK s : Sorts(s, K)
    BY <1>1, SortsExist
<1>3. Accumulates(w, s, K, n)
    BY <1>2, PrefixAccumulates
<1> DEFINE P == {i \in Nat : i <= n => f[i] = Prefix(w, s, K, i)}
<1>4. 0 \in P
    BY <1>3 DEF Accumulates, Walks
<1>5. ASSUME NEW i \in P PROVE i + 1 \in P
    <2> SUFFICES ASSUME i + 1 <= n PROVE f[i + 1] = Prefix(w, s, K, i + 1)
        OBVIOUS
    <2>1. f[i] = Prefix(w, s, K, i) /\ i \in 0..(n - 1)
        OBVIOUS
    <2>2. i + 1 \in 0..n /\ i + 1 # 0 /\ (i + 1) - 1 = i
        OBVIOUS
    <2>3. f[i + 1] = IF i + 1 \in K THEN Append(f[i], w[i + 1]) ELSE f[i]
        BY <2>2 DEF Walks
    <2> QED
        BY <1>3, <2>1, <2>3 DEF Accumulates
<1>6. P = Nat
    <2> HIDE DEF P
    <2>1. P \in SUBSET Nat
        BY DEF P
    <2> QED
        BY <1>4, <1>5, <2>1, InductionOnNat
<1>7. n \in P
    <2> HIDE DEF P
    <2> QED
        BY <1>6
<1>8. f[n] = [k \in 1..Cardinality(K) |-> w[s[k]]]
    <2>1. f[n] = Prefix(w, s, K, n)
        BY <1>7
    <2> QED
        BY <1>3, <2>1 DEF Accumulates
<1> QED
    BY <1>2, <1>8 DEF Picks

=============================================================================
