---------------------------- MODULE FiniteSums ----------------------------
(***************************************************************************)
(* What the sum of a function over a finite set of its arguments is, how   *)
(* one argument more or less changes it and how two sums compare: the      *)
(* facts that everything proved of money rests on.                         *)
(*                                                                         *)
(* The library's induction theorems take an operator as a parameter.       *)
(* Induction is therefore stated here for a SET of numbers or of subsets,  *)
(* which is all the sums need.                                             *)
(***************************************************************************)
EXTENDS Functions, FiniteSetTheorems, TLAPS

-----------------------------------------------------------------------------
(* Induction.                                                              *)

\* A set of numbers that has 0, and n + 1 with every n, has every number.
LEMMA NumberInduction ==
    ASSUME NEW T, 0 \in T, \A n \in Nat : n \in T => n + 1 \in T
    PROVE  Nat \subseteq T
<1> SUFFICES ASSUME Nat \ T # {} PROVE FALSE
  OBVIOUS
<1> DEFINE R == OpToRel(<, Nat)
<1>1. IsWellFoundedOn(R, Nat)
  BY NatLessThanWellFounded
<1>2. \A x, y \in Nat : x < y => <<x, y>> \in R
  BY DEF OpToRel
<1> HIDE DEF R
<1>3. PICK n \in Nat \ T : \A m \in Nat \ T : ~ (<<m, n>> \in R)
  BY <1>1, WFMin
<1>4. n # 0 /\ n - 1 \in Nat /\ n - 1 < n /\ (n - 1) + 1 = n
  BY <1>3
<1>5. n - 1 \in T
  BY <1>2, <1>3, <1>4
<1>6. QED
  BY <1>3, <1>4, <1>5

\* A family of subsets of a finite set that has the empty set, and every set
\* with one element more than a member, has the set itself.
LEMMA SubsetInduction ==
    ASSUME NEW S, IsFiniteSet(S), NEW T, {} \in T,
           \A s \in SUBSET S : \A x \in S \ s : s \in T => s \union {x} \in T
    PROVE  S \in T
<1> DEFINE N == {n \in Nat : \A s \in SUBSET S : Cardinality(s) = n => s \in T}
<1>1. \A s \in SUBSET S : IsFiniteSet(s) /\ Cardinality(s) \in Nat
  BY FS_Subset, FS_CardinalityType
<1>2. 0 \in N
  BY <1>1, FS_EmptySet
<1>3. ASSUME NEW n \in Nat, n \in N PROVE n + 1 \in N
  <2> SUFFICES ASSUME NEW s \in SUBSET S, Cardinality(s) = n + 1 PROVE s \in T
    BY <1>3
  <2>1. s # {}
    <3>1. Cardinality({}) = 0
      BY FS_EmptySet
    <3>2. Cardinality(s) # 0
      OBVIOUS
    <3>3. QED
      BY <3>1, <3>2
  <2>2. PICK x \in s : TRUE
    BY <2>1
  <2>3. Cardinality(s \ {x}) = Cardinality(s) - 1
    BY <1>1, <2>2, FS_RemoveElement
  <2>4. s \ {x} \in T /\ x \in S \ (s \ {x}) /\ (s \ {x}) \union {x} = s
    BY <1>1, <1>3, <2>2, <2>3
  <2>5. QED
    BY <2>4
<1> HIDE DEF N
<1>4. Nat \subseteq N
  BY <1>2, <1>3, NumberInduction
<1>5. Cardinality(S) \in N
  BY <1>1, <1>4
<1>6. QED
  BY <1>5 DEF N

-----------------------------------------------------------------------------
(* Recursion along a sequence: a value for 0, and one step for each number. *)

\* The values in S of the recursion that starts with a and whose step i is f[i].
Table(S, a, n, f) == {g \in [0 .. n -> S] : g[0] = a /\ \A i \in 1 .. n : g[i] = f[i][g[i - 1]]}

\* A recursion whose steps stay in a set has a table of its values.
LEMMA TableExists ==
    ASSUME NEW S, NEW a \in S, NEW n \in Nat, NEW f, \A x \in S : \A i \in 1 .. n : f[i][x] \in S
    PROVE  \E g : g \in Table(S, a, n, f)
<1> DEFINE T == {m \in Nat : m <= n =>
                   \E g \in [0 .. m -> S] : g[0] = a /\ \A i \in 1 .. m : g[i] = f[i][g[i - 1]]}
<1>1. 0 \in T
  <2> DEFINE g == [i \in 0 .. 0 |-> a]
  <2>1. g \in [0 .. 0 -> S] /\ g[0] = a /\ 1 .. 0 = {}
    OBVIOUS
  <2> HIDE DEF g
  <2>2. \A i \in 1 .. 0 : g[i] = f[i][g[i - 1]]
    BY <2>1
  <2> QED
    BY <2>1, <2>2
<1>2. ASSUME NEW m \in Nat, m \in T PROVE m + 1 \in T
  <2> SUFFICES ASSUME m + 1 <= n
               PROVE  \E g \in [0 .. m + 1 -> S] : g[0] = a /\ \A i \in 1 .. m + 1 : g[i] = f[i][g[i - 1]]
    OBVIOUS
  <2>1. PICK g \in [0 .. m -> S] : g[0] = a /\ \A i \in 1 .. m : g[i] = f[i][g[i - 1]]
    BY <1>2
  <2> DEFINE h == [i \in 0 .. m + 1 |-> IF i = m + 1 THEN f[m + 1][g[m]] ELSE g[i]]
  <2>2. f[m + 1][g[m]] \in S
    OBVIOUS
  <2>3. h \in [0 .. m + 1 -> S]
    BY <2>2
  <2>4. h[m + 1] = f[m + 1][g[m]] /\ \A i \in 0 .. m : h[i] = g[i]
    OBVIOUS
  <2> HIDE DEF h
  <2>5. h[0] = a /\ \A i \in 1 .. m + 1 : h[i] = f[i][h[i - 1]]
    <3>1. ASSUME NEW i \in 1 .. m PROVE h[i] = f[i][h[i - 1]]
      <4>1. i \in 0 .. m /\ i - 1 \in 0 .. m
        OBVIOUS
      <4> QED
        BY <2>1, <2>4, <4>1
    <3>2. h[m + 1] = f[m + 1][h[(m + 1) - 1]]
      <4>1. m \in 0 .. m /\ (m + 1) - 1 = m
        OBVIOUS
      <4> QED
        BY <2>4, <4>1
    <3>3. h[0] = a
      BY <2>1, <2>4
    <3>4. \A i \in 1 .. m + 1 : i \in 1 .. m \/ i = m + 1
      OBVIOUS
    <3> QED
      BY <3>1, <3>2, <3>3, <3>4
  <2> QED
    BY <2>3, <2>5
<1> HIDE DEF T
<1>3. n \in T
  BY <1>1, <1>2, NumberInduction
<1> QED
  BY <1>3 DEF T, Table

\* The values of a recursion whose steps stay in a set are in it.
LEMMA TableValues ==
    ASSUME NEW S, NEW a \in S, NEW n \in Nat, NEW g, g[0] = a,
           \A i \in 1 .. n : g[i - 1] \in S => g[i] \in S
    PROVE  \A i \in 0 .. n : g[i] \in S
<1> DEFINE T == {m \in Nat : m <= n => g[m] \in S}
<1>1. 0 \in T
  OBVIOUS
<1>2. ASSUME NEW m \in Nat, m \in T PROVE m + 1 \in T
  <2>1. CASE m + 1 <= n
    <3>1. m + 1 \in 1 .. n /\ (m + 1) - 1 = m /\ m <= n
      BY <2>1
    <3> QED
      BY <1>2, <3>1
  <2> QED
    BY <2>1
<1> HIDE DEF T
<1>3. Nat \subseteq T
  BY <1>1, <1>2, NumberInduction
<1> QED
  BY <1>3 DEF T

-----------------------------------------------------------------------------
(* The recursion behind the sum.                                           *)

Some(s) == CHOOSE x \in s : TRUE

\* it lists the sum of f over every subset of S.
SumTable(it, f, S) ==
    it = [s \in SUBSET S |-> IF s = {} THEN 0 ELSE f[Some(s)] + it[s \ {Some(s)}]]

\* it lists the sum of f over the subsets of S with at most n elements.
SmallSums(it, f, S, n) ==
    it = [s \in {r \in SUBSET S : Cardinality(r) <= n} |->
            IF s = {} THEN 0 ELSE f[Some(s)] + it[s \ {Some(s)}]]

\* Removing the chosen element of a finite set.
LEMMA SomeRemoved ==
    ASSUME NEW s, IsFiniteSet(s), s # {}
    PROVE  /\ Some(s) \in s
           /\ IsFiniteSet(s \ {Some(s)})
           /\ Cardinality(s) \in Nat /\ Cardinality(s \ {Some(s)}) \in Nat
           /\ Cardinality(s \ {Some(s)}) = Cardinality(s) - 1
<1>1. Some(s) \in s
  BY DEF Some
<1>2. QED
  BY <1>1, FS_RemoveElement, FS_CardinalityType

LEMMA SmallSumsExist ==
    ASSUME NEW f, NEW S, IsFiniteSet(S), NEW n \in Nat
    PROVE  \E it : SmallSums(it, f, S, n)
<1> DEFINE D(m) == {r \in SUBSET S : Cardinality(r) <= m}
           N == {m \in Nat : \E it : SmallSums(it, f, S, m)}
<1>1. \A s \in SUBSET S : IsFiniteSet(s) /\ Cardinality(s) \in Nat
  BY FS_Subset, FS_CardinalityType
<1>2. 0 \in N
  <2>1. D(0) = {{}}
    BY <1>1, FS_EmptySet
  <2>2. SmallSums([s \in D(0) |-> 0], f, S, 0)
    BY <2>1 DEF SmallSums
  <2>3. QED
    BY <2>2
<1>3. ASSUME NEW m \in Nat, m \in N PROVE m + 1 \in N
  <2>1. PICK it : SmallSums(it, f, S, m)
    BY <1>3
  <2> DEFINE next == [s \in D(m + 1) |->
                        IF s = {} THEN 0 ELSE f[Some(s)] + it[s \ {Some(s)}]]
  <2>2. ASSUME NEW s \in D(m + 1), s # {}
        PROVE  s \ {Some(s)} \in D(m)
    BY <1>1, <2>2, SomeRemoved
  <2>3. ASSUME NEW s \in D(m) PROVE next[s] = it[s]
    <3>1. s \in D(m + 1)
      BY <1>1
    <3>2. next[s] = IF s = {} THEN 0 ELSE f[Some(s)] + it[s \ {Some(s)}]
      BY <3>1
    <3>3. it[s] = IF s = {} THEN 0 ELSE f[Some(s)] + it[s \ {Some(s)}]
      BY <2>1 DEF SmallSums
    <3>4. QED
      BY <3>2, <3>3
  <2> HIDE DEF D
  <2>4. \A s \in D(m + 1) : s # {} => next[s \ {Some(s)}] = it[s \ {Some(s)}]
    BY <2>2, <2>3
  <2>5. next = [s \in D(m + 1) |->
                  IF s = {} THEN 0 ELSE f[Some(s)] + next[s \ {Some(s)}]]
    BY <2>4
  <2>6. SmallSums(next, f, S, m + 1)
    BY <2>5 DEF SmallSums, D
  <2>7. QED
    BY <2>6
<1> HIDE DEF N
<1>4. Nat \subseteq N
  BY <1>2, <1>3, NumberInduction
<1>5. QED
  BY <1>4 DEF N

LEMMA SumTableExists ==
    ASSUME NEW f, NEW S, IsFiniteSet(S)
    PROVE  \E it : SumTable(it, f, S)
<1>1. Cardinality(S) \in Nat
  BY FS_CardinalityType
<1>2. PICK it : SmallSums(it, f, S, Cardinality(S))
  BY <1>1, SmallSumsExist
<1>3. {r \in SUBSET S : Cardinality(r) <= Cardinality(S)} = SUBSET S
  BY FS_Subset
<1>4. SumTable(it, f, S)
  BY <1>2, <1>3 DEF SmallSums, SumTable
<1>5. QED
  BY <1>4

\* The table of a set and the table of one that contains it agree.
LEMMA TablesAgree ==
    ASSUME NEW f, NEW S, IsFiniteSet(S), NEW K \in SUBSET S,
           NEW it, SumTable(it, f, S), NEW ik, SumTable(ik, f, K)
    PROVE  it[K] = ik[K]
<1> DEFINE N == {n \in Nat : \A s \in SUBSET K : Cardinality(s) = n => it[s] = ik[s]}
<1>1. \A s \in SUBSET K : IsFiniteSet(s) /\ Cardinality(s) \in Nat /\ s \in SUBSET S
  BY FS_Subset, FS_CardinalityType
<1>2. ASSUME NEW s \in SUBSET K
      PROVE  /\ it[s] = IF s = {} THEN 0 ELSE f[Some(s)] + it[s \ {Some(s)}]
             /\ ik[s] = IF s = {} THEN 0 ELSE f[Some(s)] + ik[s \ {Some(s)}]
  BY DEF SumTable
<1>3. 0 \in N
  BY <1>1, <1>2, FS_EmptySet
<1>4. ASSUME NEW n \in Nat, n \in N PROVE n + 1 \in N
  <2> SUFFICES ASSUME NEW s \in SUBSET K, Cardinality(s) = n + 1 PROVE it[s] = ik[s]
    BY <1>4
  <2>1. s # {}
    BY <1>4, FS_EmptySet
  <2>2. s \ {Some(s)} \in SUBSET K /\ Cardinality(s \ {Some(s)}) = n
    BY <1>1, <1>4, <2>1, SomeRemoved
  <2>3. it[s \ {Some(s)}] = ik[s \ {Some(s)}]
    BY <1>4, <2>2
  <2>4. QED
    BY <1>2, <2>1, <2>3
<1> HIDE DEF N
<1>5. Nat \subseteq N
  BY <1>3, <1>4, NumberInduction
<1>6. Cardinality(K) \in N
  BY <1>1, <1>5
<1>7. QED
  BY <1>6 DEF N

-----------------------------------------------------------------------------
(* Sums.                                                                   *)

\* The sum is the last line of its table.
LEMMA SumIsTable ==
    ASSUME NEW f, NEW S, IsFiniteSet(S), NEW it, SumTable(it, f, S)
    PROVE  SumFunctionOnSet(f, S) = it[S]
<1> DEFINE table == CHOOSE t : SumTable(t, f, S)
<1>1. SumTable(table, f, S)
  BY SumTableExists
<1>2. SumFunctionOnSet(f, S) = table[S]
  BY Zenon DEF SumFunctionOnSet, FoldFunctionOnSet, MapThenFoldSet, SumTable, Some
<1>3. S \in SUBSET S
  OBVIOUS
<1>4. table[S] = it[S]
  BY <1>1, <1>3, TablesAgree
<1>5. QED
  BY <1>2, <1>4

LEMMA SumEmpty == \A f : SumFunctionOnSet(f, {}) = 0
<1> SUFFICES ASSUME NEW f PROVE SumFunctionOnSet(f, {}) = 0
  OBVIOUS
<1>1. IsFiniteSet({})
  BY FS_EmptySet
<1>2. PICK it : SumTable(it, f, {})
  BY <1>1, SumTableExists
<1>3. it[{}] = 0
  BY <1>2 DEF SumTable
<1>4. QED
  BY <1>1, <1>2, <1>3, SumIsTable

\* The sum over a set is that over the set without its chosen element, plus
\* the value of that element.
LEMMA SumSome ==
    ASSUME NEW f, NEW S, IsFiniteSet(S), S # {}
    PROVE  SumFunctionOnSet(f, S) = f[Some(S)] + SumFunctionOnSet(f, S \ {Some(S)})
<1> DEFINE K == S \ {Some(S)}
<1>1. PICK it : SumTable(it, f, S)
  BY SumTableExists
<1>2. IsFiniteSet(K) /\ K \in SUBSET S
  BY SomeRemoved
<1>3. PICK ik : SumTable(ik, f, K)
  BY <1>2, SumTableExists
<1>4. it[K] = ik[K]
  BY <1>1, <1>2, <1>3, TablesAgree
<1>5. SumFunctionOnSet(f, S) = it[S] /\ SumFunctionOnSet(f, K) = ik[K]
  BY <1>1, <1>2, <1>3, SumIsTable
<1>6. it[S] = f[Some(S)] + it[K]
  BY <1>1 DEF SumTable
<1>7. QED
  BY <1>4, <1>5, <1>6

LEMMA SumInt ==
    ASSUME NEW S, IsFiniteSet(S), NEW f, \A x \in S : f[x] \in Int
    PROVE  SumFunctionOnSet(f, S) \in Int
<1> DEFINE N == {n \in Nat : \A s \in SUBSET S :
                   Cardinality(s) = n => SumFunctionOnSet(f, s) \in Int}
<1>1. \A s \in SUBSET S : IsFiniteSet(s) /\ Cardinality(s) \in Nat
  BY FS_Subset, FS_CardinalityType
<1>2. 0 \in N
  BY <1>1, FS_EmptySet, SumEmpty
<1>3. ASSUME NEW n \in Nat, n \in N PROVE n + 1 \in N
  <2> SUFFICES ASSUME NEW s \in SUBSET S, Cardinality(s) = n + 1
               PROVE  SumFunctionOnSet(f, s) \in Int
    BY <1>3
  <2>1. s # {}
    <3>1. Cardinality({}) = 0
      BY FS_EmptySet
    <3>2. QED
      BY <3>1
  <2>2. /\ Some(s) \in s /\ s \ {Some(s)} \in SUBSET S
        /\ Cardinality(s \ {Some(s)}) = n
    BY <1>1, <2>1, SomeRemoved
  <2>3. SumFunctionOnSet(f, s \ {Some(s)}) \in Int
    BY <1>3, <2>2
  <2>4. SumFunctionOnSet(f, s) = f[Some(s)] + SumFunctionOnSet(f, s \ {Some(s)})
    BY <1>1, <2>1, SumSome
  <2>5. QED
    BY <2>2, <2>3, <2>4
<1> HIDE DEF N
<1>4. Nat \subseteq N
  BY <1>2, <1>3, NumberInduction
<1>5. Cardinality(S) \in N
  BY <1>1, <1>4
<1>6. QED
  BY <1>5 DEF N

\* The order does not matter: any element can be the one that is taken out.
LEMMA SumRemove ==
    ASSUME NEW S, IsFiniteSet(S), NEW f, \A x \in S : f[x] \in Int, NEW y \in S
    PROVE  SumFunctionOnSet(f, S) = f[y] + SumFunctionOnSet(f, S \ {y})
<1> DEFINE N == {n \in Nat : \A s \in SUBSET S : Cardinality(s) = n =>
                   \A x \in s : SumFunctionOnSet(f, s)
                                  = f[x] + SumFunctionOnSet(f, s \ {x})}
<1>1. \A s \in SUBSET S : /\ IsFiniteSet(s) /\ Cardinality(s) \in Nat
                          /\ SumFunctionOnSet(f, s) \in Int
  <2>1. \A s \in SUBSET S : IsFiniteSet(s) /\ Cardinality(s) \in Nat
    BY FS_Subset, FS_CardinalityType
  <2>2. QED
    BY <2>1, SumInt
<1>2. 0 \in N
  BY <1>1, FS_EmptySet
<1>3. ASSUME NEW n \in Nat, n \in N PROVE n + 1 \in N
  <2> SUFFICES ASSUME NEW s \in SUBSET S, Cardinality(s) = n + 1, NEW x \in s
               PROVE  SumFunctionOnSet(f, s) = f[x] + SumFunctionOnSet(f, s \ {x})
    BY <1>3
  <2> DEFINE c == Some(s)
  <2>1. c \in s
    BY DEF Some
  <2>2. SumFunctionOnSet(f, s) = f[c] + SumFunctionOnSet(f, s \ {c})
    BY <1>1, SumSome
  <2>3. ASSUME NEW z \in s
        PROVE  s \ {z} \in SUBSET S /\ Cardinality(s \ {z}) = n
    <3>1. Cardinality(s \ {z}) = Cardinality(s) - 1
      BY <1>1, FS_RemoveElement
    <3>2. QED
      BY <3>1
  <2> HIDE DEF c
  <2>4. CASE x # c
    <3> DEFINE rest == (s \ {c}) \ {x}
    <3>1. (s \ {x}) \ {c} = rest /\ rest \in SUBSET S
      OBVIOUS
    <3> HIDE DEF rest
    <3>2. SumFunctionOnSet(f, s \ {c}) = f[x] + SumFunctionOnSet(f, rest)
      BY <1>3, <2>1, <2>3, <2>4 DEF rest
    <3>3. SumFunctionOnSet(f, s \ {x}) = f[c] + SumFunctionOnSet(f, rest)
      BY <1>3, <2>1, <2>3, <2>4, <3>1
    <3>4. f[x] \in Int /\ f[c] \in Int /\ SumFunctionOnSet(f, rest) \in Int
      BY <1>1, <2>1, <3>1
    <3>5. QED
      BY <2>2, <3>2, <3>3, <3>4
  <2>5. QED
    BY <2>2, <2>4
<1> HIDE DEF N
<1>4. Nat \subseteq N
  BY <1>2, <1>3, NumberInduction
<1>5. Cardinality(S) \in N /\ S \in SUBSET S
  BY <1>1, <1>4
<1>6. QED
  BY <1>5 DEF N

LEMMA SumAdd ==
    ASSUME NEW S, IsFiniteSet(S), NEW y, y \notin S,
           NEW f, \A x \in S \union {y} : f[x] \in Int
    PROVE  SumFunctionOnSet(f, S \union {y}) = f[y] + SumFunctionOnSet(f, S)
<1>1. IsFiniteSet(S \union {y}) /\ y \in S \union {y}
  BY FS_AddElement
<1>2. SumFunctionOnSet(f, S \union {y})
        = f[y] + SumFunctionOnSet(f, (S \union {y}) \ {y})
  BY <1>1, SumRemove
<1>3. (S \union {y}) \ {y} = S
  OBVIOUS
<1>4. QED
  BY <1>2, <1>3

\* A smaller function has the smaller sum, and a sum of naturals is one.
LEMMA SumLessEqual ==
    ASSUME NEW S, IsFiniteSet(S), NEW f, NEW g,
           \A x \in S : f[x] \in Int /\ g[x] \in Int /\ f[x] <= g[x]
    PROVE  SumFunctionOnSet(f, S) <= SumFunctionOnSet(g, S)
<1> DEFINE T == {s \in SUBSET S : SumFunctionOnSet(f, s) <= SumFunctionOnSet(g, s)}
<1>1. {} \in T
  BY SumEmpty
<1>2. ASSUME NEW s \in SUBSET S, NEW x \in S \ s, s \in T PROVE s \union {x} \in T
  <2>1. IsFiniteSet(s)
    BY FS_Subset
  <2>2. /\ SumFunctionOnSet(f, s \union {x}) = f[x] + SumFunctionOnSet(f, s)
        /\ SumFunctionOnSet(g, s \union {x}) = g[x] + SumFunctionOnSet(g, s)
    BY <2>1, SumAdd
  <2>3. SumFunctionOnSet(f, s) \in Int /\ SumFunctionOnSet(g, s) \in Int
    BY <2>1, SumInt
  <2>4. SumFunctionOnSet(f, s) <= SumFunctionOnSet(g, s)
    BY <1>2
  <2>5. SumFunctionOnSet(f, s \union {x}) <= SumFunctionOnSet(g, s \union {x})
    BY <2>2, <2>3, <2>4
  <2>6. QED
    BY <2>5
<1> HIDE DEF T
<1>3. S \in T
  BY <1>1, <1>2, SubsetInduction
<1>4. QED
  BY <1>3 DEF T

\* Only the values on the set count.
LEMMA SumSame ==
    ASSUME NEW S, IsFiniteSet(S), NEW f, NEW g,
           \A x \in S : f[x] \in Int /\ g[x] = f[x]
    PROVE  SumFunctionOnSet(f, S) = SumFunctionOnSet(g, S)
<1>1. SumFunctionOnSet(f, S) \in Int /\ SumFunctionOnSet(g, S) \in Int
  BY SumInt
<1>2. /\ SumFunctionOnSet(f, S) <= SumFunctionOnSet(g, S)
      /\ SumFunctionOnSet(g, S) <= SumFunctionOnSet(f, S)
  BY SumLessEqual
<1>3. QED
  BY <1>1, <1>2

\* Two sets apart.
LEMMA SumUnion ==
    ASSUME NEW S, IsFiniteSet(S), NEW R, IsFiniteSet(R), R \intersect S = {},
           NEW f, \A x \in S \union R : f[x] \in Int
    PROVE  SumFunctionOnSet(f, R \union S)
             = SumFunctionOnSet(f, R) + SumFunctionOnSet(f, S)
<1> DEFINE T == {s \in SUBSET S : SumFunctionOnSet(f, R \union s)
                   = SumFunctionOnSet(f, R) + SumFunctionOnSet(f, s)}
<1>1. SumFunctionOnSet(f, R) \in Int
  BY SumInt
<1>2. {} \in T
  <2>1. R \union {} = R
    OBVIOUS
  <2>2. QED
    BY <1>1, <2>1, SumEmpty
<1>3. ASSUME NEW s \in SUBSET S, NEW x \in S \ s, s \in T PROVE s \union {x} \in T
  <2>1. IsFiniteSet(s) /\ IsFiniteSet(R \union s)
    BY FS_Subset, FS_Union
  <2>2. SumFunctionOnSet(f, s \union {x}) = f[x] + SumFunctionOnSet(f, s)
    BY <2>1, SumAdd
  <2>3. SumFunctionOnSet(f, (R \union s) \union {x})
          = f[x] + SumFunctionOnSet(f, R \union s)
    BY <2>1, SumAdd
  <2>4. SumFunctionOnSet(f, s) \in Int /\ f[x] \in Int
    BY <2>1, SumInt
  <2>5. SumFunctionOnSet(f, R \union s)
          = SumFunctionOnSet(f, R) + SumFunctionOnSet(f, s)
    BY <1>3
  <2>6. (R \union s) \union {x} = R \union (s \union {x})
    OBVIOUS
  <2>7. SumFunctionOnSet(f, R \union (s \union {x}))
          = f[x] + (SumFunctionOnSet(f, R) + SumFunctionOnSet(f, s))
    BY <2>3, <2>5, <2>6
  <2>8. SumFunctionOnSet(f, R \union (s \union {x}))
          = SumFunctionOnSet(f, R) + SumFunctionOnSet(f, s \union {x})
    BY <1>1, <2>2, <2>4, <2>7
  <2>9. QED
    BY <2>8
<1> HIDE DEF T
<1>4. S \in T
  BY <1>2, <1>3, SubsetInduction
<1>5. QED
  BY <1>4 DEF T

\* Taking elements out of the set takes their sum out of the sum.
LEMMA SumSplit ==
    ASSUME NEW S, IsFiniteSet(S), NEW R \in SUBSET S,
           NEW f, \A x \in S : f[x] \in Int
    PROVE  SumFunctionOnSet(f, S)
             = SumFunctionOnSet(f, R) + SumFunctionOnSet(f, S \ R)
<1>1. IsFiniteSet(R) /\ IsFiniteSet(S \ R)
  BY FS_Subset
<1>2. R \union (S \ R) = S /\ R \intersect (S \ R) = {}
  OBVIOUS
<1>3. SumFunctionOnSet(f, R \union (S \ R))
        = SumFunctionOnSet(f, R) + SumFunctionOnSet(f, S \ R)
  BY <1>1, <1>2, SumUnion
<1>4. QED
  BY <1>2, <1>3

\* What is not negative has a sum that is not negative ...
LEMMA SumNat ==
    ASSUME NEW S, IsFiniteSet(S), NEW f, \A x \in S : f[x] \in Nat
    PROVE  SumFunctionOnSet(f, S) \in Nat
<1> DEFINE T == {s \in SUBSET S : SumFunctionOnSet(f, s) \in Nat}
<1>1. {} \in T
  BY SumEmpty
<1>2. ASSUME NEW s \in SUBSET S, NEW x \in S \ s, s \in T PROVE s \union {x} \in T
  <2>1. IsFiniteSet(s)
    BY FS_Subset
  <2>2. \A z \in s \union {x} : f[z] \in Int
    OBVIOUS
  <2>3. SumFunctionOnSet(f, s \union {x}) = f[x] + SumFunctionOnSet(f, s)
    BY <2>1, <2>2, SumAdd
  <2>4. SumFunctionOnSet(f, s \union {x}) \in Nat
    BY <1>2, <2>3
  <2>5. QED
    BY <2>4
<1> HIDE DEF T
<1>3. S \in T
  BY <1>1, <1>2, SubsetInduction
<1>4. QED
  BY <1>3 DEF T

\* ... and a larger set then has the larger sum.
LEMMA SumGrows ==
    ASSUME NEW S, IsFiniteSet(S), NEW R \in SUBSET S,
           NEW f, \A x \in S : f[x] \in Nat
    PROVE  SumFunctionOnSet(f, R) <= SumFunctionOnSet(f, S)
<1>1. IsFiniteSet(R) /\ IsFiniteSet(S \ R)
  BY FS_Subset
<1>2. SumFunctionOnSet(f, R) \in Nat /\ SumFunctionOnSet(f, S \ R) \in Nat
  BY <1>1, SumNat
<1>3. \A x \in S : f[x] \in Int
  OBVIOUS
<1>4. SumFunctionOnSet(f, S)
        = SumFunctionOnSet(f, R) + SumFunctionOnSet(f, S \ R)
  BY <1>3, SumSplit
<1>5. QED
  BY <1>2, <1>4

LEMMA SumZero ==
    ASSUME NEW S, IsFiniteSet(S), NEW f, \A x \in S : f[x] = 0
    PROVE  SumFunctionOnSet(f, S) = 0
<1> DEFINE T == {s \in SUBSET S : SumFunctionOnSet(f, s) = 0}
<1>1. {} \in T
  BY SumEmpty
<1>2. ASSUME NEW s \in SUBSET S, NEW x \in S \ s, s \in T PROVE s \union {x} \in T
  <2>1. IsFiniteSet(s) /\ \A z \in s \union {x} : f[z] \in Int
    BY FS_Subset
  <2>2. SumFunctionOnSet(f, s \union {x}) = f[x] + SumFunctionOnSet(f, s)
    BY <2>1, SumAdd
  <2>3. QED
    BY <1>2, <2>2
<1> HIDE DEF T
<1>3. S \in T
  BY <1>1, <1>2, SubsetInduction
<1>4. QED
  BY <1>3 DEF T
-----------------------------------------------------------------------------
(* Images.                                                                 *)

\* What is listed from a finite set is finite.
LEMMA FiniteImage ==
    ASSUME NEW S, IsFiniteSet(S), NEW f, f = [x \in S |-> f[x]]
    PROVE  IsFiniteSet({f[x] : x \in S})
<1> DEFINE T == {f[x] : x \in S}
<1>1. f \in [S -> T] /\ \A t \in T : \E x \in S : f[x] = t
  OBVIOUS
<1> HIDE DEF T
<1>2. f \in Surjection(S, T)
  BY <1>1 DEF Surjection
<1>3. IsFiniteSet(T)
  BY <1>2, FS_Surjection
<1> QED
  BY <1>3 DEF T

\* The sum over what a finite set is mapped to one to one.
LEMMA SumImage ==
    ASSUME NEW S, IsFiniteSet(S), NEW h, h = [x \in S |-> h[x]], \A x, y \in S : h[x] = h[y] => x = y,
           NEW f, NEW g, \A x \in S : f[x] \in Int /\ g[h[x]] = f[x]
    PROVE  SumFunctionOnSet(g, {h[x] : x \in S}) = SumFunctionOnSet(f, S)
<1> DEFINE T == {s \in SUBSET S : SumFunctionOnSet(g, {h[x] : x \in s}) = SumFunctionOnSet(f, s)}
<1>1. {} \in T
  <2>1. {h[x] : x \in {}} = {}
    OBVIOUS
  <2> QED
    BY <2>1, SumEmpty
<1>2. ASSUME NEW s \in SUBSET S, NEW z \in S \ s, s \in T PROVE s \union {z} \in T
  <2> DEFINE I == {h[x] : x \in s}
  <2>1. IsFiniteSet(s)
    BY FS_Subset
  <2>2. IsFiniteSet(I)
    <3> DEFINE k == [x \in s |-> h[x]]
    <3>1. k = [x \in s |-> k[x]] /\ {k[x] : x \in s} = I
      OBVIOUS
    <3> HIDE DEF k, I
    <3>2. IsFiniteSet({k[x] : x \in s})
      BY <2>1, <3>1, FiniteImage
    <3> QED
      BY <3>1, <3>2
  <2>3. h[z] \notin I
    OBVIOUS
  <2>4. {h[x] : x \in s \union {z}} = I \union {h[z]}
    OBVIOUS
  <2>5. \A w \in I \union {h[z]} : g[w] \in Int
    OBVIOUS
  <2>6. SumFunctionOnSet(g, I) = SumFunctionOnSet(f, s)
    BY <1>2
  <2> HIDE DEF I
  <2>7. SumFunctionOnSet(g, I \union {h[z]}) = g[h[z]] + SumFunctionOnSet(g, I)
    BY <2>2, <2>3, <2>5, SumAdd
  <2>8. SumFunctionOnSet(f, s \union {z}) = f[z] + SumFunctionOnSet(f, s)
    BY <2>1, SumAdd
  <2> QED
    BY <2>4, <2>6, <2>7, <2>8
<1> HIDE DEF T
<1>3. S \in T
  BY <1>1, <1>2, SubsetInduction
<1> QED
  BY <1>3 DEF T
=============================================================================
