--------------------------- MODULE EvaluationProofs ---------------------------
(* Theorems about candidate evaluation, for any cipher table, crib, scorer and *)
(* batch: the score a key gets is that of a text it stands for, and of the best*)
(* of them; the plaintext that is shown deserves the score; every text is      *)
(* counted once.  They rest on what the pipeline does to a text and on the     *)
(* mixed-radix counter that enumerates the readings of a key.                  *)
EXTENDS Evaluation, FiniteSetTheorems, SequenceTheorems, TLAPS

-----------------------------------------------------------------------------
(* Numbers.                                                                   *)

\* A set that holds 0 and with a number the next one, up to n.
LEMMA IntervalInduction ==
  ASSUME NEW n \in Nat, NEW S, 0 \in S, \A m \in 0..(n - 1) : m \in S => m + 1 \in S
  PROVE  0..n \subseteq S
<1> DEFINE T == (0..n) \ S
           R == OpToRel(<, Nat)
<1>1. \A x, y \in Nat : x < y => <<x, y>> \in R
  BY DEF OpToRel
<1> SUFFICES ASSUME T # {} PROVE FALSE
  OBVIOUS
<1>2. PICK x \in T : \A y \in T : ~ (<<y, x>> \in R)
  <2>1. T \subseteq Nat
    OBVIOUS
  <2> HIDE DEF T, R
  <2> QED BY <2>1, NatLessThanWellFounded, WFMin DEF R
<1> HIDE DEF R
<1>3. x \in 1..n /\ x - 1 \in 0..(n - 1)
  BY DEF T
<1>4. x - 1 \notin T
  <2>1. x \in Nat /\ x - 1 \in Nat /\ x - 1 < x
    BY <1>3
  <2>2. <<x - 1, x>> \in R
    BY <1>1, <2>1
  <2> QED BY <1>2, <2>2
<1> QED BY <1>3, <1>4

\* So many numbers.
LEMMA IntervalSize ==
  ASSUME NEW n \in Nat
  PROVE  /\ IsFiniteSet(1..n) /\ Cardinality(1..n) = n
         /\ IsFiniteSet(0..(n - 1)) /\ Cardinality(0..(n - 1)) = n
<1>1. 1 \in Int /\ n \in Int /\ 0 \in Int /\ n - 1 \in Int
  OBVIOUS
<1>2. /\ IsFiniteSet(1..n) /\ Cardinality(1..n) = IF 1 > n THEN 0 ELSE n - 1 + 1
      /\ IsFiniteSet(0..(n - 1))
      /\ Cardinality(0..(n - 1)) = IF 0 > n - 1 THEN 0 ELSE n - 1 - 0 + 1
  BY <1>1, FS_Interval, Zenon
<1> QED BY <1>2

\* The size of an array.
LEMMA ArraySize ==
  ASSUME NEW n \in Nat, NEW V, NEW t \in [0..(n - 1) -> V]
  PROVE  Size(t) = n
BY IntervalSize DEF Size

-----------------------------------------------------------------------------
(* Places in order: Rank and Nth are inverse to each other.                   *)

LEMMA RankFacts ==
  ASSUME NEW S \in SUBSET Int, IsFiniteSet(S)
  PROVE  /\ Cardinality(S) \in Nat
         /\ \A x \in Int : Rank(S, x) \in Nat /\ Rank(S, x) <= Cardinality(S)
         /\ \A x \in S : Rank(S, x) \in 0..(Cardinality(S) - 1)
         /\ \A x, y \in S : x < y <=> Rank(S, x) < Rank(S, y)
<1> DEFINE P(x) == {y \in S : y < x}
<1>1. Cardinality(S) \in Nat
  BY FS_CardinalityType
<1>2. ASSUME NEW x \in Int
      PROVE  /\ IsFiniteSet(P(x)) /\ Rank(S, x) = Cardinality(P(x))
             /\ Rank(S, x) \in Nat /\ Rank(S, x) <= Cardinality(S)
             /\ x \in S => Rank(S, x) # Cardinality(S)
  <2>1. P(x) \in SUBSET S /\ (x \in S => P(x) # S)
    OBVIOUS
  <2>2. Rank(S, x) = Cardinality(P(x))
    BY DEF Rank
  <2> HIDE DEF P
  <2>3. IsFiniteSet(P(x)) /\ Cardinality(P(x)) <= Cardinality(S)
        /\ (Cardinality(S) = Cardinality(P(x)) => S = P(x))
    BY <2>1, FS_Subset
  <2>4. Cardinality(P(x)) \in Nat
    BY <2>3, FS_CardinalityType
  <2> QED BY <2>1, <2>2, <2>3, <2>4
<1>3. ASSUME NEW x \in S, NEW y \in S, x < y
      PROVE  Rank(S, x) < Rank(S, y)
  <2>1. P(x) \in SUBSET P(y) /\ P(x) # P(y)
    <3>1. \A z \in P(x) : z < y
      BY <1>3
    <3>2. x \in P(y) /\ x \notin P(x)
      BY <1>3
    <3> QED BY <3>1, <3>2
  <2>2. /\ IsFiniteSet(P(y)) /\ Rank(S, x) = Cardinality(P(x)) /\ Rank(S, y) = Cardinality(P(y))
        /\ Rank(S, x) \in Nat /\ Rank(S, y) \in Nat
    BY <1>2
  <2> HIDE DEF P
  <2>3. Cardinality(P(x)) <= Cardinality(P(y)) /\ Cardinality(P(x)) # Cardinality(P(y))
    BY <2>1, <2>2, FS_Subset
  <2> QED BY <2>2, <2>3
<1>4. \A x \in S : Rank(S, x) \in 0..(Cardinality(S) - 1)
  <2> SUFFICES ASSUME NEW x \in S PROVE Rank(S, x) \in 0..(Cardinality(S) - 1)
    OBVIOUS
  <2>1. Rank(S, x) \in Nat /\ Rank(S, x) <= Cardinality(S) /\ Rank(S, x) # Cardinality(S)
    BY <1>2
  <2> QED BY <1>1, <2>1
<1>5. \A x, y \in S : x < y <=> Rank(S, x) < Rank(S, y)
  <2> SUFFICES ASSUME NEW x \in S, NEW y \in S PROVE x < y <=> Rank(S, x) < Rank(S, y)
    OBVIOUS
  <2>1. Rank(S, x) \in Nat /\ Rank(S, y) \in Nat
    BY <1>2
  <2>2. x < y \/ y < x \/ x = y
    OBVIOUS
  <2> QED BY <1>3, <2>1, <2>2
<1> QED BY <1>1, <1>2, <1>4, <1>5

LEMMA NthFacts ==
  ASSUME NEW S \in SUBSET Int, IsFiniteSet(S)
  PROVE  /\ \A n \in 0..(Cardinality(S) - 1) : Nth(S, n) \in S /\ Rank(S, Nth(S, n)) = n
         /\ \A x \in S : Nth(S, Rank(S, x)) = x
<1> DEFINE N == 0..(Cardinality(S) - 1)
           f == [x \in S |-> Rank(S, x)]
<1>1. Cardinality(S) \in Nat /\ \A x \in S : Rank(S, x) \in N
  BY RankFacts
<1>2. \A x, y \in S : Rank(S, x) = Rank(S, y) => x = y
  <2> SUFFICES ASSUME NEW x \in S, NEW y \in S, Rank(S, x) = Rank(S, y) PROVE x = y
    OBVIOUS
  <2>1. ~ x < y /\ ~ y < x
    <3>1. Rank(S, x) \in Int
      BY <1>1
    <3>2. ~ Rank(S, x) < Rank(S, y) /\ ~ Rank(S, y) < Rank(S, x)
      BY <3>1
    <3> QED BY <3>2, RankFacts
  <2> QED BY <2>1
<1>3. f \in Injection(S, N)
  BY <1>1, <1>2 DEF Injection, IsInjective
<1>4. IsFiniteSet(N) /\ Cardinality(N) = Cardinality(S)
  BY <1>1, IntervalSize
<1>5. f \in Surjection(S, N)
  <2> HIDE DEF f, N
  <2> QED BY <1>3, <1>4, FS_Injection
<1>6. \A n \in N : \E x \in S : Rank(S, x) = n
  BY <1>5 DEF Surjection
<1>7. \A n \in N : Nth(S, n) \in S /\ Rank(S, Nth(S, n)) = n
  BY <1>6 DEF Nth
<1>8. \A x \in S : Nth(S, Rank(S, x)) = x
  BY <1>1, <1>2, <1>7
<1> QED BY <1>7, <1>8

\* A number has below it its rank among some places and among the others.
LEMMA RankSplit ==
  ASSUME NEW n \in Nat, NEW S \in SUBSET (0..(n - 1)), NEW x \in 0..n
  PROVE  Rank(S, x) + Rank((0..(n - 1)) \ S, x) = x
<1> DEFINE K == (0..(n - 1)) \ S
           P == {y \in S : y < x}
           Q == {y \in K : y < x}
<1>1. P \cup Q = 0..(x - 1) /\ P \cap Q = {}
  <2>1. \A y \in 0..(x - 1) : y \in 0..(n - 1) /\ y < x
    OBVIOUS
  <2>2. \A y \in P \cup Q : y \in 0..(x - 1)
    OBVIOUS
  <2> QED BY <2>1, <2>2
<1>2. IsFiniteSet(0..(n - 1)) /\ P \in SUBSET (0..(n - 1)) /\ Q \in SUBSET (0..(n - 1))
  BY IntervalSize
<1>3. Rank(S, x) = Cardinality(P) /\ Rank(K, x) = Cardinality(Q)
  BY DEF Rank
<1>4. Cardinality(0..(x - 1)) = x
  BY IntervalSize
<1> HIDE DEF P, Q
<1>5. IsFiniteSet(P) /\ IsFiniteSet(Q) /\ Cardinality(P) \in Nat /\ Cardinality(Q) \in Nat
  BY <1>2, FS_Subset, FS_CardinalityType
<1>6. Cardinality(P \cup Q) = Cardinality(P) + Cardinality(Q) - Cardinality(P \cap Q)
  BY <1>5, FS_Union
<1>7. Cardinality(P \cap Q) = 0
  BY <1>1, FS_EmptySet
<1>8. Cardinality(P \cup Q) = x
  BY <1>1, <1>4, Zenon
<1>9. Cardinality(P) + Cardinality(Q) = x
  BY <1>5, <1>6, <1>7, <1>8
<1> QED BY <1>3, <1>9

-----------------------------------------------------------------------------
(* Interruptors.                                                              *)

\* The texts of n symbols, and the places that are left when S is taken out.
TextOf(n) == [0..(n - 1) -> Symbols]
Kept(n, S) == (0..(n - 1)) \ S

LEMMA TextFacts ==
  ASSUME NEW n \in Nat, NEW t \in TextOf(n)
  PROVE  /\ DOMAIN t = 0..(n - 1) /\ Size(t) = n
         /\ \A x \in 0..(n - 1) : t[x] \in Symbols
         /\ \A u \in TextOf(n) : (\A x \in 0..(n - 1) : u[x] = t[x]) => u = t
<1>1. t \in [0..(n - 1) -> Symbols]
  BY DEF TextOf
<1>2. Size(t) = n
  BY <1>1, ArraySize
<1> QED BY <1>1, <1>2 DEF TextOf

\* The places that stay and those that go, in order.
LEMMA PlaceFacts ==
  ASSUME NEW n \in Nat, NEW S \in SUBSET (0..(n - 1))
  PROVE  /\ IsFiniteSet(S) /\ Cardinality(S) \in Nat
         /\ IsFiniteSet(Kept(n, S)) /\ Cardinality(Kept(n, S)) \in Nat
         /\ Cardinality(Kept(n, S)) + Cardinality(S) = n
         /\ \A x \in S : /\ x \in 0..(n - 1)
                         /\ Rank(S, x) \in 0..(Cardinality(S) - 1)
                         /\ Nth(S, Rank(S, x)) = x
         /\ \A k \in 0..(Cardinality(S) - 1) : Nth(S, k) \in S /\ Rank(S, Nth(S, k)) = k
         /\ \A x \in Kept(n, S) : /\ x \in 0..(n - 1) /\ x \notin S
                                  /\ Rank(Kept(n, S), x) \in 0..(Cardinality(Kept(n, S)) - 1)
                                  /\ Nth(Kept(n, S), Rank(Kept(n, S), x)) = x
                                  /\ x - Rank(S, x) = Rank(Kept(n, S), x)
         /\ \A j \in 0..(Cardinality(Kept(n, S)) - 1) :
              /\ Nth(Kept(n, S), j) \in Kept(n, S)
              /\ Rank(Kept(n, S), Nth(Kept(n, S), j)) = j
         /\ \A x \in 0..(n - 1) : x \in S \/ x \in Kept(n, S)
<1> DEFINE K == Kept(n, S)
<1>1. /\ IsFiniteSet(0..(n - 1)) /\ Cardinality(0..(n - 1)) = n
      /\ K \in SUBSET (0..(n - 1)) /\ S \in SUBSET Int /\ K \in SUBSET Int
      /\ \A x \in 0..(n - 1) : x \in S \/ x \in K
      /\ \A x \in K : x \notin S
  BY IntervalSize DEF Kept
<1>2. K = (0..(n - 1)) \ S
  BY DEF Kept
<1> HIDE DEF K
<1>3. IsFiniteSet(S) /\ IsFiniteSet(K) /\ Cardinality(S) \in Nat /\ Cardinality(K) \in Nat
  BY <1>1, FS_Subset, FS_CardinalityType
<1>4. Cardinality(K) + Cardinality(S) = n
  <2>1. Cardinality(S \cup K) = Cardinality(S) + Cardinality(K) - Cardinality(S \cap K)
    BY <1>3, FS_Union
  <2>2. S \cup K = 0..(n - 1) /\ S \cap K = {}
    BY <1>1
  <2>3. Cardinality(S \cup K) = n /\ Cardinality(S \cap K) = 0
    BY <1>1, <2>2, FS_EmptySet, Zenon
  <2> QED BY <1>3, <2>1, <2>3
<1>5. /\ \A x \in S : Rank(S, x) \in 0..(Cardinality(S) - 1) /\ Nth(S, Rank(S, x)) = x
      /\ \A k \in 0..(Cardinality(S) - 1) : Nth(S, k) \in S /\ Rank(S, Nth(S, k)) = k
      /\ \A x \in K : Rank(K, x) \in 0..(Cardinality(K) - 1) /\ Nth(K, Rank(K, x)) = x
      /\ \A k \in 0..(Cardinality(K) - 1) : Nth(K, k) \in K /\ Rank(K, Nth(K, k)) = k
  BY <1>1, <1>3, RankFacts, NthFacts
<1>6. ASSUME NEW x \in K
      PROVE  x - Rank(S, x) = Rank(K, x)
  <2>1. x \in 0..n /\ x \in Int
    BY <1>1
  <2>2. Rank(S, x) + Rank(K, x) = x
    BY <1>2, <2>1, RankSplit
  <2>3. Rank(S, x) \in Nat /\ Rank(K, x) \in Nat
    BY <1>1, <1>3, <2>1, RankFacts
  <2> QED BY <2>1, <2>2, <2>3
<1>7. S \in SUBSET (0..(n - 1)) /\ K \in SUBSET (0..(n - 1))
  BY <1>1
<1> QED BY <1>1, <1>3, <1>4, <1>5, <1>6, <1>7 DEF K

\* What is taken out of a text and what is left.
LEMMA RemoveFacts ==
  ASSUME NEW n \in Nat, NEW t \in TextOf(n), NEW S \in SUBSET (0..(n - 1))
  PROVE  /\ RemoveFrom(t, S).core \in TextOf(Cardinality(Kept(n, S)))
         /\ \A j \in 0..(Cardinality(Kept(n, S)) - 1) :
              RemoveFrom(t, S).core[j] = t[Nth(Kept(n, S), j)]
         /\ RemoveFrom(t, S).idx = [k \in 0..(Cardinality(S) - 1) |-> Nth(S, k) - k]
         /\ RemoveFrom(t, S).sym = [k \in 0..(Cardinality(S) - 1) |-> t[Nth(S, k)]]
<1> DEFINE K == Kept(n, S)
           m == Cardinality(K)
<1>1. DOMAIN t \ S = K /\ \A x \in K : t[x] \in Symbols
  BY TextFacts DEF Kept
<1>2. \A j \in 0..(m - 1) : Nth(K, j) \in K
  BY PlaceFacts
<1> HIDE DEF K
<1>3. /\ RemoveFrom(t, S).core = [j \in 0..(m - 1) |-> t[Nth(K, j)]]
      /\ RemoveFrom(t, S).idx = [k \in 0..(Cardinality(S) - 1) |-> Nth(S, k) - k]
      /\ RemoveFrom(t, S).sym = [k \in 0..(Cardinality(S) - 1) |-> t[Nth(S, k)]]
  BY <1>1 DEF RemoveFrom
<1>4. RemoveFrom(t, S).core \in TextOf(m)
  BY <1>1, <1>2, <1>3 DEF TextOf
<1> QED BY <1>3, <1>4 DEF K

\* What is put back: the symbols where they were, the core around them.
LEMMA InsertFacts ==
  ASSUME NEW n \in Nat, NEW t \in TextOf(n), NEW S \in SUBSET (0..(n - 1)),
         NEW core \in TextOf(Cardinality(Kept(n, S)))
  PROVE  /\ InsertInto(core, RemoveFrom(t, S)) \in TextOf(n)
         /\ \A x \in S : InsertInto(core, RemoveFrom(t, S))[x] = t[x]
         /\ \A x \in Kept(n, S) :
              InsertInto(core, RemoveFrom(t, S))[x] = core[Rank(Kept(n, S), x)]
<1> DEFINE r == RemoveFrom(t, S)
           s == Cardinality(S)
           K == Kept(n, S)
           m == Cardinality(K)
           at == {r.idx[k] + k : k \in DOMAIN r.idx}
           u == InsertInto(core, r)
<1>1. /\ s \in Nat /\ m \in Nat /\ m + s = n
      /\ \A x \in S : x \in 0..(n - 1) /\ Rank(S, x) \in 0..(s - 1) /\ Nth(S, Rank(S, x)) = x
      /\ \A k \in 0..(s - 1) : Nth(S, k) \in S
      /\ \A x \in K : /\ x \in 0..(n - 1) /\ x \notin S /\ x - Rank(S, x) = Rank(K, x)
                      /\ Rank(K, x) \in 0..(m - 1)
      /\ \A x \in 0..(n - 1) : x \in S \/ x \in K
  BY PlaceFacts
<1>2. /\ r.idx = [k \in 0..(s - 1) |-> Nth(S, k) - k]
      /\ r.sym = [k \in 0..(s - 1) |-> t[Nth(S, k)]]
  BY RemoveFacts
<1> HIDE DEF r, s, K
<1>3. at = S
  <2>1. ASSUME NEW k \in 0..(s - 1) PROVE r.idx[k] + k = Nth(S, k)
    BY <1>1, <1>2
  <2>2. DOMAIN r.idx = 0..(s - 1)
    BY <1>2
  <2>3. \A x \in S : \E k \in 0..(s - 1) : x = Nth(S, k)
    BY <1>1
  <2>4. at = {r.idx[k] + k : k \in 0..(s - 1)}
    BY <2>2
  <2>5. at = {Nth(S, k) : k \in 0..(s - 1)}
    BY <2>1, <2>4
  <2> HIDE DEF at
  <2>6. \A x \in S : x \in at
    BY <2>3, <2>5, Zenon
  <2>7. \A x \in at : x \in S
    BY <1>1, <2>5
  <2> QED BY <2>6, <2>7
<1>4. Size(core) = m /\ Size(r.idx) = s
  <2>1. DOMAIN r.idx = 0..(s - 1) /\ core \in TextOf(m)
    BY <1>2 DEF K
  <2> QED BY <1>1, <2>1, IntervalSize, TextFacts DEF Size
<1> HIDE DEF m
<1>5. u = [x \in 0..(n - 1) |->
             IF x \in S THEN r.sym[Rank(S, x)] ELSE core[x - Rank(S, x)]]
  <2>1. u = [x \in 0..(m + s - 1) |->
               IF x \in at THEN r.sym[Rank(at, x)] ELSE core[x - Rank(at, x)]]
    BY <1>4 DEF InsertInto
  <2>2. m + s - 1 = n - 1
    BY <1>1
  <2> HIDE DEF at, u
  <2> QED BY <1>3, <2>1, <2>2, Zenon
<1> HIDE DEF u
<1>6. ASSUME NEW x \in S PROVE u[x] = t[x]
  <2>1. x \in 0..(n - 1) /\ Rank(S, x) \in 0..(s - 1) /\ Nth(S, Rank(S, x)) = x
    BY <1>1
  <2>2. u[x] = r.sym[Rank(S, x)]
    BY <1>5, <2>1
  <2> QED BY <1>2, <2>1, <2>2
<1>7. ASSUME NEW x \in K PROVE u[x] = core[Rank(K, x)]
  BY <1>1, <1>5
<1>8. u \in TextOf(n)
  <2>1. ASSUME NEW x \in 0..(n - 1) PROVE u[x] \in Symbols
    <3>1. CASE x \in S
      BY <1>6, <3>1, TextFacts
    <3>2. CASE x \in K
      <4>1. core \in TextOf(m) /\ Rank(K, x) \in 0..(m - 1)
        BY <1>1, <3>2 DEF K, m
      <4>2. core[Rank(K, x)] \in Symbols
        BY <1>1, <4>1, TextFacts
      <4> QED BY <1>7, <3>2, <4>2
    <3> QED BY <1>1, <3>1, <3>2
  <2>2. u = [x \in 0..(n - 1) |-> u[x]]
    BY <1>5
  <2> QED BY <2>1, <2>2 DEF TextOf
<1> QED BY <1>6, <1>7, <1>8 DEF u, r, K

\* A core put in and taken out again is the same, and so are the interruptors.
LEMMA InsertThenRemove ==
  ASSUME NEW n \in Nat, NEW t \in TextOf(n), NEW S \in SUBSET (0..(n - 1)),
         NEW core \in TextOf(Cardinality(Kept(n, S)))
  PROVE  /\ RemoveFrom(InsertInto(core, RemoveFrom(t, S)), S).core = core
         /\ RemoveFrom(InsertInto(core, RemoveFrom(t, S)), S).sym = RemoveFrom(t, S).sym
<1> DEFINE u == InsertInto(core, RemoveFrom(t, S))
           K == Kept(n, S)
           m == Cardinality(K)
           s == Cardinality(S)
<1>1. /\ u \in TextOf(n)
      /\ \A x \in S : u[x] = t[x]
      /\ \A x \in K : u[x] = core[Rank(K, x)]
  BY InsertFacts
<1>2. /\ m \in Nat /\ \A k \in 0..(s - 1) : Nth(S, k) \in S
      /\ \A j \in 0..(m - 1) : Nth(K, j) \in K /\ Rank(K, Nth(K, j)) = j
  BY PlaceFacts
<1> HIDE DEF u
<1>3. /\ RemoveFrom(u, S).core \in TextOf(m)
      /\ \A j \in 0..(m - 1) : RemoveFrom(u, S).core[j] = u[Nth(K, j)]
      /\ RemoveFrom(u, S).sym = [k \in 0..(s - 1) |-> u[Nth(S, k)]]
      /\ RemoveFrom(t, S).sym = [k \in 0..(s - 1) |-> t[Nth(S, k)]]
  BY <1>1, RemoveFacts
<1>4. RemoveFrom(u, S).core = core
  <2>1. \A j \in 0..(m - 1) : RemoveFrom(u, S).core[j] = core[j]
    BY <1>1, <1>2, <1>3
  <2> QED BY <1>2, <1>3, <2>1, TextFacts
<1>5. RemoveFrom(u, S).sym = RemoveFrom(t, S).sym
  <2>1. \A k \in 0..(s - 1) : u[Nth(S, k)] = t[Nth(S, k)]
    BY <1>1, <1>2
  <2> QED BY <1>3, <2>1
<1> QED BY <1>4, <1>5 DEF u

\* A text with the same interruptors is the one its core gives.
LEMMA RemoveThenInsert ==
  ASSUME NEW n \in Nat, NEW t \in TextOf(n), NEW v \in TextOf(n),
         NEW S \in SUBSET (0..(n - 1)), RemoveFrom(v, S).sym = RemoveFrom(t, S).sym
  PROVE  InsertInto(RemoveFrom(v, S).core, RemoveFrom(t, S)) = v
<1> DEFINE K == Kept(n, S)
           m == Cardinality(K)
           s == Cardinality(S)
           core == RemoveFrom(v, S).core
           u == InsertInto(core, RemoveFrom(t, S))
<1>1. /\ core \in TextOf(m)
      /\ \A j \in 0..(m - 1) : core[j] = v[Nth(K, j)]
      /\ RemoveFrom(v, S).sym = [k \in 0..(s - 1) |-> v[Nth(S, k)]]
      /\ RemoveFrom(t, S).sym = [k \in 0..(s - 1) |-> t[Nth(S, k)]]
  BY RemoveFacts
<1>2. /\ \A x \in S : Rank(S, x) \in 0..(s - 1) /\ Nth(S, Rank(S, x)) = x
      /\ \A x \in K : Rank(K, x) \in 0..(m - 1) /\ Nth(K, Rank(K, x)) = x
      /\ \A x \in 0..(n - 1) : x \in S \/ x \in K
  BY PlaceFacts
<1> HIDE DEF core
<1>3. /\ u \in TextOf(n)
      /\ \A x \in S : u[x] = t[x]
      /\ \A x \in K : u[x] = core[Rank(K, x)]
  BY <1>1, InsertFacts
<1>4. ASSUME NEW x \in S PROVE v[x] = t[x]
  <2> DEFINE f == [k \in 0..(s - 1) |-> v[Nth(S, k)]]
             g == [k \in 0..(s - 1) |-> t[Nth(S, k)]]
  <2>1. f = g
    BY <1>1
  <2>2. Rank(S, x) \in 0..(s - 1) /\ Nth(S, Rank(S, x)) = x
    BY <1>2
  <2>3. f[Rank(S, x)] = v[x] /\ g[Rank(S, x)] = t[x]
    BY <2>2
  <2> QED BY <2>1, <2>3
<1> HIDE DEF u
<1>5. \A x \in 0..(n - 1) : u[x] = v[x]
  BY <1>1, <1>2, <1>3, <1>4
<1>6. u = v
  BY <1>3, <1>5, TextFacts
<1> QED BY <1>6 DEF u, core

-----------------------------------------------------------------------------
(* Orientation.                                                               *)

\* The orientation's permutation, if it has one, is of texts of n symbols.
FitsText(o, n) == o.perm # NoPerm => o.perm \in Bijection(0..(n - 1), 0..(n - 1))

LEMMA InverseFacts ==
  ASSUME NEW D, NEW p \in Bijection(D, D)
  PROVE  /\ p \in [D -> D] /\ InverseOf(p) \in [D -> D]
         /\ \A x \in D : p[InverseOf(p)[x]] = x /\ InverseOf(p)[p[x]] = x
<1>1. /\ p \in [D -> D]
      /\ \A x, y \in D : p[x] = p[y] => x = y
      /\ \A y \in D : \E x \in D : p[x] = y
  BY DEF Bijection, Injection, Surjection, IsInjective
<1>2. InverseOf(p) = [x \in D |-> CHOOSE i \in D : p[i] = x]
  BY <1>1 DEF InverseOf
<1>3. ASSUME NEW x \in D
      PROVE  InverseOf(p)[x] \in D /\ p[InverseOf(p)[x]] = x
  BY <1>1, <1>2
<1>4. InverseOf(p) \in [D -> D]
  BY <1>2, <1>3
<1>5. \A x \in D : InverseOf(p)[p[x]] = x
  BY <1>1, <1>3
<1> QED BY <1>1, <1>3, <1>4, <1>5

\* Permuting a text and undoing it.
LEMMA FullTextPermFacts ==
  ASSUME NEW n \in Nat, NEW t \in TextOf(n), NEW o, FitsText(o, n)
  PROVE  /\ ApplyFullTextPerm(o, t) \in TextOf(n)
         /\ UndoFullTextPerm(o, t) \in TextOf(n)
         /\ ApplyFullTextPerm(o, UndoFullTextPerm(o, t)) = t
         /\ UndoFullTextPerm(o, ApplyFullTextPerm(o, t)) = t
<1> DEFINE D == 0..(n - 1)
           p == o.perm
           q == InverseOf(p)
<1>1. CASE o.perm = NoPerm
  BY <1>1 DEF ApplyFullTextPerm, UndoFullTextPerm
<1>2. CASE o.perm # NoPerm
  <2>1. p \in Bijection(D, D)
    BY <1>2 DEF FitsText
  <2>2. p \in [D -> D] /\ q \in [D -> D] /\ \A x \in D : p[q[x]] = x /\ q[p[x]] = x
    BY <2>1, InverseFacts
  <2>3. DOMAIN t = D /\ \A x \in D : t[x] \in Symbols
    BY TextFacts
  <2> DEFINE a == [i \in D |-> t[p[i]]]
             u == [i \in D |-> t[q[i]]]
  <2>4. ApplyFullTextPerm(o, t) = a /\ UndoFullTextPerm(o, t) = u
    BY <1>2, <2>3 DEF ApplyFullTextPerm, UndoFullTextPerm
  <2>5. a \in TextOf(n) /\ u \in TextOf(n)
    BY <2>2, <2>3 DEF TextOf
  <2>6. /\ UndoFullTextPerm(o, a) = [i \in D |-> a[q[i]]]
        /\ ApplyFullTextPerm(o, u) = [i \in D |-> u[p[i]]]
    BY <1>2 DEF ApplyFullTextPerm, UndoFullTextPerm
  <2>7. \A i \in D : a[q[i]] = t[i] /\ u[p[i]] = t[i]
    BY <2>2
  <2>8. t = [i \in D |-> t[i]]
    BY DEF TextOf
  <2> HIDE DEF a, u, D, q, p
  <2>9. UndoFullTextPerm(o, a) = t /\ ApplyFullTextPerm(o, u) = t
    BY <2>6, <2>7, <2>8
  <2> QED BY <2>4, <2>5, <2>9
<1> QED BY <1>1, <1>2

\* The interruptors' places after the permutation are places of the text.
LEMMA MapInterruptIdxFacts ==
  ASSUME NEW n \in Nat, NEW o, FitsText(o, n), NEW S \in SUBSET (0..(n - 1))
  PROVE  MapInterruptIdx(o, S) \in SUBSET (0..(n - 1))
<1>1. CASE o.perm = NoPerm
  BY <1>1 DEF MapInterruptIdx
<1>2. CASE o.perm # NoPerm
  <2>1. InverseOf(o.perm) \in [0..(n - 1) -> 0..(n - 1)]
    BY <1>2, InverseFacts DEF FitsText
  <2> QED BY <1>2, <2>1 DEF MapInterruptIdx
<1> QED BY <1>1, <1>2

\* Turning a text round twice changes nothing.
LEMMA ApplyTextFacts ==
  ASSUME NEW n \in Nat, NEW t \in TextOf(n), NEW o
  PROVE  /\ ApplyText(o, t) \in TextOf(n)
         /\ ApplyText(o, ApplyText(o, t)) = t
<1>1. CASE ~ (o.perm = NoPerm /\ o.rtl)
  BY <1>1 DEF ApplyText
<1>2. CASE o.perm = NoPerm /\ o.rtl
  <2>1. DOMAIN t = 0..(n - 1) /\ Size(t) = n /\ \A x \in 0..(n - 1) : t[x] \in Symbols
    BY TextFacts
  <2> DEFINE a == [i \in 0..(n - 1) |-> t[n - 1 - i]]
             b == [i \in 0..(n - 1) |-> a[n - 1 - i]]
  <2>2. ApplyText(o, t) = a
    BY <1>2, <2>1 DEF ApplyText
  <2>3. a \in TextOf(n)
    BY <2>1 DEF TextOf
  <2>4. DOMAIN a = 0..(n - 1) /\ Size(a) = n
    BY <2>3, TextFacts
  <2>5. ApplyText(o, a) = b
    BY <1>2, <2>4 DEF ApplyText
  <2>6. b \in TextOf(n) /\ \A i \in 0..(n - 1) : b[i] = t[i]
    BY <2>1 DEF TextOf
  <2>7. b = t
    BY <2>6, TextFacts
  <2> QED BY <2>2, <2>3, <2>5, <2>7
<1> QED BY <1>1, <1>2

\* So many symbols reach the kernel.
CoreSize(o, n, S) == Cardinality(Kept(n, MapInterruptIdx(o, S)))

LEMMA PrepareFacts ==
  ASSUME NEW n \in Nat, NEW t \in TextOf(n), NEW o, FitsText(o, n),
         NEW S \in SUBSET (0..(n - 1))
  PROVE  CoreSize(o, n, S) \in Nat /\ Prepare(o, t, S).core \in TextOf(CoreSize(o, n, S))
<1>1. ApplyFullTextPerm(o, t) \in TextOf(n) /\ MapInterruptIdx(o, S) \in SUBSET (0..(n - 1))
  BY FullTextPermFacts, MapInterruptIdxFacts
<1> QED BY <1>1, PlaceFacts, RemoveFacts DEF Prepare, CoreSize

\* A text put together from a core is a text, and the kernel would see that core in
\* it, between the same interruptors.
LEMMA ReassembleFacts ==
  ASSUME NEW n \in Nat, NEW t \in TextOf(n), NEW o, FitsText(o, n),
         NEW S \in SUBSET (0..(n - 1)), NEW core \in TextOf(CoreSize(o, n, S))
  PROVE  /\ Reassemble(o, core, Prepare(o, t, S)) \in TextOf(n)
         /\ Prepare(o, Reassemble(o, core, Prepare(o, t, S)), S).core = ApplyText(o, core)
         /\ Prepare(o, Reassemble(o, core, Prepare(o, t, S)), S).sym = Prepare(o, t, S).sym
<1> DEFINE p == ApplyFullTextPerm(o, t)
           M == MapInterruptIdx(o, S)
           c == ApplyText(o, core)
           u == InsertInto(c, RemoveFrom(p, M))
<1>1. p \in TextOf(n) /\ M \in SUBSET (0..(n - 1))
  BY FullTextPermFacts, MapInterruptIdxFacts
<1>2. CoreSize(o, n, S) \in Nat
  BY PrepareFacts
<1>3. c \in TextOf(Cardinality(Kept(n, M)))
  BY <1>2, ApplyTextFacts DEF CoreSize
<1>4. Prepare(o, t, S) = RemoveFrom(p, M)
  BY DEF Prepare
<1>5. Reassemble(o, core, Prepare(o, t, S)) = UndoFullTextPerm(o, u)
  BY <1>4 DEF Reassemble
<1> HIDE DEF p, M, c
<1>6. /\ u \in TextOf(n)
      /\ RemoveFrom(u, M).core = c /\ RemoveFrom(u, M).sym = RemoveFrom(p, M).sym
  BY <1>1, <1>3, InsertFacts, InsertThenRemove
<1> HIDE DEF u
<1>7. UndoFullTextPerm(o, u) \in TextOf(n) /\ ApplyFullTextPerm(o, UndoFullTextPerm(o, u)) = u
  BY <1>6, FullTextPermFacts
<1>8. Prepare(o, UndoFullTextPerm(o, u), S) = RemoveFrom(u, M)
  BY <1>7 DEF Prepare, M
<1> QED BY <1>4, <1>5, <1>6, <1>7, <1>8 DEF c

\* Every text with the same interruptors is put together from its own core.
LEMMA PrepareThenReassemble ==
  ASSUME NEW n \in Nat, NEW t \in TextOf(n), NEW v \in TextOf(n), NEW o, FitsText(o, n),
         NEW S \in SUBSET (0..(n - 1)), Prepare(o, v, S).sym = Prepare(o, t, S).sym
  PROVE  Reassemble(o, ApplyText(o, Prepare(o, v, S).core), Prepare(o, t, S)) = v
<1> DEFINE p == ApplyFullTextPerm(o, t)
           w == ApplyFullTextPerm(o, v)
           M == MapInterruptIdx(o, S)
<1>1. /\ p \in TextOf(n) /\ w \in TextOf(n) /\ M \in SUBSET (0..(n - 1))
      /\ UndoFullTextPerm(o, w) = v
  BY FullTextPermFacts, MapInterruptIdxFacts
<1>2. Prepare(o, t, S) = RemoveFrom(p, M) /\ Prepare(o, v, S) = RemoveFrom(w, M)
  BY DEF Prepare
<1>3. CoreSize(o, n, S) \in Nat /\ Prepare(o, v, S).core \in TextOf(CoreSize(o, n, S))
  BY PrepareFacts
<1>4. ApplyText(o, ApplyText(o, Prepare(o, v, S).core)) = Prepare(o, v, S).core
  BY <1>3, ApplyTextFacts
<1>5. InsertInto(RemoveFrom(w, M).core, RemoveFrom(p, M)) = w
  <2> HIDE DEF p, w, M
  <2> QED BY <1>1, <1>2, RemoveThenInsert
<1> HIDE DEF p, w, M
<1> QED BY <1>1, <1>2, <1>4, <1>5 DEF Reassemble

\* The symbols at the interruptors stay where they are, whatever the kernel does.
LEMMA InterruptorsStay ==
  ASSUME NEW n \in Nat, NEW t \in TextOf(n), NEW o, FitsText(o, n),
         NEW S \in SUBSET (0..(n - 1)), NEW core \in TextOf(CoreSize(o, n, S)),
         NEW i \in S
  PROVE  Reassemble(o, core, Prepare(o, t, S))[i] = t[i]
<1> DEFINE p == ApplyFullTextPerm(o, t)
           M == MapInterruptIdx(o, S)
           c == ApplyText(o, core)
           u == InsertInto(c, RemoveFrom(p, M))
<1>1. p \in TextOf(n) /\ M \in SUBSET (0..(n - 1))
  BY FullTextPermFacts, MapInterruptIdxFacts
<1>2. CoreSize(o, n, S) \in Nat
  BY PrepareFacts
<1>3. c \in TextOf(Cardinality(Kept(n, M)))
  BY <1>2, ApplyTextFacts DEF CoreSize
<1>4. Reassemble(o, core, Prepare(o, t, S)) = UndoFullTextPerm(o, u)
  BY DEF Reassemble, Prepare
<1> HIDE DEF c
<1>5. u \in TextOf(n) /\ \A x \in M : u[x] = p[x]
  <2> HIDE DEF p, M
  <2> QED BY <1>1, <1>3, InsertFacts
<1> HIDE DEF u
<1>6. i \in 0..(n - 1) /\ DOMAIN t = 0..(n - 1) /\ DOMAIN u = 0..(n - 1)
  BY <1>5, TextFacts
<1>7. CASE o.perm = NoPerm
  <2>1. M = S /\ p = t /\ UndoFullTextPerm(o, u) = u
    BY <1>7 DEF MapInterruptIdx, ApplyFullTextPerm, UndoFullTextPerm
  <2> QED BY <1>4, <1>5, <2>1
<1>8. CASE o.perm # NoPerm
  <2> DEFINE q == InverseOf(o.perm)
  <2>1. q \in [0..(n - 1) -> 0..(n - 1)] /\ o.perm[q[i]] = i
    BY <1>6, <1>8, InverseFacts DEF FitsText
  <2>2. q[i] \in M /\ q[i] \in 0..(n - 1)
    BY <1>6, <1>8, <2>1 DEF MapInterruptIdx
  <2>3. p[q[i]] = t[o.perm[q[i]]]
    BY <1>6, <1>8, <2>2 DEF ApplyFullTextPerm
  <2>4. UndoFullTextPerm(o, u)[i] = u[q[i]]
    BY <1>6, <1>8 DEF UndoFullTextPerm
  <2> HIDE DEF p, q, M
  <2> QED BY <1>4, <1>5, <2>1, <2>2, <2>3, <2>4
<1> QED BY <1>7, <1>8

\* CipherPipelineMixin: encrypt and decrypt undo each other in every orientation and around any
\* interruptors, and leave these where they are, if the kernels undo each other on
\* texts of the length that is left: all that is lost in a cipher is lost in its kernel.
THEOREM PipelineIsLossless ==
  ASSUME NEW n \in Nat, NEW t \in TextOf(n), NEW o, FitsText(o, n),
         NEW S \in SUBSET (0..(n - 1)), NEW There(_), NEW Back(_),
         \A c \in TextOf(CoreSize(o, n, S)) :
           There(c) \in TextOf(CoreSize(o, n, S)) /\ Back(There(c)) = c
  PROVE  /\ Through(o, t, S, There) \in TextOf(n)
         /\ Through(o, Through(o, t, S, There), S, Back) = t
         /\ \A i \in S : Through(o, t, S, There)[i] = t[i]
<1> DEFINE k == CoreSize(o, n, S)
           x == ApplyText(o, Prepare(o, t, S).core)
           u == Reassemble(o, There(x), Prepare(o, t, S))
<1>1. Through(o, t, S, There) = u
  BY DEF Through
<1>2. k \in Nat /\ Prepare(o, t, S).core \in TextOf(k)
  BY PrepareFacts
<1>3. x \in TextOf(k)
  BY <1>2, ApplyTextFacts
<1>4. There(x) \in TextOf(k) /\ Back(There(x)) = x
  BY <1>3
<1> HIDE DEF k
<1>5. /\ u \in TextOf(n)
      /\ Prepare(o, u, S).core = ApplyText(o, There(x))
      /\ Prepare(o, u, S).sym = Prepare(o, t, S).sym
  <2> HIDE DEF x
  <2> QED BY <1>4, ReassembleFacts DEF k
<1>6. ApplyText(o, ApplyText(o, There(x))) = There(x)
  <2> HIDE DEF x
  <2> QED BY <1>2, <1>4, ApplyTextFacts
<1>7. Through(o, u, S, Back) = Reassemble(o, x, Prepare(o, u, S))
  <2>1. Through(o, u, S, Back) =
          Reassemble(o, Back(ApplyText(o, Prepare(o, u, S).core)), Prepare(o, u, S))
    BY DEF Through
  <2> HIDE DEF x, u
  <2> QED BY <1>4, <1>5, <1>6, <2>1
<1>8. Reassemble(o, x, Prepare(o, u, S)) = t
  <2> HIDE DEF u
  <2> QED BY <1>5, PrepareThenReassemble
<1>9. \A i \in S : u[i] = t[i]
  <2> HIDE DEF x
  <2> QED BY <1>4, InterruptorsStay DEF k
<1> HIDE DEF u, x
<1> QED BY <1>1, <1>5, <1>7, <1>8, <1>9

-----------------------------------------------------------------------------
(* Sequences of places.                                                       *)

LEMMA AscendingFacts ==
  ASSUME NEW S \in SUBSET Int, IsFiniteSet(S)
  PROVE  /\ Ascending(S) \in Seq(S) /\ Len(Ascending(S)) = Cardinality(S)
         /\ \A x \in S : /\ Rank(S, x) + 1 \in 1..Len(Ascending(S))
                         /\ Ascending(S)[Rank(S, x) + 1] = x
         /\ \A i \in 1..Len(Ascending(S)) : Ascending(S)[i] \in S
         /\ \A i, j \in 1..Len(Ascending(S)) : Ascending(S)[i] = Ascending(S)[j] => i = j
<1> DEFINE n == Cardinality(S)
           q == [i \in 1..n |-> Nth(S, i - 1)]
<1>1. /\ n \in Nat
      /\ \A k \in 0..(n - 1) : Nth(S, k) \in S /\ Rank(S, Nth(S, k)) = k
      /\ \A x \in S : Rank(S, x) \in 0..(n - 1) /\ Nth(S, Rank(S, x)) = x
  BY RankFacts, NthFacts
<1> HIDE DEF n
<1>2. \A i \in 1..n : q[i] \in S /\ Rank(S, q[i]) = i - 1
  BY <1>1
<1>3. \A x \in S : Rank(S, x) + 1 \in 1..n /\ q[Rank(S, x) + 1] = x
  <2> SUFFICES ASSUME NEW x \in S PROVE Rank(S, x) + 1 \in 1..n /\ q[Rank(S, x) + 1] = x
    OBVIOUS
  <2>1. Rank(S, x) \in 0..(n - 1) /\ Nth(S, Rank(S, x)) = x
    BY <1>1
  <2>2. Rank(S, x) + 1 \in 1..n /\ (Rank(S, x) + 1) - 1 = Rank(S, x)
    BY <1>1, <2>1
  <2> QED BY <2>1, <2>2
<1>4. q \in Seq(S) /\ Len(q) = n
  BY <1>1, <1>2
<1>5. \A i, j \in 1..n : q[i] = q[j] => i = j
  <2> SUFFICES ASSUME NEW i \in 1..n, NEW j \in 1..n, q[i] = q[j] PROVE i = j
    OBVIOUS
  <2>1. i - 1 = j - 1
    BY <1>2
  <2> QED BY <2>1
<1>6. q = Ascending(S)
  BY DEF Ascending, n
<1> HIDE DEF q
<1> QED BY <1>2, <1>3, <1>4, <1>5, <1>6 DEF n

\* The smaller and the largest of some numbers.
LEMMA MinFacts ==
  ASSUME NEW a \in Int, NEW b \in Int
  PROVE  Min({a, b}) = IF a <= b THEN a ELSE b
<1> DEFINE m == IF a <= b THEN a ELSE b
           P(x) == x \in {a, b} /\ \A y \in {a, b} : x <= y
<1>1. P(m)
  OBVIOUS
<1>2. \A x : P(x) => x = m
  OBVIOUS
<1>3. Min({a, b}) = CHOOSE x : P(x)
  BY DEF Min
<1> HIDE DEF P, m
<1>4. P(CHOOSE x : P(x))
  BY <1>1, Zenon
<1> QED BY <1>2, <1>3, <1>4 DEF m

LEMMA MaxFacts ==
  ASSUME NEW S \in SUBSET Int, NEW m \in S, \A x \in S : x <= m
  PROVE  Max(S) = m
<1> DEFINE P(x) == x \in S /\ \A y \in S : x >= y
<1>1. P(m)
  OBVIOUS
<1>2. \A x : P(x) => x = m
  <2> SUFFICES ASSUME NEW x, P(x) PROVE x = m
    OBVIOUS
  <2>1. x >= m /\ x <= m /\ x \in Int /\ m \in Int
    OBVIOUS
  <2> QED BY <2>1
<1>3. Max(S) = CHOOSE x : P(x)
  BY DEF Max
<1> HIDE DEF P
<1>4. P(CHOOSE x : P(x))
  BY <1>1, Zenon
<1> QED BY <1>2, <1>3, <1>4

-----------------------------------------------------------------------------
(* The problem and its keys.                                                  *)

\* The ciphertext's length, how many symbols of it a key has to decrypt, the key
\* value in force at a place, and the symbol there.
N == Size(problem.ciphertext)
CoreLen(key) == CoreSize(problem.orient, N, InterruptIdx(key))
KeyAt(key, i) == key.core[i % Size(key.core)]
Given(key) == CandidateInputs(key).text

LEMMA ProblemFacts ==
  ASSUME problem \in Problems
  PROVE  /\ N \in Nat /\ problem.ciphertext \in TextOf(N) /\ Texts = TextOf(N)
         /\ DOMAIN problem.ciphertext = 0..(N - 1)
         /\ FitsText(problem.orient, N)
         /\ problem.table \in [Symbols -> [Symbols -> SUBSET Symbols]]
         /\ problem.perPosition \in Int /\ problem.limit \in Int
         /\ problem.degeneracy \in {"forbid", "allow"}
         /\ problem.resolver \in {"first", "expand_beam"}
<1>1. /\ problem.table \in Tables /\ problem.ciphertext \in Ciphertexts
      /\ problem.perPosition \in Int /\ problem.limit \in Int
      /\ problem.degeneracy \in {"forbid", "allow"}
      /\ problem.resolver \in {"first", "expand_beam"}
  BY ProblemAssumption
<1>2. problem.orient.perm # NoPerm =>
        problem.orient.perm \in Bijection(DOMAIN problem.ciphertext, DOMAIN problem.ciphertext)
  BY ProblemAssumption
<1>3. /\ IsFiniteSet(DOMAIN problem.ciphertext)
      /\ problem.ciphertext \in [0..(N - 1) -> Symbols]
  BY <1>1, CipherAssumption DEF IsArray, N
<1>4. N \in Nat /\ DOMAIN problem.ciphertext = 0..(N - 1)
  BY <1>3, FS_CardinalityType DEF N, Size
<1>5. problem.table \in [Symbols -> [Symbols -> SUBSET Symbols]]
  BY <1>1, CipherAssumption
<1>6. Texts = TextOf(N)
  BY <1>4 DEF Texts, TextOf, Symbols
<1> QED BY <1>1, <1>2, <1>3, <1>4, <1>5, <1>6 DEF TextOf, FitsText

LEMMA KeyFacts ==
  ASSUME problem \in Problems, NEW key \in KeysOf(problem)
  PROVE  /\ InterruptIdx(key) \in SUBSET (0..(N - 1))
         /\ \A i \in Nat : KeyAt(key, i) \in Symbols
         /\ CoreLen(key) \in Nat
         /\ CandidateInputs(key).info = Prepare(problem.orient, problem.ciphertext, InterruptIdx(key))
         /\ Given(key) = ApplyText(problem.orient, CandidateInputs(key).info.core)
         /\ Given(key) \in TextOf(CoreLen(key))
<1>1. InterruptIdx(key) \in SUBSET (0..(N - 1))
  <2>1. CASE problem.search
    <3>1. key.at \in KeyPositions
      BY <2>1 DEF KeysOf
    <3> QED BY <2>1, <3>1, ProblemAssumption, ProblemFacts DEF InterruptIdx
  <2>2. CASE ~ problem.search
    BY <2>2, ProblemAssumption, ProblemFacts DEF InterruptIdx
  <2> QED BY <2>1, <2>2
<1>2. key.core \in Cores
  BY DEF KeysOf
<1>3. ASSUME NEW i \in Nat PROVE KeyAt(key, i) \in Symbols
  <2> DEFINE k == Size(key.core)
  <2>1. IsFiniteSet(DOMAIN key.core) /\ key.core \in [0..(k - 1) -> Symbols] /\ k > 0
    BY <1>2, CipherAssumption DEF IsArray
  <2>2. k \in Nat
    BY <2>1, FS_CardinalityType DEF Size
  <2> HIDE DEF k
  <2>3. i % k \in 0..(k - 1)
    BY <2>1, <2>2
  <2> QED BY <2>1, <2>3 DEF KeyAt, k
<1>4. CandidateInputs(key).info = Prepare(problem.orient, problem.ciphertext, InterruptIdx(key))
      /\ Given(key) = ApplyText(problem.orient, CandidateInputs(key).info.core)
  BY DEF CandidateInputs, Given
<1>5. /\ CoreLen(key) \in Nat
      /\ CandidateInputs(key).info.core \in TextOf(CoreLen(key))
  BY <1>1, <1>4, ProblemFacts, PrepareFacts DEF CoreLen
<1>6. Given(key) \in TextOf(CoreLen(key))
  BY <1>4, <1>5, ApplyTextFacts
<1> QED BY <1>1, <1>3, <1>4, <1>5, <1>6

\* The symbols that a symbol may stand for under a key value.
StandsFor(c, v) == {p \in Symbols : c \in problem.table[p][v]}

LEMMA InversesFacts ==
  ASSUME NEW c, NEW v
  PROVE  /\ Inverses(c, v) \in Seq(Symbols) /\ Len(Inverses(c, v)) <= A
         /\ \A j \in 1..Len(Inverses(c, v)) : Inverses(c, v)[j] \in StandsFor(c, v)
         /\ \A i, j \in 1..Len(Inverses(c, v)) : Inverses(c, v)[i] = Inverses(c, v)[j] => i = j
         /\ \A p \in StandsFor(c, v) : \E j \in 1..Len(Inverses(c, v)) : Inverses(c, v)[j] = p
         /\ Inverses(c, v) = <<>> <=> StandsFor(c, v) = {}
<1> DEFINE P == StandsFor(c, v)
           q == Inverses(c, v)
<1>1. q = Ascending(P)
  BY DEF Inverses, StandsFor, Symbols
<1>2. /\ P \in SUBSET Symbols /\ Symbols \in SUBSET Int
      /\ IsFiniteSet(Symbols) /\ Cardinality(Symbols) = A
  BY AlphabetAssumption, IntervalSize DEF StandsFor, Symbols
<1> HIDE DEF P, q
<1>3. IsFiniteSet(P) /\ Cardinality(P) <= A /\ P \in SUBSET Int
  BY <1>2, FS_Subset
<1>4. /\ q \in Seq(P) /\ Len(q) = Cardinality(P)
      /\ \A x \in P : Rank(P, x) + 1 \in 1..Len(q) /\ q[Rank(P, x) + 1] = x
      /\ \A i \in 1..Len(q) : q[i] \in P
      /\ \A i, j \in 1..Len(q) : q[i] = q[j] => i = j
  BY <1>1, <1>3, AscendingFacts
<1>5. q \in Seq(Symbols) /\ DOMAIN q = 1..Len(q) /\ Len(q) \in Nat
  <2>1. DOMAIN q = 1..Len(q) /\ Len(q) \in Nat /\ q = [i \in 1..Len(q) |-> q[i]]
    BY <1>4
  <2>2. \A i \in 1..Len(q) : q[i] \in Symbols
    BY <1>2, <1>4
  <2> DEFINE n == Len(q)
  <2>3. q \in [1..n -> Symbols]
    BY <2>1, <2>2
  <2> HIDE DEF n
  <2>4. q \in Seq(Symbols)
    BY <2>1, <2>3 DEF n
  <2> QED BY <2>1, <2>4
<1>6. q = <<>> <=> P = {}
  <2>1. ASSUME q = <<>> PROVE P = {}
    <3>1. 1..Len(q) = {}
      BY <1>5, <2>1
    <3> QED BY <1>4, <3>1
  <2>2. ASSUME P = {} PROVE q = <<>>
    BY <1>4, <1>5, <2>2
  <2> QED BY <2>1, <2>2
<1>7. \A p \in P : \E j \in 1..Len(q) : q[j] = p
  BY <1>4
<1> QED BY <1>3, <1>4, <1>5, <1>6, <1>7 DEF P, q

\* The decoder's choice is a symbol, and stands for the other if any does.
LEMMA DecFirstFacts ==
  ASSUME NEW c, NEW v
  PROVE  /\ DecFirst(c, v) \in Symbols
         /\ StandsFor(c, v) # {} => DecFirst(c, v) \in StandsFor(c, v)
<1>1. CASE StandsFor(c, v) = {}
  BY <1>1, InversesFacts, AlphabetAssumption DEF DecFirst, Symbols
<1>2. CASE StandsFor(c, v) # {}
  <2>1. Inverses(c, v) # <<>> /\ Inverses(c, v) \in Seq(Symbols)
    BY <1>2, InversesFacts
  <2>2. 1 \in 1..Len(Inverses(c, v))
    BY <2>1
  <2>3. Inverses(c, v)[1] \in StandsFor(c, v)
    BY <2>2, InversesFacts
  <2> QED BY <2>1, <2>3 DEF DecFirst, StandsFor
<1> QED BY <1>1, <1>2

\* The candidates at each place: some of the inverses, or all when no limit cuts
\* them, and none only if there is none.
LEMMA CandidatesFacts ==
  ASSUME problem \in Problems, NEW key \in KeysOf(problem)
  PROVE  /\ DOMAIN CandidatesFor(key) = 0..(CoreLen(key) - 1)
         /\ \A i \in 0..(CoreLen(key) - 1) :
              /\ CandidatesFor(key)[i] \in Seq(Symbols)
              /\ \A j \in 1..Len(CandidatesFor(key)[i]) :
                   CandidatesFor(key)[i][j] \in StandsFor(Given(key)[i], KeyAt(key, i))
              /\ \A j, h \in 1..Len(CandidatesFor(key)[i]) :
                   CandidatesFor(key)[i][j] = CandidatesFor(key)[i][h] => j = h
              /\ CandidatesFor(key)[i] = <<>> <=> StandsFor(Given(key)[i], KeyAt(key, i)) = {}
              /\ PerPositionLimit = A =>
                   \A p \in StandsFor(Given(key)[i], KeyAt(key, i)) :
                     \E j \in 1..Len(CandidatesFor(key)[i]) : CandidatesFor(key)[i][j] = p
<1>1. PerPositionLimit \in 1..A
  BY AlphabetAssumption DEF PerPositionLimit
<1>2. DOMAIN Given(key) = 0..(CoreLen(key) - 1)
  BY KeyFacts, TextFacts
<1> DEFINE All(i) == Inverses(Given(key)[i], KeyAt(key, i))
<1>3. CandidatesFor(key) = [i \in 0..(CoreLen(key) - 1) |->
                              SubSeq(All(i), 1, Min({PerPositionLimit, Len(All(i))}))]
  BY <1>2 DEF CandidatesFor, KeyAt, Given
<1> SUFFICES ASSUME NEW i \in 0..(CoreLen(key) - 1)
             PROVE  /\ CandidatesFor(key)[i] \in Seq(Symbols)
                    /\ \A j \in 1..Len(CandidatesFor(key)[i]) :
                         CandidatesFor(key)[i][j] \in StandsFor(Given(key)[i], KeyAt(key, i))
                    /\ \A j, h \in 1..Len(CandidatesFor(key)[i]) :
                         CandidatesFor(key)[i][j] = CandidatesFor(key)[i][h] => j = h
                    /\ CandidatesFor(key)[i] = <<>>
                         <=> StandsFor(Given(key)[i], KeyAt(key, i)) = {}
                    /\ PerPositionLimit = A =>
                         \A p \in StandsFor(Given(key)[i], KeyAt(key, i)) :
                           \E j \in 1..Len(CandidatesFor(key)[i]) : CandidatesFor(key)[i][j] = p
  BY <1>3
<1> DEFINE P == StandsFor(Given(key)[i], KeyAt(key, i))
           q == All(i)
           m == Min({PerPositionLimit, Len(q)})
           c == CandidatesFor(key)[i]
<1>4. /\ q \in Seq(Symbols) /\ Len(q) <= A /\ Len(q) \in Nat
      /\ \A j \in 1..Len(q) : q[j] \in P
      /\ \A j, h \in 1..Len(q) : q[j] = q[h] => j = h
      /\ \A p \in P : \E j \in 1..Len(q) : q[j] = p
      /\ q = <<>> <=> P = {}
  BY InversesFacts
<1>5. c = SubSeq(q, 1, m)
  BY <1>3
<1> HIDE DEF P, q, c
<1>6. m = IF PerPositionLimit <= Len(q) THEN PerPositionLimit ELSE Len(q)
  BY <1>1, <1>4, MinFacts
<1> HIDE DEF m
<1>7. /\ m \in 0..Len(q) /\ (m = 0 <=> Len(q) = 0) /\ (PerPositionLimit = A => m = Len(q))
  BY <1>1, <1>4, <1>6, AlphabetAssumption
<1>8. c \in Seq(Symbols) /\ Len(c) = m /\ \A j \in 1..m : c[j] = q[j]
  BY <1>4, <1>5, <1>7
<1>9. c = <<>> <=> P = {}
  <2>1. c = <<>> <=> m = 0
    BY <1>7, <1>8
  <2>2. q = <<>> <=> Len(q) = 0
    BY <1>4
  <2> QED BY <1>4, <1>7, <2>1, <2>2
<1>10. \A j \in 1..m : j \in 1..Len(q)
  BY <1>4, <1>7
<1> QED BY <1>4, <1>7, <1>8, <1>9, <1>10 DEF P, c

-----------------------------------------------------------------------------
(* What a key's texts are.                                                    *)

\* The text that a key's decrypted core gives.
FromCore(key, core) == Reassemble(problem.orient, core, CandidateInputs(key).info)

\* A decrypted core gives a text, which encrypts to the ciphertext just when every
\* symbol of the core stands for the ciphertext's; different cores, different texts.
LEMMA FromCoreFacts ==
  ASSUME problem \in Problems, NEW key \in KeysOf(problem), NEW core \in TextOf(CoreLen(key))
  PROVE  /\ FromCore(key, core) \in Texts
         /\ FromCore(key, core) \in Meanings(key) <=>
              \A i \in 0..(CoreLen(key) - 1) : core[i] \in StandsFor(Given(key)[i], KeyAt(key, i))
         /\ \A c \in TextOf(CoreLen(key)) : FromCore(key, c) = FromCore(key, core) => c = core
<1> DEFINE o == problem.orient
           S == InterruptIdx(key)
           info == CandidateInputs(key).info
           P(i) == StandsFor(Given(key)[i], KeyAt(key, i))
<1>1. /\ N \in Nat /\ problem.ciphertext \in TextOf(N) /\ FitsText(o, N) /\ Texts = TextOf(N)
      /\ S \in SUBSET (0..(N - 1)) /\ info = Prepare(o, problem.ciphertext, S)
      /\ CoreLen(key) = CoreSize(o, N, S) /\ CoreLen(key) \in Nat
  BY ProblemFacts, KeyFacts DEF CoreLen
<1> HIDE DEF o, S, info
<1>2. ASSUME NEW c \in TextOf(CoreLen(key))
      PROVE  /\ FromCore(key, c) \in TextOf(N)
             /\ ApplyText(o, Prepare(o, FromCore(key, c), S).core) = c
             /\ Prepare(o, FromCore(key, c), S).sym = info.sym
  <2>1. FromCore(key, c) = Reassemble(o, c, info)
    BY DEF FromCore, o, info
  <2>2. /\ Reassemble(o, c, info) \in TextOf(N)
        /\ Prepare(o, Reassemble(o, c, info), S).core = ApplyText(o, c)
        /\ Prepare(o, Reassemble(o, c, info), S).sym = info.sym
    BY <1>1, <1>2, ReassembleFacts
  <2>3. ApplyText(o, ApplyText(o, c)) = c
    BY <1>1, <1>2, ApplyTextFacts
  <2> QED BY <2>1, <2>2, <2>3
<1>3. /\ FromCore(key, core) \in TextOf(N)
      /\ ApplyText(o, Prepare(o, FromCore(key, core), S).core) = core
      /\ Prepare(o, FromCore(key, core), S).sym = info.sym
  BY <1>2
<1>4. DOMAIN core = 0..(CoreLen(key) - 1) /\ \A i \in 0..(CoreLen(key) - 1) : core[i] \in Symbols
  BY <1>1, TextFacts
<1>5. EncryptsTo(FromCore(key, core), key) <=>
        /\ Prepare(o, FromCore(key, core), S).sym = info.sym
        /\ \A i \in DOMAIN ApplyText(o, Prepare(o, FromCore(key, core), S).core) :
             Given(key)[i] \in
               problem.table[ApplyText(o, Prepare(o, FromCore(key, core), S).core)[i]][KeyAt(key, i)]
  BY DEF EncryptsTo, o, S, info, Given, KeyAt
<1>6. EncryptsTo(FromCore(key, core), key) <=>
        \A i \in 0..(CoreLen(key) - 1) : Given(key)[i] \in problem.table[core[i]][KeyAt(key, i)]
  BY <1>3, <1>4, <1>5
<1>7. FromCore(key, core) \in Meanings(key) <=> \A i \in 0..(CoreLen(key) - 1) : core[i] \in P(i)
  BY <1>1, <1>3, <1>4, <1>6 DEF Meanings, StandsFor
<1>8. \A c \in TextOf(CoreLen(key)) : FromCore(key, c) = FromCore(key, core) => c = core
  BY <1>2, <1>3
<1> QED BY <1>1, <1>3, <1>7, <1>8

\* Every text that encrypts to the ciphertext is given by a core of such symbols.
LEMMA MeaningHasCore ==
  ASSUME problem \in Problems, NEW key \in KeysOf(problem), NEW t \in Meanings(key)
  PROVE  \E core \in TextOf(CoreLen(key)) :
           /\ FromCore(key, core) = t
           /\ \A i \in 0..(CoreLen(key) - 1) : core[i] \in StandsFor(Given(key)[i], KeyAt(key, i))
<1> DEFINE o == problem.orient
           S == InterruptIdx(key)
           info == CandidateInputs(key).info
           core == ApplyText(o, Prepare(o, t, S).core)
<1>1. /\ N \in Nat /\ problem.ciphertext \in TextOf(N) /\ FitsText(o, N) /\ Texts = TextOf(N)
      /\ S \in SUBSET (0..(N - 1)) /\ info = Prepare(o, problem.ciphertext, S)
      /\ CoreLen(key) = CoreSize(o, N, S) /\ CoreLen(key) \in Nat
  BY ProblemFacts, KeyFacts DEF CoreLen
<1>2. t \in TextOf(N) /\ Prepare(o, t, S).sym = info.sym
  BY <1>1 DEF Meanings, EncryptsTo
<1>3. FromCore(key, core) = Reassemble(o, core, info)
  BY DEF FromCore
<1> HIDE DEF o, S, info
<1>4. Prepare(o, t, S).core \in TextOf(CoreLen(key))
  BY <1>1, <1>2, PrepareFacts
<1>5. core \in TextOf(CoreLen(key))
  BY <1>1, <1>4, ApplyTextFacts
<1>6. Reassemble(o, core, info) = t
  BY <1>1, <1>2, PrepareThenReassemble
<1>7. FromCore(key, core) = t
  BY <1>3, <1>6
<1> HIDE DEF core
<1>8. \A i \in 0..(CoreLen(key) - 1) : core[i] \in StandsFor(Given(key)[i], KeyAt(key, i))
  BY <1>5, <1>7, FromCoreFacts
<1> QED BY <1>5, <1>7, <1>8

\* The cipher's own plaintext is a text, and encrypts to the ciphertext if any does.
LEMMA DecryptFacts ==
  ASSUME problem \in Problems, NEW key \in KeysOf(problem)
  PROVE  /\ Decrypt(key) \in Texts
         /\ (\A i \in 0..(CoreLen(key) - 1) : StandsFor(Given(key)[i], KeyAt(key, i)) # {})
              => Decrypt(key) \in Meanings(key)
<1> DEFINE core == [i \in 0..(CoreLen(key) - 1) |-> DecFirst(Given(key)[i], KeyAt(key, i))]
<1>1. DOMAIN Given(key) = 0..(CoreLen(key) - 1)
  BY KeyFacts, TextFacts
<1>2. Decrypt(key) = FromCore(key, core)
  <2>1. Decrypt(key) =
          Reassemble(problem.orient,
                     [i \in DOMAIN Given(key) |-> DecFirst(Given(key)[i], KeyAt(key, i))],
                     CandidateInputs(key).info)
    BY DEF Decrypt, Through, CandidateInputs, Given, KeyAt
  <2> QED BY <1>1, <2>1 DEF FromCore
<1>3. core \in TextOf(CoreLen(key))
  BY DecFirstFacts DEF TextOf
<1>4. \A i \in 0..(CoreLen(key) - 1) :
        StandsFor(Given(key)[i], KeyAt(key, i)) # {}
          => core[i] \in StandsFor(Given(key)[i], KeyAt(key, i))
  BY DecFirstFacts
<1> HIDE DEF core
<1> QED BY <1>2, <1>3, <1>4, FromCoreFacts

\* A key is invalid just when no text encrypts to the ciphertext under it.
LEMMA InvalidMeans ==
  ASSUME problem \in Problems, NEW key \in KeysOf(problem)
  PROVE  /\ Invalid(key) <=> \E i \in 0..(CoreLen(key) - 1) :
                               StandsFor(Given(key)[i], KeyAt(key, i)) = {}
         /\ Invalid(key) <=> Meanings(key) = {}
         /\ Meanings(key) # {} => Decrypt(key) \in Meanings(key)
<1>1. Invalid(key) <=> \E i \in 0..(CoreLen(key) - 1) :
                         StandsFor(Given(key)[i], KeyAt(key, i)) = {}
  <2>1. DOMAIN CandidatesFor(key) = 0..(CoreLen(key) - 1)
    BY CandidatesFacts
  <2>2. \A i \in 0..(CoreLen(key) - 1) :
          CandidatesFor(key)[i] = <<>> <=> StandsFor(Given(key)[i], KeyAt(key, i)) = {}
    BY CandidatesFacts
  <2> QED BY <2>1, <2>2, Zenon DEF Invalid
<1>2. ASSUME NEW t \in Meanings(key), NEW i \in 0..(CoreLen(key) - 1)
      PROVE  StandsFor(Given(key)[i], KeyAt(key, i)) # {}
  BY MeaningHasCore
<1>3. ~ Invalid(key) => Decrypt(key) \in Meanings(key)
  BY <1>1, DecryptFacts
<1> QED BY <1>1, <1>2, <1>3

-----------------------------------------------------------------------------
(* The mixed-radix counter.                                                   *)

LEMMA Division ==
  ASSUME NEW a \in Nat, NEW b \in Nat \ {0}
  PROVE  a \div b \in Nat /\ a % b \in 0..(b - 1) /\ a = b * (a \div b) + (a % b)
OBVIOUS

LEMMA DivisionIsUnique ==
  ASSUME NEW b \in Nat \ {0}, NEW q \in Nat, NEW r \in 0..(b - 1)
  PROVE  (b * q + r) \div b = q /\ (b * q + r) % b = r
OBVIOUS

LEMMA DigitOnTop ==
  ASSUME NEW b \in Nat \ {0}, NEW h \in Nat, NEW d \in 0..(b - 1)
  PROVE  b * h + d \in Nat /\ (b * h + d) % b = d
<1>1. b * h \in Nat
  OBVIOUS
<1>2. b * h + d \in Nat
  BY <1>1
<1> QED BY <1>2, DivisionIsUnique

LEMMA Products ==
  ASSUME NEW a \in Nat, NEW b \in Nat
  PROVE  a * b \in Nat /\ (a # 0 /\ b # 0 => a * b # 0)
OBVIOUS

\* A digit and what is below it make up a number below the next digit's weight.
LEMMA DigitBelow ==
  ASSUME NEW b \in Nat \ {0}, NEW c \in Nat \ {0}, NEW d \in 0..(b - 1), NEW r \in 0..(c - 1)
  PROVE  c * d + r \in 0..(b * c - 1)
<1>1. d + 1 \in Nat /\ d + 1 <= b
  OBVIOUS
<1>2. c * (d + 1) <= c * b
  BY <1>1
<1>3. c * (d + 1) = c * d + c /\ c * b = b * c /\ c * d \in Nat /\ b * c \in Nat
  OBVIOUS
<1> QED BY <1>2, <1>3

\* The rest of a number by a product: its digit and the rest below.
LEMMA RestOfProduct ==
  ASSUME NEW b \in Nat \ {0}, NEW c \in Nat \ {0}, NEW a \in Nat
  PROVE  a % (b * c) = c * ((a \div c) % b) + (a % c)
<1> DEFINE q == a \div c
           r == a % c
           h == q \div b
           d == q % b
           low == c * d + r
<1>1. q \in Nat /\ r \in 0..(c - 1) /\ a = c * q + r
  BY Division
<1> HIDE DEF q, r
<1>2. h \in Nat /\ d \in 0..(b - 1) /\ q = b * h + d
  BY <1>1, Division
<1> HIDE DEF h, d
<1>3. low \in 0..(b * c - 1) /\ b * c \in Nat \ {0}
  BY <1>1, <1>2, DigitBelow, Products
<1>4. a = (b * c) * h + low
  <2>1. c * (b * h + d) = (b * c) * h + c * d
    BY <1>2
  <2> QED BY <1>1, <1>2, <2>1
<1> HIDE DEF low
<1>5. a % (b * c) = low
  BY <1>2, <1>3, <1>4, DivisionIsUnique
<1> QED BY <1>5 DEF low, d, q, r

\* The weight of each place's digit: the product of the lengths after it.
Weights(cands) ==
  CHOOSE later : later = [i \in DOMAIN cands |->
                            IF i + 1 \notin DOMAIN cands THEN 1
                            ELSE Len(cands[i + 1]) * later[i + 1]]

Total(cands) == Len(cands[0]) * Weights(cands)[0]

\* The digit of a number at a place, and the choice it makes there.
Digit(cands, n, i) == (n \div Weights(cands)[i]) % Len(cands[i])
Choice(cands, n) == [i \in DOMAIN cands |-> cands[i][Digit(cands, n, i) + 1]]

LEMMA EnumerateIs ==
  ASSUME NEW cands, DOMAIN cands # {}
  PROVE  Enumerate(cands) =
           [n \in 1 .. Min({ResolverLimit, Total(cands)}) |-> Choice(cands, n - 1)]
BY Zenon DEF Enumerate, Weights, Total, Choice, Digit

\* Places 0 to k, each with something to choose from.
HasChoices(cands, k) ==
  /\ k \in Nat /\ DOMAIN cands = 0..k
  /\ \A i \in 0..k : cands[i] \in Seq(Symbols) /\ Len(cands[i]) \in Nat \ {0}

LEMMA WeightsAreDefined ==
  ASSUME NEW cands, NEW k, HasChoices(cands, k)
  PROVE  /\ DOMAIN Weights(cands) = 0..k
         /\ Weights(cands)[k] = 1
         /\ \A i \in 0..(k - 1) : Weights(cands)[i] = Len(cands[i + 1]) * Weights(cands)[i + 1]
<1> DEFINE F(m, g) == [i \in (k - m)..k |->
                         IF i + 1 \notin 0..k THEN 1 ELSE Len(cands[i + 1]) * g[i + 1]]
           S == {m \in 0..k : \E g : g = F(m, g)}
<1>1. k \in Nat /\ DOMAIN cands = 0..k
  BY DEF HasChoices
<1>2. 0 \in S
  <2> DEFINE g == [i \in (k - 0)..k |-> 1]
  <2>1. g = F(0, g)
    <3>1. \A i \in (k - 0)..k : i + 1 \notin 0..k
      BY <1>1
    <3> QED BY <3>1
  <2> HIDE DEF g, F
  <2> QED BY <1>1, <2>1
<1>3. ASSUME NEW m \in 0..(k - 1), m \in S PROVE m + 1 \in S
  <2>1. PICK g : g = F(m, g)
    BY <1>3
  <2> DEFINE w == k - (m + 1)
             h == [i \in w..k |-> IF i = w THEN Len(cands[w + 1]) * g[w + 1] ELSE g[i]]
  <2>2. w \in 0..(k - 1) /\ w + 1 = k - m /\ w + 1 \in 0..k /\ w \in Int
    BY <1>1
  <2> HIDE DEF w
  <2>3. ASSUME NEW i \in w..k
        PROVE  h[i] = IF i + 1 \notin 0..k THEN 1 ELSE Len(cands[i + 1]) * h[i + 1]
    <3>1. CASE i = w
      <4>1. i + 1 \in 0..k /\ i + 1 \in w..k /\ i + 1 # w
        BY <1>1, <2>2, <3>1
      <4>2. h[i] = Len(cands[w + 1]) * g[w + 1] /\ h[i + 1] = g[w + 1]
        BY <3>1, <4>1
      <4> HIDE DEF h
      <4> QED BY <3>1, <4>1, <4>2
    <3>2. CASE i # w
      <4>1. i \in (k - m)..k /\ h[i] = g[i] /\ i \in Int
        BY <1>1, <2>2, <3>2
      <4>2. g[i] = IF i + 1 \notin 0..k THEN 1 ELSE Len(cands[i + 1]) * g[i + 1]
        BY <2>1, <4>1
      <4>3. i + 1 \in 0..k => i + 1 \in w..k /\ i + 1 # w /\ h[i + 1] = g[i + 1]
        BY <1>1, <2>2, <3>2, <4>1
      <4> HIDE DEF h
      <4> QED BY <4>1, <4>2, <4>3
    <3> QED BY <3>1, <3>2
  <2>4. h = F(m + 1, h)
    <3>1. h = [i \in w..k |-> h[i]]
      OBVIOUS
    <3>2. F(m + 1, h) = [i \in w..k |->
                           IF i + 1 \notin 0..k THEN 1 ELSE Len(cands[i + 1]) * h[i + 1]]
      BY DEF w
    <3> HIDE DEF h, F
    <3> QED BY <2>3, <3>1, <3>2
  <2>5. m + 1 \in 0..k
    BY <1>1
  <2> HIDE DEF F, h
  <2> QED BY <2>4, <2>5
<1>4. k \in S
  <2> HIDE DEF S
  <2>1. 0..k \subseteq S
    BY <1>1, <1>2, <1>3, IntervalInduction
  <2> QED BY <1>1, <2>1
<1>5. \E g : g = [i \in 0..k |->
                    IF i + 1 \notin 0..k THEN 1 ELSE Len(cands[i + 1]) * g[i + 1]]
  <2>1. k - k = 0
    BY <1>1
  <2> QED BY <1>4, <2>1
<1> DEFINE W == Weights(cands)
<1>6. W = [i \in 0..k |-> IF i + 1 \notin 0..k THEN 1 ELSE Len(cands[i + 1]) * W[i + 1]]
  BY <1>1, <1>5, Zenon DEF Weights
<1> HIDE DEF W
<1>7. /\ k \in 0..k /\ k + 1 \notin 0..k
      /\ \A i \in 0..(k - 1) : i \in 0..k /\ i + 1 \in 0..k
  BY <1>1
<1> QED BY <1>6, <1>7 DEF W

LEMMA WeightsArePositive ==
  ASSUME NEW cands, NEW k, HasChoices(cands, k)
  PROVE  \A i \in 0..k : Weights(cands)[i] \in Nat \ {0}
<1> DEFINE W == Weights(cands)
           S == {m \in 0..k : W[k - m] \in Nat \ {0}}
<1>1. /\ k \in Nat /\ W[k] = 1
      /\ \A i \in 0..(k - 1) : W[i] = Len(cands[i + 1]) * W[i + 1]
      /\ \A i \in 0..k : Len(cands[i]) \in Nat \ {0}
  BY WeightsAreDefined DEF HasChoices
<1> HIDE DEF W
<1>2. 0 \in S
  BY <1>1
<1>3. ASSUME NEW m \in 0..(k - 1), m \in S PROVE m + 1 \in S
  <2> DEFINE i == k - (m + 1)
  <2>1. i \in 0..(k - 1) /\ i + 1 = k - m /\ i + 1 \in 0..k /\ m + 1 \in 0..k
    BY <1>1
  <2> HIDE DEF i
  <2>2. W[i + 1] \in Nat \ {0} /\ Len(cands[i + 1]) \in Nat \ {0}
    BY <1>1, <1>3, <2>1
  <2>3. W[i] \in Nat \ {0}
    BY <1>1, <2>1, <2>2, Products
  <2> QED BY <2>1, <2>3 DEF i
<1>4. 0..k \subseteq S
  <2> HIDE DEF S
  <2> QED BY <1>1, <1>2, <1>3, IntervalInduction
<1>5. ASSUME NEW i \in 0..k PROVE W[i] \in Nat \ {0}
  <2>1. k - i \in 0..k /\ k - (k - i) = i
    BY <1>1
  <2>2. k - i \in S
    BY <1>4, <2>1
  <2> QED BY <2>1, <2>2
<1> QED BY <1>5 DEF W

\* What follows from a place on: its choices times its weight.
Span(cands, i) == Len(cands[i]) * Weights(cands)[i]

LEMMA SpanFacts ==
  ASSUME NEW cands, NEW k, HasChoices(cands, k)
  PROVE  /\ \A i \in 0..k : Span(cands, i) \in Nat \ {0}
         /\ Span(cands, k) = Len(cands[k])
         /\ \A i \in 0..(k - 1) : Weights(cands)[i] = Span(cands, i + 1)
         /\ Total(cands) = Span(cands, 0) /\ Total(cands) \in Nat \ {0}
<1>1. /\ k \in Nat /\ \A i \in 0..k : Len(cands[i]) \in Nat \ {0}
      /\ Weights(cands)[k] = 1
      /\ \A i \in 0..(k - 1) : Weights(cands)[i] = Len(cands[i + 1]) * Weights(cands)[i + 1]
      /\ \A i \in 0..k : Weights(cands)[i] \in Nat \ {0}
  BY WeightsAreDefined, WeightsArePositive DEF HasChoices
<1>2. \A i \in 0..k : Span(cands, i) \in Nat \ {0}
  BY <1>1, Products DEF Span
<1>3. k \in 0..k /\ 0 \in 0..k
  BY <1>1
<1>4. Span(cands, k) = Len(cands[k])
  BY <1>1, <1>3 DEF Span
<1> QED BY <1>1, <1>2, <1>3, <1>4 DEF Span, Total

\* Any digits are those of some number below the total: from the last place up, the
\* numbers below a place's span have all the digits from there on, whatever is added
\* above them.
LEMMA DigitsAreReached ==
  ASSUME NEW cands, NEW k, HasChoices(cands, k), NEW d,
         \A i \in 0..k : d[i] \in 0..(Len(cands[i]) - 1)
  PROVE  \E n \in 0..(Total(cands) - 1) : \A i \in 0..k : Digit(cands, n, i) = d[i]
<1> DEFINE Reached(i, n) ==
             \A h \in Nat : \A x \in i..k : Digit(cands, Span(cands, i) * h + n, x) = d[x]
           S == {m \in 0..k : \E n \in 0..(Span(cands, k - m) - 1) : Reached(k - m, n)}
<1>1. /\ k \in Nat /\ \A i \in 0..k : Len(cands[i]) \in Nat \ {0}
      /\ \A i \in 0..k : Weights(cands)[i] \in Nat \ {0}
      /\ Weights(cands)[k] = 1
      /\ \A i \in 0..k : Span(cands, i) \in Nat \ {0}
      /\ Span(cands, k) = Len(cands[k])
      /\ \A i \in 0..(k - 1) : Weights(cands)[i] = Span(cands, i + 1)
      /\ Total(cands) = Span(cands, 0) /\ Total(cands) \in Nat \ {0}
  BY WeightsAreDefined, WeightsArePositive, SpanFacts DEF HasChoices
<1>2. ASSUME NEW i \in 0..k, NEW h \in Nat, NEW low \in 0..(Weights(cands)[i] - 1)
      PROVE  /\ Span(cands, i) * h + (Weights(cands)[i] * d[i] + low)
                  = Weights(cands)[i] * (Len(cands[i]) * h + d[i]) + low
             /\ Len(cands[i]) * h + d[i] \in Nat
             /\ Digit(cands, Span(cands, i) * h + (Weights(cands)[i] * d[i] + low), i) = d[i]
  <2> DEFINE L == Len(cands[i])
             w == Weights(cands)[i]
             q == L * h + d[i]
  <2>1. L \in Nat \ {0} /\ w \in Nat \ {0} /\ d[i] \in 0..(L - 1) /\ d[i] \in Nat
        /\ low \in 0..(w - 1) /\ Span(cands, i) = L * w
    BY <1>1 DEF Span
  <2> HIDE DEF L, w
  <2>2. q \in Nat /\ q % L = d[i]
    BY <2>1, DigitOnTop
  <2>3. (L * w) * h + (w * d[i] + low) = w * q + low
    <3>1. w * (L * h + d[i]) = (L * w) * h + w * d[i]
      BY <2>1
    <3>2. w * d[i] \in Nat /\ (L * w) * h \in Nat /\ low \in Nat
      BY <2>1, Products
    <3> QED BY <3>1, <3>2
  <2> HIDE DEF q
  <2>4. (w * q + low) \div w = q
    BY <2>1, <2>2, DivisionIsUnique
  <2>5. Digit(cands, w * q + low, i) = d[i]
    BY <2>2, <2>4 DEF Digit, w, L
  <2> QED BY <2>1, <2>2, <2>3, <2>5 DEF q, w, L
<1>3. 0 \in S
  <2>1. d[k] \in 0..(Span(cands, k) - 1) /\ d[k] \in Nat
    BY <1>1
  <2>2. Reached(k, d[k])
    <3> SUFFICES ASSUME NEW h \in Nat, NEW x \in k..k
                 PROVE  Digit(cands, Span(cands, k) * h + d[k], x) = d[x]
      OBVIOUS
    <3>1. x = k /\ k \in 0..k /\ 0 \in 0..(Weights(cands)[k] - 1)
      BY <1>1
    <3>2. Digit(cands, Span(cands, k) * h + (Weights(cands)[k] * d[k] + 0), k) = d[k]
      BY <1>2, <3>1
    <3>3. Weights(cands)[k] * d[k] + 0 = d[k]
      BY <1>1, <2>1
    <3> QED BY <3>1, <3>2, <3>3
  <2>3. k - 0 = k /\ 0 \in 0..k
    BY <1>1
  <2> HIDE DEF Reached
  <2> QED BY <2>1, <2>2, <2>3
<1>4. ASSUME NEW m \in 0..(k - 1), m \in S PROVE m + 1 \in S
  <2> DEFINE i == k - (m + 1)
             w == Weights(cands)[i]
  <2>1. i \in 0..(k - 1) /\ i \in 0..k /\ i + 1 = k - m /\ i + 1 \in 0..k /\ m + 1 \in 0..k
    BY <1>1
  <2> HIDE DEF i
  <2>2. PICK low \in 0..(Span(cands, i + 1) - 1) : Reached(i + 1, low)
    BY <1>4, <2>1
  <2>3. w = Span(cands, i + 1) /\ w \in Nat \ {0} /\ low \in 0..(w - 1)
    BY <1>1, <2>1, <2>2
  <2> DEFINE n == w * d[i] + low
  <2>4. n \in 0..(Span(cands, i) - 1)
    <3>1. Len(cands[i]) \in Nat \ {0} /\ d[i] \in 0..(Len(cands[i]) - 1)
          /\ Span(cands, i) = Len(cands[i]) * w
      BY <1>1, <2>1 DEF Span
    <3> HIDE DEF w
    <3> QED BY <2>3, <3>1, DigitBelow
  <2>5. Reached(i, n)
    <3> SUFFICES ASSUME NEW h \in Nat, NEW x \in i..k
                 PROVE  Digit(cands, Span(cands, i) * h + n, x) = d[x]
      OBVIOUS
    <3>1. /\ Span(cands, i) * h + n = w * (Len(cands[i]) * h + d[i]) + low
          /\ Len(cands[i]) * h + d[i] \in Nat
          /\ Digit(cands, Span(cands, i) * h + n, i) = d[i]
      BY <1>2, <2>1, <2>3
    <3>2. CASE x = i
      BY <3>1, <3>2
    <3>3. CASE x # i
      <4>1. x \in (i + 1)..k
        BY <1>1, <2>1, <3>3
      <4>2. Digit(cands, Span(cands, i + 1) * (Len(cands[i]) * h + d[i]) + low, x) = d[x]
        BY <2>2, <3>1, <4>1
      <4> HIDE DEF n
      <4> QED BY <2>3, <3>1, <4>2
    <3> QED BY <3>2, <3>3
  <2> HIDE DEF n, Reached
  <2> QED BY <2>1, <2>4, <2>5 DEF i
<1>5. k \in S
  <2> HIDE DEF S
  <2>1. 0..k \subseteq S
    BY <1>1, <1>3, <1>4, IntervalInduction
  <2> QED BY <1>1, <2>1
<1>6. PICK n \in 0..(Span(cands, 0) - 1) : Reached(0, n)
  <2>1. k - k = 0
    BY <1>1
  <2> HIDE DEF Reached
  <2> QED BY <1>5, <2>1
<1>7. \A x \in 0..k : Digit(cands, n, x) = d[x]
  <2>1. Span(cands, 0) * 0 + n = n
    BY <1>1
  <2>2. \A x \in 0..k : Digit(cands, Span(cands, 0) * 0 + n, x) = d[x]
    BY <1>6
  <2> QED BY <2>1, <2>2
<1> QED BY <1>1, <1>6, <1>7

\* Numbers below the total with the same digits are the same.
LEMMA DigitsAreDistinct ==
  ASSUME NEW cands, NEW k, HasChoices(cands, k),
         NEW a \in 0..(Total(cands) - 1), NEW b \in 0..(Total(cands) - 1),
         \A i \in 0..k : Digit(cands, a, i) = Digit(cands, b, i)
  PROVE  a = b
<1> DEFINE S == {m \in 0..k : a % Span(cands, k - m) = b % Span(cands, k - m)}
<1>1. /\ k \in Nat /\ \A i \in 0..k : Len(cands[i]) \in Nat \ {0}
      /\ \A i \in 0..k : Weights(cands)[i] \in Nat \ {0}
      /\ Weights(cands)[k] = 1
      /\ Span(cands, k) = Len(cands[k])
      /\ \A i \in 0..(k - 1) : Weights(cands)[i] = Span(cands, i + 1)
      /\ Total(cands) = Span(cands, 0) /\ Total(cands) \in Nat \ {0}
      /\ \A i \in 0..k : Span(cands, i) = Len(cands[i]) * Weights(cands)[i]
  BY WeightsAreDefined, WeightsArePositive, SpanFacts DEF HasChoices, Span
<1>2. a \in Nat /\ b \in Nat
  BY <1>1
<1>3. 0 \in S
  <2>1. k \in 0..k /\ k - 0 = k /\ 0 \in 0..k
    BY <1>1
  <2>2. a \div 1 = a /\ b \div 1 = b
    BY <1>2
  <2>3. a % Len(cands[k]) = b % Len(cands[k])
    BY <1>1, <2>1, <2>2 DEF Digit
  <2> QED BY <1>1, <2>1, <2>3
<1>4. ASSUME NEW m \in 0..(k - 1), m \in S PROVE m + 1 \in S
  <2> DEFINE i == k - (m + 1)
             L == Len(cands[i])
             w == Weights(cands)[i]
  <2>1. i \in 0..(k - 1) /\ i \in 0..k /\ i + 1 = k - m /\ m + 1 \in 0..k
    BY <1>1
  <2> HIDE DEF i
  <2>2. L \in Nat \ {0} /\ w \in Nat \ {0} /\ Span(cands, i) = L * w /\ w = Span(cands, i + 1)
    BY <1>1, <2>1
  <2>3. a % w = b % w
    BY <1>4, <2>1, <2>2
  <2>4. (a \div w) % L = (b \div w) % L
    BY <2>1 DEF Digit
  <2> HIDE DEF L, w
  <2>5. a % (L * w) = w * ((a \div w) % L) + (a % w)
    BY <1>2, <2>2, RestOfProduct
  <2>6. b % (L * w) = w * ((b \div w) % L) + (b % w)
    BY <1>2, <2>2, RestOfProduct
  <2>7. a % (L * w) = b % (L * w)
    BY <2>3, <2>4, <2>5, <2>6
  <2> QED BY <2>1, <2>2, <2>7 DEF i
<1>5. k \in S
  <2> HIDE DEF S
  <2>1. 0..k \subseteq S
    BY <1>1, <1>3, <1>4, IntervalInduction
  <2> QED BY <1>1, <2>1
<1>6. a % Total(cands) = b % Total(cands)
  BY <1>1, <1>5
<1>7. ASSUME NEW n \in 0..(Total(cands) - 1) PROVE n % Total(cands) = n
  <2>1. (Total(cands) * 0 + n) % Total(cands) = n
    BY <1>1, <1>7, DivisionIsUnique
  <2>2. Total(cands) * 0 + n = n
    BY <1>1
  <2> QED BY <2>1, <2>2
<1> QED BY <1>6, <1>7

\* What the counter chooses is a text of so many symbols, one of each place's.
LEMMA ChoiceFacts ==
  ASSUME NEW cands, NEW k, HasChoices(cands, k), NEW n \in Nat
  PROVE  /\ Choice(cands, n) \in TextOf(k + 1)
         /\ \A i \in 0..k : /\ Digit(cands, n, i) \in Nat
                            /\ Digit(cands, n, i) + 1 \in 1..Len(cands[i])
                            /\ Choice(cands, n)[i] = cands[i][Digit(cands, n, i) + 1]
<1>1. k \in Nat /\ DOMAIN cands = 0..k /\ (k + 1) - 1 = k
  BY DEF HasChoices
<1>2. ASSUME NEW i \in 0..k
      PROVE  /\ Digit(cands, n, i) \in Nat
             /\ Digit(cands, n, i) + 1 \in 1..Len(cands[i])
             /\ cands[i][Digit(cands, n, i) + 1] \in Symbols
  <2> DEFINE L == Len(cands[i])
             w == Weights(cands)[i]
             q == n \div w
  <2>1. L \in Nat \ {0} /\ cands[i] \in Seq(Symbols)
    BY DEF HasChoices
  <2>2. w \in Nat \ {0}
    BY WeightsArePositive
  <2>3. Digit(cands, n, i) = q % L
    BY DEF Digit
  <2> HIDE DEF L, w
  <2>4. q \in Nat
    BY <2>2, Division
  <2> HIDE DEF q
  <2>5. q % L \in 0..(L - 1)
    BY <2>1, <2>4, Division
  <2>6. Digit(cands, n, i) \in Nat /\ Digit(cands, n, i) + 1 \in 1..L
    BY <2>1, <2>3, <2>5
  <2>7. cands[i][Digit(cands, n, i) + 1] \in Symbols
    BY <2>1, <2>6 DEF L
  <2> QED BY <2>6, <2>7 DEF L
<1>3. Choice(cands, n) = [i \in 0..k |-> cands[i][Digit(cands, n, i) + 1]]
  BY <1>1 DEF Choice
<1> QED BY <1>1, <1>2, <1>3 DEF TextOf

-----------------------------------------------------------------------------
(* The readings of a key.                                                     *)

LEMMA LimitFacts ==
  ASSUME problem \in Problems
  PROVE  ResolverLimit \in Nat \ {0}
BY ProblemFacts DEF ResolverLimit

\* A valid key has something to choose at each place of its core.
LEMMA KeyHasChoices ==
  ASSUME problem \in Problems, NEW key \in KeysOf(problem), ~ Invalid(key), CoreLen(key) # 0
  PROVE  HasChoices(CandidatesFor(key), CoreLen(key) - 1)
<1> DEFINE cands == CandidatesFor(key)
           k == CoreLen(key) - 1
<1>1. k \in Nat
  BY KeyFacts
<1>2. DOMAIN cands = 0..k
  BY CandidatesFacts
<1>3. ASSUME NEW i \in 0..k PROVE cands[i] \in Seq(Symbols) /\ Len(cands[i]) \in Nat \ {0}
  <2>1. cands[i] \in Seq(Symbols)
    BY CandidatesFacts
  <2>2. cands[i] # <<>>
    BY <1>2 DEF Invalid
  <2> HIDE DEF cands
  <2> QED BY <2>1, <2>2
<1> QED BY <1>1, <1>2, <1>3 DEF HasChoices

\* The n-th text that the counter gives.
Expanded(key, n) == FromCore(key, Choice(CandidatesFor(key), n))

\* Each of these is a text that encrypts to the ciphertext.
LEMMA ExpandedFacts ==
  ASSUME problem \in Problems, NEW key \in KeysOf(problem), ~ Invalid(key), CoreLen(key) # 0,
         NEW n \in Nat
  PROVE  /\ Choice(CandidatesFor(key), n) \in TextOf(CoreLen(key))
         /\ Expanded(key, n) \in Texts /\ Expanded(key, n) \in Meanings(key)
<1> DEFINE cands == CandidatesFor(key)
           k == CoreLen(key) - 1
<1>1. HasChoices(cands, k) /\ CoreLen(key) \in Nat /\ k + 1 = CoreLen(key)
  BY KeyHasChoices, KeyFacts
<1>2. ASSUME NEW i \in 0..(CoreLen(key) - 1)
      PROVE  Choice(cands, n)[i] \in StandsFor(Given(key)[i], KeyAt(key, i))
  <2>1. /\ Digit(cands, n, i) + 1 \in 1..Len(cands[i])
        /\ Choice(cands, n)[i] = cands[i][Digit(cands, n, i) + 1]
    BY <1>1, ChoiceFacts
  <2>2. \A j \in 1..Len(cands[i]) : cands[i][j] \in StandsFor(Given(key)[i], KeyAt(key, i))
    BY CandidatesFacts
  <2> QED BY <2>1, <2>2
<1>3. Choice(cands, n) \in TextOf(CoreLen(key))
  BY <1>1, ChoiceFacts
<1> QED BY <1>2, <1>3, FromCoreFacts DEF Expanded

\* The readings that the expanding resolver tries.
LEMMA ReadingsAre ==
  ASSUME problem \in Problems, NEW key \in KeysOf(problem), ~ Invalid(key),
         problem.resolver = "expand_beam"
  PROVE  Readings(key) =
           IF CoreLen(key) = 0 THEN <<>>
           ELSE [n \in 1..Min({ResolverLimit, Total(CandidatesFor(key))}) |-> Expanded(key, n - 1)]
<1> DEFINE cands == CandidatesFor(key)
           cores == Enumerate(cands)
<1>1. Readings(key) = [n \in DOMAIN cores |-> FromCore(key, cores[n])]
  BY DEF Readings, FromCore
<1>2. DOMAIN cands = 0..(CoreLen(key) - 1) /\ CoreLen(key) \in Nat
  BY CandidatesFacts, KeyFacts
<1>3. CASE CoreLen(key) = 0
  <2>1. cores = <<>>
    BY <1>2, <1>3 DEF Enumerate
  <2> QED BY <1>1, <1>3, <2>1
<1>4. CASE CoreLen(key) # 0
  <2>1. DOMAIN cands # {}
    BY <1>2, <1>4
  <2> DEFINE m == Min({ResolverLimit, Total(cands)})
  <2>2. cores = [n \in 1..m |-> Choice(cands, n - 1)]
    BY <2>1, EnumerateIs
  <2> HIDE DEF cores, m
  <2>3. Readings(key) = [n \in 1..m |-> FromCore(key, Choice(cands, n - 1))]
    BY <1>1, <2>2
  <2> QED BY <1>4, <2>3 DEF Expanded, m
<1> QED BY <1>3, <1>4

\* The readings of a key are texts that encrypt to the ciphertext.
LEMMA ReadingsFacts ==
  ASSUME problem \in Problems, NEW key \in KeysOf(problem)
  PROVE  /\ Readings(key) \in Seq(Texts)
         /\ \A n \in 1..Len(Readings(key)) : Readings(key)[n] \in Meanings(key)
<1>1. CASE Invalid(key)
  BY <1>1 DEF Readings
<1>2. CASE ~ Invalid(key) /\ problem.resolver # "expand_beam"
  <2>1. Readings(key) = <<Decrypt(key)>>
    BY <1>2 DEF Readings
  <2>2. Decrypt(key) \in Texts /\ Decrypt(key) \in Meanings(key)
    BY <1>2, InvalidMeans, DecryptFacts
  <2> QED BY <2>1, <2>2
<1>3. CASE ~ Invalid(key) /\ problem.resolver = "expand_beam" /\ CoreLen(key) = 0
  <2>1. Readings(key) = <<>>
    BY <1>3, ReadingsAre
  <2> QED BY <2>1
<1>4. CASE ~ Invalid(key) /\ problem.resolver = "expand_beam" /\ CoreLen(key) # 0
  <2> DEFINE m == Min({ResolverLimit, Total(CandidatesFor(key))})
  <2>1. Readings(key) = [n \in 1..m |-> Expanded(key, n - 1)]
    BY <1>4, ReadingsAre
  <2>2. m \in Nat
    <3>1. Total(CandidatesFor(key)) \in Nat \ {0}
      BY <1>4, KeyHasChoices, SpanFacts
    <3> QED BY <3>1, LimitFacts, MinFacts
  <2>3. ASSUME NEW n \in 1..m
        PROVE  Expanded(key, n - 1) \in Texts /\ Expanded(key, n - 1) \in Meanings(key)
    <3>1. n - 1 \in Nat
      OBVIOUS
    <3> QED BY <1>4, <3>1, ExpandedFacts
  <2> HIDE DEF m
  <2> QED BY <2>1, <2>2, <2>3
<1> QED BY <1>1, <1>2, <1>3, <1>4

\* With every inverse a candidate, the counter runs once through the texts that
\* encrypt to the ciphertext.
LEMMA CounterIsBijection ==
  ASSUME problem \in Problems, NEW key \in KeysOf(problem), ~ Invalid(key), CoreLen(key) # 0,
         PerPositionLimit = A
  PROVE  [n \in 1..Total(CandidatesFor(key)) |-> Expanded(key, n - 1)]
           \in Bijection(1..Total(CandidatesFor(key)), Meanings(key))
<1> DEFINE cands == CandidatesFor(key)
           k == CoreLen(key) - 1
           T == Total(cands)
           g == [n \in 1..T |-> Expanded(key, n - 1)]
<1>1. HasChoices(cands, k) /\ CoreLen(key) \in Nat /\ k \in Nat /\ k + 1 = CoreLen(key)
  BY KeyHasChoices, KeyFacts
<1>2. T \in Nat \ {0}
  BY <1>1, SpanFacts
<1>3. g \in [1..T -> Meanings(key)]
  <2>1. \A n \in 1..T : n - 1 \in Nat
    OBVIOUS
  <2> HIDE DEF T
  <2> QED BY <2>1, ExpandedFacts
<1>4. ASSUME NEW a \in 1..T, NEW b \in 1..T, g[a] = g[b] PROVE a = b
  <2>1. a - 1 \in 0..(T - 1) /\ b - 1 \in 0..(T - 1) /\ a - 1 \in Nat /\ b - 1 \in Nat
    BY <1>2
  <2>2. Expanded(key, a - 1) = Expanded(key, b - 1)
    BY <1>4
  <2>3. Choice(cands, a - 1) \in TextOf(CoreLen(key)) /\ Choice(cands, b - 1) \in TextOf(CoreLen(key))
    BY <2>1, ExpandedFacts
  <2> HIDE DEF cands, g, T
  <2>4. Choice(cands, a - 1) = Choice(cands, b - 1)
    BY <2>2, <2>3, FromCoreFacts DEF Expanded, cands
  <2>5. ASSUME NEW i \in 0..k
        PROVE  Digit(cands, a - 1, i) = Digit(cands, b - 1, i)
    <3>1. /\ Digit(cands, a - 1, i) \in Nat /\ Digit(cands, a - 1, i) + 1 \in 1..Len(cands[i])
          /\ Choice(cands, a - 1)[i] = cands[i][Digit(cands, a - 1, i) + 1]
      BY <1>1, <2>1, ChoiceFacts
    <3>2. /\ Digit(cands, b - 1, i) \in Nat /\ Digit(cands, b - 1, i) + 1 \in 1..Len(cands[i])
          /\ Choice(cands, b - 1)[i] = cands[i][Digit(cands, b - 1, i) + 1]
      BY <1>1, <2>1, ChoiceFacts
    <3>3. \A j, h \in 1..Len(cands[i]) : cands[i][j] = cands[i][h] => j = h
      BY CandidatesFacts DEF cands
    <3> DEFINE x == Digit(cands, a - 1, i)
               y == Digit(cands, b - 1, i)
    <3>4. x + 1 = y + 1
      BY <2>4, <3>1, <3>3, <3>2
    <3> HIDE DEF x, y
    <3>5. x = y
      BY <3>1, <3>4, <3>2 DEF x, y
    <3> QED BY <3>5 DEF x, y
  <2>6. a - 1 = b - 1
    BY <1>1, <2>1, <2>5, DigitsAreDistinct DEF T
  <2> QED BY <1>2, <2>6
<1>5. ASSUME NEW t \in Meanings(key) PROVE \E n \in 1..T : g[n] = t
  <2>1. PICK core \in TextOf(CoreLen(key)) :
          /\ FromCore(key, core) = t
          /\ \A i \in 0..(CoreLen(key) - 1) : core[i] \in StandsFor(Given(key)[i], KeyAt(key, i))
    BY MeaningHasCore
  <2>2. ASSUME NEW i \in 0..k PROVE \E j \in 1..Len(cands[i]) : cands[i][j] = core[i]
    BY <2>1, CandidatesFacts
  <2> DEFINE J(i) == CHOOSE j \in 1..Len(cands[i]) : cands[i][j] = core[i]
             d == [i \in 0..k |-> J(i) - 1]
  <2>3. ASSUME NEW i \in 0..k
        PROVE  d[i] \in 0..(Len(cands[i]) - 1) /\ cands[i][d[i] + 1] = core[i]
    <3>1. J(i) \in 1..Len(cands[i]) /\ cands[i][J(i)] = core[i]
      BY <2>2
    <3>2. Len(cands[i]) \in Nat
      BY <1>1 DEF HasChoices
    <3> HIDE DEF J, cands
    <3>3. J(i) - 1 \in 0..(Len(cands[i]) - 1) /\ (J(i) - 1) + 1 = J(i)
      BY <3>1, <3>2
    <3> QED BY <3>1, <3>3
  <2> HIDE DEF d, cands
  <2>4. PICK n \in 0..(T - 1) : \A i \in 0..k : Digit(cands, n, i) = d[i]
    BY <1>1, <2>3, DigitsAreReached
  <2>5. n \in Nat /\ n + 1 \in 1..T /\ (n + 1) - 1 = n
    BY <1>2
  <2>6. Choice(cands, n) = core
    <3>1. Choice(cands, n) \in TextOf(CoreLen(key))
      BY <2>5, ExpandedFacts DEF cands
    <3>2. ASSUME NEW i \in 0..k PROVE Choice(cands, n)[i] = core[i]
      <4>1. Choice(cands, n)[i] = cands[i][Digit(cands, n, i) + 1]
        BY <1>1, <2>5, ChoiceFacts
      <4> QED BY <2>3, <2>4, <4>1
    <3> QED BY <1>1, <2>1, <3>1, <3>2, TextFacts
  <2>7. g[n + 1] = t
    <3>1. Expanded(key, n) = t
      BY <2>1, <2>6 DEF Expanded, cands
    <3> HIDE DEF T
    <3> QED BY <2>5, <3>1
  <2> QED BY <2>5, <2>7
<1> HIDE DEF g, T
<1>6. g \in Bijection(1..T, Meanings(key))
  BY <1>3, <1>4, <1>5 DEF Bijection, Injection, Surjection, IsInjective
<1> QED BY <1>6 DEF g, T

\* When no limit cuts them, the readings are all the texts that encrypt to the
\* ciphertext.
LEMMA ReadingsAreAll ==
  ASSUME problem \in Problems, NEW key \in KeysOf(problem), Exhaustive(key)
  PROVE  \A t \in Meanings(key) : \E n \in 1..Len(Readings(key)) : Readings(key)[n] = t
<1> SUFFICES ASSUME NEW t \in Meanings(key)
             PROVE  \E n \in 1..Len(Readings(key)) : Readings(key)[n] = t
  OBVIOUS
<1> DEFINE cands == CandidatesFor(key)
           T == Total(cands)
           g == [n \in 1..T |-> Expanded(key, n - 1)]
<1>1. ~ Invalid(key)
  BY InvalidMeans
<1>2. CoreLen(key) # 0
  <2>1. DOMAIN Given(key) = 0..(CoreLen(key) - 1) /\ DOMAIN Given(key) # {}
    BY KeyFacts, TextFacts DEF Exhaustive, Given
  <2> QED BY <2>1, KeyFacts
<1>3. /\ PerPositionLimit = A /\ problem.resolver = "expand_beam"
      /\ Cardinality(Meanings(key)) <= ResolverLimit
  BY DEF Exhaustive
<1>4. g \in Bijection(1..T, Meanings(key))
  BY <1>1, <1>2, <1>3, CounterIsBijection
<1>5. T \in Nat
  BY <1>1, <1>2, KeyHasChoices, SpanFacts
<1> HIDE DEF T, g
<1>6. Cardinality(Meanings(key)) = T
  BY <1>4, <1>5, FS_CountingElements DEF ExistsBijection
<1>7. Min({ResolverLimit, T}) = T
  BY <1>3, <1>5, <1>6, LimitFacts, MinFacts
<1>8. Readings(key) = g
  BY <1>1, <1>2, <1>3, <1>7, ReadingsAre DEF g, T
<1>9. PICK n \in 1..T : g[n] = t
  BY <1>4 DEF Bijection, Surjection
<1>10. Len(Readings(key)) = T
  BY <1>5, <1>8 DEF g
<1> QED BY <1>8, <1>9, <1>10

-----------------------------------------------------------------------------
(* Scores.                                                                    *)

\* The score of a text, whatever the batch that it is scored in.
ScoreOf(t, byRaw) ==
  IF Verdict(t) # "pass" THEN MinusInfinity
  ELSE IF byRaw THEN RawScore(t) ELSE PrimaryScore(t)

LEMMA ScoreFacts ==
  ASSUME problem \in Problems, NEW t \in Texts, NEW byRaw \in BOOLEAN
  PROVE  ScoreOf(t, byRaw) \in Int /\ ScoreOf(t, byRaw) >= MinusInfinity
<1>1. t \in [DOMAIN problem.ciphertext -> Symbols]
  BY DEF Texts, Symbols
<1>2. PrimaryScore(t) \in Nat /\ RawScore(t) \in Nat
  BY <1>1, ScorerAssumption
<1> QED BY <1>2 DEF ScoreOf, MinusInfinity

LEMMA VerdictFacts ==
  ASSUME NEW t
  PROVE  Verdict(t) \in {"pass", "fixed", "word", "global"}
BY DEF Verdict

\* Every text of a batch gets its own score, in its own row.
LEMMA ScoreTextsFacts ==
  ASSUME NEW n \in Nat, NEW texts, DOMAIN texts = 1..n, NEW byRaw \in BOOLEAN
  PROVE  ScoreTexts(texts, byRaw) = [i \in 1..n |-> ScoreOf(texts[i], byRaw)]
<1> DEFINE Score(t) == IF byRaw THEN RawScore(t) ELSE PrimaryScore(t)
           P == {i \in 1..n : Verdict(texts[i]) = "pass"}
           keep == Ascending(P)
           kept == [j \in DOMAIN keep |-> Score(texts[keep[j]])]
           at(i) == CHOOSE j \in DOMAIN keep : keep[j] = i
           Row(i) == IF i \in ToSet(keep) THEN kept[at(i)] ELSE MinusInfinity
<1>1. ScoreTexts(texts, byRaw) = [i \in 1..n |-> Row(i)]
  BY DEF ScoreTexts
<1>2. P \in SUBSET Int /\ IsFiniteSet(P)
  BY IntervalSize, FS_Subset
<1>3. /\ keep \in Seq(P)
      /\ \A x \in P : /\ Rank(P, x) + 1 \in 1..Len(keep)
                      /\ keep[Rank(P, x) + 1] = x
  BY <1>2, AscendingFacts
<1> HIDE DEF keep
<1>4. DOMAIN keep = 1..Len(keep) /\ \A j \in DOMAIN keep : keep[j] \in P
  BY <1>3
<1>5. \A i : i \in ToSet(keep) <=> i \in P
  BY <1>3, <1>4 DEF ToSet
<1>6. ASSUME NEW i \in P PROVE kept[at(i)] = Score(texts[i])
  <2>1. \E j \in DOMAIN keep : keep[j] = i
    BY <1>3, <1>4
  <2>2. at(i) \in DOMAIN keep /\ keep[at(i)] = i
    BY <2>1
  <2> HIDE DEF at
  <2> QED BY <2>2
<1> HIDE DEF kept, at
<1>7. ASSUME NEW i \in 1..n PROVE Row(i) = ScoreOf(texts[i], byRaw)
  BY <1>5, <1>6 DEF ScoreOf
<1> HIDE DEF Row
<1> QED BY <1>1, <1>7

\* A number that is no less than any other.
LEMMA FirstBestFacts ==
  ASSUME NEW n \in Nat \ {0}, NEW s \in [1..n -> Int]
  PROVE  FirstBest(s) \in 1..n /\ \A j \in 1..n : s[j] <= s[FirstBest(s)]
<1> DEFINE Best(m, i) == /\ \A j \in 1..m : s[j] <= s[i]
                         /\ \A j \in 1..(i - 1) : s[j] < s[i]
           S == {m \in 0..(n - 1) : \E i \in 1..(m + 1) : Best(m + 1, i)}
<1>1. 0 \in S
  <2>1. Best(1, 1)
    OBVIOUS
  <2>2. 0 \in 0..(n - 1) /\ 1 \in 1..(0 + 1) /\ 0 + 1 = 1
    OBVIOUS
  <2> HIDE DEF Best
  <2> QED BY <2>1, <2>2
<1>2. ASSUME NEW m \in 0..((n - 1) - 1), m \in S PROVE m + 1 \in S
  <2>1. PICK i \in 1..(m + 1) : Best(m + 1, i)
    BY <1>2
  <2>2. m + 1 \in 0..(n - 1) /\ (m + 1) + 1 \in 1..n /\ i \in 1..((m + 1) + 1) /\ i \in 1..n
    OBVIOUS
  <2>3. CASE s[(m + 1) + 1] <= s[i]
    <3>1. Best((m + 1) + 1, i)
      <4>1. \A j \in 1..((m + 1) + 1) : j \in 1..(m + 1) \/ j = (m + 1) + 1
        OBVIOUS
      <4> QED BY <2>1, <2>3, <4>1
    <3> HIDE DEF Best
    <3> QED BY <2>2, <3>1
  <2>4. CASE ~ (s[(m + 1) + 1] <= s[i])
    <3> DEFINE l == (m + 1) + 1
    <3>1. s[i] \in Int /\ s[l] \in Int /\ s[i] < s[l]
      BY <2>2, <2>4
    <3>2. \A j \in 1..(m + 1) : s[j] \in Int /\ s[j] <= s[i]
      BY <2>1, <2>2
    <3>3. \A j \in 1..(m + 1) : s[j] < s[l]
      BY <3>1, <3>2
    <3>4. Best(l, l)
      <4>1. \A j \in 1..l : j \in 1..(m + 1) \/ j = l
        OBVIOUS
      <4>2. l - 1 = m + 1
        OBVIOUS
      <4> HIDE DEF l
      <4> QED BY <3>1, <3>2, <3>3, <4>1, <4>2
    <3>5. l \in 1..l
      OBVIOUS
    <3> HIDE DEF Best
    <3> QED BY <2>2, <3>4, <3>5
  <2> QED BY <2>3, <2>4
<1>3. n - 1 \in S
  <2> HIDE DEF S
  <2>1. n - 1 \in Nat
    OBVIOUS
  <2>2. 0..(n - 1) \subseteq S
    BY <1>1, <1>2, <2>1, IntervalInduction
  <2> QED BY <2>1, <2>2
<1>4. \E i \in 1..n : Best(n, i)
  <2>1. (n - 1) + 1 = n
    OBVIOUS
  <2> HIDE DEF Best
  <2> QED BY <1>3, <2>1
<1>5. FirstBest(s) = CHOOSE i \in 1..n : Best(n, i)
  BY DEF FirstBest
<1> DEFINE Q(i) == i \in 1..n /\ Best(n, i)
<1>6. Q(FirstBest(s))
  BY <1>4, <1>5
<1> QED BY <1>6

\* What some texts come to: a best one of them with its scores, if there is one.
LEMMA ResolveFacts ==
  ASSUME problem \in Problems, NEW texts \in Seq(Texts), NEW byRaw \in BOOLEAN
  PROVE  /\ texts = <<>> =>
              Resolve(texts, byRaw) =
                [text |-> NoText, pct |-> MinusInfinity, raw |-> MinusInfinity]
         /\ texts # <<>> =>
              \E i \in 1..Len(texts) :
                /\ Resolve(texts, byRaw) =
                     [text |-> texts[i], pct |-> ScoreOf(texts[i], FALSE),
                      raw |-> ScoreOf(texts[i], TRUE)]
                /\ \A j \in 1..Len(texts) : ScoreOf(texts[j], byRaw) <= ScoreOf(texts[i], byRaw)
<1>1. texts = <<>> =>
        Resolve(texts, byRaw) = [text |-> NoText, pct |-> MinusInfinity, raw |-> MinusInfinity]
  BY DEF Resolve
<1> SUFFICES ASSUME texts # <<>>
             PROVE  \E i \in 1..Len(texts) :
                      /\ Resolve(texts, byRaw) =
                           [text |-> texts[i], pct |-> ScoreOf(texts[i], FALSE),
                            raw |-> ScoreOf(texts[i], TRUE)]
                      /\ \A j \in 1..Len(texts) :
                           ScoreOf(texts[j], byRaw) <= ScoreOf(texts[i], byRaw)
  BY <1>1
<1> DEFINE n == Len(texts)
           s == [i \in 1..n |-> ScoreOf(texts[i], byRaw)]
           best == FirstBest(s)
<1>2. n \in Nat \ {0} /\ DOMAIN texts = 1..n /\ \A i \in 1..n : texts[i] \in Texts
  OBVIOUS
<1> HIDE DEF n
<1>3. s \in [1..n -> Int]
  BY <1>2, ScoreFacts
<1>4. best \in 1..n /\ \A j \in 1..n : s[j] <= s[best]
  <2> HIDE DEF s
  <2> QED BY <1>2, <1>3, FirstBestFacts
<1>5. \A r \in BOOLEAN : ScoreTexts(texts, r) = [i \in 1..n |-> ScoreOf(texts[i], r)]
  BY <1>2, ScoreTextsFacts
<1>6. /\ ScoreTexts(texts, TRUE) = [i \in 1..n |-> ScoreOf(texts[i], TRUE)]
      /\ ScoreTexts(texts, FALSE) = [i \in 1..n |-> ScoreOf(texts[i], FALSE)]
      /\ (IF byRaw THEN ScoreTexts(texts, TRUE) ELSE ScoreTexts(texts, FALSE)) = s
  BY <1>5
<1>7. Resolve(texts, byRaw) =
        [text |-> texts[best], pct |-> ScoreTexts(texts, FALSE)[best],
         raw |-> ScoreTexts(texts, TRUE)[best]]
  BY <1>6 DEF Resolve
<1> HIDE DEF best
<1>8. \A j \in 1..n : ScoreOf(texts[j], byRaw) <= ScoreOf(texts[best], byRaw)
  BY <1>4
<1> QED BY <1>4, <1>6, <1>7, <1>8 DEF n

-----------------------------------------------------------------------------
(* What a key comes to.                                                       *)

\* The plaintext and the scores of a key, whatever the batch that it is in.
AnswerOf(key, byRaw) ==
  IF problem.degeneracy = "allow" THEN Resolve(Readings(key), byRaw)
  ELSE [text |-> Decrypt(key), pct |-> ScoreOf(Decrypt(key), FALSE),
        raw |-> ScoreOf(Decrypt(key), TRUE)]
\* They depend on the problem alone, which no step changes.
LEMMA AnswersAreFixed ==
  ASSUME problem' = problem
  PROVE  /\ \A key, byRaw : AnswerOf(key, byRaw)' = AnswerOf(key, byRaw)
         /\ \A key : PlaintextOf(key)' = PlaintextOf(key)
<1>1. \A c, v : Inverses(c, v)' = Inverses(c, v)
  BY DEF Inverses
<1>2. \A c, v : DecFirst(c, v)' = DecFirst(c, v)
  BY <1>1 DEF DecFirst
<1>3. \A key : InterruptIdx(key)' = InterruptIdx(key)
  BY DEF InterruptIdx
<1>4. PerPositionLimit' = PerPositionLimit /\ ResolverLimit' = ResolverLimit
  BY DEF PerPositionLimit, ResolverLimit
<1>5. \A key : CandidateInputs(key)' = CandidateInputs(key)
  BY <1>3 DEF CandidateInputs
<1>6. ASSUME NEW key PROVE CandidatesFor(key)' = CandidatesFor(key)
  <2> DEFINE All(i) == Inverses(CandidateInputs(key).text[i], key.core[i % Size(key.core)])
  <2>1. CandidatesFor(key) =
          [i \in DOMAIN CandidateInputs(key).text |->
             SubSeq(All(i), 1, Min({PerPositionLimit, Len(All(i))}))]
    BY DEF CandidatesFor
  <2>2. CandidatesFor(key)' =
          [i \in DOMAIN CandidateInputs(key)'.text |->
             SubSeq(All(i)', 1, Min({PerPositionLimit', Len(All(i)')}))]
    BY DEF CandidatesFor
  <2>3. \A i : All(i)' = All(i)
    BY <1>1, <1>5
  <2> HIDE DEF All
  <2> QED BY <1>4, <1>5, <2>1, <2>2, <2>3
<1>7. ASSUME NEW key PROVE Invalid(key)' = Invalid(key)
  BY <1>6, Zenon DEF Invalid
<1>8. ASSUME NEW key PROVE Decrypt(key)' = Decrypt(key)
  <2> DEFINE core == [i \in DOMAIN CandidateInputs(key).text |->
                        DecFirst(CandidateInputs(key).text[i], key.core[i % Size(key.core)])]
  <2>1. Decrypt(key) = Reassemble(problem.orient, core, CandidateInputs(key).info)
    BY DEF Decrypt, Through, CandidateInputs
  <2>2. Decrypt(key)' = Reassemble(problem'.orient, core', CandidateInputs(key)'.info)
    BY DEF Decrypt, Through, CandidateInputs
  <2>3. core' = core
    BY <1>2, <1>5
  <2> QED BY <1>5, <2>1, <2>2, <2>3
<1>9. ASSUME NEW cands PROVE Enumerate(cands)' = Enumerate(cands)
  BY <1>4, Zenon DEF Enumerate
<1>10. ASSUME NEW key PROVE Readings(key)' = Readings(key)
  BY <1>4, <1>5, <1>6, <1>7, <1>8, <1>9 DEF Readings
<1>11. \A t : Verdict(t)' = Verdict(t)
  BY DEF Verdict, BreaksFixed, BreaksWord, BreaksGlobal
<1>12. \A t, byRaw : ScoreOf(t, byRaw)' = ScoreOf(t, byRaw)
  BY <1>11 DEF ScoreOf
<1>13. ASSUME NEW texts, NEW byRaw PROVE ScoreTexts(texts, byRaw)' = ScoreTexts(texts, byRaw)
  <2> DEFINE Pass == {i \in DOMAIN texts : Verdict(texts[i]) = "pass"}
             Score(t) == IF byRaw THEN RawScore(t) ELSE PrimaryScore(t)
             Kept1(keep) == [j \in DOMAIN keep |-> Score(texts[keep[j]])]
             Rows(keep) == [i \in DOMAIN texts |->
                              IF i \in ToSet(keep)
                                THEN Kept1(keep)[CHOOSE j \in DOMAIN keep : keep[j] = i]
                                ELSE MinusInfinity]
  <2>1. Pass' = Pass
    BY <1>11
  <2>2. ScoreTexts(texts, byRaw) = Rows(Ascending(Pass))
    BY DEF ScoreTexts
  <2>3. ScoreTexts(texts, byRaw)' = Rows(Ascending(Pass'))
    BY DEF ScoreTexts
  <2> HIDE DEF Pass, Rows
  <2> QED BY <2>1, <2>2, <2>3
<1>14. ASSUME NEW texts, NEW byRaw PROVE Resolve(texts, byRaw)' = Resolve(texts, byRaw)
  BY <1>13 DEF Resolve
<1>15. ASSUME NEW key, NEW byRaw PROVE AnswerOf(key, byRaw)' = AnswerOf(key, byRaw)
  BY <1>8, <1>10, <1>12, <1>14 DEF AnswerOf
<1>16. ASSUME NEW key PROVE PlaintextOf(key)' = PlaintextOf(key)
  BY <1>8, <1>10, <1>14 DEF PlaintextOf
<1> QED BY <1>15, <1>16

\* The best score of a text that the key can stand for and that passes the crib.
BestMeaning(key, byRaw) ==
  Max({MinusInfinity} \cup {IF byRaw THEN RawScore(t) ELSE PrimaryScore(t) :
                              t \in Passing(Meanings(key))})

\* When no limit cuts the readings, the best of them is the best of the texts that
\* encrypt to the ciphertext.
LEMMA ResolveIsBest ==
  ASSUME problem \in Problems, NEW key \in KeysOf(problem), Exhaustive(key),
         NEW byRaw \in BOOLEAN
  PROVE  BestMeaning(key, byRaw) =
           IF byRaw THEN Resolve(Readings(key), byRaw).raw ELSE Resolve(Readings(key), byRaw).pct
<1> DEFINE texts == Readings(key)
           Score(t) == IF byRaw THEN RawScore(t) ELSE PrimaryScore(t)
           V == {MinusInfinity} \cup {Score(t) : t \in Passing(Meanings(key))}
           a == Resolve(texts, byRaw)
           best == IF byRaw THEN a.raw ELSE a.pct
<1>1. /\ texts \in Seq(Texts)
      /\ \A n \in 1..Len(texts) : texts[n] \in Meanings(key)
      /\ \A t \in Meanings(key) : \E n \in 1..Len(texts) : texts[n] = t
  BY ReadingsFacts, ReadingsAreAll
<1>2. Meanings(key) \subseteq Texts
  BY DEF Meanings
<1> HIDE DEF texts
<1>3. ASSUME NEW t \in Passing(Meanings(key))
      PROVE  t \in Texts /\ t \in Meanings(key) /\ ScoreOf(t, byRaw) = Score(t)
  BY <1>2 DEF Passing, ScoreOf
<1>4. ASSUME NEW t \in Meanings(key), Verdict(t) = "pass"
      PROVE  ScoreOf(t, byRaw) \in V
  <2>1. t \in Passing(Meanings(key))
    BY <1>4 DEF Passing
  <2>2. ScoreOf(t, byRaw) = Score(t)
    BY <1>3, <2>1
  <2> QED BY <2>1, <2>2
<1>5. V \in SUBSET Int
  <2>1. \A t \in Passing(Meanings(key)) : Score(t) \in Int
    BY <1>3, ScoreFacts
  <2> HIDE DEF Score
  <2> QED BY <2>1 DEF MinusInfinity
<1>6. BestMeaning(key, byRaw) = Max(V)
  BY DEF BestMeaning
<1>7. CASE texts = <<>>
  <2>1. Meanings(key) = {}
    BY <1>1, <1>7
  <2>2. V = {MinusInfinity}
    BY <2>1 DEF Passing
  <2>3. best = MinusInfinity
    <3>1. a = [text |-> NoText, pct |-> MinusInfinity, raw |-> MinusInfinity]
      BY <1>1, <1>7, ResolveFacts
    <3>2. a.pct = MinusInfinity /\ a.raw = MinusInfinity
      BY <3>1
    <3> HIDE DEF a
    <3> QED BY <3>2
  <2> HIDE DEF V, best
  <2>4. Max(V) = MinusInfinity
    <3>1. \A x \in V : x <= MinusInfinity
      BY <2>2 DEF MinusInfinity
    <3> QED BY <1>5, <2>2, <3>1, MaxFacts
  <2> QED BY <1>6, <2>3, <2>4 DEF best, a, texts
<1>8. CASE texts # <<>>
  <2>1. PICK i \in 1..Len(texts) :
          /\ a = [text |-> texts[i], pct |-> ScoreOf(texts[i], FALSE), raw |-> ScoreOf(texts[i], TRUE)]
          /\ \A j \in 1..Len(texts) : ScoreOf(texts[j], byRaw) <= ScoreOf(texts[i], byRaw)
    BY <1>1, <1>8, ResolveFacts
  <2>2. best = ScoreOf(texts[i], byRaw)
    <3>1. a.pct = ScoreOf(texts[i], FALSE) /\ a.raw = ScoreOf(texts[i], TRUE)
      BY <2>1
    <3> HIDE DEF a
    <3>2. CASE byRaw = TRUE
      BY <3>1, <3>2
    <3>3. CASE byRaw = FALSE
      BY <3>1, <3>3
    <3> QED BY <3>2, <3>3
  <2>3. texts[i] \in Meanings(key) /\ texts[i] \in Texts
    BY <1>1, <1>2
  <2>4. ScoreOf(texts[i], byRaw) >= MinusInfinity /\ ScoreOf(texts[i], byRaw) \in Int
    BY <2>3, ScoreFacts
  <2>5. best \in V
    <3>1. CASE Verdict(texts[i]) = "pass"
      BY <1>4, <2>2, <2>3, <3>1
    <3>2. CASE Verdict(texts[i]) # "pass"
      BY <2>2, <3>2 DEF ScoreOf
    <3> QED BY <3>1, <3>2
  <2>6. ASSUME NEW x \in V PROVE x <= best
    <3>1. CASE x = MinusInfinity
      <4> HIDE DEF best
      <4> QED BY <2>2, <2>4, <3>1 DEF MinusInfinity
    <3>2. CASE x # MinusInfinity
      <4>1. PICK t \in Passing(Meanings(key)) : x = Score(t)
        BY <3>2
      <4>2. t \in Meanings(key) /\ x = ScoreOf(t, byRaw)
        BY <1>3, <4>1
      <4>3. PICK j \in 1..Len(texts) : texts[j] = t
        BY <1>1, <4>2
      <4> HIDE DEF best
      <4> QED BY <2>1, <2>2, <4>2, <4>3
    <3> QED BY <3>1, <3>2
  <2> HIDE DEF V, best
  <2>7. Max(V) = best
    BY <1>5, <2>5, <2>6, MaxFacts
  <2> QED BY <1>6, <2>7 DEF best, a, texts
<1> QED BY <1>7, <1>8

\* A key comes to a text with its scores, which encrypts to the ciphertext if any
\* does, or to no text and minus infinity.
LEMMA AnswerFacts ==
  ASSUME problem \in Problems, NEW key \in KeysOf(problem), NEW byRaw \in BOOLEAN
  PROVE  LET a == AnswerOf(key, byRaw)
         IN  \/ a = [text |-> NoText, pct |-> MinusInfinity, raw |-> MinusInfinity]
             \/ \E t \in Texts :
                  /\ a = [text |-> t, pct |-> ScoreOf(t, FALSE), raw |-> ScoreOf(t, TRUE)]
                  /\ Meanings(key) # {} => t \in Meanings(key)
<1>1. CASE problem.degeneracy # "allow"
  <2>1. /\ Decrypt(key) \in Texts
        /\ Meanings(key) # {} => Decrypt(key) \in Meanings(key)
    BY DecryptFacts, InvalidMeans
  <2> QED BY <1>1, <2>1 DEF AnswerOf
<1>2. CASE problem.degeneracy = "allow"
  <2> DEFINE texts == Readings(key)
  <2>1. AnswerOf(key, byRaw) = Resolve(texts, byRaw)
    BY <1>2 DEF AnswerOf
  <2>2. /\ texts \in Seq(Texts)
        /\ \A n \in 1..Len(texts) : texts[n] \in Texts /\ texts[n] \in Meanings(key)
    BY ReadingsFacts
  <2> HIDE DEF texts
  <2> QED BY <2>1, <2>2, ResolveFacts
<1> QED BY <1>1, <1>2

-----------------------------------------------------------------------------
(* Counting.                                                                  *)

\* Sequences of texts, put together, are a sequence of texts.
LEMMA FlattenFacts ==
  ASSUME NEW T, NEW seqs \in Seq(Seq(T))
  PROVE  FlattenSeq(seqs) \in Seq(T)
<1> DEFINE n == Len(seqs)
           F(m, g) == [i \in 1..m |-> IF i = 1 THEN seqs[i] ELSE g[i - 1] \o seqs[i]]
           S == {m \in 0..n : \E g \in [1..m -> Seq(T)] : g = F(m, g)}
<1>1. n \in Nat /\ \A i \in 1..n : seqs[i] \in Seq(T)
  OBVIOUS
<1> HIDE DEF n
<1>2. 0 \in S
  <2> DEFINE g == [i \in 1..0 |-> <<>>]
  <2>1. g \in [1..0 -> Seq(T)] /\ g = F(0, g)
    OBVIOUS
  <2> HIDE DEF g, F
  <2>2. \E f \in [1..0 -> Seq(T)] : f = F(0, f)
    BY <2>1
  <2>3. 0 \in 0..n
    BY <1>1
  <2> QED BY <2>2, <2>3, Zenon
<1>3. ASSUME NEW m \in 0..(n - 1), m \in S PROVE m + 1 \in S
  <2>1. PICK g \in [1..m -> Seq(T)] : g = F(m, g)
    BY <1>3
  <2> DEFINE new == IF m = 0 THEN seqs[1] ELSE g[m] \o seqs[m + 1]
             h == [i \in 1..(m + 1) |-> IF i = m + 1 THEN new ELSE g[i]]
  <2>2. m + 1 \in 1..n /\ 1 \in 1..n /\ m + 1 \in 0..n
    BY <1>1
  <2>3. new \in Seq(T)
    <3>1. CASE m = 0
      BY <1>1, <2>2, <3>1
    <3>2. CASE m # 0
      <4>1. m \in 1..m
        BY <3>2
      <4>2. g[m] \in Seq(T) /\ seqs[m + 1] \in Seq(T)
        BY <1>1, <2>1, <2>2, <4>1
      <4>3. g[m] \o seqs[m + 1] \in Seq(T)
        BY <4>2
      <4> QED BY <3>2, <4>3
    <3> QED BY <3>1, <3>2
  <2>4. h \in [1..(m + 1) -> Seq(T)]
    <3>1. \A i \in 1..(m + 1) : i # m + 1 => i \in 1..m
      OBVIOUS
    <3> HIDE DEF new
    <3> QED BY <2>1, <2>3, <3>1
  <2>5. ASSUME NEW i \in 1..(m + 1)
        PROVE  h[i] = IF i = 1 THEN seqs[i] ELSE h[i - 1] \o seqs[i]
    <3>1. CASE i = m + 1 /\ m = 0
      BY <3>1
    <3>2. CASE i = m + 1 /\ m # 0
      <4>1. i # 1 /\ i - 1 = m /\ m # m + 1 /\ m \in 1..(m + 1)
        BY <3>2
      <4>2. h[i] = new /\ h[i - 1] = g[m]
        BY <3>2, <4>1
      <4> HIDE DEF h
      <4> QED BY <3>2, <4>1, <4>2
    <3>3. CASE i # m + 1
      <4>1. i \in 1..m /\ h[i] = g[i]
        BY <3>3
      <4>2. g[i] = IF i = 1 THEN seqs[i] ELSE g[i - 1] \o seqs[i]
        BY <2>1, <4>1
      <4>3. i # 1 => i - 1 \in 1..(m + 1) /\ i - 1 # m + 1 /\ h[i - 1] = g[i - 1]
        BY <3>3
      <4> HIDE DEF h
      <4> QED BY <4>1, <4>2, <4>3
    <3> QED BY <3>1, <3>2, <3>3
  <2>6. h = F(m + 1, h)
    <3>1. h = [i \in 1..(m + 1) |-> h[i]]
      OBVIOUS
    <3> HIDE DEF h
    <3> QED BY <2>5, <3>1
  <2> HIDE DEF F, h
  <2> QED BY <2>2, <2>4, <2>6
<1>4. n \in S
  <2> HIDE DEF S
  <2>1. 0..n \subseteq S
    BY <1>1, <1>2, <1>3, IntervalInduction
  <2> QED BY <1>1, <2>1
<1> DEFINE flatten == CHOOSE g : g = F(n, g)
<1>5. CASE n = 0
  BY <1>5 DEF FlattenSeq, n
<1>6. CASE n # 0
  <2>1. FlattenSeq(seqs) = flatten[n]
    BY <1>6, Zenon DEF FlattenSeq, n
  <2>2. \E g : g = F(n, g)
    <3> HIDE DEF F
    <3> QED BY <1>4
  <2>3. flatten = F(n, flatten)
    <3> HIDE DEF F
    <3> QED BY <2>2, Zenon
  <2> HIDE DEF flatten
  <2> DEFINE R == {m \in 0..(n - 1) : flatten[m + 1] \in Seq(T)}
  <2>4. 0 \in R
    <3>1. 1 \in 1..n /\ 0 \in 0..(n - 1)
      BY <1>1, <1>6
    <3>2. flatten[1] = seqs[1]
      BY <2>3, <3>1
    <3> QED BY <1>1, <3>1, <3>2
  <2>5. ASSUME NEW m \in 0..((n - 1) - 1), m \in R PROVE m + 1 \in R
    <3> DEFINE i == (m + 1) + 1
    <3>1. i \in 1..n /\ i # 1 /\ i - 1 = m + 1 /\ m + 1 \in 0..(n - 1)
      BY <1>1
    <3> HIDE DEF i
    <3>2. flatten[i] = flatten[i - 1] \o seqs[i]
      BY <2>3, <3>1
    <3>3. flatten[i - 1] \in Seq(T) /\ seqs[i] \in Seq(T)
      BY <1>1, <2>5, <3>1
    <3>4. flatten[i] \in Seq(T)
      BY <3>2, <3>3
    <3> QED BY <3>1, <3>4 DEF i
  <2>6. n - 1 \in R
    <3> HIDE DEF R
    <3>1. n - 1 \in Nat
      BY <1>1, <1>6
    <3>2. 0..(n - 1) \subseteq R
      BY <2>4, <2>5, <3>1, IntervalInduction
    <3> QED BY <3>1, <3>2
  <2>7. (n - 1) + 1 = n
    BY <1>1
  <2> QED BY <2>1, <2>6, <2>7
<1> QED BY <1>5, <1>6

\* The rows of a verdict.
Rows(texts, v) == {i \in DOMAIN texts : Verdict(texts[i]) = v}

\* Every text has one verdict.
LEMMA VerdictsPartition ==
  ASSUME NEW n \in Nat, NEW texts, DOMAIN texts = 1..n
  PROVE  /\ \A v : Cardinality(Rows(texts, v)) \in Nat
         /\ n = Cardinality(Rows(texts, "pass")) + Cardinality(Rows(texts, "fixed"))
                + Cardinality(Rows(texts, "word")) + Cardinality(Rows(texts, "global"))
<1> DEFINE P == Rows(texts, "pass")
           X == Rows(texts, "fixed")
           W == Rows(texts, "word")
           G == Rows(texts, "global")
<1>1. IsFiniteSet(1..n) /\ Cardinality(1..n) = n
  BY IntervalSize
<1>2. ASSUME NEW v PROVE IsFiniteSet(Rows(texts, v)) /\ Cardinality(Rows(texts, v)) \in Nat
  <2>1. Rows(texts, v) \subseteq 1..n
    BY DEF Rows
  <2> QED BY <1>1, <2>1, FS_Subset, FS_CardinalityType
<1>3. (P \cup X) \cup (W \cup G) = 1..n
  BY VerdictFacts DEF Rows
<1>4. P \cap X = {} /\ W \cap G = {} /\ (P \cup X) \cap (W \cup G) = {}
  BY DEF Rows
<1>5. /\ IsFiniteSet(P) /\ IsFiniteSet(X) /\ IsFiniteSet(W) /\ IsFiniteSet(G)
      /\ Cardinality(P) \in Nat /\ Cardinality(X) \in Nat
      /\ Cardinality(W) \in Nat /\ Cardinality(G) \in Nat
  BY <1>2
<1> HIDE DEF P, X, W, G
<1>6. ASSUME NEW Y, NEW Z, IsFiniteSet(Y), IsFiniteSet(Z), Y \cap Z = {}
      PROVE  /\ IsFiniteSet(Y \cup Z)
             /\ Cardinality(Y \cup Z) = Cardinality(Y) + Cardinality(Z)
  <2>1. /\ IsFiniteSet(Y \cup Z)
        /\ Cardinality(Y \cup Z) = Cardinality(Y) + Cardinality(Z) - Cardinality(Y \cap Z)
    BY <1>6, FS_Union
  <2>2. Cardinality(Y \cap Z) = 0 /\ Cardinality(Y) \in Nat /\ Cardinality(Z) \in Nat
    BY <1>6, FS_EmptySet, FS_CardinalityType
  <2> QED BY <2>1, <2>2
<1>7. /\ IsFiniteSet(P \cup X) /\ Cardinality(P \cup X) = Cardinality(P) + Cardinality(X)
      /\ IsFiniteSet(W \cup G) /\ Cardinality(W \cup G) = Cardinality(W) + Cardinality(G)
  BY <1>4, <1>5, <1>6
<1>8. Cardinality((P \cup X) \cup (W \cup G)) = Cardinality(P \cup X) + Cardinality(W \cup G)
  BY <1>4, <1>6, <1>7
<1>9. n = Cardinality(P \cup X) + Cardinality(W \cup G)
  BY <1>1, <1>3, <1>8, Zenon
<1>10. n = Cardinality(P) + Cardinality(X) + Cardinality(W) + Cardinality(G)
  BY <1>5, <1>7, <1>9
<1> QED BY <1>2, <1>10 DEF P, X, W, G

CounterNames == Counters \cup {"calls"}

\* What the crib's counters gain from a batch: every text once.
LEMMA TallyFacts ==
  ASSUME NEW counters \in [CounterNames -> Nat], NEW T, NEW texts \in Seq(T)
  PROVE  LET after == Tally(counters, texts)
         IN  /\ after \in [CounterNames -> Nat]
             /\ after["calls"] = counters["calls"] /\ after["keys"] = counters["keys"]
             /\ after["candidates"] = counters["candidates"]
             /\ problem.crib # NoCrib =>
                  /\ after["pass"] + after["reject"]
                       = counters["pass"] + counters["reject"] + Len(texts)
                  /\ after["reject"] - (after["fixed"] + after["word"] + after["global"])
                       = counters["reject"]
                         - (counters["fixed"] + counters["word"] + counters["global"])
<1> DEFINE p == Cardinality(Rows(texts, "pass"))
           x == Cardinality(Rows(texts, "fixed"))
           w == Cardinality(Rows(texts, "word"))
           g == Cardinality(Rows(texts, "global"))
           after == Tally(counters, texts)
           n == Len(texts)
<1>1. n \in Nat /\ DOMAIN texts = 1..n
  OBVIOUS
<1>2. /\ p \in Nat /\ x \in Nat /\ w \in Nat /\ g \in Nat
      /\ n = p + x + w + g
  BY <1>1, VerdictsPartition
<1>3. /\ {"calls", "keys", "candidates", "pass", "fixed", "word", "global", "reject"}
           \subseteq CounterNames
      /\ counters["pass"] \in Nat /\ counters["fixed"] \in Nat /\ counters["word"] \in Nat
      /\ counters["global"] \in Nat /\ counters["reject"] \in Nat
  BY DEF CounterNames, Counters
<1>4. CASE problem.crib = NoCrib
  BY <1>4 DEF Tally
<1>5. CASE problem.crib # NoCrib
  <2>1. after =
          [counters EXCEPT
             !["pass"] = @ + p, !["fixed"] = @ + x,
             !["word"] = @ + w, !["global"] = @ + g,
             !["reject"] = @ + n - p]
    BY <1>5 DEF Tally, Rows
  <2> HIDE DEF n, p, x, w, g, after
  <2>2. /\ DOMAIN after = CounterNames
        /\ after["pass"] = counters["pass"] + p
        /\ after["fixed"] = counters["fixed"] + x
        /\ after["word"] = counters["word"] + w
        /\ after["global"] = counters["global"] + g
        /\ after["reject"] = counters["reject"] + n - p
    BY <1>3, <2>1
  <2> DEFINE c1 == counters["pass"]
             c2 == counters["fixed"]
             c3 == counters["word"]
             c4 == counters["global"]
             c5 == counters["reject"]
             a1 == after["pass"]
             a2 == after["fixed"]
             a3 == after["word"]
             a4 == after["global"]
             a5 == after["reject"]
  <2>3. /\ c1 \in Nat /\ c2 \in Nat /\ c3 \in Nat /\ c4 \in Nat /\ c5 \in Nat
        /\ a1 = c1 + p /\ a2 = c2 + x /\ a3 = c3 + w /\ a4 = c4 + g /\ a5 = c5 + n - p
    BY <1>3, <2>2
  <2> HIDE DEF c1, c2, c3, c4, c5, a1, a2, a3, a4, a5
  <2>4. a5 = c5 + x + w + g
    BY <1>1, <1>2, <2>3
  <2>5. /\ a1 \in Nat /\ a2 \in Nat /\ a3 \in Nat /\ a4 \in Nat /\ a5 \in Nat
        /\ a1 + a5 = c1 + c5 + n
        /\ a5 - (a2 + a3 + a4) = c5 - (c2 + c3 + c4)
    BY <1>2, <2>3, <2>4
  <2>6. /\ after["pass"] \in Nat /\ after["fixed"] \in Nat /\ after["word"] \in Nat
        /\ after["global"] \in Nat /\ after["reject"] \in Nat
    BY <2>5 DEF a1, a2, a3, a4, a5
  <2>7. \A y \in CounterNames \ {"pass", "fixed", "word", "global", "reject"} :
          after[y] = counters[y]
    BY <1>3, <2>1
  <2>8. after \in [CounterNames -> Nat]
    <3>1. \A y \in CounterNames : after[y] \in Nat
      BY <2>6, <2>7
    <3>2. after = [y \in CounterNames |-> after[y]]
      BY <2>1, <2>2
    <3> QED BY <3>1, <3>2
  <2>9. /\ after["pass"] + after["reject"] = counters["pass"] + counters["reject"] + n
        /\ after["reject"] - (after["fixed"] + after["word"] + after["global"])
             = counters["reject"] - (counters["fixed"] + counters["word"] + counters["global"])
    BY <2>5 DEF a1, a2, a3, a4, a5, c1, c2, c3, c4, c5
  <2>10. /\ after["calls"] = counters["calls"] /\ after["keys"] = counters["keys"]
        /\ after["candidates"] = counters["candidates"]
    BY <1>3, <2>7
  <2> QED BY <2>8, <2>9, <2>10 DEF after, n
<1> QED BY <1>4, <1>5

-----------------------------------------------------------------------------
(* The invariants.                                                            *)

\* The problem stays one of those configured, and the counters are numbers.
TypeInv ==
  /\ problem \in Problems
  /\ telemetry \in [CounterNames -> Nat]
  /\ rescored \in [calls : Nat, readings : Nat]

\* The last evaluation gave each key of its batch what the key comes to, by the
\* score that it went by, and only a problem that allows degeneracy goes by raw
\* scores.
ResultInv ==
  /\ result.byRaw \in BOOLEAN
  /\ problem.degeneracy # "allow" => result.byRaw = FALSE
  /\ \A b \in DOMAIN result.batch :
       /\ result.batch[b] \in KeysOf(problem)
       /\ result.plains[b] = AnswerOf(result.batch[b], result.byRaw).text
       /\ result.pct[b] = AnswerOf(result.batch[b], result.byRaw).pct
       /\ result.raw[b] = AnswerOf(result.batch[b], result.byRaw).raw

\* The last plaintext shown is that of its key.
ResolvedInv ==
  resolved.key # NoKey =>
    resolved.key \in KeysOf(problem) /\ resolved.text = PlaintextOf(resolved.key)

Inv == TypeInv /\ ResultInv /\ ResolvedInv /\ CountersAgree

LEMMA InvInit ==
  ASSUME Init
  PROVE  Inv
<1>1. TypeInv
  BY DEF Init, TypeInv, CounterNames
<1>2. ResultInv
  BY DEF Init, ResultInv
<1>3. ResolvedInv
  BY DEF Init, ResolvedInv
<1>4. CountersAgree
  <2>1. \A c \in {"pass", "reject", "candidates", "fixed", "word", "global"} : telemetry[c] = 0
    BY DEF Init, Counters
  <2>2. rescored.readings = 0
    BY DEF Init
  <2> QED BY <2>1, <2>2 DEF CountersAgree
<1> QED BY <1>1, <1>2, <1>3, <1>4 DEF Inv

\* The problem, and so what its keys come to, survives a step.
LEMMA KeepsResult ==
  ASSUME ResultInv, problem' = problem, result' = result
  PROVE  ResultInv'
<1>1. \A key, byRaw : AnswerOf(key, byRaw)' = AnswerOf(key, byRaw)
  BY AnswersAreFixed
<1> DEFINE Right(b) ==
             /\ result.batch[b] \in KeysOf(problem)
             /\ result.plains[b] = AnswerOf(result.batch[b], result.byRaw).text
             /\ result.pct[b] = AnswerOf(result.batch[b], result.byRaw).pct
             /\ result.raw[b] = AnswerOf(result.batch[b], result.byRaw).raw
<1>2. ASSUME NEW b \in DOMAIN result'.batch PROVE Right(b)'
  <2>1. Right(b)
    BY <1>2 DEF ResultInv
  <2>2. AnswerOf(result.batch[b], result.byRaw)' = AnswerOf(result.batch[b], result.byRaw)
    BY <1>1
  <2> QED BY <2>1, <2>2
<1> QED BY <1>2 DEF ResultInv

LEMMA KeepsResolved ==
  ASSUME ResolvedInv, problem' = problem, resolved' = resolved
  PROVE  ResolvedInv'
<1>1. \A key : PlaintextOf(key)' = PlaintextOf(key)
  BY AnswersAreFixed
<1>2. PlaintextOf(resolved.key)' = PlaintextOf(resolved.key)
  BY <1>1
<1> QED BY <1>2 DEF ResolvedInv

\* What an evaluation gives each key of its batch, and how many texts it counts.
LEMMA EvaluateFacts ==
  ASSUME problem \in Problems, NEW n \in Nat, NEW batch \in [1..n -> KeysOf(problem)],
         NEW byRaw \in BOOLEAN,
         NEW done,
         done = IF problem.degeneracy = "allow" THEN Degenerate(batch, byRaw)
                ELSE Plain(batch, byRaw)
  PROVE  /\ done.texts \in Seq(Texts)
         /\ done.result.batch = batch /\ done.result.byRaw = byRaw
         /\ \A b \in 1..n : /\ done.result.plains[b] = AnswerOf(batch[b], byRaw).text
                            /\ done.result.pct[b] = AnswerOf(batch[b], byRaw).pct
                            /\ done.result.raw[b] = AnswerOf(batch[b], byRaw).raw
<1>1. DOMAIN batch = 1..n /\ \A b \in 1..n : batch[b] \in KeysOf(problem)
  OBVIOUS
<1>2. CASE problem.degeneracy = "allow"
  <2> DEFINE all == [b \in 1..n |-> Readings(batch[b])]
             best == [b \in 1..n |-> Resolve(Readings(batch[b]), byRaw)]
             plains == [b \in 1..n |-> best[b].text]
             pct == [b \in 1..n |-> best[b].pct]
             raw == [b \in 1..n |-> best[b].raw]
  <2>1. done =
          [texts |-> FlattenSeq(all),
           result |-> [batch |-> batch, byRaw |-> byRaw, plains |-> plains, pct |-> pct,
                       raw |-> raw]]
    BY <1>1, <1>2 DEF Degenerate
  <2>2. all \in Seq(Seq(Texts))
    <3>1. \A b \in 1..n : Readings(batch[b]) \in Seq(Texts)
      BY <1>1, ReadingsFacts
    <3> QED BY <3>1
  <2>3. \A b \in 1..n : best[b] = AnswerOf(batch[b], byRaw)
    BY <1>2 DEF AnswerOf
  <2> HIDE DEF all, best
  <2>4. ASSUME NEW b \in 1..n
        PROVE  /\ plains[b] = AnswerOf(batch[b], byRaw).text
               /\ pct[b] = AnswerOf(batch[b], byRaw).pct
               /\ raw[b] = AnswerOf(batch[b], byRaw).raw
    BY <2>3
  <2> HIDE DEF plains, pct, raw
  <2>5. /\ done.texts = FlattenSeq(all)
        /\ done.result.batch = batch /\ done.result.byRaw = byRaw
        /\ done.result.plains = plains /\ done.result.pct = pct /\ done.result.raw = raw
    BY <2>1
  <2>6. done.texts \in Seq(Texts)
    BY <2>2, <2>5, FlattenFacts
  <2> QED BY <2>4, <2>5, <2>6
<1>3. CASE problem.degeneracy # "allow"
  <2> DEFINE texts == [b \in 1..n |-> Decrypt(batch[b])]
             pct == ScoreTexts(texts, FALSE)
             raw == ScoreTexts(texts, TRUE)
  <2>1. done =
          [texts |-> texts,
           result |-> [batch |-> batch, byRaw |-> byRaw, plains |-> texts, pct |-> pct,
                       raw |-> raw]]
    BY <1>1, <1>3 DEF Plain
  <2>2. texts \in Seq(Texts)
    <3>1. \A b \in 1..n : Decrypt(batch[b]) \in Texts
      BY <1>1, DecryptFacts
    <3> QED BY <3>1
  <2>3. \A r \in BOOLEAN : ScoreTexts(texts, r) = [b \in 1..n |-> ScoreOf(texts[b], r)]
    <3>1. DOMAIN texts = 1..n
      OBVIOUS
    <3> HIDE DEF texts
    <3> QED BY <3>1, ScoreTextsFacts
  <2>4. ASSUME NEW b \in 1..n
        PROVE  /\ AnswerOf(batch[b], byRaw).text = texts[b]
               /\ AnswerOf(batch[b], byRaw).pct = ScoreOf(texts[b], FALSE)
               /\ AnswerOf(batch[b], byRaw).raw = ScoreOf(texts[b], TRUE)
    BY <1>3 DEF AnswerOf
  <2> HIDE DEF texts
  <2>5. ASSUME NEW b \in 1..n
        PROVE  pct[b] = ScoreOf(texts[b], FALSE) /\ raw[b] = ScoreOf(texts[b], TRUE)
    BY <2>3
  <2> HIDE DEF pct, raw
  <2>6. /\ done.texts = texts
        /\ done.result.batch = batch /\ done.result.byRaw = byRaw
        /\ done.result.plains = texts /\ done.result.pct = pct /\ done.result.raw = raw
    BY <2>1
  <2> QED BY <2>2, <2>4, <2>5, <2>6
<1> QED BY <1>2, <1>3

\* A call that counts the texts it evaluates, or those it scores again, keeps the
\* counters in agreement.
LEMMA CountingAgrees ==
  ASSUME TypeInv, CountersAgree, problem' = problem, NEW T, NEW texts \in Seq(T),
         NEW after, after = Tally(telemetry, texts),
         telemetry' \in [CounterNames -> Nat],
         \A c \in {"pass", "reject", "fixed", "word", "global"} : telemetry'[c] = after[c],
         \/ /\ telemetry'["candidates"] = after["candidates"] + Len(texts)
            /\ rescored'.readings = rescored.readings
         \/ /\ telemetry'["candidates"] = after["candidates"]
            /\ rescored'.readings = rescored.readings + Len(texts)
  PROVE  CountersAgree'
<1> SUFFICES ASSUME problem.crib # NoCrib
             PROVE  /\ telemetry'["pass"] + telemetry'["reject"]
                         = telemetry'["candidates"] + rescored'.readings
                    /\ telemetry'["reject"]
                         = telemetry'["fixed"] + telemetry'["word"] + telemetry'["global"]
  BY DEF CountersAgree
<1>1. /\ telemetry \in [CounterNames -> Nat] /\ rescored.readings \in Nat /\ Len(texts) \in Nat
  BY DEF TypeInv
<1>2. /\ after \in [CounterNames -> Nat] /\ after["candidates"] = telemetry["candidates"]
      /\ after["pass"] + after["reject"] = telemetry["pass"] + telemetry["reject"] + Len(texts)
      /\ after["reject"] - (after["fixed"] + after["word"] + after["global"])
           = telemetry["reject"]
             - (telemetry["fixed"] + telemetry["word"] + telemetry["global"])
  BY <1>1, TallyFacts
<1>3. /\ telemetry["pass"] + telemetry["reject"] = telemetry["candidates"] + rescored.readings
      /\ telemetry["reject"] = telemetry["fixed"] + telemetry["word"] + telemetry["global"]
  BY DEF CountersAgree
<1>4. /\ {"candidates", "pass", "fixed", "word", "global", "reject"} \subseteq CounterNames
  BY DEF CounterNames, Counters
<1> DEFINE old == telemetry["candidates"]
           new == telemetry'["candidates"]
           p == after["pass"]
           x == after["fixed"]
           w == after["word"]
           g == after["global"]
           r == after["reject"]
           n == Len(texts)
           s == rescored.readings
           t == rescored'.readings
           k1 == telemetry["pass"]
           k2 == telemetry["reject"]
           k3 == telemetry["fixed"] + telemetry["word"] + telemetry["global"]
<1>5. /\ old \in Nat /\ p \in Nat /\ x \in Nat /\ w \in Nat /\ g \in Nat /\ r \in Nat
      /\ n \in Nat /\ s \in Nat /\ k1 \in Nat /\ k2 \in Nat
  BY <1>1, <1>2, <1>4
<1>6. /\ p + r = k1 + k2 + n /\ r - (x + w + g) = k2 - k3 /\ k1 + k2 = old + s /\ k2 = k3
      /\ (new = old + n /\ t = s) \/ (new = old /\ t = s + n)
  BY <1>2, <1>3
<1>7. /\ telemetry'["pass"] = p /\ telemetry'["reject"] = r /\ telemetry'["fixed"] = x
      /\ telemetry'["word"] = w /\ telemetry'["global"] = g
  OBVIOUS
<1> HIDE DEF old, new, p, x, w, g, r, n, s, t, k1, k2, k3
<1>8. p + r = new + t /\ r = x + w + g
  BY <1>5, <1>6
<1> QED BY <1>7, <1>8 DEF new, t

\* An evaluation keeps the invariant.
LEMMA EvaluateStep ==
  ASSUME Inv, NEW batch \in Batches, NEW byRaw \in BOOLEAN,
         problem.degeneracy # "allow" => byRaw = FALSE,
         Evaluate(batch, byRaw)
  PROVE  Inv'
<1> DEFINE done == IF problem.degeneracy = "allow" THEN Degenerate(batch, byRaw)
                   ELSE Plain(batch, byRaw)
<1>1. TypeInv /\ ResultInv /\ ResolvedInv /\ CountersAgree /\ problem \in Problems
  BY DEF Inv, TypeInv
<1>2. PICK n \in 1..MaxBatch : batch \in [1..n -> KeysOf(problem)]
  BY DEF Batches
<1>3. n \in Nat /\ DOMAIN batch = 1..n
  BY <1>2, BoundsAssumption
<1>4. /\ done.texts \in Seq(Texts)
      /\ done.result.batch = batch /\ done.result.byRaw = byRaw
      /\ \A b \in 1..n : /\ done.result.plains[b] = AnswerOf(batch[b], byRaw).text
                         /\ done.result.pct[b] = AnswerOf(batch[b], byRaw).pct
                         /\ done.result.raw[b] = AnswerOf(batch[b], byRaw).raw
  <2> DEFINE d == done
  <2>1. d = IF problem.degeneracy = "allow" THEN Degenerate(batch, byRaw)
            ELSE Plain(batch, byRaw)
    OBVIOUS
  <2> HIDE DEF d
  <2>2. /\ d.texts \in Seq(Texts)
        /\ d.result.batch = batch /\ d.result.byRaw = byRaw
        /\ \A b \in 1..n : /\ d.result.plains[b] = AnswerOf(batch[b], byRaw).text
                           /\ d.result.pct[b] = AnswerOf(batch[b], byRaw).pct
                           /\ d.result.raw[b] = AnswerOf(batch[b], byRaw).raw
    <3>1. problem \in Problems /\ n \in Nat /\ batch \in [1..n -> KeysOf(problem)]
      BY <1>1, <1>2, <1>3
    <3> QED BY <2>1, <3>1, EvaluateFacts
  <2> QED BY <2>2 DEF d
<1> DEFINE tallied == Tally(telemetry, done.texts)
<1>5. /\ problem' = problem /\ resolved' = resolved /\ rescored' = rescored
      /\ result' = done.result
      /\ telemetry' = [tallied EXCEPT !["calls"] = @ + 1, !["keys"] = @ + Len(batch),
                                      !["candidates"] = @ + Len(done.texts)]
  BY DEF Evaluate
<1> HIDE DEF done
<1>6. Len(batch) \in Nat /\ Len(done.texts) \in Nat
  BY <1>2, <1>3, <1>4
<1>7. /\ tallied \in [CounterNames -> Nat]
      /\ {"calls", "keys", "candidates", "pass", "fixed", "word", "global", "reject"}
           \subseteq CounterNames
  BY <1>1, <1>4, TallyFacts DEF TypeInv, CounterNames, Counters
<1> HIDE DEF tallied
<1>8. telemetry' \in [CounterNames -> Nat]
  <2>1. ASSUME NEW c \in CounterNames, NEW k \in Nat PROVE tallied[c] + k \in Nat
    BY <1>7
  <2>2. /\ tallied["calls"] + 1 \in Nat /\ tallied["keys"] + Len(batch) \in Nat
        /\ tallied["candidates"] + Len(done.texts) \in Nat
    BY <1>6, <1>7, <2>1
  <2> QED BY <1>5, <1>7, <2>2
<1>9. TypeInv'
  BY <1>1, <1>5, <1>8 DEF TypeInv
<1>10. ResultInv'
  <2>1. ASSUME NEW b \in 1..n
        PROVE  /\ result'.batch[b] \in KeysOf(problem')
               /\ result'.plains[b] = AnswerOf(result.batch[b], result.byRaw)'.text
               /\ result'.pct[b] = AnswerOf(result.batch[b], result.byRaw)'.pct
               /\ result'.raw[b] = AnswerOf(result.batch[b], result.byRaw)'.raw
    <3>1. result'.batch[b] = batch[b] /\ result'.byRaw = byRaw
      BY <1>4, <1>5
    <3>2. AnswerOf(result.batch[b], result.byRaw)' = AnswerOf(batch[b], byRaw)'
      BY <3>1
    <3>3. AnswerOf(batch[b], byRaw)' = AnswerOf(batch[b], byRaw)
      BY <1>5, AnswersAreFixed
    <3>4. batch[b] \in KeysOf(problem)
      BY <1>2
    <3> QED BY <1>4, <1>5, <3>1, <3>2, <3>3, <3>4
  <2>2. result'.batch = batch /\ result'.byRaw = byRaw
    BY <1>4, <1>5
  <2> QED BY <1>3, <1>5, <2>1, <2>2 DEF ResultInv
<1>11. ResolvedInv'
  BY <1>1, <1>5, KeepsResolved
<1>12. CountersAgree'
  <2>1. \A c \in {"pass", "reject", "fixed", "word", "global"} : telemetry'[c] = tallied[c]
    BY <1>5, <1>7
  <2>2. telemetry'["candidates"] = tallied["candidates"] + Len(done.texts)
    BY <1>5, <1>7
  <2>3. rescored'.readings = rescored.readings
    BY <1>5
  <2>4. tallied = Tally(telemetry, done.texts)
    BY DEF tallied
  <2>5. problem' = problem /\ done.texts \in Seq(Texts)
    BY <1>4, <1>5
  <2> QED BY <1>1, <1>8, <2>1, <2>2, <2>3, <2>4, <2>5, CountingAgrees
<1> QED BY <1>9, <1>10, <1>11, <1>12 DEF Inv

\* So does showing a plaintext.
LEMMA ResolvePlaintextStep ==
  ASSUME Inv, NEW key \in KeysOf(problem), ResolvePlaintext(key)
  PROVE  Inv'
<1>1. TypeInv /\ ResultInv /\ ResolvedInv /\ CountersAgree /\ problem \in Problems
  BY DEF Inv, TypeInv
<1> DEFINE texts == Scored(key)
           tallied == Tally(telemetry, texts)
<1>2. /\ problem' = problem /\ result' = result
      /\ resolved' = [key |-> key, text |-> PlaintextOf(key)]
      /\ telemetry' = tallied
      /\ rescored' = [calls |-> rescored.calls + 1,
                      readings |-> rescored.readings + Len(texts)]
  BY DEF ResolvePlaintext
<1>3. texts \in Seq(Texts)
  BY <1>1, ReadingsFacts DEF Scored
<1> HIDE DEF texts
<1>4. tallied \in [CounterNames -> Nat] /\ Len(texts) \in Nat
  BY <1>1, <1>3, TallyFacts DEF TypeInv
<1> HIDE DEF tallied
<1>5. TypeInv'
  BY <1>1, <1>2, <1>4 DEF TypeInv
<1>6. ResultInv'
  BY <1>1, <1>2, KeepsResult
<1>7. ResolvedInv'
  <2>1. PlaintextOf(key)' = PlaintextOf(key)
    BY <1>2, AnswersAreFixed
  <2>2. resolved'.key = key /\ resolved'.text = PlaintextOf(key)
    BY <1>2
  <2>3. PlaintextOf(resolved.key)' = PlaintextOf(key)'
    BY <2>2
  <2> QED BY <1>2, <2>1, <2>2, <2>3 DEF ResolvedInv
<1>8. CountersAgree'
  <2>1. tallied = Tally(telemetry, texts)
    BY DEF tallied
  <2>2. rescored'.readings = rescored.readings + Len(texts)
    BY <1>2
  <2>3. telemetry' \in [CounterNames -> Nat]
    BY <1>2, <1>4
  <2> QED BY <1>1, <1>2, <1>3, <2>1, <2>2, <2>3, CountingAgrees
<1> QED BY <1>5, <1>6, <1>7, <1>8 DEF Inv

LEMMA InvNext ==
  ASSUME Inv, [Next]_vars
  PROVE  Inv'
<1>1. ASSUME NEW batch \in Batches, EvaluateKeys(batch) PROVE Inv'
  BY <1>1, EvaluateStep DEF EvaluateKeys
<1>2. ASSUME NEW batch \in Batches, NEW requireRaw \in BOOLEAN,
             EvaluateKeysWithRaw(batch, requireRaw)
      PROVE  Inv'
  <2>1. /\ ByRaw(requireRaw) \in BOOLEAN
        /\ problem.degeneracy # "allow" => ByRaw(requireRaw) = FALSE
    BY DEF ByRaw
  <2> QED BY <1>2, <2>1, EvaluateStep DEF EvaluateKeysWithRaw
<1>3. ASSUME NEW key \in KeysOf(problem), ResolvePlaintext(key) PROVE Inv'
  BY <1>3, ResolvePlaintextStep
<1>4. CASE UNCHANGED vars
  <2>1. /\ problem' = problem /\ telemetry' = telemetry /\ result' = result
        /\ resolved' = resolved /\ rescored' = rescored
    BY <1>4 DEF vars
  <2>2. TypeInv' /\ CountersAgree'
    BY <2>1 DEF Inv, TypeInv, CountersAgree
  <2> QED BY <2>1, <2>2, KeepsResult, KeepsResolved DEF Inv
<1> QED BY <1>1, <1>2, <1>3, <1>4 DEF Next

-----------------------------------------------------------------------------
(* The theorems.                                                              *)

\* The invariant implies each property.
LEMMA InvImpliesShown ==
  ASSUME Inv
  PROVE  ShownPlaintextDeservesScore
<1> SUFFICES ASSUME NEW b \in DOMAIN result.batch, result.batch[b] = resolved.key
             PROVE  LET shown == IF resolved.text = NoText \/ Verdict(resolved.text) # "pass"
                                   THEN MinusInfinity ELSE PrimaryScore(resolved.text)
                    IN  IF result.byRaw THEN shown >= result.pct[b] ELSE shown = result.pct[b]
  BY DEF ShownPlaintextDeservesScore
<1> DEFINE key == resolved.key
           byRaw == result.byRaw
           a == AnswerOf(key, byRaw)
           shown == IF resolved.text = NoText \/ Verdict(resolved.text) # "pass"
                      THEN MinusInfinity ELSE PrimaryScore(resolved.text)
<1>1. /\ problem \in Problems /\ key \in KeysOf(problem) /\ byRaw \in BOOLEAN
      /\ problem.degeneracy # "allow" => byRaw = FALSE
      /\ result.pct[b] = a.pct
  BY DEF Inv, TypeInv, ResultInv
<1>2. key # NoKey
  BY <1>1, ScorerAssumption
<1>3. resolved.text = PlaintextOf(key)
  BY <1>2 DEF Inv, ResolvedInv
<1>4. NoText \notin Texts
  BY <1>1, ScorerAssumption DEF Texts, Symbols
<1>5. resolved.text \in Texts => shown = ScoreOf(resolved.text, FALSE)
  BY <1>4 DEF ScoreOf
<1>6. CASE problem.degeneracy # "allow"
  <2>1. resolved.text = Decrypt(key) /\ a.pct = ScoreOf(Decrypt(key), FALSE)
    BY <1>3, <1>6 DEF PlaintextOf, AnswerOf
  <2>2. Decrypt(key) \in Texts
    BY <1>1, DecryptFacts
  <2> HIDE DEF shown, a, key, byRaw
  <2> QED BY <1>1, <1>5, <1>6, <2>1, <2>2 DEF shown, byRaw
<1>7. CASE problem.degeneracy = "allow"
  <2> DEFINE texts == Readings(key)
             c == Resolve(texts, FALSE)
  <2>1. a = Resolve(texts, byRaw) /\ resolved.text = c.text
    BY <1>3, <1>7 DEF PlaintextOf, AnswerOf
  <2>2. texts \in Seq(Texts)
    BY <1>1, ReadingsFacts
  <2>3. shown \in Int /\ a.pct \in Int /\ shown >= a.pct /\ (byRaw = FALSE => shown = a.pct)
    <3> HIDE DEF texts, shown, byRaw, key
    <3>1. CASE texts = <<>>
      <4>1. /\ c = [text |-> NoText, pct |-> MinusInfinity, raw |-> MinusInfinity]
            /\ a = [text |-> NoText, pct |-> MinusInfinity, raw |-> MinusInfinity]
        BY <1>1, <2>1, <2>2, <3>1, ResolveFacts
      <4> HIDE DEF c, a
      <4>2. resolved.text = NoText /\ a.pct = MinusInfinity
        BY <2>1, <4>1
      <4> QED BY <4>2 DEF shown, MinusInfinity
    <3>2. CASE texts # <<>>
      <4>1. PICK i \in 1..Len(texts) :
              /\ a = [text |-> texts[i], pct |-> ScoreOf(texts[i], FALSE),
                      raw |-> ScoreOf(texts[i], TRUE)]
              /\ \A j \in 1..Len(texts) : ScoreOf(texts[j], byRaw) <= ScoreOf(texts[i], byRaw)
        BY <1>1, <2>1, <2>2, <3>2, ResolveFacts
      <4>2. PICK h \in 1..Len(texts) :
              /\ c = [text |-> texts[h], pct |-> ScoreOf(texts[h], FALSE),
                      raw |-> ScoreOf(texts[h], TRUE)]
              /\ \A j \in 1..Len(texts) : ScoreOf(texts[j], FALSE) <= ScoreOf(texts[h], FALSE)
        BY <1>1, <2>2, <3>2, ResolveFacts
      <4> HIDE DEF c, a
      <4>3. /\ texts[i] \in Texts /\ texts[h] \in Texts
            /\ a.pct = ScoreOf(texts[i], FALSE) /\ resolved.text = texts[h]
        BY <2>1, <2>2, <4>1, <4>2
      <4>4. shown = ScoreOf(texts[h], FALSE)
        BY <1>5, <4>3
      <4> DEFINE x == ScoreOf(texts[i], FALSE)
                 y == ScoreOf(texts[h], FALSE)
      <4>5. x \in Int /\ y \in Int
        BY <1>1, <4>3, ScoreFacts
      <4>6. x <= y
        BY <4>2
      <4>7. byRaw = FALSE => y <= x
        BY <4>1
      <4> HIDE DEF x, y
      <4>8. shown = y /\ a.pct = x
        BY <4>3, <4>4 DEF x, y
      <4> QED BY <4>5, <4>6, <4>7, <4>8
    <3> QED BY <3>1, <3>2
  <2> HIDE DEF shown, a, byRaw
  <2> QED BY <1>1, <2>3 DEF shown, byRaw
<1> QED BY <1>6, <1>7

LEMMA InvImpliesScore ==
  ASSUME Inv
  PROVE  ScoreIsOfAReading
<1> SUFFICES ASSUME NEW b \in DOMAIN result.batch
             PROVE  LET key == result.batch[b]
                        best == IF result.byRaw THEN result.raw[b] ELSE result.pct[b]
                        Score(t) == IF result.byRaw THEN RawScore(t) ELSE PrimaryScore(t)
                    IN  /\ IF result.plains[b] = NoText
                             THEN {result.pct[b], result.raw[b]} = {MinusInfinity}
                             ELSE /\ Meanings(key) # {} => result.plains[b] \in Meanings(key)
                                  /\ IF Verdict(result.plains[b]) = "pass"
                                       THEN /\ result.pct[b] = PrimaryScore(result.plains[b])
                                            /\ result.raw[b] = RawScore(result.plains[b])
                                       ELSE {result.pct[b], result.raw[b]} = {MinusInfinity}
                        /\ problem.degeneracy = "allow" /\ Exhaustive(key) =>
                             best = Max({MinusInfinity}
                                          \cup {Score(t) : t \in Passing(Meanings(key))})
  BY DEF ScoreIsOfAReading
<1> DEFINE key == result.batch[b]
           byRaw == result.byRaw
           a == AnswerOf(key, byRaw)
           text == result.plains[b]
           pct == result.pct[b]
           raw == result.raw[b]
<1>1. /\ problem \in Problems /\ key \in KeysOf(problem) /\ byRaw \in BOOLEAN
      /\ text = a.text /\ pct = a.pct /\ raw = a.raw
  BY DEF Inv, TypeInv, ResultInv
<1>2. NoText \notin Texts
  BY <1>1, ScorerAssumption DEF Texts, Symbols
<1>3. IF text = NoText
        THEN {pct, raw} = {MinusInfinity}
        ELSE /\ Meanings(key) # {} => text \in Meanings(key)
             /\ IF Verdict(text) = "pass"
                  THEN pct = PrimaryScore(text) /\ raw = RawScore(text)
                  ELSE {pct, raw} = {MinusInfinity}
  <2> HIDE DEF key, byRaw, text, pct, raw
  <2>1. CASE a = [text |-> NoText, pct |-> MinusInfinity, raw |-> MinusInfinity]
    BY <1>1, <2>1
  <2>2. ASSUME NEW t \in Texts,
               a = [text |-> t, pct |-> ScoreOf(t, FALSE), raw |-> ScoreOf(t, TRUE)],
               Meanings(key) # {} => t \in Meanings(key)
        PROVE  /\ text # NoText
               /\ Meanings(key) # {} => text \in Meanings(key)
               /\ IF Verdict(text) = "pass"
                    THEN pct = PrimaryScore(text) /\ raw = RawScore(text)
                    ELSE {pct, raw} = {MinusInfinity}
    <3>1. text = t /\ pct = ScoreOf(t, FALSE) /\ raw = ScoreOf(t, TRUE)
      BY <1>1, <2>2
    <3> HIDE DEF a
    <3> QED BY <1>2, <2>2, <3>1 DEF ScoreOf
  <2> HIDE DEF a
  <2>3. \/ a = [text |-> NoText, pct |-> MinusInfinity, raw |-> MinusInfinity]
        \/ \E t \in Texts :
             /\ a = [text |-> t, pct |-> ScoreOf(t, FALSE), raw |-> ScoreOf(t, TRUE)]
             /\ Meanings(key) # {} => t \in Meanings(key)
    BY <1>1, AnswerFacts DEF a
  <2> QED BY <2>1, <2>2, <2>3
<1>4. ASSUME problem.degeneracy = "allow", Exhaustive(key)
      PROVE  (IF byRaw THEN raw ELSE pct) = BestMeaning(key, byRaw)
  <2>1. a = Resolve(Readings(key), byRaw)
    BY <1>4 DEF AnswerOf
  <2>2. BestMeaning(key, byRaw) = IF byRaw THEN a.raw ELSE a.pct
    BY <1>1, <1>4, <2>1, ResolveIsBest
  <2> HIDE DEF a, key, byRaw, pct, raw
  <2> QED BY <1>1, <2>2
<1> QED BY <1>3, <1>4 DEF BestMeaning

\* What every state of a run is: the problem is one of those configured, each
\* score of the last evaluation is what its key comes to, and the last plaintext
\* shown is that of its key.
THEOREM EvaluationIsInvariant == Spec => []Inv
<1>1. Init => Inv
  BY InvInit
<1>2. Inv /\ [Next]_vars => Inv'
  BY InvNext
<1> QED BY <1>1, <1>2, PTL DEF Spec

\* A key's score is that of a text it stands for, and the best of them when no limit
\* cuts the readings (runtime.py, evaluate_keys and the mixed-radix enumeration).
THEOREM ScoresAreOfReadings == Spec => []ScoreIsOfAReading
<1>1. Inv => ScoreIsOfAReading
  BY InvImpliesScore
<1> QED BY <1>1, EvaluationIsInvariant, PTL

\* The plaintext shown for a key deserves the score reported for the key
\* (runtime.py, resolve_plaintext).
THEOREM ShownPlaintextsDeserveScores == Spec => []ShownPlaintextDeservesScore
<1>1. Inv => ShownPlaintextDeservesScore
  BY InvImpliesShown
<1> QED BY <1>1, EvaluationIsInvariant, PTL

\* The crib's counters put every text down once, over any sequence of evaluations
\* and resolutions (runtime.py, the hard crib filter).
THEOREM CountersAlwaysAgree == Spec => []CountersAgree
<1>1. Inv => CountersAgree
  BY DEF Inv
<1> QED BY <1>1, EvaluationIsInvariant, PTL
=============================================================================
