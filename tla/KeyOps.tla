------------------------------- MODULE KeyOps -------------------------------
(* rdp.keyops: the verbs by which solvers make, repair, change and cross keys.*)
(* A family is a record: vector keys have values min..min+mod-1 in K places;  *)
(* structured keys are blocks that are permutations - one for the permutation *)
(* family, one per period and a tail of columns for the periodic matrix       *)
(* family.  A verb that draws random numbers is the set of its outcomes.      *)
(*                                                                            *)
(* A composite key adds interruptor positions from a pool.  Their sorted,     *)
(* padded segment is the set of the positions it holds.                       *)
EXTENDS Integers, FiniteSets

LOCAL INSTANCE SequencesExt
LOCAL INSTANCE FiniteSetsExt

CONSTANTS
  Unfilled,        \* 255, the mark of a place a crossover has yet to fill
  Pool,            \* interruptors_pool
  InterruptMin,    \* interruptors_min
  InterruptMax     \* interruptors_max, the slots of the segment

ASSUME PoolAssumption ==
  /\ IsFiniteSet(Pool) /\ Pool \subseteq Nat
  /\ InterruptMin \in Nat /\ InterruptMax \in 1 .. Cardinality(Pool)
  /\ InterruptMin <= InterruptMax

Vector(K, min, mod) == [kind |-> "vector", K |-> K, min |-> min, mod |-> mod]
Permutation(K) ==
  [kind |-> "permutation", K |-> K, tail |-> FALSE, blocks |-> <<<<0, K>>>>]
Matrix(period, A, columns) ==
  [kind |-> "matrix", K |-> period * A + columns, tail |-> columns > 0,
   blocks |-> [r \in 1 .. period |-> <<(r - 1) * A, A>>]
                \o (IF columns = 0 THEN <<>> ELSE <<<<period * A, columns>>>>)]

Places(f) == 0 .. f.K - 1
PlacesOf(block) == block[1] .. block[1] + block[2] - 1
Blocks(f) == ToSet(f.blocks)

Part(k, block) == [i \in 0 .. block[2] - 1 |-> k[block[1] + i]]
Swap(k, i, j) == [k EXCEPT ![i] = k[j], ![j] = k[i]]
IndexIn(b, x) == CHOOSE i \in DOMAIN b : b[i] = x
IsPermutation(v) == {v[i] : i \in DOMAIN v} = DOMAIN v

\* The keys whose r-th block is one of parts[r].
Joined(f, parts) ==
  LET BlockAt(i) == CHOOSE r \in DOMAIN f.blocks : i \in PlacesOf(f.blocks[r])
      choices == {s \in [DOMAIN parts -> UNION {parts[r] : r \in DOMAIN parts}] :
                    \A r \in DOMAIN parts : s[r] \in parts[r]}
  IN  {[i \in Places(f) |-> s[BlockAt(i)][i - f.blocks[BlockAt(i)][1]]] : s \in choices}

-----------------------------------------------------------------------------
(* Core keys: making and repairing.                                           *)

\* The stable rank of each entry.
RepairToPerm(v) ==
  [i \in DOMAIN v |->
     Cardinality({j \in DOMAIN v : v[j] < v[i] \/ (v[j] = v[i] /\ j < i)})]

NormalizeBlock(v) == IF IsPermutation(v) THEN v ELSE RepairToPerm(v)

NormalizeVector(f, k) == [i \in Places(f) |-> f.min + ((k[i] - f.min) % f.mod)]
NormalizeBlocks(f, k) ==
  [i \in Places(f) |->
     LET b == CHOOSE x \in Blocks(f) : i \in PlacesOf(x)
     IN  NormalizeBlock(Part(k, b))[i - b[1]]]

NormalizeCore(f, k) ==
  IF f.kind = "vector" THEN NormalizeVector(f, k) ELSE NormalizeBlocks(f, k)

\* random: any vector, any shuffle of each block.
RandomVectors(f) == [Places(f) -> f.min .. f.min + f.mod - 1]
Shuffles(n) == {v \in [0 .. n - 1 -> 0 .. n - 1] : IsPermutation(v)}
RandomBlocks(f) == Joined(f, [r \in DOMAIN f.blocks |-> Shuffles(f.blocks[r][2])])

RandomCores(f) == IF f.kind = "vector" THEN RandomVectors(f) ELSE RandomBlocks(f)

\* validate; matrix keys are checked by their ciphers.
ValidVector(f, k) == \A i \in Places(f) : k[i] >= f.min /\ k[i] < f.min + f.mod
ValidBlocks(f, k) == \A b \in Blocks(f) : IsPermutation(Part(k, b))

ValidCore(f, k) == IF f.kind = "vector" THEN ValidVector(f, k) ELSE ValidBlocks(f, k)

-----------------------------------------------------------------------------
(* Core keys: changing.                                                       *)

\* A step of one up or down.
VectorMutations(f, k) ==
  {[k EXCEPT ![i] = f.min + ((k[i] - f.min + d) % f.mod)] : i \in Places(f), d \in {1, -1}}

\* A swap of two places of the block; a block of one place stays as it is.
SwapsIn(k, block) ==
  LET pairs == {c \in PlacesOf(block) \X PlacesOf(block) : c[1] < c[2]}
  IN  IF pairs = {} THEN {k} ELSE {Swap(k, c[1], c[2]) : c \in pairs}

BlockMutations(f, k) == UNION {SwapsIn(k, b) : b \in Blocks(f)}

CoreMutations(f, k) ==
  IF f.kind = "vector" THEN VectorMutations(f, k) ELSE BlockMutations(f, k)

ThreeCycles(k) ==
  {[k EXCEPT ![p[1]] = k[p[3]], ![p[2]] = k[p[1]], ![p[3]] = k[p[2]]] :
     p \in {q \in [1 .. 3 -> DOMAIN k] : Cardinality({q[1], q[2], q[3]}) = 3}}

\* neighbor adds three-cycles to a permutation's swaps.
CoreNeighbors(f, k) == CoreMutations(f, k) \cup ThreeCycles(k)

\* expand_position; matrix keys have the default of KeyOpBase, some of their mutations.
VectorExpansions(f, k, pos) ==
  {[k EXCEPT ![pos] = v] : v \in f.min .. f.min + f.mod - 1}
PermutationExpansions(f, k, pos) == {Swap(k, pos, j) : j \in Places(f)}

CoreExpansions(f, k, pos) ==
  IF f.kind = "vector" THEN VectorExpansions(f, k, pos)
  ELSE IF f.kind = "permutation" THEN PermutationExpansions(f, k, pos)
  ELSE CoreMutations(f, k)

-----------------------------------------------------------------------------
(* Core keys: crossing.                                                       *)

Segment(a, i, j) == [x \in DOMAIN a |-> IF x \in i .. j THEN a[x] ELSE Unfilled]

\* Follow the map from a to b until a free place.
FreePlaceFor(child, a, b, k) ==
  LET follow[p \in DOMAIN a] ==
        LET at == IndexIn(b, a[p]) IN IF child[at] = Unfilled THEN at ELSE follow[at]
  IN  follow[k]

PMX(a, b, i, j) ==
  LET Place(child, k) ==
        IF \E x \in DOMAIN child : child[x] = b[k] THEN child
        ELSE [child EXCEPT ![FreePlaceFor(child, a, b, k)] = b[k]]
      mapped == FoldLeft(Place, Segment(a, i, j), [n \in 1 .. j - i + 1 |-> i + n - 1])
  IN  [x \in DOMAIN a |-> IF mapped[x] = Unfilled THEN b[x] ELSE mapped[x]]

\* Mutant: b is read from its start.
OXFromStart(a, b, i, j) ==
  LET K == Cardinality(DOMAIN a)
      used == {a[x] : x \in i .. j}
      rest == SelectSeq([n \in 1 .. K |-> b[(n - 1) % K]], LAMBDA v : v \notin used)
  IN  [x \in DOMAIN a |-> IF x \in i .. j THEN a[x] ELSE rest[((x - j - 1) % K) + 1]]

\* What is not in the segment follows it in the order b has after the segment.
OX(a, b, i, j) ==
  LET K == Cardinality(DOMAIN a)
      used == {a[x] : x \in i .. j}
      rest == SelectSeq([n \in 1 .. K |-> b[(j + n) % K]], LAMBDA v : v \notin used)
  IN  [x \in DOMAIN a |-> IF x \in i .. j THEN a[x] ELSE rest[((x - j - 1) % K) + 1]]

Cuts(a) == {c \in (DOMAIN a) \X (DOMAIN a) : c[1] < c[2]}
OXs(a, b) == IF Cuts(a) = {} THEN {a} ELSE {OX(a, b, c[1], c[2]) : c \in Cuts(a)}

\* recombine: one cut; PMX or OX, repaired; or block by block from either parent
\* with a crossed tail.
VectorChildren(f, a, b) ==
  IF f.K <= 1 THEN {a}
  ELSE {[i \in Places(f) |-> IF i < cut THEN a[i] ELSE b[i]] : cut \in 1 .. f.K - 1}

PermutationChildren(f, a, b) ==
  {NormalizeBlocks(f, child) :
     child \in {PMX(a, b, c[1], c[2]) : c \in Cuts(a)} \cup OXs(a, b)}

MatrixChildren(f, a, b) ==
  LET From(r) == {Part(a, f.blocks[r]), Part(b, f.blocks[r])}
      Crossed(r) == OXs(Part(a, f.blocks[r]), Part(b, f.blocks[r]))
                      \cup OXs(Part(b, f.blocks[r]), Part(a, f.blocks[r]))
  IN  {NormalizeBlocks(f, child) : child \in
         Joined(f, [r \in DOMAIN f.blocks |->
                      IF f.tail /\ r = Len(f.blocks) THEN Crossed(r) ELSE From(r)])}

CoreChildren(f, a, b) ==
  IF f.kind = "vector" THEN VectorChildren(f, a, b)
  ELSE IF f.kind = "permutation" THEN PermutationChildren(f, a, b)
  ELSE MatrixChildren(f, a, b)

-----------------------------------------------------------------------------
(* Interruptor positions.                                                     *)

Nearest(v) ==
  CHOOSE p \in Pool : \A q \in Pool \ {p} :
    \/ (p - v) * (p - v) < (q - v) * (q - v)
    \/ ((p - v) * (p - v) = (q - v) * (q - v) /\ p < q)

\* Mutant: the segment is not filled to the minimum.
NormalizeInterruptorsUnfilled(raw) == {Nearest(v) : v \in {x \in ToSet(raw) : x >= 0}}

\* Negative entries are dropped, the others snapped to the pool, and the lowest
\* free pool entries added up to the minimum.
NormalizeInterruptors(raw) ==
  LET used == {Nearest(v) : v \in {x \in ToSet(raw) : x >= 0}}
      free == Pool \ used
      missing == InterruptMin - Cardinality(used)
  IN  used \cup {p \in free : Cardinality({q \in free : q < p}) < missing}

RandomInterruptors == {S \in SUBSET Pool : Cardinality(S) \in InterruptMin .. InterruptMax}

\* Mutant: a full segment is never emptied.
InterruptorMutationsKeepFull(S) ==
  LET empty_slot == IF Cardinality(S) < InterruptMax THEN {S} ELSE {}
      removed == IF InterruptMin < Cardinality(S) /\ Cardinality(S) < InterruptMax
                   THEN {S \ {v} : v \in S} ELSE {}
  IN  removed \cup empty_slot \cup {(S \ {v}) \cup {w} : v \in S, w \in Pool \ S}
        \cup {S \cup {w} : w \in IF empty_slot # {} THEN Pool \ S ELSE {}}

\* The interruptor branch of mutate.  A slot is drawn; it is emptied if the
\* minimum allows it and the coin says so - or the segment is full -, otherwise
\* it takes a pool entry that is not in use.
InterruptorMutations(S) ==
  LET allow_remove == Cardinality(S) > InterruptMin
      allow_add == Cardinality(S) < InterruptMax
      avail == Pool \ S
      empty_slot == IF allow_add THEN {S} ELSE {}
      removed == {S \ {v} : v \in S} \cup empty_slot
      replaced == {(S \ {v}) \cup {w} : v \in S, w \in avail}
                    \cup (IF allow_add THEN {S \cup {w} : w \in avail} ELSE {})
      draw == IF avail # {} THEN replaced ELSE IF allow_remove THEN removed ELSE {S}
  IN  (IF allow_remove THEN removed ELSE {})
        \cup (IF allow_remove => allow_add THEN draw ELSE {})

\* As many positions as one of the parents has, from those of both.
InterruptorChildren(S, T) ==
  LET targets == {Cardinality(S), Cardinality(T)}
  IN  {R \in SUBSET (S \cup T) : Cardinality(R) \in targets}

\* expand_position on an interruptor slot: v is the position in it, or -1.
InterruptorExpansions(S, v) ==
  LET avail == Pool \ S
  IN  {S} \cup {(S \ {v}) \cup {w} : w \in avail}
        \cup (IF v >= 0 /\ Cardinality(S) > InterruptMin THEN {S \ {v}} ELSE {})

=============================================================================
