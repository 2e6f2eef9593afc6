------------------------------ MODULE Pipeline ------------------------------
(* rdp.ciphers: the pipeline every keyed cipher runs its kernel in, and the   *)
(* kernels.  Texts and keys are arrays indexed from 0, their symbols are      *)
(* 0..A-1.                                                                    *)
(*                                                                            *)
(* An orientation is [perm, rtl]: a permutation of the whole text or NoPerm,  *)
(* and whether the core is read from right to left.  A permutation makes the  *)
(* core's direction neutral.  The direction of the key, which no configuration*)
(* sets, is left out.  A batch is its keys one by one.                        *)
EXTENDS Integers, FiniteSets, SequencesExt

CONSTANTS
  A,        \* size of the alphabet
  NoPerm    \* the text is not permuted

ASSUME AlphabetAssumption == A \in Nat \ {0}

Size(t) == Cardinality(DOMAIN t)
Symbols == 0 .. A - 1
IsArray(t) == IsFiniteSet(DOMAIN t) /\ t \in [0 .. Size(t) - 1 -> Symbols]

\* How many places of S come before x, and the place with n before it.
Rank(S, x) == Cardinality({y \in S : y < x})
Nth(S, n) == CHOOSE x \in S : Rank(S, x) = n

\* The array of a sequence of places.
ArrayOf(s) == [i \in 0 .. Len(s) - 1 |-> s[i + 1]]

Ascending(S) == [i \in 1 .. Cardinality(S) |-> Nth(S, i - 1)]

\* The inverse of an array that holds each of its places once.
InverseOf(p) == [x \in DOMAIN p |-> CHOOSE i \in DOMAIN p : p[i] = x]

-----------------------------------------------------------------------------
(* Interruptors and orientation.                                              *)

\* The symbols at S are taken out; each is kept with its place in what is left.
RemoveFrom(t, S) ==
  LET kept == DOMAIN t \ S
  IN  [core |-> [n \in 0 .. Cardinality(kept) - 1 |-> t[Nth(kept, n)]],
       idx |-> [k \in 0 .. Cardinality(S) - 1 |-> Nth(S, k) - k],
       sym |-> [k \in 0 .. Cardinality(S) - 1 |-> t[Nth(S, k)]]]

\* numpy.insert: the k-th symbol goes k places further, the core fills the rest.
InsertInto(core, info) ==
  LET at == {info.idx[k] + k : k \in DOMAIN info.idx}
  IN  [x \in 0 .. Size(core) + Size(info.idx) - 1 |->
         IF x \in at THEN info.sym[Rank(at, x)] ELSE core[x - Rank(at, x)]]

ApplyFullTextPerm(o, t) == IF o.perm = NoPerm THEN t ELSE [i \in DOMAIN t |-> t[o.perm[i]]]
UndoFullTextPerm(o, t) ==
  IF o.perm = NoPerm THEN t ELSE [i \in DOMAIN t |-> t[InverseOf(o.perm)[i]]]

\* Mutant: the permutation is applied to the positions, not undone on them.
MapInterruptIdxForward(o, S) == IF o.perm = NoPerm THEN S ELSE {o.perm[i] : i \in S}

\* Where the symbols at S are after the permutation.
MapInterruptIdx(o, S) == IF o.perm = NoPerm THEN S ELSE {InverseOf(o.perm)[i] : i \in S}

\* apply_text, which is its own inverse.
ApplyText(o, t) ==
  IF o.perm = NoPerm /\ o.rtl THEN [i \in DOMAIN t |-> t[Size(t) - 1 - i]] ELSE t

\* What the kernel sees of a text, and the text from what the kernel returns.
Prepare(o, t, S) == RemoveFrom(ApplyFullTextPerm(o, t), MapInterruptIdx(o, S))
Reassemble(o, core, info) == UndoFullTextPerm(o, InsertInto(ApplyText(o, core), info))

\* decrypt and encrypt: permute, take the interruptors out, orient, run the
\* kernel and undo it all.
Through(o, t, S, Kernel(_)) ==
  LET info == Prepare(o, t, S)
  IN  Reassemble(o, Kernel(ApplyText(o, info.core)), info)

-----------------------------------------------------------------------------
(* Kernels.                                                                   *)

VigenereEncrypt(p, k) == [i \in DOMAIN p |-> (p[i] + k[i % Size(k)]) % A]
VigenereDecrypt(c, k) == [i \in DOMAIN c |-> (c[i] - k[i % Size(k)]) % A]

\* The seed, then the plaintext itself, is the key.
AutokeyEncrypt(p, seed) ==
  [i \in DOMAIN p |->
     (p[i] + (IF i < Size(seed) THEN seed[i] ELSE p[i - Size(seed)])) % A]

AutokeyDecrypt(c, seed) ==
  LET out[i \in DOMAIN c] ==
        (c[i] - (IF i < Size(seed) THEN seed[i] ELSE out[i - Size(seed)])) % A
  IN  out

\* The columns hold every K-th symbol and are read in the order of the key.
ColumnarApply(p, k) ==
  LET Column(c) == Ascending({i \in DOMAIN p : i % Size(k) = c})
      order == FlattenSeq([r \in 1 .. Size(k) |-> Column(k[r - 1])])
  IN  [n \in DOMAIN p |-> p[ArrayOf(order)[n]]]

\* The first rem columns are one longer; a column starts where those read before
\* it end.
ColumnarUndo(c, k) ==
  LET K == Size(k)
      rows == (Size(c) + K - 1) \div K
      rem == Size(c) % K
      Length(col) == IF rem = 0 \/ col < rem THEN rows ELSE rows - 1
      before[r \in 0 .. K - 1] == IF r = 0 THEN 0 ELSE before[r - 1] + Length(k[r - 1])
      Offset(col) == before[InverseOf(k)[col]]
  IN  [i \in DOMAIN c |-> c[Offset(i % K) + i \div K]]

\* The positions of a text of n symbols, rail by rail; the zigzag turns at the
\* outer rails.
ZigzagOrder(n, rails) ==
  LET walk[i \in 0 .. n - 1] ==
        IF i = 0 THEN <<0, 1>>
        ELSE LET rail == walk[i - 1][1] + walk[i - 1][2]
             IN  <<rail, IF rail \in {0, rails - 1} THEN - walk[i - 1][2]
                         ELSE walk[i - 1][2]>>
      Rail(r) == Ascending({i \in 0 .. n - 1 : walk[i][1] = r})
  IN  IF rails <= 1 \/ rails >= n THEN [i \in 0 .. n - 1 |-> i]
      ELSE ArrayOf(FlattenSeq([r \in 1 .. rails |-> Rail(r - 1)]))

\* Rail fence has an entry of its own: no orientation, no interruptors.
RailfenceEncrypt(p, rails) == [n \in DOMAIN p |-> p[ZigzagOrder(Size(p), rails)[n]]]
RailfenceDecrypt(c, rails) ==
  [i \in DOMAIN c |-> c[InverseOf(ZigzagOrder(Size(c), rails))[i]]]

\* Substitution looks a symbol up; the key decrypts, its inverse encrypts.
Substitute(t, k) == [i \in DOMAIN t |-> k[t[i]]]

Block(k, r) == [x \in 0 .. A - 1 |-> k[r * A + x]]

PeriodicDecrypt(c, k, period) == [i \in DOMAIN c |-> Block(k, i % period)[c[i]]]
PeriodicEncrypt(p, k, period) ==
  [i \in DOMAIN p |-> InverseOf(Block(k, i % period))[p[i]]]

\* A periodic substitution and a columnar transposition, in either order; the
\* columns' key follows the blocks.
ColumnKey(k, period) == [i \in 0 .. Size(k) - period * A - 1 |-> k[period * A + i]]

PeriodicColumnarDecrypt(c, k, period, order) ==
  IF order = "sub_then_col"
    THEN PeriodicDecrypt(ColumnarUndo(c, ColumnKey(k, period)), k, period)
    ELSE ColumnarUndo(PeriodicDecrypt(c, k, period), ColumnKey(k, period))

PeriodicColumnarEncrypt(p, k, period, order) ==
  IF order = "sub_then_col"
    THEN ColumnarApply(PeriodicEncrypt(p, k, period), ColumnKey(k, period))
    ELSE PeriodicEncrypt(ColumnarApply(p, ColumnKey(k, period)), k, period)

=============================================================================
