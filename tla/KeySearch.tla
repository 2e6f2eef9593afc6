----------------------------- MODULE KeySearch ------------------------------
(* The keys of a solver on their way to a cipher: rdp.keyops supplies, draws, *)
(* changes and crosses them, DecryptionProblem splits a composite key, and the*)
(* cipher decrypts with it.  The solvers' own modules say which verb is used  *)
(* when; here any verb may follow any other.                                  *)
EXTENDS KeyOps, ScheduledStream

CONSTANTS
  Ciphers,          \* a subset of CipherNames
  KeyLength,        \* of vector keys
  Width,            \* key_length of columnar keys
  Period, Columns,  \* of periodic keys
  MinRails, MaxRails,
  Streams,          \* of scheduled stream ciphers
  NoStream,
  Orientations,     \* records [perm, rtl]
  ExactPositions,   \* the fixed sets of interruptors
  Texts,            \* the texts to encrypt
  RawSeeds,         \* sequences of numbers a caller may supply as a key
  Distance          \* bound: mutations between two keys

CipherNames == {"vigenere", "autokey", "railfence", "columnar", "substitution",
                "periodic_substitution", "sub_then_col", "col_then_sub", "scheduled_stream"}

ASSUME SearchAssumption ==
  /\ Ciphers \subseteq CipherNames
  /\ {KeyLength, Width, Period, Columns, MinRails} \subseteq Nat \ {0} /\ MaxRails >= MinRails
  /\ A >= 2 /\ MinRails >= 2
  \* Columnar keys have at most 255 places, blocks at most A: a value is never the mark.
  /\ \A n \in {Width, Columns, A} : Unfilled \notin 0 .. n - 1

VARIABLES
  problem,   \* cipher, streams, orientation, interruptors and text, never changed
  verb,      \* how key was made
  key,       \* [core, at]: the core and, of a composite key, the interruptors
  mate       \* another key of the population

vars == <<problem, verb, key, mate>>

FamilyOf(p) ==
  CASE p.cipher \in {"vigenere", "autokey"} -> Vector(KeyLength, 0, A)
    [] p.cipher = "scheduled_stream" -> Vector(StreamKeyLength(p.stream), 0, A)
    [] p.cipher = "railfence" -> Vector(1, MinRails, MaxRails - MinRails + 1)
    [] p.cipher = "columnar" -> Permutation(Width)
    [] p.cipher = "substitution" -> Permutation(A)
    [] p.cipher = "periodic_substitution" -> Matrix(Period, A, 0)
    [] OTHER -> Matrix(Period, A, Columns)

\* How many symbols the interruptors leave of the text.
CoreSizes(p) ==
  {Size(p.text) - n :
     n \in IF p.search THEN InterruptMin .. InterruptMax ELSE {Cardinality(p.exact)}}

\* A composite key has a vector or permutation core: the matrix family needs a
\* period the composite does not hand down, and the rails' minimum is lost.
Problems ==
  {p \in [cipher : Ciphers, stream : Streams \cup {NoStream}, orient : Orientations,
          text : Texts, exact : ExactPositions, search : BOOLEAN] :
     /\ p.search => /\ p.exact = {}
                    /\ p.cipher \in {"vigenere", "autokey", "columnar", "substitution",
                                    "scheduled_stream"}
     /\ IF p.cipher = "scheduled_stream"
          THEN p.stream # NoStream /\ \A n \in CoreSizes(p) : Schedulable(p.stream, n)
          ELSE p.stream = NoStream}

Family == FamilyOf(problem)
Composite == problem.search

-----------------------------------------------------------------------------
(* The verbs.                                                                 *)

\* normalize: the core's places, then the interruptors' slots.
Normalize(p, raw) ==
  LET f == FamilyOf(p)
  IN  [core |-> NormalizeCore(f, [i \in Places(f) |-> raw[i + 1]]),
       at |-> IF p.search
                THEN NormalizeInterruptors(SubSeq(raw, f.K + 1, f.K + InterruptMax))
                ELSE {}]

Keys == [core : RandomCores(Family), at : IF Composite THEN RandomInterruptors ELSE {{}}]

WithCore(k, cores) == {[k EXCEPT !.core = c] : c \in cores}
WithInterruptors(k, sets) == IF Composite THEN {[k EXCEPT !.at = S] : S \in sets} ELSE {}

\* mutate changes the core or the interruptors.
MutationsOf(k) == WithCore(k, CoreMutations(Family, k.core))
                    \cup WithInterruptors(k, InterruptorMutations(k.at))

Children ==
  {[core |-> c, at |-> S] :
     c \in CoreChildren(Family, key.core, mate.core),
     S \in InterruptorChildren(key.at, mate.at)}

\* Slot entries: the positions in use and, with a slot left, the sentinel.
SlotEntries == key.at \cup (IF Cardinality(key.at) < InterruptMax THEN {-1} ELSE {})

Expansions ==
  WithCore(key, UNION {CoreExpansions(Family, key.core, i) : i \in Places(Family)})
    \cup WithInterruptors(key, UNION {InterruptorExpansions(key.at, v) : v \in SlotEntries})

Init ==
  /\ problem \in Problems
  /\ \E raw, other \in RawSeeds :
       /\ key = Normalize(problem, raw)
       /\ mate = Normalize(problem, other)
  /\ verb = "normalize"

Make(name, keys) ==
  /\ key' \in keys
  /\ verb' = name
  /\ UNCHANGED <<problem, mate>>

\* random and make_population fill a population once, before anything changes it.
Random == verb = "normalize" /\ Make("random", Keys)
Mutate == Make("mutate", MutationsOf(key))

\* Only the permutation family has neighbours of its own.
Neighbor == /\ Family.kind = "permutation" /\ ~ Composite
            /\ Make("neighbor", WithCore(key, CoreNeighbors(Family, key.core)))

Recombine == Make("recombine", Children)
ExpandPosition == Make("expand_position", Expansions)

Next == Random \/ Mutate \/ Neighbor \/ Recombine \/ ExpandPosition

Spec == Init /\ [][Next]_vars

-----------------------------------------------------------------------------
(* The cipher.                                                                *)

\* _resolve_interrupt_idx: the key's positions if they are searched.
InterruptIdx == IF Composite THEN key.at ELSE problem.exact

DecryptCore(c) ==
  CASE problem.cipher = "vigenere" -> VigenereDecrypt(c, key.core)
    [] problem.cipher = "autokey" -> AutokeyDecrypt(c, key.core)
    [] problem.cipher = "scheduled_stream" -> StreamDecrypt(problem.stream, c, key.core)
    [] problem.cipher = "columnar" -> ColumnarUndo(c, key.core)
    [] problem.cipher = "substitution" -> Substitute(c, key.core)
    [] problem.cipher = "periodic_substitution" -> PeriodicDecrypt(c, key.core, Period)
    [] OTHER -> PeriodicColumnarDecrypt(c, key.core, Period, problem.cipher)

\* Substitution encrypts with the table from plaintext to ciphertext.
EncryptCore(p) ==
  CASE problem.cipher = "vigenere" -> VigenereEncrypt(p, key.core)
    [] problem.cipher = "autokey" -> AutokeyEncrypt(p, key.core)
    [] problem.cipher = "scheduled_stream" -> StreamEncrypt(problem.stream, p, key.core)
    [] problem.cipher = "columnar" -> ColumnarApply(p, key.core)
    [] problem.cipher = "substitution" -> Substitute(p, InverseOf(key.core))
    [] problem.cipher = "periodic_substitution" -> PeriodicEncrypt(p, key.core, Period)
    [] OTHER -> PeriodicColumnarEncrypt(p, key.core, Period, problem.cipher)

Decrypt(c) ==
  IF problem.cipher = "railfence" THEN RailfenceDecrypt(c, key.core[0])
  ELSE Through(problem.orient, c, InterruptIdx, DecryptCore)
Encrypt(p) ==
  IF problem.cipher = "railfence" THEN RailfenceEncrypt(p, key.core[0])
  ELSE Through(problem.orient, p, InterruptIdx, EncryptCore)

\* What the cipher checks of a key before it uses it.
CipherAccepts ==
  LET values == {key.core[i] : i \in DOMAIN key.core}
  IN  CASE problem.cipher \in {"sub_then_col", "col_then_sub", "columnar"} ->
             \A b \in Blocks(Family) : IsPermutation(Part(key.core, b))
        [] problem.cipher = "periodic_substitution" ->
             /\ values \subseteq 0 .. A - 1
             /\ \A b \in Blocks(Family) : IsPermutation(Part(key.core, b))
        [] problem.cipher = "railfence" -> values \subseteq MinRails .. MaxRails
        [] OTHER -> values \subseteq 0 .. A - 1

\* The text is one of the readings its encryption has, where that has any.
CandidatesHold(t) ==
  LET Core(x) == ApplyText(problem.orient, Prepare(problem.orient, x, InterruptIdx).core)
      candidates == StreamCandidates(problem.stream, Core(Encrypt(t)), key.core, A)
      values == Translate(problem.stream, Core(t), key.core, Listed)
  IN  \A i \in DOMAIN values :
        values[i] # <<>> => Core(t)[i] \in ToSet(candidates[i])

-----------------------------------------------------------------------------
(* Properties.                                                                *)

\* validate: what a composite key promises of its interruptors.
InterruptorsInRange ==
  /\ key.at \subseteq Pool
  /\ Cardinality(key.at) \in InterruptMin .. InterruptMax

\* Every key the verbs make, from whatever numbers a caller supplied, is valid,
\* is accepted by the cipher it is for, and is left alone by normalize.
KeysStayValid ==
  /\ DOMAIN key.core = Places(Family)
  /\ ValidCore(Family, key.core) /\ CipherAccepts
  /\ IF Composite THEN InterruptorsInRange ELSE key.at = {}
  /\ NormalizeCore(Family, key.core) = key.core
  /\ Composite => NormalizeInterruptors(SetToSeq(key.at)) = key.at

\* With any of these keys encryption and decryption undo each other, whatever the
\* orientation and wherever the interruptors are, and the interruptors keep their
\* places and symbols.  An ambiguous operation may exchange a reading for another,
\* but for one that encrypts to the same text, and the one that is lost is among the
\* candidates.
CipherIsLossless ==
  LET t == problem.text
  IN  /\ IF problem.stream # NoStream /\ Ambiguous(problem.stream)
           THEN Encrypt(Decrypt(Encrypt(t))) = Encrypt(t) /\ CandidatesHold(t)
           ELSE Decrypt(Encrypt(t)) = t /\ Encrypt(Decrypt(t)) = t
      /\ problem.cipher # "railfence" => \A i \in InterruptIdx : Encrypt(t)[i] = t[i]

\* Mutation alone leads from a supplied key to every valid key: no part of the
\* key space is closed to a walk of mutations.
MutationReachesEveryKey ==
  LET reached[n \in Nat] ==
        IF n = 0 THEN {key}
        ELSE LET before == reached[n - 1]
             IN  before \cup UNION {MutationsOf(k) : k \in before}
  IN  verb = "normalize" => reached[Distance] = Keys

\* A crossover invents nothing.  A vector child takes each place from a parent, a
\* matrix child each block.  A permutation child, and a matrix child's tail, keeps
\* a segment of one parent; outside it the child agrees with the other parent
\* wherever the segment leaves it that value, or follows that parent's order.
\* The interruptors are of the parents, as many as one of them has.
KeepsSegment(c, a, b) ==
  \E cut \in Cuts(a) :
    LET inside == cut[1] .. cut[2]
        outside == DOMAIN a \ inside
        After(v, x) == (IndexIn(v, x) - cut[2] - 1) % Cardinality(DOMAIN a)
    IN  /\ \A x \in inside : c[x] = a[x]
        /\ \/ \A x \in outside : b[x] \notin {a[y] : y \in inside} => c[x] = b[x]
           \/ \A x, y \in outside :
                After(c, c[x]) < After(c, c[y]) => After(b, c[x]) < After(b, c[y])

CoreInherits(c, a, b) ==
  IF Family.kind = "vector" THEN \A i \in Places(Family) : c[i] \in {a[i], b[i]}
  ELSE \A r \in DOMAIN Family.blocks :
         LET P(k) == Part(k, Family.blocks[r])
             crossed == Family.kind = "permutation" \/ (Family.tail /\ r = Len(Family.blocks))
         IN  IF crossed THEN KeepsSegment(P(c), P(a), P(b)) \/ KeepsSegment(P(c), P(b), P(a))
             ELSE P(c) \in {P(a), P(b)}

ChildInherits ==
  [][verb' = "recombine" =>
       /\ CoreInherits(key'.core, key.core, mate.core)
       /\ key'.at \subseteq key.at \cup mate.at
       /\ Cardinality(key'.at) \in {Cardinality(key.at), Cardinality(mate.at)}]_vars

=============================================================================
