-------------------------- MODULE ScheduledStream ---------------------------
(* ScheduledStreamLookupCipher: one or two streams of key values, "A" and "B",*)
(* a schedule of the streams that act at each position of the core, and an    *)
(* operation by which they change a symbol.                                   *)
(*                                                                            *)
(* A cipher is a record: streams[x] is [kind, period, values, direction,      *)
(* anchor, offset, repeat]; schedule is with its first stream, its windows    *)
(* from[x]..to[x] - 1 or its mask; lookup is the table of that operation, for *)
(* each set of acting streams.                                                *)
EXTENDS Pipeline

CONSTANT NoEnd   \* a window lasts to the end of the text

Names == {"A", "B"}

-----------------------------------------------------------------------------
(* The schedule.                                                              *)

WindowEnd(s, x, n) ==
  IF s.schedule = "staggered_overlay" \/ s.to[x] = NoEnd THEN n ELSE s.to[x]

\* The streams that act at position i of a core of n symbols.
Active(s, i, n) ==
  CASE s.schedule = "overlay" -> DOMAIN s.streams
    [] s.schedule = "alternating" -> IF i % 2 = 0 THEN {s.first} ELSE Names \ {s.first}
    [] s.schedule \in {"staggered_overlay", "ragged_overlap"} ->
         {x \in Names : i \in s.from[x] .. WindowEnd(s, x, n) - 1}
    [] s.schedule = "mask" -> s.mask[i]

\* Where a stream is before it is wrapped.
RawIndex(t, i, n) ==
  LET origin == IF t.anchor = "start" THEN 0 ELSE n - 1
  IN  (IF t.direction = "forward" THEN i - origin ELSE origin - i) + t.offset

Wraps(t) == t.kind = "periodic" \/ (t.kind = "fixed" /\ t.repeat)
PeriodOf(t) == IF t.kind = "fixed" THEN Size(t.values) ELSE t.period

StreamIndex(t, i, n) ==
  IF Wraps(t) THEN RawIndex(t, i, n) % PeriodOf(t) ELSE RawIndex(t, i, n)

\* A core of n symbols has a schedule; decrypting any other raises.  A stream that
\* does not wrap must last for the whole core, wherever it acts.
Schedulable(s, n) ==
  /\ s.schedule = "mask" => DOMAIN s.mask = 0 .. n - 1
  /\ s.schedule \in {"staggered_overlay", "ragged_overlap"} =>
       \A x \in Names : 0 <= s.from[x] /\ s.from[x] <= WindowEnd(s, x, n)
                                       /\ WindowEnd(s, x, n) <= n
  /\ \A i \in 0 .. n - 1 : Active(s, i, n) \subseteq DOMAIN s.streams
  /\ \A x \in DOMAIN s.streams, i \in 0 .. n - 1 :
       ~ Wraps(s.streams[x]) =>
         /\ RawIndex(s.streams[x], i, n) >= 0
         /\ s.streams[x].kind = "fixed" => RawIndex(s.streams[x], i, n) < PeriodOf(s.streams[x])

-----------------------------------------------------------------------------
(* The values of the streams.                                                 *)

\* Only periodic streams have places in the key, those of A first.
KeyPlaces(s, x) ==
  IF x \in DOMAIN s.streams /\ s.streams[x].kind = "periodic" THEN s.streams[x].period ELSE 0
StreamKeyLength(s) == KeyPlaces(s, "A") + KeyPlaces(s, "B")
KeyStart(s, x) == IF x = "A" THEN 0 ELSE KeyPlaces(s, "A")

\* The n-th prime, from 0: there is one before the double of the last.
Prime[n \in Nat] ==
  IF n = 0 THEN 2
  ELSE Min({c \in Prime[n - 1] + 1 .. 2 * Prime[n - 1] : \A d \in 2 .. c - 1 : c % d # 0})

StreamValue(s, k, x, i, n) ==
  LET t == s.streams[x]
      at == StreamIndex(t, i, n)
  IN  CASE t.kind = "periodic" -> k[KeyStart(s, x) + at] % A
        [] t.kind = "fixed" -> t.values[at]
        [] t.kind = "primes" -> Prime[at] % A

-----------------------------------------------------------------------------
(* The operation.                                                             *)

Bit(x, b) == (x \div (2 ^ b)) % 2
Xor(x, y) == SumSet({2 ^ b : b \in {c \in 0 .. 7 : Bit(x, c) # Bit(y, c)}})

\* What the values a and b, 0 if their stream does not act, make of symbol p.
Combine(operation, p, a, b) ==
  CASE operation = "add" -> (p + a + b) % A
    [] operation = "add_sub" -> (p + a - b) % A
    [] operation = "sub_add" -> (p - a + b) % A
    [] operation = "beaufort_sum" -> (a + b - p) % A
    [] operation = "xor_mod" -> Xor(Xor(p, a), b) % A

\* The symbols p may become: a table's entry, which may be empty, or the one
\* symbol the operation gives.  Without a table for no stream p stays as it is.
Listed(s, active, p, a, b) ==
  IF s.operation = "lookup" /\ active \in DOMAIN s.lookup THEN s.lookup[active][p][a][b]
  ELSE IF active = {} THEN <<p>>
  ELSE <<Combine(s.operation, p, a, b)>>

\* The tables hold the first symbol listed, and the first symbol that lists.
EncryptSymbol(s, active, p, a, b) ==
  LET listed == Listed(s, active, p, a, b)
  IN  IF listed = <<>> THEN 0 ELSE Head(listed)
InversesOf(s, active, c, a, b) ==
  Ascending({p \in 0 .. A - 1 : c \in ToSet(Listed(s, active, p, a, b))})
DecryptSymbol(s, active, c, a, b) ==
  LET ps == InversesOf(s, active, c, a, b)
  IN  IF ps = <<>> THEN 0 ELSE Head(ps)

\* A kernel: each position with the values of the streams that act there.
Translate(s, t, k, Symbol(_, _, _, _, _)) ==
  LET n == Size(t)
      Value(x, i) == IF x \in Active(s, i, n) THEN StreamValue(s, k, x, i, n) ELSE 0
  IN  [i \in DOMAIN t |-> Symbol(s, Active(s, i, n), t[i], Value("A", i), Value("B", i))]

StreamEncrypt(s, p, k) == Translate(s, p, k, EncryptSymbol)
StreamDecrypt(s, c, k) == Translate(s, c, k, DecryptSymbol)

\* candidates_for: the inverses of each symbol, at most limit of them.
StreamCandidates(s, c, k, limit) ==
  LET all == Translate(s, c, k, InversesOf)
  IN  [i \in DOMAIN c |-> SubSeq(all[i], 1, Min({limit, Len(all[i])}))]

\* These may give two symbols the same ciphertext.
Ambiguous(s) == s.operation \in {"xor_mod", "lookup"}

=============================================================================
