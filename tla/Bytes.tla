------------------------------- MODULE Bytes -------------------------------
(***************************************************************************)
(* Reader, the cursor of crates/wasmrt-core/src/reader.rs over the bytes   *)
(* of a module.                                                            *)
(*                                                                         *)
(* A reader is [in, pos, ok, out]: the bytes, how many of them were        *)
(* consumed, whether every read so far succeeded (the error that ended     *)
(* them is not told apart), and what was read, in order.  A number that    *)
(* does not fit in 28 bits counts as Huge: nothing it is compared with is  *)
(* as large.                                                               *)
(***************************************************************************)
EXTENDS Integers, Sequences, SequencesExt, FiniteSetsExt

Huge == 2 ^ 28

Reader(in) == [in |-> in, pos |-> 0, ok |-> TRUE, out |-> <<>>]
Fail(r) == [r EXCEPT !.ok = FALSE]
Check(r, condition) == IF condition THEN r ELSE Fail(r)
Remaining(r) == Len(r.in) - r.pos
AtEnd(r) == r.pos >= Len(r.in)
Got(r) == Last(r.out)

Take(r, n, read) ==
  IF r.ok /\ n <= Remaining(r) THEN [r EXCEPT !.pos = @ + n, !.out = Append(@, read)] ELSE Fail(r)
NextByte(r) == r.in[r.pos + 1]

ReadByte(r) == Take(r, 1, NextByte(r))
ReadBytes(r, n) == Take(r, n, SubSeq(r.in, r.pos + 1, r.pos + n))
NextIs(r, bytes) == r.ok /\ ~AtEnd(r) /\ NextByte(r) \in bytes

\* What F reads, with what Mk makes of it in the place of its values.
Form(r, F(_), Mk(_)) ==
  LET Made(read) == IF r.ok /\ read.ok THEN [read EXCEPT !.out = Append(r.out, Mk(read.out))] ELSE Fail(r)
  IN  Made(F([r EXCEPT !.out = <<>>]))

\* What K does after the value that was read last, which it gets and which is not
\* kept.
Then(read, K(_, _)) == IF read.ok THEN K([read EXCEPT !.out = Front(@)], Got(read)) ELSE read

\* The value that was read last is one of those P takes.
Ensure(read, P(_)) == Check(read, read.ok => P(Got(read)))

\* F for each of count entries.  An entry is at least one byte, so a larger
\* count than there are bytes fails on the way.
Times(r, count, F(_)) ==
  LET Read[k \in 0..Min({count, Remaining(r) + 1})] == IF k = 0 THEN r ELSE F(Read[k - 1])
  IN  Read[Min({count, Remaining(r) + 1})]

-----------------------------------------------------------------------------
(* LEB128.                                                                 *)

Bit(byte, k) == (byte \div 2 ^ k) % 2

\* The bytes of the number: up to the first that does not continue, and never
\* more than max.
LebLength(r, max) ==
  Min({n \in 1..max : n = max \/ r.pos + n > Len(r.in) \/ r.in[r.pos + n] < 128})

\* The bits of a number of this width, the lowest first.  The last byte a number
\* may have is one of final: it is checked for bits beyond the width, and for
\* a further byte.
LebBits(r, width, max, final, signed) ==
  LET bit(i) == Bit(r.in[r.pos + (i \div 7) + 1], i % 7)
      bits(n) == [i \in 1..width |-> IF i <= 7 * n THEN bit(i - 1) ELSE IF signed THEN bit(7 * n - 1) ELSE 0]
      Of(n) == Take(Check(r, n <= Remaining(r) /\ (n = max => r.in[r.pos + max] \in final)), n, bits(n))
  IN  Of(LebLength(r, max))

\* Mutant of U32Final: a bit beyond the width is let through.
U32FinalWide == 0..31
U32Final == 0..15
U64Final == 0..1
I32Final == 0..7 \cup \H78..\H7F
I64Final == {0, \H7F}
S33Final == 0..15 \cup \H70..\H7F

BitsU32(r) == LebBits(r, 32, 5, U32Final, FALSE)
BitsU64(r) == LebBits(r, 64, 10, U64Final, FALSE)
BitsI32(r) == LebBits(r, 32, 5, I32Final, TRUE)
BitsI64(r) == LebBits(r, 64, 10, I64Final, TRUE)
BitsS33(r) == LebBits(r, 33, 5, S33Final, TRUE)

Unsigned(bits) ==
  LET From[k \in 1..29] == IF k = 29 THEN 0 ELSE bits[k] + 2 * From[k + 1]
  IN  IF \E i \in 29..Len(bits) : bits[i] = 1 THEN Huge ELSE From[1]
Signed(bits) ==
  LET flipped == [i \in DOMAIN bits |-> 1 - bits[i]]
  IN  IF Last(bits) = 0 THEN Unsigned(bits) ELSE -Unsigned(flipped) - 1

VarU32(r) == Form(r, BitsU32, LAMBDA read : Unsigned(read[1]))
VarU64(r) == Form(r, BitsU64, LAMBDA read : Unsigned(read[1]))
VarS33(r) == Form(r, BitsS33, LAMBDA read : Signed(read[1]))

\* The length of a vector: each of its elements is at least one byte.
VecLen(r) ==
  LET Fits(read) == Check(read, read.ok => Got(read) <= Remaining(read))
  IN  Fits(VarU32(r))

\* The elements of a vector, as one value.
Elements(r, Length(_), F(_)) ==
  Then(Length(r), LAMBDA rest, count : Form(rest, LAMBDA q : Times(q, count, F), LAMBDA read : read))
Vec(r, F(_)) == Elements(r, VecLen, F)
List(r, F(_)) == Elements(r, VarU32, F)

-----------------------------------------------------------------------------
(* The encoding, as the WebAssembly specification defines it (5.2.2).      *)

\* The bits of the number that bytes encode, from the k-th on, in a width; <<>>
\* when they do not encode one.
RECURSIVE Encoded(_, _, _, _)
Encoded(bytes, k, width, signed) ==
  LET n == bytes[k]
      low == [i \in 1..7 |-> Bit(n, i - 1)]
      rest == Encoded(bytes, k + 1, width - 7, signed)
      fits == IF signed THEN \A i \in width..7 : low[i] = low[Min({width, 7})] ELSE \A i \in (width + 1)..7 : low[i] = 0
  IN  CASE k > Len(bytes)         -> <<>>
        [] n < 128                -> IF fits THEN [i \in 1..width |-> IF i <= 7 THEN low[i]
                                                                    ELSE IF signed THEN low[7] ELSE 0]
                                     ELSE <<>>
        [] n >= 128 /\ width > 7  -> IF rest = <<>> THEN <<>> ELSE low \o rest
        [] OTHER                  -> <<>>

ReadAs(bytes, width, signed, read) ==
  LET bits == Encoded(bytes, 1, width, signed)
  IN  IF bits = <<>> THEN ~read.ok
      ELSE read.ok /\ Got(read) = bits /\ read.pos = Min({k \in DOMAIN bytes : bytes[k] < 128})

ReadsNumbers(bytes) ==
  /\ ReadAs(bytes, 32, FALSE, BitsU32(Reader(bytes)))
  /\ ReadAs(bytes, 64, FALSE, BitsU64(Reader(bytes)))
  /\ ReadAs(bytes, 32, TRUE, BitsI32(Reader(bytes)))
  /\ ReadAs(bytes, 64, TRUE, BitsI64(Reader(bytes)))
  /\ ReadAs(bytes, 33, TRUE, BitsS33(Reader(bytes)))
=============================================================================
