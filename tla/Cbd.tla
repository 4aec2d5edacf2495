----------------------------------- MODULE Cbd --------------------------------
(***************************************************************************)
(* The centred binomial samplers: cbd of src/src/sample.rs, which spells   *)
(* out the bit fields of a coefficient per byte group, and the kernels of  *)
(* src/src/backend/avx2/sample.rs and src/src/backend/neon/sample.rs,      *)
(* which first take the fields from their deserializers (VectorUnpack) and *)
(* then count their bits by table lookup and by instruction.  A call of a  *)
(* deserializer by itself, for a matrix entry, ends with the last group.   *)
(***************************************************************************)
EXTENDS VectorUnpack, FiniteSets

CONSTANT Inputs  \* [mu, bytes]: the XOF output for a parameter set's mu

\* N coefficients make a ring element: RING_DEG.
ASSUME InputsAssumption ==
  \A b \in Inputs :
    /\ b.mu \in {6, 8, 10} \cap Widths
    /\ b.bytes \in [0..(NumBytes(b.mu) - 1) -> 0..255]

VARIABLES sampling, \* whether the elements are fields to be sampled from
          buf,      \* the XOF bytes, if so
          pos,      \* next coefficient to sample
          coeffs    \* the coefficients

vars == <<width, vectorVars, sampling, buf, pos, coeffs>>

Half == width \div 2

\* A wrapping u16.
U16(x) == x % 65536

BitOf(x, k) == (x \div 2^k) % 2

\* The u16 with these bits.
Number(b) ==
  b[0] + 2 * b[1] + 4 * b[2] + 8 * b[3] + 16 * b[4] + 32 * b[5] + 64 * b[6] + 128 * b[7]
  + 256 * b[8] + 512 * b[9] + 1024 * b[10] + 2048 * b[11] + 4096 * b[12] + 8192 * b[13]
  + 16384 * b[14] + 32768 * b[15]

And(x, y) == Number([k \in 0..15 |-> BitOf(x, k) * BitOf(y, k)])

Or(x, y) == Number([k \in 0..15 |-> IF BitOf(x, k) = 1 THEN 1 ELSE BitOf(y, k)])

Init ==
  /\ \/ /\ sampling = FALSE /\ buf = <<>>
        /\ \E b \in {"avx2", "neon"}, w \in Widths : Prepare(b, w)
     \/ /\ sampling = TRUE
        /\ \E b \in {"serial", "avx2", "neon"}, i \in Inputs : Prepare(b, i.mu) /\ buf = i.bytes
  /\ pos = 0
  /\ coeffs = [c \in 0..(N - 1) |-> 0]

\* The NEON driver samples byte-sized fields with the portable code.
Portable == sampling /\ (backend = "serial" \/ (backend = "neon" /\ width % 8 = 0))

\* The vector code takes the elements out of the bytes, and samples only then.
Fields ==
  /\ ~Portable
  /\ UnpackGroups
  /\ UNCHANGED <<sampling, buf, pos, coeffs>>

StoreCoeffs(values) ==
  /\ coeffs' = [c \in DOMAIN coeffs |->
                  IF c - pos \in 0..(Len(values) - 1) THEN values[c - pos + 1] ELSE coeffs[c]]
  /\ pos' = pos + Len(values)
  /\ UNCHANGED <<width, vectorVars, sampling, buf>>
-----------------------------------------------------------------------------
\* The portable sampler.

\* Adjacent bit fields of a byte summed, in widths of one, two and four.
PopcountU8(x) ==
  LET pairs   == And(x, 85) + And(x \div 2, 85)
      nibbles == And(pairs, 51) + And(pairs \div 4, 51)
  IN  And(nibbles, 15) + (nibbles \div 16)

PopcountU16(x) == PopcountU8(x % 256) + PopcountU8((x \div 256) % 256)

CbdDiff(raw) ==
  LET mask == 2^Half - 1
  IN  U16(PopcountU16(And(raw, mask)) - PopcountU16(And(raw \div 2^Half, mask)))

\* Two bytes as a u16.
Pair(i) == Or(buf[i], buf[i + 1] * 256)

\* Mutant of Raw10: the third field of a group is taken a bit too low.
Raw10Low(i) == <<Pair(i), Pair(i + 1) \div 4, Pair(i + 2) \div 8, Pair(i + 3) \div 64>>

\* The u16 whose low bits are each of the four fields of the group at byte i.
Raw10(i) == <<Pair(i), Pair(i + 1) \div 4, Pair(i + 2) \div 16, Pair(i + 3) \div 64>>

Raw6(i) == <<buf[i], Pair(i) \div 64, Pair(i + 1) \div 16, buf[i + 2] \div 4>>

SerialByte ==
  /\ Portable /\ width = 8 /\ pos < N
  /\ StoreCoeffs(<<U16(PopcountU8(And(buf[pos], 15)) - PopcountU8(buf[pos] \div 16))>>)

SerialGroup ==
  /\ Portable /\ width # 8 /\ pos < N
  /\ LET g   == pos \div 4
         raw == IF width = 10 THEN Raw10(5 * g) ELSE Raw6(3 * g)
     IN  StoreCoeffs([k \in 1..4 |-> CbdDiff(raw[k])])
-----------------------------------------------------------------------------
\* The vector samplers.

\* Bit p of the XOF output.
Bit(p) == BitOf(buf[p \div 8], p % 8)

\* Element c as a number: its bits are named by their places in the stream.
Field(c) == Number([j \in 0..15 |-> IF elems[c][j] = Zero THEN 0 ELSE Bit(elems[c][j])])

NibblePopcount == <<0, 1, 1, 2, 1, 2, 2, 3, 1, 2, 2, 3, 2, 3, 3, 4>>

\* vpshufb's lookup of the low nibble, and bit 4 itself: exact below 32.
PopcountSmallAvx2(v) == NibblePopcount[(v % 16) + 1] + ((v \div 16) % 2)

\* cnt counts per byte; the lane's two counts are read back as one u16.
PopcountSmallNeon(v) ==
  LET ones(byte) == Cardinality({b \in 0..7 : BitOf(byte, b) = 1})
  IN  ones(v % 256) + 256 * ones(v \div 256)

PopcountSmall(v) == IF backend = "avx2" THEN PopcountSmallAvx2(v) ELSE PopcountSmallNeon(v)

\* One lane.
LaneDiff(c) ==
  U16(PopcountSmall(Field(c) % 2^Half) - PopcountSmall((Field(c) \div 2^Half) % 2^Half))

Unpacked == sampling /\ ~Portable /\ group = Groups

Avx2Vector ==
  /\ Unpacked /\ backend = "avx2" /\ pos < N
  /\ StoreCoeffs([k \in 1..16 |-> LaneDiff(pos + k - 1)])

NeonVector ==
  /\ Unpacked /\ backend = "neon" /\ pos < N
  /\ StoreCoeffs([k \in 1..8 |-> LaneDiff(pos + k - 1)])
-----------------------------------------------------------------------------
Next == Fields \/ SerialByte \/ SerialGroup \/ Avx2Vector \/ NeonVector

Spec == Init /\ [][Next]_vars
-----------------------------------------------------------------------------
Ones(from, n) == Cardinality({p \in from..(from + n - 1) : Bit(p) = 1})

\* Each coefficient sampled so far is the difference of the numbers of ones in
\* the two halves of its own mu bits of the XOF output, as a wrapping u16, in
\* every implementation (avx2/sample.rs:66-69, "Matches crate::sample::cbd").
CentredBinomial ==
  \A c \in DOMAIN coeffs :
    coeffs[c] = IF c < pos THEN U16(Ones(c * width, Half) - Ones(c * width + Half, Half)) ELSE 0
-----------------------------------------------------------------------------
CbdTypeOK ==
  /\ backend \in {"serial", "avx2", "neon"}
  /\ width \in Widths
  /\ group \in 0..Groups
  /\ DOMAIN elems = 0..(N - 1)
  /\ sampling \in BOOLEAN
  /\ sampling => width \in {6, 8, 10} /\ buf \in [0..(NumBytes(width) - 1) -> 0..255]
  /\ pos \in 0..N
  /\ DOMAIN coeffs = 0..(N - 1)

\* Both cursors move by whole groups and vectors, the second only once the first
\* is through.
Cursors ==
  /\ backend = "avx2" => group % 2 = 0 /\ pos % 16 = 0
  /\ backend = "neon" /\ ~Portable => pos % 8 = 0
  /\ Portable /\ width # 8 => pos % 4 = 0
  /\ pos > 0 => Portable \/ Unpacked

CbdIInv == CbdTypeOK /\ Copied /\ Cursors /\ Layout /\ CentredBinomial
=============================================================================
