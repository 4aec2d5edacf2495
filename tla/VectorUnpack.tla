------------------------------ MODULE VectorUnpack ----------------------------
(***************************************************************************)
(* The vector deserializers of src/src/backend/avx2/ser.rs and             *)
(* src/src/backend/neon/ser.rs: eight elements of `width` bits fill        *)
(* `width` bytes, so one shuffle brings each element's four-byte window    *)
(* into a 32-bit lane of its own, one shift per lane its lowest bit to the *)
(* bottom, and one mask removes the rest.  A group is loaded sixteen bytes *)
(* at a time; the groups too close to the end are loaded from a scratch    *)
(* copy instead.  AVX2 stores two groups per iteration, NEON one.          *)
(***************************************************************************)
EXTENDS PackedStream, Memory

ASSUME VectorAssumption == N % 16 = 0

VARIABLES backend,   \* "avx2" or "neon"
          tail,      \* the scratch copy, 32 bytes
          group,     \* next group to unpack
          elems      \* the elements

vectorVars == <<backend, width, tail, group, elems>>

Groups == N \div 8   \* of eight elements: GROUPS
-----------------------------------------------------------------------------
\* The plan of a width: which byte each byte of a lane is taken from, and by
\* how much each lane is shifted.

Offset(w, k) == (k * w) \div 8

PlanShuffle(w) == [i \in 0..31 |-> Offset(w, i \div 4) + (i % 4)]

PlanShift(w) == [k \in 0..7 |-> (k * w) % 8]
-----------------------------------------------------------------------------
\* Mutant of TailGroups: at some widths a group too many.
TailGroupsMore(w) == 16 \div w

TailGroups(w) == 15 \div w

HeadGroups(w) == Groups - TailGroups(w)

TailStart(w) == HeadGroups(w) * w

\* The sixteen bytes of group g, from the slice or, near its end, from the copy.
LoadGroup(g) ==
  IF g < HeadGroups(width) THEN [i \in 0..15 |-> Byte(g * width + i)]
  ELSE [i \in 0..15 |-> tail[g * width - TailStart(width) + i]]

\* The byte that a control selects: vpshufb looks at its low four bits, within
\* the half the lane is in; tbl gives 0 past the sixteenth.
Select(raw, control) ==
  IF backend = "avx2" THEN raw[control % 16]
  ELSE IF control < 16 THEN raw[control] ELSE ZeroWord(8)

\* Lane k of the shuffled group: four bytes, the lowest first.
Window(raw, k) ==
  [p \in 0..31 |-> Select(raw, PlanShuffle(width)[4 * k + (p \div 8)])[p % 8]]

\* Lane k shifted by its own count (vpsrlvd, or ushl by its negation) and masked.
WideElement(g, k) == Low(ShiftRight(32, Window(LoadGroup(g), k), PlanShift(width)[k]), width)

\* A 32-bit lane narrowed to 16: vpackusdw saturates what does not fit, xtn
\* drops it.
Narrow(x) ==
  IF backend = "avx2" /\ \E p \in 16..31 : x[p] # Zero THEN [p \in 0..15 |-> Clash]
  ELSE ShiftRight(16, x, 0)

\* vpackusdw works within halves: quadwords of the first vector's low half, the
\* second's low half, the first's high half, the second's high half.
Packed(a, b) ==
  [i \in 0..15 |-> LET lane == 4 * (i \div 8) + (i % 4)
                   IN  Narrow(IF (i \div 4) % 2 = 0 THEN a[lane] ELSE b[lane])]

\* vpermq by four two-bit selectors, least significant quadword first.
Permute4x64(selectors, v) ==
  [i \in 0..15 |-> v[4 * selectors[(i \div 4) + 1] + (i % 4)]]

\* Mutant of Selectors: the quadwords stay where vpackusdw leaves them.
SelectorsNone == <<0, 1, 2, 3>>

Selectors == <<0, 2, 1, 3>>
-----------------------------------------------------------------------------
\* The scratch copy keeps what is left of the slice, and zeros after it.
Copied ==
  tail = [i \in 0..31 |->
            IF i < NumBytes(width) - TailStart(width)
            THEN Byte(TailStart(width) + i) ELSE ZeroWord(8)]

\* A call of backend b for elements of w bits, up to its first group.
Prepare(b, w) ==
  /\ backend = b
  /\ width = w
  /\ Copied
  /\ group = 0
  /\ elems = [i \in 0..(8 * Groups - 1) |-> ZeroWord(16)]

Store(at, v) ==
  elems' = [i \in DOMAIN elems |-> IF i - at \in DOMAIN v THEN v[i - at] ELSE elems[i]]

Avx2Pair ==
  /\ backend = "avx2" /\ group < Groups
  /\ LET wide(half) == [k \in 0..7 |-> WideElement(group + half, k)]
     IN  Store(8 * group, Permute4x64(Selectors, Packed(wide(0), wide(1))))
  /\ group' = group + 2
  /\ UNCHANGED <<backend, width, tail>>

NeonGroup ==
  /\ backend = "neon" /\ group < Groups
  /\ Store(8 * group, [k \in 0..7 |-> Narrow(WideElement(group, k))])
  /\ group' = group + 1
  /\ UNCHANGED <<backend, width, tail>>

UnpackGroups == Avx2Pair \/ NeonGroup
-----------------------------------------------------------------------------
\* Every element stored so far is its own `width` bits of the stream, in order,
\* with nothing above them: what UnpackLayout says of the portable
\* loop, so the three deserializers agree (ser.rs of both backends:
\* "Produces exactly what deserialize_generic does").
Layout ==
  \A i \in DOMAIN elems :
    elems[i] = IF i < 8 * group THEN Run(16, i * width, width) ELSE ZeroWord(16)

\* No accessor of the loop panics or strays: a load of sixteen bytes is inside
\* the slice or the scratch copy, a store of eight or sixteen elements inside the
\* result, the copy takes all that is left of the slice, and no group is diverted
\* to it that the slice could have served ("exactly 15 / BITS_PER_ELEM of them").
AccessesInBounds ==
  /\ NumBytes(width) - TailStart(width) \in 0..32
  /\ group < Groups =>
       /\ group < HeadGroups(width) <=> BytesFit(NumBytes(width), 16, group * width)
       /\ group >= HeadGroups(width) =>
            group * width >= TailStart(width) /\ BytesFit(32, 16, group * width - TailStart(width))
       /\ IF backend = "avx2" THEN VectorFits(8 * Groups, 16, group \div 2)
          ELSE VectorFits(8 * Groups, 8, group)
=============================================================================
