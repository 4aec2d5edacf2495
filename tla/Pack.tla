---------------------------------- MODULE Pack --------------------------------
(***************************************************************************)
(* serialize_generic of src/src/ser.rs: elements are OR'd into a 32-bit    *)
(* sliding window, from which complete bytes are flushed; and the          *)
(* hand-unrolled path for 10 bits.  Bit k < width of element i is stream   *)
(* bit i * width + k, the numbering of module Unpack; bits above the width *)
(* are garbage, which serialisation must drop.                             *)
(***************************************************************************)
EXTENDS SlidingWindow

VARIABLE out_buf   \* the bytes

packVars == <<width, window, bits_in_window, byte_pos, idx, out_buf>>

\* data[i], with garbage above the element's bits.
Elem(i) == [k \in 0..15 |-> IF k < width THEN i * width + k ELSE Clash]

PackInit ==
  /\ width \in Widths
  /\ window = ZeroWord(32)
  /\ bits_in_window = 0
  /\ byte_pos = 0
  /\ idx = 0
  /\ out_buf = [b \in 0..(NumBytes(width) - 1) |-> ZeroWord(8)]

\* Mutants of Full: flush late, at nine bits; one byte too many.
FullLate == bits_in_window > 8
FullAtZero == bits_in_window >= 0

Full == bits_in_window >= 8

\* Mutant of Masked: the garbage is kept.
MaskedNot(w) == w

Masked(w) == Low(w, width)

Insert ==
  /\ idx < N
  /\ ~Full
  /\ window' = OrWord(window, ShiftLeft(32, Masked(Elem(idx)), bits_in_window))
  /\ bits_in_window' = bits_in_window + width
  /\ idx' = idx + 1
  /\ UNCHANGED <<width, byte_pos, out_buf>>

Flush ==
  /\ Full
  /\ out_buf' = [out_buf EXCEPT ![byte_pos] = ShiftRight(8, window, 0)]
  /\ window' = ShiftRight(32, window, 8)
  /\ bits_in_window' = bits_in_window - 8
  /\ byte_pos' = byte_pos + 1
  /\ UNCHANGED <<width, idx>>

PackNext == Insert \/ Flush

PackSpec == PackInit /\ [][PackNext]_packVars
-----------------------------------------------------------------------------
\* The unrolled path: byte b + i of a group is the OR, cut to eight bits, of
\* pieces (d(k) >> right) << left of the group's masked elements.

ElemPiece(k, right, left) == [elem |-> k, right |-> right, left |-> left]

\* Mutant of BytePaths10: the third byte shifts its second element one too far.
BytePaths10Shifted ==
  << <<ElemPiece(0, 0, 0)>>,
     <<ElemPiece(0, 8, 0), ElemPiece(1, 0, 2)>>,
     <<ElemPiece(1, 6, 0), ElemPiece(2, 0, 5)>>,
     <<ElemPiece(2, 4, 0), ElemPiece(3, 0, 6)>>,
     <<ElemPiece(3, 2, 0)>> >>

BytePaths10 ==
  << <<ElemPiece(0, 0, 0)>>,
     <<ElemPiece(0, 8, 0), ElemPiece(1, 0, 2)>>,
     <<ElemPiece(1, 6, 0), ElemPiece(2, 0, 4)>>,
     <<ElemPiece(2, 4, 0), ElemPiece(3, 0, 6)>>,
     <<ElemPiece(3, 2, 0)>> >>

PieceOfElem(group, q) ==
  ShiftLeft(8, ShiftRight(16, Low(Elem(group + q.elem), 10), q.right), q.left)

FromElemPieces(group, pieces) ==
  OrAll(8, [j \in 1..Len(pieces) |-> PieceOfElem(group, pieces[j])])

Unrolled10(b) == FromElemPieces(4 * (b \div 5), BytePaths10[(b % 5) + 1])

\* The path taken for a width, byte b of it: RingElem::serialize.
Serialized(b) == IF width = 10 THEN Unrolled10(b) ELSE out_buf[b]
-----------------------------------------------------------------------------
PackTypeOK ==
  /\ width \in Widths
  /\ window \in [0..31 -> Int]
  /\ bits_in_window \in 0..20
  /\ byte_pos \in 0..NumBytes(width)
  /\ idx \in 0..N
  /\ out_buf \in [0..(NumBytes(width) - 1) -> [0..7 -> Int]]

\* The window holds exactly the stream bits between the last byte written and
\* the last element inserted.
PackWindow ==
  /\ 8 * byte_pos + bits_in_window = idx * width
  /\ window = Run(32, 8 * byte_pos, bits_in_window)

\* Every byte written holds its own eight bits of the stream: the inverse of
\* what module Unpack reads (ser.rs:95-123).
PackLayout == \A b \in 0..(byte_pos - 1) : out_buf[b] = Run(8, 8 * b, 8)

PackIInv == PackTypeOK /\ PackWindow /\ PackLayout

\* The indexing of out_buf never leaves it.
PackInBounds == Full => byte_pos < NumBytes(width)

\* The debug assertion at ser.rs:122: at the end no partial byte is pending,
\* and every byte of the buffer has been written.
Complete == idx = N /\ ~Full => bits_in_window = 0 /\ byte_pos = NumBytes(width)

\* The path specialised for a width writes, byte for byte, what the generic loop
\* does (ser.rs:78-93).
SerializedAgree == \A b \in 0..(byte_pos - 1) : Serialized(b) = out_buf[b]
=============================================================================
