--------------------------------- MODULE Unpack -------------------------------
(***************************************************************************)
(* deserialize_generic of src/src/ser.rs: a 32-bit sliding window refilled *)
(* a byte at a time, from which elements of `width` bits are taken; and    *)
(* the two hand-unrolled paths for 10 and 13 bits, which must agree.       *)
(***************************************************************************)
EXTENDS SlidingWindow

VARIABLE out   \* the elements

unpackVars == <<width, window, bits_in_window, byte_pos, idx, out>>

UnpackInit ==
  /\ width \in Widths
  /\ window = ZeroWord(32)
  /\ bits_in_window = 0
  /\ byte_pos = 0
  /\ idx = 0
  /\ out = [i \in 0..(N - 1) |-> ZeroWord(16)]

\* Mutant of NeedsByte: refill until 13 bits are there.
NeedsByteEagerly == bits_in_window < 13

NeedsByte == bits_in_window < width

Refill ==
  /\ idx < N
  /\ NeedsByte
  /\ window' = OrWord(window, ShiftLeft(32, Byte(byte_pos), bits_in_window))
  /\ byte_pos' = byte_pos + 1
  /\ bits_in_window' = bits_in_window + 8
  /\ UNCHANGED <<width, idx, out>>

\* Mutant of Element: the bits above the element are not masked off.
ElementUnmasked == ShiftRight(16, window, 0)

Element == ShiftRight(16, Low(window, width), 0)

Take ==
  /\ idx < N
  /\ ~NeedsByte
  /\ out' = [out EXCEPT ![idx] = Element]
  /\ window' = ShiftRight(32, window, width)
  /\ bits_in_window' = bits_in_window - width
  /\ idx' = idx + 1
  /\ UNCHANGED <<width, byte_pos>>

UnpackNext == Refill \/ Take

UnpackSpec == UnpackInit /\ [][UnpackNext]_unpackVars
-----------------------------------------------------------------------------
\* The unrolled paths: element o + i of a group is the OR of pieces
\* ((w(k) >> right) & mask(n)) << left of the group's bytes.

BytePiece(k, right, n, left) == [byte |-> k, right |-> right, n |-> n, left |-> left]

ElementPaths10 ==
  << <<BytePiece(0, 0, 8, 0), BytePiece(1, 0, 2, 8)>>,
     <<BytePiece(1, 2, 6, 0), BytePiece(2, 0, 4, 6)>>,
     <<BytePiece(2, 4, 4, 0), BytePiece(3, 0, 6, 4)>>,
     <<BytePiece(3, 6, 2, 0), BytePiece(4, 0, 8, 2)>> >>

\* Mutant of ElementPaths13: the third element's second piece keeps only six bits.
ElementPaths13Narrow ==
  << <<BytePiece(0, 0, 8, 0), BytePiece(1, 0, 5, 8)>>,
     <<BytePiece(1, 5, 3, 0), BytePiece(2, 0, 8, 3), BytePiece(3, 0, 2, 11)>>,
     <<BytePiece(3, 2, 6, 0), BytePiece(4, 0, 6, 6)>>,
     <<BytePiece(4, 7, 1, 0), BytePiece(5, 0, 8, 1), BytePiece(6, 0, 4, 9)>>,
     <<BytePiece(6, 4, 4, 0), BytePiece(7, 0, 8, 4), BytePiece(8, 0, 1, 12)>>,
     <<BytePiece(8, 1, 7, 0), BytePiece(9, 0, 6, 7)>>,
     <<BytePiece(9, 6, 2, 0), BytePiece(10, 0, 8, 2), BytePiece(11, 0, 3, 10)>>,
     <<BytePiece(11, 3, 5, 0), BytePiece(12, 0, 8, 5)>> >>

ElementPaths13 ==
  << <<BytePiece(0, 0, 8, 0), BytePiece(1, 0, 5, 8)>>,
     <<BytePiece(1, 5, 3, 0), BytePiece(2, 0, 8, 3), BytePiece(3, 0, 2, 11)>>,
     <<BytePiece(3, 2, 6, 0), BytePiece(4, 0, 7, 6)>>,
     <<BytePiece(4, 7, 1, 0), BytePiece(5, 0, 8, 1), BytePiece(6, 0, 4, 9)>>,
     <<BytePiece(6, 4, 4, 0), BytePiece(7, 0, 8, 4), BytePiece(8, 0, 1, 12)>>,
     <<BytePiece(8, 1, 7, 0), BytePiece(9, 0, 6, 7)>>,
     <<BytePiece(9, 6, 2, 0), BytePiece(10, 0, 8, 2), BytePiece(11, 0, 3, 10)>>,
     <<BytePiece(11, 3, 5, 0), BytePiece(12, 0, 8, 5)>> >>

\* One piece; a mask of eight bits is no mask.
PieceOfByte(group, q) ==
  ShiftLeft(16, Low(ShiftRight(8, Byte(group + q.byte), q.right), q.n), q.left)

FromBytePieces(group, pieces) ==
  OrAll(16, [j \in 1..Len(pieces) |-> PieceOfByte(group, pieces[j])])

Unrolled(paths, bytes, i) ==
  FromBytePieces(bytes * (i \div Len(paths)), paths[(i % Len(paths)) + 1])

\* The path taken for a width, element i of it: RingElem::deserialize.
Deserialized(i) ==
  CASE width = 13 -> Unrolled(ElementPaths13, 13, i)
    [] width = 10 -> Unrolled(ElementPaths10, 5, i)
    [] OTHER      -> out[i]
-----------------------------------------------------------------------------
UnpackTypeOK ==
  /\ width \in Widths
  /\ window \in [0..31 -> Int]
  /\ bits_in_window \in 0..(width + 7)
  /\ byte_pos \in 0..NumBytes(width)
  /\ idx \in 0..N
  /\ out \in [0..(N - 1) -> [0..15 -> Int]]

\* What the cursors and the window say together: the window holds exactly the
\* stream bits between what was taken and what was read.
UnpackWindow ==
  /\ 8 * byte_pos = idx * width + bits_in_window
  /\ window = Run(32, idx * width, bits_in_window)

\* Every element taken is its own `width` bits of the stream, in order, with
\* nothing above them (ser.rs:42-76).
UnpackLayout == \A i \in 0..(idx - 1) : out[i] = Run(16, i * width, width)

UnpackIInv == UnpackTypeOK /\ UnpackWindow /\ UnpackLayout

\* The indexing of bytes never leaves the slice, though nothing in the loop
\* checks it: a refill is only ever wanted while a byte is left.
UnpackInBounds == idx < N /\ NeedsByte => byte_pos < NumBytes(width)

\* No bit of the input is left unread or unused at the end.
Consumed == idx = N => byte_pos = NumBytes(width) /\ bits_in_window = 0

\* The path specialised for a width gives, element for element, what the generic
\* loop gives (ser.rs:125).
DeserializedAgree == \A i \in 0..(idx - 1) : Deserialized(i) = out[i]
=============================================================================
