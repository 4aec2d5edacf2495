-------------------------------- MODULE SerProofs ------------------------------
(***************************************************************************)
(* The code that reads and writes packed streams.  The sliding-window      *)
(* deserializer reads in bounds and yields the packed elements, the        *)
(* serializer writes in bounds, fills its buffer and lays the elements out *)
(* as the deserializer reads them, the unrolled paths do the same, and so  *)
(* do the vector deserializers; and the samplers, portable and vector,     *)
(* count the ones of each coefficient's own field.  All of it for every    *)
(* number of elements, every set of widths and every content.              *)
(***************************************************************************)
EXTENDS Unpack, Pack, Cbd, FiniteSetTheorems, TLAPS

\* The width of a run is one of the code's, and its byte count is exact.
LEMMA WidthRange ==
  ASSUME width \in Widths
  PROVE  width \in Int /\ 1 <= width /\ width <= 13
         /\ NumBytes(width) \in Nat /\ 8 * NumBytes(width) = width * N
<1> DEFINE wn == width * N
<1>1. width \in 1..13 /\ wn % 8 = 0 /\ N \in Nat
  BY WidthAssumption
<1>2. wn \in Nat
  <2>1. \A x, y \in Nat : x * y \in Nat
    BY SMT
  <2>2. width \in Nat
    BY <1>1
  <2>3. QED
    BY <1>1, <2>1, <2>2
<1> HIDE DEF wn
<1>3. wn \div 8 \in Nat /\ 8 * (wn \div 8) = wn
  BY <1>1, <1>2, SMT
<1>4. NumBytes(width) = wn \div 8
  BY DEF NumBytes, wn
<1>5. QED
  BY <1>1, <1>3, <1>4 DEF wn

\* A run of stream bits is a word of the window's, an element's or a byte's width.
LEMMA RunType ==
  ASSUME NEW from \in Int, NEW n \in Int
  PROVE  /\ Run(32, from, n) \in [0..31 -> Int]
         /\ Run(16, from, n) \in [0..15 -> Int]
         /\ Run(8, from, n) \in [0..7 -> Int]
BY SMT DEF Run, Zero

-----------------------------------------------------------------------------
\* The deserializer.

\* Elements ahead of the cursor are inside the stream.
LEMMA ElementBound ==
  ASSUME width \in Widths, idx \in 0..N, idx < N
  PROVE  /\ idx * width \in Nat
         /\ (idx + 1) * width = idx * width + width
         /\ idx * width + width <= 8 * NumBytes(width)
<1>1. N \in Nat /\ idx \in Nat /\ width \in Nat
  BY WidthAssumption, WidthRange
<1>2. \A x, y \in Nat : x * y \in Nat
  BY SMT
<1>3. idx * width \in Nat /\ (N - (idx + 1)) * width \in Nat
  <2>1. N - (idx + 1) \in Nat
    BY <1>1, SMT
  <2>2. QED  BY <1>1, <1>2, <2>1
<1>4. /\ (idx + 1) * width = idx * width + width
      /\ (N - (idx + 1)) * width = N * width - (idx * width + width)
  BY <1>1, SMT
<1>5. 8 * NumBytes(width) = N * width
  BY <1>1, WidthRange, SMT
<1> DEFINE iw == idx * width
           nw == N * width
<1>6. iw \in Nat /\ nw \in Int /\ nw - (iw + width) \in Nat /\ 8 * NumBytes(width) = nw
  BY <1>1, <1>3, <1>4, <1>5
<1>7. iw + width <= 8 * NumBytes(width)
  <2> HIDE DEF iw, nw
  <2>1. QED  BY <1>1, <1>6, SMT
<1>8. QED
  BY <1>3, <1>4, <1>7

\* The invariant keeps every access inside its array.
LEMMA UnpackInBoundsInv == UnpackIInv => UnpackInBounds
<1> SUFFICES ASSUME UnpackIInv, idx < N, NeedsByte PROVE byte_pos < NumBytes(width)
  BY DEF UnpackInBounds
<1> DEFINE iw == idx * width
           n == NumBytes(width)
<1>1. /\ iw \in Nat /\ iw + width <= 8 * n /\ n \in Nat
      /\ width \in Int /\ bits_in_window \in Int /\ byte_pos \in Int
      /\ 8 * byte_pos = iw + bits_in_window /\ bits_in_window < width
  BY ElementBound, WidthRange DEF UnpackIInv, UnpackTypeOK, UnpackWindow, NeedsByte
<1> HIDE DEF iw, n
<1>2. byte_pos < n
  BY <1>1, SMT
<1>3. QED
  BY <1>2 DEF n

\* The invariant gives a slice used up at the end.
LEMMA ConsumedInv == UnpackIInv => Consumed
<1> SUFFICES ASSUME UnpackIInv, idx = N PROVE byte_pos = NumBytes(width) /\ bits_in_window = 0
  BY DEF Consumed
<1>1. 8 * NumBytes(width) = width * N /\ NumBytes(width) \in Nat /\ width \in Int
  BY WidthRange DEF UnpackIInv, UnpackTypeOK
<1>2. N * width = width * N
  BY <1>1, WidthAssumption, SMT
<1> DEFINE n == NumBytes(width)
<1>3. /\ n \in Int /\ byte_pos \in Int /\ byte_pos <= n
      /\ bits_in_window \in Int /\ 0 <= bits_in_window
  BY <1>1 DEF UnpackIInv, UnpackTypeOK
<1>4. 8 * byte_pos = 8 * n + bits_in_window
  <2>1. 8 * byte_pos = N * width + bits_in_window
    BY DEF UnpackIInv, UnpackWindow
  <2>2. QED  BY <1>1, <1>2, <2>1
<1> HIDE DEF n
<1>5. byte_pos = n /\ bits_in_window = 0
  BY <1>3, <1>4, SMT
<1>6. QED
  BY <1>5 DEF n
-----------------------------------------------------------------------------
\* OR-ing the next byte in at the end of the window lengthens the run.
LEMMA RefillRun ==
  ASSUME NEW base \in Int, NEW b \in Int, NEW k \in Int, NEW byte,
         0 <= base, 0 <= b, b <= 12, 8 * k = base + b,
         byte = [j \in 0..7 |-> 8 * k + j]
  PROVE  OrWord(Run(32, base, b), ShiftLeft(32, byte, b)) = Run(32, base, b + 8)
<1> DEFINE x == Run(32, base, b)
           y == ShiftLeft(32, byte, b)
<1>1. x = [p \in 0..31 |-> IF p < b THEN base + p ELSE Zero]
  BY DEF Run
<1>2. y = [p \in 0..31 |-> IF p - b \in 0..7 THEN byte[p - b] ELSE Zero]
  BY DEF ShiftLeft
<1>3. \A p \in 0..31 : p - b \in 0..7 => byte[p - b] = base + p
  BY SMT
<1>4. OrWord(x, y) = [p \in 0..31 |-> OrBit(x[p], y[p])]
  BY <1>1 DEF OrWord
<1>5. \A p \in 0..31 :
        OrBit(x[p], y[p]) = IF p < b + 8 THEN base + p ELSE Zero
  <2> SUFFICES ASSUME NEW p \in 0..31
               PROVE  OrBit(x[p], y[p]) = IF p < b + 8 THEN base + p ELSE Zero
    OBVIOUS
  <2>1. CASE p < b
    <3>1. x[p] = base + p /\ base + p # Zero /\ p < b + 8
      BY <1>1, <2>1, SMT DEF Zero
    <3>2. y[p] = Zero
      BY <1>2, <2>1, SMT
    <3>3. QED  BY <3>1, <3>2 DEF OrBit
  <2>2. CASE p >= b /\ p < b + 8
    <3>1. x[p] = Zero
      BY <1>1, <2>2, SMT
    <3>2. y[p] = base + p
      <4>1. p - b \in 0..7
        BY <2>2, SMT
      <4>2. QED  BY <1>2, <1>3, <4>1
    <3>3. QED  BY <2>2, <3>1, <3>2 DEF OrBit
  <2>3. CASE p >= b + 8
    <3>1. x[p] = Zero /\ y[p] = Zero /\ ~(p < b + 8)
      BY <1>1, <1>2, <2>3, SMT
    <3>2. QED  BY <3>1 DEF OrBit
  <2>4. QED
    BY <2>1, <2>2, <2>3, SMT
<1> HIDE DEF x, y
<1>6. OrWord(x, y) = [p \in 0..31 |-> IF p < b + 8 THEN base + p ELSE Zero]
  BY <1>4, <1>5
<1>7. QED
  BY <1>6 DEF Run, x, y

\* Taking an element leaves the rest of the run.
LEMMA TakeRun ==
  ASSUME NEW base \in Int, NEW b \in Int, NEW w \in Int,
         0 <= base, 1 <= w, w <= 13, w <= b, b <= 20
  PROVE  /\ ShiftRight(32, Run(32, base, b), w) = Run(32, base + w, b - w)
         /\ ShiftRight(16, Low(Run(32, base, b), w), 0) = Run(16, base, w)
<1> DEFINE x == Run(32, base, b)
<1>1. x = [p \in 0..31 |-> IF p < b THEN base + p ELSE Zero]
  BY DEF Run
<1> HIDE DEF x
<1>2. ShiftRight(32, x, w) = Run(32, base + w, b - w)
  <2>1. DOMAIN x = 0..31
    BY <1>1
  <2>2. \A p \in 0..31 : (IF p + w \in 0..31 THEN x[p + w] ELSE Zero)
                           = (IF p < b - w THEN (base + w) + p ELSE Zero)
    BY <1>1, SMT
  <2>3. QED
    BY <2>1, <2>2 DEF ShiftRight, Run
<1>3. ShiftRight(16, Low(x, w), 0) = Run(16, base, w)
  <2> DEFINE y == Low(x, w)
  <2>1. y = [p \in 0..31 |-> IF p < w THEN x[p] ELSE Zero]
    BY <1>1 DEF Low
  <2> HIDE DEF y
  <2>2. \A p \in 0..15 : (IF p + 0 \in 0..31 THEN y[p + 0] ELSE Zero)
                           = (IF p < w THEN base + p ELSE Zero)
    BY <1>1, <2>1, SMT
  <2>3. DOMAIN y = 0..31
    BY <2>1
  <2>4. ShiftRight(16, y, 0) = Run(16, base, w)
    BY <2>2, <2>3 DEF ShiftRight, Run
  <2>5. QED
    BY <2>4 DEF y
<1>4. QED
  BY <1>2, <1>3 DEF x

-----------------------------------------------------------------------------
\* The invariant holds of the initial states.
LEMMA UnpackInitInv == UnpackInit => UnpackIInv
<1> SUFFICES ASSUME UnpackInit PROVE UnpackIInv
  OBVIOUS
<1>1. /\ width \in Int /\ 1 <= width /\ width <= 13 /\ NumBytes(width) \in Nat /\ N \in Nat
  BY WidthRange, WidthAssumption DEF UnpackInit
<1>2. 0 * width = 0
  BY <1>1, SMT
<1>3. UnpackTypeOK
  BY <1>1, SMT DEF UnpackInit, UnpackTypeOK, ZeroWord, Zero
<1>4. UnpackWindow
  <2>1. ZeroWord(32) = Run(32, 0, 0)
    BY SMT DEF ZeroWord, Run
  <2>2. QED
    BY <1>2, <2>1 DEF UnpackInit, UnpackWindow
<1>5. UnpackLayout
  BY DEF UnpackInit, UnpackLayout
<1>6. QED
  BY <1>3, <1>4, <1>5 DEF UnpackIInv

\* Every step keeps the invariant.
LEMMA UnpackStepInv == UnpackIInv /\ [UnpackNext]_unpackVars => UnpackIInv'
<1> SUFFICES ASSUME UnpackIInv, [UnpackNext]_unpackVars PROVE UnpackIInv'
  OBVIOUS
<1> DEFINE base == idx * width
<1>1. /\ width \in Widths /\ width \in Int /\ 1 <= width /\ width <= 13
      /\ NumBytes(width) \in Nat /\ N \in Nat
      /\ bits_in_window \in Int /\ 0 <= bits_in_window /\ bits_in_window <= width + 7
      /\ byte_pos \in Int /\ 0 <= byte_pos /\ byte_pos <= NumBytes(width)
      /\ idx \in Int /\ 0 <= idx /\ idx <= N
      /\ out \in [0..(N - 1) -> [0..15 -> Int]]
  <2>1. width \in Widths /\ UnpackTypeOK
    BY DEF UnpackIInv, UnpackTypeOK
  <2>2. /\ width \in Int /\ 1 <= width /\ width <= 13
        /\ NumBytes(width) \in Nat /\ N \in Nat
    BY <2>1, WidthRange, WidthAssumption
  <2>3. /\ bits_in_window \in 0..(width + 7) /\ byte_pos \in 0..NumBytes(width)
        /\ idx \in 0..N /\ out \in [0..(N - 1) -> [0..15 -> Int]]
    BY <2>1 DEF UnpackTypeOK
  <2>4. bits_in_window \in Int /\ 0 <= bits_in_window /\ bits_in_window <= width + 7
    BY <2>2, <2>3
  <2>5. byte_pos \in Int /\ 0 <= byte_pos /\ byte_pos <= NumBytes(width)
    BY <2>2, <2>3
  <2>6. idx \in Int /\ 0 <= idx /\ idx <= N
    BY <2>2, <2>3
  <2>7. QED
    BY <2>1, <2>2, <2>3, <2>4, <2>5, <2>6
<1>2. 8 * byte_pos = base + bits_in_window /\ window = Run(32, base, bits_in_window)
  BY DEF UnpackIInv, UnpackWindow
<1>3. CASE Refill
  <2>1. /\ idx < N /\ NeedsByte /\ bits_in_window < width
        /\ window' = OrWord(window, ShiftLeft(32, Byte(byte_pos), bits_in_window))
        /\ byte_pos' = byte_pos + 1 /\ bits_in_window' = bits_in_window + 8
        /\ width' = width /\ idx' = idx /\ out' = out
    BY <1>3 DEF Refill, NeedsByte
  <2>2. base \in Int /\ 0 <= base
    BY <1>1, <2>1, ElementBound
  <2>3. byte_pos < NumBytes(width)
    BY <2>1, UnpackInBoundsInv DEF UnpackInBounds
  <2>4. Byte(byte_pos) = [j \in 0..7 |-> 8 * byte_pos + j]
    <3>1. byte_pos \in 0..(NumBytes(width) - 1)
      BY <1>1, <2>3, SMT
    <3>2. QED
      BY <3>1 DEF Byte
  <2> HIDE DEF base
  <2>5. window' = Run(32, base, bits_in_window + 8)
    <3>1. bits_in_window <= 12
      BY <1>1, <2>1, SMT
    <3>2. QED
      BY <1>1, <1>2, <2>1, <2>2, <2>4, <3>1, RefillRun
  <2>6. UnpackTypeOK'
    <3>1. window' \in [0..31 -> Int]
      BY <1>1, <2>2, <2>5, RunType
    <3>2. bits_in_window' \in 0..(width' + 7) /\ byte_pos' \in 0..NumBytes(width')
          /\ idx' \in 0..N /\ width' \in Widths
      BY <1>1, <2>1, <2>3, SMT
    <3>3. QED
      BY <1>1, <2>1, <3>1, <3>2 DEF UnpackTypeOK
  <2>7. UnpackWindow'
    <3>1. 8 * byte_pos' = base + bits_in_window'
      BY <1>1, <1>2, <2>1, <2>2, SMT
    <3>2. QED
      BY <2>1, <2>5, <3>1 DEF UnpackWindow, base
  <2>8. UnpackLayout'
    BY <2>1 DEF UnpackIInv, UnpackLayout
  <2>9. QED
    BY <2>6, <2>7, <2>8 DEF UnpackIInv
<1>4. CASE Take
  <2>1. /\ idx < N /\ bits_in_window >= width
        /\ out' = [out EXCEPT ![idx] = Element]
        /\ window' = ShiftRight(32, window, width)
        /\ bits_in_window' = bits_in_window - width
        /\ idx' = idx + 1 /\ width' = width /\ byte_pos' = byte_pos
    BY <1>1, <1>4, SMT DEF Take, NeedsByte
  <2>2. base \in Int /\ 0 <= base /\ (idx + 1) * width = base + width
    BY <1>1, <2>1, ElementBound
  <2> HIDE DEF base
  <2>3. /\ window' = Run(32, base + width, bits_in_window - width)
        /\ Element = Run(16, base, width)
    <3>1. bits_in_window <= 20
      BY <1>1, SMT
    <3>2. QED
      BY <1>1, <1>2, <2>1, <2>2, <3>1, TakeRun DEF Element
  <2>4. Element \in [0..15 -> Int]
    BY <1>1, <2>2, <2>3, RunType
  <2>5. UnpackTypeOK'
    <3>1. window' \in [0..31 -> Int]
      <4>1. base + width \in Int /\ bits_in_window - width \in Int
        BY <1>1, <2>2
      <4>2. QED  BY <4>1, <2>3, RunType
    <3>2. bits_in_window' \in 0..(width' + 7) /\ byte_pos' \in 0..NumBytes(width')
          /\ idx' \in 0..N /\ width' \in Widths
      BY <1>1, <2>1, SMT
    <3>3. out' \in [0..(N - 1) -> [0..15 -> Int]]
      BY <1>1, <2>1, <2>4
    <3>4. QED
      BY <3>1, <3>2, <3>3 DEF UnpackTypeOK
  <2>6. UnpackWindow'
    <3>1. 8 * byte_pos' = (base + width) + bits_in_window'
      BY <1>1, <1>2, <2>1, <2>2, SMT
    <3>2. QED
      BY <2>1, <2>2, <2>3, <3>1 DEF UnpackWindow
  <2>7. UnpackLayout'
    <3> SUFFICES ASSUME NEW i \in 0..idx PROVE out'[i] = Run(16, i * width, width)
      <4>1. (idx + 1) - 1 = idx
        BY <1>1, SMT
      <4>2. QED
        BY <2>1, <4>1 DEF UnpackLayout
    <3>1. CASE i = idx
      <4>1. idx \in 0..(N - 1)
        BY <1>1, <2>1, SMT
      <4>2. out'[idx] = Element
        BY <1>1, <2>1, <4>1
      <4>3. QED
        BY <2>3, <3>1, <4>2 DEF base
    <3>2. CASE i # idx
      <4>1. i \in 0..(idx - 1) /\ i \in 0..(N - 1)
        BY <1>1, <3>2, SMT
      <4>2. out'[i] = out[i]
        BY <1>1, <2>1, <3>2, <4>1
      <4>3. QED
        BY <4>1, <4>2 DEF UnpackIInv, UnpackLayout
    <3>3. QED
      BY <3>1, <3>2
  <2>8. QED
    BY <2>5, <2>6, <2>7 DEF UnpackIInv
<1>5. CASE UNCHANGED unpackVars
  BY <1>5 DEF unpackVars, UnpackIInv, UnpackTypeOK, UnpackWindow, UnpackLayout
<1>6. QED
  BY <1>3, <1>4, <1>5 DEF UnpackNext

\* The inductive invariant: types, cursors against window, elements taken.
THEOREM UnpackInvariance == UnpackSpec => []UnpackIInv
BY UnpackInitInv, UnpackStepInv, PTL DEF UnpackSpec

\* Every element taken is its own bits of the stream, for every width.
THEOREM UnpackLayoutHolds == UnpackSpec => []UnpackLayout
<1>1. UnpackIInv => UnpackLayout
  BY DEF UnpackIInv
<1>2. QED
  BY <1>1, UnpackInvariance, PTL

\* The unchecked indexing of the byte slice stays inside it.
THEOREM UnpackInBoundsHolds == UnpackSpec => []UnpackInBounds
BY UnpackInvariance, UnpackInBoundsInv, PTL

\* At the end the whole slice has been read and no bit is left over.
THEOREM ConsumedHolds == UnpackSpec => []Consumed
BY UnpackInvariance, ConsumedInv, PTL
-----------------------------------------------------------------------------
\* The serializer.

\* What was inserted is inside the stream.
LEMMA StreamBound ==
  ASSUME width \in Widths, idx \in 0..N
  PROVE  /\ idx * width \in Nat
         /\ (idx + 1) * width = idx * width + width
         /\ idx * width <= 8 * NumBytes(width)
<1>1. N \in Nat /\ idx \in Nat /\ width \in Nat
  BY WidthAssumption, WidthRange
<1>2. \A x, y \in Nat : x * y \in Nat
  BY SMT
<1>3. idx * width \in Nat /\ (N - idx) * width \in Nat
  <2>1. N - idx \in Nat
    BY <1>1, SMT
  <2>2. QED  BY <1>1, <1>2, <2>1
<1>4. /\ (idx + 1) * width = idx * width + width
      /\ (N - idx) * width = N * width - idx * width
  BY <1>1, SMT
<1>5. 8 * NumBytes(width) = N * width
  BY <1>1, WidthRange, SMT
<1> DEFINE iw == idx * width
           nw == N * width
<1>6. iw \in Nat /\ nw \in Int /\ nw - iw \in Nat /\ 8 * NumBytes(width) = nw
  BY <1>1, <1>3, <1>4, <1>5
<1>7. iw <= 8 * NumBytes(width)
  <2> HIDE DEF iw, nw
  <2>1. QED  BY <1>6, SMT
<1>8. QED
  BY <1>3, <1>4, <1>7

\* The types the steps below reason about, spelled out.
LEMMA Ranges ==
  ASSUME PackIInv
  PROVE  /\ width \in Widths /\ width \in Int /\ 1 <= width /\ width <= 13
         /\ NumBytes(width) \in Int /\ N \in Int
         /\ bits_in_window \in Int /\ 0 <= bits_in_window /\ bits_in_window <= 20
         /\ byte_pos \in Int /\ 0 <= byte_pos /\ byte_pos <= NumBytes(width)
         /\ idx \in Int /\ 0 <= idx /\ idx <= N
         /\ out_buf \in [0..(NumBytes(width) - 1) -> [0..7 -> Int]]
<1>1. width \in Widths /\ PackTypeOK
  BY DEF PackIInv, PackTypeOK
<1>2. /\ width \in Int /\ 1 <= width /\ width <= 13
      /\ NumBytes(width) \in Int /\ N \in Int
  BY <1>1, WidthRange, WidthAssumption
<1>3. /\ bits_in_window \in 0..20 /\ byte_pos \in 0..NumBytes(width) /\ idx \in 0..N
      /\ out_buf \in [0..(NumBytes(width) - 1) -> [0..7 -> Int]]
  BY <1>1 DEF PackTypeOK
<1>4. bits_in_window \in Int /\ 0 <= bits_in_window /\ bits_in_window <= 20
  BY <1>3
<1>5. byte_pos \in Int /\ 0 <= byte_pos /\ byte_pos <= NumBytes(width)
  BY <1>2, <1>3
<1>6. idx \in Int /\ 0 <= idx /\ idx <= N
  BY <1>2, <1>3
<1>7. QED
  BY <1>1, <1>2, <1>3, <1>4, <1>5, <1>6

\* The invariant keeps every access inside its array.
LEMMA PackInBoundsInv == PackIInv => PackInBounds
<1> SUFFICES ASSUME PackIInv, Full PROVE byte_pos < NumBytes(width)
  BY DEF PackInBounds
<1> DEFINE iw == idx * width
           n == NumBytes(width)
<1>1. iw \in Nat /\ iw <= 8 * n
  BY StreamBound DEF PackIInv, PackTypeOK
<1>2. /\ n \in Int /\ byte_pos \in Int /\ bits_in_window \in Int
      /\ 8 * byte_pos + bits_in_window = iw /\ bits_in_window >= 8
  BY Ranges DEF PackIInv, PackWindow, Full
<1> HIDE DEF iw, n
<1>3. byte_pos < n
  BY <1>1, <1>2, SMT
<1>4. QED
  BY <1>3 DEF n

\* The invariant gives a full buffer and an empty window at the end.
LEMMA CompleteInv == PackIInv => Complete
<1> SUFFICES ASSUME PackIInv, idx = N, ~Full
             PROVE  bits_in_window = 0 /\ byte_pos = NumBytes(width)
  BY DEF Complete
<1> DEFINE n == NumBytes(width)
<1>1. 8 * n = width * N /\ n \in Int /\ width \in Int /\ N \in Int
  BY Ranges, WidthRange
<1>2. N * width = width * N
  BY <1>1, SMT
<1>3. 8 * byte_pos + bits_in_window = N * width
  BY DEF PackIInv, PackWindow
<1>4. 8 * byte_pos + bits_in_window = 8 * n
  BY <1>1, <1>2, <1>3
<1>5. /\ byte_pos \in Int /\ bits_in_window \in Int /\ 0 <= bits_in_window
      /\ bits_in_window < 8
  BY Ranges DEF Full
<1> HIDE DEF n
<1>6. bits_in_window = 0 /\ byte_pos = n
  BY <1>1, <1>4, <1>5, SMT
<1>7. QED
  BY <1>6 DEF n
-----------------------------------------------------------------------------
\* OR-ing a masked element in at the end of the window lengthens the run.
LEMMA InsertRun ==
  ASSUME NEW base \in Int, NEW b \in Int, NEW w \in Int, NEW e \in Int, NEW elem,
         0 <= base, 0 <= b, b <= 7, 1 <= w, w <= 13, e = base + b,
         elem = [j \in 0..15 |-> IF j < w THEN e + j ELSE Clash]
  PROVE  OrWord(Run(32, base, b), ShiftLeft(32, Low(elem, w), b)) = Run(32, base, b + w)
<1> DEFINE x == Run(32, base, b)
           m == Low(elem, w)
           y == ShiftLeft(32, m, b)
<1>1. x = [p \in 0..31 |-> IF p < b THEN base + p ELSE Zero]
  BY DEF Run
<1>2. m = [p \in 0..15 |-> IF p < w THEN e + p ELSE Zero]
  BY SMT DEF Low
<1> HIDE DEF m
<1>3. y = [p \in 0..31 |-> IF p - b \in 0..15 THEN m[p - b] ELSE Zero]
  BY <1>2 DEF ShiftLeft
<1>4. OrWord(x, y) = [p \in 0..31 |-> OrBit(x[p], y[p])]
  BY <1>1 DEF OrWord
<1>5. \A p \in 0..31 :
        OrBit(x[p], y[p]) = IF p < b + w THEN base + p ELSE Zero
  <2> SUFFICES ASSUME NEW p \in 0..31
               PROVE  OrBit(x[p], y[p]) = IF p < b + w THEN base + p ELSE Zero
    OBVIOUS
  <2>1. CASE p < b
    <3>1. x[p] = base + p /\ base + p # Zero /\ p < b + w
      BY <1>1, <2>1, SMT DEF Zero
    <3>2. y[p] = Zero
      BY <1>3, <2>1, SMT
    <3>3. QED  BY <3>1, <3>2 DEF OrBit
  <2>2. CASE p >= b /\ p < b + w
    <3>1. x[p] = Zero
      BY <1>1, <2>2, SMT
    <3>2. p - b \in 0..15 /\ p - b < w /\ e + (p - b) = base + p
      BY <2>2, SMT
    <3>3. y[p] = m[p - b]
      BY <1>3, <3>2
    <3>4. m[p - b] = base + p
      BY <1>2, <3>2
    <3>5. QED  BY <2>2, <3>1, <3>3, <3>4 DEF OrBit
  <2>3. CASE p >= b + w
    <3>1. x[p] = Zero /\ ~(p < b + w)
      BY <1>1, <2>3, SMT
    <3>2. y[p] = Zero
      <4>1. CASE p - b \in 0..15
        <5>1. m[p - b] = Zero
          BY <1>2, <2>3, <4>1, SMT
        <5>2. QED  BY <1>3, <4>1, <5>1
      <4>2. CASE p - b \notin 0..15
        BY <1>3, <4>2
      <4>3. QED  BY <4>1, <4>2
    <3>3. QED  BY <3>1, <3>2 DEF OrBit
  <2>4. QED
    BY <2>1, <2>2, <2>3, SMT
<1> HIDE DEF x, y
<1>6. OrWord(x, y) = [p \in 0..31 |-> IF p < b + w THEN base + p ELSE Zero]
  BY <1>4, <1>5
<1>7. QED
  BY <1>6 DEF Run, x, y, m

\* Flushing a byte leaves the rest of the run.
LEMMA FlushRun ==
  ASSUME NEW base \in Int, NEW b \in Int, 0 <= base, 8 <= b, b <= 20
  PROVE  /\ ShiftRight(32, Run(32, base, b), 8) = Run(32, base + 8, b - 8)
         /\ ShiftRight(8, Run(32, base, b), 0) = Run(8, base, 8)
<1> DEFINE x == Run(32, base, b)
<1>1. x = [p \in 0..31 |-> IF p < b THEN base + p ELSE Zero]
  BY DEF Run
<1> HIDE DEF x
<1>2. DOMAIN x = 0..31
  BY <1>1
<1>3. ShiftRight(32, x, 8) = Run(32, base + 8, b - 8)
  <2>1. \A p \in 0..31 : (IF p + 8 \in 0..31 THEN x[p + 8] ELSE Zero)
                           = (IF p < b - 8 THEN (base + 8) + p ELSE Zero)
    BY <1>1, SMT
  <2>2. QED
    BY <1>2, <2>1 DEF ShiftRight, Run
<1>4. ShiftRight(8, x, 0) = Run(8, base, 8)
  <2>1. \A p \in 0..7 : (IF p + 0 \in 0..31 THEN x[p + 0] ELSE Zero)
                          = (IF p < 8 THEN base + p ELSE Zero)
    BY <1>1, SMT
  <2>2. QED
    BY <1>2, <2>1 DEF ShiftRight, Run
<1>5. QED
  BY <1>3, <1>4 DEF x

-----------------------------------------------------------------------------
\* The invariant holds of the initial states.
LEMMA PackInitInv == PackInit => PackIInv
<1> SUFFICES ASSUME PackInit PROVE PackIInv
  OBVIOUS
<1>1. /\ width \in Int /\ 1 <= width /\ width <= 13 /\ NumBytes(width) \in Nat /\ N \in Nat
  BY WidthRange, WidthAssumption DEF PackInit
<1>2. 0 * width = 0
  BY <1>1, SMT
<1>3. PackTypeOK
  BY <1>1, SMT DEF PackInit, PackTypeOK, ZeroWord, Zero
<1>4. PackWindow
  <2>1. ZeroWord(32) = Run(32, 0, 0)
    BY SMT DEF ZeroWord, Run
  <2>2. QED
    BY <1>2, <2>1 DEF PackInit, PackWindow
<1>5. PackLayout
  BY DEF PackInit, PackLayout
<1>6. QED
  BY <1>3, <1>4, <1>5 DEF PackIInv

\* Every step keeps the invariant.
LEMMA PackStepInv == PackIInv /\ [PackNext]_packVars => PackIInv'
<1> SUFFICES ASSUME PackIInv, [PackNext]_packVars PROVE PackIInv'
  OBVIOUS
<1>1. /\ width \in Widths /\ width \in Int /\ 1 <= width /\ width <= 13
      /\ NumBytes(width) \in Int /\ N \in Int
      /\ bits_in_window \in Int /\ 0 <= bits_in_window /\ bits_in_window <= 20
      /\ byte_pos \in Int /\ 0 <= byte_pos /\ byte_pos <= NumBytes(width)
      /\ idx \in Int /\ 0 <= idx /\ idx <= N
      /\ out_buf \in [0..(NumBytes(width) - 1) -> [0..7 -> Int]]
  BY Ranges
<1> DEFINE base == 8 * byte_pos
<1>2. base + bits_in_window = idx * width /\ window = Run(32, base, bits_in_window)
  BY DEF PackIInv, PackWindow
<1>3. base \in Int /\ 0 <= base
  BY <1>1, SMT
<1>4. CASE Insert
  <2>1. /\ idx < N /\ bits_in_window <= 7
        /\ window' = OrWord(window, ShiftLeft(32, Low(Elem(idx), width), bits_in_window))
        /\ bits_in_window' = bits_in_window + width
        /\ idx' = idx + 1 /\ width' = width /\ byte_pos' = byte_pos /\ out_buf' = out_buf
    BY <1>1, <1>4, SMT DEF Insert, Full, Masked
  <2> DEFINE e == idx * width
             elem == Elem(idx)
  <2>2. e \in Int /\ (idx + 1) * width = e + width /\ e = base + bits_in_window
    BY <1>1, <1>2, StreamBound
  <2>3. elem = [j \in 0..15 |-> IF j < width THEN e + j ELSE Clash]
    BY DEF Elem
  <2> HIDE DEF e, base, elem
  <2>4. window' = Run(32, base, bits_in_window + width)
    <3>1. /\ base \in Int /\ bits_in_window \in Int /\ width \in Int /\ e \in Int
          /\ 0 <= base /\ 0 <= bits_in_window /\ bits_in_window <= 7
          /\ 1 <= width /\ width <= 13 /\ e = base + bits_in_window
      BY <1>1, <1>3, <2>1, <2>2
    <3>2. OrWord(Run(32, base, bits_in_window),
             ShiftLeft(32, Low(elem, width), bits_in_window))
            = Run(32, base, bits_in_window + width)
      BY <2>3, <3>1, InsertRun
    <3>3. window = Run(32, base, bits_in_window)
      BY <1>2 DEF base
    <3>4. QED
      BY <2>1, <3>2, <3>3 DEF elem
  <2>5. PackTypeOK'
    <3>1. window' \in [0..31 -> Int]
      BY <1>1, <1>3, <2>4, RunType
    <3>2. /\ bits_in_window' \in 0..20 /\ byte_pos' \in 0..NumBytes(width')
          /\ idx' \in 0..N /\ width' \in Widths
      BY <1>1, <2>1, SMT
    <3>3. QED
      BY <1>1, <2>1, <3>1, <3>2 DEF PackTypeOK
  <2>6. PackWindow'
    <3>1. base + bits_in_window' = idx' * width'
      <4>1. idx' * width' = e + width
        BY <2>1, <2>2
      <4>2. QED
        BY <1>1, <1>3, <2>1, <2>2, <4>1, SMT
    <3>2. QED
      BY <2>1, <2>4, <3>1 DEF PackWindow, base
  <2>7. PackLayout'
    BY <2>1 DEF PackIInv, PackLayout
  <2>8. QED
    BY <2>5, <2>6, <2>7 DEF PackIInv
<1>5. CASE Flush
  <2>1. /\ Full /\ 8 <= bits_in_window
        /\ out_buf' = [out_buf EXCEPT ![byte_pos] = ShiftRight(8, window, 0)]
        /\ window' = ShiftRight(32, window, 8)
        /\ bits_in_window' = bits_in_window - 8
        /\ byte_pos' = byte_pos + 1 /\ width' = width /\ idx' = idx
    BY <1>1, <1>5, SMT DEF Flush, Full
  <2>2. byte_pos < NumBytes(width)
    BY <2>1, PackInBoundsInv DEF PackInBounds
  <2> DEFINE byte == ShiftRight(8, window, 0)
  <2>3. 8 * byte_pos' = base + 8
    BY <1>1, <2>1, SMT
  <2> HIDE DEF base
  <2>4. window' = Run(32, base + 8, bits_in_window - 8) /\ byte = Run(8, base, 8)
    BY <1>1, <1>2, <1>3, <2>1, FlushRun
  <2>5. byte \in [0..7 -> Int]
    BY <1>3, <2>4, RunType
  <2> HIDE DEF byte
  <2>6. PackTypeOK'
    <3>1. window' \in [0..31 -> Int]
      <4>1. base + 8 \in Int /\ bits_in_window - 8 \in Int
        BY <1>1, <1>3
      <4>2. QED  BY <4>1, <2>4, RunType
    <3>2. /\ bits_in_window' \in 0..20 /\ byte_pos' \in 0..NumBytes(width')
          /\ idx' \in 0..N /\ width' \in Widths
      BY <1>1, <2>1, <2>2, SMT
    <3>3. out_buf' \in [0..(NumBytes(width) - 1) -> [0..7 -> Int]]
      BY <1>1, <2>1, <2>5 DEF byte
    <3>4. QED
      BY <2>1, <3>1, <3>2, <3>3 DEF PackTypeOK
  <2>7. PackWindow'
    <3>1. (base + 8) + bits_in_window' = idx' * width'
      <4> DEFINE e == idx * width
      <4>1. base + bits_in_window = e /\ idx' * width' = e
        BY <1>2, <2>1
      <4> HIDE DEF e
      <4>2. QED
        BY <1>1, <1>3, <2>1, <4>1, SMT
    <3>2. QED
      BY <2>1, <2>3, <2>4, <3>1 DEF PackWindow
  <2>8. PackLayout'
    <3> SUFFICES ASSUME NEW b \in 0..byte_pos PROVE out_buf'[b] = Run(8, 8 * b, 8)
      <4>1. (byte_pos + 1) - 1 = byte_pos
        BY <1>1, SMT
      <4>2. QED
        BY <2>1, <4>1 DEF PackLayout
    <3>1. CASE b = byte_pos
      <4>1. byte_pos \in 0..(NumBytes(width) - 1)
        BY <1>1, <2>2, SMT
      <4>2. out_buf'[byte_pos] = byte
        BY <1>1, <2>1, <4>1 DEF byte
      <4>3. QED
        BY <2>4, <3>1, <4>2 DEF base
    <3>2. CASE b # byte_pos
      <4>1. b \in 0..(byte_pos - 1) /\ b \in 0..(NumBytes(width) - 1)
        BY <1>1, <3>2, SMT
      <4>2. out_buf'[b] = out_buf[b]
        BY <1>1, <2>1, <3>2, <4>1
      <4>3. QED
        BY <4>1, <4>2 DEF PackIInv, PackLayout
    <3>3. QED
      BY <3>1, <3>2
  <2>9. QED
    BY <2>6, <2>7, <2>8 DEF PackIInv
<1>6. CASE UNCHANGED packVars
  BY <1>6 DEF packVars, PackIInv, PackTypeOK, PackWindow, PackLayout
<1>7. QED
  BY <1>4, <1>5, <1>6 DEF PackNext

\* The inductive invariant: types, cursors against window, bytes written.
THEOREM PackInvariance == PackSpec => []PackIInv
BY PackInitInv, PackStepInv, PTL DEF PackSpec

\* Every byte written holds its own bits of the stream, for every width, and
\* no bit from above an element's width.
THEOREM PackLayoutHolds == PackSpec => []PackLayout
<1>1. PackIInv => PackLayout
  BY DEF PackIInv
<1>2. QED
  BY <1>1, PackInvariance, PTL

\* The unchecked indexing of the output buffer stays inside it.
THEOREM PackInBoundsHolds == PackSpec => []PackInBounds
BY PackInvariance, PackInBoundsInv, PTL

\* The debug assertion of ser.rs:122, and that the whole buffer was written.
THEOREM CompleteHolds == PackSpec => []Complete
BY PackInvariance, CompleteInv, PTL
-----------------------------------------------------------------------------
\* A word of w bits whose bits lo to hi - 1 are consecutive stream bits, such that
\* bit p is stream bit from + p.
Seg(w, from, lo, hi) == [p \in 0..(w - 1) |-> IF lo <= p /\ p < hi THEN from + p ELSE Zero]

\* Ored onto the bits below it, a segment extends the run.
LEMMA RunJoin ==
  ASSUME NEW w \in Nat, NEW from \in Nat, NEW mid \in Nat, NEW hi \in Nat, mid <= hi
  PROVE  OrWord(Run(w, from, mid), Seg(w, from, mid, hi)) = Run(w, from, hi)
<1> DEFINE x == Run(w, from, mid)
           y == Seg(w, from, mid, hi)
<1>1. x = [p \in 0..(w - 1) |-> IF p < mid THEN from + p ELSE Zero]
  BY DEF Run
<1>2. y = [p \in 0..(w - 1) |-> IF mid <= p /\ p < hi THEN from + p ELSE Zero]
  BY DEF Seg
<1> HIDE DEF x, y
<1>3. OrWord(x, y) = [p \in 0..(w - 1) |-> OrBit(x[p], y[p])]
  BY <1>1 DEF OrWord
<1>4. \A p \in 0..(w - 1) : OrBit(x[p], y[p]) = IF p < hi THEN from + p ELSE Zero
  <2> SUFFICES ASSUME NEW p \in 0..(w - 1)
               PROVE  OrBit(x[p], y[p]) = IF p < hi THEN from + p ELSE Zero
    OBVIOUS
  <2>1. CASE p < mid
    <3>1. x[p] = from + p /\ x[p] # Zero /\ y[p] = Zero /\ p < hi
      BY <1>1, <1>2, <2>1 DEF Zero
    <3>2. QED  BY <2>1, <3>1 DEF OrBit
  <2>2. CASE mid <= p /\ p < hi
    <3>1. x[p] = Zero /\ y[p] = from + p
      BY <1>1, <1>2, <2>2
    <3>2. QED  BY <2>2, <3>1 DEF OrBit
  <2>3. CASE ~(p < hi)
    <3>1. x[p] = Zero /\ y[p] = Zero
      BY <1>1, <1>2, <2>3
    <3>2. QED  BY <2>3, <3>1 DEF OrBit
  <2>4. QED  BY <2>1, <2>2, <2>3
<1>5. OrWord(x, y) = [p \in 0..(w - 1) |-> IF p < hi THEN from + p ELSE Zero]
  BY <1>3, <1>4
<1>6. QED  BY <1>5 DEF Run, x, y

\* The first word of a run, ored onto nothing.
LEMMA RunFirst ==
  ASSUME NEW w \in Nat, NEW from \in Nat, NEW hi \in Nat
  PROVE  OrWord(ZeroWord(w), Run(w, from, hi)) = Run(w, from, hi)
<1>1. \A b : OrBit(Zero, b) = b
  BY DEF OrBit
<1>2. \A p \in 0..(w - 1) : ZeroWord(w)[p] = Zero
  BY DEF ZeroWord
<1>3. DOMAIN ZeroWord(w) = 0..(w - 1)
  BY DEF ZeroWord
<1> DEFINE y == Run(w, from, hi)
<1>4. OrWord(ZeroWord(w), y) = [p \in 0..(w - 1) |-> y[p]]
  BY <1>1, <1>2, <1>3 DEF OrWord
<1>5. [p \in 0..(w - 1) |-> y[p]] = y
  BY DEF Run
<1>6. QED  BY <1>4, <1>5

\* An OR of up to three words, the recursion unfolded.
LEMMA OrAllIs ==
  ASSUME NEW w, NEW words, NEW n \in 1..3, Len(words) = n
  PROVE  OrAll(w, words) =
           IF n = 1 THEN OrWord(ZeroWord(w), words[1])
           ELSE IF n = 2 THEN OrWord(OrWord(ZeroWord(w), words[1]), words[2])
           ELSE OrWord(OrWord(OrWord(ZeroWord(w), words[1]), words[2]), words[3])
<1> DEFINE z  == ZeroWord(w)
           o1 == OrWord(z, words[1])
           o2 == OrWord(o1, words[2])
           o3 == OrWord(o2, words[3])
           h  == [j \in 0..n |-> IF j = 0 THEN z ELSE IF j = 1 THEN o1 ELSE IF j = 2 THEN o2 ELSE o3]
           upTo == CHOOSE f : f = [j \in 0..n |-> IF j = 0 THEN z ELSE OrWord(f[j - 1], words[j])]
<1>1. OrAll(w, words) = upTo[n]
  BY Zenon DEF OrAll
<1>2. \A j \in 0..n : h[j] = IF j = 0 THEN z ELSE OrWord(h[j - 1], words[j])
  <2> SUFFICES ASSUME NEW j \in 0..n
               PROVE  h[j] = IF j = 0 THEN z ELSE OrWord(h[j - 1], words[j])
    OBVIOUS
  <2>1. CASE j = 0
    BY <2>1
  <2>2. CASE j = 1
    <3>1. h[1] = o1 /\ h[0] = z
      BY <2>2
    <3> HIDE DEF h
    <3>2. j - 1 = 0
      BY <2>2
    <3>3. QED  BY <2>2, <3>1, <3>2
  <2>3. CASE j = 2
    <3>1. h[2] = o2 /\ h[1] = o1
      BY <2>3
    <3> HIDE DEF h
    <3>2. j - 1 = 1
      BY <2>3
    <3>3. QED  BY <2>3, <3>1, <3>2
  <2>4. CASE j = 3
    <3>1. h[3] = o3 /\ h[2] = o2
      BY <2>4
    <3> HIDE DEF h
    <3>2. j - 1 = 2
      BY <2>4
    <3>3. QED  BY <2>4, <3>1, <3>2
  <2>5. QED  BY <2>1, <2>2, <2>3, <2>4
<1>3. h = [j \in 0..n |-> IF j = 0 THEN z ELSE OrWord(h[j - 1], words[j])]
  BY <1>2
<1> HIDE DEF z, h
<1>4. upTo = [j \in 0..n |-> IF j = 0 THEN z ELSE OrWord(upTo[j - 1], words[j])]
  BY <1>3, Zenon
<1> HIDE DEF upTo
<1>5. upTo[0] = z
  BY <1>4
<1>6. upTo[1] = o1
  BY <1>4, <1>5
<1>7. n > 1 => upTo[2] = o2
  BY <1>4, <1>6
<1>8. n > 2 => upTo[3] = o3
  BY <1>4, <1>7
<1>9. QED  BY <1>1, <1>6, <1>7, <1>8 DEF z

\* Words that hold consecutive parts of one stretch of the stream make up that
\* stretch.
Parts(w, words, from, n, c1, c2, c3) ==
  /\ Len(words) = n
  /\ c1 <= c2 /\ c2 <= c3
  /\ words[1] = Run(w, from, c1)
  /\ n > 1 => words[2] = Seg(w, from, c1, c2)
  /\ n > 2 => words[3] = Seg(w, from, c2, c3)

\* Words that continue one another make up one run of bits.
LEMMA Stretch ==
  ASSUME NEW w \in Nat, NEW from \in Nat, NEW words, NEW n \in 1..3,
         NEW c1 \in Nat, NEW c2 \in Nat, NEW c3 \in Nat,
         Parts(w, words, from, n, c1, c2, c3)
  PROVE  /\ n = 1 => OrAll(w, words) = Run(w, from, c1)
         /\ n = 2 => OrAll(w, words) = Run(w, from, c2)
         /\ n = 3 => OrAll(w, words) = Run(w, from, c3)
<1>0. /\ Len(words) = n /\ c1 <= c2 /\ c2 <= c3 /\ words[1] = Run(w, from, c1)
      /\ n > 1 => words[2] = Seg(w, from, c1, c2)
      /\ n > 2 => words[3] = Seg(w, from, c2, c3)
  BY DEF Parts
<1>1. OrWord(ZeroWord(w), Run(w, from, c1)) = Run(w, from, c1)
  BY RunFirst, Zenon
<1>2. OrWord(Run(w, from, c1), Seg(w, from, c1, c2)) = Run(w, from, c2)
  BY <1>0, RunJoin
<1>3. OrWord(Run(w, from, c2), Seg(w, from, c2, c3)) = Run(w, from, c3)
  BY <1>0, RunJoin
<1>6. CASE n = 1
  BY <1>0, <1>1, <1>6, OrAllIs
<1>7. CASE n = 2
  <2>1. OrAll(w, words) = OrWord(OrWord(ZeroWord(w), words[1]), words[2]) /\ words[2] = Seg(w, from, c1, c2)
    BY <1>0, <1>7, OrAllIs
  <2>2. QED  BY <1>0, <1>1, <1>2, <1>7, <2>1
<1>8. CASE n = 3
  <2>1. /\ OrAll(w, words) = OrWord(OrWord(OrWord(ZeroWord(w), words[1]), words[2]), words[3])
        /\ words[2] = Seg(w, from, c1, c2) /\ words[3] = Seg(w, from, c2, c3)
    BY <1>0, <1>8, OrAllIs
  <2>2. QED  BY <1>0, <1>1, <1>2, <1>3, <1>8, <2>1
<1>9. QED  BY <1>6, <1>7, <1>8

\* Pieces of bytes up to `last` that follow one another through the w bits from
\* bit `from` of their group.
Continues(pieces, last, from, w) ==
  /\ Len(pieces) \in 2..3
  /\ pieces[1].left = 0
  /\ \A j \in 1..Len(pieces) :
       /\ pieces[j].byte \in 0..last /\ pieces[j].right \in Nat
       /\ pieces[j].n \in Nat /\ pieces[j].left \in Nat
       /\ pieces[j].right + pieces[j].n <= 8
       /\ 8 * pieces[j].byte + pieces[j].right = from + pieces[j].left
       /\ pieces[j].left + pieces[j].n = IF j = Len(pieces) THEN w ELSE pieces[j + 1].left

\* One piece of an unrolled element path is one segment of the element's bits.
LEMMA PieceOfByteIs ==
  ASSUME NEW start \in Nat, NEW q, NEW from \in Nat,
         q.byte \in Nat, q.right \in Nat, q.n \in Nat, q.left \in Nat,
         start + q.byte < NumBytes(width), NumBytes(width) \in Nat,
         q.right + q.n <= 8, 8 * q.byte + q.right = from + q.left
  PROVE  PieceOfByte(start, q) = Seg(16, 8 * start + from, q.left, q.left + q.n)
<1> DEFINE at   == 8 * (start + q.byte)
           byte == Byte(start + q.byte)
           right == q.right
           n    == q.n
           left == q.left
           f    == 8 * start + from
           x    == ShiftRight(8, byte, right)
           y    == Low(x, n)
<1>1. byte = [k \in 0..7 |-> at + k]
  <2>1. start + q.byte \in 0..(NumBytes(width) - 1)
    OBVIOUS
  <2>2. QED  BY <2>1 DEF Byte
<1>2. at \in Nat /\ right \in Nat /\ n \in Nat /\ left \in Nat /\ f \in Nat
      /\ right + n <= 8 /\ at + right = f + left
  OBVIOUS
<1>3. PieceOfByte(start, q) = ShiftLeft(16, y, left)
  BY DEF PieceOfByte
<1> HIDE DEF at, byte, right, n, left, f, x, y
<1>4. x = [p \in 0..7 |-> IF p + right \in 0..7 THEN at + (p + right) ELSE Zero]
  BY <1>1 DEF ShiftRight, x
<1>5. y = [p \in 0..7 |-> IF p < n THEN x[p] ELSE Zero]
  BY <1>4 DEF Low, y
<1>6. \A p \in 0..7 : y[p] = IF p < n THEN at + (p + right) ELSE Zero
  BY <1>2, <1>4, <1>5
<1>7. DOMAIN y = 0..7
  BY <1>5
<1>8. \A p \in 0..15 :
        (IF p - left \in 0..7 THEN y[p - left] ELSE Zero)
          = (IF left <= p /\ p < left + n THEN f + p ELSE Zero)
  BY <1>2, <1>6
<1>9. ShiftLeft(16, y, left) = Seg(16, f, left, left + n)
  BY <1>7, <1>8 DEF ShiftLeft, Seg
<1>10. QED  BY <1>3, <1>9 DEF f, left, n

\* Such pieces make up those bits.
LEMMA PiecesOfBytes ==
  ASSUME NEW start \in Nat, NEW last \in Nat, NEW from \in Nat, NEW w \in Nat, NEW pieces,
         Continues(pieces, last, from, w),
         NumBytes(width) \in Nat, start + last < NumBytes(width)
  PROVE  FromBytePieces(start, pieces) = Run(16, 8 * start + from, w)
<1> DEFINE n == Len(pieces)
           f == 8 * start + from
           words == [j \in 1..n |-> PieceOfByte(start, pieces[j])]
           c1 == pieces[1].left + pieces[1].n
           c2 == pieces[2].left + pieces[2].n
           c3 == IF n = 3 THEN pieces[3].left + pieces[3].n ELSE c2
<1>1. FromBytePieces(start, pieces) = OrAll(16, words)
  BY DEF FromBytePieces
<1>2. n \in 2..3 /\ pieces[1].left = 0
  BY DEF Continues
<1>3. \A j \in 1..n :
        /\ pieces[j].byte \in 0..last /\ pieces[j].right \in Nat
        /\ pieces[j].n \in Nat /\ pieces[j].left \in Nat
        /\ pieces[j].right + pieces[j].n <= 8
        /\ 8 * pieces[j].byte + pieces[j].right = from + pieces[j].left
        /\ pieces[j].left + pieces[j].n = IF j = n THEN w ELSE pieces[j + 1].left
  BY DEF Continues
<1>4. \A j \in 1..n :
        words[j] = Seg(16, f, pieces[j].left, pieces[j].left + pieces[j].n)
  <2> SUFFICES ASSUME NEW j \in 1..n
               PROVE  PieceOfByte(start, pieces[j])
                        = Seg(16, f, pieces[j].left, pieces[j].left + pieces[j].n)
    OBVIOUS
  <2> DEFINE q == pieces[j]
  <2>1. /\ q.byte \in Nat /\ q.right \in Nat /\ q.n \in Nat /\ q.left \in Nat
        /\ start + q.byte < NumBytes(width)
        /\ q.right + q.n <= 8 /\ 8 * q.byte + q.right = from + q.left
    BY <1>3, SMTT(20)
  <2> HIDE DEF q
  <2>2. PieceOfByte(start, q) = Seg(16, 8 * start + from, q.left, q.left + q.n)
    BY <2>1, PieceOfByteIs
  <2>3. QED  BY <2>2 DEF q
<1>5. Len(words) = n
  BY <1>2, Z3
<1>6. FromBytePieces(start, pieces) = OrAll(16, words)
  BY <1>1
<1> HIDE DEF n, words
<1>7. 1 \in 1..n /\ 2 \in 1..n /\ (n = 3 => 3 \in 1..n) /\ n \in 1..3 /\ (n = 2 \/ n = 3)
  BY <1>2
<1>8. /\ pieces[1].n \in Nat /\ pieces[1].left \in Nat /\ pieces[1].left + pieces[1].n = pieces[2].left
      /\ pieces[2].n \in Nat /\ pieces[2].left \in Nat
      /\ n = 2 => pieces[2].left + pieces[2].n = w
      /\ n = 3 => /\ pieces[3].n \in Nat /\ pieces[3].left \in Nat
                  /\ pieces[2].left + pieces[2].n = pieces[3].left
                  /\ pieces[3].left + pieces[3].n = w
  <2>1. 1 # n /\ 1 + 1 = 2 /\ 2 + 1 = 3 /\ (n = 3 => 2 # n)
    BY <1>7
  <2>2. QED  BY <1>3, <1>7, <2>1
<1>9. /\ words[1] = Seg(16, f, pieces[1].left, c1) /\ words[2] = Seg(16, f, pieces[2].left, c2)
      /\ n = 3 => words[3] = Seg(16, f, pieces[3].left, c3)
  BY <1>4, <1>7
<1>10. /\ c1 \in Nat /\ c2 \in Nat /\ c3 \in Nat /\ c1 <= c2 /\ c2 <= c3 /\ f \in Nat
       /\ pieces[2].left = c1 /\ (n = 3 => pieces[3].left = c2)
       /\ n = 2 => c2 = w
       /\ n = 3 => c3 = w
  BY <1>7, <1>8
<1> HIDE DEF f, c1, c2, c3
<1>11. words[1] = Run(16, f, c1)
  <2>1. Seg(16, f, 0, c1) = Run(16, f, c1)
    BY DEF Seg, Run
  <2>2. QED  BY <1>2, <1>9, <2>1
<1>12. words[2] = Seg(16, f, c1, c2) /\ (n > 2 => words[3] = Seg(16, f, c2, c3))
  BY <1>7, <1>9, <1>10
<1> DEFINE sixteen == 16
<1>13. sixteen \in Nat
  OBVIOUS
<1> HIDE DEF sixteen
<1>14. OrAll(sixteen, words) = Run(sixteen, f, w)
  <2>1. /\ words[1] = Run(sixteen, f, c1)
        /\ n > 1 => words[2] = Seg(sixteen, f, c1, c2)
        /\ n > 2 => words[3] = Seg(sixteen, f, c2, c3)
    BY <1>11, <1>12 DEF sixteen
  <2>2. Parts(sixteen, words, f, n, c1, c2, c3)
    BY <1>5, <1>10, <2>1 DEF Parts
  <2>3. /\ sixteen \in Nat /\ f \in Nat /\ n \in 1..3
        /\ c1 \in Nat /\ c2 \in Nat /\ c3 \in Nat
    BY <1>7, <1>10, <1>13
  <2>4. /\ n = 2 => OrAll(sixteen, words) = Run(sixteen, f, c2)
        /\ n = 3 => OrAll(sixteen, words) = Run(sixteen, f, c3)
    BY <2>2, <2>3, Stretch
  <2>5. QED  BY <1>7, <1>10, <2>4
<1>15. QED  BY <1>6, <1>14 DEF f, sixteen

\* Element r of a group of eight of 13 bits, or of four of 10, starts r widths into
\* it.
LEMMA ElementPaths13Continue ==
  ASSUME NEW r \in 0..7
  PROVE  Continues(ElementPaths13[r + 1], 12, 13 * r, 13)
<1>1. Continues(<<BytePiece(0, 0, 8, 0), BytePiece(1, 0, 5, 8)>>, 12, 0, 13)
  BY DEF Continues, BytePiece
<1>2. Continues(<<BytePiece(1, 5, 3, 0), BytePiece(2, 0, 8, 3), BytePiece(3, 0, 2, 11)>>, 12, 13, 13)
  BY DEF Continues, BytePiece
<1>3. Continues(<<BytePiece(3, 2, 6, 0), BytePiece(4, 0, 7, 6)>>, 12, 26, 13)
  BY DEF Continues, BytePiece
<1>4. Continues(<<BytePiece(4, 7, 1, 0), BytePiece(5, 0, 8, 1), BytePiece(6, 0, 4, 9)>>, 12, 39, 13)
  BY DEF Continues, BytePiece
<1>5. Continues(<<BytePiece(6, 4, 4, 0), BytePiece(7, 0, 8, 4), BytePiece(8, 0, 1, 12)>>, 12, 52, 13)
  BY DEF Continues, BytePiece
<1>6. Continues(<<BytePiece(8, 1, 7, 0), BytePiece(9, 0, 6, 7)>>, 12, 65, 13)
  BY DEF Continues, BytePiece
<1>7. Continues(<<BytePiece(9, 6, 2, 0), BytePiece(10, 0, 8, 2), BytePiece(11, 0, 3, 10)>>, 12, 78, 13)
  BY DEF Continues, BytePiece
<1>8. Continues(<<BytePiece(11, 3, 5, 0), BytePiece(12, 0, 8, 5)>>, 12, 91, 13)
  BY DEF Continues, BytePiece
<1>9. QED  BY <1>1, <1>2, <1>3, <1>4, <1>5, <1>6, <1>7, <1>8 DEF ElementPaths13

LEMMA ElementPaths10Continue ==
  ASSUME NEW r \in 0..3
  PROVE  Continues(ElementPaths10[r + 1], 4, 10 * r, 10)
<1>1. Continues(<<BytePiece(0, 0, 8, 0), BytePiece(1, 0, 2, 8)>>, 4, 0, 10)
  BY DEF Continues, BytePiece
<1>2. Continues(<<BytePiece(1, 2, 6, 0), BytePiece(2, 0, 4, 6)>>, 4, 10, 10)
  BY DEF Continues, BytePiece
<1>3. Continues(<<BytePiece(2, 4, 4, 0), BytePiece(3, 0, 6, 4)>>, 4, 20, 10)
  BY DEF Continues, BytePiece
<1>4. Continues(<<BytePiece(3, 6, 2, 0), BytePiece(4, 0, 8, 2)>>, 4, 30, 10)
  BY DEF Continues, BytePiece
<1>5. QED  BY <1>1, <1>2, <1>3, <1>4 DEF ElementPaths10

\* The bytes an unrolled path touches lie inside the slice.
LEMMA UnrolledInSlice ==
  ASSUME width \in Widths, NEW i \in 0..(N - 1)
  PROVE  /\ width = 13 => 13 * (i \div 8) + 12 < NumBytes(width)
         /\ width = 10 => 5 * (i \div 4) + 4 < NumBytes(width)
<1> DEFINE n == NumBytes(width)
<1>1. n \in Nat /\ 8 * n = width * N /\ N \in Nat
  BY WidthRange, WidthAssumption
<1> HIDE DEF n
<1>2. ASSUME width = 13 PROVE 13 * (i \div 8) + 12 < n
  <2> DEFINE m == N \div 8
             r == N % 8
             g == i \div 8
  <2>1. N = 8 * m + r /\ r \in 0..7 /\ m \in Nat
    BY <1>1
  <2>2. 8 * g <= i /\ g \in Nat
    OBVIOUS
  <2>3. 8 * n = 13 * N
    BY <1>1, <1>2
  <2>4. i < N
    BY <1>1
  <2> HIDE DEF m, r, g
  <2>5. r = 0
    BY <1>1, <2>1, <2>3
  <2>6. n = 13 * m /\ g < m
    BY <1>1, <2>1, <2>2, <2>3, <2>4, <2>5
  <2>7. 13 * g + 12 < n
    BY <2>1, <2>2, <2>6
  <2>8. QED  BY <2>7 DEF g
<1>3. ASSUME width = 10 PROVE 5 * (i \div 4) + 4 < n
  <2> DEFINE m == N \div 4
             r == N % 4
             g == i \div 4
  <2>1. N = 4 * m + r /\ r \in 0..3 /\ m \in Nat
    BY <1>1
  <2>2. 4 * g <= i /\ g \in Nat
    OBVIOUS
  <2>3. 8 * n = 10 * N
    BY <1>1, <1>3
  <2>4. i < N
    BY <1>1
  <2> HIDE DEF m, r, g
  <2>5. r = 0
    BY <1>1, <2>1, <2>3
  <2>6. n = 5 * m /\ g < m
    BY <1>1, <2>1, <2>2, <2>3, <2>4, <2>5
  <2>7. 5 * g + 4 < n
    BY <2>1, <2>2, <2>6
  <2>8. QED  BY <2>7 DEF g
<1>4. QED  BY <1>2, <1>3 DEF n

\* Every element an unrolled path assembles is its own bits of the stream.
LEMMA UnrolledIs ==
  ASSUME width \in Widths, NEW i \in 0..(N - 1)
  PROVE  /\ width = 13 => Unrolled(ElementPaths13, 13, i) = Run(16, i * 13, 13)
         /\ width = 10 => Unrolled(ElementPaths10, 5, i) = Run(16, i * 10, 10)
<1>1. NumBytes(width) \in Nat
  BY WidthRange
<1>2. ASSUME width = 13 PROVE Unrolled(ElementPaths13, 13, i) = Run(16, i * 13, 13)
  <2> DEFINE start == 13 * (i \div 8)
             r     == i % 8
             from  == 13 * r
             paths == ElementPaths13
  <2>1. Len(paths) = 8
    BY DEF ElementPaths13
  <2>2. r \in 0..7 /\ start \in Nat /\ from \in Nat /\ 8 * start + from = i * 13
    OBVIOUS
  <2>3. start + 12 < NumBytes(width)
    BY <1>2, UnrolledInSlice
  <2> DEFINE pieces == paths[r + 1]
  <2>4. Continues(pieces, 12, from, 13)
    BY <2>2, ElementPaths13Continue
  <2>5. Unrolled(paths, 13, i) = FromBytePieces(start, pieces)
    BY <2>1 DEF Unrolled
  <2> HIDE DEF start, from, pieces, paths, r
  <2>6. FromBytePieces(start, pieces) = Run(16, 8 * start + from, 13)
    BY <1>1, <2>2, <2>3, <2>4, PiecesOfBytes
  <2>7. QED  BY <2>2, <2>5, <2>6 DEF paths
<1>3. ASSUME width = 10 PROVE Unrolled(ElementPaths10, 5, i) = Run(16, i * 10, 10)
  <2> DEFINE start == 5 * (i \div 4)
             r     == i % 4
             from  == 10 * r
             paths == ElementPaths10
  <2>1. Len(paths) = 4
    BY DEF ElementPaths10
  <2>2. r \in 0..3 /\ start \in Nat /\ from \in Nat /\ 8 * start + from = i * 10
    OBVIOUS
  <2>3. start + 4 < NumBytes(width)
    BY <1>3, UnrolledInSlice
  <2> DEFINE pieces == paths[r + 1]
  <2>4. Continues(pieces, 4, from, 10)
    BY <2>2, ElementPaths10Continue
  <2>5. Unrolled(paths, 5, i) = FromBytePieces(start, pieces)
    BY <2>1 DEF Unrolled
  <2> HIDE DEF start, from, pieces, paths, r
  <2>6. FromBytePieces(start, pieces) = Run(16, 8 * start + from, 10)
    BY <1>1, <2>2, <2>3, <2>4, PiecesOfBytes
  <2>7. QED  BY <2>2, <2>5, <2>6 DEF paths
<1>4. QED  BY <1>2, <1>3

\* Both the loop and the unrolled paths give the element's own bits.
LEMMA DeserializedInv == UnpackIInv => DeserializedAgree
<1> SUFFICES ASSUME UnpackIInv, NEW i \in 0..(idx - 1) PROVE Deserialized(i) = out[i]
  BY DEF DeserializedAgree
<1>1. width \in Widths /\ out[i] = Run(16, i * width, width)
  BY DEF UnpackIInv, UnpackTypeOK, UnpackLayout
<1>2. i \in 0..(N - 1)
  BY WidthAssumption DEF UnpackIInv, UnpackTypeOK
<1>3. /\ width = 13 => Unrolled(ElementPaths13, 13, i) = Run(16, i * 13, 13)
      /\ width = 10 => Unrolled(ElementPaths10, 5, i) = Run(16, i * 10, 10)
  BY <1>1, <1>2, UnrolledIs
<1>4. QED  BY <1>1, <1>3 DEF Deserialized

\* The unrolled paths for 10 and 13 bits give what the generic loop gives, for any
\* number of elements (DeserializedAgree).
THEOREM DeserializedAgreeHolds == UnpackSpec => []DeserializedAgree
BY UnpackInvariance, DeserializedInv, PTL
-----------------------------------------------------------------------------
\* Piece q begins at offset left of the byte whose first bit is bit `from` of the
\* group, and ends before offset hi: at the byte's end or at the element's.
Fills(q, from, hi) ==
  /\ q.elem \in Nat /\ q.right \in Nat /\ q.left \in Nat /\ q.right <= 10
  /\ 10 * q.elem + q.right = from + q.left
  /\ hi \in Nat
  /\ q.left + 10 - q.right < 8 => hi = q.left + 10 - q.right
  /\ q.left + 10 - q.right >= 8 => hi = 8

\* One piece of an unrolled byte path is one segment of the byte's bits.
LEMMA PieceOfElemIs ==
  ASSUME NEW start \in Nat, NEW q, NEW from \in Nat, NEW hi, width = 10, Fills(q, from, hi)
  PROVE  PieceOfElem(start, q) = Seg(8, 10 * start + from, q.left, hi)
<1> DEFINE at   == (start + q.elem) * width
           elem == Elem(start + q.elem)
           right == q.right
           left == q.left
           f    == 10 * start + from
           x    == Low(elem, 10)
           y    == ShiftRight(16, x, right)
<1>1. elem = [k \in 0..15 |-> IF k < 10 THEN at + k ELSE Clash]
  BY DEF Elem
<1>2. at \in Nat /\ right \in Nat /\ left \in Nat /\ f \in Nat /\ right <= 10
      /\ at + right = f + left
      /\ hi = IF left + 10 - right < 8 THEN left + 10 - right ELSE 8
  BY DEF Fills
<1>3. PieceOfElem(start, q) = ShiftLeft(8, y, left)
  BY DEF PieceOfElem
<1> HIDE DEF at, elem, right, left, f, x, y
<1>4. x = [p \in 0..15 |-> IF p < 10 THEN at + p ELSE Zero]
  BY <1>1 DEF Low, x
<1>5. y = [p \in 0..15 |-> IF p + right \in 0..15 THEN x[p + right] ELSE Zero]
  BY <1>4 DEF ShiftRight, y
<1>6. \A p \in 0..15 : y[p] = IF p + right < 10 THEN at + (p + right) ELSE Zero
  BY <1>2, <1>4, <1>5
<1>7. DOMAIN y = 0..15
  BY <1>5
<1>8. \A p \in 0..7 :
        (IF p - left \in 0..15 THEN y[p - left] ELSE Zero)
          = (IF left <= p /\ p < hi THEN f + p ELSE Zero)
  BY <1>2, <1>6
<1>9. ShiftLeft(8, y, left) = Seg(8, f, left, hi)
  BY <1>7, <1>8 DEF ShiftLeft, Seg
<1>10. QED  BY <1>3, <1>9 DEF f, left

\* The one or two pieces of a byte: the first is cut off at eight bits or where
\* the second begins.
LEMMA PiecesOfElems ==
  ASSUME NEW start \in Nat, NEW from \in Nat, NEW pieces, NEW n \in 1..2, Len(pieces) = n, width = 10,
         \A j \in 1..n :
           /\ pieces[j].elem \in Nat /\ pieces[j].right \in Nat /\ pieces[j].left \in Nat
           /\ pieces[j].right <= 10 /\ 10 * pieces[j].elem + pieces[j].right = from + pieces[j].left,
         pieces[1].left = 0,
         n = 1 => pieces[1].right <= 2,
         n = 2 => /\ pieces[2].left + pieces[1].right = 10 /\ pieces[2].left <= 8
                  /\ pieces[2].right = 0
  PROVE  FromElemPieces(start, pieces) = Run(8, 10 * start + from, 8)
<1> DEFINE f == 10 * start + from
           words == [j \in 1..n |-> PieceOfElem(start, pieces[j])]
           cut == IF n = 2 THEN pieces[2].left ELSE 8
           eight == 8
<1>1. FromElemPieces(start, pieces) = OrAll(8, words)
  BY DEF FromElemPieces
<1>2. Len(words) = n
  BY Z3
<1>3. f \in Nat /\ cut \in Nat /\ eight \in Nat /\ cut <= eight /\ eight <= eight /\ n \in 1..3
  <2>1. n = 2 => 2 \in 1..n
    OBVIOUS
  <2>2. QED  BY <2>1
<1>4. words[1] = Seg(8, f, 0, cut)
  <2> DEFINE q == pieces[1]
             hi == IF q.left + 10 - q.right < 8 THEN q.left + 10 - q.right ELSE 8
  <2>1. q.elem \in Nat /\ q.right \in Nat /\ q.left \in Nat /\ q.right <= 10
        /\ 10 * q.elem + q.right = from + q.left /\ q.left = 0
    OBVIOUS
  <2>2. hi = cut /\ hi \in Nat
    <3>1. n = 2 => pieces[2].left \in Nat
      OBVIOUS
    <3>2. QED  BY <2>1, <3>1
  <2> HIDE DEF q
  <2>3. Fills(q, from, hi)
    BY <2>1, <2>2 DEF Fills
  <2> HIDE DEF hi
  <2>5. PieceOfElem(start, q) = Seg(8, 10 * start + from, q.left, hi)
    BY <2>3, PieceOfElemIs
  <2>6. QED  BY <2>1, <2>2, <2>5 DEF q
<1>5. n = 2 => words[2] = Seg(8, f, cut, 8)
  <2> SUFFICES ASSUME n = 2 PROVE PieceOfElem(start, pieces[2]) = Seg(8, f, cut, 8)
    OBVIOUS
  <2> DEFINE q == pieces[2]
  <2>1. q.elem \in Nat /\ q.right \in Nat /\ q.left \in Nat /\ q.right <= 10
        /\ 10 * q.elem + q.right = from + q.left /\ q.left = cut /\ q.right = 0
    OBVIOUS
  <2> HIDE DEF q, cut
  <2>2. Fills(q, from, eight)
    BY <2>1 DEF Fills
  <2> HIDE DEF eight
  <2>3. PieceOfElem(start, q) = Seg(8, 10 * start + from, q.left, eight)
    BY <2>2, PieceOfElemIs
  <2>4. QED  BY <2>1, <2>3 DEF q, eight
<1>6. Seg(8, f, 0, cut) = Run(8, f, cut)
  BY DEF Seg, Run
<1>7. n = 1 => cut = eight
  OBVIOUS
<1>8. Parts(eight, words, f, n, cut, eight, eight)
  <2> HIDE DEF f, words, cut
  <2>1. QED  BY <1>2, <1>3, <1>4, <1>5, <1>6 DEF Parts
<1> HIDE DEF f, words, cut, eight
<1>9. OrAll(eight, words) = Run(eight, f, eight)
  BY <1>3, <1>7, <1>8, Stretch
<1>10. QED  BY <1>1, <1>9 DEF f, eight

\* Byte r of a group of five is its own bits of the stream.
LEMMA BytePaths10Is ==
  ASSUME NEW start \in Nat, NEW r \in 0..4, width = 10
  PROVE  FromElemPieces(start, BytePaths10[r + 1]) = Run(8, 10 * start + 8 * r, 8)
<1>1. CASE r = 0
  <2> DEFINE pieces == <<ElemPiece(0, 0, 0)>>
             from   == 0
             n      == 1
  <2>1. /\ \A j \in 1..n :
             /\ pieces[j].elem \in Nat /\ pieces[j].right \in Nat /\ pieces[j].left \in Nat
             /\ pieces[j].right <= 10 /\ 10 * pieces[j].elem + pieces[j].right = from + pieces[j].left
        /\ n \in 1..2 /\ Len(pieces) = n /\ from \in Nat /\ pieces[1].left = 0
        /\ n = 1 => pieces[1].right <= 2
        /\ n = 2 => pieces[2].left + pieces[1].right = 10 /\ pieces[2].left <= 8 /\ pieces[2].right = 0
    BY DEF ElemPiece
  <2>2. BytePaths10[r + 1] = pieces /\ from = 8 * r
    BY <1>1 DEF BytePaths10
  <2> HIDE DEF pieces, from, n
  <2>3. FromElemPieces(start, pieces) = Run(8, 10 * start + from, 8)
    BY <2>1, PiecesOfElems
  <2>4. QED  BY <2>2, <2>3
<1>2. CASE r = 1
  <2> DEFINE pieces == <<ElemPiece(0, 8, 0), ElemPiece(1, 0, 2)>>
             from   == 8
             n      == 2
  <2>1. /\ \A j \in 1..n :
             /\ pieces[j].elem \in Nat /\ pieces[j].right \in Nat /\ pieces[j].left \in Nat
             /\ pieces[j].right <= 10 /\ 10 * pieces[j].elem + pieces[j].right = from + pieces[j].left
        /\ n \in 1..2 /\ Len(pieces) = n /\ from \in Nat /\ pieces[1].left = 0
        /\ n = 1 => pieces[1].right <= 2
        /\ n = 2 => pieces[2].left + pieces[1].right = 10 /\ pieces[2].left <= 8 /\ pieces[2].right = 0
    BY DEF ElemPiece
  <2>2. BytePaths10[r + 1] = pieces /\ from = 8 * r
    BY <1>2 DEF BytePaths10
  <2> HIDE DEF pieces, from, n
  <2>3. FromElemPieces(start, pieces) = Run(8, 10 * start + from, 8)
    BY <2>1, PiecesOfElems
  <2>4. QED  BY <2>2, <2>3
<1>3. CASE r = 2
  <2> DEFINE pieces == <<ElemPiece(1, 6, 0), ElemPiece(2, 0, 4)>>
             from   == 16
             n      == 2
  <2>1. /\ \A j \in 1..n :
             /\ pieces[j].elem \in Nat /\ pieces[j].right \in Nat /\ pieces[j].left \in Nat
             /\ pieces[j].right <= 10 /\ 10 * pieces[j].elem + pieces[j].right = from + pieces[j].left
        /\ n \in 1..2 /\ Len(pieces) = n /\ from \in Nat /\ pieces[1].left = 0
        /\ n = 1 => pieces[1].right <= 2
        /\ n = 2 => pieces[2].left + pieces[1].right = 10 /\ pieces[2].left <= 8 /\ pieces[2].right = 0
    BY DEF ElemPiece
  <2>2. BytePaths10[r + 1] = pieces /\ from = 8 * r
    BY <1>3 DEF BytePaths10
  <2> HIDE DEF pieces, from, n
  <2>3. FromElemPieces(start, pieces) = Run(8, 10 * start + from, 8)
    BY <2>1, PiecesOfElems
  <2>4. QED  BY <2>2, <2>3
<1>4. CASE r = 3
  <2> DEFINE pieces == <<ElemPiece(2, 4, 0), ElemPiece(3, 0, 6)>>
             from   == 24
             n      == 2
  <2>1. /\ \A j \in 1..n :
             /\ pieces[j].elem \in Nat /\ pieces[j].right \in Nat /\ pieces[j].left \in Nat
             /\ pieces[j].right <= 10 /\ 10 * pieces[j].elem + pieces[j].right = from + pieces[j].left
        /\ n \in 1..2 /\ Len(pieces) = n /\ from \in Nat /\ pieces[1].left = 0
        /\ n = 1 => pieces[1].right <= 2
        /\ n = 2 => pieces[2].left + pieces[1].right = 10 /\ pieces[2].left <= 8 /\ pieces[2].right = 0
    BY DEF ElemPiece
  <2>2. BytePaths10[r + 1] = pieces /\ from = 8 * r
    BY <1>4 DEF BytePaths10
  <2> HIDE DEF pieces, from, n
  <2>3. FromElemPieces(start, pieces) = Run(8, 10 * start + from, 8)
    BY <2>1, PiecesOfElems
  <2>4. QED  BY <2>2, <2>3
<1>5. CASE r = 4
  <2> DEFINE pieces == <<ElemPiece(3, 2, 0)>>
             from   == 32
             n      == 1
  <2>1. /\ \A j \in 1..n :
             /\ pieces[j].elem \in Nat /\ pieces[j].right \in Nat /\ pieces[j].left \in Nat
             /\ pieces[j].right <= 10 /\ 10 * pieces[j].elem + pieces[j].right = from + pieces[j].left
        /\ n \in 1..2 /\ Len(pieces) = n /\ from \in Nat /\ pieces[1].left = 0
        /\ n = 1 => pieces[1].right <= 2
        /\ n = 2 => pieces[2].left + pieces[1].right = 10 /\ pieces[2].left <= 8 /\ pieces[2].right = 0
    BY DEF ElemPiece
  <2>2. BytePaths10[r + 1] = pieces /\ from = 8 * r
    BY <1>5 DEF BytePaths10
  <2> HIDE DEF pieces, from, n
  <2>3. FromElemPieces(start, pieces) = Run(8, 10 * start + from, 8)
    BY <2>1, PiecesOfElems
  <2>4. QED  BY <2>2, <2>3
<1>6. QED  BY <1>1, <1>2, <1>3, <1>4, <1>5

\* Both the loop and the unrolled path give the byte's own bits.
LEMMA SerializedInv == PackIInv => SerializedAgree
<1> SUFFICES ASSUME PackIInv, NEW b \in 0..(byte_pos - 1), width = 10
             PROVE  Unrolled10(b) = out_buf[b]
  BY DEF SerializedAgree, Serialized
<1>1. out_buf[b] = Run(8, 8 * b, 8)
  BY DEF PackIInv, PackLayout
<1> DEFINE g == b \div 5
           r == b % 5
<1>2. b \in Nat
  BY Ranges
<1>3. b = 5 * g + r /\ r \in 0..4 /\ g \in Nat /\ 4 * g \in Nat
  BY <1>2
<1>4. Unrolled10(b) = FromElemPieces(4 * g, BytePaths10[r + 1])
  BY DEF Unrolled10
<1> HIDE DEF g, r
<1>5. 10 * (4 * g) + 8 * r = 8 * b
  BY <1>2, <1>3
<1>6. FromElemPieces(4 * g, BytePaths10[r + 1]) = Run(8, 10 * (4 * g) + 8 * r, 8)
  BY <1>3, BytePaths10Is
<1>7. QED  BY <1>1, <1>4, <1>5, <1>6

\* The unrolled path for 10 bits writes what the generic loop writes, for any
\* number of elements (SerializedAgree).
THEOREM SerializedAgreeHolds == PackSpec => []SerializedAgree
BY PackInvariance, SerializedInv, PTL
-----------------------------------------------------------------------------
\* The vector deserializers.

\* The bytes of the group, counted from the first element of the stream.
LEMMA GroupBound ==
  ASSUME width \in Widths
  PROVE  /\ width \in 1..13 /\ N \in Nat /\ Groups \in Nat /\ N = 8 * Groups /\ Groups % 2 = 0
         /\ NumBytes(width) = Groups * width /\ Groups * width \in Nat
         /\ \A g \in 0..(Groups - 1) : g * width \in Nat /\ g * width + width <= NumBytes(width)
<1>1. width \in 1..13 /\ N \in Nat /\ N % 16 = 0
  BY WidthAssumption, VectorAssumption
<1>2. Groups \in Nat /\ N = 8 * Groups /\ Groups % 2 = 0
  BY <1>1, SMT DEF Groups
<1> HIDE DEF Groups
<1>3. \A x, y \in Nat : x * y \in Nat
  BY SMT
<1>4. NumBytes(width) = Groups * width /\ Groups * width \in Nat
  <2> DEFINE gw == Groups * width
  <2>1. gw \in Nat
    BY <1>1, <1>2, <1>3
  <2>2. width * N = 8 * gw
    BY <1>1, <1>2, SMT
  <2> HIDE DEF gw
  <2>3. (8 * gw) \div 8 = gw
    BY <2>1, SMT
  <2>4. NumBytes(width) = gw
    BY <2>2, <2>3 DEF NumBytes
  <2>5. QED  BY <2>1, <2>4 DEF gw
<1>5. ASSUME NEW g \in 0..(Groups - 1)
      PROVE  g * width \in Nat /\ g * width + width <= NumBytes(width)
  <2> DEFINE d == Groups - (g + 1)
  <2>1. d \in Nat /\ g \in Nat /\ Groups = d + g + 1
    BY <1>2
  <2> HIDE DEF d
  <2>2. g * width \in Nat /\ d * width \in Nat
    BY <1>1, <1>3, <2>1
  <2>3. Groups * width = d * width + (g * width + width)
    BY <1>1, <2>1, SMT
  <2> DEFINE gw == g * width
             dw == d * width
             e == Groups * width
  <2>4. gw \in Nat /\ dw \in Nat /\ e = dw + (gw + width)
    BY <2>2, <2>3
  <2> HIDE DEF gw, dw, e
  <2>5. gw + width <= e
    BY <1>1, <2>4
  <2>6. QED  BY <1>4, <2>2, <2>5 DEF gw, e
<1>6. QED  BY <1>1, <1>2, <1>4, <1>5

\* The groups loaded from the copy are those with fewer than sixteen bytes left.
LEMMA TailIs ==
  ASSUME width \in Widths
  PROVE  /\ TailGroups(width) \in 1..15
         /\ TailGroups(width) * width <= 15 /\ TailGroups(width) * width + width >= 16
<1>1. width \in 1..13
  BY WidthAssumption
<1>2. \/ width = 1 \/ width = 2 \/ width = 3 \/ width = 4 \/ width = 5 \/ width = 6
      \/ width = 7 \/ width = 8 \/ width = 9 \/ width = 10 \/ width = 11 \/ width = 12 \/ width = 13
  BY <1>1
<1>3. QED  BY <1>2, SMT DEF TailGroups

\* In terms of one group's offset.
LEMMA GroupOffset ==
  ASSUME width \in Widths, NEW g \in 0..(Groups - 1)
  PROVE  /\ TailStart(width) \in Int /\ g * width \in Nat
         /\ NumBytes(width) \in Nat
         /\ NumBytes(width) - TailStart(width) \in 1..15
         /\ g * width + width <= NumBytes(width)
         /\ g < HeadGroups(width) => g * width + 16 <= NumBytes(width)
         /\ g >= HeadGroups(width) =>
              /\ g * width >= TailStart(width)
              /\ g * width - TailStart(width) + 15 <= 29
              /\ NumBytes(width) < g * width + 16
<1> DEFINE t == TailGroups(width)
           h == HeadGroups(width)
           e == NumBytes(width)
           o == g * width
           ht == h * width
           tw == t * width
<1>1. width \in 1..13 /\ width \in Int /\ Groups \in Nat /\ e = Groups * width /\ e \in Nat
      /\ o \in Nat /\ o + width <= e
  BY GroupBound
<1>2. t \in 1..15 /\ tw <= 15 /\ tw + width >= 16
  BY TailIs
<1>3. h = Groups - t /\ TailStart(width) = ht
  BY DEF HeadGroups, TailStart
<1> HIDE DEF t, h, e
<1>4. ht = e - tw /\ tw \in Int /\ ht \in Int
  <2>1. (Groups - t) * width = Groups * width - t * width
    BY <1>1, <1>2, SMT
  <2>2. tw \in Int
    BY <1>1, <1>2
  <2> HIDE DEF tw
  <2>3. ht = e - tw
    BY <1>1, <1>3, <2>1 DEF tw
  <2>4. QED  BY <1>1, <2>2, <2>3
<1>5. h \in Int /\ g \in Int
  BY <1>1, <1>2, <1>3
<1>6. ASSUME g < h PROVE o + 16 <= e
  <2> DEFINE d == h - (g + 1)
             dw == d * width
  <2>1. d \in Nat /\ Groups = d + g + 1 + t
    BY <1>1, <1>2, <1>3, <1>5, <1>6
  <2> HIDE DEF d
  <2>2. Groups * width = d * width + g * width + width + t * width
    BY <1>1, <1>2, <1>5, <2>1, SMT
  <2>3. dw \in Nat
    <3>1. \A x, y \in Nat : x * y \in Nat
      BY SMT
    <3>2. width \in Nat
      BY <1>1
    <3>3. QED  BY <2>1, <3>1, <3>2
  <2>4. e = dw + o + width + tw
    BY <1>1, <2>2
  <2> HIDE DEF dw, o, tw
  <2>5. QED  BY <1>1, <1>2, <1>4, <2>3, <2>4
<1>7. ASSUME g >= h PROVE o >= ht /\ e < o + 16
  <2> DEFINE d == g - h
             dw == d * width
  <2>1. d \in Nat /\ g = d + h
    BY <1>5, <1>7
  <2> HIDE DEF d
  <2>2. g * width = d * width + h * width
    BY <1>1, <1>5, <2>1, SMT
  <2>3. dw \in Nat
    <3>1. \A x, y \in Nat : x * y \in Nat
      BY SMT
    <3>2. width \in Nat
      BY <1>1
    <3>3. QED  BY <2>1, <3>1, <3>2
  <2>4. o = dw + ht
    BY <2>2
  <2> HIDE DEF dw, o, ht, tw
  <2>5. QED  BY <1>1, <1>2, <1>4, <2>3, <2>4
<1>8. tw \in 1..15
  <2> HIDE DEF tw
  <2>1. QED  BY <1>1, <1>2, <1>4
<1> HIDE DEF o, ht, tw
<1>9. /\ ht \in Int /\ o \in Nat /\ e \in Nat /\ e - ht \in 1..15 /\ o + width <= e
      /\ g < h => o + 16 <= e
      /\ g >= h => o >= ht /\ o - ht + 15 <= 29 /\ e < o + 16
  BY <1>1, <1>2, <1>4, <1>6, <1>7, <1>8
<1>10. QED  BY <1>3, <1>9 DEF h, o, ht, e

\* However it is loaded, a group starts with its own bytes.
LEMMA LoadGroupIs ==
  ASSUME width \in Widths, Copied, NEW g \in 0..(Groups - 1), NEW i \in 0..15, i < width,
         NEW q \in 0..7
  PROVE  LoadGroup(g)[i][q] = 8 * (g * width + i) + q
<1> DEFINE o == g * width
           s == TailStart(width)
           e == NumBytes(width)
<1>1. /\ s \in Int /\ o \in Nat /\ e \in Nat /\ e - s \in 1..15 /\ o + width <= e
      /\ g >= HeadGroups(width) => o >= s /\ o - s + 15 <= 29
  BY GroupOffset
<1>2. width \in 1..13
  BY WidthAssumption
<1>3. Byte(o + i)[q] = 8 * (o + i) + q
  <2> HIDE DEF o, s
  <2>1. o + i \in 0..(e - 1)
    BY <1>1, <1>2
  <2>2. QED  BY <2>1 DEF Byte
<1>4. CASE g < HeadGroups(width)
  <2>1. LoadGroup(g) = [j \in 0..15 |-> Byte(g * width + j)]
    BY <1>4, Zenon DEF LoadGroup
  <2>2. LoadGroup(g)[i] = Byte(o + i)
    BY <2>1
  <2>3. QED  BY <1>3, <2>2
<1>5. CASE ~(g < HeadGroups(width))
  <2>1. LoadGroup(g) = [j \in 0..15 |-> tail[g * width - TailStart(width) + j]]
    BY <1>5, Zenon DEF LoadGroup
  <2>2. LoadGroup(g)[i] = tail[o - s + i]
    BY <2>1
  <2>3. HeadGroups(width) \in Int
    BY TailIs, GroupBound DEF HeadGroups
  <2>4. o >= s /\ o - s + 15 <= 29
    BY <1>1, <1>5, <2>3
  <2> HIDE DEF o, s, e
  <2>5. o - s + i \in 0..31 /\ o - s + i < e - s /\ s + (o - s + i) = o + i
    BY <1>1, <1>2, <2>4
  <2>6. tail[o - s + i] = Byte(s + (o - s + i))
    BY <2>5 DEF Copied, s, e
  <2>7. QED  BY <1>3, <2>2, <2>5, <2>6 DEF o
<1>6. QED  BY <1>4, <1>5

\* A shuffled, shifted and masked lane is the element's bits of the stream.
LEMMA WideElementIs ==
  ASSUME width \in Widths, Copied, backend \in {"avx2", "neon"},
         NEW g \in 0..(Groups - 1), NEW k \in 0..7
  PROVE  WideElement(g, k) = Run(32, (8 * g + k) * width, width)
<1> DEFINE raw == LoadGroup(g)
           x == Window(raw, k)
           m == g * width
           t == k * width
           o == t \div 8
           s == t % 8
           from == (8 * g + k) * width
<1>1. width \in 1..13 /\ m \in Nat
  BY GroupBound
<1>2. t \in Nat /\ t <= 7 * width
  <2>1. \/ k = 0 \/ k = 1 \/ k = 2 \/ k = 3 \/ k = 4 \/ k = 5 \/ k = 6 \/ k = 7
    OBVIOUS
  <2>2. QED  BY <1>1, <2>1
<1>3. from = 8 * m + t
  BY <1>1, SMT
<1>4. PlanShift(width)[k] = s
  BY Zenon DEF PlanShift
<1>5. \A j \in 0..3 : PlanShuffle(width)[4 * k + j] = o + j
  <2>1. ASSUME NEW j \in 0..3 PROVE 4 * k + j \in 0..31 /\ (4 * k + j) \div 4 = k /\ (4 * k + j) % 4 = j
    BY SMT
  <2>2. ASSUME NEW j \in 0..3 PROVE PlanShuffle(width)[4 * k + j] = Offset(width, (4 * k + j) \div 4) + ((4 * k + j) % 4)
    BY <2>1, Zenon DEF PlanShuffle
  <2>3. QED  BY <2>1, <2>2 DEF Offset
<1>6. \A i \in 0..15 : \A q \in 0..7 : i < width => raw[i][q] = 8 * (m + i) + q
  BY LoadGroupIs
<1> HIDE DEF raw, m, t, from
<1>7. o \in Nat /\ s \in 0..7 /\ t = 8 * o + s
  BY <1>2, SMT
<1> HIDE DEF o, s
<1>8. ASSUME NEW p \in 0..(width - 1)
      PROVE  s + p \in 0..31 /\ x[s + p] = from + p
  <2> DEFINE j == (s + p) \div 8
             r == (s + p) % 8
  <2>1. s + p \in 0..31 /\ j \in 0..3 /\ r \in 0..7 /\ s + p = 8 * j + r
    BY <1>1, <1>7, SMT
  <2>2. x[s + p] = Select(raw, PlanShuffle(width)[4 * k + j])[r]
    BY <2>1, Zenon DEF Window
  <2> HIDE DEF j, r
  <2>3. o + j \in 0..15 /\ o + j < width
    BY <1>1, <1>2, <1>7, <2>1
  <2>4. Select(raw, o + j) = raw[o + j]
    BY <2>3 DEF Select
  <2>5. x[s + p] = raw[o + j][r]
    BY <1>5, <2>1, <2>2, <2>4
  <2>6. raw[o + j][r] = 8 * (m + (o + j)) + r
    BY <1>6, <2>1, <2>3
  <2>7. 8 * (m + (o + j)) + r = from + p
    BY <1>1, <1>3, <1>7, <2>1
  <2>8. QED  BY <2>1, <2>5, <2>6, <2>7
<1>9. DOMAIN x = 0..31
  BY DEF Window
<1>10. WideElement(g, k) = Low(ShiftRight(32, x, s), width)
  BY <1>4, Zenon DEF WideElement, raw, x
<1> HIDE DEF x
<1>11. ShiftRight(32, x, s) = [p \in 0..31 |-> IF p + s \in DOMAIN x THEN x[p + s] ELSE Zero]
  BY DEF ShiftRight
<1>12. \A p \in 0..(width - 1) : ShiftRight(32, x, s)[p] = from + p
  <2> SUFFICES ASSUME NEW p \in 0..(width - 1) PROVE ShiftRight(32, x, s)[p] = from + p
    OBVIOUS
  <2>1. p \in 0..31 /\ p + s = s + p
    BY <1>1, <1>7
  <2>2. QED  BY <1>8, <1>9, <1>11, <2>1
<1>13. Low(ShiftRight(32, x, s), width) = [p \in 0..31 |-> IF p < width THEN ShiftRight(32, x, s)[p] ELSE Zero]
  BY <1>11 DEF Low
<1>14. \A p \in 0..31 : p < width => p \in 0..(width - 1)
  BY <1>1
<1>15. Low(ShiftRight(32, x, s), width) = Run(32, from, width)
  BY <1>12, <1>13, <1>14 DEF Run
<1>16. QED  BY <1>10, <1>15 DEF from

\* Narrowing loses nothing of an element.
LEMMA NarrowIs ==
  ASSUME NEW f, NEW n \in 1..13
  PROVE  Narrow(Run(32, f, n)) = Run(16, f, n)
<1> DEFINE x == Run(32, f, n)
<1>1. DOMAIN x = 0..31 /\ \A p \in 0..31 : x[p] = IF p < n THEN f + p ELSE Zero
  BY DEF Run
<1> HIDE DEF x
<1>2. ~ \E p \in 16..31 : x[p] # Zero
  BY <1>1
<1>3. Narrow(x) = ShiftRight(16, x, 0)
  BY <1>2, Zenon DEF Narrow
<1>4. \A p \in 0..15 : p + 0 = p /\ p \in 0..31
  OBVIOUS
<1>5. ShiftRight(16, x, 0) = [p \in 0..15 |-> x[p]]
  BY <1>1, <1>4 DEF ShiftRight
<1>6. QED  BY <1>1, <1>3, <1>4, <1>5 DEF Run, x

\* vpackusdw and the permutation together keep the two groups' order.
LEMMA PermutedIs ==
  ASSUME NEW a, NEW b
  PROVE  /\ DOMAIN Permute4x64(Selectors, Packed(a, b)) = 0..15
         /\ \A i \in 0..7 : Permute4x64(Selectors, Packed(a, b))[i] = Narrow(a[i])
         /\ \A i \in 8..15 : Permute4x64(Selectors, Packed(a, b))[i] = Narrow(b[i - 8])
<1> DEFINE v == Packed(a, b)
<1>1. /\ v[0] = Narrow(a[0]) /\ v[1] = Narrow(a[1]) /\ v[2] = Narrow(a[2]) /\ v[3] = Narrow(a[3])
      /\ v[4] = Narrow(b[0]) /\ v[5] = Narrow(b[1]) /\ v[6] = Narrow(b[2]) /\ v[7] = Narrow(b[3])
      /\ v[8] = Narrow(a[4]) /\ v[9] = Narrow(a[5]) /\ v[10] = Narrow(a[6]) /\ v[11] = Narrow(a[7])
      /\ v[12] = Narrow(b[4]) /\ v[13] = Narrow(b[5]) /\ v[14] = Narrow(b[6]) /\ v[15] = Narrow(b[7])
  BY DEF Packed
<1> HIDE DEF v
<1> DEFINE u == Permute4x64(Selectors, v)
<1>2. DOMAIN u = 0..15
  BY DEF Permute4x64
<1>3. /\ u[0] = v[0] /\ u[1] = v[1] /\ u[2] = v[2] /\ u[3] = v[3]
      /\ u[4] = v[8] /\ u[5] = v[9] /\ u[6] = v[10] /\ u[7] = v[11]
      /\ u[8] = v[4] /\ u[9] = v[5] /\ u[10] = v[6] /\ u[11] = v[7]
      /\ u[12] = v[12] /\ u[13] = v[13] /\ u[14] = v[14] /\ u[15] = v[15]
  BY DEF Permute4x64, Selectors
<1> HIDE DEF u
<1>4. ASSUME NEW i \in 0..7 PROVE u[i] = Narrow(a[i])
  <2>1. i = 0 \/ i = 1 \/ i = 2 \/ i = 3 \/ i = 4 \/ i = 5 \/ i = 6 \/ i = 7
    OBVIOUS
  <2>2. QED  BY <1>1, <1>3, <2>1
<1>5. ASSUME NEW i \in 8..15 PROVE u[i] = Narrow(b[i - 8])
  <2>1. i = 8 \/ i = 9 \/ i = 10 \/ i = 11 \/ i = 12 \/ i = 13 \/ i = 14 \/ i = 15
    OBVIOUS
  <2>2. QED  BY <1>1, <1>3, <2>1
<1>6. QED  BY <1>2, <1>4, <1>5 DEF u, v
-----------------------------------------------------------------------------
\* The samplers' arithmetic: the bits of a word, and how they are counted.

\* The bits of a word.
LEMMA BitRange ==
  ASSUME NEW x \in Int, NEW k \in 0..15
  PROVE  BitOf(x, k) \in 0..1
BY SMT DEF BitOf

\* Their weights.
LEMMA BitsAre ==
  ASSUME NEW x \in Int
  PROVE  /\ BitOf(x, 0) = x % 2 /\ BitOf(x, 1) = (x \div 2) % 2
         /\ BitOf(x, 2) = (x \div 4) % 2 /\ BitOf(x, 3) = (x \div 8) % 2
         /\ BitOf(x, 4) = (x \div 16) % 2 /\ BitOf(x, 5) = (x \div 32) % 2
         /\ BitOf(x, 6) = (x \div 64) % 2 /\ BitOf(x, 7) = (x \div 128) % 2
         /\ BitOf(x, 8) = (x \div 256) % 2 /\ BitOf(x, 9) = (x \div 512) % 2
         /\ BitOf(x, 10) = (x \div 1024) % 2 /\ BitOf(x, 11) = (x \div 2048) % 2
         /\ BitOf(x, 12) = (x \div 4096) % 2 /\ BitOf(x, 13) = (x \div 8192) % 2
         /\ BitOf(x, 14) = (x \div 16384) % 2 /\ BitOf(x, 15) = (x \div 32768) % 2
BY SMT DEF BitOf

Shr(x, k) == x \div 2^k

\* A bit, by the quotient it is the parity of.
LEMMA ShrBit ==
  ASSUME NEW x, NEW k
  PROVE  BitOf(x, k) = Shr(x, k) % 2
BY Zenon DEF BitOf, Shr

\* A shift renames the bits.
LEMMA ShiftedBy1 ==
  ASSUME NEW x \in Nat
  PROVE  x \div 2 \in Nat /\ \A k \in 0..14 : BitOf(x \div 2, k) = BitOf(x, k + 1)
<1> DEFINE y == x \div 2
           r == x % 2
<1>1. y \in Nat /\ r \in 0..1 /\ x = 2 * y + r
  BY SMT
<1> HIDE DEF y, r
<1>2. /\ Shr(x, 1) = Shr(y, 0) /\ Shr(x, 2) = Shr(y, 1) /\ Shr(x, 3) = Shr(y, 2)
      /\ Shr(x, 4) = Shr(y, 3) /\ Shr(x, 5) = Shr(y, 4) /\ Shr(x, 6) = Shr(y, 5)
      /\ Shr(x, 7) = Shr(y, 6) /\ Shr(x, 8) = Shr(y, 7) /\ Shr(x, 9) = Shr(y, 8)
      /\ Shr(x, 10) = Shr(y, 9) /\ Shr(x, 11) = Shr(y, 10) /\ Shr(x, 12) = Shr(y, 11)
      /\ Shr(x, 13) = Shr(y, 12) /\ Shr(x, 14) = Shr(y, 13) /\ Shr(x, 15) = Shr(y, 14)
  BY <1>1, SMT DEF Shr
<1>3. \A k \in 0..14 : Shr(x, k + 1) = Shr(y, k)
  BY <1>2
<1>4. \A k \in 0..14 : BitOf(y, k) = BitOf(x, k + 1)
  BY <1>3, ShrBit
<1>5. QED  BY <1>1, <1>4 DEF y

LEMMA ShiftedBy2 ==
  ASSUME NEW x \in Nat
  PROVE  x \div 4 \in Nat /\ \A k \in 0..13 : BitOf(x \div 4, k) = BitOf(x, k + 2)
<1> DEFINE y == x \div 2
<1>1. x \div 4 = y \div 2
  BY SMT
<1>2. y \in Nat /\ \A k \in 0..14 : BitOf(y, k) = BitOf(x, k + 1)
  BY ShiftedBy1
<1> HIDE DEF y
<1>3. y \div 2 \in Nat /\ \A k \in 0..14 : BitOf(y \div 2, k) = BitOf(y, k + 1)
  BY <1>2, ShiftedBy1
<1>4. QED  BY <1>1, <1>2, <1>3

LEMMA ShiftedBy3 ==
  ASSUME NEW x \in Nat
  PROVE  x \div 8 \in Nat /\ \A k \in 0..12 : BitOf(x \div 8, k) = BitOf(x, k + 3)
<1> DEFINE y == x \div 4
<1>1. x \div 8 = y \div 2
  BY SMT
<1>2. y \in Nat /\ \A k \in 0..13 : BitOf(y, k) = BitOf(x, k + 2)
  BY ShiftedBy2
<1> HIDE DEF y
<1>3. y \div 2 \in Nat /\ \A k \in 0..14 : BitOf(y \div 2, k) = BitOf(y, k + 1)
  BY <1>2, ShiftedBy1
<1>4. QED  BY <1>1, <1>2, <1>3

LEMMA ShiftedBy4 ==
  ASSUME NEW x \in Nat
  PROVE  x \div 16 \in Nat /\ \A k \in 0..11 : BitOf(x \div 16, k) = BitOf(x, k + 4)
<1> DEFINE y == x \div 4
<1>1. x \div 16 = y \div 4
  BY SMT
<1>2. y \in Nat /\ \A k \in 0..13 : BitOf(y, k) = BitOf(x, k + 2)
  BY ShiftedBy2
<1> HIDE DEF y
<1>3. y \div 4 \in Nat /\ \A k \in 0..13 : BitOf(y \div 4, k) = BitOf(y, k + 2)
  BY <1>2, ShiftedBy2
<1>4. QED  BY <1>1, <1>2, <1>3

LEMMA ShiftedBy5 ==
  ASSUME NEW x \in Nat
  PROVE  x \div 32 \in Nat /\ \A k \in 0..10 : BitOf(x \div 32, k) = BitOf(x, k + 5)
<1> DEFINE y == x \div 16
<1>1. x \div 32 = y \div 2
  BY SMT
<1>2. y \in Nat /\ \A k \in 0..11 : BitOf(y, k) = BitOf(x, k + 4)
  BY ShiftedBy4
<1> HIDE DEF y
<1>3. y \div 2 \in Nat /\ \A k \in 0..14 : BitOf(y \div 2, k) = BitOf(y, k + 1)
  BY <1>2, ShiftedBy1
<1>4. QED  BY <1>1, <1>2, <1>3

LEMMA ShiftedBy6 ==
  ASSUME NEW x \in Nat
  PROVE  x \div 64 \in Nat /\ \A k \in 0..9 : BitOf(x \div 64, k) = BitOf(x, k + 6)
<1> DEFINE y == x \div 16
<1>1. x \div 64 = y \div 4
  BY SMT
<1>2. y \in Nat /\ \A k \in 0..11 : BitOf(y, k) = BitOf(x, k + 4)
  BY ShiftedBy4
<1> HIDE DEF y
<1>3. y \div 4 \in Nat /\ \A k \in 0..13 : BitOf(y \div 4, k) = BitOf(y, k + 2)
  BY <1>2, ShiftedBy2
<1>4. QED  BY <1>1, <1>2, <1>3

\* The masks of popcount_u8.
LEMMA And85 ==
  ASSUME NEW x \in Int
  PROVE  And(x, 85) = BitOf(x, 0) + 4 * BitOf(x, 2) + 16 * BitOf(x, 4) + 64 * BitOf(x, 6)
<1>1. /\ BitOf(85, 0) = 1 /\ BitOf(85, 1) = 0 /\ BitOf(85, 2) = 1 /\ BitOf(85, 3) = 0
      /\ BitOf(85, 4) = 1 /\ BitOf(85, 5) = 0 /\ BitOf(85, 6) = 1
      /\ \A k \in 7..15 : BitOf(85, k) = 0
  BY SMT DEF BitOf
<1>2. \A k \in 0..15 : BitOf(x, k) \in Int
  BY BitRange
<1>3. QED  BY <1>1, <1>2 DEF And, Number

LEMMA And51 ==
  ASSUME NEW x \in Int
  PROVE  And(x, 51) = (x % 4) + 16 * ((x \div 16) % 4)
<1>1. /\ BitOf(51, 0) = 1 /\ BitOf(51, 1) = 1 /\ BitOf(51, 2) = 0 /\ BitOf(51, 3) = 0
      /\ BitOf(51, 4) = 1 /\ BitOf(51, 5) = 1
      /\ \A k \in 6..15 : BitOf(51, k) = 0
  BY SMT DEF BitOf
<1>2. \A k \in 0..15 : BitOf(x, k) \in Int
  BY BitRange
<1>3. And(x, 51) = BitOf(x, 0) + 2 * BitOf(x, 1) + 16 * BitOf(x, 4) + 32 * BitOf(x, 5)
  BY <1>1, <1>2 DEF And, Number
<1>4. x % 4 = BitOf(x, 0) + 2 * BitOf(x, 1) /\ (x \div 16) % 4 = BitOf(x, 4) + 2 * BitOf(x, 5)
  BY SMT DEF BitOf
<1>5. QED  BY <1>2, <1>3, <1>4

\* The masks of low bits.
LEMMA AndLow ==
  ASSUME NEW x \in Int
  PROVE  And(x, 7) = x % 8 /\ And(x, 15) = x % 16 /\ And(x, 31) = x % 32
<1>1. /\ \A k \in 0..2 : BitOf(7, k) = 1
      /\ \A k \in 3..15 : BitOf(7, k) = 0
      /\ \A k \in 0..3 : BitOf(15, k) = 1
      /\ \A k \in 4..15 : BitOf(15, k) = 0
      /\ \A k \in 0..4 : BitOf(31, k) = 1
      /\ \A k \in 5..15 : BitOf(31, k) = 0
  BY SMT DEF BitOf
<1>2. \A k \in 0..15 : BitOf(x, k) \in Int
  BY BitRange
<1>3. And(x, 7) = BitOf(x, 0) + 2 * BitOf(x, 1) + 4 * BitOf(x, 2)
  BY <1>1, <1>2 DEF And, Number
<1>4. And(x, 15) = BitOf(x, 0) + 2 * BitOf(x, 1) + 4 * BitOf(x, 2) + 8 * BitOf(x, 3)
  BY <1>1, <1>2 DEF And, Number
<1>5. And(x, 31) = BitOf(x, 0) + 2 * BitOf(x, 1) + 4 * BitOf(x, 2) + 8 * BitOf(x, 3) + 16 * BitOf(x, 4)
  BY <1>1, <1>2 DEF And, Number
<1>6. /\ x % 8 = BitOf(x, 0) + 2 * BitOf(x, 1) + 4 * BitOf(x, 2)
      /\ x % 16 = BitOf(x, 0) + 2 * BitOf(x, 1) + 4 * BitOf(x, 2) + 8 * BitOf(x, 3)
      /\ x % 32 = BitOf(x, 0) + 2 * BitOf(x, 1) + 4 * BitOf(x, 2) + 8 * BitOf(x, 3) + 16 * BitOf(x, 4)
  BY SMT DEF BitOf
<1>7. QED  BY <1>3, <1>4, <1>5, <1>6

\* The number of ones in a byte.
LEMMA PopcountU8Is ==
  ASSUME NEW x \in 0..255
  PROVE  PopcountU8(x) = BitOf(x, 0) + BitOf(x, 1) + BitOf(x, 2) + BitOf(x, 3)
                         + BitOf(x, 4) + BitOf(x, 5) + BitOf(x, 6) + BitOf(x, 7)
<1> DEFINE b == [k \in 0..7 |-> BitOf(x, k)]
           pairs   == And(x, 85) + And(x \div 2, 85)
           nibbles == And(pairs, 51) + And(pairs \div 4, 51)
<1>1. \A k \in 0..7 : b[k] \in 0..1 /\ b[k] = BitOf(x, k)
  BY BitRange
<1>2. And(x, 85) = b[0] + 4 * b[2] + 16 * b[4] + 64 * b[6]
  BY And85
<1>3. And(x \div 2, 85) = b[1] + 4 * b[3] + 16 * b[5] + 64 * b[7]
  <2>1. x \div 2 \in Int /\ x \in Nat
    BY SMT
  <2>2. QED  BY <2>1, And85, ShiftedBy1
<1> HIDE DEF b
<1> DEFINE s0 == b[0] + b[1]
           s1 == b[2] + b[3]
           s2 == b[4] + b[5]
           s3 == b[6] + b[7]
<1>4. s0 \in 0..2 /\ s1 \in 0..2 /\ s2 \in 0..2 /\ s3 \in 0..2
  BY <1>1
<1>5. pairs = s0 + 4 * s1 + 16 * s2 + 64 * s3
  BY <1>1, <1>2, <1>3
<1> HIDE DEF s0, s1, s2, s3, pairs
<1>6. /\ pairs \in Int /\ pairs \div 4 \in Int
      /\ pairs % 4 = s0 /\ (pairs \div 16) % 4 = s2
      /\ (pairs \div 4) % 4 = s1 /\ ((pairs \div 4) \div 16) % 4 = s3
  BY <1>4, <1>5
<1>7. And(pairs, 51) = s0 + 16 * s2 /\ And(pairs \div 4, 51) = s1 + 16 * s3
  BY <1>6, And51
<1>8. nibbles = (s0 + s1) + 16 * (s2 + s3)
  BY <1>4, <1>7
<1> HIDE DEF nibbles
<1>9. nibbles \in Int /\ nibbles % 16 = s0 + s1 /\ nibbles \div 16 = s2 + s3
  BY <1>4, <1>8
<1>10. And(nibbles, 15) + (nibbles \div 16) = s0 + s1 + s2 + s3
  <2>1. And(nibbles, 15) = s0 + s1
    BY <1>9, AndLow
  <2>2. QED  BY <1>4, <1>9, <2>1
<1>11. PopcountU8(x) = And(nibbles, 15) + (nibbles \div 16)
  BY Zenon DEF PopcountU8, nibbles, pairs
<1>12. QED  BY <1>1, <1>10, <1>11 DEF s0, s1, s2, s3

\* The five lowest bits of a word, counted.
Five(x) == BitOf(x, 0) + BitOf(x, 1) + BitOf(x, 2) + BitOf(x, 3) + BitOf(x, 4)

\* A word below 32 has five bits, which is all the popcounts have to count.
LEMMA SmallWord ==
  ASSUME NEW x \in 0..31
  PROVE  BitOf(x, 5) = 0 /\ BitOf(x, 6) = 0 /\ BitOf(x, 7) = 0
BY SMT DEF BitOf

\* popcount_u8 and popcount_u16 on such a word.
LEMMA PopcountU8Small ==
  ASSUME NEW x \in 0..31
  PROVE  PopcountU8(x) = Five(x)
<1>1. x \in 0..255 /\ x \in Int
  OBVIOUS
<1>2. \A k \in 0..15 : BitOf(x, k) \in Int
  BY <1>1, BitRange
<1>3. PopcountU8(x) = BitOf(x, 0) + BitOf(x, 1) + BitOf(x, 2) + BitOf(x, 3)
                         + BitOf(x, 4) + BitOf(x, 5) + BitOf(x, 6) + BitOf(x, 7)
  BY <1>1, PopcountU8Is
<1>4. BitOf(x, 5) = 0 /\ BitOf(x, 6) = 0 /\ BitOf(x, 7) = 0
  BY SmallWord
<1>5. QED  BY <1>2, <1>3, <1>4 DEF Five

LEMMA PopcountU16Small ==
  ASSUME NEW x \in 0..31
  PROVE  PopcountU16(x) = Five(x)
<1>1. x % 256 = x /\ (x \div 256) % 256 = 0
  BY SMT
<1>2. PopcountU16(x) = PopcountU8(x) + PopcountU8(0)
  BY <1>1, Zenon DEF PopcountU16
<1>3. BitOf(0, 0) = 0 /\ BitOf(0, 1) = 0 /\ BitOf(0, 2) = 0 /\ BitOf(0, 3) = 0 /\ BitOf(0, 4) = 0
  BY BitsAre
<1>4. Five(0) = 0
  BY <1>3 DEF Five
<1>5. PopcountU8(x) = Five(x) /\ PopcountU8(0) = Five(0)
  BY PopcountU8Small
<1>6. Five(x) \in Int
  BY BitRange DEF Five
<1>7. QED  BY <1>2, <1>4, <1>5, <1>6

\* AVX2's table has the number of ones of each nibble.
LEMMA PopcountAvx2Small ==
  ASSUME NEW x \in 0..31
  PROVE  PopcountSmallAvx2(x) = Five(x)
<1> DEFINE n == x % 16
           h == x \div 16
<1>1. n \in 0..15 /\ h \in 0..1 /\ x = 16 * h + n
  BY SMT
<1>2. NibblePopcount[n + 1] = BitOf(n, 0) + BitOf(n, 1) + BitOf(n, 2) + BitOf(n, 3)
  <2> HIDE DEF n
  <2>1. QED  BY <1>1 DEF NibblePopcount, BitOf
<1>3. /\ BitOf(x, 0) = BitOf(n, 0) /\ BitOf(x, 1) = BitOf(n, 1)
      /\ BitOf(x, 2) = BitOf(n, 2) /\ BitOf(x, 3) = BitOf(n, 3)
      /\ BitOf(x, 4) = h % 2
  <2> HIDE DEF n, h
  <2>1. QED  BY <1>1, SMT DEF BitOf
<1>4. PopcountSmallAvx2(x) = NibblePopcount[n + 1] + (h % 2)
  BY Zenon DEF PopcountSmallAvx2
<1>5. QED  BY <1>2, <1>3, <1>4 DEF Five

In(S, p) == IF p \in S THEN 1 ELSE 0
Count(S, a, b) == Cardinality(S \cap (a..b))

\* Counting the members of a set of places, one place after the other.
LEMMA CountNext ==
  ASSUME NEW S, NEW a \in Int, NEW b \in Int, b >= a - 1
  PROVE  Count(S, a, b + 1) = Count(S, a, b) + In(S, b + 1)
<1> DEFINE X == S \cap (a..b)
<1>1. IsFiniteSet(a..b)
  BY FS_Interval
<1>2. IsFiniteSet(X) /\ Cardinality(X) \in Nat
  BY <1>1, FS_Subset, FS_CardinalityType
<1>3. CASE b + 1 \in S
  <2>1. S \cap (a..(b + 1)) = X \cup {b + 1} /\ b + 1 \notin X
    BY <1>3
  <2> HIDE DEF X
  <2>2. Cardinality(X \cup {b + 1}) = Cardinality(X) + 1
    BY <1>2, <2>1, FS_AddElement
  <2>3. QED  BY <1>3, <2>1, <2>2 DEF X, Count, In
<1>4. CASE b + 1 \notin S
  <2>1. S \cap (a..(b + 1)) = X
    BY <1>4
  <2>2. QED  BY <1>2, <1>4, <2>1 DEF Count, In
<1>5. QED  BY <1>3, <1>4

\* No places, no members.
LEMMA CountNone ==
  ASSUME NEW S, NEW a \in Int
  PROVE  Count(S, a, a - 1) = 0
<1>1. S \cap (a..(a - 1)) = {}
  OBVIOUS
<1>2. QED  BY <1>1, FS_EmptySet DEF Count

\* The members among the three, four, five or eight places from a on.
LEMMA CountRun ==
  ASSUME NEW S, NEW a \in Int
  PROVE  /\ Count(S, a, a + 2) = In(S, a) + In(S, a + 1) + In(S, a + 2)
         /\ Count(S, a, a + 3) = In(S, a) + In(S, a + 1) + In(S, a + 2) + In(S, a + 3)
         /\ Count(S, a, a + 4)
              = In(S, a) + In(S, a + 1) + In(S, a + 2) + In(S, a + 3) + In(S, a + 4)
         /\ Count(S, a, a + 7)
              = In(S, a) + In(S, a + 1) + In(S, a + 2) + In(S, a + 3) + In(S, a + 4)
                + In(S, a + 5) + In(S, a + 6) + In(S, a + 7)
<1> DEFINE C(b) == Count(S, a, b)
<1>1. C(a - 1) = 0
  BY CountNone
<1>2. \A b \in Int : b >= a - 1 => C(b + 1) = C(b) + In(S, b + 1)
  BY CountNext
<1>3. \A p \in Int : In(S, p) \in Int
  BY DEF In
<1> HIDE DEF C
<1>4. /\ C(a) = C(a - 1) + In(S, a) /\ C(a + 1) = C(a) + In(S, a + 1)
      /\ C(a + 2) = C(a + 1) + In(S, a + 2) /\ C(a + 3) = C(a + 2) + In(S, a + 3)
      /\ C(a + 4) = C(a + 3) + In(S, a + 4) /\ C(a + 5) = C(a + 4) + In(S, a + 5)
      /\ C(a + 6) = C(a + 5) + In(S, a + 6) /\ C(a + 7) = C(a + 6) + In(S, a + 7)
  <2>1. /\ (a - 1) + 1 = a /\ (a + 1) + 1 = a + 2 /\ (a + 2) + 1 = a + 3 /\ (a + 3) + 1 = a + 4
        /\ (a + 4) + 1 = a + 5 /\ (a + 5) + 1 = a + 6 /\ (a + 6) + 1 = a + 7
    OBVIOUS
  <2>2. /\ C((a - 1) + 1) = C(a - 1) + In(S, (a - 1) + 1)
        /\ C(a + 1) = C(a) + In(S, a + 1)
        /\ C((a + 1) + 1) = C(a + 1) + In(S, (a + 1) + 1)
        /\ C((a + 2) + 1) = C(a + 2) + In(S, (a + 2) + 1)
        /\ C((a + 3) + 1) = C(a + 3) + In(S, (a + 3) + 1)
        /\ C((a + 4) + 1) = C(a + 4) + In(S, (a + 4) + 1)
        /\ C((a + 5) + 1) = C(a + 5) + In(S, (a + 5) + 1)
        /\ C((a + 6) + 1) = C(a + 6) + In(S, (a + 6) + 1)
    BY <1>2
  <2>3. QED  BY <2>1, <2>2
<1>5. /\ C(a + 2) = In(S, a) + In(S, a + 1) + In(S, a + 2)
      /\ C(a + 3) = In(S, a) + In(S, a + 1) + In(S, a + 2) + In(S, a + 3)
      /\ C(a + 4) = In(S, a) + In(S, a + 1) + In(S, a + 2) + In(S, a + 3) + In(S, a + 4)
      /\ C(a + 7) = In(S, a) + In(S, a + 1) + In(S, a + 2) + In(S, a + 3) + In(S, a + 4)
                    + In(S, a + 5) + In(S, a + 6) + In(S, a + 7)
  BY <1>1, <1>3, <1>4
<1>6. QED  BY <1>5 DEF C

OnesIn(byte) == Cardinality({b \in 0..7 : BitOf(byte, b) = 1})

\* NEON counts the ones of each byte; a small word has none in its high byte.
LEMMA OnesOfByte ==
  ASSUME NEW y \in 0..31
  PROVE  OnesIn(y) = Five(y)
<1> DEFINE S == {b \in Int : BitOf(y, b) = 1}
<1>1. {b \in 0..7 : BitOf(y, b) = 1} = S \cap (0..7)
  OBVIOUS
<1>2. \A b \in 0..7 : BitOf(y, b) \in 0..1 /\ In(S, b) = BitOf(y, b)
  BY BitRange DEF In
<1>3. BitOf(y, 5) = 0 /\ BitOf(y, 6) = 0 /\ BitOf(y, 7) = 0
  BY SmallWord
<1> HIDE DEF S
<1> DEFINE z == 0
<1>4. z \in Int /\ z = 0
  OBVIOUS
<1> HIDE DEF z
<1>5. Count(S, z, z + 7)
        = In(S, z) + In(S, z + 1) + In(S, z + 2) + In(S, z + 3) + In(S, z + 4)
          + In(S, z + 5) + In(S, z + 6) + In(S, z + 7)
  BY <1>4, CountRun
<1>6. QED  BY <1>1, <1>2, <1>3, <1>4, <1>5 DEF Five, Count, OnesIn

\* NEON's two byte counts, read back as one number.
LEMMA PopcountNeonSmall ==
  ASSUME NEW x \in 0..31
  PROVE  PopcountSmallNeon(x) = Five(x)
<1>1. x % 256 = x /\ x \div 256 = 0
  BY SMT
<1>2. OnesIn(x) = Five(x) /\ OnesIn(0) = Five(0)
  BY OnesOfByte
<1>3. BitOf(0, 0) = 0 /\ BitOf(0, 1) = 0 /\ BitOf(0, 2) = 0 /\ BitOf(0, 3) = 0 /\ BitOf(0, 4) = 0
  BY BitsAre
<1>4. Five(0) = 0
  BY <1>3 DEF Five
<1>5. PopcountSmallNeon(x) = OnesIn(x % 256) + 256 * OnesIn(x \div 256)
  BY Zenon DEF PopcountSmallNeon, OnesIn
<1>6. PopcountSmallNeon(x) = OnesIn(x) + 256 * OnesIn(0)
  BY <1>1, <1>5
<1>7. Five(x) \in Int
  BY BitRange DEF Five
<1>8. QED  BY <1>2, <1>4, <1>6, <1>7

\* The low bits of a word, in a word of their own.
LEMMA FiveLow ==
  ASSUME NEW x \in Nat
  PROVE  /\ x % 8 \in 0..31 /\ Five(x % 8) = BitOf(x, 0) + BitOf(x, 1) + BitOf(x, 2)
         /\ x % 16 \in 0..31
         /\ Five(x % 16) = BitOf(x, 0) + BitOf(x, 1) + BitOf(x, 2) + BitOf(x, 3)
         /\ x % 32 \in 0..31 /\ Five(x % 32) = Five(x)
<1>1. /\ BitOf(x % 8, 0) = BitOf(x, 0) /\ BitOf(x % 8, 1) = BitOf(x, 1)
      /\ BitOf(x % 8, 2) = BitOf(x, 2) /\ BitOf(x % 8, 3) = 0 /\ BitOf(x % 8, 4) = 0
  BY SMT DEF BitOf
<1>2. /\ BitOf(x % 16, 0) = BitOf(x, 0) /\ BitOf(x % 16, 1) = BitOf(x, 1)
      /\ BitOf(x % 16, 2) = BitOf(x, 2) /\ BitOf(x % 16, 3) = BitOf(x, 3)
      /\ BitOf(x % 16, 4) = 0
  BY SMT DEF BitOf
<1>3. /\ BitOf(x % 32, 0) = BitOf(x, 0) /\ BitOf(x % 32, 1) = BitOf(x, 1)
      /\ BitOf(x % 32, 2) = BitOf(x, 2) /\ BitOf(x % 32, 3) = BitOf(x, 3)
      /\ BitOf(x % 32, 4) = BitOf(x, 4)
  BY SMT DEF BitOf
<1>4. \A k \in 0..15 : BitOf(x, k) \in Int
  BY BitRange
<1>5. x % 8 \in 0..31 /\ x % 16 \in 0..31 /\ x % 32 \in 0..31
  BY SMT
<1>6. QED  BY <1>1, <1>2, <1>3, <1>4, <1>5 DEF Five

\* Two bytes side by side.

Wide(a, b) == a + 256 * b

\* The bits of a byte are the low or the high bits of the pair.
LEMMA PairBits ==
  ASSUME NEW a \in 0..255, NEW b \in 0..255
  PROVE  /\ \A k \in 0..7 : BitOf(Wide(a, b), k) = BitOf(a, k)
         /\ \A k \in 8..15 : BitOf(Wide(a, b), k) = BitOf(b, k - 8)
<1>1. /\ Shr(Wide(a, b), 0) % 2 = Shr(a, 0) % 2 /\ Shr(Wide(a, b), 1) % 2 = Shr(a, 1) % 2
      /\ Shr(Wide(a, b), 2) % 2 = Shr(a, 2) % 2 /\ Shr(Wide(a, b), 3) % 2 = Shr(a, 3) % 2
      /\ Shr(Wide(a, b), 4) % 2 = Shr(a, 4) % 2 /\ Shr(Wide(a, b), 5) % 2 = Shr(a, 5) % 2
      /\ Shr(Wide(a, b), 6) % 2 = Shr(a, 6) % 2 /\ Shr(Wide(a, b), 7) % 2 = Shr(a, 7) % 2
  BY SMT DEF Shr, Wide
<1>2. /\ Shr(Wide(a, b), 8) = Shr(b, 0) /\ Shr(Wide(a, b), 9) = Shr(b, 1)
      /\ Shr(Wide(a, b), 10) = Shr(b, 2) /\ Shr(Wide(a, b), 11) = Shr(b, 3)
      /\ Shr(Wide(a, b), 12) = Shr(b, 4) /\ Shr(Wide(a, b), 13) = Shr(b, 5)
      /\ Shr(Wide(a, b), 14) = Shr(b, 6) /\ Shr(Wide(a, b), 15) = Shr(b, 7)
  BY SMT DEF Shr, Wide
<1>3. /\ BitOf(Wide(a, b), 0) = BitOf(a, 0) /\ BitOf(Wide(a, b), 1) = BitOf(a, 1)
      /\ BitOf(Wide(a, b), 2) = BitOf(a, 2) /\ BitOf(Wide(a, b), 3) = BitOf(a, 3)
      /\ BitOf(Wide(a, b), 4) = BitOf(a, 4) /\ BitOf(Wide(a, b), 5) = BitOf(a, 5)
      /\ BitOf(Wide(a, b), 6) = BitOf(a, 6) /\ BitOf(Wide(a, b), 7) = BitOf(a, 7)
  BY <1>1, ShrBit
<1>4. /\ BitOf(Wide(a, b), 8) = BitOf(b, 0) /\ BitOf(Wide(a, b), 9) = BitOf(b, 1)
      /\ BitOf(Wide(a, b), 10) = BitOf(b, 2) /\ BitOf(Wide(a, b), 11) = BitOf(b, 3)
      /\ BitOf(Wide(a, b), 12) = BitOf(b, 4) /\ BitOf(Wide(a, b), 13) = BitOf(b, 5)
      /\ BitOf(Wide(a, b), 14) = BitOf(b, 6) /\ BitOf(Wide(a, b), 15) = BitOf(b, 7)
  BY <1>2, ShrBit
<1>5. \A k \in 0..7 : BitOf(Wide(a, b), k) = BitOf(a, k)
  BY <1>3
<1>6. \A k \in 8..15 : BitOf(Wide(a, b), k) = BitOf(b, k - 8)
  BY <1>4
<1>7. QED  BY <1>5, <1>6

\* A byte is the sum of its weighted bits, and has no others.
LEMMA ByteSum ==
  ASSUME NEW x \in 0..255
  PROVE  /\ x = BitOf(x, 0) + 2 * BitOf(x, 1) + 4 * BitOf(x, 2) + 8 * BitOf(x, 3)
                + 16 * BitOf(x, 4) + 32 * BitOf(x, 5) + 64 * BitOf(x, 6) + 128 * BitOf(x, 7)
         /\ \A k \in 8..15 : BitOf(x, k) = 0
<1>1. x = BitOf(x, 0) + 2 * BitOf(x, 1) + 4 * BitOf(x, 2) + 8 * BitOf(x, 3)
          + 16 * BitOf(x, 4) + 32 * BitOf(x, 5) + 64 * BitOf(x, 6) + 128 * BitOf(x, 7)
  BY SMT DEF BitOf
<1>2. /\ BitOf(x, 8) = 0 /\ BitOf(x, 9) = 0 /\ BitOf(x, 10) = 0 /\ BitOf(x, 11) = 0
      /\ BitOf(x, 12) = 0 /\ BitOf(x, 13) = 0 /\ BitOf(x, 14) = 0 /\ BitOf(x, 15) = 0
  BY SMT DEF BitOf
<1>3. QED  BY <1>1, <1>2

\* Oring a byte onto a shifted one is adding them.
LEMMA PairIs ==
  ASSUME NEW a \in 0..255, NEW b \in 0..255
  PROVE  Or(a, b * 256) = Wide(a, b)
<1> DEFINE y == b * 256
           z == 0
<1>1. \A k \in 0..15 : BitOf(a, k) \in 0..1 /\ BitOf(b, k) \in 0..1
  BY BitRange
<1>2. y = Wide(z, b) /\ z \in 0..255
  BY SMT DEF Wide
<1>3. \A k \in 0..7 : BitOf(z, k) = 0
  <2>1. /\ BitOf(0, 0) = 0 /\ BitOf(0, 1) = 0 /\ BitOf(0, 2) = 0 /\ BitOf(0, 3) = 0
        /\ BitOf(0, 4) = 0 /\ BitOf(0, 5) = 0 /\ BitOf(0, 6) = 0 /\ BitOf(0, 7) = 0
    BY SMT DEF BitOf
  <2>2. QED  BY <2>1
<1> HIDE DEF y, z
<1>4. \A k \in 0..7 : BitOf(y, k) = 0
  <2>1. \A k \in 0..7 : BitOf(Wide(z, b), k) = BitOf(z, k)
    BY <1>2, PairBits
  <2>2. QED  BY <1>2, <1>3, <2>1
<1>5. \A k \in 8..15 : BitOf(y, k) = BitOf(b, k - 8)
  <2>1. \A k \in 8..15 : BitOf(Wide(z, b), k) = BitOf(b, k - 8)
    BY <1>2, PairBits
  <2>2. QED  BY <1>2, <2>1
<1> DEFINE w == [k \in 0..15 |-> IF BitOf(a, k) = 1 THEN 1 ELSE BitOf(y, k)]
<1>6. /\ \A k \in 0..7 : w[k] = BitOf(a, k)
      /\ \A k \in 8..15 : w[k] = BitOf(b, k - 8)
  BY <1>1, <1>4, <1>5, ByteSum
<1>7. Or(a, y) = Number(w)
  BY Zenon DEF Or
<1> HIDE DEF w
<1>8. /\ w[0] = BitOf(a, 0) /\ w[1] = BitOf(a, 1) /\ w[2] = BitOf(a, 2) /\ w[3] = BitOf(a, 3)
      /\ w[4] = BitOf(a, 4) /\ w[5] = BitOf(a, 5) /\ w[6] = BitOf(a, 6) /\ w[7] = BitOf(a, 7)
      /\ w[8] = BitOf(b, 0) /\ w[9] = BitOf(b, 1) /\ w[10] = BitOf(b, 2) /\ w[11] = BitOf(b, 3)
      /\ w[12] = BitOf(b, 4) /\ w[13] = BitOf(b, 5) /\ w[14] = BitOf(b, 6) /\ w[15] = BitOf(b, 7)
  BY <1>6
<1>9. \A k \in 0..7 : BitOf(a, k) \in Int /\ BitOf(b, k) \in Int
  BY <1>1
<1>10. Number(w) = Wide(a, b)
  <2> DEFINE A(k) == BitOf(a, k)
             B(k) == BitOf(b, k)
  <2>1. /\ a = A(0) + 2 * A(1) + 4 * A(2) + 8 * A(3) + 16 * A(4) + 32 * A(5) + 64 * A(6) + 128 * A(7)
        /\ b = B(0) + 2 * B(1) + 4 * B(2) + 8 * B(3) + 16 * B(4) + 32 * B(5) + 64 * B(6) + 128 * B(7)
    BY ByteSum
  <2>2. /\ w[0] = A(0) /\ w[1] = A(1) /\ w[2] = A(2) /\ w[3] = A(3)
        /\ w[4] = A(4) /\ w[5] = A(5) /\ w[6] = A(6) /\ w[7] = A(7)
        /\ w[8] = B(0) /\ w[9] = B(1) /\ w[10] = B(2) /\ w[11] = B(3)
        /\ w[12] = B(4) /\ w[13] = B(5) /\ w[14] = B(6) /\ w[15] = B(7)
    BY <1>8
  <2>3. /\ A(0) \in Int /\ A(1) \in Int /\ A(2) \in Int /\ A(3) \in Int
        /\ A(4) \in Int /\ A(5) \in Int /\ A(6) \in Int /\ A(7) \in Int
        /\ B(0) \in Int /\ B(1) \in Int /\ B(2) \in Int /\ B(3) \in Int
        /\ B(4) \in Int /\ B(5) \in Int /\ B(6) \in Int /\ B(7) \in Int
    BY <1>9
  <2> HIDE DEF A, B
  <2>4. QED  BY <2>1, <2>2, <2>3 DEF Number, Wide
<1>11. QED  BY <1>7, <1>10 DEF y

\* The word x holds, from its lowest bit on, n bits of the XOF output from p on.
InStream(x, p, n) == x \in Nat /\ \A j \in 0..(n - 1) : BitOf(x, j) = Bit(p + j)

\* The same, of fewer bits.
LEMMA ShorterStream ==
  ASSUME NEW x, NEW p, NEW n \in Int, NEW m \in Int, m <= n, InStream(x, p, n)
  PROVE  InStream(x, p, m)
BY DEF InStream

\* Byte i holds the eight bits from 8 * i on, two bytes sixteen.
LEMMA ByteStream ==
  ASSUME NEW i \in Nat, buf[i] \in 0..255
  PROVE  InStream(buf[i], 8 * i, 8)
<1>1. \A j \in 0..7 : (8 * i + j) \div 8 = i /\ (8 * i + j) % 8 = j
  OBVIOUS
<1>2. \A j \in 0..7 : Bit(8 * i + j) = BitOf(buf[i], j)
  BY <1>1, Zenon DEF Bit
<1>3. QED  BY <1>2 DEF InStream

LEMMA PairStream ==
  ASSUME NEW i \in Nat, buf[i] \in 0..255, buf[i + 1] \in 0..255
  PROVE  InStream(Pair(i), 8 * i, 16)
<1> DEFINE a == buf[i]
           b == buf[i + 1]
           m == i + 1
<1>1. InStream(a, 8 * i, 8) /\ InStream(b, 8 * m, 8)
  BY ByteStream
<1>2. a \in 0..255 /\ b \in 0..255 /\ m \in Nat /\ 8 * m = 8 * i + 8
  OBVIOUS
<1>3. Pair(i) = Wide(a, b)
  BY PairIs DEF Pair
<1> HIDE DEF a, b, m
<1>4. Wide(a, b) \in Nat
  BY <1>2 DEF Wide
<1>5. ASSUME NEW j \in 0..15 PROVE BitOf(Wide(a, b), j) = Bit(8 * i + j)
  <2>1. CASE j \in 0..7
    <3>1. BitOf(Wide(a, b), j) = BitOf(a, j)
      BY <1>2, <2>1, PairBits
    <3>2. QED  BY <1>1, <2>1, <3>1 DEF InStream
  <2>2. CASE j \in 8..15
    <3>1. BitOf(Wide(a, b), j) = BitOf(b, j - 8)
      BY <1>2, <2>2, PairBits
    <3>2. j - 8 \in 0..7 /\ 8 * m + (j - 8) = 8 * i + j
      BY <1>2, <2>2
    <3>3. QED  BY <1>1, <3>1, <3>2 DEF InStream
  <2>3. QED  BY <2>1, <2>2
<1>6. QED  BY <1>3, <1>4, <1>5 DEF InStream

\* What a shift leaves of a stretch of the stream.
LEMMA ShiftStream2 ==
  ASSUME NEW x, NEW p \in Nat, NEW n \in 2..16, InStream(x, p, n)
  PROVE  InStream(x \div 4, p + 2, n - 2)
<1>1. x \div 4 \in Nat /\ \A k \in 0..13 : BitOf(x \div 4, k) = BitOf(x, k + 2)
  BY ShiftedBy2 DEF InStream
<1> DEFINE y == x \div 4
<1> HIDE DEF y
<1>2. \A j \in 0..(n - 2 - 1) : BitOf(y, j) = Bit(p + 2 + j)
  <2> SUFFICES ASSUME NEW j \in 0..(n - 2 - 1) PROVE BitOf(y, j) = Bit(p + 2 + j)
    OBVIOUS
  <2>1. BitOf(y, j) = BitOf(x, j + 2)
    BY <1>1 DEF y
  <2>2. j + 2 \in 0..(n - 1) /\ p + (j + 2) = p + 2 + j
    OBVIOUS
  <2>3. QED  BY <2>1, <2>2 DEF InStream
<1>3. QED  BY <1>1, <1>2 DEF InStream, y

LEMMA ShiftStream4 ==
  ASSUME NEW x, NEW p \in Nat, NEW n \in 4..16, InStream(x, p, n)
  PROVE  InStream(x \div 16, p + 4, n - 4)
<1>1. x \div 16 \in Nat /\ \A k \in 0..11 : BitOf(x \div 16, k) = BitOf(x, k + 4)
  BY ShiftedBy4 DEF InStream
<1> DEFINE y == x \div 16
<1> HIDE DEF y
<1>2. \A j \in 0..(n - 4 - 1) : BitOf(y, j) = Bit(p + 4 + j)
  <2> SUFFICES ASSUME NEW j \in 0..(n - 4 - 1) PROVE BitOf(y, j) = Bit(p + 4 + j)
    OBVIOUS
  <2>1. BitOf(y, j) = BitOf(x, j + 4)
    BY <1>1 DEF y
  <2>2. j + 4 \in 0..(n - 1) /\ p + (j + 4) = p + 4 + j
    OBVIOUS
  <2>3. QED  BY <2>1, <2>2 DEF InStream
<1>3. QED  BY <1>1, <1>2 DEF InStream, y

LEMMA ShiftStream6 ==
  ASSUME NEW x, NEW p \in Nat, NEW n \in 6..16, InStream(x, p, n)
  PROVE  InStream(x \div 64, p + 6, n - 6)
<1>1. x \div 64 \in Nat /\ \A k \in 0..9 : BitOf(x \div 64, k) = BitOf(x, k + 6)
  BY ShiftedBy6 DEF InStream
<1> DEFINE y == x \div 64
<1> HIDE DEF y
<1>2. \A j \in 0..(n - 6 - 1) : BitOf(y, j) = Bit(p + 6 + j)
  <2> SUFFICES ASSUME NEW j \in 0..(n - 6 - 1) PROVE BitOf(y, j) = Bit(p + 6 + j)
    OBVIOUS
  <2>1. BitOf(y, j) = BitOf(x, j + 6)
    BY <1>1 DEF y
  <2>2. j + 6 \in 0..(n - 1) /\ p + (j + 6) = p + 6 + j
    OBVIOUS
  <2>3. QED  BY <2>1, <2>2 DEF InStream
<1>3. QED  BY <1>1, <1>2 DEF InStream, y

\* The bits of the two halves of a field, counted.
LEMMA OnesAre ==
  ASSUME NEW p \in Nat, NEW n \in 3..5, \A j \in 0..(n - 1) : Bit(p + j) \in 0..1
  PROVE  Ones(p, n) = Bit(p) + Bit(p + 1) + Bit(p + 2)
                      + (IF n >= 4 THEN Bit(p + 3) ELSE 0) + (IF n >= 5 THEN Bit(p + 4) ELSE 0)
<1> DEFINE S == {q \in Int : Bit(q) = 1}
<1>1. {q \in p..(p + n - 1) : Bit(q) = 1} = S \cap (p..(p + (n - 1)))
  OBVIOUS
<1>2. Ones(p, n) = Count(S, p, p + (n - 1))
  BY <1>1, Zenon DEF Ones, Count
<1>3. \A j \in 0..(n - 1) : In(S, p + j) = Bit(p + j)
  BY DEF In
<1> HIDE DEF S
<1>4. /\ Count(S, p, p + 2) = In(S, p) + In(S, p + 1) + In(S, p + 2)
      /\ Count(S, p, p + 3) = In(S, p) + In(S, p + 1) + In(S, p + 2) + In(S, p + 3)
      /\ Count(S, p, p + 4) = In(S, p) + In(S, p + 1) + In(S, p + 2) + In(S, p + 3) + In(S, p + 4)
  BY CountRun
<1>5. In(S, p) = Bit(p) /\ In(S, p + 1) = Bit(p + 1) /\ In(S, p + 2) = Bit(p + 2)
      /\ Bit(p) \in Int /\ Bit(p + 1) \in Int /\ Bit(p + 2) \in Int
  <2>1. 0 \in 0..(n - 1) /\ 1 \in 0..(n - 1) /\ 2 \in 0..(n - 1) /\ p + 0 = p
    OBVIOUS
  <2>2. QED  BY <1>3, <2>1
<1>6. CASE n = 3
  <2>1. Ones(p, n) = In(S, p) + In(S, p + 1) + In(S, p + 2)
    BY <1>2, <1>4, <1>6
  <2>2. QED  BY <1>5, <1>6, <2>1
<1>7. CASE n = 4
  <2>1. Ones(p, n) = In(S, p) + In(S, p + 1) + In(S, p + 2) + In(S, p + 3)
    BY <1>2, <1>4, <1>7
  <2>2. In(S, p + 3) = Bit(p + 3) /\ Bit(p + 3) \in Int
    BY <1>3, <1>7
  <2>3. QED  BY <1>5, <1>7, <2>1, <2>2
<1>8. CASE n = 5
  <2>1. Ones(p, n) = In(S, p) + In(S, p + 1) + In(S, p + 2) + In(S, p + 3) + In(S, p + 4)
    BY <1>2, <1>4, <1>8
  <2>2. /\ In(S, p + 3) = Bit(p + 3) /\ Bit(p + 3) \in Int
        /\ In(S, p + 4) = Bit(p + 4) /\ Bit(p + 4) \in Int
    BY <1>3, <1>8
  <2>3. QED  BY <1>5, <1>8, <2>1, <2>2
<1>9. QED  BY <1>6, <1>7, <1>8

\* 2^n
Power(n) == CASE n = 3 -> 8 [] n = 4 -> 16 [] n = 5 -> 32

\* The count of the low half of a field, masked off a longer word.
LEMMA LowHalfCount ==
  ASSUME NEW x, NEW p \in Nat, NEW n \in 3..5, InStream(x, p, n)
  PROVE  x % Power(n) \in 0..31 /\ Five(x % Power(n)) = Ones(p, n)
<1>1. \A j \in 0..(n - 1) : BitOf(x, j) = Bit(p + j) /\ Bit(p + j) \in 0..1
  BY BitRange DEF InStream
<1>2. Ones(p, n) = Bit(p) + Bit(p + 1) + Bit(p + 2)
                   + (IF n >= 4 THEN Bit(p + 3) ELSE 0) + (IF n >= 5 THEN Bit(p + 4) ELSE 0)
  BY <1>1, OnesAre
<1>3. BitOf(x, 0) = Bit(p) /\ BitOf(x, 1) = Bit(p + 1) /\ BitOf(x, 2) = Bit(p + 2)
      /\ BitOf(x, 0) \in Int /\ BitOf(x, 1) \in Int /\ BitOf(x, 2) \in Int
  <2>1. 0 \in 0..(n - 1) /\ 1 \in 0..(n - 1) /\ 2 \in 0..(n - 1) /\ p + 0 = p
    OBVIOUS
  <2>2. QED  BY <1>1, <2>1
<1>4. x \in Nat
  BY DEF InStream
<1>5. CASE n = 3
  BY <1>2, <1>3, <1>4, <1>5, FiveLow DEF Power
<1>6. CASE n = 4
  <2>1. BitOf(x, 3) = Bit(p + 3) /\ BitOf(x, 3) \in Int
    BY <1>1, <1>6
  <2>2. QED  BY <1>2, <1>3, <1>4, <1>6, <2>1, FiveLow DEF Power
<1>7. CASE n = 5
  <2>1. BitOf(x, 3) = Bit(p + 3) /\ BitOf(x, 4) = Bit(p + 4) /\ BitOf(x, 3) \in Int /\ BitOf(x, 4) \in Int
    BY <1>1, <1>7
  <2>2. QED  BY <1>2, <1>3, <1>4, <1>7, <2>1, FiveLow DEF Power, Five
<1>8. QED  BY <1>5, <1>6, <1>7

\* The count of its high half, shifted down and masked off.
LEMMA HighHalfCount ==
  ASSUME NEW x, NEW p \in Nat, NEW n \in 3..5, InStream(x, p, 2 * n)
  PROVE  /\ x \div Power(n) \in Nat
         /\ (x \div Power(n)) % Power(n) \in 0..31
         /\ Five((x \div Power(n)) % Power(n)) = Ones(p + n, n)
<1> DEFINE y == x \div Power(n)
<1>1. x \in Nat
  BY DEF InStream
<1>2. y \in Nat /\ \A k \in 0..(n - 1) : BitOf(y, k) = BitOf(x, k + n)
  <2>1. CASE n = 3
    BY <1>1, <2>1, ShiftedBy3 DEF Power
  <2>2. CASE n = 4
    BY <1>1, <2>2, ShiftedBy4 DEF Power
  <2>3. CASE n = 5
    BY <1>1, <2>3, ShiftedBy5 DEF Power
  <2>4. QED  BY <2>1, <2>2, <2>3
<1> HIDE DEF y
<1>3. ASSUME NEW k \in 0..(n - 1) PROVE BitOf(y, k) = Bit(p + n + k)
  <2>1. k + n \in 0..(2 * n - 1) /\ p + (k + n) = p + n + k
    OBVIOUS
  <2>2. QED  BY <1>2, <2>1 DEF InStream
<1>4. InStream(y, p + n, n)
  BY <1>2, <1>3 DEF InStream
<1>5. y % Power(n) \in 0..31 /\ Five(y % Power(n)) = Ones(p + n, n)
  BY <1>4, LowHalfCount
<1>6. QED  BY <1>2, <1>5 DEF y

\* A small word counts the bits it is made of.
LEMMA FiveOf ==
  ASSUME NEW a \in 0..1, NEW b \in 0..1, NEW c \in 0..1, NEW d \in 0..1, NEW e \in 0..1
  PROVE  /\ a + 2 * b + 4 * c + 8 * d + 16 * e \in 0..31
         /\ Five(a + 2 * b + 4 * c + 8 * d + 16 * e) = a + b + c + d + e
<1> DEFINE x == a + 2 * b + 4 * c + 8 * d + 16 * e
<1>1. x \in 0..31
  BY SMT
<1>2. BitOf(x, 0) = a /\ BitOf(x, 1) = b /\ BitOf(x, 2) = c /\ BitOf(x, 3) = d /\ BitOf(x, 4) = e
  BY SMT DEF BitOf
<1> HIDE DEF x
<1>3. Five(x) = a + b + c + d + e
  BY <1>2 DEF Five
<1>4. QED  BY <1>1, <1>3 DEF x

\* The two halves of a word that is a field of the stream and nothing above it.
LEMMA FieldHalves ==
  ASSUME NEW f, NEW p \in Nat, NEW n \in 3..5,
         \A j \in 0..15 : f[j] = IF j < 2 * n THEN Bit(p + j) ELSE 0,
         \A j \in 0..(2 * n - 1) : Bit(p + j) \in 0..1
  PROVE  /\ Number(f) % Power(n) \in 0..31 /\ Five(Number(f) % Power(n)) = Ones(p, n)
         /\ (Number(f) \div Power(n)) % Power(n) \in 0..31
         /\ Five((Number(f) \div Power(n)) % Power(n)) = Ones(p + n, n)
<1> DEFINE F(j) == f[j]
           x == Number(f)
<1>1. \A j \in 0..15 : F(j) \in 0..1
  OBVIOUS
<1>2. \A j \in (2 * n)..15 : F(j) = 0
  OBVIOUS
<1>3. \A j \in 0..(2 * n - 1) : F(j) = Bit(p + j)
  OBVIOUS
<1>4. x = F(0) + 2 * F(1) + 4 * F(2) + 8 * F(3) + 16 * F(4) + 32 * F(5) + 64 * F(6) + 128 * F(7)
          + 256 * F(8) + 512 * F(9) + 1024 * F(10) + 2048 * F(11) + 4096 * F(12) + 8192 * F(13)
          + 16384 * F(14) + 32768 * F(15)
  BY SMT DEF Number
<1>5. /\ Ones(p, n) = Bit(p) + Bit(p + 1) + Bit(p + 2)
                      + (IF n >= 4 THEN Bit(p + 3) ELSE 0) + (IF n >= 5 THEN Bit(p + 4) ELSE 0)
      /\ Ones(p + n, n) = Bit(p + n) + Bit(p + n + 1) + Bit(p + n + 2)
                      + (IF n >= 4 THEN Bit(p + n + 3) ELSE 0) + (IF n >= 5 THEN Bit(p + n + 4) ELSE 0)
  <2>1. \A j \in 0..(n - 1) : Bit(p + j) \in 0..1 /\ Bit(p + n + j) \in 0..1
    <3>1. \A j \in 0..(n - 1) : j + n \in 0..(2 * n - 1) /\ p + (j + n) = p + n + j
      OBVIOUS
    <3>2. QED  BY <3>1
  <2>2. QED  BY <2>1, OnesAre
<1> HIDE DEF F, x
<1>6. CASE n = 3
  <2>1. F(0) = Bit(p) /\ F(1) = Bit(p + 1) /\ F(2) = Bit(p + 2)
        /\ F(3) = Bit(p + n) /\ F(4) = Bit(p + n + 1) /\ F(5) = Bit(p + n + 2)
    BY <1>3, <1>6
  <2>2. x = (F(0) + 2 * F(1) + 4 * F(2)) + 8 * (F(3) + 2 * F(4) + 4 * F(5))
    BY <1>1, <1>2, <1>4, <1>6
  <2>3. x % 8 = F(0) + 2 * F(1) + 4 * F(2) /\ (x \div 8) % 8 = F(3) + 2 * F(4) + 4 * F(5)
    <3> DEFINE lo == F(0) + 2 * F(1) + 4 * F(2)
               hi == F(3) + 2 * F(4) + 4 * F(5)
    <3>1. lo \in 0..7 /\ hi \in 0..7 /\ x = lo + 8 * hi
      BY <1>1, <2>2
    <3> HIDE DEF lo, hi
    <3>2. x % 8 = lo /\ (x \div 8) % 8 = hi
      BY <3>1, SMT
    <3>3. QED  BY <3>2 DEF lo, hi
  <2>4. /\ F(0) + 2 * F(1) + 4 * F(2) + 8 * 0 + 16 * 0 \in 0..31
        /\ Five(F(0) + 2 * F(1) + 4 * F(2) + 8 * 0 + 16 * 0) = F(0) + F(1) + F(2) + 0 + 0
        /\ F(3) + 2 * F(4) + 4 * F(5) + 8 * 0 + 16 * 0 \in 0..31
        /\ Five(F(3) + 2 * F(4) + 4 * F(5) + 8 * 0 + 16 * 0) = F(3) + F(4) + F(5) + 0 + 0
    BY <1>1, FiveOf
  <2>5. x % 8 \in 0..31 /\ Five(x % 8) = F(0) + F(1) + F(2)
        /\ (x \div 8) % 8 \in 0..31 /\ Five((x \div 8) % 8) = F(3) + F(4) + F(5)
    BY <1>1, <2>3, <2>4
  <2>6. QED  BY <1>1, <1>5, <1>6, <2>1, <2>5 DEF Power, x
<1>7. CASE n = 4
  <2>1. F(0) = Bit(p) /\ F(1) = Bit(p + 1) /\ F(2) = Bit(p + 2) /\ F(3) = Bit(p + 3)
        /\ F(4) = Bit(p + n) /\ F(5) = Bit(p + n + 1) /\ F(6) = Bit(p + n + 2) /\ F(7) = Bit(p + n + 3)
    BY <1>3, <1>7
  <2>2. x = (F(0) + 2 * F(1) + 4 * F(2) + 8 * F(3)) + 16 * (F(4) + 2 * F(5) + 4 * F(6) + 8 * F(7))
    BY <1>1, <1>2, <1>4, <1>7
  <2>3. x % 16 = F(0) + 2 * F(1) + 4 * F(2) + 8 * F(3)
        /\ (x \div 16) % 16 = F(4) + 2 * F(5) + 4 * F(6) + 8 * F(7)
    <3> DEFINE lo == F(0) + 2 * F(1) + 4 * F(2) + 8 * F(3)
               hi == F(4) + 2 * F(5) + 4 * F(6) + 8 * F(7)
    <3>1. lo \in 0..15 /\ hi \in 0..15 /\ x = lo + 16 * hi
      BY <1>1, <2>2
    <3> HIDE DEF lo, hi
    <3>2. x % 16 = lo /\ (x \div 16) % 16 = hi
      BY <3>1, SMT
    <3>3. QED  BY <3>2 DEF lo, hi
  <2>4. /\ F(0) + 2 * F(1) + 4 * F(2) + 8 * F(3) + 16 * 0 \in 0..31
        /\ Five(F(0) + 2 * F(1) + 4 * F(2) + 8 * F(3) + 16 * 0) = F(0) + F(1) + F(2) + F(3) + 0
        /\ F(4) + 2 * F(5) + 4 * F(6) + 8 * F(7) + 16 * 0 \in 0..31
        /\ Five(F(4) + 2 * F(5) + 4 * F(6) + 8 * F(7) + 16 * 0) = F(4) + F(5) + F(6) + F(7) + 0
    BY <1>1, FiveOf
  <2>5. x % 16 \in 0..31 /\ Five(x % 16) = F(0) + F(1) + F(2) + F(3)
        /\ (x \div 16) % 16 \in 0..31 /\ Five((x \div 16) % 16) = F(4) + F(5) + F(6) + F(7)
    BY <1>1, <2>3, <2>4
  <2>6. QED  BY <1>1, <1>5, <1>7, <2>1, <2>5 DEF Power, x
<1>8. CASE n = 5
  <2>1. F(0) = Bit(p) /\ F(1) = Bit(p + 1) /\ F(2) = Bit(p + 2) /\ F(3) = Bit(p + 3) /\ F(4) = Bit(p + 4)
        /\ F(5) = Bit(p + n) /\ F(6) = Bit(p + n + 1) /\ F(7) = Bit(p + n + 2) /\ F(8) = Bit(p + n + 3)
        /\ F(9) = Bit(p + n + 4)
    BY <1>3, <1>8
  <2>2. x = (F(0) + 2 * F(1) + 4 * F(2) + 8 * F(3) + 16 * F(4))
            + 32 * (F(5) + 2 * F(6) + 4 * F(7) + 8 * F(8) + 16 * F(9))
    BY <1>1, <1>2, <1>4, <1>8
  <2>3. x % 32 = F(0) + 2 * F(1) + 4 * F(2) + 8 * F(3) + 16 * F(4)
        /\ (x \div 32) % 32 = F(5) + 2 * F(6) + 4 * F(7) + 8 * F(8) + 16 * F(9)
    <3> DEFINE lo == F(0) + 2 * F(1) + 4 * F(2) + 8 * F(3) + 16 * F(4)
               hi == F(5) + 2 * F(6) + 4 * F(7) + 8 * F(8) + 16 * F(9)
    <3>1. lo \in 0..31 /\ hi \in 0..31 /\ x = lo + 32 * hi
      BY <1>1, <2>2
    <3> HIDE DEF lo, hi
    <3>2. x % 32 = lo /\ (x \div 32) % 32 = hi
      BY <3>1, SMT
    <3>3. QED  BY <3>2 DEF lo, hi
  <2>4. /\ F(0) + 2 * F(1) + 4 * F(2) + 8 * F(3) + 16 * F(4) \in 0..31
        /\ Five(F(0) + 2 * F(1) + 4 * F(2) + 8 * F(3) + 16 * F(4)) = F(0) + F(1) + F(2) + F(3) + F(4)
        /\ F(5) + 2 * F(6) + 4 * F(7) + 8 * F(8) + 16 * F(9) \in 0..31
        /\ Five(F(5) + 2 * F(6) + 4 * F(7) + 8 * F(8) + 16 * F(9)) = F(5) + F(6) + F(7) + F(8) + F(9)
    BY <1>1, FiveOf
  <2>5. x % 32 \in 0..31 /\ Five(x % 32) = F(0) + F(1) + F(2) + F(3) + F(4)
        /\ (x \div 32) % 32 \in 0..31 /\ Five((x \div 32) % 32) = F(5) + F(6) + F(7) + F(8) + F(9)
    BY <2>3, <2>4
  <2>6. QED  BY <1>1, <1>5, <1>8, <2>1, <2>5 DEF Power, x
<1>9. QED  BY <1>6, <1>7, <1>8
-----------------------------------------------------------------------------
\* The three widths that are sampled from, and their halves.
LEMMA HalfIs ==
  ASSUME width \in {6, 8, 10}
  PROVE  Half \in 3..5 /\ width = 2 * Half /\ 2^Half = Power(Half)
<1>1. CASE width = 6
  <2>1. Half = 3
    BY <1>1 DEF Half
  <2> HIDE DEF Half
  <2>2. QED  BY <1>1, <2>1 DEF Power
<1>2. CASE width = 8
  <2>1. Half = 4
    BY <1>2 DEF Half
  <2>2. QED  BY <1>2, <2>1 DEF Power
<1>3. CASE width = 10
  <2>1. Half = 5
    BY <1>3 DEF Half
  <2>2. QED  BY <1>3, <2>1 DEF Power
<1>4. QED  BY <1>1, <1>2, <1>3

\* What the coefficient whose field starts at bit p of the XOF output must be.
Sampled(p) == U16(Ones(p, Half) - Ones(p + Half, Half))

\* The portable kernel on a word that starts with the field at bit p.
LEMMA CbdDiffIs ==
  ASSUME width \in {6, 8, 10}, NEW x, NEW p \in Nat, InStream(x, p, width)
  PROVE  CbdDiff(x) = Sampled(p)
<1> DEFINE h == Half
           y == x \div Power(h)
<1>1. h \in 3..5 /\ width = 2 * h /\ 2^h = Power(h)
  BY HalfIs
<1>2. CbdDiff(x) = U16(PopcountU16(And(x, 2^h - 1)) - PopcountU16(And(x \div 2^h, 2^h - 1)))
  BY Zenon DEF CbdDiff
<1>3. Sampled(p) = U16(Ones(p, h) - Ones(p + h, h))
  BY Zenon DEF Sampled
<1> HIDE DEF h
<1>4. InStream(x, p, 2 * h) /\ InStream(x, p, h)
  BY <1>1, ShorterStream
<1>5. x \in Nat /\ y \in Nat
  BY <1>1, <1>4, HighHalfCount DEF InStream
<1>6. CbdDiff(x) = U16(PopcountU16(And(x, Power(h) - 1)) - PopcountU16(And(y, Power(h) - 1)))
  BY <1>1, <1>2
<1>7. \A z \in Nat : And(z, Power(h) - 1) = z % Power(h)
  <2>1. CASE h = 3
    <3>1. Power(h) = 8 /\ Power(h) - 1 = 7
      BY <2>1 DEF Power
    <3>2. ASSUME NEW z \in Nat PROVE And(z, 7) = z % 8
      <4>1. z \in Int
        OBVIOUS
      <4>2. QED  BY <4>1, AndLow, Zenon
    <3>3. QED  BY <3>1, <3>2, Zenon
  <2>2. CASE h = 4
    <3>1. Power(h) = 16 /\ Power(h) - 1 = 15
      BY <2>2 DEF Power
    <3>2. ASSUME NEW z \in Nat PROVE And(z, 15) = z % 16
      <4>1. z \in Int
        OBVIOUS
      <4>2. QED  BY <4>1, AndLow, Zenon
    <3>3. QED  BY <3>1, <3>2, Zenon
  <2>3. CASE h = 5
    <3>1. Power(h) = 32 /\ Power(h) - 1 = 31
      BY <2>3 DEF Power
    <3>2. ASSUME NEW z \in Nat PROVE And(z, 31) = z % 32
      <4>1. z \in Int
        OBVIOUS
      <4>2. QED  BY <4>1, AndLow, Zenon
    <3>3. QED  BY <3>1, <3>2, Zenon
  <2>4. QED  BY <1>1, <2>1, <2>2, <2>3
<1>8. x % Power(h) \in 0..31 /\ Five(x % Power(h)) = Ones(p, h)
  BY <1>1, <1>4, LowHalfCount
<1>9. y % Power(h) \in 0..31 /\ Five(y % Power(h)) = Ones(p + h, h)
  BY <1>1, <1>4, HighHalfCount
<1> HIDE DEF y
<1>10. PopcountU16(And(x, Power(h) - 1)) = Ones(p, h) /\ PopcountU16(And(y, Power(h) - 1)) = Ones(p + h, h)
  BY <1>5, <1>7, <1>8, <1>9, PopcountU16Small
<1>11. QED  BY <1>3, <1>6, <1>10

\* A field of eight bits is a byte.
LEMMA SerialByteIs ==
  ASSUME width = 8, NEW i \in Nat, buf[i] \in 0..255
  PROVE  U16(PopcountU8(And(buf[i], 15)) - PopcountU8(buf[i] \div 16)) = Sampled(8 * i)
<1> DEFINE x == buf[i]
           p == 8 * i
<1>1. InStream(x, p, 8) /\ p \in Nat
  BY ByteStream
<1>2. Half = 4
  BY DEF Half
<1>3. Sampled(p) = U16(Ones(p, 4) - Ones(p + 4, 4))
  BY <1>2, Zenon DEF Sampled
<1>4. x \in 0..255
  OBVIOUS
<1> HIDE DEF x, p
<1>5. Power(4) = 16
  BY DEF Power
<1>6. InStream(x, p, 4) /\ InStream(x, p, 2 * 4)
  BY <1>1, ShorterStream
<1>7. x % Power(4) \in 0..31 /\ Five(x % Power(4)) = Ones(p, 4)
  BY <1>1, <1>6, LowHalfCount
<1>8. (x \div Power(4)) % Power(4) \in 0..31 /\ Five((x \div Power(4)) % Power(4)) = Ones(p + 4, 4)
  BY <1>1, <1>6, HighHalfCount
<1>9. (x \div 16) % 16 = x \div 16 /\ And(x, 15) = x % 16
  <2>1. x \in Int /\ (x \div 16) % 16 = x \div 16
    BY <1>4, SMT
  <2>2. QED  BY <2>1, AndLow
<1>10. PopcountU8(And(x, 15)) = Ones(p, 4) /\ PopcountU8(x \div 16) = Ones(p + 4, 4)
  BY <1>5, <1>7, <1>8, <1>9, PopcountU8Small
<1>11. QED  BY <1>3, <1>10 DEF x, p

\* A group's words start with its four fields.
LEMMA Raw10Is ==
  ASSUME NEW g \in Nat, \A j \in 0..4 : buf[5 * g + j] \in 0..255, NEW k \in 1..4
  PROVE  InStream(Raw10(5 * g)[k], (4 * g + k - 1) * 10, 10)
<1> DEFINE i == 5 * g
<1>1. i \in Nat /\ i + 1 \in Nat /\ i + 2 \in Nat /\ i + 3 \in Nat
      /\ (i + 1) + 1 = i + 2 /\ (i + 2) + 1 = i + 3 /\ (i + 3) + 1 = i + 4
  OBVIOUS
<1>2. /\ buf[i] \in 0..255 /\ buf[i + 1] \in 0..255 /\ buf[i + 2] \in 0..255
      /\ buf[i + 3] \in 0..255 /\ buf[i + 4] \in 0..255
  <2>1. 0 \in 0..4 /\ 1 \in 0..4 /\ 2 \in 0..4 /\ 3 \in 0..4 /\ 4 \in 0..4 /\ i + 0 = i
    OBVIOUS
  <2>2. QED  BY <2>1
<1>3. /\ InStream(Pair(i), 8 * i, 16) /\ InStream(Pair(i + 1), 8 * (i + 1), 16)
      /\ InStream(Pair(i + 2), 8 * (i + 2), 16) /\ InStream(Pair(i + 3), 8 * (i + 3), 16)
  <2> HIDE DEF i
  <2>1. QED  BY <1>1, <1>2, PairStream
<1>4. /\ InStream(Pair(i + 1) \div 4, 8 * (i + 1) + 2, 14)
      /\ InStream(Pair(i + 2) \div 16, 8 * (i + 2) + 4, 12)
      /\ InStream(Pair(i + 3) \div 64, 8 * (i + 3) + 6, 10)
  <2> DEFINE p1 == 8 * (i + 1)
             p2 == 8 * (i + 2)
             p3 == 8 * (i + 3)
             n == 16
  <2>1. p1 \in Nat /\ p2 \in Nat /\ p3 \in Nat /\ n \in 2..16 /\ n \in 4..16 /\ n \in 6..16
        /\ n - 2 = 14 /\ n - 4 = 12 /\ n - 6 = 10
    OBVIOUS
  <2>2. InStream(Pair(i + 1), p1, n) /\ InStream(Pair(i + 2), p2, n) /\ InStream(Pair(i + 3), p3, n)
    BY <1>3
  <2> HIDE DEF i, p1, p2, p3, n
  <2>3. /\ InStream(Pair(i + 1) \div 4, p1 + 2, n - 2)
        /\ InStream(Pair(i + 2) \div 16, p2 + 4, n - 4)
        /\ InStream(Pair(i + 3) \div 64, p3 + 6, n - 6)
    BY <2>1, <2>2, ShiftStream2, ShiftStream4, ShiftStream6
  <2>4. QED  BY <2>1, <2>3 DEF p1, p2, p3
<1>5. /\ Raw10(i)[1] = Pair(i) /\ Raw10(i)[2] = Pair(i + 1) \div 4
      /\ Raw10(i)[3] = Pair(i + 2) \div 16 /\ Raw10(i)[4] = Pair(i + 3) \div 64
  <2> HIDE DEF i
  <2>1. QED  BY DEF Raw10
<1>6. /\ InStream(Raw10(i)[1], 8 * i, 10)
      /\ InStream(Raw10(i)[2], 8 * (i + 1) + 2, 10)
      /\ InStream(Raw10(i)[3], 8 * (i + 2) + 4, 10)
      /\ InStream(Raw10(i)[4], 8 * (i + 3) + 6, 10)
  <2> HIDE DEF i
  <2>1. QED  BY <1>3, <1>4, <1>5, ShorterStream
<1>7. /\ 8 * i = (4 * g + 1 - 1) * 10 /\ 8 * (i + 1) + 2 = (4 * g + 2 - 1) * 10
      /\ 8 * (i + 2) + 4 = (4 * g + 3 - 1) * 10 /\ 8 * (i + 3) + 6 = (4 * g + 4 - 1) * 10
  OBVIOUS
<1> HIDE DEF i
<1>8. /\ InStream(Raw10(i)[1], (4 * g + 1 - 1) * 10, 10)
      /\ InStream(Raw10(i)[2], (4 * g + 2 - 1) * 10, 10)
      /\ InStream(Raw10(i)[3], (4 * g + 3 - 1) * 10, 10)
      /\ InStream(Raw10(i)[4], (4 * g + 4 - 1) * 10, 10)
  BY <1>6, <1>7
<1>9. k = 1 \/ k = 2 \/ k = 3 \/ k = 4
  OBVIOUS
<1>10. InStream(Raw10(i)[k], (4 * g + k - 1) * 10, 10)
  BY <1>8, <1>9, Zenon
<1>11. QED  BY <1>10 DEF i

\* The same for fields of six bits.
LEMMA Raw6Is ==
  ASSUME NEW g \in Nat, \A j \in 0..2 : buf[3 * g + j] \in 0..255, NEW k \in 1..4
  PROVE  InStream(Raw6(3 * g)[k], (4 * g + k - 1) * 6, 6)
<1> DEFINE i == 3 * g
<1>1. i \in Nat /\ i + 1 \in Nat /\ i + 2 \in Nat /\ (i + 1) + 1 = i + 2
  OBVIOUS
<1>2. buf[i] \in 0..255 /\ buf[i + 1] \in 0..255 /\ buf[i + 2] \in 0..255
  <2>1. 0 \in 0..2 /\ 1 \in 0..2 /\ 2 \in 0..2 /\ i + 0 = i
    OBVIOUS
  <2>2. QED  BY <2>1
<1>3. /\ InStream(buf[i], 8 * i, 8) /\ InStream(buf[i + 2], 8 * (i + 2), 8)
      /\ InStream(Pair(i), 8 * i, 16) /\ InStream(Pair(i + 1), 8 * (i + 1), 16)
  <2> HIDE DEF i
  <2>1. QED  BY <1>1, <1>2, PairStream, ByteStream
<1>4. /\ InStream(Pair(i) \div 64, 8 * i + 6, 10)
      /\ InStream(Pair(i + 1) \div 16, 8 * (i + 1) + 4, 12)
      /\ InStream(buf[i + 2] \div 4, 8 * (i + 2) + 2, 6)
  <2> DEFINE p1 == 8 * i
             p2 == 8 * (i + 1)
             p3 == 8 * (i + 2)
             n == 16
             m == 8
  <2>1. p1 \in Nat /\ p2 \in Nat /\ p3 \in Nat /\ n \in 4..16 /\ n \in 6..16 /\ m \in 2..16
        /\ n - 6 = 10 /\ n - 4 = 12 /\ m - 2 = 6
    OBVIOUS
  <2>2. InStream(Pair(i), p1, n) /\ InStream(Pair(i + 1), p2, n) /\ InStream(buf[i + 2], p3, m)
    BY <1>3
  <2> HIDE DEF i, p1, p2, p3, n, m
  <2>3. /\ InStream(Pair(i) \div 64, p1 + 6, n - 6)
        /\ InStream(Pair(i + 1) \div 16, p2 + 4, n - 4)
        /\ InStream(buf[i + 2] \div 4, p3 + 2, m - 2)
    BY <2>1, <2>2, ShiftStream2, ShiftStream4, ShiftStream6
  <2>4. QED  BY <2>1, <2>3 DEF p1, p2, p3
<1>5. /\ Raw6(i)[1] = buf[i] /\ Raw6(i)[2] = Pair(i) \div 64
      /\ Raw6(i)[3] = Pair(i + 1) \div 16 /\ Raw6(i)[4] = buf[i + 2] \div 4
  <2> HIDE DEF i
  <2>1. QED  BY DEF Raw6
<1>6. /\ InStream(Raw6(i)[1], 8 * i, 6)
      /\ InStream(Raw6(i)[2], 8 * i + 6, 6)
      /\ InStream(Raw6(i)[3], 8 * (i + 1) + 4, 6)
      /\ InStream(Raw6(i)[4], 8 * (i + 2) + 2, 6)
  <2> HIDE DEF i
  <2>1. QED  BY <1>3, <1>4, <1>5, ShorterStream
<1>7. /\ 8 * i = (4 * g + 1 - 1) * 6 /\ 8 * i + 6 = (4 * g + 2 - 1) * 6
      /\ 8 * (i + 1) + 4 = (4 * g + 3 - 1) * 6 /\ 8 * (i + 2) + 2 = (4 * g + 4 - 1) * 6
  OBVIOUS
<1> HIDE DEF i
<1>8. /\ InStream(Raw6(i)[1], (4 * g + 1 - 1) * 6, 6)
      /\ InStream(Raw6(i)[2], (4 * g + 2 - 1) * 6, 6)
      /\ InStream(Raw6(i)[3], (4 * g + 3 - 1) * 6, 6)
      /\ InStream(Raw6(i)[4], (4 * g + 4 - 1) * 6, 6)
  BY <1>6, <1>7
<1>9. k = 1 \/ k = 2 \/ k = 3 \/ k = 4
  OBVIOUS
<1>10. InStream(Raw6(i)[k], (4 * g + k - 1) * 6, 6)
  BY <1>8, <1>9, Zenon
<1>11. QED  BY <1>10 DEF i

\* A lane of the vector samplers, on an element that Layout describes.
LEMMA LaneDiffIs ==
  ASSUME width \in {6, 8, 10}, backend \in {"avx2", "neon"}, NEW c, NEW p \in Nat,
         elems[c] = Run(16, p, width), \A j \in 0..(width - 1) : Bit(p + j) \in 0..1
  PROVE  LaneDiff(c) = Sampled(p)
<1> DEFINE h == Half
           f == [j \in 0..15 |-> IF elems[c][j] = Zero THEN 0 ELSE Bit(elems[c][j])]
           x == Field(c)
<1>1. h \in 3..5 /\ width = 2 * h /\ 2^h = Power(h)
  BY HalfIs
<1>2. LaneDiff(c) = U16(PopcountSmall(x % 2^h) - PopcountSmall((x \div 2^h) % 2^h))
  BY Zenon DEF LaneDiff
<1>3. Sampled(p) = U16(Ones(p, h) - Ones(p + h, h))
  BY Zenon DEF Sampled
<1>4. x = Number(f)
  BY Zenon DEF Field
<1>5. ASSUME NEW j \in 0..15 PROVE f[j] = IF j < width THEN Bit(p + j) ELSE 0
  <2>1. elems[c][j] = IF j < width THEN p + j ELSE Zero
    BY DEF Run
  <2>2. p + j # Zero
    BY DEF Zero
  <2>3. CASE j < width
    BY <2>1, <2>2, <2>3
  <2>4. CASE ~(j < width)
    BY <2>1, <2>4
  <2>5. QED  BY <2>3, <2>4
<1> HIDE DEF h, f, x
<1>6. /\ x % Power(h) \in 0..31 /\ Five(x % Power(h)) = Ones(p, h)
      /\ (x \div Power(h)) % Power(h) \in 0..31
      /\ Five((x \div Power(h)) % Power(h)) = Ones(p + h, h)
  BY <1>1, <1>4, <1>5, FieldHalves
<1>7. \A y \in 0..31 : PopcountSmall(y) = Five(y)
  BY PopcountAvx2Small, PopcountNeonSmall DEF PopcountSmall
<1>8. QED  BY <1>1, <1>2, <1>3, <1>6, <1>7
-----------------------------------------------------------------------------
\* The samplers' steps.

\* The types the steps below reason about, spelled out.
LEMMA RangesOfCbd ==
  ASSUME CbdTypeOK
  PROVE  /\ width \in 1..13 /\ N \in Nat /\ N % 16 = 0 /\ Groups \in Nat /\ N = 8 * Groups /\ Groups % 2 = 0
         /\ group \in Int /\ 0 <= group /\ group <= Groups
         /\ pos \in Int /\ 0 <= pos /\ pos <= N
<1>1. width \in 1..13 /\ N \in Nat /\ Groups \in Nat /\ N = 8 * Groups /\ Groups % 2 = 0
  BY GroupBound DEF CbdTypeOK
<1>2. N % 16 = 0
  BY VectorAssumption
<1>3. group \in 0..Groups /\ pos \in 0..N
  BY DEF CbdTypeOK
<1>4. QED  BY <1>1, <1>2, <1>3

\* The accessors are in bounds wherever the group cursor can be.
LEMMA AccessesInv == CbdTypeOK /\ Cursors => AccessesInBounds
<1> SUFFICES ASSUME CbdTypeOK, Cursors PROVE AccessesInBounds
  OBVIOUS
<1> DEFINE e == NumBytes(width)
           s == TailStart(width)
           o == group * width
<1>1. width \in Widths /\ group \in 0..Groups
  BY DEF CbdTypeOK
<1>2. /\ width \in 1..13 /\ Groups \in Nat /\ Groups % 2 = 0
      /\ group \in Int /\ 0 <= group /\ group <= Groups
  BY RangesOfCbd
<1>3. e - s \in 0..32
  <2> DEFINE t == TailGroups(width)
             gw == Groups * width
             tw == t * width
  <2>1. t \in 1..15 /\ tw <= 15
    BY <1>1, TailIs
  <2>2. s = (Groups - t) * width
    BY DEF TailStart, HeadGroups
  <2>3. e = gw /\ gw \in Int
    BY <1>1, <1>2, GroupBound
  <2> HIDE DEF t
  <2>4. (Groups - t) * width = gw - tw /\ tw \in Nat
    BY <1>2, <2>1, SMT
  <2> HIDE DEF e, s, gw, tw
  <2>5. QED  BY <2>1, <2>2, <2>3, <2>4
<1>4. ASSUME group < Groups
      PROVE  /\ group < HeadGroups(width) <=> BytesFit(e, 16, o)
             /\ group >= HeadGroups(width) => o >= s /\ BytesFit(32, 16, o - s)
  <2>1. group \in 0..(Groups - 1)
    BY <1>2, <1>4
  <2>2. /\ s \in Int /\ o \in Nat /\ e \in Nat /\ e - s \in 1..15 /\ o + width <= e
        /\ group < HeadGroups(width) => o + 16 <= e
        /\ group >= HeadGroups(width) => o >= s /\ o - s + 15 <= 29 /\ e < o + 16
    BY <1>1, <2>1, GroupOffset
  <2>3. HeadGroups(width) \in Int
    BY <1>1, <1>2, TailIs DEF HeadGroups
  <2> HIDE DEF o, s, e
  <2>4. QED  BY <1>2, <2>2, <2>3 DEF BytesFit
<1>5. ASSUME group < Groups
      PROVE  IF backend = "avx2" THEN VectorFits(8 * Groups, 16, group \div 2)
             ELSE VectorFits(8 * Groups, 8, group)
  <2>1. CASE backend = "avx2"
    <3>1. group % 2 = 0
      BY <2>1 DEF Cursors
    <3>2. group \div 2 < (8 * Groups) \div 16
      BY <1>2, <1>5, <3>1, SMT
    <3>3. QED  BY <2>1, <3>2 DEF VectorFits
  <2>2. CASE backend # "avx2"
    <3>1. group < (8 * Groups) \div 8
      BY <1>2, <1>5, SMT
    <3>2. QED  BY <2>2, <3>1 DEF VectorFits
  <2>3. QED  BY <2>1, <2>2
<1>6. QED  BY <1>3, <1>4, <1>5 DEF AccessesInBounds

\* A call starts with its scratch copy filled and nothing stored.
LEMMA CbdInitInv == Init => CbdIInv
<1> SUFFICES ASSUME Init PROVE CbdIInv
  OBVIOUS
<1>1. PICK b \in {"serial", "avx2", "neon"}, w \in Widths : Prepare(b, w)
  BY InputsAssumption, Zenon DEF Init
<1>2. backend = b /\ width = w /\ Copied /\ group = 0 /\ elems = [i \in 0..(8 * Groups - 1) |-> ZeroWord(16)]
  BY <1>1 DEF Prepare
<1>3. sampling \in BOOLEAN
  BY DEF Init
<1>4. sampling => width \in {6, 8, 10} /\ buf \in [0..(NumBytes(width) - 1) -> 0..255]
  <2> SUFFICES ASSUME sampling PROVE width \in {6, 8, 10} /\ buf \in [0..(NumBytes(width) - 1) -> 0..255]
    OBVIOUS
  <2>1. PICK i \in Inputs : width = i.mu /\ buf = i.bytes
    BY DEF Init, Prepare
  <2>2. i.mu \in {6, 8, 10} /\ i.bytes \in [0..(NumBytes(i.mu) - 1) -> 0..255]
    BY InputsAssumption
  <2>3. QED  BY <2>1, <2>2
<1>5. Groups \in Nat /\ N = 8 * Groups /\ N \in Nat
  BY <1>2, GroupBound
<1>6. pos = 0 /\ coeffs = [c \in 0..(N - 1) |-> 0]
  BY DEF Init
<1>7. CbdTypeOK
  <2>1. backend \in {"serial", "avx2", "neon"} /\ width \in Widths
    BY <1>2
  <2>2. group \in 0..Groups /\ pos \in 0..N
    BY <1>2, <1>5, <1>6
  <2>3. DOMAIN elems = 0..(N - 1) /\ DOMAIN coeffs = 0..(N - 1)
    BY <1>2, <1>5, <1>6
  <2>4. QED  BY <1>3, <1>4, <2>1, <2>2, <2>3 DEF CbdTypeOK
<1>8. Cursors
  BY <1>2, <1>6 DEF Cursors
<1>9. Layout
  <2>1. \A i \in 0..(8 * Groups - 1) : ~(i < 8 * group)
    BY <1>2, <1>5
  <2>2. QED  BY <1>2, <2>1 DEF Layout
<1>10. CentredBinomial
  <2>1. \A c \in 0..(N - 1) : ~(c < pos)
    BY <1>5, <1>6
  <2>2. QED  BY <1>6, <2>1 DEF CentredBinomial
<1>11. QED  BY <1>2, <1>7, <1>8, <1>9, <1>10 DEF CbdIInv

\* A store of the elements of whole groups moves the layout along.
LEMMA StoreIs ==
  ASSUME CbdTypeOK, Layout, NEW n \in Nat, NEW v, DOMAIN v = 0..(8 * n - 1),
         group + n <= Groups, Store(8 * group, v), group' = group + n, width' = width,
         \A j \in 0..(8 * n - 1) : v[j] = Run(16, (8 * group + j) * width, width)
  PROVE  DOMAIN elems' = DOMAIN elems /\ Layout'
<1>1. N = 8 * Groups /\ Groups \in Nat /\ group \in Int /\ 0 <= group
  BY RangesOfCbd
<1>2. DOMAIN elems = 0..(N - 1)
  BY DEF CbdTypeOK
<1>3. elems' = [i \in DOMAIN elems |-> IF i - 8 * group \in DOMAIN v THEN v[i - 8 * group] ELSE elems[i]]
  BY DEF Store
<1>4. ASSUME NEW i \in DOMAIN elems
      PROVE  elems'[i] = IF i < 8 * (group + n) THEN Run(16, i * width, width) ELSE ZeroWord(16)
  <2>1. i \in Int /\ 0 <= i
    BY <1>2
  <2>2. elems[i] = IF i < 8 * group THEN Run(16, i * width, width) ELSE ZeroWord(16)
    BY DEF Layout
  <2>3. CASE i < 8 * group
    <3>1. ~(i - 8 * group \in DOMAIN v) /\ i < 8 * (group + n)
      BY <1>1, <2>1, <2>3
    <3>2. QED  BY <1>3, <2>2, <2>3, <3>1
  <2>4. CASE 8 * group <= i /\ i < 8 * (group + n)
    <3>1. i - 8 * group \in 0..(8 * n - 1) /\ 8 * group + (i - 8 * group) = i
      BY <1>1, <2>1, <2>4
    <3>2. v[i - 8 * group] = Run(16, i * width, width)
      BY <3>1
    <3>3. QED  BY <1>3, <2>4, <3>1, <3>2
  <2>5. CASE i >= 8 * (group + n)
    <3>1. ~(i - 8 * group \in DOMAIN v) /\ ~(i < 8 * group) /\ ~(i < 8 * (group + n))
      BY <1>1, <2>1, <2>5
    <3>2. QED  BY <1>3, <2>2, <3>1
  <2>6. QED  BY <1>1, <2>1, <2>3, <2>4, <2>5
<1>5. DOMAIN elems' = DOMAIN elems
  BY <1>3
<1>6. QED  BY <1>4, <1>5 DEF Layout

\* AVX2 stores two groups, NEON one; both keep the layout.
LEMMA Avx2PairStep ==
  ASSUME CbdIInv, Avx2Pair
  PROVE  /\ DOMAIN elems' = DOMAIN elems /\ Layout' /\ group' \in 0..Groups /\ group' % 2 = 0
         /\ width' = width /\ backend' = backend /\ tail' = tail
<1>1. CbdTypeOK /\ Copied /\ Cursors /\ Layout
  BY DEF CbdIInv
<1>2. /\ width \in 1..13 /\ Groups \in Nat /\ Groups % 2 = 0
      /\ group \in Int /\ 0 <= group /\ group <= Groups
  BY <1>1, RangesOfCbd
<1>3. /\ backend = "avx2" /\ group < Groups /\ group % 2 = 0 /\ width \in Widths
      /\ group' = group + 2 /\ width' = width /\ backend' = backend /\ tail' = tail
  BY <1>1 DEF Avx2Pair, Cursors, CbdTypeOK
<1>4. group \in 0..(Groups - 1) /\ group + 1 \in 0..(Groups - 1) /\ group + 2 <= Groups
      /\ (group + 2) % 2 = 0
  BY <1>2, <1>3, SMT
<1> DEFINE wide(half) == [k \in 0..7 |-> WideElement(group + half, k)]
           a == wide(0)
           b == wide(1)
           v == Permute4x64(Selectors, Packed(a, b))
<1>5. Store(8 * group, v)
  BY Zenon DEF Avx2Pair
<1>6. ASSUME NEW k \in 0..7
      PROVE  /\ a[k] = Run(32, (8 * group + k) * width, width)
             /\ b[k] = Run(32, (8 * (group + 1) + k) * width, width)
  <2>1. group + 0 = group
    BY <1>2
  <2>2. a[k] = WideElement(group, k) /\ b[k] = WideElement(group + 1, k)
    BY <2>1
  <2>3. QED  BY <1>1, <1>3, <1>4, <2>2, WideElementIs
<1> HIDE DEF a, b
<1>7. DOMAIN v = 0..15
  BY PermutedIs
<1>8. \A i \in 0..7 : v[i] = Narrow(a[i])
  BY PermutedIs
<1>9. \A i \in 8..15 : v[i] = Narrow(b[i - 8])
  BY PermutedIs
<1> HIDE DEF v
<1>10. ASSUME NEW j \in 0..15 PROVE v[j] = Run(16, (8 * group + j) * width, width)
  <2>1. CASE j \in 0..7
    BY <1>2, <1>6, <1>8, <2>1, NarrowIs
  <2>2. CASE j \in 8..15
    <3>1. j - 8 \in 0..7 /\ 8 * (group + 1) + (j - 8) = 8 * group + j
      BY <1>2, <2>2
    <3>2. v[j] = Narrow(Run(32, (8 * group + j) * width, width))
      BY <1>6, <1>9, <2>2, <3>1
    <3>3. QED  BY <1>2, <3>2, NarrowIs
  <2>3. QED  BY <2>1, <2>2
<1>11. DOMAIN elems' = DOMAIN elems /\ Layout'
  <2> DEFINE n == 2
  <2>1. n \in Nat /\ 8 * n - 1 = 15 /\ group + n = group + 2
    OBVIOUS
  <2> HIDE DEF n
  <2>2. group + n <= Groups /\ group' = group + n /\ DOMAIN v = 0..(8 * n - 1)
        /\ \A j \in 0..(8 * n - 1) : v[j] = Run(16, (8 * group + j) * width, width)
    BY <1>3, <1>4, <1>7, <1>10, <2>1
  <2>3. QED  BY <1>1, <1>3, <1>5, <2>1, <2>2, StoreIs
<1>12. group' \in 0..Groups
  BY <1>2, <1>3, <1>4
<1>13. QED  BY <1>3, <1>4, <1>11, <1>12

LEMMA NeonGroupStep ==
  ASSUME CbdIInv, NeonGroup
  PROVE  /\ DOMAIN elems' = DOMAIN elems /\ Layout' /\ group' \in 0..Groups
         /\ width' = width /\ backend' = backend /\ tail' = tail
<1>1. CbdTypeOK /\ Copied /\ Layout
  BY DEF CbdIInv
<1>2. /\ width \in 1..13 /\ Groups \in Nat
      /\ group \in Int /\ 0 <= group /\ group <= Groups
  BY <1>1, RangesOfCbd
<1>3. /\ backend = "neon" /\ group < Groups /\ width \in Widths
      /\ group' = group + 1 /\ width' = width /\ backend' = backend /\ tail' = tail
  BY <1>1 DEF NeonGroup, CbdTypeOK
<1>4. group \in 0..(Groups - 1) /\ group + 1 <= Groups
  BY <1>2, <1>3
<1> DEFINE v == [k \in 0..7 |-> Narrow(WideElement(group, k))]
<1>5. Store(8 * group, v)
  BY Zenon DEF NeonGroup
<1>6. ASSUME NEW j \in 0..7 PROVE v[j] = Run(16, (8 * group + j) * width, width)
  <2>1. WideElement(group, j) = Run(32, (8 * group + j) * width, width)
    BY <1>1, <1>3, <1>4, WideElementIs
  <2>2. QED  BY <1>2, <2>1, NarrowIs
<1>7. DOMAIN v = 0..7
  OBVIOUS
<1> HIDE DEF v
<1>8. DOMAIN elems' = DOMAIN elems /\ Layout'
  <2> DEFINE n == 1
  <2>1. n \in Nat /\ 8 * n - 1 = 7 /\ group + n = group + 1
    OBVIOUS
  <2> HIDE DEF n
  <2>2. group + n <= Groups /\ group' = group + n /\ DOMAIN v = 0..(8 * n - 1)
        /\ \A j \in 0..(8 * n - 1) : v[j] = Run(16, (8 * group + j) * width, width)
    BY <1>3, <1>4, <1>6, <1>7, <2>1
  <2>3. QED  BY <1>1, <1>3, <1>5, <2>1, <2>2, StoreIs
<1>9. QED  BY <1>2, <1>3, <1>4, <1>8

\* Every bit of a coefficient's field is a bit of the buffer.
LEMMA FieldBits ==
  ASSUME CbdTypeOK, sampling, NEW c \in 0..(N - 1)
  PROVE  /\ c * width \in Nat
         /\ \A j \in 0..(width - 1) : Bit(c * width + j) \in 0..1
<1> DEFINE e == NumBytes(width)
           m == c * width
<1>1. /\ width \in 1..13 /\ width \in Int /\ N \in Nat /\ Groups \in Nat /\ N = 8 * Groups
      /\ c \in Nat /\ width \in Widths
  <2>1. width \in 1..13 /\ N \in Nat /\ Groups \in Nat /\ N = 8 * Groups
    BY RangesOfCbd
  <2>2. width \in Widths
    BY DEF CbdTypeOK
  <2>3. QED  BY <2>1, <2>2
<1>2. \A x, y \in Nat : x * y \in Nat
  BY SMT
<1>3. m \in Nat
  <2>1. width \in Nat
    BY <1>1
  <2>2. QED  BY <1>1, <1>2, <2>1
<1>4. 8 * e = N * width /\ e \in Nat
  <2>1. e = Groups * width /\ e \in Nat
    BY <1>1, GroupBound
  <2>2. N * width = 8 * (Groups * width)
    BY <1>1, SMT
  <2>3. QED  BY <2>1, <2>2
<1>5. m + width <= 8 * e
  <2> DEFINE d == N - (c + 1)
             dw == d * width
  <2>1. d \in Nat /\ N = d + c + 1
    BY <1>1
  <2>2. width \in Nat
    BY <1>1
  <2> HIDE DEF d
  <2>3. dw \in Nat
    BY <1>2, <2>1, <2>2
  <2>4. N * width = d * width + (c * width + width)
    BY <1>1, <2>1, SMT
  <2>5. 8 * e = dw + (m + width)
    BY <1>4, <2>4
  <2> HIDE DEF e, m, dw
  <2>6. QED  BY <1>1, <1>3, <1>4, <2>3, <2>5
<1>6. buf \in [0..(e - 1) -> 0..255]
  BY Zenon DEF CbdTypeOK
<1> HIDE DEF e, m
<1>7. ASSUME NEW j \in 0..(width - 1) PROVE Bit(m + j) \in 0..1
  <2> DEFINE p == m + j
  <2>1. p \in Nat /\ p < 8 * e
    BY <1>1, <1>3, <1>4, <1>5
  <2> HIDE DEF p
  <2>2. p \div 8 \in 0..(e - 1) /\ p % 8 \in 0..15
    BY <1>4, <2>1, SMT
  <2>3. buf[p \div 8] \in Int
    <3>1. buf[p \div 8] \in 0..255
      <4> DEFINE b == p \div 8
      <4>1. b \in 0..(e - 1)
        BY <2>2
      <4> HIDE DEF b
      <4>2. buf[b] \in 0..255
        BY <1>6, <4>1
      <4>3. QED  BY <4>2 DEF b
    <3>2. QED  BY <3>1
  <2>4. BitOf(buf[p \div 8], p % 8) \in 0..1
    BY <2>2, <2>3, BitRange
  <2>5. QED  BY <2>4 DEF Bit, p
<1>8. QED  BY <1>3, <1>7 DEF m

\* A store of the next coefficients moves the invariant along.
LEMMA StoreCoeffsIs ==
  ASSUME CbdTypeOK, CentredBinomial, NEW values, NEW n \in Nat, n >= 1, Len(values) = n,
         pos + n <= N, StoreCoeffs(values),
         \A k \in 1..n : values[k] = Sampled((pos + k - 1) * width)
  PROVE  /\ DOMAIN coeffs' = DOMAIN coeffs /\ pos' = pos + n /\ pos' \in 0..N
         /\ UNCHANGED <<width, backend, tail, group, elems, sampling, buf>>
         /\ CentredBinomial'
<1>1. N \in Nat /\ pos \in Int /\ 0 <= pos /\ DOMAIN coeffs = 0..(N - 1)
  BY RangesOfCbd DEF CbdTypeOK
<1>2. /\ coeffs' = [c \in DOMAIN coeffs |->
                      IF c - pos \in 0..(n - 1) THEN values[c - pos + 1] ELSE coeffs[c]]
      /\ pos' = pos + n
  BY Zenon DEF StoreCoeffs
<1>3. UNCHANGED <<width, backend, tail, group, elems, sampling, buf>>
  BY DEF StoreCoeffs, vectorVars
<1>4. DOMAIN coeffs' = DOMAIN coeffs
  BY <1>2
<1>5. pos' \in 0..N
  BY <1>1, <1>2
<1>6. ASSUME NEW c \in DOMAIN coeffs
      PROVE  coeffs'[c] = IF c < pos' THEN Sampled(c * width) ELSE 0
  <2>1. c \in Int /\ 0 <= c
    BY <1>1
  <2>2. coeffs[c] = IF c < pos THEN Sampled(c * width) ELSE 0
    BY Zenon DEF CentredBinomial, Sampled
  <2>3. CASE c < pos
    <3>1. ~(c - pos \in 0..(n - 1)) /\ c < pos'
      BY <1>1, <1>2, <2>1, <2>3
    <3>2. QED  BY <1>2, <2>2, <2>3, <3>1
  <2>4. CASE pos <= c /\ c < pos + n
    <3>1. c - pos \in 0..(n - 1) /\ c - pos + 1 \in 1..n /\ pos + (c - pos + 1) - 1 = c /\ c < pos'
      BY <1>1, <1>2, <2>1, <2>4
    <3>2. values[c - pos + 1] = Sampled(c * width)
      BY <3>1
    <3>3. QED  BY <1>2, <3>1, <3>2
  <2>5. CASE c >= pos + n
    <3>1. ~(c - pos \in 0..(n - 1)) /\ ~(c < pos) /\ ~(c < pos')
      BY <1>1, <1>2, <2>1, <2>5
    <3>2. QED  BY <1>2, <2>2, <3>1
  <2>6. QED  BY <1>1, <2>1, <2>3, <2>4, <2>5
<1>7. \A p, q : Ones(p, q)' = Ones(p, q)
  BY <1>3, Zenon DEF Ones, Bit
<1>8. CentredBinomial'
  <2>1. \A c \in DOMAIN coeffs' :
          coeffs'[c] = IF c < pos' THEN U16(Ones(c * width, Half) - Ones(c * width + Half, Half)) ELSE 0
    BY <1>4, <1>6, Zenon DEF Sampled
  <2>2. Half' = Half /\ width' = width
    BY <1>3 DEF Half
  <2>3. QED  BY <1>3, <2>1, <2>2, Zenon DEF CentredBinomial, Ones, Bit
<1>9. QED  BY <1>2, <1>3, <1>4, <1>5, <1>8

\* What a sampling step preserves, whatever it stores.
Sampling(n) ==
  /\ DOMAIN coeffs' = DOMAIN coeffs /\ pos' = pos + n /\ pos' \in 0..N
  /\ UNCHANGED <<width, backend, tail, group, elems, sampling, buf>>
  /\ CentredBinomial'

\* The four ways of sampling each store the next coefficients of the definition.
LEMMA SerialByteStep ==
  ASSUME CbdIInv, SerialByte
  PROVE  Sampling(1)
<1> DEFINE v == <<U16(PopcountU8(And(buf[pos], 15)) - PopcountU8(buf[pos] \div 16))>>
           n == 1
<1>1. CbdTypeOK /\ CentredBinomial
  BY DEF CbdIInv
<1>2. N \in Nat /\ pos \in Int /\ 0 <= pos
  BY <1>1, RangesOfCbd
<1>3. sampling /\ width = 8 /\ pos < N
  BY DEF SerialByte, Portable
<1>4. StoreCoeffs(v)
  BY Zenon DEF SerialByte
<1>5. NumBytes(width) = N
  <2>1. (8 * N) \div 8 = N
    BY <1>2
  <2>2. QED  BY <1>3, <2>1, Zenon DEF NumBytes
<1>6. pos \in Nat /\ buf[pos] \in 0..255
  <2>1. buf \in [0..(N - 1) -> 0..255]
    BY <1>1, <1>3, <1>5 DEF CbdTypeOK
  <2>2. QED  BY <1>2, <1>3, <2>1
<1>7. v[1] = Sampled(8 * pos)
  BY <1>3, <1>6, SerialByteIs
<1>8. Len(v) = 1
  OBVIOUS
<1> HIDE DEF v
<1>9. ASSUME NEW k \in 1..1 PROVE v[k] = Sampled((pos + k - 1) * width)
  <2>1. k = 1 /\ (pos + k - 1) * width = 8 * pos
    BY <1>3, <1>6
  <2>2. QED  BY <1>7, <2>1
<1>10. n \in Nat /\ n >= 1 /\ n = 1
  OBVIOUS
<1> HIDE DEF n
<1>11. Len(v) = n /\ pos + n <= N /\ \A k \in 1..n : v[k] = Sampled((pos + k - 1) * width)
  BY <1>2, <1>3, <1>8, <1>9, <1>10
<1>12. Sampling(n)
  BY <1>1, <1>4, <1>10, <1>11, StoreCoeffsIs DEF Sampling
<1>13. QED  BY <1>10, <1>12

LEMMA SerialGroupStep ==
  ASSUME CbdIInv, SerialGroup
  PROVE  Sampling(4) /\ pos % 4 = 0
<1> DEFINE g == pos \div 4
           raw == IF width = 10 THEN Raw10(5 * g) ELSE Raw6(3 * g)
           v == [k \in 1..4 |-> CbdDiff(raw[k])]
           n == 4
<1>1. CbdTypeOK /\ CentredBinomial /\ Cursors
  BY DEF CbdIInv
<1>2. N \in Nat /\ N % 16 = 0 /\ pos \in Int /\ 0 <= pos
  BY <1>1, RangesOfCbd
<1>3. sampling /\ width # 8 /\ pos < N /\ pos % 4 = 0 /\ width \in {6, 10}
  <2>1. sampling /\ width # 8 /\ pos < N
    BY DEF SerialGroup, Portable
  <2>2. pos % 4 = 0
    BY <1>1, <2>1 DEF SerialGroup, Cursors
  <2>3. width \in {6, 10}
    BY <1>1, <2>1 DEF CbdTypeOK
  <2>4. QED  BY <2>1, <2>2, <2>3
<1>4. StoreCoeffs(v)
  BY Zenon DEF SerialGroup
<1>5. g \in Nat /\ pos = 4 * g /\ pos + 4 <= N
  BY <1>2, <1>3, SMT
<1>6. Len(v) = 4 /\ \A k \in 1..4 : v[k] = CbdDiff(raw[k])
  OBVIOUS
<1> HIDE DEF g
<1>7. ASSUME NEW k \in 1..4
      PROVE  InStream(raw[k], (pos + k - 1) * width, width) /\ (pos + k - 1) * width \in Nat
  <2>1. buf \in [0..(NumBytes(width) - 1) -> 0..255]
    BY <1>1, <1>3 DEF CbdTypeOK
  <2>2. CASE width = 10
    <3>1. NumBytes(width) = (10 * N) \div 8
      BY <2>2, Zenon DEF NumBytes
    <3>2. ASSUME NEW j \in 0..4 PROVE 5 * g + j \in 0..(NumBytes(width) - 1)
      BY <1>2, <1>5, <3>1, SMT
    <3>3. \A j \in 0..4 : buf[5 * g + j] \in 0..255
      BY <2>1, <3>2
    <3>4. InStream(Raw10(5 * g)[k], (4 * g + k - 1) * 10, 10)
      BY <1>5, <3>3, Raw10Is
    <3>5. (4 * g + k - 1) * 10 \in Nat
      BY <1>5
    <3>6. QED  BY <1>5, <2>2, <3>4, <3>5
  <2>3. CASE width = 6
    <3>1. NumBytes(width) = (6 * N) \div 8
      BY <2>3, Zenon DEF NumBytes
    <3>2. ASSUME NEW j \in 0..2 PROVE 3 * g + j \in 0..(NumBytes(width) - 1)
      BY <1>2, <1>5, <3>1, SMT
    <3>3. \A j \in 0..2 : buf[3 * g + j] \in 0..255
      BY <2>1, <3>2
    <3>4. InStream(Raw6(3 * g)[k], (4 * g + k - 1) * 6, 6)
      BY <1>5, <3>3, Raw6Is
    <3>5. (4 * g + k - 1) * 6 \in Nat
      BY <1>5
    <3>6. QED  BY <1>5, <2>3, <3>4, <3>5
  <2>4. QED  BY <1>3, <2>2, <2>3
<1> HIDE DEF raw, v
<1>8. \A k \in 1..4 : v[k] = Sampled((pos + k - 1) * width)
  BY <1>3, <1>6, <1>7, CbdDiffIs
<1>9. n \in Nat /\ n >= 1 /\ n = 4
  OBVIOUS
<1> HIDE DEF n
<1>10. Len(v) = n /\ pos + n <= N /\ \A k \in 1..n : v[k] = Sampled((pos + k - 1) * width)
  BY <1>5, <1>6, <1>8, <1>9
<1>11. Sampling(n)
  BY <1>1, <1>4, <1>9, <1>10, StoreCoeffsIs DEF Sampling
<1>12. QED  BY <1>3, <1>9, <1>11

\* Once every group is unpacked, a lane gives the coefficient of its place.
LEMMA LaneIs ==
  ASSUME CbdTypeOK, Layout, Unpacked, NEW c \in 0..(N - 1)
  PROVE  LaneDiff(c) = Sampled(c * width)
<1>1. /\ N = 8 * Groups /\ Groups \in Nat /\ group = Groups /\ sampling /\ ~Portable
      /\ DOMAIN elems = 0..(N - 1) /\ width \in {6, 8, 10}
      /\ backend \in {"serial", "avx2", "neon"}
  BY RangesOfCbd DEF Unpacked, CbdTypeOK
<1>2. backend \in {"avx2", "neon"}
  BY <1>1 DEF Portable
<1>3. elems[c] = Run(16, c * width, width)
  <2>1. c \in DOMAIN elems /\ c < 8 * group
    BY <1>1
  <2>2. QED  BY <2>1 DEF Layout
<1>4. c * width \in Nat /\ \A j \in 0..(width - 1) : Bit(c * width + j) \in 0..1
  BY <1>1, FieldBits
<1>5. QED  BY <1>1, <1>2, <1>3, <1>4, LaneDiffIs

LEMMA Avx2VectorStep ==
  ASSUME CbdIInv, Avx2Vector
  PROVE  Sampling(16) /\ pos % 16 = 0
<1> DEFINE v == [k \in 1..16 |-> LaneDiff(pos + k - 1)]
           n == 16
<1>1. CbdTypeOK /\ CentredBinomial /\ Cursors /\ Layout
  BY DEF CbdIInv
<1>2. N \in Nat /\ N % 16 = 0 /\ pos \in Int /\ 0 <= pos
  BY <1>1, RangesOfCbd
<1>3. Unpacked /\ pos < N /\ pos % 16 = 0
  BY <1>1 DEF Avx2Vector, Cursors
<1>4. StoreCoeffs(v)
  BY Zenon DEF Avx2Vector
<1>5. pos + 16 <= N
  BY <1>2, <1>3, SMT
<1>6. Len(v) = 16 /\ \A k \in 1..16 : v[k] = LaneDiff(pos + k - 1)
  OBVIOUS
<1> HIDE DEF v
<1>7. ASSUME NEW k \in 1..16 PROVE v[k] = Sampled((pos + k - 1) * width)
  <2>1. pos + k - 1 \in 0..(N - 1)
    BY <1>2, <1>5
  <2>2. QED  BY <1>1, <1>3, <1>6, <2>1, LaneIs
<1>8. n \in Nat /\ n >= 1 /\ n = 16
  OBVIOUS
<1> HIDE DEF n
<1>9. Len(v) = n /\ pos + n <= N /\ \A k \in 1..n : v[k] = Sampled((pos + k - 1) * width)
  BY <1>5, <1>6, <1>7, <1>8
<1>10. Sampling(n)
  BY <1>1, <1>4, <1>8, <1>9, StoreCoeffsIs DEF Sampling
<1>11. QED  BY <1>3, <1>8, <1>10

LEMMA NeonVectorStep ==
  ASSUME CbdIInv, NeonVector
  PROVE  Sampling(8) /\ pos % 8 = 0
<1> DEFINE v == [k \in 1..8 |-> LaneDiff(pos + k - 1)]
           n == 8
<1>1. CbdTypeOK /\ CentredBinomial /\ Cursors /\ Layout
  BY DEF CbdIInv
<1>2. N \in Nat /\ N % 16 = 0 /\ pos \in Int /\ 0 <= pos
  BY <1>1, RangesOfCbd
<1>3. Unpacked /\ pos < N /\ pos % 8 = 0
  BY <1>1 DEF NeonVector, Cursors, Unpacked
<1>4. StoreCoeffs(v)
  BY Zenon DEF NeonVector
<1>5. pos + 8 <= N
  BY <1>2, <1>3, SMT
<1>6. Len(v) = 8 /\ \A k \in 1..8 : v[k] = LaneDiff(pos + k - 1)
  OBVIOUS
<1> HIDE DEF v
<1>7. ASSUME NEW k \in 1..8 PROVE v[k] = Sampled((pos + k - 1) * width)
  <2>1. pos + k - 1 \in 0..(N - 1)
    BY <1>2, <1>5
  <2>2. QED  BY <1>1, <1>3, <1>6, <2>1, LaneIs
<1>8. n \in Nat /\ n >= 1 /\ n = 8
  OBVIOUS
<1> HIDE DEF n
<1>9. Len(v) = n /\ pos + n <= N /\ \A k \in 1..n : v[k] = Sampled((pos + k - 1) * width)
  BY <1>5, <1>6, <1>7, <1>8
<1>10. Sampling(n)
  BY <1>1, <1>4, <1>8, <1>9, StoreCoeffsIs DEF Sampling
<1>11. QED  BY <1>3, <1>8, <1>10
-----------------------------------------------------------------------------
\* A sampling step keeps the rest of the invariant.
LEMMA SamplingInv ==
  ASSUME CbdIInv, NEW n, Sampling(n), pos' > 0 => Portable \/ Unpacked,
         backend = "avx2" => pos' % 16 = 0,
         backend = "neon" /\ ~Portable => pos' % 8 = 0,
         Portable /\ width # 8 => pos' % 4 = 0
  PROVE  CbdIInv'
<1>1. CbdTypeOK /\ Copied /\ Cursors /\ Layout
  BY DEF CbdIInv
<1>2. UNCHANGED <<width, backend, tail, group, elems, sampling, buf>>
  BY DEF Sampling
<1>3. /\ Groups' = Groups /\ NumBytes(width)' = NumBytes(width) /\ Portable' = Portable
      /\ Unpacked' = Unpacked
  BY <1>2, Zenon DEF Groups, NumBytes, Portable, Unpacked
<1>4. CbdTypeOK'
  BY <1>1, <1>2, <1>3 DEF CbdTypeOK, Sampling
<1>5. Copied' /\ Layout'
  BY <1>1, <1>2, Zenon DEF Copied, Layout, NumBytes, TailStart, HeadGroups, Groups, TailGroups, Byte
<1>6. Cursors'
  BY <1>1, <1>2, <1>3 DEF Cursors
<1>7. QED  BY <1>4, <1>5, <1>6 DEF CbdIInv, Sampling

\* A step of a deserializer keeps the invariant.
LEMMA FieldsInv ==
  ASSUME CbdIInv, Fields
  PROVE  CbdIInv'
<1>1. CbdTypeOK /\ Copied /\ Cursors /\ Layout /\ CentredBinomial
  BY DEF CbdIInv
<1>2. ~Portable /\ UnpackGroups /\ UNCHANGED <<sampling, buf, pos, coeffs>>
  BY DEF Fields
<1>3. /\ DOMAIN elems' = DOMAIN elems /\ Layout' /\ group' \in 0..Groups
      /\ backend = "avx2" => group' % 2 = 0
      /\ width' = width /\ backend' = backend /\ tail' = tail /\ group < Groups
  <2>1. CASE Avx2Pair
    BY <2>1, Avx2PairStep DEF Avx2Pair
  <2>2. CASE NeonGroup
    BY <2>2, NeonGroupStep DEF NeonGroup
  <2>3. QED  BY <1>2, <2>1, <2>2 DEF UnpackGroups
<1>4. Groups' = Groups /\ NumBytes(width)' = NumBytes(width) /\ Portable' = Portable
  BY <1>2, <1>3, Zenon DEF Groups, NumBytes, Portable
<1>5. pos = 0
  <2>1. ~Unpacked
    BY <1>1, <1>3, RangesOfCbd DEF Unpacked
  <2>2. pos \in Int /\ 0 <= pos
    BY <1>1, RangesOfCbd
  <2>3. QED  BY <1>1, <1>2, <2>1, <2>2 DEF Cursors
<1>6. CbdTypeOK'
  BY <1>1, <1>2, <1>3, <1>4 DEF CbdTypeOK
<1>7. Copied'
  BY <1>1, <1>3, Zenon DEF Copied, NumBytes, TailStart, HeadGroups, Groups, TailGroups, Byte
<1>8. Cursors'
  <2>1. pos' % 16 = 0 /\ pos' % 8 = 0 /\ pos' % 4 = 0 /\ ~(pos' > 0)
    BY <1>2, <1>5
  <2>2. QED  BY <1>3, <2>1, Zenon DEF Cursors
<1>9. CentredBinomial'
  <2>1. Half' = Half /\ width' = width
    BY <1>3, Zenon DEF Half
  <2>2. QED  BY <1>1, <1>2, <2>1, Zenon DEF CentredBinomial, Ones, Bit
<1>10. QED  BY <1>3, <1>6, <1>7, <1>8, <1>9 DEF CbdIInv

\* Every step keeps the invariant.
LEMMA CbdStepInv == CbdIInv /\ [Next]_vars => CbdIInv'
<1> SUFFICES ASSUME CbdIInv, [Next]_vars PROVE CbdIInv'
  OBVIOUS
<1>1. CbdTypeOK /\ Cursors
  BY DEF CbdIInv
<1>2. N \in Nat /\ pos \in Int /\ 0 <= pos /\ group \in Int
  BY <1>1, RangesOfCbd
<1>3. CASE Fields
  BY <1>3, FieldsInv
<1>4. CASE SerialByte
  <2>1. Sampling(1) /\ Portable /\ width = 8
    BY <1>4, SerialByteStep DEF SerialByte
  <2>2. backend # "avx2"
    BY <2>1 DEF Portable
  <2>3. QED  BY <2>1, <2>2, SamplingInv
<1>5. CASE SerialGroup
  <2>1. Sampling(4) /\ Portable /\ pos % 4 = 0
    BY <1>5, SerialGroupStep DEF SerialGroup
  <2>2. backend # "avx2"
    BY <2>1 DEF Portable
  <2>3. pos' = pos + 4
    BY <2>1 DEF Sampling
  <2>4. pos' % 4 = 0
    BY <1>2, <2>1, <2>3, SMT
  <2>5. QED  BY <2>1, <2>2, <2>4, SamplingInv
<1>6. CASE Avx2Vector
  <2>1. Sampling(16) /\ Unpacked /\ pos % 16 = 0 /\ backend = "avx2"
    BY <1>6, Avx2VectorStep DEF Avx2Vector
  <2>2. ~Portable
    BY <2>1 DEF Unpacked
  <2>3. pos' = pos + 16
    BY <2>1 DEF Sampling
  <2>4. pos' % 16 = 0
    BY <1>2, <2>1, <2>3, SMT
  <2>5. QED  BY <2>1, <2>2, <2>4, SamplingInv
<1>7. CASE NeonVector
  <2>1. Sampling(8) /\ Unpacked /\ pos % 8 = 0 /\ backend = "neon"
    BY <1>7, NeonVectorStep DEF NeonVector
  <2>2. ~Portable
    BY <2>1 DEF Unpacked
  <2>3. pos' = pos + 8
    BY <2>1 DEF Sampling
  <2>4. pos' % 8 = 0
    BY <1>2, <2>1, <2>3, SMT
  <2>5. QED  BY <2>1, <2>2, <2>4, SamplingInv
<1>8. CASE UNCHANGED vars
  <2>1. UNCHANGED <<width, backend, tail, group, elems, sampling, buf, pos, coeffs>>
    BY <1>8 DEF vars, vectorVars
  <2>2. QED  BY <2>1, Zenon DEF CbdIInv, CbdTypeOK, Copied, Cursors, Layout, CentredBinomial,
               NumBytes, TailStart, HeadGroups, Groups, TailGroups, Byte, Portable, Unpacked,
               Half, Ones, Bit
<1>9. QED  BY <1>3, <1>4, <1>5, <1>6, <1>7, <1>8 DEF Next

\* The vector deserializers' and the samplers' invariant, from which the three
\* properties below follow.
THEOREM CbdInvariance == Spec => []CbdIInv
<1>1. Init => CbdIInv
  BY CbdInitInv
<1>2. CbdIInv /\ [Next]_vars => CbdIInv'
  BY CbdStepInv
<1>3. QED  BY <1>1, <1>2, PTL DEF Spec

\* Both vector deserializers store every element as its own `width` bits of the
\* stream, in order, for every width of the plan tables and every number of elements.
THEOREM LayoutHolds == Spec => []Layout
<1>1. CbdIInv => Layout
  BY DEF CbdIInv
<1>2. QED  BY <1>1, CbdInvariance, PTL

\* The portable sampler and both vector samplers store, for every content of the XOF
\* output, the difference of the numbers of ones in the halves of the coefficient's field.
THEOREM CentredBinomialHolds == Spec => []CentredBinomial
<1>1. CbdIInv => CentredBinomial
  BY DEF CbdIInv
<1>2. QED  BY <1>1, CbdInvariance, PTL

\* No load or store of a vector deserializer leaves its array, and the scratch copy
\* serves exactly the groups the slice cannot.
THEOREM AccessesInBoundsHolds == Spec => []AccessesInBounds
<1>1. CbdIInv => AccessesInBounds
  BY AccessesInv DEF CbdIInv
<1>2. QED  BY <1>1, CbdInvariance, PTL
=============================================================================
