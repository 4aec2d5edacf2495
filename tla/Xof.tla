---------------------------------- MODULE Xof ---------------------------------
(***************************************************************************)
(* One call of xof4 (Ways = 4, src/src/backend/avx2/keccak.rs) or xof2     *)
(* (Ways = 2, src/src/backend/neon/keccak.rs): several sponges side by     *)
(* side in the lanes of vector registers.  The caller's buffers may hold   *)
(* what an earlier call left in them.                                      *)
(*                                                                         *)
(* A word is named by the input suffix of its sponge, the number of        *)
(* permutations behind it and its place in the state; a byte by the same   *)
(* suffix and number and its place in the block.                           *)
(***************************************************************************)
EXTENDS Memory

CONSTANTS Ways,     \* sponges side by side
          Calls,    \* [rate, n]: the rate and the output length, in bytes
          Suffixes  \* what may follow the common prefix of the lanes' inputs

ASSUME WaysAssumption == Ways \in {2, 4}
ASSUME CallsAssumption == \A c \in Calls : c.rate \in {168, 136} /\ c.n \in Nat \ {0}

Lanes == 0..(Ways - 1)
PLEN == 25

VARIABLES rate, n,   \* the call's
          suffixes,  \* the input suffix of each lane
          phase,     \* "ready", "absorb", "permute", "squeeze", "returned"
          state,     \* vector per word of the sponge, a word per lane
          word, done,
          out        \* a buffer per lane

call == <<rate, n, suffixes>>
vars == <<call, phase, state, word, done, out>>

Word(suffix, block, w) == [suffix |-> suffix, block |-> block, word |-> w]
Zero    == Word(<<>>, -1, 0)
Garbage == Word(<<>>, -2, 0)

\* Byte k of a word; and byte p of the stream of the sponge fed with suffix.
ByteOf(x, k) == [suffix |-> x.suffix, block |-> x.block, pos |-> 8 * x.word + k]
StreamByte(suffix, p) == [suffix |-> suffix, block |-> (p \div rate) + 1, pos |-> p % rate]
Stale == ByteOf(Zero, 0)
-----------------------------------------------------------------------------
\* Shuffles of 64-bit lanes.

UnpackLo(a, b) == [i \in 0..3 |-> IF i % 2 = 0 THEN a[i] ELSE b[i - 1]]
UnpackHi(a, b) == [i \in 0..3 |-> IF i % 2 = 0 THEN a[i + 1] ELSE b[i]]
Permute2x20(a, b) == [i \in 0..3 |-> IF i < 2 THEN a[i] ELSE b[i - 2]]
Permute2x31(a, b) == [i \in 0..3 |-> IF i < 2 THEN a[i + 2] ELSE b[i]]

\* Mutant of Transpose4x64: the middle two results swapped.
Transpose4x64Swapped(v) ==
  LET t0 == UnpackLo(v[0], v[1])  t1 == UnpackHi(v[0], v[1])
      t2 == UnpackLo(v[2], v[3])  t3 == UnpackHi(v[2], v[3])
  IN  [i \in 0..3 |-> CASE i = 0 -> Permute2x20(t0, t2) [] i = 1 -> Permute2x31(t0, t2)
                        [] i = 2 -> Permute2x20(t1, t3) [] i = 3 -> Permute2x31(t1, t3)]

Transpose4x64(v) ==
  LET t0 == UnpackLo(v[0], v[1])  t1 == UnpackHi(v[0], v[1])
      t2 == UnpackLo(v[2], v[3])  t3 == UnpackHi(v[2], v[3])
  IN  [i \in 0..3 |-> CASE i = 0 -> Permute2x20(t0, t2) [] i = 1 -> Permute2x20(t1, t3)
                        [] i = 2 -> Permute2x31(t0, t2) [] i = 3 -> Permute2x31(t1, t3)]

\* trn1_64 and trn2_64
Trn(i, a, b) == [j \in 0..1 |-> IF j = 0 THEN a[i] ELSE b[i]]

Transpose(v) ==
  IF Ways = 4 THEN Transpose4x64(v) ELSE [i \in 0..1 |-> Trn(i, v[0], v[1])]
-----------------------------------------------------------------------------
Minimum(a, b) == IF a < b THEN a ELSE b

\* Words of the rate, and of the output that the current block still gives.
RateWords == rate \div 8
Take == Minimum(rate, n - done)

Words == (Take + 7) \div 8

Start == done + 8 * word

\* The call, with the caller's buffers: new, or those of an earlier call.
Call(c, sfx) ==
  /\ phase \in {"ready", "returned"}
  /\ rate' = c.rate /\ n' = c.n /\ suffixes' = sfx
  /\ state' = [w \in 0..(PLEN - 1) |-> [l \in Lanes |-> Zero]]
  /\ word' = 0 /\ done' = 0
  /\ phase' = "absorb"
  /\ \/ out' = [l \in Lanes |-> [p \in 0..(c.n - 1) |-> Stale]]
     \/ n = c.n /\ UNCHANGED out

\* pad_block, word by word: the input block of a lane.
BlockWord(l, w) == Word(suffixes[l], 0, w)

AbsorbGroup ==
  /\ phase = "absorb"
  /\ word + Ways <= RateWords
  /\ LET group == Transpose([l \in Lanes |-> [j \in Lanes |-> BlockWord(l, word + j)]])
     IN  state' = [w \in 0..(PLEN - 1) |-> IF w - word \in Lanes THEN group[w - word] ELSE state[w]]
  /\ word' = word + Ways
  /\ UNCHANGED <<call, phase, done, out>>

\* The odd words at the end of the block.
AbsorbWord ==
  /\ phase = "absorb"
  /\ word + Ways > RateWords /\ word < RateWords
  /\ state' = [w \in 0..(PLEN - 1) |->
                 IF w = word THEN [l \in Lanes |-> BlockWord(l, w)] ELSE state[w]]
  /\ word' = word + 1
  /\ UNCHANGED <<call, phase, done, out>>

\* The permutation of one lane: of a whole input block over a zero capacity,
\* or of a whole earlier state.
Coherent(l) ==
  \A w \in 0..(PLEN - 1) :
    state[w][l] = IF state[0][l].block = 0 /\ w >= RateWords THEN Zero
                  ELSE Word(state[0][l].suffix, state[0][l].block, w)

PermutedLane(l, w) ==
  IF Coherent(l) THEN Word(state[0][l].suffix, state[0][l].block + 1, w) ELSE Garbage

Permute ==
  /\ phase = "permute" \/ (phase = "absorb" /\ word = RateWords)
  /\ done < n
  /\ state' = [w \in 0..(PLEN - 1) |-> [l \in Lanes |-> PermutedLane(l, w)]]
  /\ word' = 0
  /\ phase' = "squeeze"
  /\ UNCHANGED <<call, done, out>>

\* Mutant of FitsGroup: the store is not checked against the output length.
FitsGroupUnchecked == word + Ways <= Words

FitsGroup == word + Ways <= Words /\ Start + 8 * Ways <= n

SqueezeGroup ==
  /\ phase = "squeeze"
  /\ FitsGroup
  /\ LET group == Transpose([j \in Lanes |-> state[word + j]])
     IN  out' = [l \in Lanes |-> [p \in 0..(n - 1) |->
                   IF p - Start \in 0..(8 * Ways - 1)
                   THEN ByteOf(group[l][(p - Start) \div 8], (p - Start) % 8)
                   ELSE out[l][p]]]
  /\ word' = word + Ways
  /\ UNCHANGED <<call, phase, state, done>>

\* A word at a time, the last one perhaps in part.
SqueezeWord ==
  /\ phase = "squeeze"
  /\ ~FitsGroup /\ word < Words
  /\ out' = [l \in Lanes |-> [p \in 0..(n - 1) |->
               IF p - Start \in 0..(Minimum(8, n - Start) - 1)
               THEN ByteOf(state[word][l], p - Start) ELSE out[l][p]]]
  /\ word' = word + 1
  /\ UNCHANGED <<call, phase, state, done>>

BlockDone ==
  /\ phase = "squeeze"
  /\ word >= Words
  /\ done' = done + Take
  /\ phase' = "permute"
  /\ UNCHANGED <<call, state, word, out>>

Return ==
  /\ phase = "permute"
  /\ done >= n
  /\ phase' = "returned"
  /\ UNCHANGED <<call, state, word, done, out>>

Step ==
  \/ AbsorbGroup \/ AbsorbWord \/ Permute
  \/ SqueezeGroup \/ SqueezeWord \/ BlockDone \/ Return

Init ==
  /\ \E c \in Calls : rate = c.rate /\ n = c.n
  /\ suffixes = [l \in Lanes |-> Zero.suffix]
  /\ phase = "ready"
  /\ state = [w \in 0..(PLEN - 1) |-> [l \in Lanes |-> Zero]]
  /\ word = 0 /\ done = 0
  /\ out = [l \in Lanes |-> [p \in 0..(n - 1) |-> Stale]]

Next == Step \/ \E c \in Calls, sfx \in [Lanes -> Suffixes] : Call(c, sfx)

Spec == Init /\ [][Next]_vars
-----------------------------------------------------------------------------
TypeOK ==
  /\ rate \in {168, 136} /\ n \in Nat \ {0}
  /\ DOMAIN suffixes = Lanes
  /\ phase \in {"ready", "absorb", "permute", "squeeze", "returned"}
  /\ word \in 0..RateWords
  /\ done \in 0..n /\ (phase = "returned" => done = n)
  /\ DOMAIN out = Lanes /\ \A l \in Lanes : out[l] = [p \in 0..(n - 1) |-> out[l][p]]

\* How far the output has got.
Reached == IF phase = "squeeze" THEN Minimum(Start, n) ELSE done

\* Each lane is one sponge: its own input, then that input permuted as often as
\* the output so far needs.
LanesApart ==
  /\ phase = "absorb" =>
       /\ done = 0
       /\ \A w \in 0..(PLEN - 1), l \in Lanes :
            state[w][l] = IF w < word THEN BlockWord(l, w) ELSE Zero
  /\ phase = "squeeze" =>
       /\ done % rate = 0 /\ done < n
       /\ \A w \in 0..(PLEN - 1), l \in Lanes :
            state[w][l] = Word(suffixes[l], (done \div rate) + 1, w)
  /\ phase = "permute" /\ done < n =>
       /\ done % rate = 0 /\ done > 0
       /\ \A w \in 0..(PLEN - 1), l \in Lanes :
            state[w][l] = Word(suffixes[l], done \div rate, w)

\* Every output byte behind the cursor is the byte at its place in the lane's
\* own stream.
Written ==
  phase \in {"permute", "squeeze", "returned"} =>
    \A l \in Lanes : \A p \in 0..(Reached - 1) : out[l][p] = StreamByte(suffixes[l], p)

IInv == TypeOK /\ LanesApart /\ Written

\* What a call returns is, in every lane and every byte, what a sponge of its
\* own would have returned: nothing crossed lanes, and nothing of what was in
\* the buffers is left (avx2/keccak.rs:216-218, neon/sample.rs:97-98).
Exact ==
  phase = "returned" =>
    \A l \in Lanes : \A p \in 0..(n - 1) : out[l][p] = StreamByte(suffixes[l], p)

\* A wide load ends inside the padded block and a wide store inside the buffer,
\* as their accessors assert; the narrow store begins inside the buffer, so that
\* n - start does not wrap (avx2/keccak.rs:266-330).
InBounds ==
  /\ phase = "absorb" /\ word + Ways <= RateWords => BytesFit(rate, 8 * Ways, 8 * word)
  /\ phase = "squeeze" =>
       /\ FitsGroup => BytesFit(n, 8 * Ways, Start)
       /\ word < Words => Start < n
=============================================================================
