------------------------------ MODULE SampleProofs ----------------------------
(***************************************************************************)
(* The multi-lane sponges return, lane by lane and byte by byte, what one  *)
(* sponge per lane would: for every sequence of calls, every output length *)
(* and whatever the buffers held before.  And sampling in batches, which   *)
(* calls them, gives what the portable loop gives, for every number of     *)
(* lanes and every rank.                                                   *)
(***************************************************************************)
EXTENDS Sample, TLAPS

\* The shuffles transpose.
LEMMA TransposeEntry ==
  ASSUME NEW v, NEW l \in Lanes, NEW j \in Lanes
  PROVE  Transpose(v)[l][j] = v[j][l]
<1>1. CASE Ways = 2
  <2>1. l \in 0..1 /\ j \in 0..1
    BY <1>1 DEF Lanes
  <2>2. Transpose(v)[l] = Trn(l, v[0], v[1])
    BY <1>1, <2>1 DEF Transpose
  <2>3. QED
    BY <2>1, <2>2 DEF Trn
<1>2. CASE Ways = 4
  <2> DEFINE t0 == UnpackLo(v[0], v[1])
             t1 == UnpackHi(v[0], v[1])
             t2 == UnpackLo(v[2], v[3])
             t3 == UnpackHi(v[2], v[3])
  <2>1. l \in 0..3 /\ j \in 0..3
    BY <1>2 DEF Lanes
  <2>2. /\ t0[0] = v[0][0] /\ t0[1] = v[1][0] /\ t0[2] = v[0][2] /\ t0[3] = v[1][2]
        /\ t2[0] = v[2][0] /\ t2[1] = v[3][0] /\ t2[2] = v[2][2] /\ t2[3] = v[3][2]
    BY SMT DEF UnpackLo
  <2>3. /\ t1[0] = v[0][1] /\ t1[1] = v[1][1] /\ t1[2] = v[0][3] /\ t1[3] = v[1][3]
        /\ t3[0] = v[2][1] /\ t3[1] = v[3][1] /\ t3[2] = v[2][3] /\ t3[3] = v[3][3]
    BY SMT DEF UnpackHi
  <2>4. Transpose(v) = [i \in 0..3 |-> CASE i = 0 -> Permute2x20(t0, t2)
                                         [] i = 1 -> Permute2x20(t1, t3)
                                         [] i = 2 -> Permute2x31(t0, t2)
                                         [] i = 3 -> Permute2x31(t1, t3)]
    BY <1>2 DEF Transpose, Transpose4x64
  <2> HIDE DEF t0, t1, t2, t3
  <2>5. /\ Transpose(v)[0] = Permute2x20(t0, t2) /\ Transpose(v)[1] = Permute2x20(t1, t3)
        /\ Transpose(v)[2] = Permute2x31(t0, t2) /\ Transpose(v)[3] = Permute2x31(t1, t3)
    BY <2>4, SMT
  <2>6. \A a, b : \A i \in 0..3 :
          /\ Permute2x20(a, b)[i] = IF i < 2 THEN a[i] ELSE b[i - 2]
          /\ Permute2x31(a, b)[i] = IF i < 2 THEN a[i + 2] ELSE b[i]
    BY DEF Permute2x20, Permute2x31
  <2>7. CASE l = 0
    BY <2>1, <2>2, <2>5, <2>6, <2>7, SMT
  <2>8. CASE l = 1
    BY <2>1, <2>3, <2>5, <2>6, <2>8, SMT
  <2>9. CASE l = 2
    BY <2>1, <2>2, <2>5, <2>6, <2>9, SMT
  <2>10. CASE l = 3
    BY <2>1, <2>3, <2>5, <2>6, <2>10, SMT
  <2>11. QED
    BY <2>1, <2>7, <2>8, <2>9, <2>10, SMT
<1>3. QED
  BY <1>1, <1>2, WaysAssumption

\* Both rates are whole numbers of words.
LEMMA RateDiv ==
  ASSUME NEW r \in {168, 136}
  PROVE  r \div 8 \in {21, 17} /\ 0 \in 0..(r \div 8)
OBVIOUS

\* How the lengths of one block's output relate.
LEMMA Sizes ==
  ASSUME rate \in {168, 136}, n \in Nat \ {0}, done \in 0..n
  PROVE  /\ RateWords \in {21, 17} /\ 8 * RateWords = rate
         /\ Take \in 0..rate /\ Take <= n - done /\ Words \in 0..RateWords
         /\ Take <= 8 * Words /\ 8 * Words < Take + 8
         /\ (done + Take = n \/ Take = rate)
         /\ (done < n => Take > 0)
<1>1. RateWords \in {21, 17} /\ 8 * RateWords = rate
  BY SMT DEF RateWords
<1>2. /\ Take \in 0..rate /\ Take <= n - done
      /\ (done + Take = n \/ Take = rate) /\ (done < n => Take > 0)
  BY SMT DEF Take, Minimum
<1> DEFINE t == Take
<1>3. Words = (t + 7) \div 8 /\ t \in 0..rate
  BY <1>2 DEF Words
<1>4. QED
  <2> HIDE DEF t
  <2>1. Words \in 0..RateWords /\ t <= 8 * Words /\ 8 * Words < t + 8
    BY <1>1, <1>3, SMT
  <2>2. QED
    BY <1>1, <1>2, <2>1 DEF t

\* A byte of a word of sponge output, by its position in the block.
LEMMA ByteOfWord ==
  ASSUME NEW s, NEW b, NEW w, NEW k
  PROVE  ByteOf(Word(s, b, w), k) = [suffix |-> s, block |-> b, pos |-> 8 * w + k]
BY DEF ByteOf, Word

\* The invariant keeps every access inside its array.
LEMMA InvInBounds == IInv => InBounds
<1> SUFFICES ASSUME IInv PROVE InBounds
  OBVIOUS
<1>1. /\ Take <= n - done /\ 8 * Words < Take + 8 /\ Take \in Int /\ Words \in Int
      /\ n \in Int /\ done \in Int /\ word \in Int
  BY Sizes DEF IInv, TypeOK
<1> DEFINE t == Take
           m == Words
<1>2. word < m => done + 8 * word < n
  <2> HIDE DEF t, m
  <2>1. t <= n - done /\ 8 * m < t + 8 /\ t \in Int /\ m \in Int
    BY <1>1 DEF t, m
  <2>2. QED
    BY <1>1, <2>1, SMT
<1>3. Ways \in {2, 4}
  BY WaysAssumption
<1>4. word + Ways <= RateWords => BytesFit(rate, 8 * Ways, 8 * word)
  <2> DEFINE r == RateWords
  <2>1. rate = 8 * r /\ r \in Int
    BY Sizes DEF IInv, TypeOK
  <2> HIDE DEF r
  <2>2. word + Ways <= r => 8 * word <= 8 * r /\ 8 * r - 8 * word >= 8 * Ways
    BY <1>1, <1>3, <2>1, SMT
  <2>3. QED
    BY <2>1, <2>2 DEF BytesFit, r
<1>5. FitsGroup => BytesFit(n, 8 * Ways, Start)
  <2>1. FitsGroup => done + 8 * word + 8 * Ways <= n
    BY DEF FitsGroup, Start
  <2>2. FitsGroup => done + 8 * word <= n /\ n - (done + 8 * word) >= 8 * Ways
    BY <1>1, <1>3, <2>1, SMT
  <2>3. QED
    BY <2>2 DEF BytesFit, Start
<1>6. QED
  BY <1>2, <1>4, <1>5 DEF InBounds, Start

\* The invariant gives the exactness property.
LEMMA InvExact == IInv => Exact
<1> SUFFICES ASSUME IInv, phase = "returned", NEW l \in Lanes, NEW p \in 0..(n - 1)
             PROVE  out[l][p] = StreamByte(suffixes[l], p)
  BY DEF Exact
<1>1. Reached = n
  BY DEF IInv, TypeOK, Reached
<1>2. QED
  BY <1>1 DEF IInv, Written-----------------------------------------------------------------------------
\* The invariant holds of the initial states.
LEMMA InitInv == Init => IInv
<1> SUFFICES ASSUME Init PROVE IInv
  OBVIOUS
<1>1. /\ rate \in {168, 136} /\ n \in Nat \ {0}
      /\ phase = "ready" /\ word = 0 /\ done = 0 /\ DOMAIN suffixes = Lanes
      /\ DOMAIN out = Lanes /\ \A l \in Lanes : out[l] = [p \in 0..(n - 1) |-> out[l][p]]
  BY CallsAssumption DEF Init
<1>2. RateWords \in {21, 17} /\ done \in 0..n
  <2>1. done \in 0..n
    BY <1>1, SMT
  <2>2. QED
    BY <1>1, <2>1, Sizes
<1>3. TypeOK
  <2>1. word \in 0..RateWords
    BY <1>1, <1>2, SMT
  <2>2. QED
    BY <1>1, <1>2, <2>1 DEF TypeOK
<1>4. LanesApart /\ Written
  BY <1>1 DEF LanesApart, Written
<1>5. QED
  BY <1>3, <1>4 DEF IInv

\* A new call keeps the invariant.
LEMMA CallInv ==
  ASSUME IInv, NEW c \in Calls, NEW sfx \in [Lanes -> Suffixes], Call(c, sfx)
  PROVE  IInv'
<1>1. /\ rate' \in {168, 136} /\ n' \in Nat \ {0} /\ n' = c.n
      /\ phase' = "absorb" /\ word' = 0 /\ done' = 0 /\ DOMAIN suffixes' = Lanes
  BY CallsAssumption DEF Call
<1>2. DOMAIN out' = Lanes /\ \A l \in Lanes : out'[l] = [p \in 0..(n' - 1) |-> out'[l][p]]
  <2>1. CASE out' = [l \in Lanes |-> [p \in 0..(c.n - 1) |-> Stale]]
    BY <1>1, <2>1
  <2>2. CASE n = c.n /\ out' = out
    BY <1>1, <2>2 DEF IInv, TypeOK
  <2>3. QED
    BY <2>1, <2>2 DEF Call
<1>3. TypeOK'
  <2>1. word' \in 0..RateWords' /\ done' \in 0..n'
    <3>1. 0 \in 0..(rate' \div 8)
      BY <1>1, RateDiv
    <3>2. \A m \in Nat \ {0} : 0 \in 0..m
      OBVIOUS
    <3>3. QED
      BY <1>1, <3>1, <3>2 DEF RateWords
  <2>2. QED
    BY <1>1, <1>2, <2>1 DEF TypeOK
<1>4. LanesApart'
  <2>1. \A w \in 0..(PLEN - 1), l \in Lanes : state'[w][l] = Zero /\ ~(w < 0)
    BY SMT DEF Call, PLEN
  <2>2. QED
    BY <1>1, <2>1 DEF LanesApart
<1>5. Written'
  BY <1>1 DEF Written
<1>6. QED
  BY <1>3, <1>4, <1>5 DEF IInv

\* What absorbing a word or a group of words has in common: words up to the new
\* cursor are the block's, the rest is as it was.
LEMMA AbsorbInv ==
  ASSUME IInv, phase = "absorb", NEW k \in Int, 0 < k, word + k <= RateWords,
         word' = word + k,
         \A w \in 0..(PLEN - 1), l \in Lanes :
           state'[w][l] = IF word <= w /\ w < word + k THEN BlockWord(l, w) ELSE state[w][l],
         UNCHANGED <<call, phase, done, out>>
  PROVE  IInv'
<1>1. /\ rate' = rate /\ n' = n /\ suffixes' = suffixes /\ phase' = "absorb"
      /\ done' = done /\ out' = out
  BY DEF call
<1>2. TypeOK'
  <2>1. word' \in 0..RateWords /\ RateWords' = RateWords
    <3>1. word \in 0..RateWords /\ RateWords \in Int
      BY Sizes DEF IInv, TypeOK
    <3>2. RateWords' = RateWords
      BY <1>1 DEF RateWords
    <3>3. word + k \in 0..RateWords
      BY <3>1, SMT
    <3>4. QED
      BY <3>2, <3>3
  <2>2. QED
    BY <1>1, <2>1 DEF IInv, TypeOK
<1>3. LanesApart'
  <2> SUFFICES ASSUME NEW w \in 0..(PLEN - 1), NEW l \in Lanes
               PROVE  state'[w][l] = IF w < word' THEN BlockWord(l, w)' ELSE Zero
    BY <1>1 DEF LanesApart, IInv
  <2>1. BlockWord(l, w)' = BlockWord(l, w)
    BY <1>1 DEF BlockWord
  <2>2. state[w][l] = IF w < word THEN BlockWord(l, w) ELSE Zero
    BY DEF IInv, LanesApart
  <2>3. w \in Int /\ word \in Int
    BY DEF IInv, TypeOK, PLEN
  <2>4. CASE w < word
    BY <2>1, <2>2, <2>3, <2>4, SMT
  <2>5. CASE word <= w /\ w < word + k
    BY <2>1, <2>2, <2>3, <2>5, SMT
  <2>6. CASE word + k <= w
    BY <2>1, <2>2, <2>3, <2>6, SMT
  <2>7. QED
    BY <2>3, <2>4, <2>5, <2>6, SMT
<1>4. Written'
  BY <1>1 DEF Written
<1>5. QED
  BY <1>2, <1>3, <1>4 DEF IInv

\* Absorbing a whole group keeps the invariant.
LEMMA AbsorbGroupInv == IInv /\ AbsorbGroup => IInv'
<1> SUFFICES ASSUME IInv, AbsorbGroup PROVE IInv'
  OBVIOUS
<1> DEFINE group == Transpose([l \in Lanes |-> [j \in Lanes |-> BlockWord(l, word + j)]])
<1>1. /\ Ways \in Int /\ 0 < Ways /\ word \in Int
      /\ \A i \in Int : i \in Lanes <=> 0 <= i /\ i < Ways
  BY WaysAssumption DEF Lanes, IInv, TypeOK
<1>2. \A i \in Lanes, l \in Lanes : group[i][l] = BlockWord(l, word + i)
  BY TransposeEntry
<1>3. state' = [w \in 0..(PLEN - 1) |-> IF w - word \in Lanes THEN group[w - word] ELSE state[w]]
  BY DEF AbsorbGroup
<1> HIDE DEF group
<1>4. ASSUME NEW w \in 0..(PLEN - 1), NEW l \in Lanes
      PROVE  state'[w][l] = IF word <= w /\ w < word + Ways
                            THEN BlockWord(l, w) ELSE state[w][l]
  <2>1. w \in Int /\ (w - word \in Lanes <=> word <= w /\ w < word + Ways)
    <3>1. w \in Int
      BY DEF PLEN
    <3>2. w - word \in Int /\ (0 <= w - word /\ w - word < Ways <=> word <= w /\ w < word + Ways)
      BY <1>1, <3>1, SMT
    <3>3. QED
      BY <1>1, <3>1, <3>2
  <2>2. state'[w] = IF w - word \in Lanes THEN group[w - word] ELSE state[w]
    BY <1>3
  <2>3. w - word \in Lanes => group[w - word][l] = BlockWord(l, word + (w - word))
    BY <1>2
  <2>4. word + (w - word) = w
    BY <1>1, <2>1, SMT
  <2>5. QED
    BY <2>1, <2>2, <2>3, <2>4
<1>5. QED
  BY <1>1, <1>4, AbsorbInv DEF AbsorbGroup

\* Absorbing a word of the tail keeps the invariant.
LEMMA AbsorbWordInv == IInv /\ AbsorbWord => IInv'
<1> SUFFICES ASSUME IInv, AbsorbWord PROVE IInv'
  OBVIOUS
<1>1. word \in Int /\ word + 1 <= RateWords /\ word' = word + 1 /\ phase = "absorb"
  BY Sizes DEF IInv, TypeOK, AbsorbWord
<1>2. ASSUME NEW w \in 0..(PLEN - 1), NEW l \in Lanes
      PROVE  state'[w][l] = IF word <= w /\ w < word + 1
                            THEN BlockWord(l, w) ELSE state[w][l]
  <2>1. w \in Int /\ (w = word <=> word <= w /\ w < word + 1)
    BY <1>1, SMT DEF PLEN
  <2>2. state'[w] = IF w = word THEN [m \in Lanes |-> BlockWord(m, w)] ELSE state[w]
    BY DEF AbsorbWord
  <2>3. QED
    BY <2>1, <2>2
<1>3. QED
  BY <1>1, <1>2, AbsorbInv DEF AbsorbWord
\* A permutation keeps the invariant.
LEMMA PermuteInv == IInv /\ Permute => IInv'
<1> SUFFICES ASSUME IInv, Permute PROVE IInv'
  OBVIOUS
<1>1. /\ rate' = rate /\ n' = n /\ suffixes' = suffixes /\ phase' = "squeeze"
      /\ done' = done /\ out' = out /\ word' = 0 /\ done < n
  BY DEF Permute, call
<1>2. /\ rate \in {168, 136} /\ n \in Nat \ {0} /\ done \in 0..n
      /\ RateWords \in {21, 17} /\ RateWords' = RateWords
  BY <1>1, Sizes DEF IInv, TypeOK, RateWords
<1>3. TypeOK'
  <2>1. word' \in 0..RateWords
    BY <1>1, <1>2, SMT
  <2>2. QED
    BY <1>1, <1>2, <2>1 DEF IInv, TypeOK
<1> DEFINE b == IF phase = "absorb" THEN 0 ELSE done \div rate
<1>4. done % rate = 0 /\ b + 1 = (done \div rate) + 1 /\ b \in Int
  <2>1. CASE phase = "absorb"
    <3>1. done = 0
      BY <2>1 DEF IInv, LanesApart
    <3>2. done % rate = 0 /\ done \div rate = 0
      BY <1>2, <3>1, SMT
    <3>3. QED
      BY <2>1, <3>2
  <2>2. CASE phase = "permute"
    <3>1. done % rate = 0 /\ done \div rate \in Int
      BY <1>1, <1>2, <2>2, SMT DEF IInv, LanesApart
    <3>2. QED
      BY <2>2, <3>1
  <2>3. QED
    BY <2>1, <2>2 DEF Permute
<1>5. ASSUME NEW w \in 0..(PLEN - 1), NEW l \in Lanes
      PROVE  state[w][l] = IF b = 0 /\ w >= RateWords THEN Zero ELSE Word(suffixes[l], b, w)
  <2>1. CASE phase = "absorb"
    <3>1. state[w][l] = IF w < RateWords THEN Word(suffixes[l], 0, w) ELSE Zero
      BY <2>1 DEF IInv, LanesApart, Permute, BlockWord
    <3>2. w < RateWords <=> ~(w >= RateWords)
      BY <1>2, SMT DEF PLEN
    <3>3. QED
      BY <2>1, <3>1, <3>2
  <2>2. CASE phase = "permute"
    <3>1. state[w][l] = Word(suffixes[l], done \div rate, w) /\ b = done \div rate
      BY <1>1, <2>2 DEF IInv, LanesApart
    <3>2. b # 0
      <4>1. done % rate = 0 /\ done > 0
        BY <1>1, <2>2 DEF IInv, LanesApart
      <4>2. done \div rate # 0
        BY <1>2, <4>1, SMT
      <4>3. QED
        BY <3>1, <4>2
    <3>3. QED
      BY <3>1, <3>2
  <2>3. QED
    BY <2>1, <2>2 DEF Permute
<1> HIDE DEF b
<1>6. ASSUME NEW w \in 0..(PLEN - 1), NEW l \in Lanes
      PROVE  state'[w][l] = Word(suffixes[l], b + 1, w)
  <2>1. 0 \in 0..(PLEN - 1) /\ ~(0 >= RateWords)
    BY <1>2, SMT DEF PLEN
  <2>2. state[0][l] = Word(suffixes[l], b, 0)
    BY <1>5, <2>1
  <2>3. state[0][l].suffix = suffixes[l] /\ state[0][l].block = b
    BY <2>2 DEF Word
  <2>4. Coherent(l)
    BY <1>5, <2>3 DEF Coherent
  <2>5. state'[w][l] = PermutedLane(l, w)
    BY DEF Permute
  <2>6. QED
    BY <2>3, <2>4, <2>5 DEF PermutedLane
<1>7. LanesApart'
  <2>1. (done' \div rate') + 1 = b + 1 /\ done' % rate' = 0 /\ done' < n'
    BY <1>1, <1>4
  <2>2. ASSUME NEW w \in 0..(PLEN - 1), NEW l \in Lanes
        PROVE  state'[w][l] = Word(suffixes'[l], (done' \div rate') + 1, w)
    BY <1>1, <1>6, <2>1
  <2>3. QED
    BY <1>1, <2>1, <2>2 DEF LanesApart
<1>8. Written'
  <2>1. Reached' = done
    <3>1. Start' = done + 8 * 0
      BY <1>1 DEF Start
    <3>2. Minimum(done + 8 * 0, n) = done
      BY <1>1, <1>2, SMT DEF Minimum
    <3>3. QED
      BY <1>1, <3>1, <3>2 DEF Reached
  <2> SUFFICES ASSUME NEW l \in Lanes, NEW p \in 0..(done - 1)
               PROVE  out'[l][p] = StreamByte(suffixes[l], p)'
    BY <1>1, <2>1 DEF Written
  <2>2. StreamByte(suffixes[l], p)' = StreamByte(suffixes[l], p)
    BY <1>1 DEF StreamByte
  <2>3. CASE phase = "permute"
    BY <1>1, <2>2, <2>3 DEF IInv, Written, Reached
  <2>4. CASE phase = "absorb"
    <3>1. done = 0
      BY <2>4 DEF IInv, LanesApart
    <3>2. FALSE
      BY <3>1, SMT
    <3>3. QED
      BY <3>2
  <2>5. QED
    BY <2>3, <2>4 DEF Permute
<1>9. QED
  BY <1>3, <1>7, <1>8 DEF IInv
\* A position of a store that ends inside a buffer is in the buffer.
LEMMA InStore ==
  ASSUME NEW s \in Int, NEW len \in Int, NEW m \in Int, 0 <= s, 0 < len, s + len <= m,
         NEW p \in 0..(s + len - 1)
  PROVE  p \in Int /\ 0 <= p /\ p < s + len /\ p \in 0..(m - 1)
BY SMT

\* The byte of a store and the byte of the output it comes from.
LEMMA BytesOfWords ==
  ASSUME NEW s \in Int, NEW d \in Int, NEW w \in Int, NEW p \in Int, s = d + 8 * w
  PROVE  /\ w + ((p - s) \div 8) \in Int /\ (p - s) % 8 \in Int
         /\ 8 * (w + ((p - s) \div 8)) + ((p - s) % 8) = p - d
BY SMT

\* What storing a word or a group of words has in common: `len` more bytes are
\* written, each with the byte at its place in the block.
LEMMA SqueezeInv ==
  ASSUME IInv, phase = "squeeze", NEW k \in Int, 0 < k, word + k <= Words,
         NEW len \in Int, len = Minimum(8 * k, n - Start),
         word' = word + k,
         \A l \in Lanes : out'[l] = [p \in 0..(n - 1) |-> out'[l][p]],
         DOMAIN out' = Lanes,
         \A l \in Lanes : \A p \in 0..(n - 1) :
           out'[l][p] = IF Start <= p /\ p < Start + len
                        THEN ByteOf(Word(suffixes[l], (done \div rate) + 1,
                                         word + ((p - Start) \div 8)), (p - Start) % 8)
                        ELSE out[l][p],
         UNCHANGED <<call, phase, state, done>>
  PROVE  IInv'
<1>1. /\ rate' = rate /\ n' = n /\ suffixes' = suffixes /\ phase' = "squeeze"
      /\ done' = done /\ state' = state
  BY DEF call
<1>2. /\ rate \in {168, 136} /\ n \in Int /\ done \in Int /\ 0 <= done /\ done <= n
      /\ word \in Int /\ 0 <= word /\ RateWords \in Int /\ RateWords' = RateWords
      /\ 8 * RateWords = rate /\ Words \in Int /\ Words <= RateWords
      /\ Take \in Int /\ Take <= rate /\ Take <= n - done /\ 8 * Words < Take + 8
  <2>1. /\ rate \in {168, 136} /\ n \in Nat \ {0} /\ done \in 0..n /\ word \in 0..RateWords
    BY DEF IInv, TypeOK
  <2>2. RateWords' = RateWords
    BY <1>1 DEF RateWords
  <2>3. QED
    BY <2>1, <2>2, Sizes
<1>3. Start = done + 8 * word /\ Start' = done + 8 * (word + k)
  BY <1>1 DEF Start
<1>4. Start < n /\ Start \in Int
  <2> DEFINE m == Words
             t == Take
  <2>1. m \in Int /\ t \in Int /\ t <= n - done /\ 8 * m < t + 8 /\ word + k <= m
    BY <1>2
  <2> HIDE DEF m, t
  <2>2. done + 8 * word < n
    BY <1>2, <2>1, SMT
  <2>3. QED
    BY <1>2, <1>3, <2>2, SMT
<1>5. /\ len > 0 /\ Start + len <= n /\ len <= 8 * k
      /\ Minimum(Start', n) = Start + len
  BY <1>2, <1>3, <1>4, SMT DEF Minimum
<1>6. TypeOK'
  <2>1. word' \in 0..RateWords
    BY <1>2, SMT
  <2>2. QED
    BY <1>1, <1>2, <2>1 DEF IInv, TypeOK
<1>7. LanesApart'
  BY <1>1 DEF IInv, LanesApart
<1>8. done % rate = 0
  BY DEF IInv, LanesApart
<1>9. Written'
  <2> SUFFICES ASSUME NEW l \in Lanes, NEW p \in 0..(Reached' - 1)
               PROVE  out'[l][p] = StreamByte(suffixes[l], p)'
    BY DEF Written
  <2>0. StreamByte(suffixes[l], p)' = StreamByte(suffixes[l], p)
    BY <1>1 DEF StreamByte
  <2>1. p \in Int /\ 0 <= p /\ p < Start + len /\ p \in 0..(n - 1)
    <3>1. Reached' = Start + len
      BY <1>1, <1>5 DEF Reached
    <3>2. 0 <= Start
      BY <1>2, <1>3, SMT
    <3>3. QED
      BY <1>2, <1>4, <1>5, <3>1, <3>2, InStore
  <2>2. CASE p < Start
    <3>1. out'[l][p] = out[l][p]
      BY <1>2, <1>4, <2>1, <2>2, SMT
    <3>2. Reached = Start
      BY <1>2, <1>4, SMT DEF Reached, Minimum
    <3>3. p \in 0..(Reached - 1)
      BY <1>4, <2>1, <2>2, <3>2, SMT
    <3>4. QED
      BY <2>0, <3>1, <3>3 DEF IInv, Written
  <2>3. CASE Start <= p
    <3> DEFINE w == word + ((p - Start) \div 8)
               j == (p - Start) % 8
    <3>1. w \in Int /\ j \in Int /\ 8 * w + j = p - done
      BY <1>2, <1>3, <1>4, <2>1, BytesOfWords
    <3>2. done <= p /\ p < done + rate
      <4> DEFINE m == Words
      <4>1. m \in Int /\ m <= RateWords /\ word + k <= m
        BY <1>2
      <4> HIDE DEF m
      <4>2. QED
        BY <1>2, <1>3, <1>5, <2>1, <2>3, <4>1, SMT
    <3>3. out'[l][p] = ByteOf(Word(suffixes[l], (done \div rate) + 1, w), j)
      BY <2>1, <2>3
    <3> HIDE DEF w, j
    <3>4. ByteOf(Word(suffixes[l], (done \div rate) + 1, w), j) = StreamByte(suffixes[l], p)
      <4>1. done \in Nat
        BY <1>2
      <4>2. QED
        <5> DEFINE sfx == suffixes[l]
        <5>1. p \div rate = done \div rate /\ p % rate = p - done
          <6>1. /\ rate \in {168, 136} /\ done \in Int /\ p \in Int
                /\ 0 <= done /\ done % rate = 0 /\ done <= p /\ p < done + rate
            BY <1>2, <1>8, <2>1, <3>2
          <6>2. CASE rate = 168
            BY <6>1, <6>2, SMTT(20)
          <6>3. CASE rate = 136
            BY <6>1, <6>3, SMT
          <6>4. QED
            BY <6>1, <6>2, <6>3
        <5> HIDE DEF sfx
        <5>2. ByteOf(Word(sfx, (done \div rate) + 1, w), j) = StreamByte(sfx, p)
          BY <3>1, <5>1, ByteOfWord DEF StreamByte
        <5>3. QED
          BY <5>2 DEF sfx
    <3>5. QED
      BY <2>0, <3>3, <3>4
  <2>4. QED
    BY <1>4, <2>1, <2>2, <2>3, SMT
<1>10. QED
  BY <1>6, <1>7, <1>9 DEF IInv
\* A wide store keeps the invariant.
LEMMA SqueezeGroupInv == IInv /\ SqueezeGroup => IInv'
<1> SUFFICES ASSUME IInv, SqueezeGroup PROVE IInv'
  OBVIOUS
<1> DEFINE group == Transpose([j \in Lanes |-> state[word + j]])
           len == Minimum(8 * Ways, n - Start)
<1>1. /\ Ways \in Int /\ 0 < Ways /\ word \in Int /\ 0 <= word
      /\ \A i \in Int : i \in Lanes <=> 0 <= i /\ i < Ways
      /\ phase = "squeeze" /\ word + Ways <= Words /\ Start + 8 * Ways <= n
      /\ word' = word + Ways
  BY WaysAssumption DEF Lanes, IInv, TypeOK, SqueezeGroup, FitsGroup
<1>2. /\ Start \in Int /\ n \in Int /\ Words \in Int /\ Words <= RateWords /\ RateWords \in {21, 17}
  <2>1. /\ rate \in {168, 136} /\ n \in Nat \ {0} /\ done \in 0..n /\ word \in 0..RateWords
    BY DEF IInv, TypeOK
  <2>2. RateWords \in {21, 17} /\ Words \in 0..RateWords
    BY <2>1, Sizes
  <2>3. QED
    BY <1>1, <2>1, <2>2, SMT DEF Start
<1>3. len = 8 * Ways /\ len \in Int
  BY <1>1, <1>2, SMT DEF Minimum
<1>4. ASSUME NEW l \in Lanes, NEW i \in Lanes
      PROVE  group[l][i] = Word(suffixes[l], (done \div rate) + 1, word + i)
  <2>1. group[l][i] = state[word + i][l]
    BY TransposeEntry
  <2>2. word + i \in 0..(PLEN - 1)
    <3> DEFINE m == Words
    <3>1. i \in Int /\ 0 <= i /\ i < Ways /\ word + Ways <= m /\ m \in Int /\ m <= 21
      <4>1. m <= 21
        BY <1>2, SMT
      <4>2. i \in Int
        BY DEF Lanes
      <4>3. QED
        BY <1>1, <1>2, <4>1, <4>2
    <3> HIDE DEF m
    <3>2. QED
      BY <1>1, <3>1, SMT DEF PLEN
  <2>3. QED
    BY <1>1, <2>1, <2>2 DEF IInv, LanesApart
<1>5. out' = [l \in Lanes |-> [p \in 0..(n - 1) |->
                IF p - Start \in 0..(8 * Ways - 1)
                THEN ByteOf(group[l][(p - Start) \div 8], (p - Start) % 8)
                ELSE out[l][p]]]
  BY DEF SqueezeGroup
<1> HIDE DEF group, len
<1>6. ASSUME NEW l \in Lanes, NEW p \in 0..(n - 1)
      PROVE  out'[l][p] = IF Start <= p /\ p < Start + len
                          THEN ByteOf(Word(suffixes[l], (done \div rate) + 1,
                                           word + ((p - Start) \div 8)), (p - Start) % 8)
                          ELSE out[l][p]
  <2>1. out'[l][p] = IF p - Start \in 0..(8 * Ways - 1)
                     THEN ByteOf(group[l][(p - Start) \div 8], (p - Start) % 8)
                     ELSE out[l][p]
    BY <1>5
  <2>2. p \in Int /\ (p - Start \in 0..(8 * Ways - 1) <=> Start <= p /\ p < Start + len)
    <3>1. p \in Int
      BY <1>2
    <3>2. QED
      BY <1>1, <1>2, <1>3, <3>1, SMT
  <2>3. p - Start \in 0..(8 * Ways - 1) => (p - Start) \div 8 \in Lanes
    <3>1. p - Start \in 0..(8 * Ways - 1) =>
            (p - Start) \div 8 \in Int /\ 0 <= (p - Start) \div 8 /\ (p - Start) \div 8 < Ways
      BY <1>1, <1>2, <2>2, SMT
    <3>2. QED
      BY <1>1, <3>1
  <2>4. QED
    BY <1>4, <2>1, <2>2, <2>3
<1>7. DOMAIN out' = Lanes /\ \A l \in Lanes : out'[l] = [p \in 0..(n - 1) |-> out'[l][p]]
  BY <1>5
<1>8. QED
  <2>1. UNCHANGED <<call, phase, state, done>>
    BY DEF SqueezeGroup
  <2>2. len = Minimum(8 * Ways, n - Start)
    BY DEF len
  <2>3. QED
    BY <1>1, <1>3, <1>6, <1>7, <2>1, <2>2, SqueezeInv

\* A narrow store keeps the invariant.
LEMMA SqueezeWordInv == IInv /\ SqueezeWord => IInv'
<1> SUFFICES ASSUME IInv, SqueezeWord PROVE IInv'
  OBVIOUS
<1> DEFINE len == Minimum(8 * 1, n - Start)
<1>1. /\ word \in Int /\ 0 <= word /\ phase = "squeeze" /\ word < Words /\ word' = word + 1
      /\ n \in Int /\ Start < n
  BY InvInBounds DEF IInv, TypeOK, SqueezeWord, InBounds
<1>2. /\ Start \in Int /\ Words \in Int /\ Words <= RateWords /\ RateWords \in {21, 17}
  <2>1. /\ rate \in {168, 136} /\ n \in Nat \ {0} /\ done \in 0..n /\ word \in 0..RateWords
    BY DEF IInv, TypeOK
  <2>2. RateWords \in {21, 17} /\ Words \in 0..RateWords
    BY <2>1, Sizes
  <2>3. QED
    BY <1>1, <2>1, <2>2, SMT DEF Start
<1>3. len \in Int /\ len <= 8 /\ 0 < len
  BY <1>1, <1>2, SMT DEF Minimum
<1>4. \A l \in Lanes : state[word][l] = Word(suffixes[l], (done \div rate) + 1, word)
  <2> DEFINE m == Words
  <2>1. m <= 21 /\ m \in Int /\ word < m
    BY <1>1, <1>2, SMT
  <2> HIDE DEF m
  <2>2. word \in 0..(PLEN - 1)
    BY <1>1, <2>1, SMT DEF PLEN
  <2>3. QED
    BY <1>1, <2>2 DEF IInv, LanesApart
<1>5. out' = [l \in Lanes |-> [p \in 0..(n - 1) |->
                IF p - Start \in 0..(len - 1)
                THEN ByteOf(state[word][l], p - Start) ELSE out[l][p]]]
  <2>1. len = Minimum(8, n - Start)
    BY <1>1, <1>2, SMT DEF Minimum
  <2>2. QED
    BY <2>1 DEF SqueezeWord
<1> HIDE DEF len
<1>6. ASSUME NEW l \in Lanes, NEW p \in 0..(n - 1)
      PROVE  out'[l][p] = IF Start <= p /\ p < Start + len
                          THEN ByteOf(Word(suffixes[l], (done \div rate) + 1,
                                           word + ((p - Start) \div 8)), (p - Start) % 8)
                          ELSE out[l][p]
  <2>1. out'[l][p] = IF p - Start \in 0..(len - 1)
                     THEN ByteOf(state[word][l], p - Start) ELSE out[l][p]
    BY <1>5
  <2>2. p \in Int /\ (p - Start \in 0..(len - 1) <=> Start <= p /\ p < Start + len)
    <3>1. p \in Int
      BY <1>1
    <3>2. QED
      BY <1>2, <1>3, <3>1, SMT
  <2>3. p - Start \in 0..(len - 1) =>
          word + ((p - Start) \div 8) = word /\ (p - Start) % 8 = p - Start
    BY <1>1, <1>2, <1>3, <2>2, SMT
  <2>4. QED
    BY <1>4, <2>1, <2>2, <2>3
<1>7. DOMAIN out' = Lanes /\ \A l \in Lanes : out'[l] = [p \in 0..(n - 1) |-> out'[l][p]]
  BY <1>5
<1>8. QED
  <2>1. UNCHANGED <<call, phase, state, done>>
    BY DEF SqueezeWord
  <2>2. len = Minimum(8 * 1, n - Start)
    BY DEF len
  <2>3. word + 1 <= Words
    BY <1>1, <1>2, SMT
  <2>4. QED
    BY <1>1, <1>3, <1>6, <1>7, <2>1, <2>2, <2>3, SqueezeInv
\* The end of a block keeps the invariant.
LEMMA BlockDoneInv == IInv /\ BlockDone => IInv'
<1> SUFFICES ASSUME IInv, BlockDone PROVE IInv'
  OBVIOUS
<1>1. /\ rate' = rate /\ n' = n /\ suffixes' = suffixes /\ phase' = "permute"
      /\ done' = done + Take /\ state' = state /\ out' = out /\ word' = word
      /\ phase = "squeeze" /\ word >= Words
  BY DEF BlockDone, call
<1>2. /\ rate \in {168, 136} /\ n \in Nat \ {0} /\ done \in 0..n /\ word \in 0..RateWords
  BY DEF IInv, TypeOK
<1> DEFINE t == Take
           m == Words
<1>3. /\ t \in Int /\ 0 < t /\ t <= n - done /\ (done + t = n \/ t = rate)
      /\ t <= 8 * m /\ m \in Int /\ word >= m /\ RateWords \in {21, 17}
      /\ done % rate = 0 /\ done < n
  <2>1. done % rate = 0 /\ done < n
    BY <1>1 DEF IInv, LanesApart
  <2>2. /\ RateWords \in {21, 17}
        /\ Take \in 0..rate /\ Take <= n - done /\ Words \in 0..RateWords
        /\ Take <= 8 * Words
        /\ (done + Take = n \/ Take = rate)
        /\ Take > 0
    BY <1>2, <2>1, Sizes
  <2>3. QED
    BY <1>1, <1>2, <2>1, <2>2
<1>4. done' = done + t /\ done' \in 0..n
  <2>1. done' = done + t
    BY <1>1
  <2> HIDE DEF t, m
  <2>2. QED
    BY <1>2, <1>3, <2>1, SMT
<1> HIDE DEF t, m
<1>5. TypeOK'
  <2>1. RateWords' = RateWords
    BY <1>1 DEF RateWords
  <2>2. QED
    BY <1>1, <1>2, <1>4, <2>1 DEF IInv, TypeOK
<1>6. LanesApart'
  <2> SUFFICES ASSUME done' < n
               PROVE  /\ done' % rate = 0 /\ done' > 0
                      /\ \A w \in 0..(PLEN - 1), l \in Lanes :
                           state[w][l] = Word(suffixes[l], done' \div rate, w)
    BY <1>1 DEF LanesApart
  <2>1. done' = done + rate
    BY <1>2, <1>3, <1>4, SMT
  <2>2. (done + rate) % rate = 0 /\ (done + rate) \div rate = (done \div rate) + 1
    <3>1. CASE rate = 168
      BY <1>2, <1>3, <3>1, SMT
    <3>2. CASE rate = 136
      BY <1>2, <1>3, <3>2, SMT
    <3>3. QED
      BY <1>2, <3>1, <3>2
  <2>3. done' > 0
    BY <1>2, <1>3, <1>4, SMT
  <2>4. \A w \in 0..(PLEN - 1), l \in Lanes :
          state[w][l] = Word(suffixes[l], (done \div rate) + 1, w)
    BY <1>1 DEF IInv, LanesApart
  <2>5. QED
    BY <2>1, <2>2, <2>3, <2>4
<1>7. Written'
  <2> SUFFICES ASSUME NEW l \in Lanes, NEW p \in 0..(Reached' - 1)
               PROVE  out'[l][p] = StreamByte(suffixes[l], p)'
    BY DEF Written
  <2>1. StreamByte(suffixes[l], p)' = StreamByte(suffixes[l], p)
    BY <1>1 DEF StreamByte
  <2>2. p \in Int /\ 0 <= p /\ p < done + t
    <3>1. Reached' = done + t
      BY <1>1, <1>4 DEF Reached
    <3>2. QED
      BY <1>2, <1>3, <3>1, SMT
  <2>3. p \in 0..(Reached - 1)
    <3>1. Reached = Minimum(done + 8 * word, n)
      BY <1>1 DEF Reached, Start
    <3>2. Minimum(done + 8 * word, n) >= done + t
      BY <1>2, <1>3, SMT DEF Minimum
    <3>3. Minimum(done + 8 * word, n) \in Int
      BY <1>2, SMT DEF Minimum
    <3>4. QED
      BY <1>2, <1>3, <2>2, <3>1, <3>2, <3>3, SMT
  <2>4. out'[l][p] = StreamByte(suffixes[l], p)
    BY <1>1, <2>3 DEF IInv, Written
  <2>5. QED
    BY <2>1, <2>4
<1>8. QED
  BY <1>5, <1>6, <1>7 DEF IInv

\* Returning keeps the invariant.
LEMMA ReturnInv == IInv /\ Return => IInv'
<1> SUFFICES ASSUME IInv, Return PROVE IInv'
  OBVIOUS
<1>1. /\ rate' = rate /\ n' = n /\ suffixes' = suffixes /\ phase' = "returned"
      /\ done' = done /\ state' = state /\ out' = out /\ word' = word
      /\ phase = "permute" /\ done >= n
  BY DEF Return, call
<1>2. done = n
  BY <1>1, SMT DEF IInv, TypeOK
<1>3. TypeOK'
  <2>1. RateWords' = RateWords
    BY <1>1 DEF RateWords
  <2>2. QED
    BY <1>1, <1>2, <2>1 DEF IInv, TypeOK
<1>4. LanesApart'
  BY <1>1 DEF LanesApart
<1>5. Written'
  <2> SUFFICES ASSUME NEW l \in Lanes, NEW p \in 0..(Reached' - 1)
               PROVE  out'[l][p] = StreamByte(suffixes[l], p)'
    BY DEF Written
  <2>1. StreamByte(suffixes[l], p)' = StreamByte(suffixes[l], p)
    BY <1>1 DEF StreamByte
  <2>2. Reached' = Reached
    BY <1>1 DEF Reached
  <2>3. QED
    BY <1>1, <2>1, <2>2 DEF IInv, Written
<1>6. QED
  BY <1>3, <1>4, <1>5 DEF IInv
-----------------------------------------------------------------------------
\* Every step keeps the invariant.
LEMMA StepInv == IInv /\ [Next]_vars => IInv'
<1> SUFFICES ASSUME IInv, [Next]_vars PROVE IInv'
  OBVIOUS
<1>1. CASE \E c \in Calls, sfx \in [Lanes -> Suffixes] : Call(c, sfx)
  BY <1>1, CallInv
<1>2. CASE Step
  BY <1>2, AbsorbGroupInv, AbsorbWordInv, PermuteInv, SqueezeGroupInv, SqueezeWordInv,
     BlockDoneInv, ReturnInv DEF Step
<1>3. CASE UNCHANGED vars
  <2>1. /\ rate' = rate /\ n' = n /\ suffixes' = suffixes /\ phase' = phase
        /\ done' = done /\ state' = state /\ out' = out /\ word' = word
    BY <1>3 DEF vars, call
  <2>2. TypeOK'
    BY <2>1 DEF IInv, TypeOK, RateWords
  <2>3. LanesApart'
    BY <2>1 DEF IInv, LanesApart, BlockWord, RateWords
  <2>4. Written'
    BY <2>1 DEF IInv, Written, Reached, Start, StreamByte
  <2>5. QED
    BY <2>2, <2>3, <2>4 DEF IInv
<1>4. QED
  BY <1>1, <1>2, <1>3 DEF Next

\* The inductive invariant: every lane is one sponge, and what is behind the
\* cursor is in place.
THEOREM Invariance == Spec => []IInv
BY InitInv, StepInv, PTL DEF Spec

\* What a call returns is, lane by lane, what single sponges would have
\* returned, whatever the buffers held, for two lanes and for four.
THEOREM ExactHolds == Spec => []Exact
BY Invariance, InvExact, PTL

\* No store leaves the buffer and no length underflows.
THEOREM InBoundsHolds == Spec => []InBounds
BY Invariance, InvInBounds, PTL
-----------------------------------------------------------------------------
\* A job has at least one entry.
LEMMA EntriesType ==
  ASSUME NEW j \in Jobs
  PROVE  Entries(j) \in Int /\ 0 < Entries(j)
<1>1. j.L \in 2..4
  BY JobsAssumption
<1> DEFINE r == j.L
<1>2. Entries(j) = r * r \/ Entries(j) = r
  BY DEF Entries
<1>3. r \in Int /\ 0 < r /\ r * r \in Int /\ 0 < r * r
  <2> HIDE DEF r
  <2>1. r \in {2, 3, 4}
    BY <1>1 DEF r
  <2>2. QED
    BY <2>1, SMT
<1>4. QED
  BY <1>2, <1>3

\* What the driver's variables say, and what a call under way was called with.
Driver ==
  /\ job \in Jobs /\ first \in Nat /\ pc \in {"batch", "sampling"}
  /\ DOMAIN sampled = 0..(Entries(job) - 1)
  /\ pc = "sampling" =>
       /\ rate = CallOf(job).rate /\ n = CallOf(job).n
       /\ suffixes = [lane \in Lanes |-> Indices(job, BatchEntry(lane))]

SampleInv == Driver /\ AsSerial

\* A lane's entry exists, and is its own if the batch reaches that far.
LEMMA BatchEntryRange ==
  ASSUME Driver, NEW lane \in Lanes
  PROVE  /\ BatchEntry(lane) \in 0..(Entries(job) - 1)
         /\ first + lane \in 0..(Entries(job) - 1) => BatchEntry(lane) = first + lane
<1>1. first \in Int /\ 0 <= first /\ lane \in Int /\ 0 <= lane
  BY WaysAssumption DEF Driver, Lanes
<1>2. Entries(job) \in Int /\ 0 < Entries(job)
  BY EntriesType DEF Driver
<1>3. QED
  BY <1>1, <1>2, SMT DEF BatchEntry, Minimum

\* A batch is a call the sponges are made for.
LEMMA StartBatchIsCall ==
  ASSUME Driver, StartBatch
  PROVE  \E c \in Calls, sfx \in [Lanes -> Suffixes] : Call(c, sfx)
<1> DEFINE sfx == [lane \in Lanes |-> Indices(job, BatchEntry(lane))]
<1>1. CallOf(job) \in Calls
  BY JobsAssumption DEF Driver
<1>2. sfx \in [Lanes -> Suffixes]
  BY BatchEntryRange, JobsAssumption DEF Driver
<1>3. Call(CallOf(job), sfx)
  BY DEF StartBatch
<1>4. QED
  BY <1>1, <1>2, <1>3

\* Each step of the driver is a step of the sponges.
LEMMA DriverSteps ==
  ASSUME Driver, [SampleNext]_sampleVars
  PROVE  [Next]_vars
<1>1. CASE StartBatch
  BY <1>1, StartBatchIsCall DEF Next
<1>2. CASE Sponge
  BY <1>2 DEF Sponge, Next
<1>3. CASE Deliver
  BY <1>3 DEF Deliver
<1>4. CASE UNCHANGED sampleVars
  BY <1>4 DEF sampleVars
<1>5. QED
  BY <1>1, <1>2, <1>3, <1>4 DEF SampleNext
-----------------------------------------------------------------------------
\* The driver's invariant holds of its initial states.
LEMMA SampleInitInv == SampleInit => SampleInv
<1> SUFFICES ASSUME SampleInit PROVE SampleInv
  OBVIOUS
<1>1. Driver
  BY DEF SampleInit, Driver
<1>2. AsSerial
  <2> SUFFICES ASSUME NEW e \in 0..(Entries(job) - 1)
               PROVE  sampled[e] = NotYet /\ ~(e < first)
    BY DEF AsSerial, SampleInit
  <2>1. ~(e < 0)
    OBVIOUS
  <2>2. QED
    BY <2>1 DEF SampleInit
<1>3. QED
  BY <1>1, <1>2 DEF SampleInv

\* Delivering a batch keeps the driver's invariant.
LEMMA DeliverInv == SampleInv /\ IInv /\ Deliver => SampleInv'
<1> SUFFICES ASSUME SampleInv, IInv, Deliver PROVE SampleInv'
  OBVIOUS
<1>1. /\ job' = job /\ first' = first + Ways /\ pc' = "batch" /\ rate' = rate
      /\ pc = "sampling" /\ phase = "returned"
      /\ sampled' = [e \in DOMAIN sampled |->
                       IF e - first \in Lanes THEN out[e - first] ELSE sampled[e]]
  BY DEF Deliver, vars, call
<1>2. /\ Ways \in Int /\ 0 < Ways /\ first \in Int /\ 0 <= first
      /\ \A i \in Int : i \in Lanes <=> 0 <= i /\ i < Ways
  BY WaysAssumption DEF Lanes, SampleInv, Driver
<1>3. Driver'
  <2>1. first + Ways \in Nat
    BY <1>2, SMT
  <2>2. QED
    BY <1>1, <2>1 DEF SampleInv, Driver
<1>4. AsSerial'
  <2> SUFFICES ASSUME NEW e \in DOMAIN sampled
               PROVE  sampled'[e] = IF e < first + Ways THEN Serial(e) ELSE NotYet
    <3>1. \A x : Serial(x)' = Serial(x)
      BY <1>1 DEF Serial
    <3>2. QED
      BY <1>1, <3>1 DEF AsSerial
  <2>1. e \in 0..(Entries(job) - 1) /\ e \in Int
    BY DEF SampleInv, Driver
  <2>2. sampled[e] = IF e < first THEN Serial(e) ELSE NotYet
    BY DEF SampleInv, AsSerial
  <2>3. CASE e - first \in Lanes
    <3> DEFINE lane == e - first
    <3>1. first + lane = e
      BY <1>2, <2>1, SMT
    <3>2. BatchEntry(lane) = e
      BY <2>1, <2>3, <3>1, BatchEntryRange DEF SampleInv
    <3>3. suffixes[lane] = Indices(job, e)
      BY <1>1, <2>3, <3>2 DEF SampleInv, Driver
    <3>4. \A p \in 0..(n - 1) : out[lane][p] = StreamByte(suffixes[lane], p)
      BY <1>1, <2>3, InvExact DEF Exact
    <3>5. out[lane] = [p \in 0..(n - 1) |-> out[lane][p]]
      BY <2>3 DEF IInv, TypeOK
    <3>6. out[lane] = [p \in 0..(n - 1) |-> StreamByte(Indices(job, e), p)]
      BY <3>3, <3>4, <3>5
    <3>7. rate = CallOf(job).rate /\ n = CallOf(job).n
      BY <1>1 DEF SampleInv, Driver
    <3>8. out[lane] = Serial(e)
      BY <3>6, <3>7 DEF Serial, StreamByte
    <3>9. e < first + Ways
      BY <1>2, <2>1, <2>3, SMT
    <3>10. QED
      BY <1>1, <2>3, <3>8, <3>9
  <2>4. CASE e - first \notin Lanes
    <3>1. sampled'[e] = sampled[e]
      BY <1>1, <2>4
    <3>2. e < first + Ways <=> e < first
      BY <1>2, <2>1, <2>4, SMT
    <3>3. QED
      BY <2>2, <3>1, <3>2
  <2>5. QED
    BY <2>3, <2>4
<1>5. QED
  BY <1>3, <1>4 DEF SampleInv

\* Every step keeps the driver's invariant.
LEMMA SampleStepInv == SampleInv /\ IInv /\ [SampleNext]_sampleVars => SampleInv'
<1> SUFFICES ASSUME SampleInv, IInv, [SampleNext]_sampleVars PROVE SampleInv'
  OBVIOUS
<1>1. CASE StartBatch
  <2>1. /\ job' = job /\ first' = first /\ sampled' = sampled /\ pc' = "sampling"
        /\ rate' = CallOf(job).rate /\ n' = CallOf(job).n
        /\ suffixes' = [lane \in Lanes |-> Indices(job, BatchEntry(lane))]
    BY <1>1 DEF StartBatch, Call
  <2>2. \A lane : BatchEntry(lane)' = BatchEntry(lane)
    BY <2>1 DEF BatchEntry
  <2>3. Driver'
    BY <2>1, <2>2 DEF SampleInv, Driver
  <2>4. AsSerial'
    BY <2>1 DEF SampleInv, AsSerial, Serial
  <2>5. QED
    BY <2>3, <2>4 DEF SampleInv
<1>2. CASE Sponge
  <2>1. /\ job' = job /\ first' = first /\ sampled' = sampled /\ pc' = pc
        /\ rate' = rate /\ n' = n /\ suffixes' = suffixes
    BY <1>2 DEF Sponge, Step, AbsorbGroup, AbsorbWord, Permute, SqueezeGroup, SqueezeWord,
       BlockDone, Return, call
  <2>2. Driver'
    BY <2>1 DEF SampleInv, Driver, BatchEntry
  <2>3. AsSerial'
    BY <2>1 DEF SampleInv, AsSerial, Serial
  <2>4. QED
    BY <2>2, <2>3 DEF SampleInv
<1>3. CASE Deliver
  BY <1>3, DeliverInv
<1>4. CASE UNCHANGED sampleVars
  <2>1. /\ job' = job /\ first' = first /\ sampled' = sampled /\ pc' = pc
        /\ rate' = rate /\ n' = n /\ suffixes' = suffixes
    BY <1>4 DEF sampleVars, vars, call
  <2>2. Driver'
    BY <2>1 DEF SampleInv, Driver, BatchEntry
  <2>3. AsSerial'
    BY <2>1 DEF SampleInv, AsSerial, Serial
  <2>4. QED
    BY <2>2, <2>3 DEF SampleInv
<1>5. QED
  BY <1>1, <1>2, <1>3, <1>4 DEF SampleNext

\* Both invariants hold throughout.
LEMMA BothInv == SampleSpec => [](SampleInv /\ IInv)
<1>1. SampleInit => SampleInv /\ IInv
  BY SampleInitInv, InitInv DEF SampleInit
<1>2. SampleInv /\ IInv /\ [SampleNext]_sampleVars => (SampleInv /\ IInv)'
  BY SampleStepInv, DriverSteps, StepInv DEF SampleInv
<1>3. QED
  BY <1>1, <1>2, PTL DEF SampleSpec

\* Every entry sampled in a batch is the one the portable loop samples.
THEOREM AsSerialHolds == SampleSpec => []AsSerial
<1>1. SampleInv => AsSerial
  BY DEF SampleInv
<1>2. QED
  BY <1>1, BothInv, PTL

\* Whatever the driver does is a legal use of the sponges, so that all that is
\* proved of their calls holds of the driver's.
THEOREM XofContractHolds == SampleSpec => XofContract
<1>1. SampleInit => Init
  BY DEF SampleInit
<1>2. SampleInv /\ [SampleNext]_sampleVars => [Next]_vars
  BY DriverSteps DEF SampleInv
<1>3. QED
  BY <1>1, <1>2, BothInv, PTL DEF SampleSpec, XofContract, Spec
=============================================================================
