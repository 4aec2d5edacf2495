----------------------------- MODULE ArithmeticProofs ---------------------------
(***************************************************************************)
(* Lemmas on numbers and words, for every input: induction over sets of    *)
(* numbers, sums, the roundings of module Rounding, the reductions of      *)
(* module Montgomery, the vector forms of module Lanes, which are the      *)
(* portable ones lane by lane, and polynomials modulo a prime.             *)
(***************************************************************************)
EXTENDS Rounding, Lanes, Sums, WellFoundedInduction, TLAPS

\* Induction over sets of numbers, from the order of the numbers.

Less == {p \in Nat \X Nat : p[1] < p[2]}

LEMMA LessWellFounded == IsWellFoundedOn(Less, Nat)
  BY NatLessThanWellFounded DEF OpToRel, Less

\* A set of numbers that is not empty has a least one.
LEMMA Minimum ==
  ASSUME NEW S \in SUBSET Nat, S # {}
  PROVE  \E x \in S : \A y \in S : x <= y
<1>1. PICK x \in S : \A y \in S : ~ (<<y, x>> \in Less)
  BY LessWellFounded, WFMin
<1>2. \A y \in S : <<y, x>> \in Nat \X Nat /\ (y < x => <<y, x>> \in Less)
  BY Zenon DEF Less
<1>3. \A y \in S : ~ (y < x)
  BY <1>1, <1>2, Zenon
<1>4. QED  BY <1>3, SMT

\* A set that holds 0, and with each number the next, holds all numbers.
LEMMA SetInduction ==
  ASSUME NEW S, 0 \in S, \A n \in Nat : n \in S => n + 1 \in S
  PROVE  Nat \subseteq S
<1> SUFFICES ASSUME NEW k \in Nat \ S PROVE FALSE
  OBVIOUS
<1>1. PICK x \in Nat \ S : \A y \in Nat \ S : x <= y
  BY Minimum
<1>2. x # 0 /\ x - 1 \in Nat /\ x - 1 \notin S
  BY <1>1
<1>3. QED  BY <1>1, <1>2
-----------------------------------------------------------------------------
\* The partial sums of f, up to the n-th.
Partial(f, n) ==
  {u \in [0..n -> Int] : u[0] = 0 /\ \A j \in 1..n : u[j] = u[j - 1] + f[j - 1]}

Ints(f, n) == \A j \in 0..(n - 1) : f[j] \in Int

LEMMA PartialExists ==
  ASSUME NEW f, NEW n \in Nat, Ints(f, n)
  PROVE  Partial(f, n) # {}
<1> DEFINE S == {m \in Nat : m <= n => Partial(f, m) # {}}
<1>1. 0 \in S
  <2>1. [i \in 0..0 |-> 0] \in Partial(f, 0)
    BY SMT DEF Partial
  <2>2. QED  BY <2>1
<1>2. ASSUME NEW m \in Nat, m \in S PROVE m + 1 \in S
  <2> SUFFICES ASSUME m + 1 <= n PROVE Partial(f, m + 1) # {}
    OBVIOUS
  <2>1. PICK u : u \in Partial(f, m)
    BY <1>2
  <2> DEFINE v == [i \in 0..(m + 1) |-> IF i = m + 1 THEN u[m] + f[m] ELSE u[i]]
  <2>2. f[m] \in Int
    BY DEF Ints
  <2>3. u \in [0..m -> Int] /\ u[0] = 0 /\ \A j \in 1..m : u[j] = u[j - 1] + f[j - 1]
    BY <2>1 DEF Partial
  <2>4. v \in [0..(m + 1) -> Int]
    BY <2>2, <2>3
  <2>5. v[0] = 0 /\ \A j \in 1..(m + 1) : v[j] = v[j - 1] + f[j - 1]
    BY <2>3
  <2>6. v \in Partial(f, m + 1)
    BY <2>4, <2>5 DEF Partial
  <2>7. QED  BY <2>6
<1> HIDE DEF S
<1>3. n \in S
  BY <1>1, <1>2, SetInduction
<1>4. QED  BY <1>3 DEF S

LEMMA PartialUnique ==
  ASSUME NEW f, NEW n \in Nat, NEW m \in Nat, n <= m, NEW u \in Partial(f, n), NEW v \in Partial(f, m)
  PROVE  u[n] = v[n]
<1> DEFINE S == {j \in Nat : j <= n => u[j] = v[j]}
<1>1. 0 \in S
  BY DEF Partial
<1>2. ASSUME NEW j \in Nat, j \in S PROVE j + 1 \in S
  <2> SUFFICES ASSUME j + 1 <= n PROVE u[j + 1] = v[j + 1]
    OBVIOUS
  <2>1. (j + 1) \in 1..n /\ (j + 1) \in 1..m /\ (j + 1) - 1 = j
    OBVIOUS
  <2>2. u[j + 1] = u[j] + f[j] /\ v[j + 1] = v[j] + f[j]
    BY <2>1 DEF Partial
  <2>3. QED  BY <1>2, <2>2
<1> HIDE DEF S
<1>3. n \in S
  BY <1>1, <1>2, SetInduction
<1>4. QED  BY <1>3 DEF S

LEMMA SumIs ==
  ASSUME NEW f, NEW n \in Nat, Ints(f, n)
  PROVE  \E u \in Partial(f, n) : SumTo(f, n) = u[n]
<1> DEFINE Rec(h) == h = [j \in 0..n |-> IF j = 0 THEN 0 ELSE h[j - 1] + f[j - 1]]
<1>1. PICK h : h \in Partial(f, n)
  BY PartialExists
<1>2. h = [j \in 0..n |-> h[j]] /\ \A j \in 0..n : h[j] = IF j = 0 THEN 0 ELSE h[j - 1] + f[j - 1]
  BY <1>1 DEF Partial
<1>3. Rec(h)
  BY <1>2, Zenon
<1> DEFINE g == CHOOSE x : Rec(x)
<1>4. Rec(g)
  BY <1>3, Zenon
<1>5. SumTo(f, n) = g[n]
  BY Zenon DEF SumTo
<1>6. g = [j \in 0..n |-> IF j = 0 THEN 0 ELSE g[j - 1] + f[j - 1]]
  BY <1>4
<1> HIDE DEF g, Rec
<1> DEFINE S == {m \in Nat : m <= n => g[m] \in Int}
<1>7. 0 \in S
  BY <1>6
<1>8. ASSUME NEW m \in Nat, m \in S PROVE m + 1 \in S
  <2> SUFFICES ASSUME m + 1 <= n PROVE g[m + 1] \in Int
    OBVIOUS
  <2>1. g[m + 1] = g[m] + f[m]
    BY <1>6
  <2>2. f[m] \in Int
    BY DEF Ints
  <2>3. QED  BY <1>8, <2>1, <2>2
<1> HIDE DEF S
<1>9. \A m \in 0..n : g[m] \in Int
  <2>1. Nat \subseteq S
    BY <1>7, <1>8, SetInduction
  <2>2. QED  BY <2>1 DEF S
<1>10. g \in Partial(f, n)
  BY <1>6, <1>9 DEF Partial
<1>11. QED  BY <1>5, <1>10

LEMMA SumStep ==
  ASSUME NEW f, NEW n \in Nat, Ints(f, n + 1)
  PROVE  /\ SumTo(f, n) \in Int /\ f[n] \in Int
         /\ SumTo(f, n + 1) = SumTo(f, n) + f[n]
<1>1. Ints(f, n) /\ f[n] \in Int
  BY DEF Ints
<1>2. PICK u \in Partial(f, n) : SumTo(f, n) = u[n]
  BY <1>1, SumIs
<1>3. PICK v \in Partial(f, n + 1) : SumTo(f, n + 1) = v[n + 1]
  BY SumIs
<1>4. u[n] = v[n]
  BY PartialUnique
<1>5. v[n + 1] = v[n] + f[n] /\ u[n] \in Int
  BY DEF Partial
<1>6. QED  BY <1>1, <1>2, <1>3, <1>4, <1>5

LEMMA SumZero ==
  ASSUME NEW f
  PROVE  SumTo(f, 0) = 0
<1>1. Ints(f, 0)
  BY DEF Ints
<1>2. PICK u \in Partial(f, 0) : SumTo(f, 0) = u[0]
  BY <1>1, SumIs
<1>3. QED  BY <1>2 DEF Partial

LEMMA SumInt ==
  ASSUME NEW f, NEW n \in Nat, Ints(f, n)
  PROVE  SumTo(f, n) \in Int
<1>1. PICK u \in Partial(f, n) : SumTo(f, n) = u[n]
  BY SumIs
<1>2. QED  BY <1>1 DEF Partial

\* Sums of equal terms are equal.
LEMMA SumSame ==
  ASSUME NEW n \in Nat, NEW f, NEW g, Ints(f, n), \A j \in 0..(n - 1) : g[j] = f[j]
  PROVE  SumTo(g, n) = SumTo(f, n)
<1> DEFINE S == {m \in Nat : m <= n => SumTo(g, m) = SumTo(f, m)}
<1>1. 0 \in S
  BY SumZero
<1>2. ASSUME NEW m \in Nat, m \in S PROVE m + 1 \in S
  <2> SUFFICES ASSUME m + 1 <= n PROVE SumTo(g, m + 1) = SumTo(f, m + 1)
    OBVIOUS
  <2>1. Ints(f, m + 1) /\ Ints(g, m + 1) /\ m \in 0..(n - 1)
    BY DEF Ints
  <2>2. SumTo(f, m + 1) = SumTo(f, m) + f[m] /\ SumTo(g, m + 1) = SumTo(g, m) + g[m]
    BY <2>1, SumStep
  <2>3. QED  BY <1>2, <2>1, <2>2
<1> HIDE DEF S
<1>3. n \in S
  BY <1>1, <1>2, SetInduction
<1>4. QED  BY <1>3 DEF S
-----------------------------------------------------------------------------
\* Keeping the top bits of ten is the same before and after a 16-bit wrap.
LEMMA TopBits ==
  ASSUME NEW T \in Ts, NEW x \in Int
  PROVE  /\ (U16(x) \div Weight(T)) % Levels(T) = (x % 1024) \div Weight(T)
         /\ \E f \in 0..(Weight(T) - 1) :
               x % 1024 = Weight(T) * ((x % 1024) \div Weight(T)) + f
<1> DEFINE u == U16(x)
           b == u \div 1024
           r == x % 1024
<1>1. u \in Int /\ b \in Int /\ r \in 0..1023 /\ u = 1024 * b + r
  BY SMT DEF U16
<1> HIDE DEF u, b, r
<1>2. CASE T = 3
  <2>1. Weight(T) = 128 /\ Levels(T) = 8
    BY <1>2 DEF Weight, Levels
  <2>2. PICK s \in 0..7, f \in 0..127 : r = 128 * s + f
    <3>1. r \div 128 \in 0..7 /\ r % 128 \in 0..127 /\ r = 128 * (r \div 128) + (r % 128)
      BY <1>1, SMT
    <3>2. QED  BY <3>1
  <2>3. r \div 128 = s
    BY <1>1, <2>2, SMT
  <2>4. u \div 128 = 8 * b + s
    BY <1>1, <2>2, SMT
  <2>5. (8 * b + s) % 8 = s
    BY <1>1, <2>2, SMT
  <2>6. QED
    BY <2>1, <2>2, <2>3, <2>4, <2>5 DEF u, r
<1>3. CASE T = 4
  <2>1. Weight(T) = 64 /\ Levels(T) = 16
    BY <1>3 DEF Weight, Levels
  <2>2. PICK s \in 0..15, f \in 0..63 : r = 64 * s + f
    <3>1. r \div 64 \in 0..15 /\ r % 64 \in 0..63 /\ r = 64 * (r \div 64) + (r % 64)
      BY <1>1, SMT
    <3>2. QED  BY <3>1
  <2>3. r \div 64 = s
    BY <1>1, <2>2, SMT
  <2>4. u \div 64 = 16 * b + s
    BY <1>1, <2>2, SMT
  <2>5. (16 * b + s) % 16 = s
    BY <1>1, <2>2, SMT
  <2>6. QED
    BY <2>1, <2>2, <2>3, <2>4, <2>5 DEF u, r
<1>4. CASE T = 6
  <2>1. Weight(T) = 16 /\ Levels(T) = 64
    BY <1>4 DEF Weight, Levels
  <2>2. PICK s \in 0..63, f \in 0..15 : r = 16 * s + f
    <3>1. r \div 16 \in 0..63 /\ r % 16 \in 0..15 /\ r = 16 * (r \div 16) + (r % 16)
      BY <1>1, SMT
    <3>2. QED  BY <3>1
  <2>3. r \div 16 = s
    BY <1>1, <2>2, SMT
  <2>4. u \div 16 = 64 * b + s
    BY <1>1, <2>2, SMT
  <2>5. (64 * b + s) % 64 = s
    BY <1>1, <2>2, SMT
  <2>6. QED
    BY <2>1, <2>2, <2>3, <2>4, <2>5 DEF u, r
<1>5. QED
  BY <1>2, <1>3, <1>4 DEF Ts

\* Encryption does not see bits above the tenth: two inner products that agree
\* modulo 2^10 give the same ciphertext coefficient (pke.rs:237-249).
THEOREM EncodeIgnoresHighBits ==
  ASSUME NEW T \in Ts, NEW v \in Int, NEW w \in Int, NEW m \in {0, 1},
         v % 1024 = w % 1024
  PROVE  EncodeCoeff(T, v, m) = EncodeCoeff(T, w, m)
<1>1. (v - 512 * m + H1) % 1024 = (w - 512 * m + H1) % 1024
  BY SMT DEF H1
<1>2. v - 512 * m + H1 \in Int /\ w - 512 * m + H1 \in Int
  BY DEF H1
<1>3. QED
  BY <1>1, <1>2, TopBits DEF EncodeCoeff

\* Decryption returns the message bit whenever the two inner products differ by
\* at most the margin modulo 2^10, whatever both roundings dropped
\* (pke.rs:202-212 against 237-249).
THEOREM DecodeCorrect ==
  ASSUME NEW T \in Ts, NEW v \in Int, NEW w \in Int, NEW m \in {0, 1},
         NEW d \in (-Margin(T))..Margin(T), (v - w - d) % 1024 = 0
  PROVE  DecodeCoeff(T, v, EncodeCoeff(T, w, m)) = m
<1> DEFINE x == w - 512 * m + H1
           c == EncodeCoeff(T, w, m)
           W == Weight(T)
<1>1. x \in Int /\ H1 = 4 /\ x = w - 512 * m + 4
  BY DEF H1
<1>2. W \in {128, 64, 16}
  BY DEF Weight, Ts
<1>3. H2(T) = 260 - (W \div 2) /\ Margin(T) = 256 - (W \div 2)
  BY <1>2, SMT DEF H2, Margin
<1>4. PICK h \in {64, 32, 8} : W \div 2 = h /\ W = 2 * h
  BY <1>2, SMT
<1>5. c = (x % 1024) \div W
  BY <1>1, TopBits DEF EncodeCoeff
<1>6. PICK f \in 0..(W - 1) : x % 1024 = W * c + f
  BY <1>1, <1>5, TopBits
<1>7. c \in Int
  BY <1>1, <1>2, <1>5, SMT
<1> DEFINE p == c * W
<1>8. p \in Int /\ x % 1024 = p + f
  BY <1>2, <1>6, <1>7, SMT
<1> HIDE DEF p, x
<1>9. p \in 0..1023
  <2>1. x % 1024 \in 0..1023
    BY <1>1, SMT DEF x
  <2>2. c \in Nat
    <3>1. CASE W = 128  BY <3>1, <2>1, <1>5, SMT
    <3>2. CASE W = 64   BY <3>2, <2>1, <1>5, SMT
    <3>3. CASE W = 16   BY <3>3, <2>1, <1>5, SMT
    <3>4. QED  BY <3>1, <3>2, <3>3, <1>2
  <2>3. p \in Nat
    BY <1>2, <2>2, SMT DEF p
  <2>4. f \in Nat
    BY <1>2, <1>6, SMT
  <2>5. QED
    BY <2>1, <2>3, <2>4, <1>2, <1>8, SMT
<1>10. U16(p) = p
  BY <1>9, SMT DEF U16
<1> HIDE DEF c, W
<1>11. PICK k \in Int : v = w + d + 1024 * k
  <2>1. d \in Int
    BY <1>3, <1>4, SMT
  <2>2. v - w - d = 1024 * ((v - w - d) \div 1024)
    BY <2>1, SMT
  <2>3. QED
    BY <2>1, <2>2, SMT
<1>12. PICK j \in Int : x = 1024 * j + p + f
  <2>1. x = 1024 * (x \div 1024) + (x % 1024)
    BY <1>1, SMT
  <2>2. f \in Int
    BY <1>2, <1>6
  <2>3. QED
    BY <2>1, <2>2, <1>1, <1>8, SMT
<1> DEFINE g == d + f + 256 - h
           z == v - p + 260 - h
<1>13. g \in 0..511
  BY <1>3, <1>4, <1>6, SMT
<1>14. z = 512 * m + g + 1024 * (k + j)
  BY <1>1, <1>3, <1>4, <1>6, <1>8, <1>11, <1>12, SMT
<1> HIDE DEF g, z
<1>15. (U16(z) \div 512) % 2 = m
  <2> DEFINE n == k + j
  <2>1. n \in Int /\ z = 512 * m + g + 1024 * n
    BY <1>14
  <2> HIDE DEF n
  <2>2. z % 1024 = 512 * m + g
    BY <2>1, <1>13, SMT
  <2>3. PICK a \in Int : U16(z) = 1024 * a + 512 * m + g
    <3>1. z \in Int
      BY <2>1, <1>13, SMT
    <3>2. U16(z) = 1024 * (U16(z) \div 1024) + (z % 1024) /\ U16(z) \div 1024 \in Int
      BY <3>1, SMT DEF U16
    <3>3. QED
      BY <3>2, <2>2, <1>13, SMT
  <2>4. U16(z) \div 512 = 2 * a + m
    BY <2>3, <1>13, SMT
  <2>5. QED
    BY <2>4, SMT
<1>16. DecodeCoeff(T, v, c) = (U16(v - U16(p) + H2(T)) \div 512) % 2
  BY DEF DecodeCoeff, p, W
<1>17. v - U16(p) + H2(T) = z
  BY <1>3, <1>4, <1>8, <1>10, SMT DEF z
<1>18. QED
  BY <1>15, <1>16, <1>17 DEF c
-----------------------------------------------------------------------------
\* Numbers that differ by a multiple of the prime have one residue.
LEMMA SameResidue ==
  ASSUME NEW q \in Primes, NEW x \in Int, NEW y \in Int, NEW k \in Int, x = y + k * q
  PROVE  x % q = y % q
<1>1. CASE q = 7681   BY <1>1, SMT
<1>2. CASE q = 10753  BY <1>2, SMT
<1>3. QED  BY <1>1, <1>2 DEF Primes

\* A number is its residue and a multiple of the prime.
LEMMA ResidueOf ==
  ASSUME NEW q \in Primes, NEW x \in Int
  PROVE  x % q \in Int /\ x \div q \in Int /\ x = (x % q) + (x \div q) * q
<1>1. CASE q = 7681   BY <1>1, SMT
<1>2. CASE q = 10753  BY <1>2, SMT
<1>3. QED  BY <1>1, <1>2 DEF Primes

\* Residues of sums and differences.
LEMMA SumResidue ==
  ASSUME NEW q \in Primes, NEW x \in Int, NEW y \in Int
  PROVE  /\ (x + y) % q = ((x % q) + (y % q)) % q
         /\ (x - y) % q = ((x % q) - (y % q)) % q
<1>1. CASE q = 7681   BY <1>1, SMT
<1>2. CASE q = 10753  BY <1>2, SMT
<1>3. QED  BY <1>1, <1>2 DEF Primes

\* Residues of residues.
LEMMA ResidueTwice ==
  ASSUME NEW q \in Primes, NEW x \in Int
  PROVE  (x % q) % q = x % q
<1>1. CASE q = 7681   BY <1>1, SMT
<1>2. CASE q = 10753  BY <1>2, SMT
<1>3. QED  BY <1>1, <1>2 DEF Primes

\* Residues of products.
LEMMA ProductResidue ==
  ASSUME NEW q \in Primes, NEW x \in Int, NEW y \in Int
  PROVE  (x * y) % q = ((x % q) * (y % q)) % q
<1> DEFINE a == x % q
           m == x \div q
           b == y % q
           n == y \div q
<1>1. a \in Int /\ m \in Int /\ x = a + m * q
  BY ResidueOf
<1>2. b \in Int /\ n \in Int /\ y = b + n * q
  BY ResidueOf
<1>3. q \in Int
  BY DEF Primes
<1> HIDE DEF a, m, b, n
<1> DEFINE k == m * y + a * n
<1>4. k \in Int /\ x * y \in Int /\ a * b \in Int
  BY <1>1, <1>2, SMT
<1>5. x * y = a * b + k * q
  <2>1. x * y = a * y + m * q * y
    BY <1>1, <1>3, SMT
  <2>2. a * y = a * b + a * n * q
    BY <1>1, <1>2, <1>3, SMT
  <2>3. k * q = m * q * y + a * n * q
    BY <1>1, <1>2, <1>3, SMT
  <2>4. QED  BY <1>1, <1>2, <1>3, <2>1, <2>2, <2>3, SMT
<1> HIDE DEF k
<1>6. (x * y) % q = (a * b) % q
  BY <1>4, <1>5, SameResidue
<1>7. QED  BY <1>6 DEF a, b

\* What is 2^16 times too large, up to a multiple of the prime.
LEMMA Unscaling ==
  ASSUME NEW q \in Primes, NEW r \in Int, (65536 * r) % q = 1,
         NEW w \in Int, NEW x \in Int, NEW t \in Int, 65536 * w = x - t * q
  PROVE  w % q = (x * r) % q
<1> DEFINE c == (65536 * r) \div q
           rt == r * t
           cw == c * w
           k == -(rt + cw)
<1>1. q \in Int /\ c \in Int /\ 65536 * r = 1 + c * q
  <2>1. 65536 * r \in Int
    BY SMT
  <2>2. QED  BY <2>1, ResidueOf, SMT DEF Primes
<1> HIDE DEF c
<1>2. rt \in Int /\ cw \in Int /\ k \in Int /\ x * r \in Int
  BY <1>1, SMT
<1>3. (65536 * r) * w = w + cw * q
  <2>1. (1 + c * q) * w = w + c * w * q
    BY <1>1, SMT
  <2>2. QED  BY <1>1, <2>1
<1>4. (65536 * r) * w = x * r - rt * q
  <2>1. (65536 * r) * w = r * (65536 * w)
    BY SMT
  <2>2. r * (x - t * q) = x * r - r * t * q
    BY <1>1, SMT
  <2>3. QED  BY <2>1, <2>2
<1>5. w = x * r + k * q
  <2>1. k * q = -(rt * q) - cw * q
    BY <1>1, <1>2, SMT
  <2> DEFINE xr == x * r
             a == rt * q
             b == cw * q
             kq == k * q
  <2>2. a \in Int /\ b \in Int /\ xr \in Int /\ kq \in Int /\ kq = -a - b /\ w + b = xr - a
    BY <1>1, <1>2, <1>3, <1>4, <2>1, SMT
  <2> HIDE DEF a, b, xr, kq
  <2>3. w = xr + kq
    BY <2>2, SMT
  <2>4. QED  BY <2>3 DEF xr, kq
<1> HIDE DEF k
<1>6. QED  BY <1>2, <1>5, SameResidue
-----------------------------------------------------------------------------
SameLow(x, y) == (x - y) % 65536 = 0
IsI16(x) == x \in Int /\ -32768 <= x /\ x <= 32767
Reducible(m, q) == m <= 32768 * q
LaneFits(m) == m <= 32767
Bounds(m, x) == x \in Int /\ -m <= x /\ x <= m

\* Wrapping to 16 bits changes a value by a multiple of 2^16, and a value that
\* fits not at all.
LEMMA Wrap ==
  ASSUME NEW x \in Int
  PROVE  /\ IsI16(I16(x)) /\ SameLow(x, I16(x))
         /\ IsI16(x) => I16(x) = x
BY SMT DEF I16, IsI16, SameLow

\* The product of two bounded values is bounded by the product of the bounds.
LEMMA ProductBound ==
  ASSUME NEW a, NEW z, NEW m \in Nat, NEW w \in Nat, Bounds(m, a), Bounds(w, z)
  PROVE  Bounds(m * w, a * z)
<1>1. a \in Int /\ z \in Int
  BY DEF Bounds
<1>2. m - a \in Nat /\ m + a \in Nat /\ w - z \in Nat /\ w + z \in Nat
  BY SMT DEF Bounds
<1>3. \A x, y \in Nat : x * y \in Nat
  BY SMT
<1>4. (m - a) * (w + z) >= 0 /\ (m + a) * (w - z) >= 0
      /\ (m - a) * (w - z) >= 0 /\ (m + a) * (w + z) >= 0
  BY <1>2, <1>3, SMT
<1>5. (m - a) * (w + z) = m * w + m * z - a * w - a * z
      /\ (m + a) * (w - z) = m * w - m * z + a * w - a * z
      /\ (m - a) * (w - z) = m * w - m * z - a * w + a * z
      /\ (m + a) * (w + z) = m * w + m * z + a * w + a * z
  BY <1>1, SMT
<1> DEFINE mw == m * w
           mz == m * z
           aw == a * w
           az == a * z
<1>6. mw \in Int /\ mz \in Int /\ aw \in Int /\ az \in Int
  BY <1>1, SMT
<1>7. mw + mz - aw - az >= 0 /\ mw - mz + aw - az >= 0
      /\ mw - mz - aw + az >= 0 /\ mw + mz + aw + az >= 0
  BY <1>4, <1>5
<1> HIDE DEF mw, mz, aw, az
<1>8. -mw <= az /\ az <= mw
  BY <1>6, <1>7, SMT
<1> QED
  BY <1>6, <1>8 DEF mw, az, Bounds

\* Two values that agree in their low halves differ by the difference of their
\* high halves.
LEMMA HighHalves ==
  ASSUME NEW x \in Int, NEW y \in Int, SameLow(x, y)
  PROVE  /\ x \div 65536 \in Int /\ y \div 65536 \in Int
         /\ 65536 * ((x \div 65536) - (y \div 65536)) = x - y
BY SMT DEF SameLow

\* A Montgomery reduction divides by 2^16 exactly, and its bound.
LEMMA ReducedBound ==
  ASSUME NEW x, NEW t, NEW m \in Nat, NEW q \in Primes,
         Bounds(m, x), Reducible(m, q), IsI16(t), SameLow(x, t * q)
  PROVE  /\ Bounds(ReduceBound(m, q), Reduced(x, t, q))
         /\ 65536 * Reduced(x, t, q) = x - t * q
<1> DEFINE y == t * q
           xh == x \div 65536
           yh == y \div 65536
<1> USE DEF Primes
<1>1. /\ x \in Int /\ -m <= x /\ x <= m /\ m <= 32768 * q
      /\ t \in Int /\ -32768 <= t /\ t <= 32767
  BY DEF Bounds, Reducible, IsI16
<1>2. y \in Int /\ -(32768 * q) <= y /\ y <= 32768 * q
  BY <1>1, SMT
<1>3. xh \in Int /\ yh \in Int /\ 65536 * (xh - yh) = x - y
  BY <1>1, <1>2, HighHalves
<1>4. -5377 <= xh /\ xh <= 5377
  <2>1. -352354304 <= x /\ x <= 352354304
    BY <1>1, SMT
  <2>2. QED  BY <1>1, <2>1, SMT
<1>5. I16(xh) = xh
  BY <1>3, <1>4, Wrap, SMT DEF IsI16
<1> DEFINE b == ReduceBound(m, q)
           d == xh - yh
<1>6. b \in Int /\ m + 32768 * q < 65536 * b + 65536
  BY SMT DEF ReduceBound
<1> HIDE DEF b, y, xh, yh
<1>7. d \in Int /\ 65536 * d = x - y
  BY <1>3
<1> HIDE DEF d
<1>8. -b <= d /\ d <= b /\ -32768 <= d /\ d <= 32767
  BY <1>1, <1>2, <1>6, <1>7, SMT
<1>9. Reduced(x, t, q) = d
  <2>1. Reduced(x, t, q) = I16(I16(xh) - yh)
    BY DEF Reduced, MulHi, xh, yh, y
  <2>2. I16(I16(xh) - yh) = I16(d)
    BY <1>5 DEF d
  <2>3. I16(d) = d
    BY <1>7, <1>8, Wrap DEF IsI16
  <2>4. QED  BY <2>1, <2>2, <2>3
<1>10. QED
  BY <1>6, <1>7, <1>8, <1>9 DEF b, y, Bounds
-----------------------------------------------------------------------------
\* QInv is the inverse of the prime modulo 2^16, so the Montgomery quotient
\* times the prime agrees with the value in its low half: for a reduction, and
\* for a product with a precomputed factor (zeta_q).
LEMMA QuotientAgrees ==
  ASSUME NEW q \in Primes, NEW x \in Int, NEW u \in Int, SameLow(x, u)
  PROVE  IsI16(MulLo(u, QInv(q))) /\ SameLow(x, MulLo(u, QInv(q)) * q)
<1> DEFINE t == MulLo(u, QInv(q))
<1>1. CASE q = 7681
  <2>1. t = I16(u * (-7679))
    BY <1>1 DEF MulLo, QInv
  <2>2. IsI16(t) /\ SameLow(u * (-7679), t)
    BY <2>1, Wrap
  <2> HIDE DEF t
  <2>3. SameLow(x, t * 7681)
    BY <2>2, SMT DEF SameLow, IsI16
  <2>4. QED  BY <1>1, <2>2, <2>3 DEF t
<1>2. CASE q = 10753
  <2>1. t = I16(u * (-10751))
    BY <1>2 DEF MulLo, QInv
  <2>2. IsI16(t) /\ SameLow(u * (-10751), t)
    BY <2>1, Wrap
  <2> HIDE DEF t
  <2>3. SameLow(x, t * 10753)
    BY <2>2, SMT DEF SameLow, IsI16
  <2>4. QED  BY <1>2, <2>2, <2>3 DEF t
<1>3. QED  BY <1>1, <1>2 DEF Primes

\* Values that agree still do when multiplied.
LEMMA MultipleTimes ==
  ASSUME NEW a \in Int, NEW x \in Int, NEW y \in Int, SameLow(x, y)
  PROVE  SameLow(a * x, a * y)
<1> DEFINE k == (x - y) \div 65536
<1>1. k \in Int /\ x - y = 65536 * k
  BY SMT DEF SameLow
<1> HIDE DEF k
<1>2. a * x - a * y = 65536 * (a * k)
  <2>1. a * x - a * y = a * (x - y)
    BY SMT
  <2>2. a * (x - y) = a * (65536 * k)
    BY <1>1
  <2>3. a * (65536 * k) = 65536 * (a * k)
    BY <1>1, SMT
  <2>4. QED  BY <2>1, <2>2, <2>3
<1> DEFINE ak == a * k
<1>3. ak \in Int
  BY <1>1, SMT
<1> HIDE DEF ak
<1>4. (65536 * ak) % 65536 = 0
  BY <1>3, SMT
<1>5. QED  BY <1>2, <1>4 DEF ak, SameLow

\* The quotient of mont_mul times the prime agrees with the product in the low half.
LEMMA ProductQuotientAgrees ==
  ASSUME NEW q \in Primes, NEW a \in Int, NEW z \in Int
  PROVE  /\ IsI16(MulLo(a, MulLo(z, QInv(q))))
         /\ SameLow(a * z, MulLo(a, MulLo(z, QInv(q))) * q)
<1> DEFINE zq == MulLo(z, QInv(q))
           t == MulLo(a, zq)
           p == a * zq
           zqq == zq * q
           pq == a * zqq
           az == a * z
<1> SUFFICES IsI16(t) /\ SameLow(az, t * q)
  OBVIOUS
<1>1. zq \in Int /\ SameLow(z, zqq)
  BY QuotientAgrees, SMT DEF SameLow, IsI16
<1>2. p \in Int /\ IsI16(t) /\ SameLow(p, t)
  <2>1. p \in Int
    BY <1>1, SMT
  <2>2. t = I16(p)
    BY DEF MulLo
  <2>3. QED  BY <2>1, <2>2, Wrap
<1>3. zqq \in Int
  BY <1>1, SMT DEF Primes
<1> HIDE DEF zqq
<1>4. az \in Int /\ pq \in Int /\ SameLow(az, pq)
  <2>1. SameLow(a * z, a * zqq)
    BY <1>1, <1>3, MultipleTimes
  <2>2. QED  BY <1>3, <2>1, SMT
<1>5. pq = p * q
  BY <1>1, SMT DEF zqq, Primes
<1> HIDE DEF p, t, pq, az
<1>6. SameLow(az, t * q)
  <2>1. CASE q = 7681
    BY <1>2, <1>4, <1>5, <2>1, SMT DEF SameLow, IsI16
  <2>2. CASE q = 10753
    BY <1>2, <1>4, <1>5, <2>2, SMT DEF SameLow, IsI16
  <2>3. QED  BY <2>1, <2>2 DEF Primes
<1>7. QED  BY <1>2, <1>6

\* A Montgomery product's quotient and bound, with the product itself in the range of
\* the reduction.
LEMMA MontMulBound ==
  ASSUME NEW q \in Primes, NEW a, NEW z, NEW m \in Nat, NEW w \in Nat,
         Bounds(m, a), LaneFits(m), Bounds(w, z), w <= q \div 2
  PROVE  /\ Bounds(MontBound(m, w, q), MontMul(a, z, q))
         /\ \E t \in Int : 65536 * MontMul(a, z, q) = a * z - t * q
<1> DEFINE x == a * z
           t == MulLo(a, MulLo(z, QInv(q)))
           n == m * w
<1>1. Bounds(n, x)
  BY ProductBound
<1>2. n \in Nat /\ Reducible(n, q)
  <2>1. n \in Nat
    BY SMT
  <2>2. w <= 5376 /\ (q = 7681 => w <= 3840)
    BY SMT DEF Primes
  <2>3. n <= 32767 * w
    <3> DEFINE M == 32767
    <3>1. M \in Nat /\ Bounds(M, m) /\ Bounds(w, w)
      BY SMT DEF Bounds, LaneFits
    <3> HIDE DEF M
    <3>2. Bounds(M * w, m * w)
      BY <3>1, ProductBound
    <3>3. QED  BY <3>2 DEF Bounds, M
  <2> HIDE DEF n
  <2>4. QED  BY <2>1, <2>2, <2>3, SMT DEF Primes, Reducible
<1>3. IsI16(t) /\ SameLow(x, t * q)
  <2>1. a \in Int /\ z \in Int
    BY DEF Bounds
  <2>2. QED  BY <2>1, ProductQuotientAgrees
<1>4. MontMul(a, z, q) = Reduced(x, t, q) /\ MontBound(m, w, q) = ReduceBound(n, q)
  BY DEF MontMul, MontBound
<1> HIDE DEF x, t, n
<1>5. /\ Bounds(ReduceBound(n, q), Reduced(x, t, q))
      /\ 65536 * Reduced(x, t, q) = x - t * q
  BY <1>1, <1>2, <1>3, ReducedBound
<1>6. t \in Int
  BY <1>3 DEF IsI16
<1>7. QED  BY <1>4, <1>5, <1>6 DEF x

\* The Montgomery reduction of an accumulator divides by 2^16 up to a multiple of
\* the prime, and keeps to its bound.
LEMMA MontReduceBound ==
  ASSUME NEW q \in Primes, NEW x, NEW m \in Nat, Bounds(m, x), Reducible(m, q)
  PROVE  /\ Bounds(ReduceBound(m, q), MontReduce(x, q))
         /\ \E t \in Int : 65536 * MontReduce(x, q) = x - t * q
<1> DEFINE u == I16(x)
           t == MulLo(u, QInv(q))
<1>1. x \in Int /\ u \in Int /\ SameLow(x, u)
  BY Wrap DEF Bounds, IsI16
<1>2. MontReduce(x, q) = Reduced(x, t, q)
  BY DEF MontReduce
<1> HIDE DEF u
<1>3. IsI16(t) /\ SameLow(x, t * q)
  BY <1>1, QuotientAgrees
<1> HIDE DEF t
<1>4. t \in Int
  BY <1>3 DEF IsI16
<1>5. QED  BY <1>2, <1>3, <1>4, ReducedBound

\* Barrett's reduction centres every 16-bit value.
LEMMA BarrettCentres ==
  ASSUME NEW q \in Primes, NEW x, IsI16(x)
  PROVE  Bounds(q \div 2, Barrett(x, q))
<1>1. x \in Int /\ -32768 <= x /\ x <= 32767
  BY DEF IsI16
<1>2. CASE q = 7681
  BY <1>1, <1>2, SMT DEF Barrett, MulLo, MulHi, I16, BarrettM, Bounds
<1>3. CASE q = 10753
  BY <1>1, <1>3, SMT DEF Barrett, MulLo, MulHi, I16, BarrettM, Bounds
<1>4. QED  BY <1>2, <1>3 DEF Primes

\* Barrett's reduction subtracts a multiple of the prime, on every 16-bit value.
LEMMA BarrettResidue ==
  ASSUME NEW q \in Primes, NEW x, IsI16(x)
  PROVE  Barrett(x, q) % q = x % q
<1> DEFINE h == I16(MulHi(x, BarrettM(q)) + 1024) \div 2048
<1>1. x \in Int /\ -32768 <= x /\ x <= 32767
  BY DEF IsI16
<1>2. h \in Int /\ Barrett(x, q) = x - h * q
  <2>1. CASE q = 7681
    BY <1>1, <2>1, SMT DEF Barrett, MulLo, MulHi, I16, BarrettM
  <2>2. CASE q = 10753
    BY <1>1, <2>2, SMT DEF Barrett, MulLo, MulHi, I16, BarrettM
  <2>3. QED  BY <2>1, <2>2 DEF Primes
<1> HIDE DEF h
<1>3. -h \in Int /\ x - h * q = x + (-h) * q /\ x - h * q \in Int
  BY <1>1, <1>2, SMT DEF Primes
<1>4. QED  BY <1>1, <1>2, <1>3, SameResidue
-----------------------------------------------------------------------------
\* NEON's doubled high halves differ by twice the difference of the high halves:
\* both carry the same bit (neon/ntt.rs:233-239).
LEMMA DoubledHighHalves ==
  ASSUME NEW x \in Int, NEW y \in Int, SameLow(x, y)
  PROVE  ((x \div 32768) - (y \div 32768)) \div 2 = (x \div 65536) - (y \div 65536)
<1> DEFINE k == (x - y) \div 65536
<1>1. k \in Int /\ x = y + 65536 * k
  BY SMT DEF SameLow
<1> HIDE DEF k
<1>2. x \div 32768 = (y \div 32768) + 2 * k
  BY <1>1, SMT
<1>3. x \div 65536 = (y \div 65536) + k
  BY <1>1, SMT
<1> DEFINE u == y \div 32768
           v == y \div 65536
<1>4. u \in Int /\ v \in Int
  BY SMT
<1> HIDE DEF u, v
<1>5. ((u + 2 * k) - u) \div 2 = (v + k) - v
  BY <1>1, <1>4, SMT
<1>6. QED  BY <1>2, <1>3, <1>5 DEF u, v

\* The NEON product is the portable one.
LEMMA NeonMontMulSame ==
  ASSUME NEW q \in Primes, NEW a \in Int, NEW z, NEW w \in Nat,
         IsI16(a), Bounds(w, z), w <= q \div 2
  PROVE  NeonMontMul(a, z, q) = MontMul(a, z, q)
<1> DEFINE x == a * z
           t == MulLo(a, MulLo(z, QInv(q)))
           y == t * q
<1>1. IsI16(t) /\ SameLow(x, y) /\ z \in Int
  BY ProductQuotientAgrees DEF Bounds
<1> HIDE DEF t
<1>2. z # -32768 /\ q # -32768
  BY SMT DEF Bounds, Primes
<1>3. NeonMontMul(a, z, q) = ((x \div 32768) - (y \div 32768)) \div 2
  BY <1>2 DEF NeonMontMul, Sqdmulh, t
<1>4. x \in Int /\ y \in Int
  BY <1>1, SMT DEF IsI16, Primes
<1>5. NeonMontMul(a, z, q) = (x \div 65536) - (y \div 65536)
  BY <1>1, <1>3, <1>4, DoubledHighHalves
<1>6. Bounds(32768, a) /\ w <= 5376 /\ w \in Nat /\ w <= 32767
  BY SMT DEF Bounds, Primes, IsI16
<1>7. MontMul(a, z, q) = I16(I16(x \div 65536) - (y \div 65536))
  BY DEF MontMul, Reduced, MulHi, t
<1>8. x \div 65536 \in Int /\ -32768 <= x \div 65536 /\ x \div 65536 <= 32767
  <2>1. Bounds(32768 * w, x)
    BY <1>6, ProductBound, SMT
  <2>2. QED  BY <1>4, <1>6, <2>1, SMT DEF Bounds
<1>9. I16(x \div 65536) = x \div 65536
  BY <1>8, Wrap DEF IsI16
<1> DEFINE d == (x \div 65536) - (y \div 65536)
<1>10. 65536 * d = x - y /\ d \in Int
  <2>1. x \div 65536 \in Int /\ y \div 65536 \in Int /\ 65536 * d = x - y
    BY <1>1, <1>4, HighHalves
  <2>2. QED  BY <2>1, SMT
<1>11. -352354304 <= y /\ y <= 352354304 /\ -176160768 <= x /\ x <= 176160768
  <2>1. -352354304 <= y /\ y <= 352354304
    BY <1>1, SMT DEF IsI16, Primes
  <2>2. Bounds(32768 * w, x)
    BY <1>6, ProductBound, SMT
  <2>3. QED  BY <1>6, <2>1, <2>2, SMT DEF Bounds
<1> HIDE DEF x, y
<1>12. IsI16(d)
  <2> HIDE DEF d
  <2>1. QED  BY <1>4, <1>10, <1>11, SMT DEF IsI16
<1>13. I16(d) = d
  BY <1>10, <1>12, Wrap
<1>14. QED  BY <1>5, <1>7, <1>9, <1>13

\* NEON's Barrett reduction is the portable one on every lane.
LEMMA NeonBarrettSame ==
  ASSUME NEW q \in Primes, NEW x, IsI16(x)
  PROVE  NeonBarrett(x, q) = Barrett(x, q)
<1> DEFINE p == x * BarrettM(q)
<1>1. p \in Int /\ BarrettM(q) # -32768
  BY SMT DEF IsI16, BarrettM
<1>2. Sqdmulh(x, BarrettM(q)) = p \div 32768
  BY <1>1 DEF Sqdmulh
<1>3. MulHi(x, BarrettM(q)) = p \div 65536
  BY DEF MulHi
<1> HIDE DEF p
<1>4. (p \div 32768) \div 2 = p \div 65536
  BY <1>1, SMT
<1>5. QED  BY <1>2, <1>3, <1>4 DEF NeonBarrett, Barrett
-----------------------------------------------------------------------------
\* A lane of a block, in the vector that holds it.
LEMMA VectorLane ==
  ASSUME NEW a, NEW j \in Block
  PROVE  /\ j % 16 \in 0..15 /\ Vector(16, a, j)[j % 16] = a[j]
         /\ j % 8 \in 0..7 /\ Vector(8, a, j)[j % 8] = a[j]
<1>1. j % 16 \in 0..15 /\ 16 * (j \div 16) + (j % 16) = j
  BY SMT DEF Block
<1>2. j % 8 \in 0..7 /\ 8 * (j \div 8) + (j % 8) = j
  BY SMT DEF Block
<1>3. QED  BY <1>1, <1>2 DEF Vector

\* The low and the high half of a value put it together again.
LEMMA JoinHalves ==
  ASSUME NEW x \in Int
  PROVE  Join(I16(x), x \div 65536) = x
BY SMT DEF Join, I16

\* The unpacks and the exchange of halves bring each product to its own lane.
LEMMA Avx2ProductsLane ==
  ASSUME NEW l, NEW r, NEW i \in 0..15
  PROVE  Avx2Products(l, r)[i] = Join(MulLo(l[i], r[i]), MulHi(l[i], r[i]))
<1> DEFINE lo == [k \in 0..15 |-> MulLo(l[k], r[k])]
           hi == [k \in 0..15 |-> MulHi(l[k], r[k])]
           p0 == unpacklo_epi16(lo, hi)
           p1 == unpackhi_epi16(lo, hi)
<1>1. Avx2Products(l, r)[i] = IF i < 8 THEN LowHalvesOf(p0, p1)[i] ELSE HighHalvesOf(p0, p1)[i - 8]
  BY DEF Avx2Products
<1>2. lo[i] = MulLo(l[i], r[i]) /\ hi[i] = MulHi(l[i], r[i])
  OBVIOUS
<1> HIDE DEF lo, hi
<1>3. \A k \in 0..3 : p0[k] = Join(lo[k], hi[k]) /\ p1[k] = Join(lo[k + 4], hi[k + 4])
  <2> TAKE k \in 0..3
  <2>1. k \in 0..7 /\ k \div 4 = 0 /\ k % 4 = k /\ 8 * 0 + k = k /\ 8 * 0 + 4 + k = k + 4
    BY SMT
  <2>2. QED  BY <2>1 DEF unpacklo_epi16, unpackhi_epi16
<1>4. \A k \in 4..7 : p0[k] = Join(lo[k + 4], hi[k + 4]) /\ p1[k] = Join(lo[k + 8], hi[k + 8])
  <2> TAKE k \in 4..7
  <2>1. k \in 0..7 /\ k \div 4 = 1 /\ k % 4 = k - 4
        /\ 8 * 1 + (k - 4) = k + 4 /\ 8 * 1 + 4 + (k - 4) = k + 8
    BY SMT
  <2>2. QED  BY <2>1 DEF unpacklo_epi16, unpackhi_epi16
<1> HIDE DEF p0, p1
<1>5. CASE i \in 0..3
  <2>1. i < 8 /\ i \in 0..7 /\ i < 4
    BY <1>5, SMT
  <2>2. QED  BY <1>1, <1>2, <1>3, <1>5, <2>1 DEF LowHalvesOf
<1>6. CASE i \in 4..7
  <2>1. i < 8 /\ i \in 0..7 /\ ~(i < 4) /\ i - 4 \in 0..3 /\ (i - 4) + 4 = i
    BY <1>6, SMT
  <2>2. p1[i - 4] = Join(lo[i], hi[i])
    BY <1>3, <2>1
  <2>3. QED  BY <1>1, <1>2, <2>1, <2>2 DEF LowHalvesOf
<1>7. CASE i \in 8..11
  <2>1. ~(i < 8) /\ i - 8 \in 0..7 /\ i - 8 < 4 /\ (i - 8) + 4 \in 4..7 /\ (i - 8) + 4 + 4 = i
    BY <1>7, SMT
  <2>2. p0[(i - 8) + 4] = Join(lo[i], hi[i])
    BY <1>4, <2>1
  <2>3. QED  BY <1>1, <1>2, <2>1, <2>2 DEF HighHalvesOf
<1>8. CASE i \in 12..15
  <2>1. ~(i < 8) /\ i - 8 \in 0..7 /\ ~(i - 8 < 4) /\ i - 8 \in 4..7 /\ (i - 8) + 8 = i
    BY <1>8, SMT
  <2>2. p1[i - 8] = Join(lo[i], hi[i])
    BY <1>4, <2>1
  <2>3. QED  BY <1>1, <1>2, <2>1, <2>2 DEF HighHalvesOf
<1>9. QED  BY <1>5, <1>6, <1>7, <1>8, SMT

\* A pack and the exchange of quarters bring two vectors of eight into one, in order.
LEMMA PackedOrder ==
  ASSUME NEW a, NEW b, NEW i \in 0..15
  PROVE  /\ 4 * Quarter(i \div 4) + (i % 4) \in 0..15
         /\ Packed(a, b)[4 * Quarter(i \div 4) + (i % 4)] = IF i < 8 THEN a[i] ELSE b[i - 8]
<1> DEFINE n == 4 * Quarter(i \div 4) + (i % 4)
<1>1. CASE i \in 0..3
  <2>1. n = i /\ n \in 0..15 /\ n % 8 < 4 /\ 4 * (n \div 8) + (n % 4) = i /\ i < 8
    BY <1>1, SMT DEF Quarter
  <2> HIDE DEF n
  <2>2. QED  BY <2>1 DEF Packed, n
<1>2. CASE i \in 4..7
  <2>1. n \in 0..15 /\ n % 8 < 4 /\ 4 * (n \div 8) + (n % 4) = i /\ i < 8
    BY <1>2, SMT DEF Quarter
  <2> HIDE DEF n
  <2>2. QED  BY <2>1 DEF Packed, n
<1>3. CASE i \in 8..11
  <2>1. n \in 0..15 /\ ~(n % 8 < 4) /\ 4 * (n \div 8) + (n % 4) = i - 8 /\ ~(i < 8)
    BY <1>3, SMT DEF Quarter
  <2> HIDE DEF n
  <2>2. QED  BY <2>1 DEF Packed, n
<1>4. CASE i \in 12..15
  <2>1. n \in 0..15 /\ ~(n % 8 < 4) /\ 4 * (n \div 8) + (n % 4) = i - 8 /\ ~(i < 8)
    BY <1>4, SMT DEF Quarter
  <2> HIDE DEF n
  <2>2. QED  BY <2>1 DEF Packed, n
<1>5. QED  BY <1>1, <1>2, <1>3, <1>4, SMT

\* The high half of a reducible accumulator fits 16 bits.
LEMMA HighHalfFits ==
  ASSUME NEW q \in Primes, NEW x, NEW m \in Nat, Bounds(m, x), Reducible(m, q)
  PROVE  x \in Int /\ IsI16(x \div 65536)
BY SMT DEF Primes, Bounds, Reducible, IsI16

\* Packing such an accumulator saturates neither half, so that AVX2's reduction
\* of a vector is the portable one of each lane.
LEMMA Avx2ReduceLane ==
  ASSUME NEW q \in Primes, NEW v, NEW i \in 0..15, NEW m \in Nat,
         Bounds(m, v[i]), Reducible(m, q)
  PROVE  Avx2Reduce(v, q)[i] = MontReduce(v[i], q)
<1> DEFINE low0  == LowHalf(v, 0)
           low1  == LowHalf(v, 8)
           high0 == HighHalf(v, 0)
           high1 == HighHalf(v, 8)
           lo == permute4x64_D8(packs_epi32(low0, low1))
           hi == permute4x64_D8(packs_epi32(high0, high1))
           n  == 4 * Quarter(i \div 4) + (i % 4)
<1>1. Avx2Reduce(v, q)[i] = I16(hi[i] - MulHi(MulLo(lo[i], QInv(q)), q))
  <2>1. Avx2Reduce(v, q) = [k \in 0..15 |-> I16(hi[k] - MulHi(MulLo(lo[k], QInv(q)), q))]
    BY Zenon DEF Avx2Reduce
  <2> HIDE DEF lo, hi
  <2>2. QED  BY <2>1, Zenon
<1>2. n \in 0..15 /\ Packed(low0, low1)[n] = I16(v[i]) /\ Packed(high0, high1)[n] = v[i] \div 65536
  <2>1. \/ i < 8 /\ i \in 0..7
        \/ ~(i < 8) /\ i - 8 \in 0..7 /\ (i - 8) + 8 = i
    BY SMT
  <2>2. (IF i < 8 THEN low0[i] ELSE low1[i - 8]) = I16(v[i])
    BY <2>1 DEF LowHalf
  <2>3. (IF i < 8 THEN high0[i] ELSE high1[i - 8]) = v[i] \div 65536
    BY <2>1 DEF HighHalf
  <2> HIDE DEF low0, low1, high0, high1
  <2>4. QED  BY <2>2, <2>3, PackedOrder
<1> HIDE DEF low0, low1, high0, high1
<1>3. \A x : IsI16(x) => Saturated(x, -32768, 32767) = x
  BY SMT DEF IsI16, Saturated
<1>4. v[i] \in Int /\ IsI16(I16(v[i])) /\ IsI16(v[i] \div 65536)
  BY HighHalfFits, Wrap
<1>5. lo[i] = I16(v[i])
  <2>1. lo[i] = Saturated(Packed(low0, low1)[n], -32768, 32767)
    BY <1>2 DEF permute4x64_D8, packs_epi32
  <2>2. QED  BY <1>2, <1>3, <1>4, <2>1
<1>6. hi[i] = v[i] \div 65536
  <2>1. hi[i] = Saturated(Packed(high0, high1)[n], -32768, 32767)
    BY <1>2 DEF permute4x64_D8, packs_epi32
  <2>2. QED  BY <1>2, <1>3, <1>4, <2>1
<1>7. I16(v[i] \div 65536) = v[i] \div 65536
  BY <1>4, Wrap DEF IsI16
<1> HIDE DEF lo, hi
<1>8. QED  BY <1>1, <1>5, <1>6, <1>7 DEF MontReduce, Reduced

\* So is NEON's.
LEMMA NeonReduceLane ==
  ASSUME NEW q \in Primes, NEW v, NEW i \in 0..7, NEW m \in Nat,
         Bounds(m, v[i]), Reducible(m, q)
  PROVE  NeonReduce(v, q)[i] = MontReduce(v[i], q)
<1> DEFINE a0 == [k \in 0..3 |-> v[k]]
           a1 == [k \in 0..3 |-> v[k + 4]]
           lo == xtn_pair_32(a0, a1)
           hi == shrn16_pair_s32(a0, a1)
           t  == MulLo(I16(v[i]), QInv(q))
<1>1. NeonReduce(v, q)[i] = I16(hi[i] - NeonMulHi(MulLo(lo[i], QInv(q)), q))
  BY DEF NeonReduce
<1>2. (IF i < 4 THEN a0[i] ELSE a1[i - 4]) = v[i]
  <2>1. \/ i < 4 /\ i \in 0..3
        \/ ~(i < 4) /\ i - 4 \in 0..3 /\ (i - 4) + 4 = i
    BY SMT
  <2>2. QED  BY <2>1
<1> HIDE DEF a0, a1
<1>3. lo[i] = I16(v[i]) /\ hi[i] = I16(v[i] \div 65536)
  BY <1>2 DEF xtn_pair_32, shrn16_pair_s32
<1>4. IsI16(t)
  <2>1. v[i] \in Int
    BY HighHalfFits
  <2>2. I16(v[i]) \in Int /\ SameLow(v[i], I16(v[i]))
    BY <2>1, Wrap DEF IsI16
  <2>3. QED  BY <2>1, <2>2, QuotientAgrees
<1> HIDE DEF t
<1>5. NeonMulHi(t, q) = MulHi(t, q)
  <2>1. t * q \in Int /\ q # -32768
    BY <1>4, SMT DEF Primes, IsI16
  <2>2. Sqdmulh(t, q) = (t * q) \div 32768
    BY <2>1 DEF Sqdmulh
  <2>3. \A x \in Int : (x \div 32768) \div 2 = x \div 65536
    BY SMT
  <2>4. QED  BY <2>1, <2>2, <2>3 DEF NeonMulHi, MulHi
<1> HIDE DEF lo, hi
<1>6. NeonReduce(v, q)[i] = I16(hi[i] - NeonMulHi(t, q))
  BY <1>1, <1>3 DEF t
<1>7. QED  BY <1>3, <1>5, <1>6 DEF MontReduce, Reduced, t
-----------------------------------------------------------------------------
\* A value below n; and a residue as a transform back leaves it.
Below(x, n) == x \in Int /\ 0 <= x /\ x < n
Signed(r, q) == r \in Int /\ -q < r /\ r < q

\* Adding the prime to a negative residue makes it the canonical one.
LEMMA NonnegativeIs ==
  ASSUME NEW q \in Primes, NEW r, Signed(r, q)
  PROVE  Nonnegative(r, q) = r % q /\ Below(r % q, q)
<1>1. r \in Int /\ q \in Int /\ -q < r /\ r < q /\ 0 < q /\ q < 10754
  BY SMT DEF Signed, Primes
<1>2. CASE r < 0
  <2> DEFINE x == r + q
  <2>1. x \in Int /\ IsI16(x) /\ r \div 32768 = -1 /\ 0 <= x /\ x < q
    BY <1>1, <1>2, SMT DEF IsI16
  <2>2. r % q = x
    BY <1>1, <1>2, SMT DEF Primes
  <2> HIDE DEF x
  <2>3. I16(x) = x
    BY <2>1, Wrap
  <2>4. Nonnegative(r, q) = I16(r + q)
    BY <2>1 DEF Nonnegative, Masked
  <2>5. QED  BY <2>1, <2>2, <2>3, <2>4 DEF x, Below
<1>3. CASE ~(r < 0)
  <2>1. r \div 32768 = 0 /\ r + 0 = r /\ IsI16(r) /\ 0 <= r
    BY <1>1, <1>3, SMT DEF IsI16
  <2>2. r % q = r
    BY <1>1, <1>3, SMT DEF Primes
  <2>3. I16(r) = r
    BY <1>1, <2>1, Wrap
  <2>4. Nonnegative(r, q) = I16(r + 0)
    BY <2>1 DEF Nonnegative, Masked
  <2>5. QED  BY <1>1, <2>1, <2>2, <2>3, <2>4 DEF Below
<1>4. QED  BY <1>2, <1>3

\* The constant of the CRT step is the inverse of Q1 in Montgomery form: the
\* quotient is that of Garner's formula, with either backend's multiplication.
LEMMA QuotientIs ==
  ASSUME NEW a1, NEW a2, Below(a1, Q1), Below(a2, Q2)
  PROVE  /\ Quotient(a1, a2) = ((a2 - a1) * 5380) % Q2
         /\ Below(Quotient(a1, a2), Q2)
         /\ NeonQuotient(a1, a2) = Quotient(a1, a2)
<1> DEFINE d == a2 - a1
           z == 3563
           m == MontMul(d, z, Q2)
           M == 10752
<1>1. d \in Int /\ -10752 <= d /\ d <= 10752
  BY SMT DEF Below, Q1, Q2
<1>2. Q2 \in Primes /\ M \in Nat /\ z \in Nat
  BY DEF Primes, Q2
<1> HIDE DEF d
<1>3. /\ Bounds(M, d) /\ LaneFits(M) /\ Bounds(z, z) /\ z <= Q2 \div 2
      /\ IsI16(d)
  BY <1>1, SMT DEF Bounds, LaneFits, IsI16, Q2
<1>4. I16(d) = d
  BY <1>1, <1>3, Wrap
<1> HIDE DEF M, z
<1>5. /\ Bounds(MontBound(M, z, Q2), m)
      /\ \E t \in Int : 65536 * m = d * z - t * Q2
  BY <1>2, <1>3, MontMulBound
<1>6. NeonMontMul(d, z, Q2) = m
  BY <1>1, <1>2, <1>3, NeonMontMulSame
<1> HIDE DEF m
<1>7. PICK t \in Int : 65536 * m = d * z - t * Q2
  BY <1>5
<1>8. Signed(m, Q2)
  BY <1>5, SMT DEF MontBound, ReduceBound, Bounds, M, z, Q2, Signed
\* 65536 * 1764 = 1 + 10751 * 10753 and 3563 * 1764 = 5380 + 584 * 10753.
<1> DEFINE e == 584 * d - 1764 * t - 10751 * m
<1>9. m = 5380 * d + 10753 * e /\ e \in Int
  BY <1>1, <1>7, <1>8, SMT DEF z, Q2, Signed
<1> HIDE DEF e
<1>10. m % Q2 = (d * 5380) % Q2
  BY <1>1, <1>8, <1>9, SMT DEF Q2, Signed
<1>11. Nonnegative(m, Q2) = m % Q2 /\ Below(m % Q2, Q2)
  BY <1>2, <1>8, NonnegativeIs
<1>12. /\ Quotient(a1, a2) = Nonnegative(MontMul(I16(d), z, Q2), Q2)
       /\ NeonQuotient(a1, a2) = Nonnegative(NeonMontMul(I16(d), z, Q2), Q2)
  BY DEF Quotient, NeonQuotient, CrtQ1InvMont, d, z
<1>13. Quotient(a1, a2) = m % Q2 /\ NeonQuotient(a1, a2) = m % Q2
  BY <1>4, <1>6, <1>11, <1>12 DEF m
<1>14. QED  BY <1>10, <1>11, <1>13 DEF d

\* What the CRT step of a lane works with: canonical residues and a quotient.
LEMMA CrtOperands ==
  ASSUME NEW r1, NEW r2, Signed(r1, Q1), Signed(r2, Q2)
  PROVE  /\ Nonnegative(r1, Q1) = r1 % Q1 /\ Below(Nonnegative(r1, Q1), Q1)
         /\ Nonnegative(r2, Q2) = r2 % Q2 /\ Below(Nonnegative(r2, Q2), Q2)
         /\ Below(Quotient(Nonnegative(r1, Q1), Nonnegative(r2, Q2)), Q2)
         /\ Quotient(Nonnegative(r1, Q1), Nonnegative(r2, Q2))
              = (((r2 % Q2) - (r1 % Q1)) * 5380) % Q2
         /\ NeonQuotient(Nonnegative(r1, Q1), Nonnegative(r2, Q2))
              = Quotient(Nonnegative(r1, Q1), Nonnegative(r2, Q2))
<1>1. Q1 \in Primes /\ Q2 \in Primes
  BY DEF Q1, Q2, Primes
<1>2. /\ Nonnegative(r1, Q1) = r1 % Q1 /\ Below(r1 % Q1, Q1)
      /\ Nonnegative(r2, Q2) = r2 % Q2 /\ Below(r2 % Q2, Q2)
  BY <1>1, NonnegativeIs
<1> DEFINE a1 == r1 % Q1
           a2 == r2 % Q2
<1> HIDE DEF a1, a2
<1>3. Below(a1, Q1) /\ Below(a2, Q2)
  BY <1>2 DEF a1, a2
<1>4. /\ Quotient(a1, a2) = ((a2 - a1) * 5380) % Q2
      /\ Below(Quotient(a1, a2), Q2) /\ NeonQuotient(a1, a2) = Quotient(a1, a2)
  BY <1>3, QuotientIs
<1>5. QED  BY <1>2, <1>4 DEF a1, a2

\* The coefficient of the CRT step is an integer, and 16 bits of its parts suffice.
LEMMA CrtWord ==
  ASSUME NEW a, NEW t, Below(a, Q1), Below(t, Q2)
  PROVE  /\ Centred32(a + t * Q1) \in Int
         /\ a % 65536 = a /\ t % 65536 = t
<1>1. a \in Int /\ 0 <= a /\ a < 7681 /\ t \in Int /\ 0 <= t /\ t < 10753
  BY DEF Below, Q1, Q2
<1>2. a % 65536 = a /\ t % 65536 = t
  BY <1>1, SMT
<1>3. Centred32(a + t * Q1) \in Int
  BY <1>1, SMT DEF Centred32, CrtQ, CrtQHalf, Q1
<1>4. QED  BY <1>2, <1>3

\* AVX2 lifts every lane as the portable code does: the pack saturates nothing,
\* and the exchange of quarters puts it in order.
LEMMA Avx2CrtLane ==
  ASSUME NEW r1, NEW r2, NEW i \in 0..15, Signed(r1[i], Q1), Signed(r2[i], Q2)
  PROVE  Avx2Crt(r1, r2)[i] = PortableCrt(r1[i], r2[i])
<1> DEFINE a1 == [k \in 0..15 |-> Nonnegative(r1[k], Q1)]
           t  == [k \in 0..15 |-> Quotient(a1[k], Nonnegative(r2[k], Q2))]
           w(k) == Centred32((a1[k] % 65536) + (t[k] % 65536) * Q1) % 65536
           first  == [k \in 0..7 |-> Centred32((a1[k + 0] % 65536) + (t[k + 0] % 65536) * Q1) % 65536]
           second == [k \in 0..7 |-> Centred32((a1[k + 8] % 65536) + (t[k + 8] % 65536) * Q1) % 65536]
           n == 4 * Quarter(i \div 4) + (i % 4)
<1>1. Avx2Crt(r1, r2) = permute4x64_D8(packus_epi32(first, second))
  BY DEF Avx2Crt
<1>2. a1[i] = Nonnegative(r1[i], Q1) /\ t[i] = Quotient(a1[i], Nonnegative(r2[i], Q2))
  OBVIOUS
<1> HIDE DEF a1, t
<1>3. Below(a1[i], Q1) /\ Below(t[i], Q2)
  BY <1>2, CrtOperands
<1>4. (IF i < 8 THEN first[i] ELSE second[i - 8]) = w(i)
  <2>1. \/ i < 8 /\ i \in 0..7 /\ i + 0 = i
        \/ ~(i < 8) /\ i - 8 \in 0..7 /\ (i - 8) + 8 = i
    BY SMT
  <2>2. QED  BY <2>1
<1>5. n \in 0..15 /\ Packed(first, second)[n] = w(i)
  BY <1>4, PackedOrder
<1> HIDE DEF first, second
<1>6. Avx2Crt(r1, r2)[i] = Saturated(Packed(first, second)[n], 0, 65535)
  BY <1>1, <1>5 DEF permute4x64_D8, packus_epi32
<1>7. a1[i] % 65536 = a1[i] /\ t[i] % 65536 = t[i]
  BY <1>3, SMT DEF Below, Q1, Q2
<1>8. w(i) = PortableCrt(r1[i], r2[i])
  BY <1>2, <1>7 DEF PortableCrt
<1> DEFINE x == a1[i] + t[i] * Q1
<1>9. Centred32(x) \in Int
  BY <1>3, CrtWord
<1>10. \A y \in Int : Saturated(y % 65536, 0, 65535) = y % 65536
  BY SMT DEF Saturated
<1> HIDE DEF n
<1>11. w(i) = Centred32(x) % 65536
  BY <1>7
<1> HIDE DEF w, x
<1>12. QED  BY <1>5, <1>6, <1>8, <1>9, <1>10, <1>11

\* So does NEON.
LEMMA NeonCrtLane ==
  ASSUME NEW r1, NEW r2, NEW i \in 0..7, Signed(r1[i], Q1), Signed(r2[i], Q2)
  PROVE  NeonCrt(r1, r2)[i] = PortableCrt(r1[i], r2[i])
<1> DEFINE a1 == [k \in 0..7 |-> Nonnegative(r1[k], Q1)]
           t  == [k \in 0..7 |-> NeonQuotient(a1[k], Nonnegative(r2[k], Q2))]
           first  == [k \in 0..3 |-> Centred32(a1[k + 0] + t[k + 0] * Q1)]
           second == [k \in 0..3 |-> Centred32(a1[k + 4] + t[k + 4] * Q1)]
           x == a1[i] + t[i] * Q1
<1>1. NeonCrt(r1, r2) = [k \in 0..7 |-> xtn_pair_32(first, second)[k] % 65536]
  BY DEF NeonCrt
<1>2. a1[i] = Nonnegative(r1[i], Q1) /\ t[i] = NeonQuotient(a1[i], Nonnegative(r2[i], Q2))
  OBVIOUS
<1> HIDE DEF a1, t
<1>3. Below(a1[i], Q1) /\ Below(t[i], Q2) /\ t[i] = Quotient(a1[i], Nonnegative(r2[i], Q2))
  BY <1>2, CrtOperands
<1>4. (IF i < 4 THEN first[i] ELSE second[i - 4]) = Centred32(x)
  <2>1. \/ i < 4 /\ i \in 0..3 /\ i + 0 = i
        \/ ~(i < 4) /\ i - 4 \in 0..3 /\ (i - 4) + 4 = i
    BY SMT
  <2>2. QED  BY <2>1
<1> HIDE DEF first, second
<1>5. xtn_pair_32(first, second)[i] = I16(Centred32(x))
  BY <1>4 DEF xtn_pair_32
<1>6. Centred32(x) \in Int
  BY <1>3, CrtWord
<1>7. \A y \in Int : I16(y) % 65536 = y % 65536
  BY SMT DEF I16
<1>8. PortableCrt(r1[i], r2[i]) = Centred32(x) % 65536
  BY <1>2, <1>3 DEF PortableCrt
<1> HIDE DEF x
<1>9. QED  BY <1>1, <1>5, <1>6, <1>7, <1>8

-----------------------------------------------------------------------------
\* Polynomials modulo a prime.

\* Numbers with one residue can stand for each other in sums and products.
LEMMA CongruentProduct ==
  ASSUME NEW q \in Primes, NEW x \in Int, NEW y \in Int, x % q = y % q, NEW w \in Int
  PROVE  (w * x) % q = (w * y) % q /\ (x * w) % q = (y * w) % q
<1>1. w * x \in Int /\ w * y \in Int /\ x * w = w * x /\ y * w = w * y
  BY SMT
<1>2. (w * x) % q = ((w % q) * (x % q)) % q /\ (w * y) % q = ((w % q) * (y % q)) % q
  BY ProductResidue
<1>3. QED  BY <1>1, <1>2

LEMMA CongruentSum ==
  ASSUME NEW q \in Primes, NEW x \in Int, NEW y \in Int, x % q = y % q,
         NEW u \in Int, NEW v \in Int, u % q = v % q
  PROVE  (u + x) % q = (v + y) % q
<1>1. (u + x) % q = ((u % q) + (x % q)) % q /\ (v + y) % q = ((v % q) + (y % q)) % q
  BY SumResidue
<1>2. QED  BY <1>1

\* The same, in a form that is easier to find for a prover.
Alike(q, x, y) == x \in Int /\ y \in Int /\ x % q = y % q

LEMMA AlikeSum ==
  ASSUME NEW q \in Primes, NEW x, NEW y, Alike(q, x, y), NEW u, NEW v, Alike(q, u, v)
  PROVE  Alike(q, u + x, v + y)
<1>1. (u + x) % q = (v + y) % q
  BY CongruentSum DEF Alike
<1>2. u + x \in Int /\ v + y \in Int
  BY SMT DEF Alike
<1>3. QED  BY <1>1, <1>2 DEF Alike

LEMMA AlikeProduct ==
  ASSUME NEW q \in Primes, NEW x, NEW y, Alike(q, x, y), NEW w \in Int
  PROVE  Alike(q, w * x, w * y) /\ Alike(q, x * w, y * w)
<1>1. (w * x) % q = (w * y) % q /\ (x * w) % q = (y * w) % q
  BY CongruentProduct DEF Alike
<1>2. w * x \in Int /\ w * y \in Int /\ x * w \in Int /\ y * w \in Int
  BY SMT DEF Alike
<1>3. QED  BY <1>1, <1>2 DEF Alike

LEMMA AlikeSelf ==
  ASSUME NEW q \in Primes, NEW x \in Int
  PROVE  Alike(q, x, x) /\ Alike(q, x, x % q) /\ Alike(q, x % q, x)
<1>1. x % q \in Int /\ (x % q) % q = x % q
  BY ResidueOf, ResidueTwice
<1>2. QED  BY <1>1 DEF Alike

LEMMA ResidueIn ==
  ASSUME NEW q \in Primes, NEW x \in Int
  PROVE  x % q \in 0..(q - 1) /\ x % q \in Int
<1>1. CASE q = 7681   BY <1>1, SMT
<1>2. CASE q = 10753  BY <1>2, SMT
<1>3. QED  BY <1>1, <1>2 DEF Primes

\* The values at w, modulo q, of the upper parts of the polynomial with
\* coefficients c[0] to c[n - 1], by Horner's rule; the last is the whole's.
IsTable(T, c, w, q, n) ==
  /\ T \in [0..n -> Int]
  /\ T[0] = 0
  /\ \A j \in 0..(n - 1) : T[j + 1] = (c[n - 1 - j] + w * T[j]) % q
Horner(c, w, q, n) == (CHOOSE T : IsTable(T, c, w, q, n))[n]

UpperParts(c, w, q, n, m) ==
  {T \in [0..m -> Int] : T[0] = 0 /\ \A j \in 0..(m - 1) : T[j + 1] = (c[n - 1 - j] + w * T[j]) % q}

LEMMA UpperPartsExist ==
  ASSUME NEW q \in Primes, NEW n \in Nat, NEW c, Ints(c, n), NEW w \in Int
  PROVE  UpperParts(c, w, q, n, n) # {}
<1> DEFINE S == {m \in Nat : m <= n => UpperParts(c, w, q, n, m) # {}}
<1>1. 0 \in S
  <2>1. [j \in 0..0 |-> 0] \in UpperParts(c, w, q, n, 0)
    BY SMT DEF UpperParts
  <2>2. QED  BY <2>1
<1>2. ASSUME NEW m \in Nat, m \in S PROVE m + 1 \in S
  <2> SUFFICES ASSUME m + 1 <= n PROVE UpperParts(c, w, q, n, m + 1) # {}
    OBVIOUS
  <2>1. PICK T : T \in UpperParts(c, w, q, n, m)
    BY <1>2
  <2>2. T \in [0..m -> Int] /\ T[0] = 0 /\ \A j \in 0..(m - 1) : T[j + 1] = (c[n - 1 - j] + w * T[j]) % q
    BY <2>1 DEF UpperParts
  <2> DEFINE y == (c[n - 1 - m] + w * T[m]) % q
             U == [j \in 0..(m + 1) |-> IF j = m + 1 THEN y ELSE T[j]]
  <2>3. y \in Int
    <3>1. c[n - 1 - m] \in Int /\ T[m] \in Int
      BY <2>2 DEF Ints
    <3>2. c[n - 1 - m] + w * T[m] \in Int
      BY <3>1, SMT
    <3>3. QED  BY <3>2, ResidueIn
  <2> HIDE DEF y
  <2>4. U[m + 1] = y /\ \A j \in 0..m : U[j] = T[j]
    BY SMT
  <2>5. U \in [0..(m + 1) -> Int]
    BY <2>2, <2>3
  <2> HIDE DEF U
  <2>6. U[0] = 0
    BY <2>2, <2>4
  <2>7. ASSUME NEW j \in 0..m PROVE U[j + 1] = (c[n - 1 - j] + w * U[j]) % q
    <3>1. CASE j = m
      BY <2>4, <3>1 DEF y
    <3>2. CASE j \in 0..(m - 1)
      <4>1. j + 1 \in 0..m
        BY <3>2, SMT
      <4>2. U[j + 1] = T[j + 1] /\ U[j] = T[j]
        BY <2>4, <4>1
      <4>3. QED  BY <2>2, <3>2, <4>2
    <3>3. QED  BY <3>1, <3>2
  <2>8. (m + 1) - 1 = m
    BY SMT
  <2>9. U \in UpperParts(c, w, q, n, m + 1)
    BY <2>5, <2>6, <2>7, <2>8, Zenon DEF UpperParts
  <2>10. QED  BY <2>9
<1> HIDE DEF S
<1>3. n \in S
  BY <1>1, <1>2, SetInduction
<1>4. QED  BY <1>3 DEF S

LEMMA HornerIs ==
  ASSUME NEW q \in Primes, NEW n \in Nat, NEW c, Ints(c, n), NEW w \in Int
  PROVE  \E T : IsTable(T, c, w, q, n) /\ Horner(c, w, q, n) = T[n]
<1>1. PICK T : T \in UpperParts(c, w, q, n, n)
  BY UpperPartsExist
<1>2. IsTable(T, c, w, q, n)
  BY <1>1, Zenon DEF UpperParts, IsTable
<1> DEFINE U == CHOOSE U : IsTable(U, c, w, q, n)
<1>3. IsTable(U, c, w, q, n)
  BY <1>2, Zenon
<1>4. Horner(c, w, q, n) = U[n]
  BY DEF Horner
<1>5. QED  BY <1>3, <1>4

LEMMA HornerRange ==
  ASSUME NEW q \in Primes, NEW n \in Nat, NEW c, Ints(c, n), NEW w \in Int
  PROVE  Horner(c, w, q, n) \in 0..(q - 1) /\ Horner(c, w, q, n) % q = Horner(c, w, q, n)
<1>1. PICK T : IsTable(T, c, w, q, n) /\ Horner(c, w, q, n) = T[n]
  BY HornerIs
<1>2. T[n] \in 0..(q - 1)
  <2>1. CASE n = 0
    BY <1>1, <2>1, SMT DEF IsTable, Primes
  <2>2. CASE n # 0
    <3> DEFINE j == n - 1
    <3>1. j \in 0..(n - 1) /\ j + 1 = n /\ n - 1 - j \in 0..(n - 1) /\ j \in 0..n
      BY <2>2, SMT
    <3> HIDE DEF j
    <3>2. T[n] = (c[n - 1 - j] + w * T[j]) % q /\ T[j] \in Int
      BY <1>1, <3>1 DEF IsTable
    <3>3. c[n - 1 - j] + w * T[j] \in Int
      <4>1. c[n - 1 - j] \in Int
        BY <3>1 DEF Ints
      <4>2. QED  BY <3>2, <4>1, SMT
    <3>4. QED  BY <3>2, <3>3, ResidueIn
  <2>3. QED  BY <2>1, <2>2
<1>3. \A x \in 0..(q - 1) : x % q = x
  <2>1. CASE q = 7681   BY <2>1, SMT
  <2>2. CASE q = 10753  BY <2>2, SMT
  <2>3. QED  BY <2>1, <2>2 DEF Primes
<1>4. QED  BY <1>1, <1>2, <1>3

\* The entries of a table, one after the other.
LEMMA TableStep ==
  ASSUME NEW q \in Primes, NEW n \in Nat, NEW c, Ints(c, n), NEW w \in Int,
         NEW T, IsTable(T, c, w, q, n), NEW j \in Nat, j < n
  PROVE  /\ T[j] \in Int /\ T[j + 1] \in Int /\ c[n - 1 - j] \in Int
         /\ T[j + 1] = (c[n - 1 - j] + w * T[j]) % q
         /\ T[j + 1] % q = (c[n - 1 - j] + w * T[j]) % q
<1>1. j \in 0..(n - 1) /\ j \in 0..n /\ j + 1 \in 0..n /\ n - 1 - j \in 0..(n - 1)
  BY SMT
<1>2. c[n - 1 - j] \in Int
  BY <1>1 DEF Ints
<1>3. T[j] \in Int /\ T[j + 1] \in Int /\ T[j + 1] = (c[n - 1 - j] + w * T[j]) % q
  BY <1>1 DEF IsTable
<1> DEFINE x == c[n - 1 - j] + w * T[j]
<1>4. x \in Int
  BY <1>2, <1>3, SMT
<1> HIDE DEF x
<1>5. (x % q) % q = x % q
  BY <1>4, ResidueTwice
<1>6. QED  BY <1>2, <1>3, <1>5 DEF x

\* c is a + x * b, modulo q.
Combined(q, x, a, b, c) == a \in Int /\ b \in Int /\ c \in Int /\ c % q = (a + x * b) % q

LEMMA CombinedSame ==
  ASSUME NEW q \in Primes, NEW x \in Int, NEW a, NEW b, NEW c, Combined(q, x, a, b, c),
         NEW u \in Int, NEW v \in Int, NEW t \in Int, u % q = a % q, v % q = b % q, t % q = c % q
  PROVE  Combined(q, x, u, v, t)
<1> DEFINE xb == x * b
           xv == x * v
<1>1. a \in Int /\ b \in Int /\ xb \in Int /\ xv \in Int /\ c % q = (a + xb) % q
  BY SMT DEF Combined
<1>2. xb % q = xv % q
  BY <1>1, CongruentProduct
<1> HIDE DEF xb, xv
<1>3. (u + xv) % q = (a + xb) % q
  BY <1>1, <1>2, CongruentSum
<1>4. t % q = (u + xv) % q
  BY <1>1, <1>3
<1>5. QED  BY <1>4 DEF xv, Combined

LEMMA CombinedStep ==
  ASSUME NEW q \in Primes, NEW w \in Int, NEW x \in Int,
         NEW a, NEW b, NEW c, Combined(q, x, a, b, c),
         NEW u, NEW v, NEW t, Combined(q, x, u, v, t)
  PROVE  Combined(q, x, a + w * u, b + w * v, c + w * t)
<1> DEFINE y == u + x * v
           d == a + x * b
           wt == w * t
           wy == w * y
<1>1. /\ a \in Int /\ b \in Int /\ c \in Int /\ c % q = d % q
      /\ u \in Int /\ v \in Int /\ t \in Int /\ t % q = y % q
  BY DEF Combined
<1>2. /\ y \in Int /\ d \in Int /\ wt \in Int /\ wy \in Int
      /\ a + w * u \in Int /\ b + w * v \in Int /\ c + wt \in Int
  BY <1>1, SMT
<1>3. wt % q = wy % q
  BY <1>1, <1>2, CongruentProduct
<1>4. (a + w * u) + x * (b + w * v) = d + wy
  <2>1. wy = w * u + w * x * v
    BY <1>1, SMT
  <2>2. x * (b + w * v) = x * b + w * x * v
    BY <1>1, SMT
  <2>3. QED  BY <1>1, <2>1, <2>2, SMT DEF d
<1> HIDE DEF wt, wy, d, y
<1>5. (c + wt) % q = (d + wy) % q
  BY <1>1, <1>2, <1>3, CongruentSum
<1>6. QED  BY <1>2, <1>4, <1>5 DEF wt, Combined

\* The value of a linear combination is that of the values.
LEMMA HornerLinear ==
  ASSUME NEW q \in Primes, NEW n \in Nat, NEW w \in Int, NEW x \in Int,
         NEW f, NEW g, NEW h, \A j \in 0..(n - 1) : Combined(q, x, f[j], g[j], h[j])
  PROVE  Combined(q, x, Horner(f, w, q, n), Horner(g, w, q, n), Horner(h, w, q, n))
<1>1. Ints(f, n) /\ Ints(g, n) /\ Ints(h, n)
  BY DEF Combined, Ints
<1>2. PICK F : IsTable(F, f, w, q, n) /\ Horner(f, w, q, n) = F[n]
  BY <1>1, HornerIs
<1>3. PICK G : IsTable(G, g, w, q, n) /\ Horner(g, w, q, n) = G[n]
  BY <1>1, HornerIs
<1>4. PICK H : IsTable(H, h, w, q, n) /\ Horner(h, w, q, n) = H[n]
  BY <1>1, HornerIs
<1> DEFINE S == {j \in Nat : j <= n => Combined(q, x, F[j], G[j], H[j])}
<1>5. 0 \in S
  <2>1. H[0] = 0 /\ F[0] = 0 /\ G[0] = 0
    BY <1>2, <1>3, <1>4 DEF IsTable
  <2>2. 0 + x * 0 = 0
    BY SMT
  <2>3. QED  BY <2>1, <2>2 DEF Combined
<1>6. ASSUME NEW j \in Nat, j \in S PROVE j + 1 \in S
  <2> SUFFICES ASSUME j + 1 <= n PROVE Combined(q, x, F[j + 1], G[j + 1], H[j + 1])
    OBVIOUS
  <2> DEFINE m == n - 1 - j
  <2>1. j < n /\ j <= n /\ m \in 0..(n - 1)
    BY SMT
  <2>2. F[j + 1] \in Int /\ F[j + 1] % q = (f[m] + w * F[j]) % q
    BY <1>1, <1>2, <2>1, TableStep
  <2>3. G[j + 1] \in Int /\ G[j + 1] % q = (g[m] + w * G[j]) % q
    BY <1>1, <1>3, <2>1, TableStep
  <2>4. H[j + 1] \in Int /\ H[j + 1] % q = (h[m] + w * H[j]) % q
    BY <1>1, <1>4, <2>1, TableStep
  <2>5. Combined(q, x, f[m], g[m], h[m]) /\ Combined(q, x, F[j], G[j], H[j])
    BY <1>6, <2>1
  <2> HIDE DEF m
  <2>6. Combined(q, x, f[m] + w * F[j], g[m] + w * G[j], h[m] + w * H[j])
    BY <2>5, CombinedStep
  <2>7. QED  BY <2>2, <2>3, <2>4, <2>6, CombinedSame
<1> HIDE DEF S
<1>7. n \in S
  BY <1>5, <1>6, SetInduction
<1>8. QED  BY <1>2, <1>3, <1>4, <1>7 DEF S

\* Polynomials whose coefficients have the same residues have the same values.
LEMMA HornerSame ==
  ASSUME NEW q \in Primes, NEW n \in Nat, NEW w \in Int,
         NEW f, NEW g, Ints(f, n), Ints(g, n), \A j \in 0..(n - 1) : f[j] % q = g[j] % q
  PROVE  Horner(f, w, q, n) = Horner(g, w, q, n)
<1>1. \A z \in Int : z + 0 * z = z
  BY SMT
<1>2. \A j \in 0..(n - 1) : Combined(q, 0, g[j], g[j], f[j])
  BY <1>1 DEF Ints, Combined
<1>3. Combined(q, 0, Horner(g, w, q, n), Horner(g, w, q, n), Horner(f, w, q, n))
  BY <1>2, HornerLinear
<1>4. /\ Horner(g, w, q, n) % q = Horner(g, w, q, n)
      /\ Horner(f, w, q, n) % q = Horner(f, w, q, n)
  BY HornerRange
<1>5. QED  BY <1>1, <1>3, <1>4 DEF Combined

LEMMA HornerZero ==
  ASSUME NEW q \in Primes, NEW n \in Nat, NEW w \in Int, NEW f, \A j \in 0..(n - 1) : f[j] = 0
  PROVE  Horner(f, w, q, n) = 0
<1>1. Ints(f, n) /\ 0 + (-1) * 0 = 0
  BY SMT DEF Ints
<1>2. \A j \in 0..(n - 1) : Combined(q, -1, f[j], f[j], f[j])
  BY <1>1 DEF Combined
<1> DEFINE x == Horner(f, w, q, n)
<1>3. Combined(q, -1, x, x, x)
  BY <1>2, HornerLinear
<1>4. x % q = x
  BY <1>1, HornerRange
<1> HIDE DEF x
<1>5. x \in Int /\ x + (-1) * x = 0
  BY <1>3, SMT DEF Combined
<1>6. 0 % q = 0
  BY SMT DEF Primes
<1>7. QED  BY <1>3, <1>4, <1>5, <1>6 DEF x, Combined

\* A constant polynomial.
LEMMA HornerOne ==
  ASSUME NEW q \in Primes, NEW w \in Int, NEW f, f[0] \in Int
  PROVE  Horner(f, w, q, 1) = f[0] % q
<1>1. Ints(f, 1)
  BY DEF Ints
<1>2. PICK T : IsTable(T, f, w, q, 1) /\ Horner(f, w, q, 1) = T[1]
  BY <1>1, HornerIs
<1>3. 0 \in 0..(1 - 1) /\ 0 + 1 = 1 /\ 1 - 1 - 0 = 0
  BY SMT
<1>4. T[0] = 0 /\ T[1] = (f[0] + w * T[0]) % q
  BY <1>2, <1>3 DEF IsTable
<1>5. f[0] + w * 0 = f[0]
  BY SMT
<1>6. QED  BY <1>2, <1>4, <1>5

\* A polynomial at z, from its even and its odd part at the square of z.
LEMMA HalvesStep ==
  ASSUME NEW q \in Primes, NEW z \in Int, NEW r \in Int, (z * z) % q = r % q,
         NEW u, NEW v, NEW t, Combined(q, z, u, v, t), NEW c \in Int
  PROVE  Combined(q, z, c + r * v, u, c + z * t)
<1> DEFINE y == u + z * v
           zt == z * t
           zy == z * y
           a == (z * z) * v
           b == r * v
           zu == z * u
<1>1. u \in Int /\ v \in Int /\ t \in Int /\ t % q = y % q
  BY DEF Combined
<1>2. /\ y \in Int /\ zt \in Int /\ zy \in Int /\ a \in Int /\ b \in Int /\ zu \in Int
      /\ z * z \in Int
  BY <1>1, SMT
<1>3. Alike(q, zt, zy)
  <2>1. Alike(q, t, y)
    BY <1>1, <1>2 DEF Alike
  <2> HIDE DEF y
  <2>2. QED  BY <2>1, AlikeProduct
<1>4. Alike(q, a, b)
  <2>1. Alike(q, z * z, r)
    BY <1>2 DEF Alike
  <2> DEFINE zz == z * z
  <2> HIDE DEF zz
  <2>2. Alike(q, zz * v, r * v)
    BY <1>1, <2>1, AlikeProduct DEF zz
  <2>3. QED  BY <2>2 DEF zz
<1>5. zy = zu + a
  BY <1>1, SMT
<1> HIDE DEF y, zt, zy, a, b, zu
<1>6. Alike(q, c + zt, c + zy)
  BY <1>3, AlikeSum, AlikeSelf
<1>7. Alike(q, (c + zu) + a, (c + zu) + b)
  <2>1. c + zu \in Int
    BY <1>2
  <2>2. Alike(q, c + zu, c + zu)
    BY <2>1, AlikeSelf
  <2>3. QED  BY <1>4, <2>2, AlikeSum
<1>8. c + zy = (c + zu) + a /\ (c + zu) + b = (c + b) + zu /\ c + b \in Int /\ c + zt \in Int
  BY <1>2, <1>5, SMT
<1>9. (c + zt) % q = ((c + b) + zu) % q
  BY <1>6, <1>7, <1>8 DEF Alike
<1>10. QED  BY <1>1, <1>8, <1>9 DEF Combined, zt, b, zu

LEMMA HornerHalves ==
  ASSUME NEW q \in Primes, NEW n \in Nat, NEW z \in Int, NEW r \in Int, (z * z) % q = r % q,
         NEW f, NEW g, NEW h, Ints(f, n), Ints(g, n),
         \A m \in 0..(n - 1) : h[2 * m] = f[m] /\ h[2 * m + 1] = g[m]
  PROVE  /\ Combined(q, z, Horner(f, r, q, n), Horner(g, r, q, n), Horner(h, z, q, 2 * n))
         /\ Ints(h, 2 * n)
<1>1. 2 * n \in Nat /\ Ints(h, 2 * n)
  <2>1. ASSUME NEW j \in 0..(2 * n - 1) PROVE h[j] \in Int
    <3> DEFINE m == j \div 2
    <3>1. m \in 0..(n - 1) /\ (j = 2 * m \/ j = 2 * m + 1)
      BY SMT
    <3> HIDE DEF m
    <3>2. f[m] \in Int /\ g[m] \in Int
      BY <3>1 DEF Ints
    <3>3. QED  BY <3>1, <3>2
  <2>2. QED  BY <2>1 DEF Ints
<1>2. PICK F : IsTable(F, f, r, q, n) /\ Horner(f, r, q, n) = F[n]
  BY HornerIs
<1>3. PICK G : IsTable(G, g, r, q, n) /\ Horner(g, r, q, n) = G[n]
  BY HornerIs
<1>4. PICK H : IsTable(H, h, z, q, 2 * n) /\ Horner(h, z, q, 2 * n) = H[2 * n]
  BY <1>1, HornerIs
<1> DEFINE S == {j \in Nat : j <= n => Combined(q, z, F[j], G[j], H[2 * j])}
<1>5. 0 \in S
  <2>1. H[0] = 0 /\ F[0] = 0 /\ G[0] = 0 /\ 2 * 0 = 0
    BY <1>2, <1>3, <1>4 DEF IsTable
  <2>2. 0 + z * 0 = 0
    BY SMT
  <2>3. QED  BY <2>1, <2>2 DEF Combined
<1>6. ASSUME NEW j \in Nat, j \in S PROVE j + 1 \in S
  <2> SUFFICES ASSUME j + 1 <= n PROVE Combined(q, z, F[j + 1], G[j + 1], H[2 * (j + 1)])
    OBVIOUS
  <2> DEFINE m == n - 1 - j
             k == 2 * j
             l == k + 1
  <2>1. /\ j < n /\ j <= n /\ m \in 0..(n - 1) /\ k \in Nat /\ l \in Nat /\ k < 2 * n /\ l < 2 * n
        /\ 2 * n - 1 - k = 2 * m + 1 /\ 2 * n - 1 - l = 2 * m /\ l + 1 = 2 * (j + 1)
    BY SMT
  <2>2. Combined(q, z, F[j], G[j], H[k])
    BY <1>6, <2>1
  <2>3. h[2 * m] = f[m] /\ h[2 * m + 1] = g[m]
    BY <2>1
  <2>4. F[j + 1] \in Int /\ F[j + 1] % q = (f[m] + r * F[j]) % q /\ f[m] \in Int
    BY <1>2, <2>1, TableStep
  <2>5. G[j + 1] \in Int /\ G[j + 1] % q = (g[m] + r * G[j]) % q /\ g[m] \in Int
    BY <1>3, <2>1, TableStep
  <2> HIDE DEF m, k
  <2>6. H[l] \in Int /\ H[l] % q = (g[m] + z * H[k]) % q
    <3>1. H[k + 1] \in Int /\ H[k + 1] % q = (h[2 * n - 1 - k] + z * H[k]) % q
      BY <1>1, <1>4, <2>1, TableStep
    <3>2. QED  BY <2>1, <2>3, <3>1
  <2> HIDE DEF l
  <2>7. H[l + 1] \in Int /\ H[l + 1] % q = (f[m] + z * H[l]) % q
    <3>1. H[l + 1] \in Int /\ H[l + 1] % q = (h[2 * n - 1 - l] + z * H[l]) % q
      BY <1>1, <1>4, <2>1, TableStep
    <3>2. QED  BY <2>1, <2>3, <3>1
  <2>8. F[j] \in Int /\ G[j] \in Int
    BY <2>2 DEF Combined
  <2>9. Combined(q, z, G[j + 1], F[j], H[l])
    <3>1. Combined(q, z, g[m] + r * G[j], F[j], g[m] + z * H[k])
      BY <2>2, <2>5, HalvesStep
    <3>2. QED  BY <2>5, <2>6, <2>8, <3>1, CombinedSame
  <2>10. Combined(q, z, F[j + 1], G[j + 1], H[l + 1])
    <3>1. Combined(q, z, f[m] + r * F[j], G[j + 1], f[m] + z * H[l])
      BY <2>4, <2>9, HalvesStep
    <3>2. QED  BY <2>4, <2>5, <2>7, <3>1, CombinedSame
  <2>11. QED  BY <2>1, <2>10
<1> HIDE DEF S
<1>7. n \in S
  BY <1>5, <1>6, SetInduction
<1>8. QED  BY <1>1, <1>2, <1>3, <1>4, <1>7 DEF S

\* The sums of the lower parts of a tree.
TreeEntry(s, f, q, n) == s[n] = IF n > 255 THEN f[n - 256] ELSE (s[2 * n] + s[2 * n + 1]) % q
IsTree(s, f, q) == \A n \in 1..511 : TreeEntry(s, f, q, n)
Trees(f, q, m) == {s \in [(512 - m)..511 -> Int] : \A n \in (512 - m)..511 : TreeEntry(s, f, q, n)}

LEMMA TreesExist ==
  ASSUME NEW q \in Primes, NEW f, Ints(f, 256)
  PROVE  Trees(f, q, 511) # {}
<1> DEFINE S == {m \in Nat : m <= 511 => Trees(f, q, m) # {}}
<1>1. 0 \in S
  <2>1. [n \in (512 - 0)..511 |-> 0] \in Trees(f, q, 0)
    BY SMT DEF Trees
  <2>2. QED  BY <2>1
<1>2. ASSUME NEW m \in Nat, m \in S PROVE m + 1 \in S
  <2> SUFFICES ASSUME m + 1 <= 511 PROVE Trees(f, q, m + 1) # {}
    OBVIOUS
  <2>1. PICK s : s \in Trees(f, q, m)
    BY <1>2
  <2> DEFINE k == 511 - m
             y == IF k > 255 THEN f[k - 256] ELSE (s[2 * k] + s[2 * k + 1]) % q
             t == [n \in k..511 |-> IF n = k THEN y ELSE s[n]]
  <2>2. s \in [(512 - m)..511 -> Int] /\ \A n \in (512 - m)..511 : TreeEntry(s, f, q, n)
    BY <2>1 DEF Trees
  <2>3. k \in 1..511 /\ 512 - m = k + 1 /\ 512 - (m + 1) = k
    BY SMT
  <2> HIDE DEF k
  <2>4. y \in Int
    <3>1. CASE k > 255
      <4>1. k - 256 \in 0..(256 - 1)
        BY <2>3, <3>1, SMT
      <4>2. QED  BY <3>1, <4>1 DEF Ints
    <3>2. CASE ~ (k > 255)
      <4>1. 2 * k \in (k + 1)..511 /\ 2 * k + 1 \in (k + 1)..511
        BY <2>3, <3>2, SMT
      <4>2. s[2 * k] + s[2 * k + 1] \in Int
        BY <2>2, <2>3, <4>1
      <4>3. (s[2 * k] + s[2 * k + 1]) % q \in Int
        BY <4>2, ResidueIn
      <4>4. QED  BY <3>2, <4>3
    <3>3. QED  BY <3>1, <3>2
  <2>5. t[k] = y /\ \A n \in (k + 1)..511 : t[n] = s[n]
    BY <2>3, SMT
  <2>6. t \in [k..511 -> Int]
    BY <2>2, <2>3, <2>4
  <2> HIDE DEF t
  <2>7. ASSUME NEW n \in k..511 PROVE TreeEntry(t, f, q, n)
    <3>1. n > 255 \/ (2 * n \in (k + 1)..511 /\ 2 * n + 1 \in (k + 1)..511)
      BY <2>3, SMT
    <3>2. n > 255 \/ (t[2 * n] = s[2 * n] /\ t[2 * n + 1] = s[2 * n + 1])
      BY <2>5, <3>1
    <3>3. CASE n = k
      BY <2>5, <3>2, <3>3, Zenon DEF TreeEntry
    <3>4. CASE n \in (k + 1)..511
      <4>1. TreeEntry(s, f, q, n) /\ t[n] = s[n]
        BY <2>2, <2>3, <2>5, <3>4
      <4>2. QED  BY <3>2, <4>1, Zenon DEF TreeEntry
    <3>5. QED  BY <2>3, <3>3, <3>4
  <2>8. t \in Trees(f, q, m + 1)
    BY <2>3, <2>6, <2>7, ZenonT(30) DEF Trees
  <2>9. QED  BY <2>8
<1> HIDE DEF S
<1>3. 511 \in S
  BY <1>1, <1>2, SetInduction
<1>4. QED  BY <1>3 DEF S

LEMMA TotalTree ==
  ASSUME NEW q \in Primes, NEW f, Ints(f, 256)
  PROVE  \E s : Total(f, q) = s[1] /\ IsTree(s, f, q)
<1> DEFINE Rec(h) == h = [n \in 1..511 |-> IF n > 255 THEN f[n - 256] ELSE (h[2 * n] + h[2 * n + 1]) % q]
<1>1. PICK h : h \in Trees(f, q, 511)
  BY TreesExist
<1>2. h = [n \in 1..511 |-> h[n]] /\ IsTree(h, f, q)
  <2>1. h \in [(512 - 511)..511 -> Int] /\ \A n \in (512 - 511)..511 : TreeEntry(h, f, q, n)
    BY <1>1, Zenon DEF Trees
  <2>2. (512 - 511)..511 = 1..511
    BY SMT
  <2>3. h \in [1..511 -> Int]
    BY <2>1, <2>2, ZenonT(30)
  <2>4. \A n \in 1..511 : TreeEntry(h, f, q, n)
    BY <2>1, <2>2, ZenonT(30)
  <2>5. QED  BY <2>3, <2>4, Zenon DEF IsTree
<1>4. Rec(h)
  BY <1>2, Zenon DEF TreeEntry, IsTree
<1> DEFINE g == CHOOSE x : Rec(x)
<1>5. Rec(g)
  BY <1>4, ZenonT(30)
<1>6. Total(f, q) = g[1]
  BY Zenon DEF Total
<1>7. g = [n \in 1..511 |-> IF n > 255 THEN f[n - 256] ELSE (g[2 * n] + g[2 * n + 1]) % q]
  BY <1>5
<1> HIDE DEF g, Rec
<1>8. IsTree(g, f, q)
  BY <1>7, Zenon DEF TreeEntry, IsTree
<1>9. QED  BY <1>6, <1>8

\* A node of the tree is the sum of its leaves.
Covers(u, q, x, i, j) == Alike(q, x, u[j] - u[i])

LEMMA NodeUp ==
  ASSUME NEW q \in Primes, NEW u, NEW i, NEW j, NEW k, u[i] \in Int, u[j] \in Int, u[k] \in Int,
         NEW x, NEW y, Covers(u, q, x, i, j), Covers(u, q, y, j, k)
  PROVE  Covers(u, q, (x + y) % q, i, k)
<1> DEFINE a == u[i]
           b == u[j]
           c == u[k]
<1>1. Alike(q, x, b - a) /\ Alike(q, y, c - b)
  BY DEF Covers
<1> HIDE DEF a, b, c
<1>2. Alike(q, y + x, (c - b) + (b - a))
  BY <1>1, AlikeSum
<1>3. a \in Int /\ b \in Int /\ c \in Int /\ x \in Int /\ y \in Int
  BY <1>1 DEF Alike, a, b, c
<1>4. y + x = x + y /\ (c - b) + (b - a) = c - a /\ x + y \in Int
  BY <1>3, SMT
<1>5. Alike(q, (x + y) % q, x + y)
  BY <1>4, AlikeSelf
<1>6. Alike(q, (x + y) % q, c - a)
  BY <1>2, <1>4, <1>5 DEF Alike
<1>7. QED  BY <1>6 DEF Covers, a, c

Level(s, u, q, a, l) == \A n \in a..(2 * a - 1) : Covers(u, q, s[n], l * (n - a), l * (n - a) + l)

LevelPair(a, b, l, h) ==
  \/ a = 128 /\ b = 256 /\ l = 1   /\ h = 2
  \/ a = 64  /\ b = 128 /\ l = 2   /\ h = 4
  \/ a = 32  /\ b = 64  /\ l = 4   /\ h = 8
  \/ a = 16  /\ b = 32  /\ l = 8   /\ h = 16
  \/ a = 8   /\ b = 16  /\ l = 16  /\ h = 32
  \/ a = 4   /\ b = 8   /\ l = 32  /\ h = 64
  \/ a = 2   /\ b = 4   /\ l = 64  /\ h = 128
  \/ a = 1   /\ b = 2   /\ l = 128 /\ h = 256

Children(n, a, b, l, h) ==
  /\ 2 * n \in b..(2 * b - 1) /\ 2 * n + 1 \in b..(2 * b - 1)
  /\ n \in 1..511 /\ ~ (n > 255)
  /\ h * (n - a) \in 0..256 /\ h * (n - a) + l \in 0..256 /\ h * (n - a) + h \in 0..256
  /\ l * (2 * n - b) = h * (n - a) /\ l * ((2 * n + 1) - b) = h * (n - a) + l
  /\ (h * (n - a) + l) + l = h * (n - a) + h

LEMMA ChildrenAre ==
  ASSUME NEW a, NEW b, NEW l, NEW h, LevelPair(a, b, l, h), NEW n \in a..(2 * a - 1)
  PROVE  Children(n, a, b, l, h)
<1>1. \A m \in 128..(2 * 128 - 1) : Children(m, 128, 256, 1, 2)
  BY SMT DEF Children
<1>2. \A m \in 64..(2 * 64 - 1) : Children(m, 64, 128, 2, 4)
  BY SMT DEF Children
<1>3. \A m \in 32..(2 * 32 - 1) : Children(m, 32, 64, 4, 8)
  BY SMT DEF Children
<1>4. \A m \in 16..(2 * 16 - 1) : Children(m, 16, 32, 8, 16)
  BY SMT DEF Children
<1>5. \A m \in 8..(2 * 8 - 1) : Children(m, 8, 16, 16, 32)
  BY SMT DEF Children
<1>6. \A m \in 4..(2 * 4 - 1) : Children(m, 4, 8, 32, 64)
  BY SMT DEF Children
<1>7. \A m \in 2..(2 * 2 - 1) : Children(m, 2, 4, 64, 128)
  BY SMT DEF Children
<1>8. \A m \in 1..(2 * 1 - 1) : Children(m, 1, 2, 128, 256)
  BY SMT DEF Children
<1>9. QED  BY <1>1, <1>2, <1>3, <1>4, <1>5, <1>6, <1>7, <1>8 DEF LevelPair

LEMMA LevelUp ==
  ASSUME NEW q \in Primes, NEW f, NEW s, IsTree(s, f, q),
         NEW u, Ints(u, 257),
         NEW a, NEW b, NEW l, NEW h, Level(s, u, q, b, l), LevelPair(a, b, l, h)
  PROVE  Level(s, u, q, a, h)
<1> SUFFICES ASSUME NEW n \in a..(2 * a - 1)
             PROVE  Covers(u, q, s[n], h * (n - a), h * (n - a) + h)
  BY DEF Level
<1> DEFINE i == h * (n - a)
           j == i + l
           k == i + h
<1>1. /\ 2 * n \in b..(2 * b - 1) /\ 2 * n + 1 \in b..(2 * b - 1)
      /\ n \in 1..511 /\ ~ (n > 255)
      /\ i \in 0..256 /\ j \in 0..256 /\ k \in 0..256
      /\ l * (2 * n - b) = i /\ l * ((2 * n + 1) - b) = j /\ j + l = k
  <2>1. Children(n, a, b, l, h)
    BY ChildrenAre
  <2>2. QED  BY <2>1 DEF Children
<1> HIDE DEF i, j, k
<1>2. Covers(u, q, s[2 * n], i, j)
  <2>1. Covers(u, q, s[2 * n], l * (2 * n - b), l * (2 * n - b) + l)
    BY <1>1, Zenon DEF Level
  <2>2. i + l = j
    BY DEF j
  <2>3. QED  BY <1>1, <2>1, <2>2, Zenon
<1>3. Covers(u, q, s[2 * n + 1], j, k)
  <2>1. Covers(u, q, s[2 * n + 1], l * ((2 * n + 1) - b), l * ((2 * n + 1) - b) + l)
    BY <1>1, Zenon DEF Level
  <2>2. QED  BY <1>1, <2>1, Zenon
<1>4. s[n] = (s[2 * n] + s[2 * n + 1]) % q
  <2>1. TreeEntry(s, f, q, n)
    BY <1>1, Zenon DEF IsTree
  <2>2. QED  BY <1>1, <2>1, Zenon DEF TreeEntry
<1>5. u[i] \in Int /\ u[j] \in Int /\ u[k] \in Int
  <2>1. \A x \in 0..256 : u[x] \in Int
    BY SMT DEF Ints
  <2>2. QED  BY <1>1, <2>1, Zenon
<1>6. Covers(u, q, (s[2 * n] + s[2 * n + 1]) % q, i, k)
  BY <1>2, <1>3, <1>5, NodeUp, Zenon
<1>7. QED  BY <1>4, <1>6, Zenon DEF i, k

\* The balanced tree gives the sum modulo the prime.
LEMMA TotalIs ==
  ASSUME NEW q \in Primes, NEW f, Ints(f, 256)
  PROVE  Total(f, q) = SumTo(f, 256) % q /\ Total(f, q) \in Int
<1>1. PICK s : Total(f, q) = s[1] /\ IsTree(s, f, q)
  BY TotalTree
<1>2. Ints(f, 256)
  OBVIOUS
<1>3. PICK u \in Partial(f, 256) : SumTo(f, 256) = u[256]
  BY <1>2, SumIs
<1>4. u \in [0..256 -> Int] /\ u[0] = 0 /\ \A j \in 1..256 : u[j] = u[j - 1] + f[j - 1]
  BY <1>3 DEF Partial
<1>5. Ints(u, 257) /\ \A j \in 0..256 : u[j] \in Int
  BY <1>4 DEF Ints
<1>6. Level(s, u, q, 256, 1)
  <2> SUFFICES ASSUME NEW n \in 256..511 PROVE Covers(u, q, s[n], 1 * (n - 256), 1 * (n - 256) + 1)
    BY SMT DEF Level
  <2> DEFINE j == n - 256
  <2>1. n \in 1..511 /\ n > 255 /\ j \in 0..(256 - 1) /\ j + 1 \in 1..256 /\ (j + 1) - 1 = j /\ j \in 0..256
    BY SMT
  <2>2. s[n] = f[j]
    <3>1. TreeEntry(s, f, q, n)
      BY <1>1, <2>1 DEF IsTree
    <3>2. QED  BY <2>1, <3>1, Zenon DEF TreeEntry
  <2>3. 1 * (n - 256) = j
    BY SMT
  <2> HIDE DEF j
  <2>4. u[j + 1] = u[j] + f[j] /\ u[j] \in Int /\ f[j] \in Int
    <3>1. u[j + 1] = u[(j + 1) - 1] + f[(j + 1) - 1]
      BY <1>4, <2>1, Zenon
    <3>2. u[j] \in Int
      BY <1>5, <2>1, Zenon
    <3>3. f[j] \in Int
      BY <2>1, Zenon DEF Ints
    <3>4. (j + 1) - 1 = j
      BY <2>1, Zenon
    <3>5. QED  BY <3>1, <3>2, <3>3, <3>4, Zenon
  <2>5. u[j + 1] - u[j] = f[j]
    BY <2>4, SMT
  <2>6. Covers(u, q, s[n], j, j + 1)
    BY <2>2, <2>4, <2>5, AlikeSelf DEF Covers
  <2>7. QED  BY <2>3, <2>6
<1>7. Level(s, u, q, 128, 2)
  <2>1. LevelPair(128, 256, 1, 2)
    BY DEF LevelPair
  <2>2. QED  BY <1>1, <1>5, <1>6, <2>1, LevelUp
<1>8. Level(s, u, q, 64, 4)
  <2>1. LevelPair(64, 128, 2, 4)
    BY DEF LevelPair
  <2>2. QED  BY <1>1, <1>5, <1>7, <2>1, LevelUp
<1>9. Level(s, u, q, 32, 8)
  <2>1. LevelPair(32, 64, 4, 8)
    BY DEF LevelPair
  <2>2. QED  BY <1>1, <1>5, <1>8, <2>1, LevelUp
<1>10. Level(s, u, q, 16, 16)
  <2>1. LevelPair(16, 32, 8, 16)
    BY DEF LevelPair
  <2>2. QED  BY <1>1, <1>5, <1>9, <2>1, LevelUp
<1>11. Level(s, u, q, 8, 32)
  <2>1. LevelPair(8, 16, 16, 32)
    BY DEF LevelPair
  <2>2. QED  BY <1>1, <1>5, <1>10, <2>1, LevelUp
<1>12. Level(s, u, q, 4, 64)
  <2>1. LevelPair(4, 8, 32, 64)
    BY DEF LevelPair
  <2>2. QED  BY <1>1, <1>5, <1>11, <2>1, LevelUp
<1>13. Level(s, u, q, 2, 128)
  <2>1. LevelPair(2, 4, 64, 128)
    BY DEF LevelPair
  <2>2. QED  BY <1>1, <1>5, <1>12, <2>1, LevelUp
<1>14. Level(s, u, q, 1, 256)
  <2>1. LevelPair(1, 2, 128, 256)
    BY DEF LevelPair
  <2>2. QED  BY <1>1, <1>5, <1>13, <2>1, LevelUp
<1>15. Covers(u, q, s[1], 0, 256)
  <2>1. 1 \in 1..(2 * 1 - 1) /\ 256 * (1 - 1) = 0 /\ 0 + 256 = 256
    BY SMT
  <2>2. Covers(u, q, s[1], 256 * (1 - 1), 256 * (1 - 1) + 256)
    BY <1>14, <2>1 DEF Level
  <2>3. QED  BY <2>1, <2>2
<1>16. u[256] - u[0] = u[256] /\ u[256] \in Int
  BY <1>4, <1>5
<1>17. s[1] % q = u[256] % q /\ s[1] \in Int
  BY <1>15, <1>16 DEF Covers, Alike
<1>18. s[1] % q = s[1]
  <2>1. s[1] = (s[2 * 1] + s[2 * 1 + 1]) % q
    <3>1. TreeEntry(s, f, q, 1)
      BY <1>1 DEF IsTree
    <3>2. ~ (1 > 255)
      BY SMT
    <3>3. QED  BY <3>1, <3>2, Zenon DEF TreeEntry
  <2>2. s[2 * 1] + s[2 * 1 + 1] \in Int
    <3>1. 2 \in 2..(2 * 2 - 1) /\ 3 \in 2..(2 * 2 - 1) /\ 2 * 1 = 2 /\ 2 * 1 + 1 = 3
      BY SMT
    <3>2. s[2] \in Int /\ s[3] \in Int
      BY <1>13, <3>1 DEF Level, Covers, Alike
    <3>3. QED  BY <3>1, <3>2
  <2>3. QED  BY <2>1, <2>2, ResidueTwice
<1>19. QED  BY <1>1, <1>3, <1>17, <1>18

\* What a root of X^256 + 1 is, at one power.
LEMMA RootIs ==
  ASSUME NEW q \in Primes, NEW w, IsRoot(w, q)
  PROVE  /\ \A j \in 0..255 : w[j] \in Int
         /\ w[0] = 1 /\ w[1] \in Int
         /\ \A j \in 0..254 : Alike(q, w[1] * w[j], w[j + 1])
         /\ Alike(q, w[1] * w[255], -1)
<1>1. /\ \A j \in 0..255 : w[j] \in Int
      /\ w[0] = 1 /\ w[1] \in Int
      /\ \A j \in 0..254 : w[j + 1] = (w[1] * w[j]) % q
      /\ (w[1] * w[255]) % q = q - 1
  <2>1. \A x \in 0..(q - 1) : x \in Int
    BY SMT DEF Primes
  <2>2. w \in [0..255 -> 0..(q - 1)] /\ 1 \in 0..255
    <3>1. w \in [0..255 -> 0..(q - 1)]
      BY Zenon DEF IsRoot
    <3>2. 1 \in 0..255
      BY SMT
    <3>3. QED  BY <3>1, <3>2
  <2>3. \A j \in 0..255 : w[j] \in Int
    BY <2>1, <2>2
  <2>4. QED  BY <2>2, <2>3, Zenon DEF IsRoot
<1>2. ASSUME NEW j \in 0..254 PROVE Alike(q, w[1] * w[j], w[j + 1])
  <2> DEFINE x == w[1] * w[j]
  <2>1. j \in 0..255
    BY SMT
  <2>2. x \in Int
    <3>1. w[j] \in Int /\ w[1] \in Int
      BY <1>1, <2>1, Zenon
    <3>2. QED  BY <3>1, SMT
  <2> HIDE DEF x
  <2>3. Alike(q, x, x % q)
    BY <2>2, AlikeSelf
  <2>4. w[j + 1] = x % q
    BY <1>1 DEF x
  <2>5. QED  BY <2>3, <2>4 DEF x
<1>3. Alike(q, w[1] * w[255], -1)
  <2> DEFINE x == w[1] * w[255]
  <2>1. x \in Int /\ x % q = q - 1
    <3>1. w[255] \in Int /\ w[1] \in Int
      <4>1. 255 \in 0..255
        BY SMT
      <4>2. QED  BY <1>1, <4>1, Zenon
    <3>2. QED  BY <1>1, <3>1, SMT
  <2> HIDE DEF x
  <2>2. (-1) % q = q - 1 /\ -1 \in Int
    BY SMT DEF Primes
  <2>3. QED  BY <2>1, <2>2 DEF Alike, x
<1>4. QED  BY <1>1, <1>2, <1>3

\* Horner's rule and the sum of powers.
LEMMA PowersStep ==
  ASSUME NEW q \in Primes, NEW a \in Int, NEW w \in Int, NEW x \in Int, NEW z \in Int, NEW t \in Int,
         Alike(q, z * w, x), NEW y, Alike(q, y, a + z * t), NEW u \in Int
  PROVE  Alike(q, u + w * y, (u + a * w) + x * t)
<1> DEFINE zw == z * w
           zt == z * t
           wzt == w * zt
           aw == a * w
           b == a + zt
           wb == w * b
           wy == w * y
           p == zw * t
           xt == x * t
<1>1. zt \in Int /\ aw \in Int /\ wzt \in Int /\ wb \in Int /\ p \in Int /\ xt \in Int
  BY SMT
<1>2. wb = aw + p
  BY SMT
<1>3. Alike(q, y, b)
  OBVIOUS
<1>4. Alike(q, zw, x)
  OBVIOUS
<1> HIDE DEF zw, zt, b
<1>5. Alike(q, wy, wb)
  BY <1>3, AlikeProduct
<1>6. Alike(q, p, xt)
  BY <1>4, AlikeProduct
<1> HIDE DEF wb, aw, wy, p, xt
<1>7. Alike(q, u + wy, u + wb)
  BY <1>5, AlikeSum, AlikeSelf
<1>8. u + aw \in Int
  BY <1>1
<1>9. Alike(q, (u + aw) + p, (u + aw) + xt)
  BY <1>6, <1>8, AlikeSum, AlikeSelf
<1>10. u + wb = (u + aw) + p
  BY <1>1, <1>2
<1>11. Alike(q, u + wy, (u + aw) + xt)
  BY <1>7, <1>9, <1>10 DEF Alike
<1>12. QED  BY <1>11 DEF wy, aw, xt

LEMMA HornerPowers ==
  ASSUME NEW q \in Primes, NEW w, IsRoot(w, q), NEW a, Ints(a, 256), NEW f,
         \A j \in 0..255 : f[j] = a[j] * w[j]
  PROVE  Horner(a, w[1], q, 256) = SumTo(f, 256) % q /\ Ints(f, 256)
<1>1. /\ \A j \in 0..255 : w[j] \in Int
      /\ w[0] = 1 /\ w[1] \in Int
      /\ \A j \in 0..254 : Alike(q, w[1] * w[j], w[j + 1])
  BY RootIs, ZenonT(30)
<1>14. \A j \in 0..255 : w[j] \in Int
  BY <1>1, Zenon
<1>2. /\ \A j \in 0..255 : a[j] \in Int
      /\ Ints(f, 256)
  <2>1. \A j \in 0..255 : a[j] \in Int
    BY SMT DEF Ints
  <2>2. ASSUME NEW j \in 0..(256 - 1) PROVE f[j] \in Int
    <3>1. j \in 0..255
      BY SMT
    <3>2. a[j] \in Int /\ w[j] \in Int /\ f[j] = a[j] * w[j]
      BY <1>1, <2>1, <3>1
    <3>3. QED  BY <3>2
  <2>3. QED  BY <2>1, <2>2 DEF Ints
<1> DEFINE r == w[1]
<1> HIDE DEF r
<1>13. 256 \in Nat /\ r \in Int
  BY <1>1, ZenonT(30) DEF r
<1>3. PICK T : IsTable(T, a, r, q, 256) /\ Horner(a, r, q, 256) = T[256]
  BY <1>13, HornerIs
<1>4. PICK u \in Partial(f, 256) : SumTo(f, 256) = u[256]
  BY <1>2, SumIs
<1>5. u \in [0..256 -> Int] /\ u[0] = 0 /\ \A j \in 1..256 : u[j] = u[j - 1] + f[j - 1]
  BY <1>4 DEF Partial
<1> DEFINE S == {j \in Nat : j <= 255 => Alike(q, u[255 - j] + w[255 - j] * T[j + 1], u[256])}
<1>6. 0 \in S
  <2>1. T[0] = 0 /\ T[0 + 1] % q = (a[256 - 1 - 0] + r * T[0]) % q /\ T[0 + 1] \in Int
    <3>1. 0 < 256 /\ 256 \in Nat
      BY SMT
    <3>2. T[0 + 1] % q = (a[256 - 1 - 0] + r * T[0]) % q /\ T[0 + 1] \in Int
      BY <1>3, <1>13, <3>1, TableStep
    <3>3. QED  BY <1>3, <3>2 DEF IsTable
  <2>2. 256 - 1 - 0 = 255 /\ 255 - 0 = 255 /\ 0 + 1 = 1 /\ 255 \in 0..255
    BY SMT
  <2>3. a[255] \in Int /\ w[255] \in Int /\ f[255] = a[255] * w[255]
    <3>1. a[255] \in Int
      BY <1>2, <2>2
    <3>2. w[255] \in Int
      BY <1>14, <2>2
    <3>3. f[255] = a[255] * w[255]
      BY <2>2
    <3>4. QED  BY <3>1, <3>2, <3>3
  <2>4. u[256] = u[255] + a[255] * w[255] /\ u[255] \in Int
    <3>1. 256 \in 1..256 /\ 256 - 1 = 255 /\ 255 \in 0..256
      BY SMT
    <3>2. QED  BY <1>5, <2>3, <3>1
  <2>5. Alike(q, T[1], a[255])
    <3>1. a[255] + r * 0 = a[255]
      BY <1>13, <2>3, SMT
    <3>2. QED  BY <2>1, <2>2, <2>3, <3>1 DEF Alike
  <2> DEFINE x == w[255] * T[1]
             y == w[255] * a[255]
  <2>6. Alike(q, x, y)
    <3> DEFINE t == T[1]
               b == a[255]
               v == w[255]
    <3>1. Alike(q, t, b) /\ v \in Int
      BY <2>3, <2>5
    <3> HIDE DEF t, b, v
    <3>2. Alike(q, v * t, v * b)
      BY <3>1, AlikeProduct
    <3>3. QED  BY <3>2 DEF t, b, v
  <2>7. a[255] * w[255] = y
    BY <2>3, SMT
  <2> HIDE DEF x, y
  <2>8. Alike(q, u[255] + x, u[255] + y)
    BY <2>4, <2>6, AlikeSum, AlikeSelf
  <2>9. Alike(q, u[255] + w[255] * T[1], u[256])
    BY <2>4, <2>7, <2>8 DEF x
  <2>10. QED  BY <2>2, <2>9
<1>7. ASSUME NEW j \in Nat, j \in S PROVE j + 1 \in S
  <2> SUFFICES ASSUME j + 1 <= 255
               PROVE  Alike(q, u[255 - (j + 1)] + w[255 - (j + 1)] * T[(j + 1) + 1], u[256])
    OBVIOUS
  <2> DEFINE m == 255 - (j + 1)
             k == j + 1
  <2>1. /\ m \in 0..254 /\ m \in 0..255 /\ 255 - j = m + 1 /\ m + 1 \in 0..255 /\ k \in Nat /\ k < 256
        /\ 256 - 1 - k = m /\ j <= 255 /\ m + 1 \in 1..256 /\ (m + 1) - 1 = m /\ m \in 0..256
    BY SMT
  <2> HIDE DEF m
  <2>2. Alike(q, u[m + 1] + w[m + 1] * T[k], u[256])
    BY <1>7, <2>1
  <2> HIDE DEF k
  <2>3. /\ T[k] \in Int /\ T[k + 1] \in Int /\ T[k + 1] % q = (a[m] + r * T[k]) % q
    <3>1. /\ T[k] \in Int /\ T[k + 1] \in Int
          /\ T[k + 1] % q = (a[256 - 1 - k] + r * T[k]) % q
      <4>1. 256 \in Nat
        BY SMT
      <4>2. QED  BY <1>3, <1>13, <2>1, <4>1, TableStep
    <3>2. QED  BY <2>1, <3>1
  <2>4. a[m] \in Int /\ w[m] \in Int /\ w[m + 1] \in Int /\ Alike(q, r * w[m], w[m + 1])
    <3>1. a[m] \in Int
      BY <1>2, <2>1
    <3>2. w[m] \in Int /\ w[m + 1] \in Int
      BY <1>14, <2>1
    <3>3. Alike(q, w[1] * w[m], w[m + 1])
      BY <1>1, <2>1, Zenon
    <3>4. QED  BY <3>1, <3>2, <3>3, Zenon DEF r
  <2>5. u[m + 1] = u[m] + a[m] * w[m] /\ u[m] \in Int
    <3>1. u[m + 1] = u[(m + 1) - 1] + f[(m + 1) - 1] /\ u[m] \in Int
      <4>1. m + 1 \in 1..256 /\ m \in 0..256
        BY <2>1, Zenon
      <4>2. QED  BY <1>5, <4>1, Zenon
    <3>2. f[m] = a[m] * w[m]
      BY <2>1
    <3>3. QED  BY <2>1, <3>1, <3>2
  <2>6. Alike(q, T[k + 1], a[m] + r * T[k])
    <3>1. a[m] + r * T[k] \in Int
      BY <1>13, <2>3, <2>4, SMT
    <3>2. QED  BY <2>3, <3>1 DEF Alike
  <2>7. Alike(q, u[m] + w[m] * T[k + 1], (u[m] + a[m] * w[m]) + w[m + 1] * T[k])
    BY <1>13, <2>3, <2>4, <2>5, <2>6, PowersStep
  <2>8. Alike(q, u[m] + w[m] * T[k + 1], u[256])
    BY <2>2, <2>5, <2>7 DEF Alike
  <2>9. QED  BY <2>8 DEF m, k
<1> HIDE DEF S
<1>8. 255 \in S
  BY <1>6, <1>7, SetInduction
<1>9. Alike(q, u[0] + w[0] * T[256], u[256])
  <2>1. 255 - 255 = 0 /\ 255 + 1 = 256
    BY SMT
  <2>2. QED  BY <1>8, <2>1 DEF S
<1>10. T[256] \in Int /\ T[256] % q = T[256]
  BY <1>3, <1>13, HornerRange
<1>11. u[0] + w[0] * T[256] = T[256]
  <2>1. u[0] = 0 /\ w[0] = 1 /\ T[256] \in Int
    BY <1>1, <1>5, <1>10, Zenon
  <2>2. \A x \in Int : 0 + 1 * x = x
    BY SMT
  <2>3. QED  BY <2>1, <2>2
<1>12. QED  BY <1>2, <1>3, <1>4, <1>9, <1>10, <1>11 DEF Alike, r

LEMMA HornerTables ==
  ASSUME NEW q \in Primes, NEW w \in Int
  PROVE  \A f : Ints(f, 256) => \E T : IsTable(T, f, w, q, 256) /\ Horner(f, w, q, 256) = T[256]
<1> DEFINE n == 256
<1>1. n \in Nat
  BY SMT
<1> HIDE DEF n
<1>2. ASSUME NEW f, Ints(f, n) PROVE \E T : IsTable(T, f, w, q, n) /\ Horner(f, w, q, n) = T[n]
  BY <1>1, <1>2, HornerIs
<1>3. QED  BY <1>2 DEF n

\* Multiplying a polynomial by X modulo X^256 + 1 multiplies its values by the root.
LEMMA HornerRotate ==
  ASSUME NEW q \in Primes, NEW w, IsRoot(w, q), NEW d, Ints(d, 256), NEW e, Ints(e, 256),
         e[0] = -d[255], \A k \in 1..255 : e[k] = d[k - 1]
  PROVE  Alike(q, Horner(e, w[1], q, 256), w[1] * Horner(d, w[1], q, 256))
<1>1. /\ w[0] = 1 /\ w[1] \in Int
      /\ \A j \in 0..254 : Alike(q, w[1] * w[j], w[j + 1])
      /\ Alike(q, w[1] * w[255], -1)
  BY RootIs, ZenonT(30)
<1>2. \A j \in 0..255 : w[j] \in Int
  BY RootIs
<1> DEFINE r == w[1]
           y == d[255]
           z == -y
<1>3. r \in Int /\ 256 \in Nat /\ y \in Int /\ z \in Int
  <2>1. 255 \in 0..(256 - 1)
    BY SMT
  <2>2. y \in Int
    BY <2>1 DEF Ints
  <2>3. 256 \in Nat
    BY SMT
  <2>4. z \in Int
    BY <2>2, SMT
  <2>5. QED  BY <1>1, <2>2, <2>3, <2>4, Zenon
<1> HIDE DEF r, z, y
<1>21. \A f : Ints(f, 256) => \E T : IsTable(T, f, r, q, 256) /\ Horner(f, r, q, 256) = T[256]
  <2>1. r \in Int
    BY <1>3
  <2>2. QED  BY <2>1, HornerTables
<1>4. PICK D : IsTable(D, d, r, q, 256) /\ Horner(d, r, q, 256) = D[256]
  BY <1>21
<1>5. PICK E : IsTable(E, e, r, q, 256) /\ Horner(e, r, q, 256) = E[256]
  BY <1>21
<1> DEFINE S == {j \in Nat : j <= 255 => Combined(q, z, D[j + 1], w[j], E[j])}
<1>6. 0 \in S
  <2>1. D[0 + 1] \in Int /\ D[0 + 1] % q = (d[256 - 1 - 0] + r * D[0]) % q
    <3>1. 0 \in Nat /\ 0 < 256
      BY SMT
    <3>2. QED  BY <1>3, <1>4, <3>1, TableStep
  <2>2. D[0] = 0 /\ E[0] = 0 /\ 256 - 1 - 0 = 255
    <3>1. D[0] = 0 /\ E[0] = 0
      BY <1>4, <1>5, Zenon DEF IsTable
    <3>2. 256 - 1 - 0 = 255
      BY SMT
    <3>3. QED  BY <3>1, <3>2
  <2>3. D[0 + 1] % q = y % q
    <3>1. y + r * 0 = y
      BY <1>3, SMT
    <3>2. QED  BY <2>1, <2>2, <3>1 DEF y
  <2> DEFINE x == D[0 + 1]
  <2>4. 0 % q = (y + z * 1) % q
    <3>1. y + z * 1 = 0
      BY <1>3, SMT DEF z
    <3>2. QED  BY <3>1
  <2> HIDE DEF x
  <2>5. Combined(q, z, y, 1, 0)
    BY <1>3, <2>4 DEF Combined
  <2>6. x \in Int /\ x % q = y % q /\ 1 \in Int /\ 0 \in Int
    BY <2>1, <2>3 DEF x
  <2>7. Combined(q, z, x, 1, 0)
    BY <1>3, <2>5, <2>6, CombinedSame
  <2>8. QED  BY <1>1, <2>2, <2>7 DEF x
<1>7. ASSUME NEW j \in Nat, j < 255, Combined(q, z, D[j + 1], w[j], E[j])
      PROVE  Combined(q, z, D[(j + 1) + 1], w[j + 1], E[j + 1])
  <2> DEFINE k == j + 1
             m == 255 - k
  <2>1. /\ k \in Nat /\ k < 256 /\ j < 256 /\ 256 - 1 - j = m + 1 /\ 256 - 1 - k = m
        /\ m + 1 \in 1..255 /\ (m + 1) - 1 = m /\ m \in 0..(256 - 1) /\ j \in 0..254 /\ j \in 0..255
        /\ k \in 0..255
    BY <1>7, SMT
  <2> HIDE DEF m
  <2>2. E[k] \in Int /\ E[k] % q = (e[256 - 1 - j] + r * E[j]) % q
    BY <1>3, <1>5, <2>1, TableStep
  <2>3. e[256 - 1 - j] = d[m] /\ d[m] \in Int
    <3>1. d[m] \in Int
      BY <2>1 DEF Ints
    <3>2. e[m + 1] = d[(m + 1) - 1]
      BY <2>1
    <3>3. QED  BY <2>1, <3>1, <3>2
  <2>4. w[j] \in Int /\ w[k] \in Int
    BY <1>2, <2>1
  <2>5. Alike(q, r * w[j], w[k])
    BY <1>1, <2>1 DEF r
  <2> HIDE DEF k
  <2>6. D[k + 1] \in Int /\ D[k + 1] % q = (d[256 - 1 - k] + r * D[k]) % q
    BY <1>3, <1>4, <2>1, TableStep
  <2>7. Combined(q, z, d[m], 0, d[m])
    <3> DEFINE x == d[m]
    <3>1. x + z * 0 = x /\ x \in Int
      BY <1>3, <2>3, SMT
    <3> HIDE DEF x
    <3>2. Combined(q, z, x, 0, x)
      BY <3>1 DEF Combined
    <3>3. QED  BY <3>2 DEF x
  <2>8. Combined(q, z, D[k], w[j], E[j])
    BY <1>7 DEF k
  <2>9. Combined(q, z, d[m] + r * D[k], 0 + r * w[j], d[m] + r * E[j])
    BY <1>3, <2>7, <2>8, CombinedStep
  <2>10. w[k] % q = (0 + r * w[j]) % q
    <3>1. \A x \in Int : 0 + x = x
      BY SMT
    <3>2. QED  BY <2>5, <3>1 DEF Alike
  <2>11. Combined(q, z, D[k + 1], w[k], E[k])
    BY <1>3, <2>1, <2>2, <2>3, <2>4, <2>6, <2>9, <2>10, CombinedSame
  <2>12. QED  BY <2>11 DEF k
<1>8. ASSUME NEW j \in Nat, j \in S PROVE j + 1 \in S
  <2> SUFFICES ASSUME j + 1 <= 255 PROVE Combined(q, z, D[(j + 1) + 1], w[j + 1], E[j + 1])
    OBVIOUS
  <2>1. j < 255 /\ j <= 255
    BY SMT
  <2>2. QED  BY <1>7, <1>8, <2>1
<1>9. Combined(q, z, D[256], w[255], E[255])
  <2> HIDE DEF S
  <2>1. 255 \in S
    BY <1>6, <1>8, SetInduction
  <2>2. 255 <= 255 /\ 255 + 1 = 256
    BY SMT
  <2>3. QED  BY <2>1, <2>2 DEF S
<1> DEFINE t == D[256]
           v == E[256]
           p == E[255]
           wl == w[255]
           rt == r * t
<1>10. v \in Int /\ v % q = (z + r * p) % q
  <2>1. E[255 + 1] \in Int /\ E[255 + 1] % q = (e[256 - 1 - 255] + r * E[255]) % q
    <3>1. 255 \in Nat /\ 255 < 256
      BY SMT
    <3>2. QED  BY <1>3, <1>5, <3>1, TableStep
  <2>2. 255 + 1 = 256 /\ 256 - 1 - 255 = 0
    BY SMT
  <2>3. QED  BY <2>1, <2>2 DEF z, y
<1>11. Combined(q, z, z, 0, z)
  <2>1. z + z * 0 = z
    BY <1>3, SMT
  <2>2. QED  BY <1>3, <2>1 DEF Combined
<1>12. Alike(q, r * wl, -1)
  BY <1>1 DEF r
<1> HIDE DEF t, v, p, wl
<1>13. Combined(q, z, t, wl, p)
  BY <1>9 DEF t, wl, p
<1>14. Combined(q, z, z + r * t, 0 + r * wl, z + r * p)
  BY <1>3, <1>11, <1>13, CombinedStep
<1>15. Combined(q, z, z + r * t, -1, v)
  <2>1. \A x \in Int : 0 + x = x
    BY SMT
  <2>2. (-1) % q = (0 + r * wl) % q /\ -1 \in Int
    BY <1>12, <2>1 DEF Alike
  <2>3. z + r * t \in Int
    BY <1>14 DEF Combined
  <2>4. QED  BY <1>3, <1>10, <1>14, <2>2, <2>3, CombinedSame
<1>16. v % q = ((z + rt) + z * (-1)) % q /\ t \in Int
  BY <1>13, <1>15 DEF Combined
<1>17. rt \in Int
  BY <1>3, <1>16, SMT
<1> HIDE DEF rt
<1>18. (z + rt) + z * (-1) = rt
  BY <1>3, <1>17, SMT
<1>19. Alike(q, v, rt)
  BY <1>10, <1>16, <1>17, <1>18 DEF Alike
<1>20. QED  BY <1>4, <1>5, <1>19 DEF v, rt, t, r

\* Multiplying it by the j-th power of X multiplies its values by that power of
\* the root.
FoldedBy(b, j) == [k \in 0..255 |-> Folded(b, k - j)]

LEMMA FoldedInts ==
  ASSUME NEW b, Ints(b, 256), NEW j \in 0..255
  PROVE  Ints(FoldedBy(b, j), 256) /\ \A k \in 0..255 : Folded(b, k - j) \in Int
<1>1. ASSUME NEW k \in 0..255 PROVE Folded(b, k - j) \in Int
  <2>1. \A i \in 0..255 : b[i] \in Int
    <3>1. 0..(256 - 1) = 0..255
      BY SMT
    <3>2. QED  BY <3>1, Zenon DEF Ints
  <2>2. CASE k - j >= 0
    <3>1. k - j \in 0..255
      BY <2>2, SMT
    <3>2. QED  BY <2>1, <2>2, <3>1 DEF Folded
  <2>3. CASE ~(k - j >= 0)
    <3> DEFINE i == 256 + (k - j)
    <3>1. i \in 0..255
      BY <2>3, SMT
    <3> HIDE DEF i
    <3>2. -b[i] \in Int
      <4>1. b[i] \in Int
        BY <2>1, <3>1
      <4>2. QED  BY <4>1, SMT
    <3>3. QED  BY <2>3, <3>2 DEF Folded, i
  <2>4. QED  BY <2>2, <2>3
<1>2. 0..(256 - 1) = 0..255
  BY SMT
<1>3. QED  BY <1>1, <1>2 DEF Ints, FoldedBy

LEMMA FoldedNext ==
  ASSUME NEW b, Ints(b, 256), NEW j \in 0..254
  PROVE  /\ FoldedBy(b, j + 1)[0] = -FoldedBy(b, j)[255]
         /\ \A k \in 1..255 : FoldedBy(b, j + 1)[k] = FoldedBy(b, j)[k - 1]
<1>1. FoldedBy(b, j + 1)[0] = -FoldedBy(b, j)[255]
  <2>1. 0 \in 0..255 /\ 255 \in 0..255 /\ ~(0 - (j + 1) >= 0) /\ 256 + (0 - (j + 1)) = 255 - j /\ 255 - j >= 0
    BY SMT
  <2>2. FoldedBy(b, j + 1)[0] = Folded(b, 0 - (j + 1)) /\ FoldedBy(b, j)[255] = Folded(b, 255 - j)
    BY <2>1 DEF FoldedBy
  <2>3. Folded(b, 0 - (j + 1)) = -b[255 - j] /\ Folded(b, 255 - j) = b[255 - j]
    BY <2>1 DEF Folded
  <2>4. QED  BY <2>2, <2>3
<1>2. ASSUME NEW k \in 1..255 PROVE FoldedBy(b, j + 1)[k] = FoldedBy(b, j)[k - 1]
  <2>1. k \in 0..255 /\ k - 1 \in 0..255 /\ k - (j + 1) = (k - 1) - j
    BY SMT
  <2>2. FoldedBy(b, j + 1)[k] = Folded(b, k - (j + 1)) /\ FoldedBy(b, j)[k - 1] = Folded(b, (k - 1) - j)
    BY <2>1 DEF FoldedBy
  <2>3. QED  BY <2>1, <2>2
<1>3. QED  BY <1>1, <1>2

LEMMA HornerFolded ==
  ASSUME NEW q \in Primes, NEW w, IsRoot(w, q), NEW b, Ints(b, 256), NEW j \in 0..255
  PROVE  Alike(q, Horner(FoldedBy(b, j), w[1], q, 256), w[j] * Horner(b, w[1], q, 256))
<1>1. /\ w[0] = 1 /\ w[1] \in Int
      /\ \A i \in 0..254 : Alike(q, w[1] * w[i], w[i + 1])
  BY RootIs
<1>2. \A i \in 0..255 : w[i] \in Int
  BY RootIs
<1> DEFINE H(d) == Horner(d, w[1], q, 256)
           h == H(b)
           S == {i \in Nat : i <= 255 => Alike(q, H(FoldedBy(b, i)), w[i] * h)}
<1>3. h \in Int
  <2>1. \A x \in 0..(q - 1) : x \in Int
    BY SMT DEF Primes
  <2>2. 256 \in Nat
    BY SMT
  <2>3. QED  BY <1>1, <2>1, <2>2, HornerRange, Zenon
<1>4. 0 \in S
  <2> DEFINE d == FoldedBy(b, 0)
  <2>1. \A k \in 0..255 : d[k] = b[k]
    <3>1. ASSUME NEW k \in 0..255 PROVE d[k] = b[k]
      <4>1. k - 0 = k /\ k >= 0
        BY SMT
      <4>2. QED  BY <4>1 DEF FoldedBy, Folded
    <3>2. QED  BY <3>1
  <2>2. Ints(d, 256)
    <3>1. 0 \in 0..255
      BY SMT
    <3>2. QED  BY <3>1, FoldedInts
  <2>3. 256 \in Nat /\ 0..(256 - 1) = 0..255
    BY SMT
  <2>4. \A k \in 0..(256 - 1) : d[k] % q = b[k] % q
    BY <2>1, <2>3
  <2> HIDE DEF d
  <2>5. H(d) = h
    <3> DEFINE r == w[1]
               n == 256
    <3> HIDE DEF r, n
    <3>1. r \in Int /\ n \in Nat /\ Ints(d, n) /\ Ints(b, n) /\ \A k \in 0..(n - 1) : d[k] % q = b[k] % q
      BY <1>1, <2>2, <2>3, <2>4 DEF r, n
    <3>2. Horner(d, r, q, n) = Horner(b, r, q, n)
      BY <3>1, HornerSame
    <3>3. QED  BY <3>2 DEF r, n
  <2> HIDE DEF H, h
  <2>6. w[0] * h = h
    <3>1. \A x \in Int : 1 * x = x
      BY SMT
    <3>2. QED  BY <1>1, <1>3, <3>1
  <2>7. Alike(q, h, h)
    BY <1>3, AlikeSelf
  <2>8. QED  BY <2>5, <2>6, <2>7 DEF d
<1>5. ASSUME NEW i \in Nat, i \in S PROVE i + 1 \in S
  <2> SUFFICES ASSUME i + 1 <= 255
               PROVE  Alike(q, H(FoldedBy(b, i + 1)), w[i + 1] * h)
    OBVIOUS
  <2> DEFINE d == FoldedBy(b, i)
             e == FoldedBy(b, i + 1)
  <2>1. i \in 0..254 /\ i \in 0..255 /\ i + 1 \in 0..255 /\ i <= 255
    BY SMT
  <2>2. Ints(d, 256) /\ Ints(e, 256)
    BY <2>1, FoldedInts
  <2>3. e[0] = -d[255] /\ \A k \in 1..255 : e[k] = d[k - 1]
    BY <2>1, FoldedNext, ZenonT(30)
  <2>4. Alike(q, H(d), w[i] * h)
    BY <1>5, <2>1
  <2> HIDE DEF d, e
  <2>5. Alike(q, H(e), w[1] * H(d))
    BY <2>2, <2>3, HornerRotate, ZenonT(30)
  <2> DEFINE r == w[1]
             x == w[i]
             y == w[i + 1]
             t == H(d)
             g == H(e)
  <2>6. Alike(q, r * x, y) /\ r \in Int /\ x \in Int /\ y \in Int
    <3>1. Alike(q, w[1] * w[i], w[i + 1])
      BY <1>1, <2>1
    <3>2. w[i] \in Int /\ w[i + 1] \in Int
      BY <1>2, <2>1
    <3>3. QED  BY <1>1, <3>1, <3>2
  <2>7. Alike(q, g, r * t) /\ Alike(q, t, x * h)
    BY <2>4, <2>5
  <2> HIDE DEF h, H, r, x, y, t, g
  <2> DEFINE rt == r * t
             xh == x * h
             rx == r * x
             rxh == r * xh
             yh == y * h
  <2>8. rxh = rx * h
    BY <1>3, <2>6, SMT
  <2>9. Alike(q, t, xh) /\ Alike(q, rx, y) /\ Alike(q, g, rt)
    BY <2>6, <2>7
  <2> HIDE DEF xh, rx
  <2>10. Alike(q, rt, rxh)
    BY <2>6, <2>9, AlikeProduct
  <2>11. Alike(q, rx * h, yh)
    BY <1>3, <2>9, AlikeProduct
  <2>12. Alike(q, g, yh)
    BY <2>8, <2>9, <2>10, <2>11 DEF Alike
  <2>13. QED  BY <2>12 DEF g, yh, y, e
<1> HIDE DEF S
<1>6. j \in S
  <2>1. j \in Nat
    BY SMT
  <2>2. QED  BY <1>4, <1>5, <2>1, SetInduction
<1>7. j <= 255
  BY SMT
<1>8. QED  BY <1>6, <1>7 DEF S

\* The value of a product is the product of the values: the terms of the product
\* are the second polynomial folded, and taken as often as the first one says.
FoldedTerms(a, b, k) == [j \in 0..255 |-> a[j] * Folded(b, k - j)]
FirstTerms(a, b, n) == [k \in 0..255 |-> SumTo(FoldedTerms(a, b, k), n)]

LEMMA TermsInts ==
  ASSUME NEW a, Ints(a, 256), NEW b, Ints(b, 256), NEW n \in 0..256
  PROVE  /\ \A k \in 0..255 : Ints(FoldedTerms(a, b, k), n)
         /\ Ints(FirstTerms(a, b, n), 256)
<1>1. ASSUME NEW k \in 0..255 PROVE Ints(FoldedTerms(a, b, k), n)
  <2>1. ASSUME NEW j \in 0..(n - 1) PROVE FoldedTerms(a, b, k)[j] \in Int
    <3> DEFINE t == Folded(b, k - j)
    <3>1. j \in 0..255 /\ j \in 0..(256 - 1)
      BY SMT
    <3>2. a[j] \in Int
      BY <3>1 DEF Ints
    <3>3. t \in Int
      BY <3>1, FoldedInts
    <3>4. FoldedTerms(a, b, k)[j] = a[j] * t
      BY <3>1 DEF FoldedTerms
    <3> HIDE DEF t
    <3>5. a[j] * t \in Int
      BY <3>2, <3>3, SMT
    <3>6. QED  BY <3>4, <3>5
  <2>2. QED  BY <2>1 DEF Ints
<1>2. ASSUME NEW k \in 0..255 PROVE FirstTerms(a, b, n)[k] \in Int
  <2>1. n \in Nat
    BY SMT
  <2>2. SumTo(FoldedTerms(a, b, k), n) \in Int
    BY <1>1, <2>1, SumInt
  <2>3. QED  BY <2>2 DEF FirstTerms
<1>3. 0..(256 - 1) = 0..255
  BY SMT
<1>4. QED  BY <1>1, <1>2, <1>3 DEF Ints

LEMMA FirstTermsNext ==
  ASSUME NEW q \in Primes, NEW a, Ints(a, 256), NEW b, Ints(b, 256), NEW n \in 0..255
  PROVE  \A k \in 0..255 :
           Combined(q, a[n], FirstTerms(a, b, n)[k], FoldedBy(b, n)[k], FirstTerms(a, b, n + 1)[k])
<1> SUFFICES ASSUME NEW k \in 0..255
    PROVE Combined(q, a[n], FirstTerms(a, b, n)[k], FoldedBy(b, n)[k], FirstTerms(a, b, n + 1)[k])
  OBVIOUS
<1> DEFINE f == FoldedTerms(a, b, k)
           t == Folded(b, k - n)
<1>1. n \in Nat /\ n + 1 \in 0..256
  BY SMT
<1>2. Ints(f, n + 1)
  BY <1>1, TermsInts
<1>3. f[n] = a[n] * t
  BY DEF FoldedTerms
<1>4. t \in Int
  BY FoldedInts
<1>5. FoldedBy(b, n)[k] = t
  BY DEF FoldedBy
<1> HIDE DEF f, t
<1>6. /\ SumTo(f, n) \in Int /\ f[n] \in Int /\ SumTo(f, n + 1) = SumTo(f, n) + f[n]
  BY <1>1, <1>2, SumStep
<1>7. FirstTerms(a, b, n)[k] = SumTo(f, n) /\ FirstTerms(a, b, n + 1)[k] = SumTo(f, n + 1)
  BY DEF FirstTerms, f
<1> DEFINE x == SumTo(f, n)
           y == SumTo(f, n + 1)
<1>8. x \in Int /\ y \in Int /\ y = x + a[n] * t
  BY <1>3, <1>6
<1> HIDE DEF x, y
<1>9. Combined(q, a[n], x, t, y)
  BY <1>4, <1>8 DEF Combined
<1>10. QED  BY <1>5, <1>7, <1>9 DEF x, y

LEMMA ProductStep ==
  ASSUME NEW q \in Primes, NEW x \in Int, NEW u \in Int, NEW h \in Int, NEW w \in Int,
         NEW d, Alike(q, d, u * h), NEW t, Alike(q, t, w * h), NEW e, Combined(q, x, d, t, e)
  PROVE  Alike(q, e, (u + x * w) * h)
<1> DEFINE uh == u * h
           wh == w * h
           xt == x * t
           xwh == x * wh
           y == (u + x * w) * h
<1>1. uh \in Int /\ wh \in Int /\ xwh \in Int /\ y \in Int
  BY SMT
<1>2. y = uh + xwh
  BY SMT
<1>3. Alike(q, d, uh) /\ Alike(q, t, wh)
  OBVIOUS
<1> HIDE DEF uh, wh, y
<1>4. Alike(q, xt, xwh)
  BY <1>3, AlikeProduct
<1>5. e \in Int /\ e % q = (d + xt) % q
  BY DEF Combined
<1> HIDE DEF xt, xwh
<1>6. Alike(q, d + xt, uh + xwh)
  BY <1>3, <1>4, AlikeSum
<1>7. Alike(q, e, y)
  BY <1>1, <1>2, <1>5, <1>6 DEF Alike
<1>8. QED  BY <1>7 DEF y

Weighted(a, w) == [j \in 0..255 |-> a[j] * w[j]]

LEMMA HornerProduct ==
  ASSUME NEW q \in Primes, NEW w, IsRoot(w, q), NEW a, Ints(a, 256), NEW b, Ints(b, 256)
  PROVE  Alike(q, Horner(FirstTerms(a, b, 256), w[1], q, 256),
                  SumTo(Weighted(a, w), 256) * Horner(b, w[1], q, 256))
<1> DEFINE f == Weighted(a, w)
           r == w[1]
           H(d) == Horner(d, r, q, 256)
           h == H(b)
           S == {n \in Nat : n <= 256 => Alike(q, H(FirstTerms(a, b, n)), SumTo(f, n) * h)}
<1>1. r \in Int /\ 256 \in Nat
  <2>1. w[1] \in Int
    BY RootIs
  <2>2. 256 \in Nat
    BY SMT
  <2>3. QED  BY <2>1, <2>2
<1>2. \A i \in 0..255 : w[i] \in Int
  BY RootIs
<1>9. \A j \in 0..255 : f[j] = a[j] * w[j]
  BY Zenon DEF Weighted
<1> HIDE DEF f
<1>10. Ints(f, 256)
  BY <1>9, HornerPowers, ZenonT(30)
<1> HIDE DEF r
<1>3. h \in Int
  <2>1. \A x \in 0..(q - 1) : x \in Int
    BY SMT DEF Primes
  <2>2. QED  BY <1>1, <2>1, HornerRange
<1>4. 0 \in S
  <2> DEFINE d == FirstTerms(a, b, 0)
  <2>1. \A k \in 0..(256 - 1) : d[k] = 0
    <3>1. 0..(256 - 1) = 0..255
      BY SMT
    <3>2. QED  BY <3>1, SumZero DEF FirstTerms
  <2> HIDE DEF d
  <2>2. H(d) = 0
    BY <1>1, <2>1, HornerZero
  <2> HIDE DEF h, H
  <2>3. SumTo(f, 0) = 0 /\ 0 * h = 0 /\ 0 \in Int
    BY <1>3, SumZero
  <2>4. QED  BY <2>2, <2>3, AlikeSelf DEF d
<1>5. ASSUME NEW n \in Nat, n \in S PROVE n + 1 \in S
  <2> SUFFICES ASSUME n + 1 <= 256 PROVE Alike(q, H(FirstTerms(a, b, n + 1)), SumTo(f, n + 1) * h)
    OBVIOUS
  <2>1. n \in 0..255 /\ n <= 256 /\ 0..(256 - 1) = 0..255 /\ n \in 0..(256 - 1)
    BY SMT
  <2> DEFINE d == FirstTerms(a, b, n)
             e == FirstTerms(a, b, n + 1)
             t == FoldedBy(b, n)
             x == a[n]
             v == w[n]
             u == SumTo(f, n)
  <2>2. \A k \in 0..(256 - 1) : Combined(q, x, d[k], t[k], e[k])
    BY <2>1, FirstTermsNext
  <2>3. x \in Int /\ v \in Int
    <3>1. a[n] \in Int
      BY <2>1 DEF Ints
    <3>2. w[n] \in Int
      BY <1>2, <2>1
    <3>3. QED  BY <3>1, <3>2
  <2>4. Alike(q, H(d), u * h)
    BY <1>5, <2>1
  <2>5. Alike(q, H(t), v * h)
    BY <2>1, HornerFolded DEF r
  <2>6. u \in Int /\ SumTo(f, n + 1) = u + x * v
    <3>1. Ints(f, n + 1)
      <4>1. \A j \in 0..((n + 1) - 1) : j \in 0..(256 - 1)
        BY <2>1, SMT
      <4>2. QED  BY <1>10, <4>1 DEF Ints
    <3>2. /\ SumTo(f, n) \in Int /\ SumTo(f, n + 1) = SumTo(f, n) + f[n]
      BY <3>1, SumStep
    <3>3. f[n] = a[n] * w[n]
      BY <1>9, <2>1
    <3>4. QED  BY <3>2, <3>3
  <2> HIDE DEF d, e, t, x, v, u
  <2>7. Combined(q, x, H(d), H(t), H(e))
    <3> DEFINE m == 256
    <3> HIDE DEF m
    <3>1. m \in Nat /\ \A k \in 0..(m - 1) : Combined(q, x, d[k], t[k], e[k])
      BY <1>1, <2>2 DEF m
    <3>2. Combined(q, x, Horner(d, r, q, m), Horner(t, r, q, m), Horner(e, r, q, m))
      BY <1>1, <2>3, <3>1, HornerLinear
    <3>3. QED  BY <3>2 DEF m
  <2> HIDE DEF H, h
  <2>8. Alike(q, H(e), (u + x * v) * h)
    BY <1>3, <2>3, <2>4, <2>5, <2>6, <2>7, ProductStep
  <2>9. QED  BY <2>6, <2>8 DEF e
<1> HIDE DEF S
<1>6. 256 \in S
  BY <1>1, <1>4, <1>5, SetInduction
<1>7. 256 <= 256
  BY SMT
<1>8. QED  BY <1>6, <1>7 DEF S, r, f

\* So the value of the negacyclic product is the product of the values.
LEMMA HornerNegacyclic ==
  ASSUME NEW q \in Primes, NEW w, IsRoot(w, q), NEW a, Ints(a, 256), NEW b, Ints(b, 256),
         NEW h, \A k \in 0..255 : h[k] = Negacyclic(a, b, k, q)
  PROVE  /\ Ints(h, 256)
         /\ Alike(q, Horner(h, w[1], q, 256), Horner(a, w[1], q, 256) * Horner(b, w[1], q, 256))
<1> DEFINE r == w[1]
           f == Weighted(a, w)
           d == FirstTerms(a, b, 256)
<1>1. r \in Int /\ 256 \in Nat /\ 256 \in 0..256 /\ 0..(256 - 1) = 0..255
  <2>1. w[1] \in Int
    BY RootIs
  <2>2. 256 \in Nat /\ 256 \in 0..256 /\ 0..(256 - 1) = 0..255
    BY SMT
  <2>3. QED  BY <2>1, <2>2
<1>2. Horner(a, r, q, 256) = SumTo(f, 256) % q /\ Ints(f, 256)
  <2>1. \A j \in 0..255 : f[j] = a[j] * w[j]
    BY Zenon DEF Weighted
  <2> HIDE DEF f
  <2>2. QED  BY <2>1, HornerPowers, ZenonT(30)
<1>3. Ints(d, 256)
  BY <1>1, TermsInts, ZenonT(30)
<1>4. ASSUME NEW k \in 0..255 PROVE h[k] \in Int /\ h[k] % q = d[k] % q
  <2> DEFINE g == FoldedTerms(a, b, k)
             x == SumTo(g, 256)
  <2>1. Ints(g, 256)
    BY <1>1, TermsInts, ZenonT(30)
  <2>2. h[k] = Total(g, q)
    BY DEF Negacyclic, FoldedTerms
  <2>3. d[k] = x
    BY DEF FirstTerms
  <2> HIDE DEF g
  <2>4. h[k] = x % q /\ h[k] \in Int
    BY <2>1, <2>2, TotalIs
  <2>5. x \in Int
    BY <1>1, <2>1, SumInt
  <2> HIDE DEF x
  <2>6. (x % q) % q = x % q
    BY <2>5, ResidueTwice
  <2>7. QED  BY <2>3, <2>4, <2>6
<1>5. Ints(h, 256)
  BY <1>1, <1>4 DEF Ints
<1>6. Alike(q, Horner(d, r, q, 256), SumTo(f, 256) * Horner(b, r, q, 256))
  BY HornerProduct
<1> HIDE DEF r, f, d
<1>7. Horner(h, r, q, 256) = Horner(d, r, q, 256)
  <2> DEFINE n == 256
  <2> HIDE DEF n
  <2>1. n \in Nat /\ Ints(h, n) /\ Ints(d, n) /\ \A k \in 0..(n - 1) : h[k] % q = d[k] % q
    BY <1>1, <1>3, <1>4, <1>5 DEF n
  <2>2. Horner(h, r, q, n) = Horner(d, r, q, n)
    BY <1>1, <2>1, HornerSame
  <2>3. QED  BY <2>2 DEF n
<1> DEFINE s == SumTo(f, 256)
           t == Horner(b, r, q, 256)
<1>8. s \in Int /\ t \in Int
  <2>1. s \in Int
    BY <1>1, <1>2, SumInt
  <2>2. \A x \in 0..(q - 1) : x \in Int
    BY SMT DEF Primes
  <2>3. QED  BY <1>1, <2>1, <2>2, HornerRange
<1> HIDE DEF s, t
<1>9. Alike(q, s, s % q)
  BY <1>8, AlikeSelf
<1>10. Alike(q, s * t, (s % q) * t)
  BY <1>8, <1>9, AlikeProduct
<1>11. Alike(q, Horner(h, r, q, 256), (s % q) * t)
  BY <1>6, <1>7, <1>10 DEF Alike, s, t
<1>12. QED  BY <1>2, <1>5, <1>11 DEF s, t, r

\* The value at a root of the part of a polynomial that is made of every len-th
\* coefficient from the one at off.
Lengths == {1, 2, 4, 8, 16, 32, 64, 128, 256}
Slice(c, off, len) == [m \in 0..((256 \div len) - 1) |-> c[off + len * m]]
Value(c, off, len, root, q) == Horner(Slice(c, off, len), root, q, 256 \div len)

LEMMA SliceInts ==
  ASSUME NEW c, Ints(c, 256), NEW len \in Lengths, NEW off \in 0..(len - 1)
  PROVE  /\ Ints(Slice(c, off, len), 256 \div len)
         /\ 256 \div len \in Nat
<1>1. ASSUME NEW m \in 0..((256 \div len) - 1) PROVE off + len * m \in 0..(256 - 1)
  <2>1. CASE len = 1    BY <2>1, SMT
  <2>2. CASE len = 2    BY <2>2, SMT
  <2>3. CASE len = 4    BY <2>3, SMT
  <2>4. CASE len = 8    BY <2>4, SMT
  <2>5. CASE len = 16   BY <2>5, SMT
  <2>6. CASE len = 32   BY <2>6, SMT
  <2>7. CASE len = 64   BY <2>7, SMT
  <2>8. CASE len = 128  BY <2>8, SMT
  <2>9. CASE len = 256  BY <2>9, SMT
  <2>10. QED  BY <2>1, <2>2, <2>3, <2>4, <2>5, <2>6, <2>7, <2>8, <2>9 DEF Lengths
<1>2. ASSUME NEW m \in 0..((256 \div len) - 1) PROVE Slice(c, off, len)[m] \in Int
  <2>1. c[off + len * m] \in Int
    BY <1>1 DEF Ints
  <2>2. QED  BY <2>1 DEF Slice
<1>3. 256 \div len \in Nat
  BY SMT DEF Lengths
<1>4. QED  BY <1>2, <1>3 DEF Ints

LEMMA ValueRange ==
  ASSUME NEW q \in Primes, NEW c, Ints(c, 256), NEW len \in Lengths, NEW off \in 0..(len - 1),
         NEW root \in Int
  PROVE  /\ Value(c, off, len, root, q) \in Int
         /\ Value(c, off, len, root, q) % q = Value(c, off, len, root, q)
<1> DEFINE f == Slice(c, off, len)
           n == 256 \div len
<1>1. Ints(f, n) /\ n \in Nat
  BY SliceInts
<1>2. \A x \in 0..(q - 1) : x \in Int
  BY SMT DEF Primes
<1> HIDE DEF f, n
<1>3. Horner(f, root, q, n) \in 0..(q - 1) /\ Horner(f, root, q, n) % q = Horner(f, root, q, n)
  BY <1>1, HornerRange
<1>4. QED  BY <1>2, <1>3 DEF Value, f, n

\* A part at z, from the two parts of twice the step at the square of z.
LEMMA ValueHalves ==
  ASSUME NEW q \in Primes, NEW c, Ints(c, 256), NEW len \in Lengths, len < 256,
         NEW off \in 0..(len - 1), NEW z \in Int, NEW r \in Int, (z * z) % q = r % q
  PROVE  Combined(q, z, Value(c, off, 2 * len, r, q), Value(c, off + len, 2 * len, r, q),
                        Value(c, off, len, z, q))
<1> DEFINE two == 2 * len
           high == off + len
           n == 256 \div two
           f == Slice(c, off, two)
           g == Slice(c, high, two)
           h == Slice(c, off, len)
<1>1. /\ two \in Lengths /\ 256 \div len = 2 * n /\ off \in 0..(two - 1) /\ high \in 0..(two - 1)
      /\ \A m \in 0..(n - 1) : /\ 2 * m \in 0..((256 \div len) - 1)
                               /\ 2 * m + 1 \in 0..((256 \div len) - 1)
                               /\ off + len * (2 * m) = off + two * m
                               /\ off + len * (2 * m + 1) = high + two * m
  <2>1. CASE len = 1    BY <2>1, SMT DEF Lengths
  <2>2. CASE len = 2    BY <2>2, SMT DEF Lengths
  <2>3. CASE len = 4    BY <2>3, SMT DEF Lengths
  <2>4. CASE len = 8    BY <2>4, SMT DEF Lengths
  <2>5. CASE len = 16   BY <2>5, SMT DEF Lengths
  <2>6. CASE len = 32   BY <2>6, SMT DEF Lengths
  <2>7. CASE len = 64   BY <2>7, SMT DEF Lengths
  <2>8. CASE len = 128  BY <2>8, SMT DEF Lengths
  <2>9. len # 256
    BY SMT DEF Lengths
  <2>10. QED  BY <2>1, <2>2, <2>3, <2>4, <2>5, <2>6, <2>7, <2>8, <2>9 DEF Lengths
<1> HIDE DEF two, high
<1>2. Ints(f, n) /\ Ints(g, n) /\ n \in Nat
  BY <1>1, SliceInts
<1>3. ASSUME NEW m \in 0..(n - 1) PROVE h[2 * m] = f[m] /\ h[2 * m + 1] = g[m]
  <2>1. h[2 * m] = c[off + len * (2 * m)] /\ h[2 * m + 1] = c[off + len * (2 * m + 1)]
    BY <1>1 DEF Slice
  <2>2. f[m] = c[off + two * m] /\ g[m] = c[high + two * m]
    BY DEF Slice
  <2>3. QED  BY <1>1, <2>1, <2>2
<1>4. /\ Value(c, off, two, r, q) = Horner(f, r, q, n)
      /\ Value(c, high, two, r, q) = Horner(g, r, q, n)
      /\ Value(c, off, len, z, q) = Horner(h, z, q, 2 * n)
  BY <1>1 DEF Value
<1> HIDE DEF f, g, h, n
<1>5. Combined(q, z, Horner(f, r, q, n), Horner(g, r, q, n), Horner(h, z, q, 2 * n))
  BY <1>2, <1>3, HornerHalves
<1>6. QED  BY <1>4, <1>5 DEF two, high

\* The parts that are the whole polynomial and one coefficient.
LEMMA ValueWhole ==
  ASSUME NEW q \in Primes, NEW c, Ints(c, 256), NEW root \in Int
  PROVE  Value(c, 0, 1, root, q) = Horner(c, root, q, 256)
<1> DEFINE f == Slice(c, 0, 1)
           n == 256
<1>1. 256 \div 1 = n /\ n \in Nat /\ 0 \in 0..(1 - 1) /\ 1 \in Lengths
  BY SMT DEF Lengths
<1>2. \A m \in 0..(n - 1) : f[m] = c[m]
  <2>1. \A m \in 0..(n - 1) : 0 + 1 * m = m
    BY SMT
  <2> HIDE DEF n
  <2>2. QED  BY <1>1, <2>1 DEF Slice
<1>3. Ints(f, n) /\ Ints(c, n)
  <2>1. Ints(f, 256 \div 1)
    BY <1>1, SliceInts
  <2>2. QED  BY <1>1, <2>1
<1> HIDE DEF f, n
<1>4. \A m \in 0..(n - 1) : f[m] % q = c[m] % q
  BY <1>2
<1>5. Horner(f, root, q, n) = Horner(c, root, q, n)
  BY <1>1, <1>3, <1>4, HornerSame
<1>6. Value(c, 0, 1, root, q) = Horner(f, root, q, n)
  BY <1>1 DEF Value, f
<1>7. QED  BY <1>5, <1>6 DEF n

LEMMA ValueOne ==
  ASSUME NEW q \in Primes, NEW c, Ints(c, 256), NEW off \in 0..255, NEW root \in Int
  PROVE  Value(c, off, 256, root, q) = c[off] % q
<1> DEFINE f == Slice(c, off, 256)
<1>1. 256 \div 256 = 1 /\ off \in 0..(256 - 1) /\ 0 \in 0..(1 - 1) /\ off + 256 * 0 = off
  BY SMT
<1>2. f[0] = c[off]
  BY <1>1 DEF Slice
<1>3. c[off] \in Int
  BY <1>1 DEF Ints
<1> HIDE DEF f
<1>4. Horner(f, root, q, 1) = f[0] % q
  BY <1>2, <1>3, HornerOne
<1>5. QED  BY <1>1, <1>2, <1>4 DEF Value, f

\* The values that the operators of module Sums speak of.
LEMMA ValueAtIs ==
  ASSUME NEW q \in Primes, NEW w, IsRoot(w, q), NEW c, Ints(c, 256)
  PROVE  ValueAt(c, w, q) = Horner(c, w[1], q, 256)
<1> DEFINE f == [j \in 0..255 |-> c[j] * w[j]]
<1>1. \A j \in 0..255 : f[j] = c[j] * w[j]
  OBVIOUS
<1>2. ValueAt(c, w, q) = Total(f, q)
  BY DEF ValueAt
<1> HIDE DEF f
<1>3. Horner(c, w[1], q, 256) = SumTo(f, 256) % q /\ Ints(f, 256)
  BY <1>1, HornerPowers, ZenonT(30)
<1>4. Total(f, q) = SumTo(f, 256) % q
  BY <1>3, TotalIs
<1>5. QED  BY <1>2, <1>3, <1>4

ProductSums(a, b, n, q) == [k \in 0..255 |-> NegacyclicSum(a, b, n, k, q)]

\* The value of the sum of the products, pair by pair.
LEMMA ProductSumsNone ==
  ASSUME NEW q \in Primes, NEW a, NEW b, NEW r \in Int
  PROVE  Ints(ProductSums(a, b, 0, q), 256) /\ Horner(ProductSums(a, b, 0, q), r, q, 256) = 0
<1> DEFINE c == ProductSums(a, b, 0, q)
           n == 256
<1>1. n \in Nat /\ 0..(n - 1) = 0..255
  BY SMT
<1>2. \A k \in 0..(n - 1) : c[k] = 0
  BY <1>1, SumZero DEF ProductSums, NegacyclicSum
<1> HIDE DEF c, n
<1>3. Horner(c, r, q, n) = 0
  BY <1>1, <1>2, HornerZero
<1>4. Ints(c, n)
  BY <1>2 DEF Ints
<1>5. QED  BY <1>3, <1>4 DEF c, n

LEMMA ProductSumsInts ==
  ASSUME NEW q \in Primes, NEW w, IsRoot(w, q), NEW a, NEW b, NEW n \in Nat,
         \A r \in 1..n : Ints(a[r], 256) /\ Ints(b[r], 256)
  PROVE  Ints(ProductSums(a, b, n, q), 256)
<1>1. ASSUME NEW k \in 0..255 PROVE ProductSums(a, b, n, q)[k] \in Int
  <2> DEFINE f == [r \in 0..(n - 1) |-> Negacyclic(a[r + 1], b[r + 1], k, q)]
  <2>1. ASSUME NEW r \in 0..(n - 1) PROVE f[r] \in Int
    <3> DEFINE x == a[r + 1]
               y == b[r + 1]
               h == [i \in 0..255 |-> Negacyclic(x, y, i, q)]
    <3>1. Ints(x, 256) /\ Ints(y, 256)
      <4>1. r + 1 \in 1..n
        BY SMT
      <4>2. QED  BY <4>1
    <3> HIDE DEF x, y
    <3>2. \A i \in 0..255 : h[i] = Negacyclic(x, y, i, q)
      OBVIOUS
    <3> HIDE DEF h
    <3>3. Ints(h, 256)
      BY <3>1, <3>2, HornerNegacyclic, ZenonT(30)
    <3>4. k \in 0..(256 - 1)
      BY SMT
    <3>5. h[k] \in Int
      BY <3>3, <3>4 DEF Ints
    <3>6. QED  BY <3>2, <3>5 DEF x, y
  <2>2. ProductSums(a, b, n, q)[k] = SumTo(f, n)
    BY DEF ProductSums, NegacyclicSum
  <2> HIDE DEF f
  <2>3. Ints(f, n)
    BY <2>1 DEF Ints
  <2>4. QED  BY <2>2, <2>3, SumInt
<1>2. 0..(256 - 1) = 0..255
  BY SMT
<1>3. QED  BY <1>1, <1>2 DEF Ints

LEMMA ProductSumsNext ==
  ASSUME NEW q \in Primes, NEW w, IsRoot(w, q), NEW a, NEW b, NEW n \in Nat,
         \A r \in 1..(n + 1) : Ints(a[r], 256) /\ Ints(b[r], 256)
  PROVE  Alike(q, Horner(ProductSums(a, b, n + 1, q), w[1], q, 256),
                  Horner(ProductSums(a, b, n, q), w[1], q, 256)
                    + Horner(a[n + 1], w[1], q, 256) * Horner(b[n + 1], w[1], q, 256))
<1> DEFINE x == a[n + 1]
           y == b[n + 1]
           h == [k \in 0..255 |-> Negacyclic(x, y, k, q)]
           c == ProductSums(a, b, n, q)
           d == ProductSums(a, b, n + 1, q)
           r == w[1]
           m == 256
<1>1. Ints(x, 256) /\ Ints(y, 256) /\ n + 1 \in Nat
  <2>1. n + 1 \in 1..(n + 1) /\ n + 1 \in Nat
    BY SMT
  <2>2. QED  BY <2>1
<1>2. Ints(h, 256) /\ Alike(q, Horner(h, w[1], q, 256), Horner(x, w[1], q, 256) * Horner(y, w[1], q, 256))
  <2>1. \A k \in 0..255 : h[k] = Negacyclic(x, y, k, q)
    OBVIOUS
  <2> HIDE DEF h, x, y
  <2>2. QED  BY <1>1, <2>1, HornerNegacyclic, ZenonT(30)
<1>3. Ints(c, 256) /\ Ints(d, 256)
  <2>1. \A i \in 1..n : i \in 1..(n + 1)
    BY SMT
  <2>2. \A i \in 1..n : Ints(a[i], 256) /\ Ints(b[i], 256)
    BY <2>1
  <2>3. QED  BY <1>1, <2>2, ProductSumsInts
<1>4. ASSUME NEW k \in 0..255 PROVE Combined(q, 1, c[k], h[k], d[k])
  <2> DEFINE f == [i \in 0..(n - 1) |-> Negacyclic(a[i + 1], b[i + 1], k, q)]
             g == [i \in 0..((n + 1) - 1) |-> Negacyclic(a[i + 1], b[i + 1], k, q)]
  <2>1. c[k] = SumTo(f, n) /\ d[k] = SumTo(g, n + 1)
    BY DEF ProductSums, NegacyclicSum
  <2>2. /\ \A i \in 0..(n - 1) : f[i] = g[i]
        /\ g[n] = h[k]
    <3>1. \A i \in 0..(n - 1) : i \in 0..((n + 1) - 1)
      BY SMT
    <3>2. n \in 0..((n + 1) - 1)
      BY SMT
    <3>3. QED  BY <3>1, <3>2
  <2>3. Ints(g, n + 1)
    <3>1. ASSUME NEW i \in 0..((n + 1) - 1) PROVE g[i] \in Int
      <4> DEFINE u == a[i + 1]
                 v == b[i + 1]
                 e == [j \in 0..255 |-> Negacyclic(u, v, j, q)]
      <4>1. Ints(u, 256) /\ Ints(v, 256)
        <5>1. i + 1 \in 1..(n + 1)
          BY SMT
        <5>2. QED  BY <5>1
      <4>2. g[i] = e[k]
        OBVIOUS
      <4>3. \A j \in 0..255 : e[j] = Negacyclic(u, v, j, q)
        OBVIOUS
      <4> HIDE DEF u, v, e, g
      <4>4. Ints(e, 256)
        BY <4>1, <4>3, HornerNegacyclic, ZenonT(30)
      <4>5. k \in 0..(256 - 1)
        BY SMT
      <4>6. QED  BY <4>2, <4>4, <4>5 DEF Ints
    <3>2. QED  BY <3>1 DEF Ints
  <2> HIDE DEF f, g, h, c, d
  <2>4. SumTo(g, n) \in Int /\ g[n] \in Int /\ SumTo(g, n + 1) = SumTo(g, n) + g[n]
    BY <2>3, SumStep
  <2>5. SumTo(f, n) = SumTo(g, n)
    <3>1. Ints(g, n)
      BY <2>3 DEF Ints
    <3>2. QED  BY <2>2, <3>1, SumSame
  <2> DEFINE s == SumTo(g, n)
             t == g[n]
  <2>6. c[k] = s /\ h[k] = t /\ d[k] = s + t /\ s \in Int /\ t \in Int
    BY <2>1, <2>2, <2>4, <2>5
  <2> HIDE DEF s, t
  <2>7. s + t = s + 1 * t /\ s + t \in Int
    BY <2>6, SMT
  <2>8. Combined(q, 1, s, t, s + t)
    BY <2>6, <2>7 DEF Combined
  <2>9. QED  BY <2>6, <2>8
<1>5. m \in Nat /\ 0..(m - 1) = 0..255 /\ 1 \in Int
  BY SMT
<1>6. r \in Int
  BY RootIs
<1> HIDE DEF h, c, d, r, m, x, y
<1>7. \A k \in 0..(m - 1) : Combined(q, 1, c[k], h[k], d[k])
  BY <1>4, <1>5
<1>8. Combined(q, 1, Horner(c, r, q, m), Horner(h, r, q, m), Horner(d, r, q, m))
  BY <1>5, <1>6, <1>7, HornerLinear
<1> DEFINE C == Horner(c, r, q, m)
           D == Horner(d, r, q, m)
           H == Horner(h, r, q, m)
           P == Horner(x, r, q, m) * Horner(y, r, q, m)
<1>9. Alike(q, H, P)
  BY <1>2 DEF r, m
<1>10. Combined(q, 1, C, H, D)
  BY <1>8
<1> HIDE DEF C, D, H, P
<1>11. Alike(q, C + H, C + P)
  BY <1>9, <1>10, AlikeSum, AlikeSelf DEF Combined
<1>12. 1 * H = H
  BY <1>10, SMT DEF Combined
<1>13. Alike(q, D, C + P)
  BY <1>10, <1>11, <1>12 DEF Alike, Combined
<1>14. QED  BY <1>13 DEF C, D, P, c, d, r, m, x, y

\* A factor can be replaced by one with the same residue.
LEMMA CombinedFactor ==
  ASSUME NEW q \in Primes, NEW x, NEW y, Alike(q, x, y), NEW a, NEW b, NEW c, Combined(q, x, a, b, c)
  PROVE  Combined(q, y, a, b, c) /\ Alike(q, c, a + y * b)
<1> DEFINE xb == x * b
           yb == y * b
<1>1. a \in Int /\ b \in Int /\ c \in Int /\ c % q = (a + xb) % q
  BY DEF Combined
<1>2. Alike(q, xb, yb)
  BY <1>1, AlikeProduct
<1> HIDE DEF xb, yb
<1>3. Alike(q, a + xb, a + yb)
  BY <1>1, <1>2, AlikeSum, AlikeSelf
<1>4. Alike(q, c, a + yb)
  BY <1>1, <1>3 DEF Alike
<1>5. QED  BY <1>1, <1>4 DEF yb, Combined, Alike

\* A residue and its negative.
LEMMA NegativeResidue ==
  ASSUME NEW q \in Primes, NEW z \in Int
  PROVE  /\ Alike(q, (-z) % q, -z)
         /\ (((-z) % q) * ((-z) % q)) % q = (z * z) % q
<1> DEFINE n == -z
           m == n % q
           zz == z * z
           mm == m * m
           nn == n * n
           mn == m * n
<1>1. n \in Int /\ zz \in Int /\ nn = zz
  BY SMT
<1>2. Alike(q, m, n)
  BY <1>1, AlikeSelf
<1>3. m \in Int
  BY <1>2 DEF Alike
<1> HIDE DEF n, m
<1>4. Alike(q, mm, mn) /\ Alike(q, mn, nn)
  BY <1>1, <1>2, <1>3, AlikeProduct
<1>5. mm % q = zz % q
  BY <1>1, <1>4 DEF Alike
<1>6. QED  BY <1>2, <1>5 DEF m, n

\* A butterfly of an inverse level joins two parts at r and -r, up to the factor g
\* that both carry, to the parts of twice the step.
LEMMA JoinValues ==
  ASSUME NEW q \in Primes, NEW r \in Int, NEW z \in Int, (z * r) % q = 1, NEW g \in Int,
         NEW x \in Int, NEW y \in Int,
         NEW a, NEW b, Combined(q, r, x, y, a), Combined(q, -r, x, y, b),
         NEW lo, NEW hi, Alike(q, lo, g * a), Alike(q, hi, g * b)
  PROVE  Alike(q, lo + hi, 2 * (g * x)) /\ Alike(q, (lo - hi) * z, 2 * (g * y))
<1> DEFINE ry == r * y
           gx == g * x
           gy == g * y
           ga == g * a
           gb == g * b
           gry == g * ry
           s == x + ry
           d == x - ry
           gs == g * s
           gd == g * d
<1>1. /\ ry \in Int /\ gx \in Int /\ gy \in Int /\ gry \in Int /\ (-r) * y = -ry
      /\ s \in Int /\ d \in Int
  BY SMT
<1>2. gs = gx + gry /\ gd = gx - gry
  BY <1>1, SMT
<1>3. a \in Int /\ b \in Int /\ Alike(q, a, s) /\ Alike(q, b, d)
  <2>1. x + (-r) * y = d
    BY <1>1
  <2>2. QED  BY <1>1, <2>1 DEF Combined, Alike
<1>4. Alike(q, lo, ga) /\ Alike(q, hi, gb)
  OBVIOUS
<1> HIDE DEF ry, gx, gy, s, d
<1>5. Alike(q, ga, gs) /\ Alike(q, gb, gd)
  BY <1>3, AlikeProduct
<1> HIDE DEF ga, gb, gs, gd, gry
<1>6. Alike(q, lo, gs) /\ Alike(q, hi, gd)
  BY <1>4, <1>5 DEF Alike
<1>7. lo \in Int /\ hi \in Int /\ gs \in Int /\ gd \in Int /\ -hi \in Int /\ -gd \in Int
  BY <1>6, SMT DEF Alike
<1>8. Alike(q, lo + hi, 2 * gx)
  <2>1. Alike(q, lo + hi, gs + gd)
    BY <1>6, AlikeSum
  <2>2. gs + gd = 2 * gx
    BY <1>1, <1>2
  <2>3. QED  BY <2>1, <2>2
<1>9. Alike(q, lo - hi, 2 * gry)
  <2>1. Alike(q, (-1) * hi, (-1) * gd)
    BY <1>6, AlikeProduct
  <2>2. (-1) * hi = -hi /\ (-1) * gd = -gd
    BY <1>7, SMT
  <2>3. Alike(q, lo + (-hi), gs + (-gd))
    BY <1>6, <2>1, <2>2, AlikeSum
  <2>4. lo + (-hi) = lo - hi /\ gs + (-gd) = 2 * gry
    BY <1>1, <1>2, <1>7
  <2>5. QED  BY <2>3, <2>4
<1>10. Alike(q, (lo - hi) * z, 2 * gy)
  <2> DEFINE e == lo - hi
             zr == z * r
             k == 2 * gry
             kz == k * z
             ez == e * z
             m == 2 * gy
             mzr == m * zr
  <2>1. m \in Int /\ zr \in Int /\ kz \in Int /\ k \in Int
    BY <1>1, SMT
  <2>2. kz = mzr
    <3>1. gry = gy * r
      BY <1>1, SMT DEF gry, ry, gy
    <3>2. gy \in Int
      BY <1>1
    <3>3. (2 * (gy * r)) * z = (2 * gy) * (z * r)
      BY <3>2, SMT
    <3>4. QED  BY <3>1, <3>3
  <2>3. Alike(q, zr, 1)
    <3>1. zr % q = 1 % q
      <4>1. 1 % q = 1
        BY SMT DEF Primes
      <4>2. QED  BY <4>1
    <3>2. QED  BY <2>1, <3>1 DEF Alike
  <2>4. Alike(q, e, k)
    BY <1>9
  <2> HIDE DEF e, k, zr, m
  <2>5. Alike(q, ez, kz)
    BY <2>4, AlikeProduct
  <2>6. Alike(q, mzr, m * 1)
    BY <2>1, <2>3, AlikeProduct
  <2>7. m * 1 = m
    BY <2>1, SMT
  <2>8. Alike(q, ez, m)
    BY <2>2, <2>5, <2>6, <2>7 DEF Alike
  <2>9. QED  BY <2>8 DEF ez, e, m
<1>11. QED  BY <1>8, <1>10 DEF gx, gy

\* x stands for g times the value of a part of c.
Stands(q, c, g, x, off, len, root) ==
  /\ len \in Lengths /\ off \in 0..(len - 1) /\ root \in Int
  /\ Alike(q, x, g * Value(c, off, len, root, q))

LEMMA StandsSame ==
  ASSUME NEW q, NEW c, NEW g, NEW x, NEW off, NEW len, NEW root,
         Stands(q, c, g, x, off, len, root), NEW y \in Int, y % q = x % q
  PROVE  Stands(q, c, g, y, off, len, root)
BY Zenon DEF Stands, Alike

\* A forward butterfly.
LEMMA SplitSum ==
  ASSUME NEW q \in Primes, NEW g \in Int, NEW z \in Int, NEW a, NEW b, NEW c, Combined(q, z, a, b, c),
         NEW x, Alike(q, x, g * a), NEW y, Alike(q, y, g * b), NEW u, Alike(q, u, x + z * y)
  PROVE  Alike(q, u, g * c)
<1> DEFINE ga == g * a
           gb == g * b
           gc == g * c
           zb == z * b
           zy == z * y
           s == a + zb
           gs == g * s
           zgb == z * gb
<1>1. a \in Int /\ b \in Int /\ c \in Int
  BY DEF Combined
<1>2. zb \in Int /\ s \in Int /\ gs \in Int /\ ga \in Int /\ gb \in Int /\ zgb \in Int
  BY <1>1, SMT
<1>3. gs = ga + zgb
  <2>1. g * zb = zgb
    BY <1>1, SMT
  <2>2. gs = g * a + g * zb
    BY <1>1, <1>2, SMT DEF s
  <2>3. QED  BY <2>1, <2>2
<1>4. Alike(q, c, s) /\ Alike(q, x, ga) /\ Alike(q, y, gb)
  BY <1>1, <1>2 DEF Combined, Alike
<1>5. Alike(q, u, x + zy)
  OBVIOUS
<1> HIDE DEF ga, gb, s, zb
<1>6. Alike(q, gc, gs) /\ Alike(q, zy, zgb)
  BY <1>4, AlikeProduct
<1> HIDE DEF gc, gs, zy, zgb
<1>7. Alike(q, x + zy, ga + zgb)
  BY <1>4, <1>6, AlikeSum
<1>8. Alike(q, u, gc)
  BY <1>3, <1>5, <1>6, <1>7 DEF Alike
<1>9. QED  BY <1>8 DEF gc

LEMMA StandsSplit ==
  ASSUME NEW q \in Primes, NEW c, Ints(c, 256), NEW g \in Int, NEW off, NEW len, len > 1, NEW root,
         NEW x, Stands(q, c, g, x, off, len, root),
         NEW y, Stands(q, c, g, y, off + len \div 2, len, root),
         NEW z \in Int, (z * z) % q = root,
         NEW u, Alike(q, u, x + z * y), NEW v, Alike(q, v, x - z * y)
  PROVE  /\ Stands(q, c, g, u, off, len \div 2, z)
         /\ Stands(q, c, g, v, off, len \div 2, (-z) % q)
<1> DEFINE h == len \div 2
           n == (-z) % q
           a == Value(c, off, len, root, q)
           b == Value(c, off + h, len, root, q)
           d == Value(c, off, h, z, q)
           e == Value(c, off, h, n, q)
<1>1. /\ h \in Lengths /\ h < 256 /\ len = 2 * h /\ off \in 0..(h - 1)
  <2>1. len \in Lengths /\ off \in 0..(len - 1) /\ off + h \in 0..(len - 1)
    BY Zenon DEF Stands
  <2>2. QED  BY <2>1, SMT DEF Lengths
<1>2. /\ root \in Int /\ Alike(q, x, g * a) /\ Alike(q, y, g * b)
  BY Zenon DEF Stands
<1>3. Alike(q, n, -z) /\ (n * n) % q = (z * z) % q
  BY NegativeResidue
<1>4. n \in Int
  BY <1>3 DEF Alike
<1>5. root % q = root
  <2> DEFINE zz == z * z
  <2>1. zz \in Int /\ zz % q = root
    BY SMT
  <2> HIDE DEF zz
  <2>2. QED  BY <2>1, ResidueTwice
<1> HIDE DEF h, n
<1>6. Combined(q, z, a, b, d)
  <2>1. (z * z) % q = root % q
    BY <1>5
  <2>2. Combined(q, z, Value(c, off, 2 * h, root, q), Value(c, off + h, 2 * h, root, q), Value(c, off, h, z, q))
    BY <1>1, <1>2, <2>1, ValueHalves
  <2>3. QED  BY <1>1, <2>2, Zenon
<1>7. Combined(q, n, a, b, e)
  <2>1. (n * n) % q = root % q
    BY <1>3, <1>5
  <2>2. Combined(q, n, Value(c, off, 2 * h, root, q), Value(c, off + h, 2 * h, root, q), Value(c, off, h, n, q))
    BY <1>1, <1>2, <1>4, <2>1, ValueHalves
  <2>3. QED  BY <1>1, <2>2, Zenon
<1> HIDE DEF a, b, d, e
<1>8. Alike(q, u, g * d)
  BY <1>2, <1>6, SplitSum
<1>9. Alike(q, v, g * e)
  <2> DEFINE m == -z
  <2>1. m \in Int /\ Alike(q, n, m)
    BY <1>3, SMT
  <2>2. m * y = -(z * y) /\ z * y \in Int
    BY <1>2, SMT DEF Alike
  <2>3. x - z * y = x + m * y
    BY <1>2, <2>2 DEF Alike
  <2>4. Alike(q, v, x + m * y)
    BY <2>3
  <2> HIDE DEF m
  <2>5. Combined(q, m, a, b, e)
    BY <1>7, <2>1, CombinedFactor
  <2>6. QED  BY <1>2, <2>1, <2>4, <2>5, SplitSum
<1>10. QED  BY <1>1, <1>4, <1>8, <1>9 DEF Stands, h, n, d, e

\* An inverse butterfly.
LEMMA StandsJoin ==
  ASSUME NEW q \in Primes, NEW c, Ints(c, 256), NEW k \in Int, NEW off, NEW len, len < 256, NEW root,
         NEW x, Stands(q, c, len * k, x, off, len, root),
         NEW y, Stands(q, c, len * k, y, off, len, (-root) % q),
         NEW z \in Int, (z * root) % q = 1,
         NEW u, Alike(q, u, x + y), NEW v, Alike(q, v, (x - y) * z)
  PROVE  /\ Stands(q, c, (2 * len) * k, u, off, 2 * len, (root * root) % q)
         /\ Stands(q, c, (2 * len) * k, v, off + len, 2 * len, (root * root) % q)
<1> DEFINE g == len * k
           h == (2 * len) * k
           two == 2 * len
           n == (-root) % q
           rr == root * root
           r == rr % q
           a == Value(c, off, two, r, q)
           b == Value(c, off + len, two, r, q)
           d == Value(c, off, len, root, q)
           e == Value(c, off, len, n, q)
<1>1. /\ len \in Lengths /\ off \in 0..(len - 1) /\ root \in Int
      /\ Alike(q, x, g * d) /\ Alike(q, y, g * e)
  BY Zenon DEF Stands
<1>2. /\ two \in Lengths /\ off \in 0..(two - 1) /\ off + len \in 0..(two - 1)
  BY <1>1, SMT DEF Lengths
<1>3. g \in Int /\ h \in Int /\ \A t \in Int : 2 * (g * t) = h * t
  <2>1. len \in Int
    BY <1>1, SMT DEF Lengths
  <2>2. g \in Int /\ h = 2 * g
    BY <2>1, SMT
  <2> HIDE DEF g, h
  <2>3. QED  BY <2>2, SMT
<1>4. Alike(q, n, -root) /\ (n * n) % q = rr % q
  BY <1>1, NegativeResidue
<1>5. n \in Int /\ rr \in Int
  BY <1>1, <1>4, SMT DEF Alike
<1> HIDE DEF rr, n
<1>6. r \in Int /\ r % q = rr % q
  BY <1>5, ResidueIn, ResidueTwice
<1> HIDE DEF r, two
<1>7. Combined(q, root, a, b, d)
  <2>1. (root * root) % q = r % q
    BY <1>6 DEF rr
  <2>2. Combined(q, root, Value(c, off, 2 * len, r, q), Value(c, off + len, 2 * len, r, q), Value(c, off, len, root, q))
    BY <1>1, <1>6, <2>1, ValueHalves
  <2>3. QED  BY <2>2, Zenon DEF two
<1>8. Combined(q, n, a, b, e)
  <2>1. (n * n) % q = r % q
    BY <1>4, <1>6
  <2>2. Combined(q, n, Value(c, off, 2 * len, r, q), Value(c, off + len, 2 * len, r, q), Value(c, off, len, n, q))
    BY <1>1, <1>5, <1>6, <2>1, ValueHalves
  <2>3. QED  BY <2>2, Zenon DEF two
<1> HIDE DEF a, b, d, e
<1>9. Combined(q, -root, a, b, e)
  BY <1>4, <1>8, CombinedFactor
<1>10. a \in Int /\ b \in Int
  BY <1>7 DEF Combined
<1> HIDE DEF g, h
<1>11. Alike(q, x + y, 2 * (g * a)) /\ Alike(q, (x - y) * z, 2 * (g * b))
  BY <1>1, <1>3, <1>7, <1>9, <1>10, JoinValues
<1>12. Alike(q, u, h * a) /\ Alike(q, v, h * b)
  <2>1. 2 * (g * a) = h * a /\ 2 * (g * b) = h * b
    BY <1>3, <1>10
  <2>2. QED  BY <1>11, <2>1 DEF Alike
<1>13. Stands(q, c, h, u, off, two, r) /\ Stands(q, c, h, v, off + len, two, r)
  BY <1>2, <1>6, <1>12 DEF Stands, a, b
<1>14. QED  BY <1>13 DEF h, two, r, rr

\* Residues of products and sums, as the passes form them.
LEMMA FactorAlike ==
  ASSUME NEW q \in Primes, NEW x \in Int, NEW y \in Int, Alike(q, x, y), NEW z \in Int
  PROVE  Alike(q, (x * z) % q, y * z) /\ Alike(q, (x * z) % q, z * y)
<1> DEFINE xz == x * z
           yz == y * z
<1>1. xz \in Int /\ yz \in Int /\ z * y = yz
  BY SMT
<1>2. Alike(q, xz, yz)
  BY AlikeProduct
<1> HIDE DEF xz, yz
<1>3. Alike(q, xz % q, xz)
  BY <1>1, AlikeSelf
<1>4. Alike(q, xz % q, yz)
  BY <1>2, <1>3 DEF Alike
<1>5. QED  BY <1>1, <1>4 DEF xz, yz

LEMMA SumAlike ==
  ASSUME NEW q \in Primes, NEW a \in Int, NEW t, NEW u, Alike(q, t, u), NEW x \in Int
  PROVE  /\ x % q = ((a % q) + t) % q => Alike(q, x, a + u)
         /\ x % q = ((a % q) - t) % q => Alike(q, x, a - u)
<1> DEFINE r == a % q
<1>1. Alike(q, r, a) /\ r \in Int /\ t \in Int /\ u \in Int
  BY AlikeSelf, ResidueOf DEF Alike
<1> HIDE DEF r
<1>2. Alike(q, r + t, a + u)
  BY <1>1, AlikeSum
<1>3. Alike(q, r - t, a - u)
  <2>1. Alike(q, (-1) * t, (-1) * u)
    BY AlikeProduct
  <2>2. (-1) * t = -t /\ (-1) * u = -u
    BY <1>1, SMT
  <2>3. Alike(q, r + (-t), a + (-u))
    BY <1>1, <2>1, <2>2, AlikeSum
  <2>4. r + (-t) = r - t /\ a + (-u) = a - u
    BY <1>1, SMT
  <2>5. QED  BY <2>3, <2>4
<1>4. QED  BY <1>2, <1>3 DEF Alike, r

\* An accumulated product, in values.
LEMMA AccumulateAlike ==
  ASSUME NEW q \in Primes, NEW a, NEW s, Alike(q, a, s), NEW x, NEW u, Alike(q, x, u),
         NEW y, NEW v, Alike(q, y, v), NEW t, Alike(q, t, s + u * v)
  PROVE  Alike(q, a + x * y, t)
<1> DEFINE xy == x * y
           uy == u * y
           uv == u * v
<1>1. x \in Int /\ y \in Int /\ u \in Int
  BY DEF Alike
<1>2. Alike(q, xy, uy) /\ Alike(q, uy, uv)
  BY <1>1, AlikeProduct
<1>3. Alike(q, t, s + uv)
  OBVIOUS
<1> HIDE DEF xy, uy, uv
<1>4. Alike(q, xy, uv)
  BY <1>2 DEF Alike
<1>5. Alike(q, a + xy, s + uv)
  BY <1>4, AlikeSum
<1>6. Alike(q, a + xy, t)
  BY <1>3, <1>5 DEF Alike
<1>7. QED  BY <1>6 DEF xy

LEMMA UndoneAlike ==
  ASSUME NEW q \in Primes, NEW h \in Int, NEW e \in Int, (h * e) % q = 1,
         NEW v \in Int, NEW x, Alike(q, x, h * v)
  PROVE  Alike(q, x * e, v)
<1> DEFINE he == h * e
           hv == h * v
           xe == x * e
           m == he * v
<1>1. he \in Int /\ m \in Int /\ hv * e = m
  BY SMT
<1>2. Alike(q, xe, hv * e)
  BY AlikeProduct
<1>3. Alike(q, he, 1)
  <2>1. he % q = 1 % q
    <3>1. 1 % q = 1
      BY SMT DEF Primes
    <3>2. QED  BY <3>1
  <2>2. QED  BY <1>1, <2>1 DEF Alike
<1> HIDE DEF he, xe
<1>4. Alike(q, m, 1 * v)
  BY <1>3, AlikeProduct
<1>5. 1 * v = v
  BY SMT
<1>6. Alike(q, xe, v)
  BY <1>1, <1>2, <1>4, <1>5 DEF Alike
<1>7. QED  BY <1>6 DEF xe
=============================================================================
