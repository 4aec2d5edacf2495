---------------------------------- MODULE Sums ---------------------------------
(***************************************************************************)
(* Sums of finite sequences of numbers, as recursive functions, and the    *)
(* polynomials modulo X^256 + 1 and a prime q that are written with them.  *)
(***************************************************************************)
EXTENDS Integers

\* The sum of the first n values of f.
SumTo(f, n) ==
  LET upTo[j \in 0..n] == IF j = 0 THEN 0 ELSE upTo[j - 1] + f[j - 1]
  IN  upTo[n]

\* The sum of the first 256 values of f modulo q, as a balanced tree whose leaves
\* are the nodes 256 to 511.
Total(f, q) ==
  LET s[n \in 1..511] == IF n > 255 THEN f[n - 256] ELSE (s[2 * n] + s[2 * n + 1]) % q
  IN  s[1]

\* w is the table of the powers of a root of X^256 + 1 modulo q.
IsRoot(w, q) ==
  /\ w \in [0..255 -> 0..(q - 1)]
  /\ w[0] = 1
  /\ \A j \in 0..254 : w[j + 1] = (w[1] * w[j]) % q
  /\ (w[1] * w[255]) % q = q - 1

\* The value of polynomial a at a root with powers w.
ValueAt(a, w, q) == Total([j \in 0..255 |-> a[j] * w[j]], q)

\* Coefficient k of the product of a and b.
Folded(b, m) == IF m >= 0 THEN b[m] ELSE -b[256 + m]
Negacyclic(a, b, k, q) == Total([j \in 0..255 |-> a[j] * Folded(b, k - j)], q)

\* Coefficient k of the sum of the products of the first n pairs.
NegacyclicSum(a, b, n, k, q) ==
  SumTo([r \in 0..(n - 1) |-> Negacyclic(a[r + 1], b[r + 1], k, q)], n)
=============================================================================
