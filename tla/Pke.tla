---------------------------------- MODULE Pke ---------------------------------
(***************************************************************************)
(* The public-key encryption scheme of src/src/pke.rs in full arithmetic,  *)
(* over a small ring: degree N for 256, rank L.  The moduli, roundings and *)
(* word width are the code's.  Products are those of the ring of integers  *)
(* modulo X^N + 1, wrapped to 16 bits; module InnerProduct shows that the  *)
(* code's residue arithmetic computes exactly these.                       *)
(*                                                                         *)
(* The key's owner generates and decrypts; a sender encrypts under the     *)
(* public key either as the owner holds it or as read from its bytes; the  *)
(* owner encrypts the decrypted message once more, as decapsulation does.  *)
(***************************************************************************)
EXTENDS Rounding, Sums

CONSTANTS N, L,     \* degree of the ring, rank of the module
          T,        \* bits of a coefficient of the ciphertext's second part
          HalfMu,   \* mu/2
          Matrices, \* the matrices A considered
          Secrets,  \* the secrets s and s' considered
          None      \* "not there yet"

Ranks   == 0..(L - 1)
Degrees == 0..(N - 1)

Elem(S)   == [Degrees -> S]
VectorOver(S) == [Ranks -> Elem(S)]
MatrixOver(S) == [Ranks -> VectorOver(S)]

\* Coefficients of A have 13 bits, those of secrets are at most mu/2 in size.
ASSUME RingAssumption ==
  /\ N \in Nat \ {0} /\ L \in Nat \ {0} /\ T \in Ts /\ HalfMu \in Nat
  /\ \A A \in Matrices : A \in MatrixOver(Bits13)
  /\ \A s \in Secrets : s \in VectorOver((-HalfMu)..HalfMu)
-----------------------------------------------------------------------------
\* Ring and matrix products, as arithmetic/ntt_arith.rs documents them.

\* The coefficient at m of an element multiplied by a power of X: X^N is -1.
Turned(y, m) == IF m >= 0 THEN y[m] ELSE -y[N + m]

RingMul(x, y) ==
  [k \in Degrees |-> SumTo([j \in Degrees |-> x[j] * Turned(y, k - j)], N)]

\* The coefficients at j of the elements of a vector.
At(X, j) == [i \in Ranks |-> X[i][j]]

\* The inner product of two vectors, before and after it is wrapped.
RankProducts(x, y) == [i \in Ranks |-> RingMul(x[i], y[i])]

Whole(x, y) ==
  LET terms == RankProducts(x, y)
  IN  [k \in Degrees |-> SumTo(At(terms, k), L)]

Inner(x, y) ==
  LET whole == Whole(x, y)
  IN  [k \in Degrees |-> U16(whole[k])]

MatMul(A, s) == [i \in Ranks |-> Inner(A[i], s)]

\* Mutant of MatMulTranspose: the matrix is not transposed.
MatMulPlain(A, s) == MatMul(A, s)

MatMulTranspose(A, s) == [j \in Ranks |-> Inner([i \in Ranks |-> A[i][j]], s)]

CompressVector(v) == [i \in Ranks |-> [k \in Degrees |-> Compress(v[i][k])]]

\* Buffers, a coefficient per cell: element i of a vector takes the i-th chunk.
\* (How a cell's bits lie in bytes is the subject of modules Pack and Unpack.)
ChunkLen == N
Serialize10(v) ==
  [p \in 0..(L * ChunkLen - 1) |-> Pack10(v[p \div ChunkLen][p % ChunkLen])]

Deserialize10(cells) == [i \in Ranks |-> [k \in Degrees |-> cells[i * ChunkLen + k]]]
-----------------------------------------------------------------------------
\* expand_secret_key, from the polynomials its XOFs yield.
ExpandSecretKey(A, s) ==
  LET b == CompressVector(MatMulTranspose(A, s))
  IN  [s |-> s, pk |-> [A |-> A, vec |-> b, bytes |-> Serialize10(b)]]

\* PkePublicKey::from_bytes of PkePublicKey::serialize.
FromBytes(pk) == [A |-> pk.A, vec |-> Deserialize10(pk.bytes), bytes |-> pk.bytes]

\* A ciphertext is split where its 10-bit cells end and its T-bit ones start.
Split == L * ChunkLen
CiphertextLen == Split + N

\* encrypt_deterministic, from the secret its randomness yields.
EncryptDeterministic(pk, msg, sprime) ==
  LET vprime == Inner(pk.vec, sprime)
      bprime == Serialize10(CompressVector(MatMul(pk.A, sprime)))
  IN  [p \in 0..(CiphertextLen - 1) |->
         IF p < Split THEN bprime[p] ELSE EncodeCoeff(T, vprime[p - Split], msg[p - Split])]

\* decrypt
DecryptWith(s, ciphertext) ==
  LET v == Inner(Deserialize10(ciphertext), s)
  IN  [k \in Degrees |-> DecodeCoeff(T, v[k], ciphertext[Split + k])]
-----------------------------------------------------------------------------
VARIABLES key,       \* the owner's secret and public key
          imported,  \* the public key as read from its bytes
          sent,      \* the message and secret of the encryption, history
          ct,        \* the ciphertext
          plain,     \* what decryption returned
          again      \* the re-encryption of it

vars == <<key, imported, sent, ct, plain, again>>

Init ==
  /\ key = None /\ imported = None
  /\ sent = None /\ ct = None
  /\ plain = None /\ again = None

Generate ==
  /\ key = None
  /\ \E A \in Matrices, s \in Secrets : key' = ExpandSecretKey(A, s)
  /\ UNCHANGED <<imported, sent, ct, plain, again>>

Import ==
  /\ key # None /\ imported = None
  /\ imported' = FromBytes(key.pk)
  /\ UNCHANGED <<key, sent, ct, plain, again>>

\* The owner hands out clones of its public key, and its bytes.
PublicKeys == (IF key = None THEN {} ELSE {key.pk}) \cup ({imported} \ {None})

Encrypt ==
  /\ ct = None
  /\ \E pk \in PublicKeys, msg \in Elem({0, 1}), sprime \in Secrets :
       /\ sent' = [msg |-> msg, sprime |-> sprime]
       /\ ct' = EncryptDeterministic(pk, msg, sprime)
  /\ UNCHANGED <<key, imported, plain, again>>

Decrypt ==
  /\ ct # None /\ plain = None
  /\ plain' = DecryptWith(key.s, ct)
  /\ UNCHANGED <<key, imported, sent, ct, again>>

\* Decapsulation encrypts under the owner's public key, with coins hashed from
\* the message: the sender's coins if it is the sender's message.
Reencrypt ==
  /\ plain # None /\ again = None
  /\ \E sprime \in Secrets :
       /\ plain = sent.msg => sprime = sent.sprime
       /\ again' = EncryptDeterministic(key.pk, plain, sprime)
  /\ UNCHANGED <<key, imported, sent, ct, plain>>

Next == Generate \/ Import \/ Encrypt \/ Decrypt \/ Reencrypt

Spec == Init /\ [][Next]_vars
-----------------------------------------------------------------------------
CellRange(p) == IF p < Split THEN Bits10 ELSE 0..(Levels(T) - 1)

TypeOK ==
  /\ key # None => key.pk.vec \in VectorOver(Bits13) /\ key.pk.bytes \in [0..(Split - 1) -> Bits10]
  /\ imported # None => imported.vec \in VectorOver(Bits10)
  /\ ct # None =>
       /\ DOMAIN ct = 0..(CiphertextLen - 1)
       /\ \A p \in DOMAIN ct : ct[p] \in CellRange(p)
  /\ plain # None => plain \in Elem({0, 1})

\* The number from -3 to 4 that brings x to a multiple of 8: what a rounding adds.
Rest(x)  == 4 - ((x + 4) % 8)
Rests(v) == [i \in Ranks |-> [j \in Degrees |-> Rest(v[i][j])]]

\* The noise of an execution: eight times what the roundings of b' = A s' and of
\* b = A^T s make of the two parties' inner products, which would else be equal.
Noise ==
  LET owner  == Whole(Rests(MatMul(key.pk.A, sent.sprime)), key.s)
      sender == Whole(Rests(MatMulTranspose(key.pk.A, key.s)), sent.sprime)
  IN  [k \in Degrees |-> owner[k] - sender[k]]

\* It is within what a bit's encoding leaves room for.  With the code's
\* parameters the worst noise is not: that it is, is overwhelmingly likely.
Tolerable ==
  LET noise == Noise
      room  == 8 * Margin(T)
  IN  \A k \in Degrees : noise[k] \in (-room)..room

\* Decryption returns the encrypted message (pke.rs:185-213) in every execution
\* whose noise is tolerable.
Decrypts == plain # None /\ Tolerable => plain = sent.msg

\* When the message was recovered, the re-encryption that decapsulation compares
\* is the received ciphertext, whichever form of the public key its sender held
\* (kem.rs:161-176).
Reencrypts == again # None /\ plain = sent.msg => again = ct

\* Eight times the difference of two inner products is the noise, modulo 2^13,
\* and no coefficient of the noise is beyond the worst the roundings can make.
Worst == 8 * (L * (N * HalfMu))
Explained(v, vprime, noise) == \A k \in Degrees :
  /\ (8 * (v[k] - vprime[k]) - noise[k]) % 8192 = 0
  /\ noise[k] \in (-Worst)..Worst

\* The two parties' inner products differ, modulo 2^10, by exactly the noise, and
\* the noise by no more than l*N*mu/2 from zero: the roundings are unbiased, and
\* the matrix is transposed on one side and not on the other (pke.rs:156-163,
\* 226-236).
NoiseBound == ct # None =>
  Explained(Inner(Deserialize10(ct), key.s), Inner(key.pk.vec, sent.sprime), Noise)
-----------------------------------------------------------------------------
\* The inductive invariant.  Whichever form of the public key a sender holds,
\* its ciphertext is the one the owner's form gives.
KeyIs == key # None =>
  key.pk.A \in Matrices /\ key.s \in Secrets /\ key = ExpandSecretKey(key.pk.A, key.s)

ImportedIs == imported # None => key # None /\ imported = FromBytes(key.pk)

CtIs == ct # None =>
  /\ key # None
  /\ sent.msg \in Elem({0, 1}) /\ sent.sprime \in Secrets
  /\ ct = EncryptDeterministic(key.pk, sent.msg, sent.sprime)

PlainIs == plain # None => ct # None /\ plain = DecryptWith(key.s, ct)

AgainIs == again # None => plain # None /\ (plain = sent.msg => again = ct)

IInv == KeyIs /\ ImportedIs /\ CtIs /\ PlainIs /\ AgainIs
=============================================================================
