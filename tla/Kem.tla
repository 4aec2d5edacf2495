--------------------------------- MODULE Kem ----------------------------------
(***************************************************************************)
(* The life of Kopis keys, ciphertexts and shared secrets: key generation, *)
(* the 32-byte seed as the stored form of a secret key, public keys that   *)
(* travel as bytes, encapsulation, and decapsulation by re-encryption with *)
(* implicit rejection.  src/src/kem.rs, the public API in src/src/impls.rs *)
(* and the byte-level view of src/src/pke.rs.                              *)
(*                                                                         *)
(* Hashes are free constructors (a tuple headed by the domain separator of *)
(* src/src/consts.rs).  Polynomials keep what the protocol can tell apart. *)
(* The public vector b is [A, s, transit]: "altered" in transit means in   *)
(* low bits that the rounding to T bits swallows, the worst case, since    *)
(* encryption then cannot see it.  Its NTT form has a coefficient width: a *)
(* generated key keeps 13-bit coefficients, an imported one 10-bit.        *)
(*                                                                         *)
(* The wire holds sets: a message on it may be read late, twice, out of    *)
(* order, by the wrong holder, or never.                                   *)
(***************************************************************************)
EXTENDS Naturals, FiniteSets

CONSTANTS
  Holders,     \* processes that own a secret key
  Senders,     \* processes that encapsulate
  Seeds,       \* 32-byte secret-key seeds
  Randomness,  \* 32-byte encapsulation randomness, the PKE messages
  Unlucky,     \* messages whose noise makes decryption fail
  Junk,        \* a message no sender ever picked
  NoKey,       \* "no key in memory"
  MaxEncaps,   \* bound: ciphertexts made
  MaxDecaps    \* bound: distinct decapsulation answers

ASSUME UnluckyAssumption == Unlucky \subseteq Randomness
ASSUME JunkAssumption    == Junk \notin Randomness
ASSUME NoKeyAssumption   == NoKey \notin Seeds

VARIABLES
  sk,      \* KemSecretKey in each holder's memory, or NoKey
  disk,    \* the seed each holder has stored, or NoKey
  pk,      \* KemPublicKey in each sender's memory, or NoKey
  keys,    \* public keys on the wire, as bytes
  cts,     \* ciphertexts on the wire
  encaps,  \* history: what each encapsulation returned
  decaps   \* history: what each decapsulation returned

vars == <<sk, disk, pk, keys, cts, encaps, decaps>>

-----------------------------------------------------------------------------
\* Hashes and the public-key encryption scheme

Intact  == "intact"
Altered == "altered"

KgExpand(seed) == [mat |-> <<"GENMAT", seed>>, sec |-> <<"GENSEC", seed>>, z |-> <<"Z", seed>>]

FO(randomness, pkh) == [k |-> <<"FO_K", randomness, pkh>>, r |-> <<"FO_R", randomness, pkh>>]

\* Mutant of RejectVal: the ciphertext is not hashed.
RejectValWithoutCt(z, ct) == <<"NOREJECT", z>>

RejectVal(z, ct) == <<"NOREJECT", z, ct>>

\* PkePublicKey::serialize: the packed vector and the matrix seed.
Serialize(pke) == [vec |-> pke.vec_bytes, mat |-> pke.matrix_seed]

\* Mutants of Hash: over the in-memory form of the key; without the vector.
HashOfNttForm(pke) == <<"PKHASH", Serialize(pke), pke.vec_ntt>>
HashWithoutVector(pke) == <<"PKHASH", pke.matrix_seed>>

Hash(pke) == <<"PKHASH", Serialize(pke)>>

\* gen_matrix_from_seed and the transform: a matrix goes by the name of its seed.
MatrixOf(seed) == seed

\* PkePublicKey::from_bytes: the vector's NTT form has 10-bit coefficients.
PkeFromBytes(bytes) ==
  [matrix_seed |-> bytes.mat, mat_a_ntt |-> MatrixOf(bytes.mat),
   vec_ntt |-> [b |-> bytes.vec, width |-> 10], vec_bytes |-> bytes.vec]

\* expand_secret_key: the vector's NTT form is made from the 13-bit b.
ExpandSecretKey(seed) ==
  LET x == KgExpand(seed)
      a == MatrixOf(x.mat)
      b == [A |-> a, s |-> x.sec, transit |-> Intact]
      p == [matrix_seed |-> x.mat, mat_a_ntt |-> a,
            vec_ntt |-> [b |-> b, width |-> 13], vec_bytes |-> b]
  IN  [sec |-> x.sec, z |-> x.z, pk |-> p, pkh |-> Hash(p)]

\* The ciphertext depends on A, on b up to the bits rounding swallows, on the
\* message and on the coins; not on bits of vec_ntt above the tenth.
EncryptDeterministic(pke, msg, r) ==
  [A |-> pke.mat_a_ntt, b |-> <<pke.vec_ntt.b.A, pke.vec_ntt.b.s>>,
   msg |-> msg, r |-> r, transit |-> Intact]

\* The messages decryption may return: the encrypted one when the key matches
\* and the noise is small, an arbitrary one otherwise.
Decrypt(sec, ct) ==
  IF /\ ct.transit = Intact
     /\ ct.b = <<ct.A, sec>>
  THEN IF ct.msg \in Unlucky THEN (Randomness \union {Junk}) \ {ct.msg} ELSE {ct.msg}
  ELSE Randomness \union {Junk}

-----------------------------------------------------------------------------
\* KEM operations

ExpandFromSeed(seed) ==
  LET e == ExpandSecretKey(seed)
  IN  [seed |-> seed, z |-> e.z, pke_sk |-> e.sec,
       kem_pk |-> [pke_pk |-> e.pk, hash_pke_pk |-> e.pkh]]

FromBytesInner(bytes) ==
  LET p == PkeFromBytes(bytes) IN [pke_pk |-> p, hash_pke_pk |-> Hash(p)]

EncapDeterministic(randomness, kem_pk) ==
  LET kr == FO(randomness, kem_pk.hash_pke_pk)
  IN  [ct |-> EncryptDeterministic(kem_pk.pke_pk, randomness, kr.r), ss |-> kr.k]

\* Mutants of DecapWith: the re-encrypted ciphertext is not compared; only its
\* message-independent half is.
DecapWithoutComparison(key, ct, randomness) == FO(randomness, key.kem_pk.hash_pke_pk).k

DecapComparingHalf(key, ct, randomness) ==
  LET kr == FO(randomness, key.kem_pk.hash_pke_pk)
      reconstructed == EncryptDeterministic(key.kem_pk.pke_pk, randomness, kr.r)
  IN  IF reconstructed.A = ct.A THEN kr.k ELSE RejectVal(key.z, ct)

\* decap, once the ciphertext has decrypted to randomness.
DecapWith(key, ct, randomness) ==
  LET kr == FO(randomness, key.kem_pk.hash_pke_pk)
      reconstructed == EncryptDeterministic(key.kem_pk.pke_pk, randomness, kr.r)
  IN  IF reconstructed = ct THEN kr.k ELSE RejectVal(key.z, ct)

\* What transit may do: alter key bits that encryption rounds away, or any part
\* of a ciphertext.
MauledKey(bytes) ==
  [vec |-> [A |-> bytes.vec.A, s |-> bytes.vec.s, transit |-> Altered], mat |-> bytes.mat]
MauledCt(ct) == [A |-> ct.A, b |-> ct.b, msg |-> ct.msg, r |-> ct.r, transit |-> Altered]

PublicBytes(key) == Serialize(key.kem_pk.pke_pk)

-----------------------------------------------------------------------------
Init ==
  /\ sk   = [h \in Holders |-> NoKey]
  /\ disk = [h \in Holders |-> NoKey]
  /\ pk   = [s \in Senders |-> NoKey]
  /\ keys = {} /\ cts = {} /\ encaps = {} /\ decaps = {}

\* generate_from_rng; the fresh key replaces (drops) the one in memory.
Generate(h) ==
  \E seed \in Seeds :
    /\ sk' = [sk EXCEPT ![h] = ExpandFromSeed(seed)]
    /\ UNCHANGED <<disk, pk, keys, cts, encaps, decaps>>

\* as_bytes, stored by the application.
SaveSeed(h) ==
  /\ sk[h] # NoKey
  /\ disk' = [disk EXCEPT ![h] = sk[h].seed]
  /\ UNCHANGED <<sk, pk, keys, cts, encaps, decaps>>

\* The key is dropped, or its process dies.
Crash(h) ==
  /\ sk[h] # NoKey
  /\ sk' = [sk EXCEPT ![h] = NoKey]
  /\ UNCHANGED <<disk, pk, keys, cts, encaps, decaps>>

\* Mutant of Restore: z is not part of the expansion and comes back as another.
RestoreWithoutZ(h) ==
  /\ disk[h] # NoKey
  /\ sk' = [sk EXCEPT ![h] = [ExpandFromSeed(disk[h]) EXCEPT !.z = <<"Z", NoKey>>]]
  /\ UNCHANGED <<disk, pk, keys, cts, encaps, decaps>>

\* From<&[u8; 32]> on the stored seed.
Restore(h) ==
  /\ disk[h] # NoKey
  /\ sk' = [sk EXCEPT ![h] = ExpandFromSeed(disk[h])]
  /\ UNCHANGED <<disk, pk, keys, cts, encaps, decaps>>

\* public_key().to_bytes()
Publish(h) ==
  /\ sk[h] # NoKey
  /\ keys' = keys \union {PublicBytes(sk[h])}
  /\ UNCHANGED <<sk, disk, pk, cts, encaps, decaps>>

\* A key is altered in transit.
MaulKey ==
  \E bytes \in keys :
    /\ keys' = keys \union {MauledKey(bytes)}
    /\ UNCHANGED <<sk, disk, pk, cts, encaps, decaps>>

\* from_bytes
Import(s) ==
  \E bytes \in keys :
    /\ pk' = [pk EXCEPT ![s] = FromBytesInner(bytes)]
    /\ UNCHANGED <<sk, disk, keys, cts, encaps, decaps>>

\* public_key().clone(), within one process.
CloneKey(h, s) ==
  /\ sk[h] # NoKey
  /\ pk' = [pk EXCEPT ![s] = sk[h].kem_pk]
  /\ UNCHANGED <<sk, disk, keys, cts, encaps, decaps>>

\* encapsulate_with_rng and encapsulate_deterministic, whose randomness may
\* repeat.
Encapsulate(s) ==
  /\ pk[s] # NoKey
  /\ \E randomness \in Randomness :
       LET out == EncapDeterministic(randomness, pk[s]) IN
       /\ cts' = cts \union {out.ct}
       /\ encaps' = encaps \union
            {[key |-> Serialize(pk[s].pke_pk), randomness |-> randomness,
              ct |-> out.ct, ss |-> out.ss]}
  /\ Cardinality(encaps') <= MaxEncaps
  /\ UNCHANGED <<sk, disk, pk, keys, decaps>>

\* A ciphertext is altered in transit.
MaulCiphertext ==
  \E ct \in cts :
    /\ cts' = cts \union {MauledCt(ct)}
    /\ UNCHANGED <<sk, disk, pk, keys, encaps, decaps>>

\* decapsulate
Decapsulate(h) ==
  /\ sk[h] # NoKey
  /\ \E ct \in cts : \E randomness \in Decrypt(sk[h].pke_sk, ct) :
       decaps' = decaps \union
         {[seed |-> sk[h].seed, key |-> PublicBytes(sk[h]), ct |-> ct,
           ss |-> DecapWith(sk[h], ct, randomness)]}
  /\ Cardinality(decaps') <= MaxDecaps
  /\ UNCHANGED <<sk, disk, pk, keys, cts, encaps>>

Next ==
  \/ \E h \in Holders :
       Generate(h) \/ SaveSeed(h) \/ Crash(h) \/ Restore(h) \/ Publish(h) \/ Decapsulate(h)
  \/ \E s \in Senders : Import(s) \/ Encapsulate(s)
  \/ \E h \in Holders, s \in Senders : CloneKey(h, s)
  \/ MaulKey \/ MaulCiphertext

Spec == Init /\ [][Next]_vars

-----------------------------------------------------------------------------
\* Type invariant: keys in memory are the expansion of a seed or the import of
\* the bytes of one (kem.rs:19-98), and the wire carries only what they made.
KeyBytes ==
  UNION {{PublicBytes(ExpandFromSeed(s)),
          MauledKey(PublicBytes(ExpandFromSeed(s)))} : s \in Seeds}

PublicKeys ==
  {ExpandFromSeed(s).kem_pk : s \in Seeds} \union {FromBytesInner(b) : b \in KeyBytes}

TypeOK ==
  /\ sk \in [Holders -> {ExpandFromSeed(s) : s \in Seeds} \union {NoKey}]
  /\ disk \in [Holders -> Seeds \union {NoKey}]
  /\ pk \in [Senders -> PublicKeys \union {NoKey}]
  /\ keys \subseteq KeyBytes
  /\ \A e \in encaps : e.key \in KeyBytes /\ e.randomness \in Randomness
  /\ \A d \in decaps : d.seed \in Seeds /\ d.ct \in cts

\* Whatever happened in between (restarts from the stored seed, keys cloned or
\* imported, ciphertexts late or duplicated), a holder that decapsulates a
\* ciphertext made for its key, and that decrypts, gets the sender's secret
\* (kem.rs:147-186 against kem.rs:115-142).
Agreement ==
  \A e \in encaps, d \in decaps :
    e.key = d.key /\ e.ct = d.ct /\ e.randomness \notin Unlucky => e.ss = d.ss

\* A ciphertext that was mauled, made for another key, made for a mauled copy of
\* the key, or that fails to decrypt, yields a secret no encapsulation ever
\* returned (kem.rs:180-185; the test at kem.rs:211).
ImplicitRejection ==
  \A d \in decaps :
    (~ \E e \in encaps : e.key = d.key /\ e.ct = d.ct /\ e.randomness \notin Unlucky)
      => \A e \in encaps : e.ss # d.ss

\* A secret belongs to one ciphertext under one public key: two operations, of
\* either end, that returned the same secret worked on the same ciphertext and
\* the same public-key bytes (the key hash in kem.rs:130-133, the ciphertext in
\* the rejection value, kem.rs:180).
Binding ==
  \A a, b \in encaps \union decaps :
    a.ss = b.ss => a.key = b.key /\ a.ct = b.ct

\* Decapsulation is a function of the seed and the ciphertext: asking again,
\* before or after a restart, returns the same secret, the rejection value
\* included (kem.rs:82-95: z is part of the expansion of the seed).
StableAnswers ==
  \A a, b \in decaps : a.seed = b.seed /\ a.ct = b.ct => a.ss = b.ss

\* The inductive invariant behind these: every encapsulation is the honest one
\* for its key bytes whichever form of the key made it, every ciphertext on the
\* wire is one of those or a mauled copy, and every answer is the one the seed
\* and the ciphertext determine.
HonestEncap(randomness, bytes) == EncapDeterministic(randomness, FromBytesInner(bytes))

Answer(seed, ct) ==
  LET key == ExpandFromSeed(seed)
      honest == EncapDeterministic(ct.msg, key.kem_pk)
  IN  IF honest.ct = ct /\ ct.msg \notin Unlucky THEN honest.ss ELSE RejectVal(key.z, ct)

EncapsHonest ==
  \A e \in encaps :
    e = [key |-> e.key, randomness |-> e.randomness,
         ct |-> HonestEncap(e.randomness, e.key).ct,
         ss |-> HonestEncap(e.randomness, e.key).ss]

WireHonest ==
  \A c \in cts : \E e \in encaps : c = e.ct \/ c = MauledCt(e.ct)

DecapsAnswer ==
  \A d \in decaps :
    d = [seed |-> d.seed, key |-> PublicBytes(ExpandFromSeed(d.seed)),
         ct |-> d.ct, ss |-> Answer(d.seed, d.ct)]

IInv == TypeOK /\ EncapsHonest /\ WireHonest /\ DecapsAnswer

\* The two ends together implement the ideal KEM: an encapsulation issues its
\* secret, a decapsulation answers, and everything else is invisible.
IssuedOf(e)   == [key |-> e.key, ct |-> e.ct, ss |-> e.ss, ok |-> e.randomness \notin Unlucky]
AnsweredOf(d) == [key |-> d.key, ct |-> d.ct, ss |-> d.ss]

Ideal == INSTANCE IdealKem WITH
  issued   <- {IssuedOf(e) : e \in encaps},
  answered <- {AnsweredOf(d) : d \in decaps}

ImplementsIdeal == Ideal!Spec
=============================================================================
