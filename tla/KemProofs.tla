------------------------------ MODULE KemProofs -------------------------------
(***************************************************************************)
(* Proofs about module Kem, for any number of holders, senders, seeds and  *)
(* messages.  First what the free constructors give (a hash determines its *)
(* input), then what each KEM operation returns, then the inductive        *)
(* invariant IInv and the properties and the refinement it implies.        *)
(***************************************************************************)
EXTENDS Kem, TLAPS

\* A hash output determines what was hashed, and the domain separators keep an
\* accepted secret apart from a rejection value (consts.rs:1-6).
LEMMA HashesInjective ==
  ASSUME NEW m, NEW n, NEW p, NEW q, NEW y, NEW z, NEW c, NEW d
  PROVE  /\ FO(m, p).k = FO(n, q).k => m = n /\ p = q
         /\ FO(m, p).r = FO(n, q).r => m = n /\ p = q
         /\ RejectVal(y, c) = RejectVal(z, d) => y = z /\ c = d
         /\ FO(m, p).k # RejectVal(y, c)
  BY DEF FO, RejectVal

\* Two seeds never expand to the same public bytes, nor to the same z.
LEMMA SeedsInjective ==
  ASSUME NEW s, NEW t
  PROVE  /\ PublicBytes(ExpandFromSeed(s)) = PublicBytes(ExpandFromSeed(t)) => s = t
         /\ ExpandFromSeed(s).z = ExpandFromSeed(t).z => s = t
  BY DEF PublicBytes, Serialize, ExpandFromSeed, ExpandSecretKey, KgExpand

\* A key on the wire: the bytes of seed s, altered in transit or not.
WireVec(s, l) == [A |-> <<"GENMAT", s>>, s |-> <<"GENSEC", s>>, transit |-> l]
WireKey(s, l) == [vec |-> WireVec(s, l), mat |-> <<"GENMAT", s>>]

\* A key in memory: generated (width 13) or imported (width 10) from those bytes.
KeyOf(s, l, width) ==
  [pke_pk |-> [matrix_seed |-> <<"GENMAT", s>>, mat_a_ntt |-> <<"GENMAT", s>>,
               vec_ntt |-> [b |-> WireVec(s, l), width |-> width],
               vec_bytes |-> WireVec(s, l)],
   hash_pke_pk |-> <<"PKHASH", WireKey(s, l)>>]

\* What the expansion of a seed holds.
LEMMA ExpandedKey ==
  ASSUME NEW s
  PROVE  ExpandFromSeed(s) =
           [seed |-> s, z |-> <<"Z", s>>, pke_sk |-> <<"GENSEC", s>>,
            kem_pk |-> KeyOf(s, Intact, 13)]
  BY DEF Serialize, Hash, ExpandFromSeed, ExpandSecretKey, MatrixOf, KgExpand, KeyOf, WireKey, WireVec

\* A key serialises to the bytes it stands for.
LEMMA KeyOfBytes ==
  ASSUME NEW s, NEW l, NEW h
  PROVE  Serialize(KeyOf(s, l, h).pke_pk) = WireKey(s, l)
  BY DEF Serialize, KeyOf, WireKey

\* An expanded key serialises to the intact bytes of its seed.
LEMMA ExpandedBytes ==
  ASSUME NEW s
  PROVE  PublicBytes(ExpandFromSeed(s)) = WireKey(s, Intact)
  BY ExpandedKey, KeyOfBytes DEF PublicBytes

\* The keys that can be on the wire.
LEMMA KeyBytesShape ==
  ASSUME NEW b
  PROVE  b \in KeyBytes <=> \E s \in Seeds, l \in {Intact, Altered} : b = WireKey(s, l)
<1>1. ASSUME NEW s
      PROVE  MauledKey(WireKey(s, Intact)) = WireKey(s, Altered)
  BY DEF MauledKey, WireKey, WireVec
<1>2. b \in KeyBytes <=> \E s \in Seeds : b \in {WireKey(s, Intact), WireKey(s, Altered)}
  BY <1>1, ExpandedBytes, Zenon DEF KeyBytes
<1>3. QED
  BY <1>2

\* What importing a key from its bytes gives.
LEMMA ImportedKey ==
  ASSUME NEW s, NEW l
  PROVE  FromBytesInner(WireKey(s, l)) = KeyOf(s, l, 10)
  BY DEF FromBytesInner, PkeFromBytes, MatrixOf, Serialize, Hash, KeyOf, WireKey

\* The ciphertext and the secret of message m under the key WireKey(s, l).
CtOf(m, s, l) ==
  [A |-> <<"GENMAT", s>>, b |-> << <<"GENMAT", s>>, <<"GENSEC", s>> >>, msg |-> m,
   r |-> <<"FO_R", m, <<"PKHASH", WireKey(s, l)>> >>, transit |-> Intact]

SsOf(m, s, l) == <<"FO_K", m, <<"PKHASH", WireKey(s, l)>> >>

\* A ciphertext determines its message and its key; a mauled one is never honest.
LEMMA CiphertextsInjective ==
  ASSUME NEW m, NEW n, NEW s, NEW t, NEW l, NEW k
  PROVE  /\ CtOf(m, s, l) = CtOf(n, t, k) => m = n /\ s = t /\ l = k
         /\ SsOf(m, s, l) = SsOf(n, t, k) => m = n /\ s = t /\ l = k
         /\ MauledCt(CtOf(m, s, l)) # CtOf(n, t, k)
  BY DEF CtOf, SsOf, WireKey, WireVec, MauledCt, Intact, Altered

\* A generated key and the same key imported from its bytes encapsulate alike
\* (kem.rs:115-142 on either form of vec_ntt).
LEMMA FormsEncapsulateAlike ==
  ASSUME NEW m, NEW s, NEW l, NEW h
  PROVE  EncapDeterministic(m, KeyOf(s, l, h)) = [ct |-> CtOf(m, s, l), ss |-> SsOf(m, s, l)]
  BY DEF EncapDeterministic, EncryptDeterministic, FO, CtOf, SsOf, KeyOf, WireVec

\* What an honest encapsulation under given key bytes returns.
LEMMA HonestEncapIs ==
  ASSUME NEW m, NEW s, NEW l
  PROVE  HonestEncap(m, WireKey(s, l)) = [ct |-> CtOf(m, s, l), ss |-> SsOf(m, s, l)]
  BY ImportedKey, FormsEncapsulateAlike DEF HonestEncap

\* The keys a sender can hold.
LEMMA SenderKeys ==
  ASSUME NEW key \in PublicKeys
  PROVE  \E s \in Seeds, l \in {Intact, Altered}, h \in {10, 13} : key = KeyOf(s, l, h)
<1>1. CASE \E s \in Seeds : key = ExpandFromSeed(s).kem_pk
  BY <1>1, ExpandedKey
<1>2. CASE \E b \in KeyBytes : key = FromBytesInner(b)
  <2>1. PICK b \in KeyBytes : key = FromBytesInner(b)
    BY <1>2
  <2>2. PICK s \in Seeds, l \in {Intact, Altered} : b = WireKey(s, l)
    BY KeyBytesShape
  <2>3. key = KeyOf(s, l, 10)
    BY <2>1, <2>2, ImportedKey
  <2>4. QED
    BY <2>3
<1>3. QED
  BY <1>1, <1>2 DEF PublicKeys

\* What is on the wire: the ciphertext of message m under WireKey(t, l), or a
\* mauled copy of it.
WireCt(c, m, t, l) == c = CtOf(m, t, l) \/ c = MauledCt(CtOf(m, t, l))

\* The canonical answer to a ciphertext on the wire.
LEMMA AnswerIs ==
  ASSUME NEW s, NEW m, NEW t, NEW l, NEW c, WireCt(c, m, t, l)
  PROVE  Answer(s, c) = IF c = CtOf(m, s, Intact) /\ m \notin Unlucky
                        THEN SsOf(m, s, Intact) ELSE RejectVal(<<"Z", s>>, c)
<1>1. c.msg = m
  BY DEF WireCt, CtOf, MauledCt
<1>2. EncapDeterministic(m, ExpandFromSeed(s).kem_pk)
        = [ct |-> CtOf(m, s, Intact), ss |-> SsOf(m, s, Intact)]
  BY ExpandedKey, FormsEncapsulateAlike
<1>3. ExpandFromSeed(s).z = <<"Z", s>>
  BY ExpandedKey
<1>4. Answer(s, c) = IF EncapDeterministic(m, ExpandFromSeed(s).kem_pk).ct = c /\ m \notin Unlucky
                     THEN EncapDeterministic(m, ExpandFromSeed(s).kem_pk).ss
                     ELSE RejectVal(ExpandFromSeed(s).z, c)
  BY <1>1 DEF Answer
<1>5. QED
  BY <1>2, <1>3, <1>4

\* Decapsulation returns the canonical answer whatever a failed decryption
\* produced (kem.rs:147-186).
LEMMA DecapIsAnswer ==
  ASSUME NEW s, NEW m, NEW t, NEW l, NEW c, WireCt(c, m, t, l),
         NEW got \in Decrypt(<<"GENSEC", s>>, c)
  PROVE  DecapWith(ExpandFromSeed(s), c, got) = Answer(s, c)
<1> DEFINE key == ExpandFromSeed(s)
<1>0. EncapDeterministic(got, key.kem_pk) = [ct |-> CtOf(got, s, Intact), ss |-> SsOf(got, s, Intact)]
  BY ExpandedKey, FormsEncapsulateAlike
<1>1. DecapWith(key, c, got) =
        IF CtOf(got, s, Intact) = c THEN SsOf(got, s, Intact) ELSE RejectVal(<<"Z", s>>, c)
  <2>1. key.z = <<"Z", s>>
    BY ExpandedKey
  <2>2. DecapWith(key, c, got) =
          IF EncapDeterministic(got, key.kem_pk).ct = c
          THEN EncapDeterministic(got, key.kem_pk).ss ELSE RejectVal(key.z, c)
    BY DEF DecapWith, EncapDeterministic
  <2>3. QED
    BY <1>0, <2>1, <2>2
<1>2. CASE CtOf(got, s, Intact) = c
  <2>1. c = CtOf(m, t, l) /\ got = m /\ s = t /\ l = Intact
    <3>1. c # MauledCt(CtOf(m, t, l))
      BY <1>2, CiphertextsInjective
    <3>2. c = CtOf(m, t, l)
      BY <3>1 DEF WireCt
    <3>3. QED
      BY <1>2, <3>2, CiphertextsInjective
  <2>2. got \notin Unlucky
    BY <2>1 DEF Decrypt, CtOf
  <2>3. QED
    BY <1>1, <2>1, <2>2, AnswerIs
<1>3. CASE CtOf(got, s, Intact) # c
  <2>1. CASE c = CtOf(m, s, Intact) /\ m \notin Unlucky
    <3>1. got = m
      BY <2>1 DEF Decrypt, CtOf
    <3>2. QED
      BY <1>3, <2>1, <3>1
  <2>2. QED
    BY <1>1, <1>3, <2>1, AnswerIs
<1>4. QED
  BY <1>2, <1>3

-----------------------------------------------------------------------------
\* The bytes of a sender's key are wire bytes, and encapsulating to the key is
\* encapsulating to its bytes.
LEMMA SenderEncap ==
  ASSUME NEW key \in PublicKeys, NEW m
  PROVE  /\ Serialize(key.pke_pk) \in KeyBytes
         /\ EncapDeterministic(m, key) = HonestEncap(m, Serialize(key.pke_pk))
<1>1. PICK s \in Seeds, l \in {Intact, Altered}, h \in {10, 13} : key = KeyOf(s, l, h)
  BY SenderKeys
<1>2. Serialize(key.pke_pk) = WireKey(s, l)
  BY <1>1, KeyOfBytes
<1>3. EncapDeterministic(m, key) = HonestEncap(m, WireKey(s, l))
  BY <1>1, FormsEncapsulateAlike, HonestEncapIs
<1>4. QED
  BY <1>2, <1>3, KeyBytesShape

\* A holder's key in memory is the expansion of its seed, and decapsulating with
\* it gives the canonical answer.
LEMMA HolderKey ==
  ASSUME TypeOK, NEW h \in Holders, sk[h] # NoKey
  PROVE  /\ sk[h].seed \in Seeds
         /\ sk[h] = ExpandFromSeed(sk[h].seed)
         /\ sk[h].kem_pk \in PublicKeys
         /\ PublicBytes(sk[h]) \in KeyBytes
<1>1. PICK s \in Seeds : sk[h] = ExpandFromSeed(s)
  BY DEF TypeOK
<1>2. sk[h].seed = s
  BY <1>1, ExpandedKey
<1>3. sk[h].kem_pk \in PublicKeys
  BY <1>1 DEF PublicKeys
<1>4. PublicBytes(sk[h]) \in KeyBytes
  BY <1>1, ExpandedBytes, KeyBytesShape
<1>5. QED
  BY <1>1, <1>2, <1>3, <1>4

\* Every ciphertext on the wire comes from a message and a wire key.
LEMMA WireCiphertexts ==
  ASSUME IInv, NEW c \in cts
  PROVE  \E e \in encaps : \E s \in Seeds, l \in {Intact, Altered} :
           /\ e.key = WireKey(s, l)
           /\ e.ct = CtOf(e.randomness, s, l)
           /\ e.ss = SsOf(e.randomness, s, l)
           /\ WireCt(c, e.randomness, s, l)
<1>1. PICK e \in encaps : c = e.ct \/ c = MauledCt(e.ct)
  BY DEF IInv, WireHonest
<1>2. PICK s \in Seeds, l \in {Intact, Altered} : e.key = WireKey(s, l)
  BY KeyBytesShape DEF IInv, TypeOK
<1>3. /\ e.ct = HonestEncap(e.randomness, e.key).ct
      /\ e.ss = HonestEncap(e.randomness, e.key).ss
  BY DEF IInv, EncapsHonest
<1>4. /\ e.ct = CtOf(e.randomness, s, l)
      /\ e.ss = SsOf(e.randomness, s, l)
  BY <1>2, <1>3, HonestEncapIs
<1>5. QED
  BY <1>1, <1>2, <1>4 DEF WireCt

\* A holder's decapsulation answers as its seed and the ciphertext determine.
LEMMA HolderDecap ==
  ASSUME IInv, NEW h \in Holders, sk[h] # NoKey, NEW c \in cts,
         NEW got \in Decrypt(sk[h].pke_sk, c)
  PROVE  DecapWith(sk[h], c, got) = Answer(sk[h].seed, c)
<1> DEFINE s == sk[h].seed
<1>1. sk[h] = ExpandFromSeed(s)
  BY HolderKey DEF IInv
<1>2. sk[h].pke_sk = <<"GENSEC", s>>
  BY <1>1, ExpandedKey
<1>3. PICK m, t, l : WireCt(c, m, t, l)
  BY WireCiphertexts
<1>4. got \in Decrypt(<<"GENSEC", s>>, c)
  BY <1>2
<1>5. DecapWith(ExpandFromSeed(s), c, got) = Answer(s, c)
  BY <1>3, <1>4, DecapIsAnswer
<1>6. QED
  BY <1>1, <1>5

-----------------------------------------------------------------------------
\* The invariant holds of the initial states.
LEMMA InitInv == Init => IInv
  BY DEF Init, IInv, TypeOK, EncapsHonest, WireHonest, DecapsAnswer

\* The history parts of the invariant read only cts, encaps and decaps.
History == EncapsHonest /\ WireHonest /\ DecapsAnswer

\* Steps that leave the three histories alone keep the parts about them.
LEMMA HistoryStutter ==
  ASSUME History, UNCHANGED <<cts, encaps, decaps>>
  PROVE  History'
  BY DEF History, EncapsHonest, WireHonest, DecapsAnswer

\* An encapsulation keeps the invariant.
LEMMA EncapsulateInv ==
  ASSUME IInv, NEW x \in Senders, Encapsulate(x)
  PROVE  IInv'
<1>1. PICK m \in Randomness :
        LET out == EncapDeterministic(m, pk[x]) IN
        /\ cts' = cts \union {out.ct}
        /\ encaps' = encaps \union {[key |-> Serialize(pk[x].pke_pk), randomness |-> m,
                                     ct |-> out.ct, ss |-> out.ss]}
  BY DEF Encapsulate
<1> DEFINE bytes == Serialize(pk[x].pke_pk)
           out == HonestEncap(m, bytes)
           e0 == [key |-> bytes, randomness |-> m, ct |-> out.ct, ss |-> out.ss]
<1>2. bytes \in KeyBytes /\ EncapDeterministic(m, pk[x]) = out
  <2>1. pk[x] \in PublicKeys
    BY DEF Encapsulate, IInv, TypeOK
  <2>2. QED
    BY <2>1, SenderEncap
<1>3. cts' = cts \union {out.ct} /\ encaps' = encaps \union {e0}
  BY <1>1, <1>2
<1>4. UNCHANGED <<sk, disk, pk, keys, decaps>>
  BY DEF Encapsulate
<1> HIDE DEF bytes, out
<1>5. TypeOK'
  BY <1>2, <1>3, <1>4 DEF IInv, TypeOK
<1>6. EncapsHonest'
  BY <1>3 DEF IInv, EncapsHonest, out
<1>7. WireHonest'
  <2>1. e0 \in encaps' /\ e0.ct = out.ct
    BY <1>3
  <2>2. ASSUME NEW c \in cts
        PROVE  \E e \in encaps' : c = e.ct \/ c = MauledCt(e.ct)
    BY <1>3 DEF IInv, WireHonest
  <2>3. QED
    BY <1>3, <2>1, <2>2 DEF WireHonest
<1>8. DecapsAnswer'
  BY <1>4 DEF IInv, DecapsAnswer
<1>9. QED
  BY <1>5, <1>6, <1>7, <1>8 DEF IInv

\* A decapsulation keeps the invariant.
LEMMA DecapsulateInv ==
  ASSUME IInv, NEW h \in Holders, Decapsulate(h)
  PROVE  IInv'
<1>0. PICK c \in cts : \E got \in Decrypt(sk[h].pke_sk, c) :
        decaps' = decaps \union {[seed |-> sk[h].seed, key |-> PublicBytes(sk[h]), ct |-> c,
                                 ss |-> DecapWith(sk[h], c, got)]}
  BY DEF Decapsulate
<1>1. PICK got \in Decrypt(sk[h].pke_sk, c) :
        decaps' = decaps \union {[seed |-> sk[h].seed, key |-> PublicBytes(sk[h]), ct |-> c,
                                 ss |-> DecapWith(sk[h], c, got)]}
  BY <1>0
<1> DEFINE s == sk[h].seed
           d0 == [seed |-> s, key |-> PublicBytes(ExpandFromSeed(s)), ct |-> c,
                  ss |-> Answer(s, c)]
<1>2. sk[h] # NoKey /\ UNCHANGED <<sk, disk, pk, keys, cts, encaps>>
  BY DEF Decapsulate
<1>3. s \in Seeds /\ sk[h] = ExpandFromSeed(s)
  BY <1>2, HolderKey DEF IInv
<1>4. DecapWith(sk[h], c, got) = Answer(s, c)
  BY <1>2, HolderDecap
<1>5. decaps' = decaps \union {d0}
  BY <1>1, <1>3, <1>4
<1> HIDE DEF s
<1>6. TypeOK'
  BY <1>2, <1>3, <1>5 DEF IInv, TypeOK
<1>7. EncapsHonest' /\ WireHonest'
  BY <1>2 DEF IInv, EncapsHonest, WireHonest
<1>8. DecapsAnswer'
  BY <1>5 DEF IInv, DecapsAnswer
<1>9. QED
  BY <1>6, <1>7, <1>8 DEF IInv

\* Every step keeps the invariant.
LEMMA StepInv == IInv /\ [Next]_vars => IInv'
<1> SUFFICES ASSUME IInv, [Next]_vars PROVE IInv'
  OBVIOUS
<1>0. TypeOK /\ History
  BY DEF IInv, History
<1>1. ASSUME TypeOK', UNCHANGED <<cts, encaps, decaps>> PROVE IInv'
  BY <1>0, <1>1, HistoryStutter DEF IInv, History
<1>2. ASSUME NEW h \in Holders, Generate(h) PROVE IInv'
  BY <1>0, <1>1, <1>2 DEF Generate, TypeOK
<1>3. ASSUME NEW h \in Holders, SaveSeed(h) PROVE IInv'
  <2>1. sk[h].seed \in Seeds
    BY <1>0, <1>3, HolderKey DEF SaveSeed
  <2>2. QED
    BY <1>0, <1>1, <1>3, <2>1 DEF SaveSeed, TypeOK
<1>4. ASSUME NEW h \in Holders, Crash(h) PROVE IInv'
  BY <1>0, <1>1, <1>4 DEF Crash, TypeOK
<1>5. ASSUME NEW h \in Holders, Restore(h) PROVE IInv'
  BY <1>0, <1>1, <1>5 DEF Restore, TypeOK
<1>6. ASSUME NEW h \in Holders, Publish(h) PROVE IInv'
  <2>1. PublicBytes(sk[h]) \in KeyBytes
    BY <1>0, <1>6, HolderKey DEF Publish
  <2>2. QED
    BY <1>0, <1>1, <1>6, <2>1 DEF Publish, TypeOK
<1>7. ASSUME NEW h \in Holders, Decapsulate(h) PROVE IInv'
  BY <1>7, DecapsulateInv
<1>8. ASSUME NEW x \in Senders, Import(x) PROVE IInv'
  BY <1>0, <1>1, <1>8 DEF Import, TypeOK, PublicKeys
<1>9. ASSUME NEW x \in Senders, Encapsulate(x) PROVE IInv'
  BY <1>9, EncapsulateInv
<1>10. ASSUME NEW h \in Holders, NEW x \in Senders, CloneKey(h, x) PROVE IInv'
  <2>1. sk[h].kem_pk \in PublicKeys
    BY <1>0, <1>10, HolderKey DEF CloneKey
  <2>2. QED
    BY <1>0, <1>1, <1>10, <2>1 DEF CloneKey, TypeOK
<1>11. CASE MaulKey
  <2>1. ASSUME NEW b \in KeyBytes PROVE MauledKey(b) \in KeyBytes
    <3>1. PICK s \in Seeds, l \in {Intact, Altered} : b = WireKey(s, l)
      BY KeyBytesShape
    <3>2. MauledKey(b) = WireKey(s, Altered)
      BY <3>1 DEF MauledKey, WireKey, WireVec
    <3>3. QED
      BY <3>2, KeyBytesShape
  <2>2. QED
    BY <1>0, <1>1, <1>11, <2>1 DEF MaulKey, TypeOK
<1>12. CASE MaulCiphertext
  <2>1. PICK c \in cts : cts' = cts \union {MauledCt(c)}
    BY <1>12 DEF MaulCiphertext
  <2>2. UNCHANGED <<sk, disk, pk, keys, encaps, decaps>>
    BY <1>12 DEF MaulCiphertext
  <2>3. TypeOK'
    BY <1>0, <2>1, <2>2 DEF TypeOK
  <2>4. WireHonest'
    <3>1. MauledCt(MauledCt(c)) = MauledCt(c)
      BY DEF MauledCt
    <3>2. PICK e \in encaps : c = e.ct \/ c = MauledCt(e.ct)
      BY <1>0 DEF History, WireHonest
    <3>3. MauledCt(c) = MauledCt(e.ct)
      BY <3>2 DEF MauledCt
    <3>4. QED
      BY <1>0, <2>1, <2>2, <3>2, <3>3 DEF History, WireHonest
  <2>5. EncapsHonest' /\ DecapsAnswer'
    BY <1>0, <2>2 DEF History, EncapsHonest, DecapsAnswer
  <2>6. QED
    BY <2>3, <2>4, <2>5 DEF IInv
<1>13. CASE UNCHANGED vars
  BY <1>0, <1>1, <1>13 DEF vars, TypeOK
<1>14. QED
  BY <1>2, <1>3, <1>4, <1>5, <1>6, <1>7, <1>8, <1>9, <1>10, <1>11, <1>12, <1>13 DEF Next

\* In every behaviour the invariant holds.
THEOREM Invariance == Spec => []IInv
<1>1. QED
  BY InitInv, StepInv, PTL DEF Spec

-----------------------------------------------------------------------------
\* What one entry of each history says, in terms of messages and seeds.
LEMMA EncapShape ==
  ASSUME IInv, NEW e \in encaps
  PROVE  \E s \in Seeds, l \in {Intact, Altered} :
           /\ e.key = WireKey(s, l)
           /\ e.ct = CtOf(e.randomness, s, l)
           /\ e.ss = SsOf(e.randomness, s, l)
<1>1. PICK s \in Seeds, l \in {Intact, Altered} : e.key = WireKey(s, l)
  BY KeyBytesShape DEF IInv, TypeOK
<1>2. /\ e.ct = HonestEncap(e.randomness, e.key).ct
      /\ e.ss = HonestEncap(e.randomness, e.key).ss
  BY DEF IInv, EncapsHonest
<1>3. QED
  BY <1>1, <1>2, HonestEncapIs

\* Each recorded decapsulation answered with the secret of an encapsulation
\* that decrypts, or else with its own rejection value.
LEMMA DecapShape ==
  ASSUME IInv, NEW d \in decaps
  PROVE  /\ d.key = WireKey(d.seed, Intact)
         /\ \/ \E e \in encaps :
                 /\ e.key = d.key /\ e.ct = d.ct /\ e.randomness \notin Unlucky
                 /\ e.ct = CtOf(e.randomness, d.seed, Intact)
                 /\ d.ss = SsOf(e.randomness, d.seed, Intact)
            \/ /\ ~ \E e \in encaps :
                     e.key = d.key /\ e.ct = d.ct /\ e.randomness \notin Unlucky
               /\ d.ss = RejectVal(<<"Z", d.seed>>, d.ct)
<1> DEFINE s == d.seed
           c == d.ct
<1>1. c \in cts
  BY DEF IInv, TypeOK
<1>2. d.key = WireKey(s, Intact) /\ d.ss = Answer(s, c)
  BY ExpandedBytes DEF IInv, DecapsAnswer
<1>3. PICK e \in encaps : \E t \in Seeds, l \in {Intact, Altered} :
        /\ e.key = WireKey(t, l)
        /\ e.ct = CtOf(e.randomness, t, l)
        /\ WireCt(c, e.randomness, t, l)
  BY <1>1, WireCiphertexts
<1>4. PICK t \in Seeds, l \in {Intact, Altered} :
        /\ e.key = WireKey(t, l)
        /\ e.ct = CtOf(e.randomness, t, l)
        /\ WireCt(c, e.randomness, t, l)
  BY <1>3
<1> DEFINE m == e.randomness
<1>5. d.ss = IF c = CtOf(m, s, Intact) /\ m \notin Unlucky
             THEN SsOf(m, s, Intact) ELSE RejectVal(<<"Z", s>>, c)
  BY <1>2, <1>4, AnswerIs
<1>6. CASE c = CtOf(m, s, Intact) /\ m \notin Unlucky
  <2>1. c # MauledCt(CtOf(m, t, l))
    BY <1>6, CiphertextsInjective
  <2>2. c = CtOf(m, t, l)
    BY <1>4, <2>1 DEF WireCt
  <2>3. t = s /\ l = Intact
    <3>1. CtOf(m, s, Intact) = CtOf(m, t, l)
      BY <1>6, <2>2
    <3>2. QED
      BY <3>1, CiphertextsInjective
  <2>4. QED
    BY <1>2, <1>4, <1>5, <1>6, <2>2, <2>3
<1>7. CASE ~ (c = CtOf(m, s, Intact) /\ m \notin Unlucky)
  <2>1. ASSUME NEW f \in encaps, f.key = d.key, f.ct = c, f.randomness \notin Unlucky
        PROVE  FALSE
    <3>1. PICK u \in Seeds, k \in {Intact, Altered} :
            f.key = WireKey(u, k) /\ f.ct = CtOf(f.randomness, u, k)
      BY EncapShape
    <3>2. u = s /\ k = Intact
      BY <1>2, <2>1, <3>1 DEF WireKey, WireVec
    <3>3. c = CtOf(f.randomness, s, Intact)
      BY <2>1, <3>1, <3>2
    <3>4. c # MauledCt(CtOf(m, t, l))
      BY <3>3, CiphertextsInjective
    <3>5. f.randomness = m
      BY <1>4, <3>3, <3>4, CiphertextsInjective DEF WireCt
    <3>6. QED
      BY <1>7, <2>1, <3>3, <3>5
  <2>2. QED
    BY <1>2, <1>5, <1>7, <2>1
<1>8. QED
  BY <1>6, <1>7

\* Two encapsulations with the same secret, or with the same key and
\* ciphertext, are the same entry.
LEMMA EncapsUnique ==
  ASSUME IInv, NEW e \in encaps, NEW f \in encaps
  PROVE  /\ e.ss = f.ss => e = f
         /\ e.key = f.key /\ e.ct = f.ct => e = f
<1>1. PICK s, l : /\ e.key = WireKey(s, l)
                  /\ e.ct = CtOf(e.randomness, s, l)
                  /\ e.ss = SsOf(e.randomness, s, l)
  BY EncapShape
<1>2. PICK t, k : /\ f.key = WireKey(t, k)
                  /\ f.ct = CtOf(f.randomness, t, k)
                  /\ f.ss = SsOf(f.randomness, t, k)
  BY EncapShape
<1>3. ASSUME e.key = f.key, e.randomness = f.randomness
      PROVE  e = f
  BY <1>3 DEF IInv, EncapsHonest
<1>4. ASSUME e.ss = f.ss PROVE e = f
  <2>1. SsOf(e.randomness, s, l) = SsOf(f.randomness, t, k)
    BY <1>1, <1>2, <1>4
  <2>2. e.randomness = f.randomness /\ s = t /\ l = k
    BY <2>1, CiphertextsInjective
  <2>3. QED
    BY <1>1, <1>2, <1>3, <2>2
<1>5. ASSUME e.key = f.key, e.ct = f.ct PROVE e = f
  <2>1. CtOf(e.randomness, s, l) = CtOf(f.randomness, t, k)
    BY <1>1, <1>2, <1>5
  <2>2. e.randomness = f.randomness
    BY <2>1, CiphertextsInjective
  <2>3. QED
    BY <1>3, <1>5, <2>2
<1>6. QED
  BY <1>4, <1>5

\* Two answers with the same secret are the same entry, and so are two answers
\* to the same ciphertext under the same key.
LEMMA DecapsUnique ==
  ASSUME IInv, NEW c \in decaps, NEW d \in decaps
  PROVE  /\ c.ss = d.ss => c = d
         /\ c.key = d.key /\ c.ct = d.ct => c = d
<1>1. ASSUME c.seed = d.seed, c.ct = d.ct PROVE c = d
  BY <1>1 DEF IInv, DecapsAnswer
<1>2. c.key = WireKey(c.seed, Intact) /\ d.key = WireKey(d.seed, Intact)
  BY DecapShape
<1>3. ASSUME c.key = d.key, c.ct = d.ct PROVE c = d
  <2>1. c.seed = d.seed
    BY <1>2, <1>3 DEF WireKey, WireVec
  <2>2. QED
    BY <1>1, <1>3, <2>1
<1>4. ASSUME c.ss = d.ss PROVE c = d
  <2>1. CASE \E e \in encaps :
               /\ e.key = c.key /\ e.ct = c.ct /\ e.ct = CtOf(e.randomness, c.seed, Intact)
               /\ c.ss = SsOf(e.randomness, c.seed, Intact)
    <3>1. PICK e \in encaps :
                 /\ e.key = c.key /\ e.ct = c.ct /\ e.ct = CtOf(e.randomness, c.seed, Intact)
                 /\ c.ss = SsOf(e.randomness, c.seed, Intact)
      BY <2>1
    <3>2. d.ss # RejectVal(<<"Z", d.seed>>, d.ct)
      BY <1>4, <3>1 DEF SsOf, RejectVal
    <3>3. PICK f \in encaps :
                 /\ f.ct = d.ct /\ f.ct = CtOf(f.randomness, d.seed, Intact)
                 /\ d.ss = SsOf(f.randomness, d.seed, Intact)
      BY <3>2, DecapShape
    <3>4. SsOf(e.randomness, c.seed, Intact) = SsOf(f.randomness, d.seed, Intact)
      BY <1>4, <3>1, <3>3
    <3>5. e.randomness = f.randomness /\ c.seed = d.seed
      BY <3>4, CiphertextsInjective
    <3>6. QED
      BY <1>1, <3>1, <3>3, <3>5
  <2>2. CASE c.ss = RejectVal(<<"Z", c.seed>>, c.ct)
    <3>1. \A m, s : d.ss # SsOf(m, s, Intact)
      BY <1>4, <2>2 DEF SsOf, RejectVal
    <3>2. d.ss = RejectVal(<<"Z", d.seed>>, d.ct)
      BY <3>1, DecapShape
    <3>3. RejectVal(<<"Z", c.seed>>, c.ct) = RejectVal(<<"Z", d.seed>>, d.ct)
      BY <1>4, <2>2, <3>2
    <3>4. <<"Z", c.seed>> = <<"Z", d.seed>> /\ c.ct = d.ct
      BY <3>3, HashesInjective
    <3>5. QED
      BY <1>1, <3>4
  <2>3. QED
    BY <2>1, <2>2, DecapShape
<1>5. QED
  BY <1>3, <1>4

\* An encapsulation and an answer with the same secret worked on the same
\* ciphertext under the same key.
LEMMA AcceptedSecret ==
  ASSUME IInv, NEW e \in encaps, NEW d \in decaps, e.ss = d.ss
  PROVE  e.key = d.key /\ e.ct = d.ct /\ e.randomness \notin Unlucky
<1>1. PICK s, l : e.ss = SsOf(e.randomness, s, l)
  BY EncapShape
<1>2. d.ss # RejectVal(<<"Z", d.seed>>, d.ct)
  BY <1>1 DEF SsOf, RejectVal
<1>3. PICK f \in encaps :
        /\ f.key = d.key /\ f.ct = d.ct /\ f.randomness \notin Unlucky
        /\ f.ct = CtOf(f.randomness, d.seed, Intact)
        /\ d.ss = SsOf(f.randomness, d.seed, Intact)
  BY <1>2, DecapShape
<1>4. PICK t, k : f.ct = CtOf(f.randomness, t, k) /\ f.ss = SsOf(f.randomness, t, k)
  BY EncapShape
<1>5. t = d.seed /\ k = Intact
  <2>1. CtOf(f.randomness, t, k) = CtOf(f.randomness, d.seed, Intact)
    BY <1>3, <1>4
  <2>2. QED
    BY <2>1, CiphertextsInjective
<1>6. e = f
  BY <1>3, <1>4, <1>5, EncapsUnique
<1>7. QED
  BY <1>3, <1>6

-----------------------------------------------------------------------------
\* The invariant implies the four safety properties.
LEMMA InvImpliesAgreement == IInv => Agreement
<1> SUFFICES ASSUME IInv, NEW e \in encaps, NEW d \in decaps,
                    e.key = d.key, e.ct = d.ct, e.randomness \notin Unlucky
             PROVE  e.ss = d.ss
  BY DEF Agreement
<1>1. PICK f \in encaps : /\ f.key = d.key /\ f.ct = d.ct
                          /\ f.ct = CtOf(f.randomness, d.seed, Intact)
                          /\ d.ss = SsOf(f.randomness, d.seed, Intact)
  <2>1. CASE ~ \E g \in encaps : g.key = d.key /\ g.ct = d.ct /\ g.randomness \notin Unlucky
    BY <2>1
  <2>2. CASE \E g \in encaps :
               /\ g.key = d.key /\ g.ct = d.ct /\ g.randomness \notin Unlucky
               /\ g.ct = CtOf(g.randomness, d.seed, Intact)
               /\ d.ss = SsOf(g.randomness, d.seed, Intact)
    BY <2>2
  <2>3. QED
    BY <2>1, <2>2, DecapShape
<1>2. e = f
  BY <1>1, EncapsUnique
<1>3. PICK s, l : /\ f.ct = CtOf(f.randomness, s, l)
                  /\ f.ss = SsOf(f.randomness, s, l)
  BY EncapShape
<1>4. CtOf(f.randomness, s, l) = CtOf(f.randomness, d.seed, Intact)
  BY <1>1, <1>3
<1>5. s = d.seed /\ l = Intact
  BY <1>4, CiphertextsInjective
<1>6. QED
  BY <1>1, <1>2, <1>3, <1>5

\* The invariant gives implicit rejection.
LEMMA InvImpliesRejection == IInv => ImplicitRejection
  BY AcceptedSecret DEF ImplicitRejection

\* The invariant gives binding.
LEMMA InvImpliesBinding == IInv => Binding
<1> SUFFICES ASSUME IInv, NEW a \in encaps \union decaps, NEW b \in encaps \union decaps,
                    a.ss = b.ss
             PROVE  a.key = b.key /\ a.ct = b.ct
  BY DEF Binding
<1>1. CASE a \in encaps /\ b \in encaps
  <2>1. a = b
    BY <1>1, EncapsUnique
  <2>2. QED
    BY <2>1
<1>2. CASE a \in decaps /\ b \in decaps
  <2>1. a = b
    BY <1>2, DecapsUnique
  <2>2. QED
    BY <2>1
<1>3. CASE a \in encaps /\ b \in decaps
  BY <1>3, AcceptedSecret
<1>4. CASE a \in decaps /\ b \in encaps
  BY <1>4, AcceptedSecret
<1>5. QED
  BY <1>1, <1>2, <1>3, <1>4

\* The invariant gives stability of answers.
LEMMA InvImpliesStable == IInv => StableAnswers
  BY DEF IInv, DecapsAnswer, StableAnswers

\* What the refinement uses of them, as one state predicate.
Unique ==
  /\ \A c, d \in decaps : c.ss = d.ss \/ (c.key = d.key /\ c.ct = d.ct) => c = d
  /\ \A e \in encaps, d \in decaps :
       e.ss = d.ss <=> e.key = d.key /\ e.ct = d.ct /\ e.randomness \notin Unlucky

\* The invariant gives what the refinement uses.
LEMMA HistoryUnique == IInv => Unique
<1> SUFFICES ASSUME IInv PROVE Unique
  OBVIOUS
<1>1. \A c, d \in decaps : c.ss = d.ss \/ (c.key = d.key /\ c.ct = d.ct) => c = d
  BY DecapsUnique
<1>2. \A e \in encaps, d \in decaps :
        e.ss = d.ss => e.key = d.key /\ e.ct = d.ct /\ e.randomness \notin Unlucky
  BY AcceptedSecret
<1>3. \A e \in encaps, d \in decaps :
        e.key = d.key /\ e.ct = d.ct /\ e.randomness \notin Unlucky => e.ss = d.ss
  BY InvImpliesAgreement DEF Agreement
<1>4. QED
  BY <1>1, <1>2, <1>3 DEF Unique

\* Keys, wire and histories are always well formed.
THEOREM TypeCorrect == Spec => []TypeOK
<1>1. IInv => TypeOK
  BY DEF IInv
<1>2. QED
  BY <1>1, Invariance, PTL

\* The two ends of an honest exchange agree, across restarts and key forms.
THEOREM AgreementHolds == Spec => []Agreement
  BY Invariance, InvImpliesAgreement, PTL

\* A mauled or misdirected ciphertext never yields an encapsulated secret.
THEOREM RejectionHolds == Spec => []ImplicitRejection
  BY Invariance, InvImpliesRejection, PTL

\* A secret belongs to one ciphertext under one public key.
THEOREM BindingHolds == Spec => []Binding
  BY Invariance, InvImpliesBinding, PTL

\* Decapsulation is a function of the seed and the ciphertext.
THEOREM StableHolds == Spec => []StableAnswers
  BY Invariance, InvImpliesStable, PTL

-----------------------------------------------------------------------------
\* Refinement: every step is a step of the ideal KEM or leaves its tables alone.

EntryOf(m, s, l) ==
  [key |-> WireKey(s, l), randomness |-> m, ct |-> CtOf(m, s, l), ss |-> SsOf(m, s, l)]

\* Every recorded encapsulation is the entry of its randomness and key.
LEMMA EncapsEntries ==
  ASSUME IInv, NEW e \in encaps
  PROVE  \E s, l : e = EntryOf(e.randomness, s, l)
  BY EncapShape DEF EntryOf, IInv, EncapsHonest

\* An encapsulation records one such entry.
LEMMA NewEntry ==
  ASSUME IInv, NEW x \in Senders, Encapsulate(x)
  PROVE  \E m, s, l : encaps' = encaps \union {EntryOf(m, s, l)}
<1>1. PICK m \in Randomness :
        encaps' = encaps \union
          {[key |-> Serialize(pk[x].pke_pk), randomness |-> m,
            ct |-> EncapDeterministic(m, pk[x]).ct, ss |-> EncapDeterministic(m, pk[x]).ss]}
  BY DEF Encapsulate
<1>2. PICK s \in Seeds, l \in {Intact, Altered}, h \in {10, 13} : pk[x] = KeyOf(s, l, h)
  BY SenderKeys DEF Encapsulate, IInv, TypeOK
<1>3. QED
  BY <1>1, <1>2, KeyOfBytes, FormsEncapsulateAlike DEF EntryOf

\* Nothing in either table has the secret, or the key and ciphertext, of an
\* encapsulation that is not in the table yet.
LEMMA NewEntryFresh ==
  ASSUME IInv, NEW m, NEW s, NEW l, EntryOf(m, s, l) \notin encaps
  PROVE  /\ \A a \in encaps \union decaps :
              /\ a.ss # SsOf(m, s, l)
              /\ a.key # WireKey(s, l) \/ a.ct # CtOf(m, s, l)
<1>1. ASSUME NEW e \in encaps, e.ss = SsOf(m, s, l) \/ e.ct = CtOf(m, s, l)
      PROVE  FALSE
  <2>1. PICK t, k : e = EntryOf(e.randomness, t, k)
    BY EncapsEntries
  <2>2. e.ss = SsOf(e.randomness, t, k) /\ e.ct = CtOf(e.randomness, t, k)
    BY <2>1 DEF EntryOf
  <2>3. SsOf(e.randomness, t, k) = SsOf(m, s, l) \/ CtOf(e.randomness, t, k) = CtOf(m, s, l)
    BY <1>1, <2>2
  <2>4. e.randomness = m /\ t = s /\ k = l
    BY <2>3, CiphertextsInjective
  <2>5. QED
    BY <2>1, <2>4
<1>2. ASSUME NEW d \in decaps, d.ss = SsOf(m, s, l)
      PROVE  FALSE
  <2>1. d.ss # RejectVal(<<"Z", d.seed>>, d.ct)
    BY <1>2 DEF SsOf, RejectVal
  <2>2. PICK e \in encaps : /\ e.ct = CtOf(e.randomness, d.seed, Intact)
                            /\ d.ss = SsOf(e.randomness, d.seed, Intact)
    BY <2>1, DecapShape
  <2>3. SsOf(e.randomness, d.seed, Intact) = SsOf(m, s, l)
    BY <1>2, <2>2
  <2>4. e.randomness = m /\ s = d.seed /\ l = Intact
    BY <2>3, CiphertextsInjective
  <2>5. QED
    BY <1>1, <2>2, <2>4
<1>3. ASSUME NEW d \in decaps, d.ct = CtOf(m, s, l)
      PROVE  FALSE
  <2>1. d.ct \in cts
    BY DEF IInv, TypeOK
  <2>2. PICK e \in encaps : \E t, k : /\ e.ct = CtOf(e.randomness, t, k)
                                     /\ WireCt(d.ct, e.randomness, t, k)
    BY <2>1, WireCiphertexts
  <2>3. PICK t, k : e.ct = CtOf(e.randomness, t, k) /\ WireCt(d.ct, e.randomness, t, k)
    BY <2>2
  <2>4. d.ct # MauledCt(CtOf(e.randomness, t, k))
    BY <1>3, CiphertextsInjective
  <2>5. e.ct = CtOf(m, s, l)
    BY <1>3, <2>3, <2>4 DEF WireCt
  <2>6. QED
    BY <1>1, <2>5
<1>4. QED
  BY <1>1, <1>2, <1>3

\* An encapsulation is a step of the ideal KEM, or a stutter.
LEMMA EncapsulateRefines ==
  ASSUME IInv, NEW x \in Senders, Encapsulate(x)
  PROVE  [Ideal!Next]_(Ideal!vars)
<1> DEFINE issued == {IssuedOf(e) : e \in encaps}
           answered == {AnsweredOf(d) : d \in decaps}
<1>1. PICK m, s, l : encaps' = encaps \union {EntryOf(m, s, l)}
  BY NewEntry
<1>2. decaps' = decaps
  BY DEF Encapsulate
<1> DEFINE e0 == EntryOf(m, s, l)
           i == IssuedOf(e0)
<1>3. CASE e0 \in encaps
  <2>1. encaps' = encaps
    BY <1>1, <1>3
  <2>2. QED
    BY <1>2, <2>1 DEF Ideal!vars
<1>4. CASE e0 \notin encaps
  <2>1. /\ i.key = WireKey(s, l)
        /\ i.ct = CtOf(m, s, l)
        /\ i.ss = SsOf(m, s, l)
    BY DEF IssuedOf, EntryOf
  <2>2. \A a \in encaps \union decaps : a.ss # i.ss /\ (a.key # i.key \/ a.ct # i.ct)
    BY <1>4, <2>1, NewEntryFresh
  <2>3. \A a \in issued \union answered : a.ss # i.ss /\ (a.key # i.key \/ a.ct # i.ct)
    BY <2>2 DEF IssuedOf, AnsweredOf
  <2>4. issued' = issued \union {i} /\ answered' = answered
    BY <1>1, <1>2
  <2>5. Ideal!Encap(i)
    BY <2>3, <2>4 DEF Ideal!Encap, Ideal!Secrets
  <2>6. i \in issued'
    BY <2>4
  <2>7. QED
    BY <2>5, <2>6 DEF Ideal!Next
<1>5. QED
  BY <1>3, <1>4

\* A decapsulation is a step of the ideal KEM, or a stutter.
LEMMA DecapsulateRefines ==
  ASSUME IInv, NEW h \in Holders, Decapsulate(h)
  PROVE  [Ideal!Next]_(Ideal!vars)
<1> DEFINE issued == {IssuedOf(e) : e \in encaps}
           answered == {AnsweredOf(d) : d \in decaps}
<1>1. PICK d0 : decaps' = decaps \union {d0}
  BY DEF Decapsulate
<1>2. encaps' = encaps
  BY DEF Decapsulate
<1>3. IInv'
  BY DecapsulateInv
<1>4. CASE d0 \in decaps
  <2>1. decaps' = decaps
    BY <1>1, <1>4
  <2>2. QED
    BY <1>2, <2>1 DEF Ideal!vars
<1>5. CASE d0 \notin decaps
  <2> DEFINE a == AnsweredOf(d0)
  <2>1. a.key = d0.key /\ a.ct = d0.ct /\ a.ss = d0.ss
    BY DEF AnsweredOf
  <2>2. answered' = answered \union {a} /\ issued' = issued /\ a \in answered'
    BY <1>1, <1>2
  <2>3. /\ \A d \in decaps : d.ss # a.ss /\ (d.key # a.key \/ d.ct # a.ct)
        /\ \A e \in encaps : e.ss = a.ss => e.key = a.key /\ e.ct = a.ct /\ e.randomness \notin Unlucky
        /\ \A e \in encaps : e.key = a.key /\ e.ct = a.ct /\ e.randomness \notin Unlucky => e.ss = a.ss
    <3>1. /\ \A c, d \in decaps' : c.ss = d.ss \/ (c.key = d.key /\ c.ct = d.ct) => c = d
          /\ \A e \in encaps', d \in decaps' :
               e.ss = d.ss <=> e.key = d.key /\ e.ct = d.ct /\ e.randomness \notin Unlucky
      <4>1. Unique'
        BY <1>3, HistoryUnique, PTL
      <4>2. QED
        BY <4>1 DEF Unique
    <3>2. QED
      BY <1>1, <1>2, <1>5, <2>1, <3>1
  <2>4. CASE \E e \in encaps : e.key = a.key /\ e.ct = a.ct /\ e.randomness \notin Unlucky
    <3>1. PICK e \in encaps : e.key = a.key /\ e.ct = a.ct /\ e.randomness \notin Unlucky
      BY <2>4
    <3>2. /\ IssuedOf(e) \in issued
          /\ IssuedOf(e).ok /\ IssuedOf(e).key = a.key /\ IssuedOf(e).ct = a.ct
          /\ IssuedOf(e).ss = a.ss
      BY <2>3, <3>1 DEF IssuedOf
    <3>3. Ideal!Accept(a)
      BY <2>2, <3>2 DEF Ideal!Accept
    <3>4. QED
      BY <2>2, <3>3 DEF Ideal!Next
  <2>5. CASE ~ \E e \in encaps : e.key = a.key /\ e.ct = a.ct /\ e.randomness \notin Unlucky
    <3>1. ~ \E i \in issued : i.ok /\ i.key = a.key /\ i.ct = a.ct
      <4> SUFFICES ASSUME NEW e \in encaps, IssuedOf(e).ok,
                          IssuedOf(e).key = a.key, IssuedOf(e).ct = a.ct
                   PROVE  FALSE
        OBVIOUS
      <4>1. e.randomness \notin Unlucky /\ e.key = a.key /\ e.ct = a.ct
        BY DEF IssuedOf
      <4>2. QED
        BY <2>5, <4>1
    <3>2. \A x \in answered : x.ss # a.ss /\ (x.key # a.key \/ x.ct # a.ct)
      BY <2>3 DEF AnsweredOf
    <3>3. \A x \in issued : x.ss # a.ss
      BY <2>3, <2>5 DEF IssuedOf
    <3>4. Ideal!Reject(a)
      BY <2>2, <3>1, <3>2, <3>3 DEF Ideal!Reject, Ideal!Secrets
    <3>5. QED
      BY <2>2, <3>4 DEF Ideal!Next
  <2>6. QED
    BY <2>4, <2>5
<1>6. QED
  BY <1>4, <1>5

\* The KEM's two ends implement the ideal KEM.
THEOREM Refinement == Spec => ImplementsIdeal
<1>1. Init => Ideal!Init
  BY DEF Init, Ideal!Init
<1>2. IInv /\ [Next]_vars => [Ideal!Next]_(Ideal!vars)
  <2> SUFFICES ASSUME IInv, [Next]_vars PROVE [Ideal!Next]_(Ideal!vars)
    OBVIOUS
  <2>1. ASSUME UNCHANGED <<encaps, decaps>> PROVE UNCHANGED Ideal!vars
    BY <2>1 DEF Ideal!vars
  <2>2. CASE \E h \in Holders : Decapsulate(h)
    BY <2>2, DecapsulateRefines
  <2>3. CASE \E x \in Senders : Encapsulate(x)
    BY <2>3, EncapsulateRefines
  <2>4. CASE UNCHANGED <<encaps, decaps>>
    BY <2>1, <2>4
  <2>5. QED
    BY <2>2, <2>3, <2>4
    DEF Next, vars, Generate, SaveSeed, Crash, Restore, Publish, Import, CloneKey, MaulKey,
        MaulCiphertext
<1>3. QED
  BY <1>1, <1>2, Invariance, PTL DEF Spec, ImplementsIdeal, Ideal!Spec
=============================================================================
