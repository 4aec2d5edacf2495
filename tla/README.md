# A TLA+ verification project for kopis-rs

kopis-rs implements Kopis, a Saber-like key encapsulation mechanism (Module-LWR
public-key encryption, the Fujisaki-Okamoto transform with implicit rejection,
TurboSHAKE as the only hash), as a `no_std` Rust crate with a portable backend
and AVX2 and NEON backends. Paths below are relative to the repository root
(`src/kem.rs` is `src/src/kem.rs` in PROJECT.json).

## 1. Inventory

| Component | Code | State it keeps | Operations |
|---|---|---|---|
| Public API | `src/impls.rs`, `src/lib.rs` | none of its own; three parameter sets (l,T,mu) = (2,3,10), (3,4,8), (4,6,6) | `generate_from_rng`, `From<&[u8;32]>`, `as_bytes`, `public_key`, `to_bytes`, `from_bytes`, `encapsulate_with_rng`, `encapsulate_deterministic`, `decapsulate` |
| KEM | `src/kem.rs` | `KemSecretKey{seed, z, pke_sk, kem_pk}`, `KemPublicKey{pke_pk, hash_pke_pk}` (a cached hash), `SharedSecret` | `expand_from_seed`, `encap_deterministic`, `decap` |
| PKE | `src/pke.rs` | `PkePublicKey{matrix_seed, mat_a_ntt, vec_ntt, vec_bytes}` (a cached matrix, and the vector in two forms) | `expand_secret_key`, `encrypt_deterministic`, `decrypt`, `hash`, `serialize`, `from_bytes` |
| Serialisation | `src/ser.rs`, `src/arithmetic/plain_arith.rs` | sliding window (bits, count, byte position) | `deserialize_generic`, `serialize_generic`, the unrolled 10- and 13-bit paths |
| Sampling | `src/sample.rs` | XOF readers | `gen_matrix_from_seed`, `gen_secret_from_seed`, `cbd` |
| NTT arithmetic | `src/arithmetic/ntt_arith.rs`, `src/arithmetic/ntt_crt.rs` | i16 coefficient blocks modulo 7681 and 10753, i32 accumulators | forward and inverse transforms, pointwise products, CRT lift |
| AVX2, NEON backends | `src/backend/*` | vector registers, lane tables, batches of XOF lanes | the same operations, four or two XOFs at a time, 16 or 8 coefficients at a time |
| Backend choice | `build.rs`, `src/backend/*/cpu.rs` | compile-time override, cached CPU probe | flag parsing, `available()` |
| Everything else | tests, `benches/`, `ct-check/`, `lean/`, vectors | | not modelled (see PROJECT.json) |

How they interact: the API calls the KEM, the KEM calls the PKE and the hashes,
the PKE calls sampling, NTT arithmetic and serialisation, and each of these asks
the backend choice which implementation to run. All calls are synchronous;
values are moved or borrowed, and the only shared mutable state is the cached
CPU probe. What is concurrent is the world outside: two parties, a wire between
them, processes that crash and restore a key from its 32-byte seed, threads that
make the first call of a process at the same time.

What is hard, and where the properties below are aimed (the complete list, each
at its line, is under "hazards" in PROJECT.json):

- **Two forms of one key.** The owner of a key holds the NTT form of a vector
  with up to 13 bits per coefficient; everybody else holds the 10 bits that were
  serialised. Decapsulation compares, bit for bit, a ciphertext made from one
  form with a re-encryption made from the other.
- **Restart and reordering.** A secret key is stored as its seed and expanded
  again; ciphertexts are late, duplicated, altered or sent to the wrong holder;
  answers must not depend on when they are asked for.
- **16-bit lanes with no room to spare.** Nothing checks for overflow at run
  time. The growth of a lane between two reductions is argued in comments, per
  backend, and several places have a few percent left.
- **Layouts.** Bits straddle bytes, transforms run transposed, sponges run side
  by side in the lanes of one register, batches have a last lane with nothing to
  do. A mistake leaves outputs that look as random as the right ones.
- **Ends of buffers.** Wide loads and stores near the end of slices of lengths
  that depend on width, rate and rank.
- **Choice of implementation.** Compiler flags parsed by hand, internal flags
  that bypass the checks, a probe raced for by threads.
- **Sixty-four bit positions per round.** The permutation fuses four steps of
  the standard, reads its lanes by destination from tables of rotations written
  out by hand, negates one operand of an instruction, and alternates between two
  arrays.

Nothing waits for another thread, polls or retries. What must happen in the end
and could fail to is that the batched sampling loops, with the sponge loops under
them, deliver every entry (`Sampled`). That a build ends in a verdict and every
call in an implementation that runs is stated too (`Settles`); the caching of the
probe that this needs is the `cpufeatures` crate's.

## 2. Modules and the code

Every definition that stands for code is listed with its lines under "map" in
PROJECT.json. A definition whose name ends in a description of what is wrong
with it (`DecapComparingHalf`, `TailGroupsMore`, ...) is a mutant: it stands
before the definition it would replace, and is used to confirm that a property
notices the difference.

| Module | Models | State and actions |
|---|---|---|
| `Kem` | `kem.rs`, `impls.rs`, the byte level of `pke.rs` | `sk`, `pk`: keys in memory, with every cached field; `disk`: stored seeds; `keys`, `cts`: the wire; `encaps`, `decaps`: what callers got back. One action per API call (`Generate`, `SaveSeed`, `Restore`, `Publish`, `Import`, `CloneKey`, `Encapsulate`, `Decapsulate`), and `Crash`, `MaulKey`, `MaulCiphertext` for the world |
| `IdealKem` | what the KEM promises | two tables, of secrets issued and answered; `Encap`, `Accept`, `Reject` |
| `Rounding` | coefficient-wise roundings of `pke.rs` on wrapping words | operators |
| `Pke` | `pke.rs` in full arithmetic over a small ring, with the buffers that vectors and ciphertexts are laid out in, chunk by chunk | `Generate`, `Import`, `Encrypt`, `Decrypt`, `Reencrypt` |
| `InnerProduct` | one coefficient of an inner product through two residues and the CRT lift (`ntt_arith.rs`, `ntt_crt.rs`) | `Accumulate`, one term at a time, for both forms of the key at once; `Reduce`, the lift of one vector by any backend |
| `Montgomery` | 16-bit Montgomery and Barrett arithmetic, portable and NEON; the bounds on lanes that `backend/neon/ntt.rs:844-900` propagates through a pass | operators |
| `Lanes` | where the vector backends leave 16 bits: widening products with their shuffles, the reduction of accumulators, the CRT lift with its saturating packs | operators, one per instruction or loop body |
| `Ntt` | an inner product modulo one prime as passes over 256 lanes | `Split`, `CtLevel`, `GsLevel`, `BarrettBlock`, `Transpose`, `Keep`, `PointwiseMulAcc` (through `Lanes`), `ReduceBlock`, `ScaleBlock`; beside each lane the bound propagated to it |
| `Residues` | what a schedule means: the same passes on residues modulo the prime, in exact arithmetic | one step per pass: `Pass` of each kind, `Keep`, `Accumulate` |
| `Schedules` | which passes each backend runs, with its roots and layouts | sequences of passes: `Forward`, `Inverse`, one pair of operands (`PairPasses`), and a whole inner product, `Program(backend, prime, rank)` |
| `Sums` | sums of sequences, and the polynomials modulo X^256 + 1 and a prime written with them | operators |
| `Parts` | what a lane stands for: a part of a polynomial, at a root | operators: the parts before and after a pass, and what a butterfly must find |
| `Transforms` | each transform on its own: from loaded operands forward, from a reduced sum back | the histories of bounds and parts along it (`Trace`), and what must hold of them (`ForwardFits`, `InverseFits`) |
| `NttValues` | what the transforms stand for: the reference transform and negacyclic product | beside `Ntt` run on `Schedules`, a history of the part of a polynomial that each lane stands for (`view`), of the operand kept (`keptPair`) and of the pairs accumulated (`pairs`) |
| `BitWords` | words whose bits know where in the packed stream they came from | operators |
| `PackedStream` | the packed format that every deserializer and serializer shares | operators |
| `SlidingWindow` | the window of bits that the loops of `ser.rs` keep | operators |
| `Unpack`, `Pack` | the loops of `ser.rs` and its unrolled paths | `Refill`/`Take`, `Insert`/`Flush` |
| `Memory` | what the bounds-checked accessors of both `intrinsics.rs` assert | operators |
| `VectorUnpack` | `backend/avx2/ser.rs`, `backend/neon/ser.rs` | `Avx2Pair`, `NeonGroup`: one iteration each |
| `Cbd` | the three centred binomial samplers, of which two call the deserializers first | `Fields` (a step of `VectorUnpack`), `SerialByte`, `SerialGroup`, `Avx2Vector`, `NeonVector` |
| `KeccakP` | the standard's KECCAK-p[1600, 12], with its tables computed as FIPS 202 computes them | `Next`: one round of theta, rho, pi, chi and iota |
| `Keccak` | the permutation of `backend/avx2/keccak.rs` and `backend/neon/keccak.rs`, one 64-bit lane of each vector | `Fold`, `ChiRow`, `Iota` |
| `Xof` | the four-way and two-way sponges of the vector backends | absorb, permute, squeeze, a word or a group of words at a time |
| `Sample` | matrix and secret generation in batches, over `Xof` | `StartBatch`, `Sponge` (a step of `Xof`), `Deliver` |
| `Backend` | `build.rs`, `cpu.rs`, the dispatch sites | `SkipFlag`, `ReadOverride`, `RefuseFlag`, `Decide`; per thread `Ask`, `Detect`, `Dispatch` |

Composition: `Sample` extends `Xof` and takes its steps; `Cbd` extends
`VectorUnpack` and takes its steps; `Unpack` and `Pack` extend `SlidingWindow`,
which like `VectorUnpack` extends `PackedStream`; `Pke` and `InnerProduct` extend `Rounding`;
`InnerProduct` and `Ntt` extend `Lanes`; `Parts` extends `Schedules` and `Sums`,
`Transforms` extends `Parts`, and `NttValues` extends `Ntt` and `Parts`; `Pke` extends `Sums` too; `Kem` instantiates `IdealKem`, `Keccak` instantiates `KeccakP`, and
`Ntt` instantiates `Residues`, under refinement mappings; `VectorUnpack` and `Xof` extend `Memory`, whose
assertions their accesses must meet. Where a module takes another's result as
given, a property of the other shows it: `Pke` takes ring products as exact, and
theorem `ComputesHolds` proves that `InnerProduct`'s residues and lift, given the
terms of an inner product of `Pke`, end with that inner product (theorem
`ScheduledExact` of `NttProofs`, that the transforms deliver those residues); `Kem` takes the PKE as a constructor whose output depends on the
key only up to what rounding drops, which `FormsAgree` of `InnerProduct` and
`Reencrypts` of `Pke` show; `Xof` takes the permutation as one step per lane,
which `Implements` of `Keccak` shows to be the standard's.

Abstractions:

- In `Kem`, hashes are free constructors: distinct inputs give distinct outputs,
  and domain separators keep them apart. An altered public key is one whose
  altered bits encryption cannot see, the worst case for agreement.
  A message in `Unlucky` is one whose noise makes decryption fail: decryption
  then returns any other message.
- With the code's parameters the worst noise an execution can have (l N mu/2 =
  2560, 3072 and 3072) is far beyond what decryption tolerates (192, 224 and
  248); that it stays within is overwhelmingly likely, not certain, which is why
  `Kem` has `Unlucky`. `Pke` therefore says what the noise of an execution *is*
  (`Noise`) and that decryption succeeds whenever that noise is tolerable
  (`Tolerable`); how likely this is, is not modelled. Its run is in a ring of
  degree 2 with secrets scaled up until some executions have exactly the noise
  that is still tolerable, and some have more and fail.
- In `InnerProduct`, a step adds a term to residues; that residues of the
  transforms' output are these sums is `Exact` of `NttValues`, proved in
  `NttProofs`.
- In `Xof`, the permutation is one opaque step per lane: a word of the state is
  named by its input, the number of permutations and its position. So is a word
  of the padded input block: which bytes `pad_block` sets (prefix, suffix, domain
  separator, the last byte's high bit) is not modelled, only that a lane's block
  is made from its own suffix. In `Keccak`,
  a word is the set of the positions of its ones, and the lanes of a vector are
  one, since no instruction of the permutation moves bits between them.
- In `Pke`, buffers are sequences of cells that hold a coefficient each; how the
  bits of a cell lie in bytes is what `Pack` and `Unpack` are about.
- In `Schedules`, the roots are computed from psi (62 and 10) instead of listed;
  the values equal the literal tables of `ntt_crt.rs`.
- Each wrapper of a processor instruction is an operator of the module that uses
  it, if it moves lanes, narrows, saturates or widens; lane-wise additions,
  masks and shifts are arithmetic. TLC holds operators against results recorded
  on processors, in `tests/intrinsics_vectors.jsonl` and its NEON counterpart
  (`Recorded`).
- Zeroisation, constant-time selection and formatting are left out.

## 3. Runs

No run uses a constraint; every bound is a constant of the specification and is
named here. Deadlock checking is off exactly where a specification ends: one
product, one element, one call, or (in `Backend`) a refused build. It is on for
`Kem` and `Xof`, which always have a next step.

Besides the properties, TLC evaluates the assumptions of the modules it runs.
Seven of them are checks of their own: `VariantsAssumption` of `InnerProduct`
(the crate's compile-time bound holds for all three parameter sets),
`StandardTables` of `Keccak` (the literal tables of rotations, sources and round
constants are what the standard's recurrences give), `Vectors` of `MCKeccak`
(the permutation reproduces TurboSHAKE outputs of
`tests/turboshake_vectors.jsonl`), `Recorded` of `MCNtt` (instructions
reproduce recorded results), `RootsAssumption` of `NttValues` (the odd powers
of psi are the 256 roots of X^256 + 1, for both primes), `ScheduledAssumption` of
`NttValues` (the schedules that run are those of `Schedules`, at a rank of the
code), and `TransformsAssumption` of `Transforms`, which run `inner_product`
evaluates: on each backend and for each prime the forward transform of either kind
of operand, and the transform back of a sum of one to four products, keep their
bounds within 16 bits, find before every pass what the pass expects, and end with
centred values in order, or with coefficients in order below the prime.

Fairness is assumed in two runs. In `sample`, weak fairness of the next-state
relation: the loops run in the thread of the caller, which goes on when it can.
In `backend`, weak fairness of the build script, which reads a finite list, and
of each thread inside a call (`Detect`, `Dispatch`): the cached probe is an
atomic without a lock, so no step of one thread waits for another. Nothing
obliges a thread to call (`Ask`).

| Run | Question | Instance, and why it is enough |
|---|---|---|
| `kem` | Do sender and holder agree exactly when they should, under restarts, clones, imports, mauled and misdirected messages? Is it an ideal KEM? | One holder, one sender, two seeds, two messages of which one never decrypts, two encapsulations (`MaxEncaps`), two distinct answers (`MaxDecaps`); every property relates at most two of these. Both forms of a key, its mauled copy, and keys replaced in memory are reached. Proved for all instances |
| `inner_product` | Is the lift exact, and is the ciphertext the same from both forms of the key? | Kopis-768 at real size: 768 terms. Operand lists of extremes reach the bound of the code's own compile-time assertion. The lift is taken by every backend, in every lane, from either representative of each residue. Proved for all operands. The run also evaluates `TransformsAssumption`, the six transforms of either direction |
| `pke` | Does decryption invert encryption when the noise is tolerable, are A and its transpose on the right sides, and does re-encryption reproduce the ciphertext? | Degree 2 and rank 2, so that products wrap around and matrices differ from their transposes; T = 3; 81 matrices, and secrets at the ends of a range that brings the noise exactly to the edge of what decryption tolerates and, in some executions, beyond it and to a wrong message. Vectors and ciphertexts go through their buffers. Proved for all degrees, ranks, matrices, T and secrets |
| `unpack`, `pack` | Right bits, no access outside the slice, nothing left over, unrolled paths equal to the loop | Every width the crate instantiates, 32 elements: alignment repeats after eight. Proved for all widths up to 13 and all lengths, the unrolled paths for all contents |
| `cbd` | Are the fields the right bits, is every coefficient the difference of the ones in its own two halves, and does every access meet the assertion of its accessor? | The deserializers alone: all 13 widths of the plan tables, the real 32 groups, both backends. The samplers: the real 256 coefficients; each position in a byte group takes each value of its field. Proved for all widths up to 13, numbers of groups and contents |
| `xof` | Is each lane a sponge of its own, each store inside its buffer, nothing left of an earlier call? | Four lanes, two inputs; the crate's rates and lengths (416, 320, 192) and lengths at which wide and narrow stores meet (1, 31, 137, 167, 169, 185); sequences of calls with reused buffers. Two lanes run in `sample`. Proved for both, all lengths and inputs |
| `sample` | Is each entry what the portable loop samples, also in a last batch that is not full? Is the driver a legal caller of the sponges, and does it end? | Ranks 2 and 3 with two lanes, at the real lengths: full and partial last batches of both kinds. Proved for two and four lanes and all jobs |
| `ntt` | Does a lane overflow, are the roots and layouts right, is the residue right? | The three backends, both primes, 256 coefficients, rank 4, which bounds the other ranks: their schedules run the same passes for fewer pairs, and accumulators only grow. `Fits` (no bound exceeds what its pass tolerates) and `Fitting` (every pass fits what the lanes stand for when it runs) depend on the schedule alone; `ComputesResidues` says that each pass is exact modulo the prime; `Evaluates` and `Exact` are checked on operands spread over their range and on operands at its ends. All six are proved, for all operands and the ranks one to four |
| `keccak` | Is each round, row by row, one step of KECCAK-p[1600, 12]? | Both backends; the zero state, a dense irregular state and two padded blocks. All of the permutation but chi is linear in the bits, and chi is local to a row of five. Proved for all states |
| `ntt_domain` | Are values in the transform domain different integers in different backends? | They are not: see section 5 |
| `backend` | Which implementation runs, is a build refused only for cause, and does everything come to an end? | All lists of up to three flags (`MaxFlags`) of every form: one flag can be the value of another, and two overrides can follow or precede an internal flag. Eight targets that the script tells apart, CPUs with no more or with more than the target promises, two threads. The safety properties are proved for all lists of flags, targets, CPUs and numbers of threads |

The inductive invariants behind the proofs (`UnpackIInv`, `PackIInv`, `CbdIInv`,
`ProductIInv`, `HistoryInv`, `IInv` of `Xof`, `Backend`, `Keccak` and `Pke`) and `TypeOK` of `Kem` are
listed in no run: TLC was given each of them on the instance of its run before
the proof, and the proofs establish them.

What the properties say, module by module, is in the comments above them; what
would break each is its mutant in PROJECT.json.

## 4. Proofs

TLAPS checks these for every value of the constants, from the named assumptions
of each module and nothing else. Eight modules hold them.

- **`KemProofs`**: `Invariance`, `TypeCorrect`, `AgreementHolds`,
  `RejectionHolds`, `BindingHolds`, `StableHolds`, `Refinement`. Agreement is not
  inductive: it speaks of records in two histories and not of how they came
  about. The strengthening `IInv` says that keys in memory are expansions of
  seeds or imports of bytes (`TypeOK`), that each encapsulation is the honest one
  for its key *bytes*, whichever form of the key made it (`EncapsHonest`), that
  the wire carries these and mauled copies (`WireHonest`), and that each answer
  is a function of seed and ciphertext (`DecapsAnswer`). From it, everything
  follows by injectivity of the constructors. The refinement uses the same
  invariant: an `Encapsulate` or `Decapsulate` step adds one entry or repeats
  one, and all other steps stutter.
- **`PkeProofs`**, of the lift: residues are those of the integer sums, the sums
  stay within the terms so far, and the two forms' sums agree modulo 2^10
  (`ProductInvariance`). With Garner's formula and the coprimality of the two
  primes the lift is exact (`ExactHolds`), and so is each backend's vector form
  of it in every lane (`LiftedHolds`), given `ExactnessAssumption`, the crate's
  own compile-time assertion; and the ciphertext does not depend on the form
  (`FormsAgreeHolds`). If the terms are those of an inner product of ring
  elements, the sums are the coefficient of that product (`ComputesHolds`).
- **`PkeProofs`**, of the scheme: for every degree, rank, matrix, T and secrets,
  those of the three parameter sets among them, the two sides' inner products
  differ modulo 2^10 by exactly the noise, which is at most l N mu/2
  (`NoiseBoundHolds`); where the noise of an execution is tolerable, decryption
  returns the message (`DecryptsHolds`); and once the message is recovered,
  whatever the noise, re-encryption from the owner's form reproduces the
  ciphertext made from either form (`ReencryptsHolds`). The only assumption is
  `RingAssumption`, the ranges of the constants. The argument: sums over index
  sets are recursive functions, and induction over numbers gives their linearity
  and the exchange of two sums (`SumExchange`); so products in the ring commute
  with sums (`MulExchange`), and s . (A s') = (A^T s) . s' (`Bilinear`). What is
  left is what rounding added (`Rounded`), times secrets (`RoundingNoise`), and a
  message bit survives it if it is within the margin (`Eighth`, `DecodeCorrect`).
  The invariant `IInv` says what each buffer and vector in use holds in terms of
  matrix and secrets, since the properties compare a result with a message that
  earlier steps have put through bytes; it holds whatever the noise.
- **`ArithmeticProofs`**: a ciphertext coefficient depends on its inner product
  modulo 2^10 only (`EncodeIgnoresHighBits`); decoding returns the message bit
  for every pair of inner products within the margin (`DecodeCorrect`), for each
  T and all 16-bit words. Further the lemmas on Montgomery and Barrett words and
  on lanes that the two modules of transforms cite: a Montgomery product is
  bounded (`MontMulBound`), a Barrett step centres (`BarrettCentres`, over all
  16-bit values), and NEON's doubling multiplies give the same words
  (`NeonMontMulSame`, `NeonBarrettSame`); and induction over a set of numbers,
  from the library's theorem that such a set has a least element.
- **`SerProofs`**, of the portable loops: the window holds exactly the stream
  bits between what was read and what was written (`WindowExact`). From it,
  layout, bounds and completeness. The unrolled 10- and 13-bit paths equal the
  loops for all contents (`DeserializedAgreeHolds`, `SerializedAgreeHolds`): each
  shift and mask keeps the bits of one element.
- **`SerProofs`**, of the vector deserializers and the samplers: an iteration
  loads bytes from the slice or from a copy of its tail; the shuffle brings the
  bytes of an element into its lane, shift and mask leave its own bits, packs and
  permutations restore the order (`LayoutHolds`); every load and store meets its
  accessor's assertion (`AccessesInBoundsHolds`); and each of the three samplers
  turns stretch i of the XOF's bits into the difference of the ones in its halves
  (`CentredBinomialHolds`). The invariant `CbdIInv` ties the cursors of the loop
  to the part of the output that is done.
- **`BackendProofs`**: only an implementation whose instructions the CPU has is
  run (`SoundDispatchHolds`), all threads run the same one (`OneBackendHolds`),
  flags have the effect that is documented (`AsDocumentedHolds`), and a build is
  refused only for the documented causes (`RefusedForCauseHolds`), for every list
  of flags and set of threads. The invariant `IInv` says what the part of the
  flags read so far amounts to, that the verdict is a function of it, and that
  the cached probe, once set, tells the truth about the CPU.
- **`SampleProofs`**: of the sponges, during a phase each lane holds its own
  sponge's state at that phase (`LanesApart`), and bytes behind the cursor are in
  place (`Written`); hence `ExactHolds` and `InBoundsHolds`. Of the driver, its
  steps are steps of `Xof` or leave it alone (`XofContractHolds`), so the
  invariant of `Xof` carries over, and entries before the batch are the serial
  loop's (`AsSerialHolds`).
- **`KeccakProofs`**: in the middle of a round, what theta adds is that of the
  array being read, and the rows written so far are chi over pi, rho and theta of
  it (`Invariant`); so the step that ends a round is one round of the standard,
  and all others stutter (`Implementation`), for every state and both backends.
- **`NttProofs`**, of any schedule: no lane leaves the bound propagated to it
  (`BoundedHolds`) and the residues given to the CRT step are less than one prime
  in magnitude (`CanonicalHolds`), for all operands, under the premise `[]Fits`,
  which speaks of bounds only. Under the same premise, each pass is the one of
  `Residues` on the residues of the lanes (`Refinement`, the property
  `ComputesResidues` of the run): Montgomery and Barrett steps, widening products,
  shuffles and packs change which representative a lane holds and never its
  residue, so all that is left of a backend is its order of passes.
- **`NttProofs`**, of the values: the forward transform leaves at position i the
  value of the operand at the i-th root of X^256 + 1 in bit-reversed order, as a
  centred residue (`EvaluatesHolds`), and the residues handed to the CRT step are
  those of the sum of the negacyclic products (`ExactHolds`), under `[]Fits` and
  `[]Fitting`. The invariant `ValuesInv` says of each lane that it holds, up to the
  factor the inverse levels leave, the value of its part of the polynomial at its
  root, and of each accumulator that it holds the value of the sum of the products
  so far. From the values of the even and the odd coefficients of a part at one
  root, a forward butterfly makes the values of the part at the two square roots
  of it (`StandsSplit`); an inverse one undoes that (`StandsJoin`); and at a root
  of X^256 + 1 the value of a negacyclic product is the product of the values.
  `ArithmeticProofs` has these lemmas, by Horner's rule and induction over
  degrees. `ValuesInv` speaks of evaluations as recursive functions of the proof
  modules and was not given to TLC; its consequences `Evaluates` and `Exact` were.
- **`NttProofs`**, of the code's schedules: the premises hold of them
  (`FitsHolds`, `FittingHolds`), on each backend, for both primes and at every rank,
  and so the conclusions hold of them without premises (`ScheduledBounded`,
  `ScheduledCanonical`, `ScheduledResidues`, `ScheduledEvaluates`,
  `ScheduledExact`). Neither `Fits` nor `Fitting` is inductive, and an inner
  product of four pairs is hundreds of passes long; but it is made of few
  transforms, run again and again. The inductive invariant `HistoryInv` says in
  which phase a schedule is: n pairs done and nothing begun (`AtPair`), j passes
  into the transform of an operand of the next pair (`AtOperand`), between its two
  operands (`BetweenOperands`), j passes into the transform back (`AtSum`), or at
  the end (`AtProduct`); in each phase it says where the program counter is, that
  the accumulators' bound is n times the square of half the prime, and that bounds
  and parts are those of `Trace` after j passes. What is needed of one transform is
  `TransformsAssumption`; the proof shows that nothing an operand leaves behind
  reaches the next one, which pass stands at which place of a concatenated
  schedule of any rank (`PairIs`, `PairsStart`, `ProgramIs`), and that the
  accumulated bound of up to four pairs is what the transform back starts from.

Only model-checked: the two liveness properties (`Sampled`, `Settles`).

Out of the prover's reach: liveness under fairness. `RootsAssumption` and
`TransformsAssumption` are statements about literal tables of hundreds of
numbers, without variables or parameters; TLC evaluates them completely, and the
proofs take up where the tables end. The library's induction theorems take an
operator as a parameter and cannot be instantiated; where induction over numbers
is needed, it is had from the least element of the set of counterexamples
(`ArithmeticProofs`).

## 5. What the code and its documents disagree about

- `arithmetic/ntt_crt.rs:22-24` and `backend/avx2/ntt.rs:9-11` say that values in
  the transform domain are different integers in different backends. They are
  the same: each forward transform ends by centring its residues, in the same
  order (run `ntt_domain`; `Evaluates` holds of all three). Harmless, but it
  means that the backends can be compared stage by stage.

Noted while modelling, without effect on a conclusion of the code's comments:
`ntt_crt.rs:41` gives 3.19q for a lane after five levels, where the propagated
bound is 3.69q (both below four); `ntt_crt.rs:278` gives 2.75q, which is more
than is reached; `backend/avx2/ntt.rs:31-35` says the general growth bound does
not cover AVX2's run of four levels, but it does.

## 6. What is not modelled, and the plan

Not modelled:

- The wrappers of single lane-wise instructions, as definitions of their own, and
  `intrinsics_vectors.rs`, which replays recorded results on them. A specification of each
  instruction would restate it.
- Zeroisation and constant-time selection: no property of values sees them.
- The Lean development, a proof in another system about the extracted code.
- Tests, vectors, benchmarks and the timing check, which exercise the crate.
  Vectors are used where they settle a constant (`Vectors`, `Recorded`).

In order, for the work that follows:

1. `Pke` as a refinement: its ciphertexts as an implementation of the
   constructor `EncryptDeterministic` of `Kem`, over the small rings.
