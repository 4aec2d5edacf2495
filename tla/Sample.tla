--------------------------------- MODULE Sample -------------------------------
(***************************************************************************)
(* gen_matrix_from_seed and gen_secret_from_seed of the vector backends    *)
(* (src/src/backend/avx2/sample.rs, src/src/backend/neon/sample.rs): the   *)
(* entries are sampled in batches of Ways sponges, in row-major order.     *)
(* The portable code (src/src/sample.rs) runs one sponge per entry, fed    *)
(* with the entry's own indices; this is what every backend must give.     *)
(* An entry is represented by the XOF bytes it is unpacked from.           *)
(***************************************************************************)
EXTENDS Xof

CONSTANT Jobs  \* [kind, L, mu]: a matrix of rank L, or a secret of rank L

VARIABLES job,
          pc,       \* "batch" between batches, "sampling" during one
          first,    \* first entry of the next batch
          sampled   \* the bytes of each entry, NotYet before it is sampled

sampleVars == <<vars, job, pc, first, sampled>>

NotYet == <<>>

Entries(j) == IF j.kind = "matrix" THEN j.L * j.L ELSE j.L

\* The index bytes of an entry.
Indices(j, entry) ==
  IF j.kind = "matrix" THEN <<entry \div j.L, entry % j.L>> ELSE <<entry>>

\* The XOF of each kind: TurboSHAKE128 for 13-bit coefficients, TurboSHAKE256
\* for the mu bits of a binomial coefficient.
CallOf(j) ==
  IF j.kind = "matrix" THEN [rate |-> 168, n |-> (256 * 13) \div 8]
  ELSE [rate |-> 136, n |-> (256 * j.mu) \div 8]

ASSUME JobsAssumption ==
  \A j \in Jobs :
    /\ j.kind \in {"matrix", "secret"} /\ j.L \in 2..4 /\ j.mu \in {6, 8, 10}
    /\ CallOf(j) \in Calls
    /\ \A e \in 0..(Entries(j) - 1) : Indices(j, e) \in Suffixes

SampleInit ==
  /\ Init
  /\ job \in Jobs
  /\ pc = "batch"
  /\ first = 0
  /\ sampled = [e \in 0..(Entries(job) - 1) |-> NotYet]

\* Mutants of BatchEntry: lanes past the end invent an index, or stop one early.
BatchEntryUnclamped(lane) == first + lane
BatchEntryShort(lane) == Minimum(first + lane, Entries(job) - 2)

\* The entry a lane works on; lanes past the end repeat the last one.
BatchEntry(lane) == Minimum(first + lane, Entries(job) - 1)

StartBatch ==
  /\ pc = "batch" /\ first < Entries(job)
  /\ Call(CallOf(job), [lane \in Lanes |-> Indices(job, BatchEntry(lane))])
  /\ pc' = "sampling"
  /\ UNCHANGED <<job, first, sampled>>

Sponge ==
  /\ Step
  /\ UNCHANGED <<job, pc, first, sampled>>

\* Mutant of Deliver: the next batch is the same one again.
DeliverAgain ==
  /\ pc = "sampling" /\ phase = "returned"
  /\ sampled' = [e \in DOMAIN sampled |->
                   IF e - first \in Lanes THEN out[e - first] ELSE sampled[e]]
  /\ pc' = "batch"
  /\ UNCHANGED <<vars, job, first>>

\* The bytes of the lanes that are entries are unpacked into them.
Deliver ==
  /\ pc = "sampling" /\ phase = "returned"
  /\ sampled' = [e \in DOMAIN sampled |->
                   IF e - first \in Lanes THEN out[e - first] ELSE sampled[e]]
  /\ first' = first + Ways
  /\ pc' = "batch"
  /\ UNCHANGED <<vars, job>>

SampleNext == StartBatch \/ Sponge \/ Deliver

SampleSpec == SampleInit /\ [][SampleNext]_sampleVars

\* The loops run in the caller's thread, which goes on when it can.
FairSampleSpec == SampleSpec /\ WF_sampleVars(SampleNext)
-----------------------------------------------------------------------------
\* The bytes the portable code unpacks an entry from.
Serial(entry) ==
  LET c == CallOf(job)
  IN  [p \in 0..(c.n - 1) |-> [suffix |-> Indices(job, entry),
                               block |-> (p \div c.rate) + 1, pos |-> p % c.rate]]

\* Batching changes nothing: the entries sampled so far are those before the
\* batch, each from the bytes the portable loop gives it, whatever the number
\* of lanes leaves over (sample.rs:161-175).
AsSerial ==
  \A e \in DOMAIN sampled : sampled[e] = IF e < first THEN Serial(e) ELSE NotYet

\* The driver keeps the sponges' contract: it calls them with the rates,
\* lengths and inputs they are made for, no sooner than they have returned, and
\* leaves their state alone.
XofContract == Spec

\* Every entry is sampled in the end: neither the batches nor the absorbing and
\* squeezing loops of the sponges under them run for ever or stop early.
Sampled == <>(\A e \in DOMAIN sampled : sampled[e] # NotYet)
===============================================================================
