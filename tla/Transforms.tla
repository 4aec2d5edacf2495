------------------------------- MODULE Transforms ------------------------------
(***************************************************************************)
(* The forward and the inverse transform of each backend, on their own:    *)
(* the histories of bounds and of parts that they run through, for each    *)
(* kind of operand and each rank.  These are finite facts about the code's *)
(* tables and schedules; how inner products are made of transforms is the  *)
(* subject of Ntt and its proofs.                                          *)
(***************************************************************************)
EXTENDS Parts

Backends == {"portable", "avx2", "neon"}

History(mag, at) == [mag |-> Table(mag), at |-> Table(at)]

\* The histories after the first j passes, from h on.
Trace(passes, h, q) ==
  LET t[j \in 0..Len(passes)] ==
        IF j = 0 THEN h
        ELSE LET last == t[j - 1]
             IN  History(BoundsAfter(passes[j], last.mag, q), PartsAfter(passes[j], last.at, q))
  IN  t

\* Where a forward transform starts and ends, and where the inverse starts.
LoadedBound(side, q) == IF side = "public" THEN q \div 2 ELSE WidestSecret
Loaded(side, q) == History([i \in Block |-> LoadedBound(side, q)], Coefficients256(q))
Spectrum(bound, q) == History([i \in Block |-> bound], RootParts(q))
SumBound(rank, q) == ReduceBound(rank * ((q \div 2) * (q \div 2)), q)

Fit16(m) == \A i \in Block : m[i] <= 32767

\* Every pass of a forward transform finds what it expects and leaves lanes in 16
\* bits, and the last one leaves centred values at the roots.
ForwardPass(p, h, q) ==
  /\ p.do \in {"ct", "barrett", "move"}
  /\ Fit16(h.mag)
  /\ p.do = "ct" => \A i \in p.low : Splits(p, h.at, q, i)

ForwardFits(isa, q, side) ==
  LET passes == Forward(isa, q)
      t      == Trace(passes, Loaded(side, q), q)
  IN  /\ \A j \in 1..Len(passes) : ForwardPass(passes[j], t[j - 1], q)
      /\ t[Len(passes)] = Spectrum(q \div 2, q)

\* The same of the transform back, which leaves coefficients in order, small
\* enough for the canonicalisation that follows the last factor.
InversePass(p, h, q) ==
  /\ p.do \in {"gs", "barrett", "move"}
  /\ Fit16(h.mag)
  /\ p.do = "gs" => \A i \in p.low : Joins(p, h.at, q, i)

InverseEnd(h, q) ==
  /\ Fit16(h.mag)
  /\ InOrder(h.at)
  /\ \A i \in Block : MontBound(h.mag[i], InvNttScale(q), q) \in 0..(q - 1)

InverseFits(isa, q, rank) ==
  LET passes == Inverse(isa, q)
      t      == Trace(passes, Spectrum(SumBound(rank, q), q), q)
  IN  /\ \A j \in 1..Len(passes) : InversePass(passes[j], t[j - 1], q)
      /\ InverseEnd(t[Len(passes)], q)

ASSUME TransformsAssumption ==
  \A isa \in Backends, q \in Primes :
    /\ \A side \in {"public", "secret"} : ForwardFits(isa, q, side)
    /\ \A rank \in 1..MaxRank : InverseFits(isa, q, rank)
=============================================================================
