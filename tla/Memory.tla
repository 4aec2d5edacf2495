--------------------------------- MODULE Memory -------------------------------
(***************************************************************************)
(* The assertions of the vector accessors (src/src/backend/avx2/           *)
(* intrinsics.rs, neon/intrinsics.rs).  An access whose assertion fails    *)
(* panics; one whose assertion holds reads or writes through a pointer.    *)
(* They are formulated so that no sum is taken that could wrap.            *)
(***************************************************************************)
EXTENDS Integers

\* The accessors indexed in whole vectors of w elements, of an array of len.
VectorFits(len, w, i) == i < len \div w

\* The byte accessors: size bytes at an offset of len.
BytesFit(len, size, offset) == offset <= len /\ len - offset >= size
===============================================================================
