------------------------------- MODULE MCUnpack -------------------------------
(***************************************************************************)
(* The widths the crate instantiates, at 32 elements: eight bits repeat    *)
(* after at most eight elements, so the window passes through every        *)
(* alignment four times.                                                   *)
(***************************************************************************)
EXTENDS Unpack
=============================================================================
