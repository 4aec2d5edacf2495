-------------------------------- MODULE MCPack --------------------------------
(***************************************************************************)
(* The widths the crate instantiates, at 32 elements: the window passes    *)
(* through every alignment four times.                                     *)
(***************************************************************************)
EXTENDS Pack
=============================================================================
