----------------------------- MODULE SlidingWindow -----------------------------
(***************************************************************************)
(* What deserialize_generic and serialize_generic of src/src/ser.rs have   *)
(* in common: a 32-bit window that slides over a packed stream, and the    *)
(* cursors into the elements and into the bytes.  Module Unpack moves it   *)
(* from bytes to elements, module Pack from elements to bytes.             *)
(***************************************************************************)
EXTENDS PackedStream

VARIABLES window,          \* pending bits
          bits_in_window,
          byte_pos,        \* next byte to read or write
          idx              \* next element to take or insert
=============================================================================
