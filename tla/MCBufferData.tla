----------------------------- MODULE MCBufferData -----------------------------
(* BufferData with small sizes, for TLC. *)
EXTENDS BufferData

MCBytes == {1, 2}
=============================================================================
