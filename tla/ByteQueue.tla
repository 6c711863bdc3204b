------------------------------ MODULE ByteQueue ------------------------------
(***************************************************************************)
(* What a Buffer promises to those who use it: a FIFO of bytes.            *)
(***************************************************************************)
EXTENDS Sequences, Naturals

CONSTANT Bytes

VARIABLE data   \* bytes put in and not taken out

Init == data = <<>>

Put ==
    /\ data' \in Seq(Bytes)
    /\ Len(data') > Len(data)
    /\ SubSeq(data', 1, Len(data)) = data

Take == \E n \in 1..Len(data) : data' = SubSeq(data, n + 1, Len(data))

Next == Put \/ Take

Spec == Init /\ [][Next]_data
=============================================================================
