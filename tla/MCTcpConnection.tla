--------------------------- MODULE MCTcpConnection ---------------------------
(* TcpConnection with small sizes, for TLC. *)
EXTENDS TcpConnection

CONSTANTS t1, t2

MCThreads0 == {}
MCThreads1 == {t1}
MCThreads2 == {t1, t2}
MCLens1    == {1}
MCLens13   == {1, 3}
MCLens013  == {0, 1, 3}

MCBothSet   == {{"writeComplete", "highWaterMark"}}
MCEitherSet == {{}, {"writeComplete", "highWaterMark"}}
=============================================================================
