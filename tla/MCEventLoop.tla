---------------------------- MODULE MCEventLoop ----------------------------
(* EventLoop on small sets, for TLC. *)
EXTENDS EventLoop

CONSTANTS t1, t2, f1, f2, f3, c1

MCThreads2  == {t1, t2}
MCFunctors3 == {f1, f2, f3}
MCFunctors2 == {f1, f2}
MCChannels1 == {c1}
=============================================================================
