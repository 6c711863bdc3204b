------------------------------ MODULE MCPoller ------------------------------
(* Poller on small sets, for TLC. *)
EXTENDS Poller

CONSTANTS a, b

MCChans2 == {a, b}
MCFds2   == {5, 6}

MCInOutHup == {"IN", "OUT", "HUP"}
=============================================================================
