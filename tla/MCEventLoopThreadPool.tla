------------------------ MODULE MCEventLoopThreadPool ------------------------
(* EventLoopThreadPool with a few threads, for TLC. *)
EXTENDS EventLoopThreadPool
=============================================================================
