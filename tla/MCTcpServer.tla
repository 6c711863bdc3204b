---------------------------- MODULE MCTcpServer ----------------------------
(* TcpServer with a few clients, for TLC. *)
EXTENDS TcpServer

CONSTANTS c1, c2, c3, t1

MCClients2  == {c1, c2}
MCClients3  == {c1, c2, c3}
MCStarters  == {t1}
=============================================================================
