------------------------------ MODULE ByteStream ------------------------------
(***************************************************************************)
(* What becomes of the bytes that are sent on a TcpConnection, without a   *)
(* Channel, the indices of a Buffer or functors.  The bytes taken from the *)
(* application are sent once, in order, from the report of the beginning   *)
(* to that of the end, and a FIN is sent once and behind the last of them. *)
(*                                                                         *)
(* They are not all that is sent.  writeFd offers as many bytes as the     *)
(* buffer has free space, so that stale bytes, which were sent before or   *)
(* were never written, follow the last one that waited, and more of them   *)
(* go out while none waits.  What is promised is where they can be: never  *)
(* between bytes that wait together, and never on a connection on which no *)
(* byte has had to wait.  Nor does a shutdown() end the taking of bytes: a *)
(* send that tested state_ before it is still served until the FIN.  After *)
(* the report of the end a thread's late calls may have any of these       *)
(* effects; only the account of the bytes that were taken is kept.         *)
(***************************************************************************)
EXTENDS Naturals

VARIABLES phase,     \* "nothing", "up", "down": what the application was told last
          accepted,  \* number of bytes taken from the application
          sent,      \* how many of these were sent, in their turn
          waiting,   \* how many of these are still to be sent
          buffered,  \* bytes have had to wait since the beginning
          stale,     \* bytes were sent that were not taken, or were sent before
          fin        \* the FIN was sent

vars == <<phase, accepted, sent, waiting, buffered, stale, fin>>

Init ==
    /\ phase = "nothing" /\ accepted = 0 /\ sent = 0 /\ waiting = 0
    /\ buffered = FALSE /\ stale = FALSE /\ fin = FALSE

Begin ==
    /\ phase = "nothing" /\ phase' = "up"
    /\ UNCHANGED <<accepted, sent, waiting, buffered, stale, fin>>

Open == phase = "up" /\ ~fin /\ UNCHANGED phase

\* No byte is lost or sent twice in its turn.
Accounted == accepted' = sent' + waiting'

\* Bytes are taken and wait.
Store ==
    /\ Open
    /\ accepted' > accepted /\ waiting' = waiting + (accepted' - accepted)
    /\ buffered' = TRUE
    /\ UNCHANGED <<sent, stale, fin>>

\* Bytes are taken and the first of them sent, when there are none that wait.
SendAtOnce ==
    /\ Open /\ waiting = 0
    /\ sent' > sent /\ accepted' = accepted + (sent' - sent) + waiting'
    /\ buffered' = (buffered \/ waiting' > 0)
    /\ UNCHANGED <<stale, fin>>

\* Bytes that waited are sent; stale ones may follow the last of them.
SendStored ==
    /\ Open
    /\ sent' > sent /\ waiting = waiting' + (sent' - sent)
    /\ (stale' = stale) \/ (waiting' = 0 /\ stale')
    /\ UNCHANGED <<accepted, buffered, fin>>

\* Stale bytes are sent and nothing else.
SendStale ==
    /\ Open /\ waiting = 0 /\ buffered
    /\ stale' = TRUE
    /\ UNCHANGED <<accepted, sent, waiting, buffered, fin>>

CloseHalf ==
    /\ Open /\ waiting = 0
    /\ fin' = TRUE
    /\ UNCHANGED <<accepted, sent, waiting, buffered, stale>>

\* The end gives up what waits.
End ==
    /\ phase = "up" /\ phase' = "down"
    /\ buffered' = FALSE
    /\ UNCHANGED <<accepted, sent, waiting, stale, fin>>

Late ==
    /\ phase = "down" /\ UNCHANGED <<phase, buffered>>
    /\ accepted' >= accepted /\ sent' >= sent /\ Accounted
    /\ (stale => stale') /\ (fin => fin')

Next ==
    \/ Begin \/ Store \/ SendAtOnce \/ SendStored \/ SendStale \/ CloseHalf \/ End \/ Late

Spec == Init /\ [][Next]_vars
=============================================================================
