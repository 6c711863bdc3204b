------------------------------- MODULE Service -------------------------------
(***************************************************************************)
(* What a TcpServer promises its clients and its application: clients are  *)
(* taken in the order they came, nobody is dropped or told twice, and the  *)
(* end of each is told once.  When the server is destroyed the clients     *)
(* that still wait are refused, and of the others some may hear no end.    *)
(***************************************************************************)
EXTENDS Sequences, SequencesExt

CONSTANT Clients

VARIABLES waiting,   \* clients that have come and are not served yet
          up,        \* connections the application was told of
          down,      \* connections it was told the end of
          serving    \* the server exists

vars == <<waiting, up, down, serving>>

Init == waiting = <<>> /\ up = {} /\ down = {} /\ serving = TRUE

Arrive(c) ==
    /\ serving /\ c \notin ToSet(waiting) \cup up \cup down
    /\ waiting' = Append(waiting, c)
    /\ UNCHANGED <<up, down, serving>>

Serve ==
    /\ serving /\ waiting # <<>>
    /\ up' = up \cup {Head(waiting)} /\ waiting' = Tail(waiting)
    /\ UNCHANGED <<down, serving>>

End(c) ==
    /\ serving /\ c \in up
    /\ up' = up \ {c} /\ down' = down \cup {c}
    /\ UNCHANGED <<waiting, serving>>

Stop ==
    /\ serving /\ serving' = FALSE /\ waiting' = <<>>
    /\ up' \subseteq up /\ down' = down \cup (up \ up')

Next == (\E c \in Clients : Arrive(c) \/ End(c)) \/ Serve \/ Stop

Spec == Init /\ [][Next]_vars
=============================================================================
