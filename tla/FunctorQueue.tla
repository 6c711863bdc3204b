---------------------------- MODULE FunctorQueue ----------------------------
(***************************************************************************)
(* What runInLoop and queueInLoop promise to the code that calls them,     *)
(* without threads, wakeups or batches: a FIFO of functors that one loop   *)
(* thread runs, each exactly once per submission, one outermost callback   *)
(* at a time.  A functor that the loop thread itself passes to runInLoop   *)
(* is called on the spot, inside the callback being run.                   *)
(***************************************************************************)
EXTENDS SequencesExt

CONSTANTS Functors,  \* functors handed to the loop
          Channels   \* channels whose event callbacks the loop also runs

VARIABLES queue,     \* submitted, not begun
          running    \* callbacks begun and not returned, innermost last

vars == <<queue, running>>

Callbacks == Functors \cup Channels

Init == queue = <<>> /\ running = <<>>

\* queueInLoop from any thread, runInLoop from a thread other than the loop's.
Submit(f) ==
    /\ queue' = Append(queue, f)
    /\ UNCHANGED running

\* The oldest functor starts, and only when no other callback is running.
RunNext ==
    /\ queue # <<>> /\ running = <<>>
    /\ running' = <<Head(queue)>>
    /\ queue' = Tail(queue)

\* runInLoop on the loop thread: a nested call.
RunNow(f) ==
    /\ running' = Append(running, f)
    /\ UNCHANGED queue

\* The callback of a channel with an event starts.
HandleEvent(c) ==
    /\ running = <<>>
    /\ running' = <<c>>
    /\ UNCHANGED queue

Return ==
    /\ running # <<>>
    /\ running' = Front(running)
    /\ UNCHANGED queue

Next ==
    \/ \E f \in Functors : Submit(f) \/ RunNow(f)
    \/ \E c \in Channels : HandleEvent(c)
    \/ RunNext
    \/ Return

Spec == Init /\ [][Next]_vars
=============================================================================
