--------------------------- MODULE EventLoop_proofs ---------------------------
(* What holds of EventLoop for every set of threads, functors and channels. *)
EXTENDS EventLoop, TLAPS

(***************************************************************************)
(* The inductive invariant.  NoLostWakeup speaks of a loop thread that is  *)
(* in epoll_wait; to be inductive it must hold wherever doPendingFunctor   *)
(* will not run before the next epoll_wait, that is everywhere but in the  *)
(* dispatch phase, and there it rests on which phase allows callbacks and  *)
(* on callingPendingFunctors_ being TRUE exactly while a batch is run.     *)
(***************************************************************************)
CallbackPhase == stack # <<>> => lpc \in {"created", "dispatch", "run"}
BatchPhase ==
    /\ callingPendingFunctors <=> lpc = "run"
    /\ lpc # "run" => functors = <<>>
WakePhase == (lpc # "dispatch" /\ ToSet(pendingFunctors) \ early # {}) => WakeupComing

Inv == TypeOK /\ CallbackPhase /\ BatchPhase /\ WakePhase

\* ToSet of an extended sequence.
LEMMA ToSetAppend ==
    ASSUME NEW S, NEW s \in Seq(S), NEW x
    PROVE  ToSet(Append(s, x)) = ToSet(s) \cup {x}
  BY DEF ToSet

\* The head and the tail of a sequence hold its elements.
LEMMA HeadTailType ==
    ASSUME NEW S, NEW s \in Seq(S), s # <<>>
    PROVE  Head(s) \in S /\ Tail(s) \in Seq(S)
  OBVIOUS

\* Dropping the last element keeps a sequence over the same set.
LEMMA FrontType ==
    ASSUME NEW S, NEW s \in Seq(S), s # <<>>
    PROVE  Front(s) \in Seq(S)
  BY DEF Front

\* Writing the eventfd keeps the counter in range and leaves it readable.
LEMMA WriteWakeupFdEffect ==
    ASSUME wakeupFd \in 0..EventfdMax, WriteWakeupFd
    PROVE  wakeupFd' \in 0..EventfdMax /\ wakeupFd' > 0
  BY EventLoopAssumption DEF WriteWakeupFd

(***************************************************************************)
(* Type correctness.                                                       *)
(***************************************************************************)
LEMMA TypeStep == TypeOK /\ [Next]_vars => TypeOK'
<1> SUFFICES ASSUME TypeOK, [Next]_vars PROVE TypeOK'
  OBVIOUS
<1> USE EventLoopAssumption DEF TypeOK, LoopPc, loopVars, kernelVars
<1>1. CASE Loop
  BY <1>1 DEF Loop
<1>2. CASE ExitLoop
  BY <1>2 DEF ExitLoop
<1>3. CASE EnterPoll
  BY <1>3 DEF EnterPoll
<1>4. CASE Poll
  BY <1>4 DEF Poll, Fired
<1>5. CASE PollTimeout
  BY <1>5 DEF PollTimeout
<1>6. CASE HandleRead
  BY <1>6, WriteWakeupFdEffect DEF HandleRead
<1>7. ASSUME NEW c \in Channels, HandleEvent(c) PROVE TypeOK'
  BY <1>7 DEF HandleEvent
<1>8. CASE Return
  <2>1. stack' \in Seq(Functors \cup Channels)
    BY <1>8, FrontType DEF Return
  <2>2. QED
    BY <2>1, <1>8 DEF Return
<1>9. CASE SwapFunctors
  BY <1>9 DEF SwapFunctors
<1>10. CASE RunFunctor
  <2>1. Head(functors) \in Functors /\ Tail(functors) \in Seq(Functors)
    BY <1>10, HeadTailType DEF RunFunctor
  <2>2. QED
    BY <2>1, <1>10 DEF RunFunctor
<1>11. CASE FinishBatch
  BY <1>11 DEF FinishBatch
<1>12. ASSUME NEW f \in Functors, QueueInLoop(f) PROVE TypeOK'
  BY <1>12, WriteWakeupFdEffect DEF QueueInLoop, Enqueue, MayCall
<1>13. ASSUME NEW f \in Functors, RunInLoop(f) PROVE TypeOK'
  BY <1>13 DEF RunInLoop, MayCall
<1>14. CASE Quit
  BY <1>14 DEF Quit, MayCall
<1>15. ASSUME NEW t \in Threads, NEW f \in Functors, ThreadQueueInLoop(t, f)
       PROVE TypeOK'
  BY <1>15 DEF ThreadQueueInLoop, Enqueue
<1>16. ASSUME NEW t \in Threads, ThreadQuit(t) PROVE TypeOK'
  BY <1>16 DEF ThreadQuit
<1>17. ASSUME NEW t \in Threads, ThreadWakeup(t) PROVE TypeOK'
  BY <1>17, WriteWakeupFdEffect DEF ThreadWakeup
<1>18. ASSUME NEW c \in Channels, EventArrives(c) PROVE TypeOK'
  BY <1>18 DEF EventArrives
<1>19. CASE UNCHANGED vars
  BY <1>19 DEF vars
<1> QED
  BY <1>1, <1>2, <1>3, <1>4, <1>5, <1>6, <1>7, <1>8, <1>9, <1>10, <1>11, <1>12,
     <1>13, <1>14, <1>15, <1>16, <1>17, <1>18, <1>19
  DEF Next, LoopStep, LoopCall, ThreadStep

LEMMA InitType == Init => TypeOK
<1> SUFFICES ASSUME Init PROVE TypeOK
  OBVIOUS
<1>1. pendingFunctors \in Seq(Functors) /\ functors \in Seq(Functors)
      /\ stack \in Seq(Functors \cup Channels)
  BY DEF Init
<1>2. tpc \in [Threads -> {"idle", "wakeup"}]
  BY DEF Init
<1>3. wakeupFd \in 0..EventfdMax /\ calls \in 0..MaxCalls
  BY EventLoopAssumption DEF Init
<1> QED
  BY <1>1, <1>2, <1>3 DEF Init, TypeOK, LoopPc

\* Every variable of the loop stays in its type, for any number of threads, functors
\* and channels and any eventfd limit.
THEOREM TypeCorrect == Spec => []TypeOK
<1> QED
  BY InitType, TypeStep, PTL DEF Spec

(***************************************************************************)
(* The phases of the loop, from which the rest follows.                    *)
(***************************************************************************)
LEMMA PhaseStep ==
    ASSUME TypeOK, CallbackPhase, BatchPhase, [Next]_vars
    PROVE  CallbackPhase' /\ BatchPhase'
<1> USE DEF CallbackPhase, BatchPhase, loopVars, kernelVars
<1>1. CASE LoopStep
  <2>1. CASE Return
    <3>1. stack # <<>> /\ UNCHANGED <<lpc, callingPendingFunctors, functors>>
      BY <2>1 DEF Return
    <3>2. QED
      BY <3>1
  <2>2. CASE RunFunctor
    BY <2>2 DEF RunFunctor
  <2>3. CASE Loop \/ ExitLoop \/ EnterPoll \/ Poll
    BY <2>3 DEF Loop, ExitLoop, EnterPoll, Poll
  <2>4. CASE HandleRead \/ SwapFunctors \/ FinishBatch
    BY <2>4 DEF HandleRead, SwapFunctors, FinishBatch
  <2>5. ASSUME NEW c \in Channels, HandleEvent(c)
        PROVE  CallbackPhase' /\ BatchPhase'
    BY <2>5 DEF HandleEvent
  <2> QED
    BY <1>1, <2>1, <2>2, <2>3, <2>4, <2>5 DEF LoopStep
<1>2. CASE PollTimeout
  BY <1>2 DEF PollTimeout
<1>3. CASE LoopCall
  BY <1>3 DEF LoopCall, Quit, QueueInLoop, Enqueue, RunInLoop, MayCall
<1>4. CASE \E t \in Threads : ThreadStep(t)
  BY <1>4 DEF ThreadStep, ThreadQuit, ThreadWakeup, ThreadQueueInLoop, Enqueue
<1>5. CASE \E c \in Channels : EventArrives(c)
  BY <1>5 DEF EventArrives
<1>6. CASE UNCHANGED vars
  BY <1>6 DEF vars
<1> QED
  BY <1>1, <1>2, <1>3, <1>4, <1>5, <1>6 DEF Next

(***************************************************************************)
(* No lost wakeup.                                                         *)
(***************************************************************************)

\* A wakeup that has been written or will be written is not undone: the counter never
\* goes down, and a thread leaves "wakeup" only by writing it.
LEMMA WakeupStays ==
    ASSUME TypeOK, WakeupComing, [Next]_vars
    PROVE  WakeupComing'
<1> USE EventLoopAssumption DEF loopVars, kernelVars, WakeupComing
<1>1. ASSUME NEW t \in Threads, ThreadStep(t) PROVE WakeupComing'
  <2>1. CASE ThreadWakeup(t)
    BY <2>1, WriteWakeupFdEffect DEF ThreadWakeup, TypeOK
  <2>2. CASE ThreadQuit(t)
    BY <2>2 DEF ThreadQuit, TypeOK
  <2>3. ASSUME NEW f \in Functors, ThreadQueueInLoop(t, f) PROVE WakeupComing'
    BY <2>3 DEF ThreadQueueInLoop, Enqueue, TypeOK
  <2> QED
    BY <1>1, <2>1, <2>2, <2>3 DEF ThreadStep
<1>2. ASSUME wakeupFd' = wakeupFd \/ WriteWakeupFd, tpc' = tpc PROVE WakeupComing'
  BY <1>2, WriteWakeupFdEffect DEF TypeOK
<1>3. CASE LoopStep \/ PollTimeout
  BY <1>2, <1>3 DEF LoopStep, Loop, ExitLoop, EnterPoll, Poll, HandleRead, HandleEvent,
     Return, SwapFunctors, RunFunctor, FinishBatch, PollTimeout
<1>4. CASE LoopCall
  BY <1>2, <1>4 DEF LoopCall, Quit, QueueInLoop, Enqueue, RunInLoop
<1>5. CASE (\E c \in Channels : EventArrives(c)) \/ UNCHANGED vars
  BY <1>2, <1>5 DEF EventArrives, vars
<1> QED
  BY <1>1, <1>3, <1>4, <1>5 DEF Next

LEMMA WakeStep ==
    ASSUME TypeOK, CallbackPhase, BatchPhase, WakePhase, [Next]_vars
    PROVE  WakePhase'
<1> USE DEF WakePhase, loopVars, kernelVars
<1>1. CASE WakeupComing
  BY <1>1, WakeupStays
<1>2. CASE ~WakeupComing
  <2>1. lpc = "dispatch" \/ ToSet(pendingFunctors) \subseteq early
    BY <1>2
  <2>2. ASSUME NEW f \in Functors, QueueInLoop(f) PROVE WakePhase'
    <3>1. CASE lpc = "created"
      <4>1. ToSet(pendingFunctors') = ToSet(pendingFunctors) \cup {f}
        BY <2>2, ToSetAppend DEF QueueInLoop, Enqueue, QueueWakes, TypeOK
      <4>2. early' = early \cup {f}
        BY <2>2, <3>1 DEF QueueInLoop, Enqueue, QueueWakes
      <4>3. QED
        BY <2>1, <3>1, <4>1, <4>2
    <3>2. CASE lpc = "run"
      <4>1. WriteWakeupFd
        BY <2>2, <3>2 DEF QueueInLoop, Enqueue, QueueWakes, BatchPhase
      <4>2. QED
        BY <4>1, WriteWakeupFdEffect DEF TypeOK, WakeupComing
    <3>3. CASE lpc = "dispatch"
      BY <2>2, <3>3 DEF QueueInLoop, Enqueue, QueueWakes
    <3> QED
      BY <2>2, <3>1, <3>2, <3>3 DEF QueueInLoop, Enqueue, QueueWakes, MayCall, CallbackPhase
  <2>3. ASSUME NEW t \in Threads, NEW f \in Functors, ThreadQueueInLoop(t, f)
        PROVE  WakePhase'
    <3>1. tpc'[t] = "wakeup"
      BY <2>3 DEF ThreadQueueInLoop, Enqueue, TypeOK
    <3> QED
      BY <3>1 DEF WakeupComing
  <2>4. CASE SwapFunctors
    BY <2>4 DEF SwapFunctors, ToSet
  <2>5. ASSUME UNCHANGED <<pendingFunctors, early>>, lpc = "dispatch" => lpc' = "dispatch"
        PROVE  WakePhase'
    BY <2>1, <2>5
  <2>6. CASE Loop \/ ExitLoop \/ EnterPoll \/ Poll
    BY <2>5, <2>6 DEF Loop, ExitLoop, EnterPoll, Poll
  <2>7. CASE HandleRead \/ Return \/ RunFunctor \/ FinishBatch
    BY <2>5, <2>7 DEF HandleRead, Return, RunFunctor, FinishBatch
  <2>8. CASE PollTimeout \/ Quit \/ UNCHANGED vars
    BY <2>5, <2>8 DEF PollTimeout, Quit, vars
  <2>9. ASSUME NEW c \in Channels, HandleEvent(c) \/ EventArrives(c) PROVE WakePhase'
    BY <2>5, <2>9 DEF HandleEvent, EventArrives
  <2>10. ASSUME NEW t \in Threads, ThreadQuit(t) \/ ThreadWakeup(t) PROVE WakePhase'
    BY <2>5, <2>10 DEF ThreadQuit, ThreadWakeup
  <2>11. ASSUME NEW f \in Functors, RunInLoop(f) PROVE WakePhase'
    BY <2>5, <2>11 DEF RunInLoop
  <2> QED
    BY <2>2, <2>3, <2>4, <2>6, <2>7, <2>8, <2>9, <2>10, <2>11
    DEF Next, LoopStep, LoopCall, ThreadStep
<1> QED
  BY <1>1, <1>2

THEOREM InvHolds == Spec => []Inv
<1>1. Init => Inv
  BY InitType DEF Init, Inv, CallbackPhase, BatchPhase, WakePhase, ToSet
<1>2. Inv /\ [Next]_vars => Inv'
  BY TypeStep, PhaseStep, WakeStep DEF Inv
<1> QED
  BY <1>1, <1>2, PTL DEF Spec

(***************************************************************************)
(* No lost quit: epoll_wait is entered with quit_ FALSE, and in epoll_wait *)
(* only another thread can set it, which then has its wakeup to do.        *)
(***************************************************************************)
QuitWakes == (lpc = "poll" /\ quit) => WakeupComing

LEMMA QuitStep ==
    ASSUME TypeOK, CallbackPhase, QuitWakes, [Next]_vars
    PROVE  QuitWakes'
<1> USE DEF QuitWakes, loopVars, kernelVars
<1>1. CASE WakeupComing
  BY <1>1, WakeupStays
<1>2. CASE ~WakeupComing
  <2>1. ~(lpc = "poll" /\ quit)
    BY <1>2
  <2>2. ASSUME NEW t \in Threads, ThreadQuit(t) PROVE QuitWakes'
    <3>1. tpc'[t] = "wakeup"
      BY <2>2 DEF ThreadQuit, TypeOK
    <3> QED
      BY <3>1 DEF WakeupComing
  <2>3. CASE Quit
    <3>1. lpc' # "poll"
      BY <2>3 DEF Quit, MayCall, CallbackPhase
    <3> QED
      BY <3>1
  <2>4. ASSUME quit' = quit, lpc' = "poll" => lpc = "poll" PROVE QuitWakes'
    BY <2>1, <2>4
  <2>5. CASE EnterPoll
    BY <2>5 DEF EnterPoll
  <2>6. CASE Loop \/ ExitLoop \/ Poll \/ PollTimeout \/ HandleRead
    BY <2>4, <2>6 DEF Loop, ExitLoop, Poll, PollTimeout, HandleRead
  <2>7. CASE Return \/ SwapFunctors \/ RunFunctor \/ FinishBatch \/ UNCHANGED vars
    BY <2>4, <2>7 DEF Return, SwapFunctors, RunFunctor, FinishBatch, vars
  <2>8. ASSUME NEW c \in Channels, HandleEvent(c) \/ EventArrives(c) PROVE QuitWakes'
    BY <2>4, <2>8 DEF HandleEvent, EventArrives
  <2>9. ASSUME NEW f \in Functors, QueueInLoop(f) \/ RunInLoop(f) PROVE QuitWakes'
    BY <2>4, <2>9 DEF QueueInLoop, RunInLoop
  <2>10. ASSUME NEW t \in Threads, ThreadWakeup(t) PROVE QuitWakes'
    BY <2>4, <2>10 DEF ThreadWakeup
  <2>11. ASSUME NEW t \in Threads, NEW f \in Functors, ThreadQueueInLoop(t, f)
         PROVE  QuitWakes'
    BY <2>4, <2>11 DEF ThreadQueueInLoop
  <2> QED
    BY <2>2, <2>3, <2>5, <2>6, <2>7, <2>8, <2>9, <2>10, <2>11
    DEF Next, LoopStep, LoopCall, ThreadStep
<1> QED
  BY <1>1, <1>2

\* Whatever the threads do, the loop never sleeps in epoll_wait, without a wakeup on its way, on a
\* functor that was handed to it after loop() began or by another thread, or on a quit().
THEOREM NoLostWakeupHolds == Spec => []NoLostWakeup
<1>1. Init => QuitWakes
  BY DEF Init, QuitWakes
<1>2. Inv /\ QuitWakes /\ [Next]_vars => QuitWakes'
  BY QuitStep DEF Inv
<1>3. Inv /\ QuitWakes => NoLostWakeup
  BY DEF Inv, WakePhase, QuitWakes, NoLostWakeup
<1> QED
  BY <1>1, <1>2, <1>3, InvHolds, PTL DEF Spec

(***************************************************************************)
(* The loop implements FunctorQueue.  The abstract queue is what is left   *)
(* of the batch followed by pendingFunctors_, so the swap is a stutter:    *)
(* the batch is empty when it is made (BatchPhase).                        *)
(***************************************************************************)
LEMMA SubmitAtEnd ==
    ASSUME NEW S, NEW s \in Seq(S), NEW u \in Seq(S), NEW x \in S
    PROVE  s \o Append(u, x) = Append(s \o u, x)
  OBVIOUS

LEMMA TakeFromBatch ==
    ASSUME NEW S, NEW s \in Seq(S), NEW u \in Seq(S), s # <<>>
    PROVE  s \o u # <<>> /\ Head(s \o u) = Head(s) /\ Tail(s \o u) = Tail(s) \o u
  OBVIOUS

\* Every step of the loop and of its callers is a step of the FIFO, or leaves it alone.
LEMMA StepRefines ==
    ASSUME Inv, [Next]_vars
    PROVE  [FQ!Next]_(FQ!vars)
<1> USE DEF loopVars, kernelVars, FQ!vars
<1>0. functors \in Seq(Functors) /\ pendingFunctors \in Seq(Functors)
  BY DEF Inv, TypeOK
<1>1. ASSUME UNCHANGED <<functors, pendingFunctors, stack>> PROVE UNCHANGED FQ!vars
  BY <1>1
<1>2. ASSUME NEW f \in Functors, UNCHANGED <<functors, stack>>,
             pendingFunctors' = Append(pendingFunctors, f)
      PROVE  FQ!Next
  <2>1. FQ!Submit(f)
    BY <1>0, <1>2, SubmitAtEnd DEF FQ!Submit
  <2> QED
    BY <2>1 DEF FQ!Next
<1>3. ASSUME NEW f \in Functors, RunInLoop(f) PROVE FQ!Next
  <2>1. FQ!RunNow(f)
    BY <1>3 DEF RunInLoop, FQ!RunNow
  <2> QED
    BY <2>1 DEF FQ!Next
<1>4. ASSUME NEW c \in Channels, HandleEvent(c) PROVE FQ!Next
  <2>1. FQ!HandleEvent(c)
    BY <1>4 DEF HandleEvent, FQ!HandleEvent
  <2> QED
    BY <2>1 DEF FQ!Next
<1>5. CASE Return
  <2>1. FQ!Return
    BY <1>5 DEF Return, FQ!Return, Front, FQ!Front
  <2> QED
    BY <2>1 DEF FQ!Next
<1>6. CASE RunFunctor
  <2>1. functors # <<>> /\ stack = <<>> /\ stack' = <<Head(functors)>>
        /\ functors' = Tail(functors) /\ pendingFunctors' = pendingFunctors
    BY <1>6 DEF RunFunctor
  <2>2. FQ!RunNext
    BY <1>0, <2>1, TakeFromBatch DEF FQ!RunNext
  <2> QED
    BY <2>2 DEF FQ!Next
<1>7. CASE SwapFunctors
  <2>1. functors = <<>> /\ functors' = pendingFunctors /\ pendingFunctors' = <<>>
        /\ stack' = stack
    BY <1>7 DEF SwapFunctors, Inv, BatchPhase
  <2>2. (functors \o pendingFunctors)' = functors \o pendingFunctors
    BY <1>0, <2>1
  <2> QED
    BY <2>1, <2>2
<1>8. CASE LoopStep
  <2>1. CASE Loop \/ ExitLoop \/ EnterPoll \/ Poll \/ HandleRead \/ FinishBatch
    BY <1>1, <2>1 DEF Loop, ExitLoop, EnterPoll, Poll, HandleRead, FinishBatch
  <2> QED
    BY <1>4, <1>5, <1>6, <1>7, <1>8, <2>1 DEF LoopStep
<1>9. CASE LoopCall
  BY <1>1, <1>2, <1>3, <1>9 DEF LoopCall, Quit, QueueInLoop, Enqueue
<1>10. CASE \E t \in Threads : ThreadStep(t)
  BY <1>1, <1>2, <1>10 DEF ThreadStep, ThreadQuit, ThreadWakeup, ThreadQueueInLoop, Enqueue
<1>11. CASE PollTimeout \/ (\E c \in Channels : EventArrives(c)) \/ UNCHANGED vars
  BY <1>1, <1>11 DEF PollTimeout, EventArrives, vars
<1> QED
  BY <1>8, <1>9, <1>10, <1>11 DEF Next

\* The batches, the swap and the nested calls lose, repeat and reorder no functor, for
\* any number of callers.
THEOREM Refinement == Spec => ImplementsFunctorQueue
<1>1. Init => FQ!Init
  BY DEF Init, FQ!Init
<1>2. Inv /\ [Next]_vars => [FQ!Next]_(FQ!vars)
  BY StepRefines
<1> QED
  BY <1>1, <1>2, InvHolds, PTL DEF Spec, ImplementsFunctorQueue, FQ!Spec
=============================================================================
