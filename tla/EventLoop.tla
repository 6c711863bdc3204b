------------------------------ MODULE EventLoop ------------------------------
(***************************************************************************)
(* One EventLoop object: its loop thread, which runs loop(), and the other *)
(* threads that call runInLoop, queueInLoop and quit on it.                *)
(*                                                                         *)
(* Functors are identities.  One is submitted again only after it returned,*)
(* so the behaviours are infinite and the state space is finite.  What a   *)
(* callback does to the loop is any sequence of at most MaxCalls calls.    *)
(* activeChannels_ is a set: the order epoll reports in is arbitrary.      *)
(***************************************************************************)
EXTENDS Naturals, SequencesExt

CONSTANTS Threads,        \* the threads other than the loop's own
          Functors,       \* std::function<void()> objects
          Channels,       \* the user's channels registered with the poller
          WakeupChannel,  \* wakeupChannel_
          EventfdMax,     \* limit of the eventfd counter (2^64 - 2 in Linux)
          MaxCalls        \* bound: calls an outermost callback makes on the loop

ASSUME EventLoopAssumption ==
    /\ EventfdMax \in Nat \ {0}
    /\ MaxCalls \in Nat
    /\ WakeupChannel \notin Channels
    /\ Functors \cap Channels = {}

VARIABLES
    lpc,                    \* where the loop thread is
    quit,                   \* quit_
    callingPendingFunctors, \* callingPendingFunctors_
    pendingFunctors,        \* pendingFunctors_, guarded by mutex_
    functors,               \* what is left of doPendingFunctor's local vector
    activeChannels,         \* activeChannels_ still to be handled
    wakeupFd,               \* the counter of the eventfd
    ready,                  \* user channels with a pending event (kernel)
    stack,                  \* callbacks the loop thread is in, innermost last
    calls,                  \* calls the outermost callback may still make
    tpc,                    \* other threads: must they still call wakeup()?
    early                   \* history: pending functors that the loop thread
                            \* queued before it called loop()

loopVars   == <<lpc, quit, callingPendingFunctors, functors, activeChannels>>
kernelVars == <<wakeupFd, ready>>
vars == <<lpc, quit, callingPendingFunctors, pendingFunctors, functors,
          activeChannels, wakeupFd, ready, stack, calls, tpc, early>>

LoopPc == {"created", "check", "poll", "dispatch", "run", "stopped"}

TypeOK ==
    /\ lpc \in LoopPc
    /\ quit \in BOOLEAN
    /\ callingPendingFunctors \in BOOLEAN
    /\ pendingFunctors \in Seq(Functors)
    /\ functors \in Seq(Functors)
    /\ activeChannels \subseteq Channels \cup {WakeupChannel}
    /\ wakeupFd \in 0..EventfdMax
    /\ ready \subseteq Channels
    /\ stack \in Seq(Functors \cup Channels)
    /\ calls \in 0..MaxCalls
    /\ tpc \in [Threads -> {"idle", "wakeup"}]
    /\ early \subseteq Functors

\* f is in nobody's hands, so that it can be handed to the loop (again).
Free(f) == f \notin ToSet(pendingFunctors) \cup ToSet(functors) \cup ToSet(stack)

\* The constructor has run; loop() has not been called.
Init ==
    /\ lpc = "created"
    /\ quit = FALSE
    /\ callingPendingFunctors = FALSE
    /\ pendingFunctors = <<>> /\ functors = <<>>
    /\ activeChannels = {}
    /\ wakeupFd = 0 /\ ready = {}
    /\ stack = <<>> /\ calls = MaxCalls
    /\ tpc = [t \in Threads |-> "idle"]
    /\ early = {}

-----------------------------------------------------------------------------
(* The eventfd.  wakeup() adds 1; so does handleRead(), the read callback  *)
(* of wakeupChannel_, which calls write and not read.  A nonblocking write *)
(* that would pass the limit fails, and is only logged.                    *)

WriteWakeupFd_NoLimit == wakeupFd' = wakeupFd + 1   \* mutant
WriteWakeupFd == wakeupFd' = IF wakeupFd < EventfdMax THEN wakeupFd + 1 ELSE wakeupFd

-----------------------------------------------------------------------------
(* The loop thread.                                                        *)

\* Entry of loop(): looping_ = true; quit_ = false.
Loop ==
    /\ lpc = "created" /\ stack = <<>>
    /\ lpc' = "check"
    /\ quit' = FALSE
    /\ UNCHANGED <<callingPendingFunctors, pendingFunctors, functors, activeChannels,
                   wakeupFd, ready, stack, calls, tpc, early>>

\* while(!quit_) fails.
ExitLoop ==
    /\ lpc = "check" /\ quit
    /\ lpc' = "stopped"
    /\ UNCHANGED <<quit, callingPendingFunctors, pendingFunctors, functors,
                   activeChannels, wakeupFd, ready, stack, calls, tpc, early>>

\* while(!quit_) holds: activeChannels_.clear(), and the thread enters epoll_wait.
EnterPoll ==
    /\ lpc = "check" /\ ~quit
    /\ lpc' = "poll"
    /\ activeChannels' = {}
    /\ UNCHANGED <<quit, callingPendingFunctors, pendingFunctors, functors,
                   wakeupFd, ready, stack, calls, tpc, early>>

\* The channels a level-triggered epoll_wait would report now.
Fired == ready \cup (IF wakeupFd > 0 THEN {WakeupChannel} ELSE {})

Poll ==
    /\ lpc = "poll" /\ Fired # {}
    /\ lpc' = "dispatch"
    /\ activeChannels' = Fired
    /\ UNCHANGED <<quit, callingPendingFunctors, pendingFunctors, functors,
                   wakeupFd, ready, stack, calls, tpc, early>>

\* kPollTimeMs passed with no event, or a signal interrupted epoll_wait.
PollTimeout ==
    /\ lpc = "poll" /\ Fired = {}
    /\ lpc' = "dispatch"
    /\ UNCHANGED <<quit, callingPendingFunctors, pendingFunctors, functors,
                   activeChannels, wakeupFd, ready, stack, calls, tpc, early>>

\* EventLoop::handleRead.
HandleRead ==
    /\ lpc = "dispatch" /\ stack = <<>>
    /\ WakeupChannel \in activeChannels
    /\ activeChannels' = activeChannels \ {WakeupChannel}
    /\ WriteWakeupFd
    /\ UNCHANGED <<lpc, quit, callingPendingFunctors, pendingFunctors, functors,
                   ready, stack, calls, tpc, early>>

\* channel->handleEvent for a user channel: its callback consumes the event.
HandleEvent(c) ==
    /\ lpc = "dispatch" /\ stack = <<>>
    /\ c \in activeChannels
    /\ activeChannels' = activeChannels \ {c}
    /\ ready' = ready \ {c}
    /\ stack' = <<c>>
    /\ calls' = MaxCalls
    /\ UNCHANGED <<lpc, quit, callingPendingFunctors, pendingFunctors, functors,
                   wakeupFd, tpc, early>>

\* The innermost callback returns.
Return ==
    /\ stack # <<>>
    /\ stack' = Front(stack)
    /\ UNCHANGED <<loopVars, pendingFunctors, kernelVars, calls, tpc, early>>

\* doPendingFunctor: the flag, then the swap under mutex_.
SwapFunctors ==
    /\ lpc = "dispatch" /\ stack = <<>> /\ activeChannels = {}
    /\ lpc' = "run"
    /\ callingPendingFunctors' = TRUE
    /\ functors' = pendingFunctors
    /\ pendingFunctors' = <<>>
    /\ early' = {}
    /\ UNCHANGED <<quit, activeChannels, kernelVars, stack, calls, tpc>>

RunFunctor ==
    /\ lpc = "run" /\ stack = <<>> /\ functors # <<>>
    /\ stack' = <<Head(functors)>>
    /\ functors' = Tail(functors)
    /\ calls' = MaxCalls
    /\ UNCHANGED <<lpc, quit, callingPendingFunctors, pendingFunctors, activeChannels,
                   kernelVars, tpc, early>>

\* Mutant: run what the functors have queued before going back to the channels.
FinishBatch_Drain ==
    /\ lpc = "run" /\ stack = <<>> /\ functors = <<>>
    /\ lpc' = IF pendingFunctors = <<>> THEN "check" ELSE "run"
    /\ callingPendingFunctors' = (pendingFunctors # <<>>)
    /\ functors' = pendingFunctors /\ pendingFunctors' = <<>>
    /\ UNCHANGED <<quit, activeChannels, kernelVars, stack, calls, tpc, early>>

FinishBatch ==
    /\ lpc = "run" /\ stack = <<>> /\ functors = <<>>
    /\ lpc' = "check"
    /\ callingPendingFunctors' = FALSE
    /\ UNCHANGED <<quit, pendingFunctors, functors, activeChannels, kernelVars,
                   stack, calls, tpc, early>>

-----------------------------------------------------------------------------
(* Calls made by the loop thread: from a callback, or before loop(), where *)
(* the ThreadInitCallback and the code that set the loop up run.           *)

MayCall == (stack # <<>> \/ lpc = "created") /\ calls > 0

\* pendingFunctors_.emplace_back(cb).
Enqueue_Front(f) == <<f>> \o pendingFunctors   \* mutant
Enqueue(f) == Append(pendingFunctors, f)

\* Does queueInLoop call wakeup() on the loop thread?  Only while functors are being run.
QueueWakes_Never == FALSE   \* mutant
QueueWakes == callingPendingFunctors

\* queueInLoop with isInLoopThread().
QueueInLoop(f) ==
    /\ MayCall /\ Free(f)
    /\ calls' = calls - 1
    /\ pendingFunctors' = Enqueue(f)
    /\ IF QueueWakes THEN WriteWakeupFd ELSE UNCHANGED wakeupFd
    /\ early' = IF lpc = "created" THEN early \cup {f} ELSE early
    /\ UNCHANGED <<loopVars, ready, stack, tpc>>

\* runInLoop with isInLoopThread(): cb() at once.
RunInLoop(f) ==
    /\ MayCall /\ Free(f)
    /\ calls' = calls - 1
    /\ stack' = Append(stack, f)
    /\ UNCHANGED <<loopVars, pendingFunctors, kernelVars, tpc, early>>

\* quit with isInLoopThread().
Quit ==
    /\ MayCall
    /\ calls' = calls - 1
    /\ quit' = TRUE
    /\ UNCHANGED <<lpc, callingPendingFunctors, pendingFunctors, functors,
                   activeChannels, kernelVars, stack, tpc, early>>

-----------------------------------------------------------------------------
(* Other threads.  The push under mutex_ and the write to the eventfd are  *)
(* two steps, and the loop runs between them.                              *)

\* queueInLoop, and runInLoop, which calls it: emplace_back under mutex_.
ThreadQueueInLoop(t, f) ==
    /\ tpc[t] = "idle" /\ Free(f)
    /\ pendingFunctors' = Enqueue(f)
    /\ tpc' = [tpc EXCEPT ![t] = "wakeup"]
    /\ UNCHANGED <<loopVars, kernelVars, stack, calls, early>>

\* Mutant: quit without wakeup().
ThreadQuit_NoWakeup(t) ==
    /\ tpc[t] = "idle"
    /\ quit' = TRUE
    /\ UNCHANGED <<lpc, callingPendingFunctors, pendingFunctors, functors,
                   activeChannels, kernelVars, stack, calls, tpc, early>>

\* quit: quit_ = true.
ThreadQuit(t) ==
    /\ tpc[t] = "idle"
    /\ quit' = TRUE
    /\ tpc' = [tpc EXCEPT ![t] = "wakeup"]
    /\ UNCHANGED <<lpc, callingPendingFunctors, pendingFunctors, functors,
                   activeChannels, kernelVars, stack, calls, early>>

\* wakeup(), the last thing both do.
ThreadWakeup(t) ==
    /\ tpc[t] = "wakeup"
    /\ WriteWakeupFd
    /\ tpc' = [tpc EXCEPT ![t] = "idle"]
    /\ UNCHANGED <<loopVars, pendingFunctors, ready, stack, calls, early>>

\* The kernel: an event arrives for a user channel.
EventArrives(c) ==
    /\ ready' = ready \cup {c}
    /\ UNCHANGED <<loopVars, pendingFunctors, wakeupFd, stack, calls, tpc, early>>

-----------------------------------------------------------------------------

\* What the loop thread does on its own, epoll_wait returning without an event excepted.
LoopStep ==
    \/ Loop \/ ExitLoop \/ EnterPoll \/ Poll
    \/ HandleRead \/ Return
    \/ SwapFunctors \/ RunFunctor \/ FinishBatch
    \/ \E c \in Channels : HandleEvent(c)

LoopCall == Quit \/ \E f \in Functors : QueueInLoop(f) \/ RunInLoop(f)

ThreadStep(t) ==
    \/ ThreadQuit(t) \/ ThreadWakeup(t)
    \/ \E f \in Functors : ThreadQueueInLoop(t, f)

Next ==
    \/ LoopStep \/ PollTimeout \/ LoopCall
    \/ \E t \in Threads : ThreadStep(t)
    \/ \E c \in Channels : EventArrives(c)

Spec == Init /\ [][Next]_vars

\* The loop thread and a thread inside queueInLoop or quit are scheduled, and
\* callbacks return.  Nothing is assumed of poll timeouts, of events or of callers.
FairSpec ==
    /\ Spec
    /\ WF_vars(LoopStep)
    /\ \A t \in Threads : WF_vars(ThreadWakeup(t))

-----------------------------------------------------------------------------
(* Properties.                                                             *)

\* Some thread has changed the loop's state and will still write the eventfd.
WakeupComing == wakeupFd > 0 \/ \E t \in Threads : tpc[t] = "wakeup"

\* No lost wakeup: a loop thread that sits in epoll_wait while functors are pending, or although
\* quit_ was set, wherever the thread was between its test of quit_ and epoll_wait by then, has
\* been, or is about to be, woken.  The exception is a functor that the loop thread itself
\* queued before loop(): queueInLoop does not wake its own thread then.
NoLostWakeup ==
    (lpc = "poll" /\ (quit \/ ToSet(pendingFunctors) \ early # {})) => WakeupComing

\* A functor that is queued on a loop that is awake (or will be woken) is begun, or
\* the loop stops, even if epoll_wait never times out.
Queued(f) == f \in ToSet(pendingFunctors) \cup ToSet(functors)
EveryFunctorRuns ==
    \A f \in Functors :
        (Queued(f) /\ f \notin early) ~> (~Queued(f) \/ lpc = "stopped")

\* Functors that keep queueing functors do not keep the loop from its channels: an
\* event is handled, or the loop stops.
EventsNotStarved ==
    \A c \in Channels : (c \in ready) ~> (c \notin ready \/ lpc = "stopped")

\* A quit requested once loop() has been entered ends loop(), whichever thread asked.
QuitWhileLoopingStops == (quit /\ lpc # "created") ~> (lpc = "stopped")

\* A wakeup is an event the loop consumes: once handled the eventfd is not readable
\* any more and the loop can block in epoll_wait again.
WakeupConsumed == (wakeupFd > 0) ~> (wakeupFd = 0 \/ lpc = "stopped")

\* The loop implements the FIFO its callers rely on: the vector swap, the batches and
\* the nested calls lose, repeat and reorder nothing.
FQ == INSTANCE FunctorQueue WITH queue <- functors \o pendingFunctors, running <- stack
ImplementsFunctorQueue == FQ!Spec
=============================================================================
