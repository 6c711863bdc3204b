------------------------- MODULE EventLoopThreadPool -------------------------
(***************************************************************************)
(* EventLoopThreadPool, its EventLoopThreads and their Threads: the owner, *)
(* on the base loop's thread, starts the loop threads one after the other, *)
(* waiting for each to publish its EventLoop, and later destroys the pool. *)
(* The application knows a loop from the ThreadInitCallback and may end it *)
(* itself.  Of a loop only quit() and loop() matter here; module EventLoop *)
(* has the rest.                                                           *)
(*                                                                         *)
(* The sections under mutex_ are single actions; cond_.wait releases it.   *)
(***************************************************************************)
EXTENDS Naturals, SequencesExt

CONSTANT numThreads   \* numThreads_

ASSUME PoolAssumption == numThreads \in Nat

Workers == 1..numThreads

VARIABLES
    opc,        \* where the owner is in start() or in the destructor
    cur,        \* the EventLoopThread it works on
    sem,        \* value of the semaphore in Thread::start
    loops,      \* loops_
    destroyed,  \* EventLoopThreads whose destructor is done
    wpc,        \* where each loop thread is
    loop,       \* the EventLoopThreads whose loop_ is set
    quit,       \* the threads whose loop has quit_ set
    woken,      \* the threads whose loop's eventfd was written
    appQuit     \* history: the threads on whose loop the application called quit()

ownerVars  == <<opc, cur, loops, destroyed>>
workerVars == <<wpc, loop, quit, woken>>
vars == <<ownerVars, sem, workerVars, appQuit>>

OwnerPc  == {"new", "start", "sem", "check", "waiting", "running",
             "destroy", "quit", "wakeup", "join", "gone", "undefined"}
WorkerPc == {"none", "post", "construct", "publish", "enter", "looping", "left", "cleared",
             "done"}

TypeOK ==
    /\ opc \in OwnerPc
    /\ cur \in 1..(numThreads + 1)
    /\ sem \in 0..1
    /\ loops \in Seq(Workers)
    /\ destroyed \subseteq Workers
    /\ wpc \in [Workers -> WorkerPc]
    /\ loop \subseteq Workers
    /\ quit \subseteq Workers
    /\ woken \subseteq Workers
    /\ appQuit \subseteq Workers

Init ==
    /\ opc = "new" /\ cur = 1 /\ sem = 0
    /\ loops = <<>> /\ destroyed = {}
    /\ wpc = [i \in Workers |-> "none"]
    /\ loop = {} /\ quit = {} /\ woken = {} /\ appQuit = {}

-----------------------------------------------------------------------------
(* The owner starts the pool.                                              *)

OwnerMoves(from, to) == opc = from /\ opc' = to

Start ==
    /\ OwnerMoves("new", "start")
    /\ UNCHANGED <<cur, loops, destroyed, sem, workerVars, appQuit>>

\* Mutant: the semaphore is initialised to 1, as a mutex.
CreateThread_InitOne ==
    /\ OwnerMoves("start", "sem") /\ cur \in Workers
    /\ wpc' = [wpc EXCEPT ![cur] = "post"]
    /\ sem' = 1
    /\ UNCHANGED <<cur, loops, destroyed, loop, quit, woken, appQuit>>

\* new EventLoopThread, startLoop, Thread::start: sem_init and std::thread.
CreateThread ==
    /\ OwnerMoves("start", "sem") /\ cur \in Workers
    /\ wpc' = [wpc EXCEPT ![cur] = "post"]
    /\ sem' = 0
    /\ UNCHANGED <<cur, loops, destroyed, loop, quit, woken, appQuit>>

SemWait ==
    /\ OwnerMoves("sem", "check") /\ sem > 0
    /\ sem' = sem - 1
    /\ UNCHANGED <<cur, loops, destroyed, workerVars, appQuit>>

\* cond_.wait is entered as long as loop_ is null.
Wait ==
    /\ OwnerMoves("check", "waiting") /\ cur \notin loop
    /\ UNCHANGED <<cur, loops, destroyed, sem, workerVars, appQuit>>

TakeLoop_NoTest ==   \* mutant: startLoop returns loop_ without the while
    /\ OwnerMoves("check", "start")
    /\ loops' = Append(loops, cur) /\ cur' = cur + 1
    /\ UNCHANGED <<destroyed, sem, workerVars, appQuit>>

\* startLoop returns loop_, and the pool stores it.
TakeLoop ==
    /\ OwnerMoves("check", "start") /\ cur \in loop
    /\ loops' = Append(loops, cur) /\ cur' = cur + 1
    /\ UNCHANGED <<destroyed, sem, workerVars, appQuit>>

\* start() returns.
Started ==
    /\ OwnerMoves("start", "running") /\ cur \notin Workers
    /\ UNCHANGED <<cur, loops, destroyed, sem, workerVars, appQuit>>

-----------------------------------------------------------------------------
(* A loop thread: the lambda in Thread::start, then threadfunc.            *)

WorkerMoves(i, from, to) == wpc[i] = from /\ wpc' = [wpc EXCEPT ![i] = to]

SemPost(i) ==
    /\ WorkerMoves(i, "post", "construct")
    /\ sem' = sem + 1
    /\ UNCHANGED <<ownerVars, loop, quit, woken, appQuit>>

\* The EventLoop is constructed and the ThreadInitCallback has run.
Construct(i) ==
    /\ WorkerMoves(i, "construct", "publish")
    /\ UNCHANGED <<ownerVars, sem, loop, quit, woken, appQuit>>

Publish_NoNotify(i) ==   \* mutant
    /\ WorkerMoves(i, "publish", "enter")
    /\ loop' = loop \cup {i}
    /\ UNCHANGED <<ownerVars, sem, quit, woken, appQuit>>

\* loop_ = &loop and notify_one, which wakes the owner if it waits.
Publish(i) ==
    /\ WorkerMoves(i, "publish", "enter")
    /\ loop' = loop \cup {i}
    /\ opc' = IF opc = "waiting" /\ cur = i THEN "check" ELSE opc
    /\ UNCHANGED <<cur, loops, destroyed, sem, quit, woken, appQuit>>

\* loop() begins with quit_ = false.
EnterLoop(i) ==
    /\ WorkerMoves(i, "enter", "looping")
    /\ quit' = quit \ {i}
    /\ UNCHANGED <<ownerVars, sem, loop, woken, appQuit>>

LeaveLoop(i) ==
    /\ WorkerMoves(i, "looping", "left") /\ i \in quit
    /\ UNCHANGED <<ownerVars, sem, loop, quit, woken, appQuit>>

\* loop_ = nullptr, still holding mutex_.
ClearLoop(i) ==
    /\ WorkerMoves(i, "left", "cleared")
    /\ loop' = loop \ {i}
    /\ UNCHANGED <<ownerVars, sem, quit, woken, appQuit>>

\* mutex_ is unlocked, the EventLoop destroyed, and the thread ends.
EndThread(i) ==
    /\ WorkerMoves(i, "cleared", "done")
    /\ UNCHANGED <<ownerVars, sem, loop, quit, woken, appQuit>>

\* quit() by the application, which has the loop since its ThreadInitCallback ran.
AppQuits(i) ==
    /\ wpc[i] \in {"publish", "enter", "looping"} /\ i \notin appQuit
    /\ quit' = quit \cup {i}
    /\ woken' = woken \cup {i}
    /\ appQuit' = appQuit \cup {i}
    /\ UNCHANGED <<ownerVars, sem, wpc, loop>>

-----------------------------------------------------------------------------
(* The owner destroys the pool: ~EventLoopThread of each, in turn.         *)

Destroy ==
    /\ OwnerMoves("running", "destroy") /\ cur' = 1
    /\ UNCHANGED <<loops, destroyed, sem, workerVars, appQuit>>

NextThread == opc' = "destroy" /\ destroyed' = destroyed \cup {cur} /\ cur' = cur + 1

\* loop_ is null: the thread is not joined, and ~Thread detaches it.
Detach ==
    /\ opc = "destroy" /\ cur \in Workers /\ cur \notin loop
    /\ NextThread
    /\ UNCHANGED <<loops, sem, workerVars, appQuit>>

\* loop_, tested without mutex_, is set ...
TestLoop ==
    /\ OwnerMoves("destroy", "quit") /\ cur \in Workers /\ cur \in loop
    /\ UNCHANGED <<cur, loops, destroyed, sem, workerVars, appQuit>>

\* ... is read again for loop_->quit(), which stores quit_ ...
QuitLoop ==
    /\ opc = "quit"
    /\ opc' = IF cur \in loop THEN "wakeup" ELSE "undefined"
    /\ quit' = IF cur \in loop THEN quit \cup {cur} ELSE quit
    /\ UNCHANGED <<cur, loops, destroyed, sem, wpc, loop, woken, appQuit>>

WakeLoop_Nothing ==   \* mutant: quit() without wakeup()
    /\ OwnerMoves("wakeup", "join")
    /\ UNCHANGED <<cur, loops, destroyed, sem, workerVars, appQuit>>

\* ... and then wakes the loop, which may have ended by itself and be destroyed.
WakeLoop ==
    /\ opc = "wakeup"
    /\ opc' = IF wpc[cur] = "done" THEN "undefined" ELSE "join"
    /\ woken' = woken \cup {cur}
    /\ UNCHANGED <<cur, loops, destroyed, sem, wpc, loop, quit, appQuit>>

Join_NoWait ==   \* mutant: the thread is not joined
    /\ opc = "join"
    /\ NextThread
    /\ UNCHANGED <<loops, sem, workerVars, appQuit>>

Join ==
    /\ opc = "join" /\ wpc[cur] = "done"
    /\ NextThread
    /\ UNCHANGED <<loops, sem, workerVars, appQuit>>

Destroyed ==
    /\ OwnerMoves("destroy", "gone") /\ cur \notin Workers
    /\ UNCHANGED <<cur, loops, destroyed, sem, workerVars, appQuit>>

-----------------------------------------------------------------------------

\* What the owner does once start() or the destructor is called.
OwnerStep ==
    \/ CreateThread \/ SemWait \/ Wait \/ TakeLoop \/ Started
    \/ Detach \/ TestLoop \/ QuitLoop \/ WakeLoop \/ Join \/ Destroyed

WorkerStep(i) ==
    \/ SemPost(i) \/ Construct(i) \/ Publish(i) \/ EnterLoop(i)
    \/ LeaveLoop(i) \/ ClearLoop(i) \/ EndThread(i)

Next ==
    \/ Start \/ Destroy \/ OwnerStep
    \/ \E i \in Workers : WorkerStep(i) \/ AppQuits(i)

Spec == Init /\ [][Next]_vars

\* Threads are scheduled.  A loop that was told to quit and not woken may sleep on.
FairSpec ==
    /\ Spec
    /\ WF_vars(OwnerStep)
    /\ \A i \in Workers :
           WF_vars(WorkerStep(i) /\ (wpc[i] = "looping" => i \in woken))

-----------------------------------------------------------------------------
(* Properties.                                                             *)

Destroying == opc \in {"destroy", "quit", "wakeup", "join", "gone", "undefined"}

\* What startLoop returned is a constructed EventLoop whose ThreadInitCallback has run, and
\* it stays one until the pool is destroyed, unless the application ends it.
LoopsUsable ==
    \A i \in ToSet(loops) :
        /\ wpc[i] \notin {"none", "post", "construct", "publish"}
        /\ ~Destroying /\ i \notin appQuit => wpc[i] \in {"enter", "looping"}

\* A thread that still runs when its EventLoopThread, with mutex_ and callback_, is gone
\* runs a loop that the application ended: the destructor joins all others.
ThreadsJoined == \A i \in destroyed : wpc[i] = "done" \/ i \in appQuit

\* start() never waits for a signal that was given before: at the semaphore as long as the thread
\* has still to post it, at the condition variable as long as it has still to publish its
\* loop, unless the application has ended that loop before startLoop could return it.
NoLostSignal ==
    /\ opc = "sem" /\ sem = 0 => wpc[cur] = "post"
    /\ opc = "waiting" /\ cur \notin appQuit => wpc[cur] \in {"construct", "publish"}

\* start() returns, whoever is first at the semaphore and at the condition variable, unless
\* the application has ended a loop that start() still waits for.
StartReturns == (opc = "start") ~> (opc = "running" \/ appQuit # {})

\* When the loops have been entered the destructor ends (or has used a loop that is gone).
AllEntered == \A i \in Workers : wpc[i] \notin {"publish", "enter"}
DestructorEndsLoops ==
    (opc = "destroy" /\ AllEntered) ~> (opc \in {"gone", "undefined"})

\* What the comment in EventLoop::quit says, "wake that thread and let it end loop.loop()":
\* the destructor's quit() ends the loop, and join() returns.
DestructorReturns == (opc = "destroy") ~> (opc \in {"gone", "undefined"})
=============================================================================
