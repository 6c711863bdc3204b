--------------------- MODULE EventLoopThreadPool_proofs ---------------------
(***************************************************************************)
(* Proofs about EventLoopThreadPool for every number of threads: type      *)
(* correctness, that the loops handed out are usable and the threads       *)
(* joined, and that no signal to start() is lost.                          *)
(***************************************************************************)
EXTENDS EventLoopThreadPool, TLAPS

Unpublished == {"none", "post", "construct", "publish"}
Ended       == {"left", "cleared", "done"}

\* The owner works on an existing thread, and only that one can be at its semaphore.
OwnerAt ==
    opc \in {"sem", "check", "waiting", "quit", "wakeup", "join"} => cur \in Workers
SemOwned == \A i \in Workers : wpc[i] = "post" => i = cur /\ opc = "sem" /\ sem = 0

\* start() creates the threads in turn.
NotCreated ==
    \A i \in Workers :
        (\/ opc = "new"
         \/ opc = "start" /\ i >= cur
         \/ opc \in {"sem", "check", "waiting"} /\ i > cur)
            => wpc[i] = "none"

\* loop_ is set exactly from publishing to the end of loop().
LoopPointer == \A i \in Workers : i \in loop <=> wpc[i] \in {"enter", "looping", "left"}

\* The threads that start() is done with have published their loop; they are all of them
\* once start() has returned.
Published ==
    \A i \in Workers : (i < cur \/ opc = "running" \/ Destroying) => wpc[i] \notin Unpublished

Stored == \A i \in ToSet(loops) : wpc[i] \notin Unpublished

\* A loop that was told to quit was told so by the application, or by the destructor, which
\* has joined its thread or is at it.
QuitBy ==
    \A i \in Workers :
        (i \in quit \/ wpc[i] \in Ended) /\ i \notin appQuit
            => i \in destroyed \/ (i = cur /\ opc \in {"wakeup", "join", "undefined"})

\* No EventLoopThread is destroyed before the pool is.
NoneDestroyed == destroyed # {} => Destroying

TypeInv == TypeOK /\ OwnerAt /\ SemOwned
PoolInv ==
    /\ NotCreated /\ LoopPointer /\ Published /\ Stored
    /\ QuitBy /\ NoneDestroyed /\ ThreadsJoined

-----------------------------------------------------------------------------

LEMMA ToSetAppend ==
    ASSUME NEW S, NEW s \in Seq(S), NEW x
    PROVE  ToSet(Append(s, x)) = ToSet(s) \cup {x}
<1>1. /\ DOMAIN s = 1..Len(s) /\ Len(s) \in Nat
      /\ DOMAIN Append(s, x) = 1..(Len(s) + 1)
      /\ \A k \in 1..Len(s) : Append(s, x)[k] = s[k]
      /\ Append(s, x)[Len(s) + 1] = x
  OBVIOUS
<1> QED
  BY <1>1, SMTT(30) DEF ToSet

LEMMA TypeInit == Init => TypeInv
  BY PoolAssumption DEF Init, TypeInv, TypeOK, OwnerAt, SemOwned, OwnerPc, WorkerPc, Workers

LEMMA TypeStep == TypeInv /\ [Next]_vars => TypeInv'
<1> SUFFICES ASSUME TypeInv, [Next]_vars PROVE TypeInv'
  OBVIOUS
<1> USE PoolAssumption DEF TypeInv, TypeOK, OwnerAt, SemOwned, OwnerPc, WorkerPc, Workers,
        ownerVars, workerVars, OwnerMoves, WorkerMoves
<1>1. CASE Start
  BY <1>1 DEF Start
<1>2. CASE Destroy
  BY <1>2 DEF Destroy
<1>3. CASE OwnerStep
  <2>1. CASE CreateThread
    BY <2>1 DEF CreateThread
  <2>2. CASE SemWait
    BY <2>2 DEF SemWait
  <2>3. CASE Wait
    BY <2>3 DEF Wait
  <2>4. CASE TakeLoop
    BY <2>4 DEF TakeLoop
  <2>5. CASE Started
    BY <2>5 DEF Started
  <2>6. CASE Detach
    BY <2>6 DEF Detach, NextThread
  <2>7. CASE TestLoop
    BY <2>7 DEF TestLoop
  <2>8. CASE QuitLoop
    BY <2>8 DEF QuitLoop
  <2>9. CASE WakeLoop
    BY <2>9 DEF WakeLoop
  <2>10. CASE Join
    BY <2>10 DEF Join, NextThread
  <2>11. CASE Destroyed
    BY <2>11 DEF Destroyed
  <2> QED
    BY <1>3, <2>1, <2>2, <2>3, <2>4, <2>5, <2>6, <2>7, <2>8,
       <2>9, <2>10, <2>11 DEF OwnerStep
<1>4. ASSUME NEW i \in Workers, WorkerStep(i) \/ AppQuits(i) PROVE TypeInv'
  <2>1. CASE SemPost(i)
    BY <2>1 DEF SemPost
  <2>2. CASE Construct(i)
    BY <2>2 DEF Construct
  <2>3. CASE Publish(i)
    BY <2>3 DEF Publish
  <2>4. CASE EnterLoop(i)
    BY <2>4 DEF EnterLoop
  <2>5. CASE LeaveLoop(i)
    BY <2>5 DEF LeaveLoop
  <2>6. CASE ClearLoop(i)
    BY <2>6 DEF ClearLoop
  <2>7. CASE EndThread(i)
    BY <2>7 DEF EndThread
  <2>8. CASE AppQuits(i)
    BY <2>8 DEF AppQuits
  <2> QED
    BY <1>4, <2>1, <2>2, <2>3, <2>4, <2>5, <2>6, <2>7, <2>8 DEF WorkerStep
<1>5. CASE UNCHANGED vars
  BY <1>5 DEF vars
<1> QED
  BY <1>1, <1>2, <1>3, <1>4, <1>5 DEF Next

LEMMA TypeInvHolds == Spec => []TypeInv
  BY TypeInit, TypeStep, PTL DEF Spec

\* The owner's position, its counter, the threads and loops_ stay in their sets: the
\* semaphore of Thread::start is posted once per thread.
THEOREM TypeCorrect == Spec => []TypeOK
<1>1. TypeInv => TypeOK
  BY DEF TypeInv
<1> QED
  BY <1>1, TypeInvHolds, PTL

-----------------------------------------------------------------------------

LEMMA PoolInit == Init => PoolInv
  BY PoolAssumption DEF Init, PoolInv, NotCreated, LoopPointer, Published, Stored, QuitBy,
     NoneDestroyed, ThreadsJoined, Destroying, Workers, ToSet, Unpublished, Ended

LEMMA PoolStep == TypeInv /\ PoolInv /\ [Next]_vars => PoolInv'
<1> SUFFICES ASSUME TypeInv, PoolInv, [Next]_vars PROVE PoolInv'
  OBVIOUS
<1> USE PoolAssumption DEF TypeInv, TypeOK, OwnerAt, SemOwned, OwnerPc, WorkerPc, Workers,
        ownerVars, workerVars, OwnerMoves, WorkerMoves, PoolInv, NotCreated,
        LoopPointer, Published, Stored, QuitBy, NoneDestroyed, ThreadsJoined, Destroying,
        Unpublished, Ended
<1>1. CASE Start
  BY <1>1 DEF Start
<1>2. CASE Destroy
  BY <1>2 DEF Destroy
<1>3. CASE OwnerStep
  <2>1. CASE CreateThread
    <3>1. wpc[cur] = "none" /\ cur \in Workers
      BY <2>1 DEF CreateThread
    <3>2. cur \notin ToSet(loops) /\ cur \notin loop
      BY <3>1
    <3>3. destroyed = {} /\ destroyed' = {}
      BY <2>1 DEF CreateThread
    <3>4. ToSet(loops') = ToSet(loops) /\ ToSet(loops) \subseteq Workers
      BY <2>1 DEF CreateThread, ToSet
    <3>5. /\ \A i \in Workers \ {cur} : wpc'[i] = wpc[i]
          /\ wpc'[cur] = "post" /\ opc' = "sem" /\ opc = "start"
      BY <2>1 DEF CreateThread
    <3>6. NotCreated' /\ LoopPointer' /\ Published'
      BY <2>1, <3>1, <3>2, <3>5 DEF CreateThread
    <3>7. Stored'
      BY <3>1, <3>2, <3>4, <3>5
    <3>8. NoneDestroyed' /\ ThreadsJoined'
      BY <3>3
    <3>9. quit' = quit /\ appQuit' = appQuit
      BY <2>1 DEF CreateThread
    <3>10. QuitBy'
      BY <3>1, <3>3, <3>5, <3>9
    <3> QED
      BY <3>6, <3>7, <3>8, <3>10
  <2>2. CASE SemWait
    BY <2>2 DEF SemWait
  <2>3. CASE Wait
    BY <2>3 DEF Wait
  <2>4. CASE TakeLoop
    <3>1. ToSet(loops') = ToSet(loops) \cup {cur}
      BY <2>4, ToSetAppend DEF TakeLoop
    <3> QED
      BY <2>4, <3>1 DEF TakeLoop
  <2>5. CASE Started
    BY <2>5 DEF Started
  <2>6. CASE Detach
    BY <2>6 DEF Detach, NextThread
  <2>7. CASE TestLoop
    BY <2>7 DEF TestLoop
  <2>8. CASE QuitLoop
    BY <2>8 DEF QuitLoop
  <2>9. CASE WakeLoop
    BY <2>9 DEF WakeLoop
  <2>10. CASE Join
    BY <2>10 DEF Join, NextThread
  <2>11. CASE Destroyed
    BY <2>11 DEF Destroyed
  <2> QED
    BY <1>3, <2>1, <2>2, <2>3, <2>4, <2>5, <2>6, <2>7, <2>8,
       <2>9, <2>10, <2>11 DEF OwnerStep
<1>4. ASSUME NEW i \in Workers, WorkerStep(i) \/ AppQuits(i) PROVE PoolInv'
  <2>1. CASE SemPost(i)
    BY <2>1 DEF SemPost
  <2>2. CASE Construct(i)
    BY <2>2 DEF Construct
  <2>3. CASE Publish(i)
    BY <2>3 DEF Publish
  <2>4. CASE EnterLoop(i)
    BY <2>4 DEF EnterLoop
  <2>5. CASE LeaveLoop(i)
    BY <2>5 DEF LeaveLoop
  <2>6. CASE ClearLoop(i)
    BY <2>6 DEF ClearLoop
  <2>7. CASE EndThread(i)
    BY <2>7 DEF EndThread
  <2>8. CASE AppQuits(i)
    BY <2>8 DEF AppQuits
  <2> QED
    BY <1>4, <2>1, <2>2, <2>3, <2>4, <2>5, <2>6, <2>7, <2>8 DEF WorkerStep
<1>5. CASE UNCHANGED vars
  BY <1>5 DEF vars
<1> QED
  BY <1>1, <1>2, <1>3, <1>4, <1>5 DEF Next

LEMMA PoolInvHolds == Spec => []PoolInv
  BY PoolInit, PoolStep, TypeInvHolds, PTL DEF Spec

\* A loop that startLoop returned is constructed and stays usable until the pool is
\* destroyed or the application ends it.
THEOREM LoopsStayUsable == Spec => []LoopsUsable
<1>1. TypeInv /\ PoolInv => LoopsUsable
  <2> SUFFICES ASSUME TypeInv, PoolInv, NEW i \in ToSet(loops)
               PROVE  /\ wpc[i] \notin Unpublished
                      /\ ~Destroying /\ i \notin appQuit => wpc[i] \in {"enter", "looping"}
    BY DEF LoopsUsable, Unpublished
  <2>1. i \in Workers
    BY DEF TypeInv, TypeOK, ToSet
  <2> QED
    BY <2>1 DEF TypeInv, TypeOK, WorkerPc, PoolInv, Stored, QuitBy, NoneDestroyed, Unpublished,
                Ended, Destroying
<1> QED
  BY <1>1, TypeInvHolds, PoolInvHolds, PTL

\* The destructor leaves no thread behind whose loop the application did not end.
THEOREM ThreadsAlwaysJoined == Spec => []ThreadsJoined
<1>1. PoolInv => ThreadsJoined
  BY DEF PoolInv
<1> QED
  BY <1>1, PoolInvHolds, PTL

-----------------------------------------------------------------------------

\* The thread that start() waits for exists.
Created == opc \in {"sem", "check", "waiting"} => wpc[cur] # "none"

LEMMA SignalStep ==
    TypeInv /\ PoolInv /\ Created /\ NoLostSignal /\ [Next]_vars => (Created /\ NoLostSignal)'
<1> SUFFICES ASSUME TypeInv, PoolInv, Created, NoLostSignal, [Next]_vars
             PROVE  (Created /\ NoLostSignal)'
  OBVIOUS
<1> USE DEF Created, NoLostSignal, ownerVars, workerVars, OwnerMoves, WorkerMoves
<1>1. /\ wpc \in [Workers -> WorkerPc] /\ sem \in 0..1
      /\ opc \in {"sem", "check", "waiting"} => cur \in Workers
      /\ \A i \in Workers : wpc[i] = "post" => i = cur /\ opc = "sem"
  BY DEF TypeInv, TypeOK, OwnerAt, SemOwned
<1>2. CASE Start \/ Destroy
  BY <1>2 DEF Start, Destroy
<1>3. CASE OwnerStep
  <2>1. CASE CreateThread
    BY <1>1, <2>1 DEF CreateThread
  <2>2. CASE SemWait
    BY <2>2 DEF SemWait
  <2>3. CASE Wait
    <3>1. cur \in Workers /\ wpc[cur] \notin {"none", "post", "enter", "looping", "left"}
      BY <1>1, <2>3 DEF Wait, PoolInv, LoopPointer
    <3>2. wpc[cur] \in {"cleared", "done"} => cur \in appQuit
      BY <2>3, <3>1 DEF Wait, PoolInv, QuitBy, NoneDestroyed, Destroying, Ended
    <3> QED
      BY <1>1, <2>3, <3>1, <3>2 DEF Wait, WorkerPc
  <2>4. CASE TakeLoop \/ Started
    BY <2>4 DEF TakeLoop, Started
  <2>5. CASE Detach \/ TestLoop \/ QuitLoop \/ WakeLoop \/ Join \/ Destroyed
    BY <2>5 DEF Detach, TestLoop, QuitLoop, WakeLoop, Join, Destroyed, NextThread
  <2> QED
    BY <1>3, <2>1, <2>2, <2>3, <2>4, <2>5 DEF OwnerStep
<1>4. ASSUME NEW i \in Workers, WorkerStep(i) \/ AppQuits(i) PROVE (Created /\ NoLostSignal)'
  <2>1. CASE SemPost(i)
    BY <1>1, <2>1 DEF SemPost
  <2>2. CASE Publish(i)
    BY <1>1, <2>2 DEF Publish
  <2>3. CASE Construct(i)
    BY <1>1, <2>3 DEF Construct
  <2>4. CASE EnterLoop(i) \/ LeaveLoop(i) \/ ClearLoop(i) \/ EndThread(i)
    BY <1>1, <2>4 DEF EnterLoop, LeaveLoop, ClearLoop, EndThread
  <2>5. CASE AppQuits(i)
    BY <1>1, <2>5 DEF AppQuits
  <2> QED
    BY <1>4, <2>1, <2>2, <2>3, <2>4, <2>5 DEF WorkerStep
<1>5. CASE UNCHANGED vars
  BY <1>5 DEF vars
<1> QED
  BY <1>2, <1>3, <1>4, <1>5 DEF Next

\* Whatever the scheduling of the threads, startLoop enters neither sem_wait nor cond_.wait for a
\* signal that came before: that start() returns needs no more than that threads run.
THEOREM NoSignalIsLost == Spec => []NoLostSignal
<1>1. Init => Created /\ NoLostSignal
  BY DEF Init, Created, NoLostSignal
<1> QED
  BY <1>1, SignalStep, TypeInvHolds, PoolInvHolds, PTL DEF Spec
=============================================================================
