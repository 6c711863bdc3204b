-------------------------- MODULE TcpServer_proofs --------------------------
(***************************************************************************)
(* Proofs about TcpServer for every set of clients and callers, every      *)
(* number of loop threads and every limit of fds: the safety properties,   *)
(* and that it implements Service.                                         *)
(***************************************************************************)
EXTENDS TcpServer, Channel_proofs

\* The functors of a loop, and those of them that it still has to run.
Fs(l)    == ToSet(pending[l]) \cup ToSet(batch[l])
Unrun(l) == ToSet(pending[l])
                \cup {batch[l][i] : i \in {j \in 1..Len(batch[l]) : j > done[l]}}

Destroys(c)     == <<"connectDestroyed", c>>
Establishes(c)  == <<"connectEstablished", c>>
DestroyComes(c) == \E l \in LoopIds : Destroys(c) \in Unrun(l)

\* The pool has not been started yet, or is being started.
Early == started = 0 \/ \E s \in Callers : spc[s] = "pool"

\* A thread other than the base loop's has called start().
ForeignStart == \E s \in Starters : spc[s] = "done"

Typed ==
    /\ TypeOK
    /\ GoodChannel(acceptChan) /\ \A c \in Clients : GoodChannel(chan[c])

\* There is a batch only while it is being run.
BatchInv ==
    \A l \in LoopIds :
        /\ done[l] <= Len(batch[l])
        /\ lpc[l] # "functors" => batch[l] = <<>> /\ done[l] = 0

\* Connections are established at once; those that are to be destroyed have ended.
FunctorInv ==
    \A l \in LoopIds, c \in Clients :
        /\ Establishes(c) \notin Fs(l)
        /\ Destroys(c) \in Fs(l) => state[c] = "kDisconnected" /\ chan[c].entry = "none"

\* Every connection lives on the base loop.
StateInv ==
    \A c \in Clients :
        /\ state[c] # "kConnecting" /\ loopOf[c] \in {Base, NoLoop}
        /\ state[c] = "none" => chan[c].index = kNew /\ told[c] = "nothing"
        /\ client[c] = "idle" => state[c] = "none"

\* What connections_ holds is up and registered; what it does not hold is off epoll, and off
\* the poller when connectDestroyed has run.
MapInv ==
    /\ mapUsers \subseteq {Base}
    /\ \A c \in connections :
           told[c] = "up" /\ state[c] \in {"kConnected", "kDisconnecting"}
               /\ chan[c].entry = "present"
    /\ \A c \in Clients \ connections :
           /\ serverAlive => told[c] # "up"
           /\ chan[c].entry = "none"
           /\ chan[c].index # kNew => DestroyComes(c)

\* The channels that are still to be handled are those of connections in connections_, on
\* the base loop, and of the Acceptor, when somebody waits there.
ActiveInv ==
    \A l \in LoopIds :
        /\ \A c \in Clients \cap active[l] :
               lpc[l] = "events" /\ c \in connections /\ loopOf[c] = l
        /\ acceptor \in active[l] =>
               l = Base /\ lpc[l] = "events" /\ backlog # <<>> /\ acceptChan.entry = "present"

\* Who waits is waiting once and has no connection yet.
BacklogInv ==
    /\ \A i, j \in 1..Len(backlog) : backlog[i] = backlog[j] => i = j
    /\ \A i \in 1..Len(backlog) :
           state[backlog[i]] = "none" /\ client[backlog[i]] # "idle"

\* What ~TcpServer leaves behind.
ServerInv ==
    ~serverAlive =>
        /\ connections = {} /\ backlog = <<>> /\ ~listening /\ acceptChan.index = kNew
        /\ \A s \in Callers : spc[s] \in {"idle", "done"}

\* One caller starts the pool, before anything listens.
StartInv ==
    /\ Early => /\ loops = <<>> /\ acceptChan.index = kNew
                /\ \A s \in Callers : spc[s] # "listen"
    /\ ~Early => Len(loops) = numThreads
    /\ started = 0 => \A s \in Callers : spc[s] = "idle"
    /\ \A s, t \in Callers : spc[s] = "pool" /\ spc[t] = "pool" => s = t

\* What is queued or lost because of a start() on another thread, or without loop threads.
ForeignInv ==
    /\ \A l \in LoopIds : <<"listen", acceptor>> \in Fs(l) => ForeignStart /\ ~Early
    /\ undefined => started # 0 /\ (numThreads = 0 \/ ForeignStart)

\* The inductive invariant.
Inv ==
    /\ Typed /\ BatchInv /\ FunctorInv /\ StateInv /\ MapInv /\ ActiveInv /\ BacklogInv
    /\ ServerInv /\ StartInv /\ ForeignInv

-----------------------------------------------------------------------------
(* The queues.                                                             *)

LEMMA ToSetAppend ==
    ASSUME NEW S1, NEW s \in Seq(S1), NEW x
    PROVE  ToSet(Append(s, x)) = ToSet(s) \cup {x}
<1>1. /\ DOMAIN s = 1..Len(s) /\ Len(s) \in Nat
      /\ DOMAIN Append(s, x) = 1..(Len(s) + 1)
      /\ \A k \in 1..Len(s) : Append(s, x)[k] = s[k]
      /\ Append(s, x)[Len(s) + 1] = x
  OBVIOUS
<1> QED
  BY <1>1, SMTT(30) DEF ToSet

LEMMA ToSetEmpty == ToSet(<<>>) = {}
  BY DEF ToSet

LEMMA QueuesSame ==
    ASSUME UNCHANGED <<pending, batch, done>>, NEW l \in LoopIds
    PROVE  Fs(l)' = Fs(l) /\ Unrun(l)' = Unrun(l)
  BY DEF Fs, Unrun

\* queueInLoop.
LEMMA QueueAppend ==
    ASSUME TypeOK, NEW k \in LoopIds, NEW f, NEW l \in LoopIds,
           pending' = [pending EXCEPT ![k] = Append(@, f)], UNCHANGED <<batch, done>>
    PROVE  /\ Fs(l)' = IF l = k THEN Fs(l) \cup {f} ELSE Fs(l)
           /\ Unrun(l)' = IF l = k THEN Unrun(l) \cup {f} ELSE Unrun(l)
<1>1. ToSet(Append(pending[k], f)) = ToSet(pending[k]) \cup {f}
  BY ToSetAppend DEF TypeOK
<1>2. pending'[l] = IF l = k THEN Append(pending[k], f) ELSE pending[l]
  BY DEF TypeOK
<1> QED
  BY <1>1, <1>2 DEF Fs, Unrun

\* The swap of doPendingFunctor.
LEMMA QueueSwap ==
    ASSUME TypeOK, BatchInv, NEW k \in LoopIds, NEW l \in LoopIds, SwapFunctors(k)
    PROVE  Fs(l)' = Fs(l) /\ Unrun(l)' = Unrun(l)
<1>1. CASE l # k
  BY <1>1 DEF TypeOK, SwapFunctors, Fs, Unrun
<1>2. CASE l = k
  <2>1. batch[l] = <<>> /\ done[l] = 0 /\ done'[l] = 0
    BY <1>2 DEF BatchInv, SwapFunctors
  <2>2. pending'[l] = <<>> /\ batch'[l] = pending[l]
    BY <1>2 DEF SwapFunctors, TypeOK
  <2>3. pending[l] \in Seq(Functors)
    BY DEF TypeOK
  <2>4. {pending[l][i] : i \in {j \in 1..Len(pending[l]) : j > 0}} = ToSet(pending[l])
    <3>1. DOMAIN pending[l] = 1..Len(pending[l])
      BY <2>3
    <3>2. {j \in 1..Len(pending[l]) : j > 0} = DOMAIN pending[l]
      BY <3>1, <2>3
    <3> QED
      BY <3>2 DEF ToSet
  <2>5. {batch[l][i] : i \in {j \in 1..Len(batch[l]) : j > done[l]}} = {}
    BY <2>1
  <2>6. Fs(l)' = Fs(l)
    BY <2>1, <2>2, ToSetEmpty DEF Fs
  <2>7. Unrun(l)' = Unrun(l)
    BY <2>1, <2>2, <2>4, <2>5, ToSetEmpty DEF Unrun
  <2> QED
    BY <2>6, <2>7
<1> QED
  BY <1>1, <1>2

\* One functor of the batch.
LEMMA QueueRun ==
    ASSUME TypeOK, NEW k \in LoopIds, NEW f, Runs(k, f), NEW l \in LoopIds
    PROVE  /\ f \in Fs(k) /\ Fs(l)' = Fs(l)
           /\ Unrun(l) \subseteq Unrun(l)' \cup {f}
<1>1. /\ batch[k] \in Seq(Functors) /\ done[k] \in Nat /\ done[k] < Len(batch[k])
      /\ batch' = batch /\ pending' = pending
      /\ done' = [done EXCEPT ![k] = @ + 1] /\ f = batch[k][done[k] + 1]
  BY DEF TypeOK, Runs
<1>2. f \in ToSet(batch[k])
  <2>1. done[k] + 1 \in DOMAIN batch[k]
    BY <1>1
  <2> QED
    BY <1>1, <2>1 DEF ToSet
<1>3. ASSUME NEW j \in 1..Len(batch[l]), j > done[l]
      PROVE  j > done'[l] \/ batch[l][j] = f
  <2>1. CASE l # k
    BY <1>1, <1>3, <2>1 DEF TypeOK
  <2>2. CASE l = k
    BY <1>1, <1>3, <2>2 DEF TypeOK
  <2> QED
    BY <2>1, <2>2
<1> QED
  BY <1>1, <1>2, <1>3 DEF Fs, Unrun

\* The end of the batch.
LEMMA QueueFinish ==
    ASSUME TypeOK, NEW k \in LoopIds, FinishBatch(k), NEW l \in LoopIds
    PROVE  Fs(l)' \subseteq Fs(l) /\ Unrun(l)' = Unrun(l)
<1>1. CASE l # k
  BY <1>1 DEF TypeOK, FinishBatch, Fs, Unrun
<1>2. CASE l = k
  <2>1. /\ pending'[l] = pending[l] /\ batch'[l] = <<>> /\ done'[l] = 0
        /\ done[l] = Len(batch[l]) /\ Len(batch[l]) \in Nat
    BY <1>2 DEF FinishBatch, TypeOK
  <2>2. /\ {batch[l][i] : i \in {j \in 1..Len(batch[l]) : j > done[l]}} = {}
        /\ {batch'[l][i] : i \in {j \in 1..Len(batch'[l]) : j > done'[l]}} = {}
    BY <2>1
  <2> QED
    BY <2>1, <2>2, ToSetEmpty DEF Fs, Unrun
<1> QED
  BY <1>1, <1>2

LEMMA UnrunInFs ==
    ASSUME TypeOK, NEW l \in LoopIds
    PROVE  Unrun(l) \subseteq Fs(l) /\ Fs(l) \subseteq Functors
<1>1. /\ pending[l] \in Seq(Functors) /\ batch[l] \in Seq(Functors)
      /\ DOMAIN pending[l] = 1..Len(pending[l]) /\ DOMAIN batch[l] = 1..Len(batch[l])
  BY DEF TypeOK
<1>2. \A i \in 1..Len(pending[l]) : pending[l][i] \in Functors
  BY <1>1
<1>3. \A i \in 1..Len(batch[l]) : batch[l][i] \in Functors
  BY <1>1
<1> QED
  BY <1>1, <1>2, <1>3 DEF Fs, Unrun, ToSet

-----------------------------------------------------------------------------
(* Types.                                                                  *)

LEMMA IdsFacts ==
    /\ Base \in LoopIds /\ NoLoop \notin LoopIds /\ Base # NoLoop
    /\ acceptor \notin Clients /\ baseThread \notin Starters
    /\ \A c \in Clients : Destroys(c) \in Functors /\ Establishes(c) \in Functors
    /\ <<"listen", acceptor>> \in Functors
  BY TcpServerAssumption DEF Base, LoopIds, NoLoop, Functors, Destroys, Establishes

LEMMA NewChannelKept == NewChannel \in ChannelType /\ NewChannel.index = kNew
  BY NewChannelGood DEF GoodChannel, NewChannel

\* The part of Typed that handlers of a connection change.
ConnTyped ==
    /\ state \in [Clients -> {"none", "kConnecting", "kConnected", "kDisconnecting",
                              "kDisconnected"}]
    /\ chan \in [Clients -> ChannelType] /\ \A c \in Clients : GoodChannel(chan[c])
    /\ told \in [Clients -> {"nothing", "up", "down"}]

LEMMA AppendTyped ==
    ASSUME Typed, NEW l \in LoopIds, NEW f \in Functors
    PROVE  [pending EXCEPT ![l] = Append(@, f)] \in [LoopIds -> Seq(Functors)]
  BY DEF Typed, TypeOK

LEMMA TypedInit == Init => Typed
<1> SUFFICES ASSUME Init PROVE Typed
  OBVIOUS
<1>1. TypeOK
  <2>0. serverAlive \in BOOLEAN /\ listening \in BOOLEAN /\ undefined \in BOOLEAN
    BY Zenon DEF Init
  <2>1. /\ numThreads \in 0..MaxThreads /\ started \in Nat /\ loops \in Seq(LoopIds)
        /\ acceptChan \in ChannelType /\ connections \subseteq Clients
        /\ mapUsers \subseteq LoopIds
        /\ spc \in [Callers -> {"idle", "pool", "listen", "done"}]
    BY TcpServerAssumption, NewChannelKept DEF Init
  <2>2. ConnTyped /\ loopOf \in [Clients -> LoopIds \cup {NoLoop}]
    BY NewChannelGood DEF Init, ConnTyped, GoodChannel
  <2>3. /\ lpc \in [LoopIds -> {"setup", "poll", "events", "functors"}]
        /\ active \in [LoopIds -> SUBSET (Clients \cup {acceptor})]
        /\ pending \in [LoopIds -> Seq(Functors)]
        /\ batch \in [LoopIds -> Seq(Functors)]
        /\ done \in [LoopIds -> Nat]
    BY DEF Init
  <2>4. /\ client \in [Clients -> {"idle", "open", "closed"}]
        /\ backlog \in Seq(Clients) /\ inbox \subseteq Clients
    BY DEF Init
  <2> QED
    BY <2>0, <2>1, <2>2, <2>3, <2>4 DEF TypeOK, ConnTyped
<1>2. GoodChannel(acceptChan) /\ \A c \in Clients : GoodChannel(chan[c])
  BY NewChannelGood DEF Init
<1> QED
  BY <1>1, <1>2 DEF Typed

LEMMA EstablishTyped ==
    ASSUME Typed, NEW c \in Clients, Establish(c)
    PROVE  ConnTyped'
<1>1. GoodChannel(EnableReading(chan[c]))
  BY EnableReadingGood DEF Typed
<1> QED
  BY <1>1 DEF Typed, TypeOK, Establish, GoodChannel, ConnTyped

LEMMA DestroyedTyped ==
    ASSUME Typed, NEW D \in SUBSET Clients, ConnectDestroyed(D)
    PROVE  /\ ConnTyped'
           /\ \A d \in D : chan'[d].index = kNew /\ chan'[d].entry = "none"
           /\ \A d \in Clients \ D : chan'[d] = chan[d]
<1>1. ASSUME NEW d \in D
      PROVE  GoodChannel(chan'[d]) /\ chan'[d].index = kNew /\ chan'[d].entry = "none"
  <2>1. GoodChannel(chan[d]) /\ GoodChannel(DisableAll(chan[d]))
    BY DisableAllGood DEF Typed
  <2>2. chan'[d] = RemoveChannel(chan[d]) \/ chan'[d] = RemoveChannel(DisableAll(chan[d]))
    BY DEF ConnectDestroyed
  <2>3. GoodChannel(chan'[d]) /\ chan'[d].index = kNew
    BY <2>1, <2>2, RemoveChannelGood
  <2> QED
    BY <2>3, RemovedEntry
<1>2. \A d \in Clients \ D : chan'[d] = chan[d]
  BY DEF ConnectDestroyed
<1>3. \A d \in Clients : GoodChannel(chan'[d])
  BY <1>1, <1>2 DEF Typed
<1>4. DOMAIN chan' = Clients /\ chan' = [c \in Clients |-> chan'[c]]
  BY DEF ConnectDestroyed
<1>5. chan' \in [Clients -> ChannelType]
  BY <1>3, <1>4 DEF GoodChannel
<1>6. state' \in [Clients -> {"none", "kConnecting", "kConnected", "kDisconnecting",
                              "kDisconnected"}]
  BY DEF ConnectDestroyed, Typed, TypeOK
<1>7. told' \in [Clients -> {"nothing", "up", "down"}]
  BY DEF ConnectDestroyed, Typed, TypeOK
<1> QED
  BY <1>1, <1>2, <1>3, <1>5, <1>6, <1>7 DEF ConnTyped

LEMMA ListenTyped ==
    ASSUME Typed, Listen
    PROVE  listening' = TRUE /\ acceptChan' \in ChannelType /\ GoodChannel(acceptChan')
  BY EnableReadingGood DEF Typed, Listen, GoodChannel

LEMMA TypedStep == Typed /\ ActiveInv /\ [Next]_vars => Typed'
<1> SUFFICES ASSUME Typed, ActiveInv, [Next]_vars PROVE Typed'
  OBVIOUS
<1>a. ASSUME NEW c \in Clients, Establish(c) PROVE ConnTyped'
  BY <1>a, EstablishTyped
<1>b. ASSUME NEW D \in SUBSET Clients, ConnectDestroyed(D) PROVE ConnTyped'
  BY <1>b, DestroyedTyped
<1>c. ASSUME Listen PROVE listening' = TRUE /\ acceptChan' \in ChannelType /\ GoodChannel(acceptChan')
  BY <1>c, ListenTyped
<1>d. ASSUME NEW l \in LoopIds, NEW f \in Functors
      PROVE  [pending EXCEPT ![l] = Append(@, f)] \in [LoopIds -> Seq(Functors)]
  BY AppendTyped
<1>e. ASSUME Accept PROVE backlog # <<>>
  BY <1>e, IdsFacts DEF Accept, Handles, ActiveInv
<1> USE TcpServerAssumption, IdsFacts DEF Typed, TypeOK, acceptVars, poolVars, serverVars,
        connVars, loopVars, clientVars, ConnTyped
<1>1. ASSUME NEW n \in 0..MaxThreads, SetThreadNum(n) PROVE Typed'
  BY <1>1 DEF SetThreadNum
<1>2. ASSUME NEW s \in Callers, Start(s) PROVE Typed'
  BY <1>2 DEF Start, MayStart, CallerMoves
<1>3. ASSUME NEW s \in Callers, StartPool(s) PROVE Typed'
  <2>1. [i \in 1..numThreads |-> i] \in Seq(LoopIds)
    BY DEF LoopIds
  <2>2. loops' \in Seq(LoopIds)
    BY <1>3, <2>1 DEF StartPool
  <2> QED
    BY <1>3, <2>2 DEF StartPool, CallerMoves
<1>4. ASSUME NEW s \in Callers, CallListen(s) PROVE Typed'
  <2>1. CASE s = baseThread
    <3>1. Listen /\ pending' = pending
      BY <1>4, <2>1 DEF CallListen
    <3> QED
      BY <1>4, <3>1, <1>c DEF CallListen, CallerMoves
  <2>2. CASE s # baseThread
    <3>1. /\ pending' = [pending EXCEPT ![Base] = Append(@, <<"listen", acceptor>>)]
          /\ UNCHANGED acceptVars
      BY <1>4, <2>2, Zenon DEF CallListen
    <3>2. pending' \in [LoopIds -> Seq(Functors)]
      BY <3>1, <1>d
    <3>3. UNCHANGED <<serverAlive, numThreads, started, loops, connections, mapUsers, connVars,
                      lpc, active, batch, done, undefined, clientVars>>
          /\ CallerMoves(s, "listen", "done")
      BY <1>4, Zenon DEF CallListen
    <3> QED
      BY <3>1, <3>2, <3>3 DEF CallerMoves
  <2> QED
    BY <2>1, <2>2
<1>5. CASE EnterLoop
  BY <1>5 DEF EnterLoop
<1>6. CASE AcceptFails
  BY <1>6 DEF AcceptFails, Handles
<1>7. CASE Accept
  <2> DEFINE c == Head(backlog)
  <2>0. CASE GetNextLoop = NoLoop
    BY <1>7, <2>0 DEF Accept, Handles
  <2>1. CASE GetNextLoop # NoLoop /\ backlog # <<>>
    <3>1. c \in Clients /\ Tail(backlog) \in Seq(Clients) /\ GetNextLoop = Base
      BY <2>1 DEF GetNextLoop
    <3>2. /\ Establish(c) /\ pending' = pending /\ undefined' = undefined
          /\ backlog' = Tail(backlog) /\ loopOf' = [loopOf EXCEPT ![c] = Base]
          /\ connections' = connections \cup {c} /\ mapUsers' = mapUsers \cup {Base}
      BY <1>7, <2>1, <3>1 DEF Accept
    <3> QED
      BY <1>7, <3>1, <3>2, <1>a DEF Accept, Handles
  <2> QED
    BY <2>0, <2>1, <1>7, <1>e
<1>8. ASSUME NEW l \in LoopIds, Poll(l) PROVE Typed'
  BY <1>8 DEF Poll, ReadyChannels
<1>9. ASSUME NEW l \in LoopIds, NEW c \in Clients, Message(l, c) PROVE Typed'
  BY <1>9 DEF Message, Handles
<1>10. ASSUME NEW l \in LoopIds, NEW c \in Clients, HandleClose(l, c) PROVE Typed'
  <2>1. GoodChannel(DisableAll(chan[c])) /\ DisableAll(chan[c]) \in ChannelType
    BY DisableAllGood DEF GoodChannel
  <2>2. pending' = [pending EXCEPT ![l] = Append(@, Destroys(c))]
    BY <1>10 DEF HandleClose, Destroys
  <2>3. pending' \in [LoopIds -> Seq(Functors)]
    BY <2>2, <1>d
  <2>4. undefined' \in BOOLEAN
    BY <1>10, Zenon DEF HandleClose
  <2>5. /\ state' = [state EXCEPT ![c] = "kDisconnected"]
        /\ chan' = [chan EXCEPT ![c] = DisableAll(@)]
        /\ told' = [told EXCEPT ![c] = "down"]
        /\ connections' = connections \ {c} /\ mapUsers' = mapUsers \cup {l}
        /\ UNCHANGED <<serverAlive, poolVars, acceptVars, loopOf, clientVars>>
        /\ active' = [active EXCEPT ![l] = @ \ {c}] /\ UNCHANGED <<lpc, batch, done>>
    BY <1>10, Zenon DEF HandleClose, Handles
  <2> QED
    BY <2>1, <2>3, <2>4, <2>5
<1>11. ASSUME NEW l \in LoopIds, SwapFunctors(l) PROVE Typed'
  BY <1>11 DEF SwapFunctors
<1>12. ASSUME NEW l \in LoopIds, RunListen(l) PROVE Typed'
  <2>1. \/ Listen /\ UNCHANGED undefined
        \/ undefined' = TRUE /\ UNCHANGED acceptVars
    BY <1>12 DEF RunListen
  <2>2. CASE Listen /\ UNCHANGED undefined
    <3>1. listening' \in BOOLEAN /\ acceptChan' \in ChannelType /\ GoodChannel(acceptChan')
      BY <2>2, <1>c
    <3>2. /\ UNCHANGED <<serverAlive, poolVars, connections, mapUsers, connVars>>
          /\ done' = [done EXCEPT ![l] = @ + 1]
          /\ UNCHANGED <<lpc, active, pending, batch, clientVars>>
      BY <1>12, Zenon DEF RunListen, Runs
    <3> QED
      BY <2>2, <3>1, <3>2
  <2>3. CASE undefined' = TRUE /\ UNCHANGED acceptVars
    BY <1>12, <2>3 DEF RunListen, Runs
  <2> QED
    BY <2>1, <2>2, <2>3
<1>13. ASSUME NEW l \in LoopIds, NEW c \in Clients, RunConnection(l, c) PROVE Typed'
  <2>1. Establish(c) => ConnTyped'
    BY <1>a
  <2>2. ConnectDestroyed({c}) => ConnTyped'
    BY <1>b
  <2>3. ConnTyped'
    BY <1>13, <2>1, <2>2 DEF RunConnection
  <2>4. PICK f \in {"connectEstablished", "connectDestroyed"} : Runs(l, <<f, c>>)
    BY <1>13 DEF RunConnection
  <2>5. UNCHANGED <<serverVars, loopOf, undefined>>
    BY <1>13 DEF RunConnection
  <2>6. /\ done' = [done EXCEPT ![l] = @ + 1]
        /\ UNCHANGED <<lpc, active, pending, batch, clientVars>>
    BY <2>4, Zenon DEF Runs
  <2> QED
    BY <2>3, <2>5, <2>6
<1>14. ASSUME NEW l \in LoopIds, FinishBatch(l) PROVE Typed'
  BY <1>14 DEF FinishBatch
<1>15. CASE DestroyServer
  <2>1. GoodChannel(acceptChan')
    BY <1>15, DisableAllGood, RemoveChannelGood DEF DestroyServer
  <2>2. acceptChan' \in ChannelType
    BY <2>1 DEF GoodChannel
  <2>3. ConnTyped'
    BY <1>15, <1>b DEF DestroyServer
  <2>4. serverAlive' \in BOOLEAN /\ listening' \in BOOLEAN /\ undefined' \in BOOLEAN
    BY <1>15, Zenon DEF DestroyServer
  <2>5. /\ connections' = {} /\ mapUsers' = mapUsers \cup {Base} /\ backlog' = <<>>
        /\ client' = [c \in Clients |-> IF c \in ToSet(backlog) THEN "closed" ELSE client[c]]
        /\ UNCHANGED <<poolVars, loopOf, loopVars, inbox>>
    BY <1>15, Zenon DEF DestroyServer
  <2> QED
    BY <2>1, <2>2, <2>3, <2>4, <2>5
<1>16. ASSUME NEW c \in Clients, ClientStep(c) PROVE Typed'
  <2>1. CASE ClientConnects(c)
    BY <1>16, <2>1 DEF ClientConnects
  <2>2. CASE ClientSends(c)
    BY <1>16, <2>2 DEF ClientSends
  <2>3. CASE ClientCloses(c)
    BY <1>16, <2>3 DEF ClientCloses
  <2> QED
    BY <1>16, <2>1, <2>2, <2>3 DEF ClientStep
<1>17. CASE UNCHANGED vars
  BY <1>17 DEF vars
<1> QED
  BY <1>1, <1>2, <1>3, <1>4, <1>5, <1>6, <1>7, <1>8, <1>9, <1>10, <1>11, <1>12, <1>13, <1>14,
     <1>15, <1>16, <1>17 DEF Next, StartStep, BaseStep, LoopStep

-----------------------------------------------------------------------------
(* What keeps the conjuncts of the invariant.                              *)

LEMMA BatchFrame ==
    ASSUME BatchInv, UNCHANGED <<batch, done, lpc>>
    PROVE  BatchInv'
  BY DEF BatchInv

LEMMA FunctorFrame ==
    ASSUME FunctorInv, UNCHANGED <<state, chan>>, \A l \in LoopIds : Fs(l)' \subseteq Fs(l)
    PROVE  FunctorInv'
  BY DEF FunctorInv

LEMMA StateFrame ==
    ASSUME StateInv, UNCHANGED <<state, loopOf, chan, told, client>>
    PROVE  StateInv'
  BY DEF StateInv

LEMMA MapFrame ==
    ASSUME MapInv, UNCHANGED <<serverAlive, connections, mapUsers, state, chan, told>>,
           \A l \in LoopIds, c \in Clients :
               Destroys(c) \in Unrun(l) => Destroys(c) \in Unrun(l)'
    PROVE  MapInv'
<1>1. \A c \in Clients : DestroyComes(c) => DestroyComes(c)'
  BY DEF DestroyComes
<1>2. mapUsers' \subseteq {Base}
  BY DEF MapInv
<1>3. \A c \in connections' :
           told'[c] = "up" /\ state'[c] \in {"kConnected", "kDisconnecting"}
               /\ chan'[c].entry = "present"
  BY DEF MapInv
<1>4. \A c \in Clients \ connections' :
           /\ chan'[c].entry = "none"
           /\ chan'[c].index # kNew => DestroyComes(c)'
  BY <1>1 DEF MapInv
<1>5. \A c \in Clients \ connections' : serverAlive' => told'[c] # "up"
  BY Zenon DEF MapInv
<1> QED
  BY <1>2, <1>3, <1>4, <1>5, Zenon DEF MapInv

LEMMA ActiveFrame ==
    ASSUME ActiveInv, UNCHANGED <<lpc, connections, loopOf, backlog, acceptChan>>,
           \A l \in LoopIds : active'[l] \subseteq active[l]
    PROVE  ActiveInv'
  BY DEF ActiveInv

LEMMA BacklogFrame ==
    ASSUME BacklogInv, UNCHANGED <<backlog, state, client>>
    PROVE  BacklogInv'
  BY DEF BacklogInv

LEMMA ServerFrame ==
    ASSUME ServerInv, UNCHANGED <<serverAlive, connections, backlog, listening, acceptChan, spc>>
    PROVE  ServerInv'
  BY Zenon DEF ServerInv

LEMMA StartFrame ==
    ASSUME StartInv, UNCHANGED <<started, spc, loops, acceptChan, numThreads>>
    PROVE  StartInv'
  BY DEF StartInv, Early

LEMMA ForeignFrame ==
    ASSUME ForeignInv, UNCHANGED <<started, spc, undefined, numThreads>>,
           \A l \in LoopIds : <<"listen", acceptor>> \in Fs(l)' => <<"listen", acceptor>> \in Fs(l)
    PROVE  ForeignInv'
<1>1. Early' <=> Early
  BY DEF Early
<1>2. ForeignStart' <=> ForeignStart
  BY DEF ForeignStart
<1>3. \A l \in LoopIds : <<"listen", acceptor>> \in Fs(l)' => ForeignStart' /\ ~Early'
  BY <1>1, <1>2 DEF ForeignInv
<1>4. undefined' => started' # 0 /\ (numThreads' = 0 \/ ForeignStart')
  BY <1>2, Zenon DEF ForeignInv
<1> QED
  BY <1>3, <1>4, Zenon DEF ForeignInv

LEMMA InvInit == Init => Inv
<1> SUFFICES ASSUME Init PROVE Inv
  OBVIOUS
<1>1. Typed
  BY TypedInit
<1>2. \A l \in LoopIds : Fs(l) = {} /\ Unrun(l) = {}
  BY ToSetEmpty DEF Init, Fs, Unrun
<1>3. BatchInv /\ ActiveInv /\ BacklogInv /\ StateInv
  BY NewChannelKept DEF Init, BatchInv, ActiveInv, BacklogInv, StateInv
<1>4. FunctorInv
  BY <1>2 DEF FunctorInv
<1>5. MapInv
  BY NewChannelKept, NewChannelGood, RemovedEntry DEF Init, MapInv
<1>6. ServerInv
  BY Zenon DEF Init, ServerInv
<1>7. StartInv
  BY NewChannelKept DEF Init, StartInv, Early
<1>8. ForeignInv
  <2>1. ~undefined
    BY Zenon DEF Init
  <2> QED
    BY <1>2, <2>1 DEF ForeignInv
<1> QED
  BY <1>1, <1>3, <1>4, <1>5, <1>6, <1>7, <1>8 DEF Inv

-----------------------------------------------------------------------------
(* The start.                                                              *)

LEMMA SetThreadNumKeeps ==
    ASSUME Inv, NEW n \in 0..MaxThreads, SetThreadNum(n), Typed'
    PROVE  Inv'
<1>1. /\ started = 0
      /\ UNCHANGED <<serverAlive, started, loops, spc, acceptVars, connections, mapUsers,
                     connVars, loopVars, clientVars>>
  BY DEF SetThreadNum
<1>0. ~undefined'
  <2>1. ~undefined
    BY <1>1 DEF Inv, ForeignInv
  <2> QED
    BY <2>1, Zenon DEF SetThreadNum, loopVars
<1> USE <1>1 DEF acceptVars, connVars, loopVars, clientVars, Inv
<1>2. \A l \in LoopIds : Fs(l)' = Fs(l) /\ Unrun(l)' = Unrun(l)
  BY QueuesSame
<1>3. BatchInv' /\ FunctorInv' /\ StateInv' /\ MapInv'
  BY <1>2, BatchFrame, FunctorFrame, StateFrame, MapFrame
<1>4. ActiveInv' /\ BacklogInv' /\ ServerInv'
  BY ActiveFrame, BacklogFrame, ServerFrame
<1>5. StartInv'
  BY DEF StartInv, Early
<1>6. ForeignInv'
  <2>1. \A l \in LoopIds : <<"listen", acceptor>> \notin Fs(l)
    BY DEF ForeignInv, Early
  <2> QED
    BY <1>0, <1>2, <2>1 DEF ForeignInv
<1> QED
  BY <1>3, <1>4, <1>5, <1>6

LEMMA StartKeeps ==
    ASSUME Inv, NEW s \in Callers, Start(s), Typed'
    PROVE  Inv'
<1>1. /\ UNCHANGED <<serverAlive, numThreads, loops, acceptVars, connections, mapUsers, connVars,
                     loopVars, clientVars>>
      /\ spc[s] = "idle" /\ spc' = [spc EXCEPT ![s] = IF started = 0 THEN "pool" ELSE "done"]
      /\ started' = started + 1 /\ started \in Nat /\ DOMAIN spc = Callers
  BY DEF Start, CallerMoves, Inv, Typed, TypeOK
<1>0. serverAlive /\ serverAlive' /\ ~undefined'
  BY Zenon DEF Start, MayStart, CallerMoves, Running, loopVars
<1> USE <1>1 DEF acceptVars, connVars, loopVars, clientVars, Inv
<1>2. \A l \in LoopIds : Fs(l)' = Fs(l) /\ Unrun(l)' = Unrun(l)
  BY QueuesSame
<1>3. BatchInv' /\ FunctorInv' /\ StateInv' /\ MapInv'
  BY <1>2, BatchFrame, FunctorFrame, StateFrame, MapFrame
<1>4. ActiveInv' /\ BacklogInv'
  BY ActiveFrame, BacklogFrame
<1>5. ServerInv'
  BY <1>0, Zenon DEF ServerInv
<1>6. CASE started = 0
  <2>1. Early /\ Early' /\ \A t \in Callers : spc[t] = "idle"
    BY <1>6 DEF Early, StartInv
  <2>2. StartInv'
    BY <1>6, <2>1 DEF StartInv
  <2>3. \A l \in LoopIds : <<"listen", acceptor>> \notin Fs(l)
    BY <2>1 DEF ForeignInv
  <2> QED
    BY <2>2, <2>3, <1>0, <1>2, <1>3, <1>4, <1>5 DEF ForeignInv
<1>7. CASE started # 0
  <2>1. \A t \in Callers : spc'[t] = IF t = s THEN "done" ELSE spc[t]
    BY <1>7
  <2>2. Early' <=> Early
    BY <1>7, <2>1 DEF Early
  <2>3. StartInv'
    BY <1>7, <2>1, <2>2 DEF StartInv
  <2>4. ForeignStart => ForeignStart'
    BY <2>1 DEF ForeignStart, Callers
  <2>5. ForeignInv'
    BY <2>2, <2>4, <1>0, <1>2 DEF ForeignInv
  <2> QED
    BY <2>3, <2>5, <1>3, <1>4, <1>5
<1> QED
  BY <1>6, <1>7

LEMMA StartPoolKeeps ==
    ASSUME Inv, NEW s \in Callers, StartPool(s), Typed'
    PROVE  Inv'
<1>1. /\ UNCHANGED <<serverAlive, numThreads, started, acceptVars, connections, mapUsers,
                     connVars, loopVars, clientVars>>
      /\ spc[s] = "pool" /\ spc' = [spc EXCEPT ![s] = "listen"]
      /\ loops' = loops \o [i \in 1..numThreads |-> i]
      /\ DOMAIN spc = Callers /\ numThreads \in Nat
  BY TcpServerAssumption DEF StartPool, CallerMoves, Inv, Typed, TypeOK
<1>0. serverAlive /\ serverAlive' /\ ~undefined'
  <2>1. serverAlive
    BY <1>1 DEF Inv, ServerInv
  <2> QED
    BY <2>1, Zenon DEF StartPool, CallerMoves, Running, loopVars
<1> USE <1>1 DEF acceptVars, connVars, loopVars, clientVars, Inv
<1>2. \A l \in LoopIds : Fs(l)' = Fs(l) /\ Unrun(l)' = Unrun(l)
  BY QueuesSame
<1>3. BatchInv' /\ FunctorInv' /\ StateInv' /\ MapInv'
  BY <1>2, BatchFrame, FunctorFrame, StateFrame, MapFrame
<1>4. ActiveInv' /\ BacklogInv'
  BY ActiveFrame, BacklogFrame
<1>5. ServerInv'
  BY <1>0, Zenon DEF ServerInv
<1>6. Early /\ loops = <<>> /\ started # 0
  BY DEF Early, StartInv
<1>7. \A t \in Callers : spc'[t] # "pool"
  BY DEF StartInv
<1>8. ~Early'
  BY <1>6, <1>7 DEF Early
<1>9. Len(loops') = numThreads
  BY <1>6
<1>10. StartInv'
  BY <1>6, <1>7, <1>8, <1>9 DEF StartInv
<1>11. ForeignInv'
  BY <1>6, <1>0, <1>2 DEF ForeignInv
<1> QED
  BY <1>3, <1>4, <1>5, <1>10, <1>11

LEMMA CallListenKeeps ==
    ASSUME Inv, NEW s \in Callers, CallListen(s), Typed'
    PROVE  Inv'
<1>1. /\ UNCHANGED <<serverAlive, numThreads, started, loops, connections, mapUsers, connVars,
                     lpc, active, batch, done, undefined, clientVars>>
      /\ spc[s] = "listen" /\ spc' = [spc EXCEPT ![s] = "done"] /\ DOMAIN spc = Callers
  BY DEF CallListen, CallerMoves, Inv, Typed, TypeOK
<1>0. serverAlive /\ serverAlive' /\ ~undefined'
  <2>1. serverAlive
    BY <1>1 DEF Inv, ServerInv
  <2> QED
    BY <2>1, Zenon DEF CallListen, CallerMoves, Running
<1> USE <1>1 DEF connVars, clientVars, Inv
<1>2. /\ s = baseThread => Listen /\ pending' = pending
      /\ s # baseThread => /\ UNCHANGED acceptVars
                           /\ pending' = [pending EXCEPT
                                              ![Base] = Append(@, <<"listen", acceptor>>)]
  BY DEF CallListen
<1>3. /\ s = baseThread => acceptChan'.entry = "present"
      /\ s # baseThread => acceptChan' = acceptChan
  BY <1>2, EnableReadingGood DEF Typed, Listen, acceptVars
<1>4. ASSUME NEW l \in LoopIds
      PROVE  /\ Unrun(l) \subseteq Unrun(l)'
             /\ Fs(l)' \subseteq Fs(l) \cup {<<"listen", acceptor>>}
             /\ s = baseThread => Fs(l)' = Fs(l)
  <2>1. CASE s = baseThread
    BY <1>2, <2>1, QueuesSame
  <2>2. CASE s # baseThread
    BY <1>2, <2>2, QueueAppend, IdsFacts DEF Typed
  <2> QED
    BY <2>1, <2>2
<1>5. ~Early /\ started # 0
  BY DEF StartInv, Early
<1>6. /\ \A t \in Callers : spc'[t] = IF t = s THEN "done" ELSE spc[t]
      /\ ~Early'
  BY <1>5 DEF Early
<1>7. BatchInv' /\ StateInv' /\ BacklogInv'
  BY BatchFrame, StateFrame, BacklogFrame
<1>8. FunctorInv'
  BY <1>4 DEF FunctorInv, Establishes, Destroys
<1>9. MapInv'
  BY <1>4, MapFrame
<1>10. ActiveInv'
  BY <1>3 DEF ActiveInv
<1>11. ServerInv'
  BY <1>0, Zenon DEF ServerInv
<1>12. StartInv'
  BY <1>5, <1>6 DEF StartInv
<1>13. ForeignInv'
  <2>1. s # baseThread => ForeignStart'
    BY <1>6 DEF ForeignStart, Callers
  <2>2. ForeignStart => ForeignStart'
    BY <1>6 DEF ForeignStart, Callers
  <2> QED
    BY <2>1, <2>2, <1>0, <1>4, <1>6 DEF ForeignInv
<1> QED
  BY <1>7, <1>8, <1>9, <1>10, <1>11, <1>12, <1>13

-----------------------------------------------------------------------------
(* The loops, but for the handlers and functors.                           *)

\* Only a channel that is registered with epoll is dispatched.
LEMMA DispatchPresent ==
    ASSUME NEW ch, NEW conditions, Dispatches(ch, conditions)
    PROVE  ch.entry = "present"
<1>1. Callbacks({}) = <<>>
  BY DEF Callbacks
<1> QED
  BY <1>1 DEF Dispatches, Reported

LEMMA EnterLoopKeeps ==
    ASSUME Inv, EnterLoop, Typed'
    PROVE  Inv'
<1>1. /\ UNCHANGED <<serverVars, connVars, active, pending, batch, done, undefined, clientVars>>
      /\ lpc[Base] = "setup" /\ lpc' = [lpc EXCEPT ![Base] = "poll"]
  BY DEF EnterLoop
<1> USE <1>1 DEF serverVars, poolVars, acceptVars, connVars, clientVars, Inv
<1>2. \A l \in LoopIds : Fs(l)' = Fs(l) /\ Unrun(l)' = Unrun(l)
  BY QueuesSame
<1>3. FunctorInv' /\ StateInv' /\ MapInv' /\ BacklogInv'
  BY <1>2, FunctorFrame, StateFrame, MapFrame, BacklogFrame
<1>4. ServerInv' /\ StartInv' /\ ForeignInv'
  BY <1>2, ServerFrame, StartFrame, ForeignFrame
<1>5. BatchInv'
  BY DEF BatchInv, Typed, TypeOK
<1>6. ActiveInv'
  BY DEF ActiveInv, Typed, TypeOK
<1> QED
  BY <1>3, <1>4, <1>5, <1>6

LEMMA PollKeeps ==
    ASSUME Inv, NEW k \in LoopIds, Poll(k), Typed'
    PROVE  Inv'
<1>1. /\ UNCHANGED <<serverVars, connVars, pending, batch, done, undefined, clientVars>>
      /\ lpc[k] = "poll" /\ lpc' = [lpc EXCEPT ![k] = "events"]
      /\ active' = [active EXCEPT ![k] = ReadyChannels(k)]
  BY DEF Poll
<1> USE <1>1 DEF serverVars, poolVars, acceptVars, connVars, clientVars, Inv
<1>2. \A l \in LoopIds : Fs(l)' = Fs(l) /\ Unrun(l)' = Unrun(l)
  BY QueuesSame
<1>3. FunctorInv' /\ StateInv' /\ MapInv' /\ BacklogInv'
  BY <1>2, FunctorFrame, StateFrame, MapFrame, BacklogFrame
<1>4. ServerInv' /\ StartInv' /\ ForeignInv'
  BY <1>2, ServerFrame, StartFrame, ForeignFrame
<1>5. BatchInv'
  BY DEF BatchInv, Typed, TypeOK
<1>6. ASSUME NEW c \in Clients \cap ReadyChannels(k)
      PROVE  c \in connections /\ loopOf[c] = k
  <2>1. loopOf[c] = k /\ Dispatches(chan[c], Conditions(c))
    BY <1>6, IdsFacts DEF ReadyChannels
  <2>2. chan[c].entry = "present"
    BY <2>1, DispatchPresent
  <2> QED
    BY <2>1, <2>2 DEF MapInv
<1>7. ASSUME acceptor \in ReadyChannels(k)
      PROVE  k = Base /\ backlog # <<>> /\ acceptChan.entry = "present"
  <2>1. k = Base /\ backlog # <<>> /\ Dispatches(acceptChan, {"IN"})
    BY <1>7, IdsFacts DEF ReadyChannels
  <2> QED
    BY <2>1, DispatchPresent
<1>8. ActiveInv'
  <2>1. ASSUME NEW l \in LoopIds, l # k
        PROVE  active'[l] = active[l] /\ lpc'[l] = lpc[l]
    BY <2>1 DEF Typed, TypeOK
  <2>2. active'[k] = ReadyChannels(k) /\ lpc'[k] = "events"
    BY DEF Typed, TypeOK
  <2> QED
    BY <2>1, <2>2, <1>6, <1>7 DEF ActiveInv
<1> QED
  BY <1>3, <1>4, <1>5, <1>8

LEMMA AcceptFailsKeeps ==
    ASSUME Inv, AcceptFails, Typed'
    PROVE  Inv'
<1>1. /\ UNCHANGED <<serverVars, connVars, pending, undefined, clientVars, lpc, batch, done>>
      /\ active' = [active EXCEPT ![Base] = @ \ {acceptor}]
  BY DEF AcceptFails, Handles
<1> USE <1>1 DEF serverVars, poolVars, acceptVars, connVars, clientVars, Inv
<1>2. \A l \in LoopIds : Fs(l)' = Fs(l) /\ Unrun(l)' = Unrun(l)
  BY QueuesSame
<1>3. FunctorInv' /\ StateInv' /\ MapInv' /\ BacklogInv'
  BY <1>2, FunctorFrame, StateFrame, MapFrame, BacklogFrame
<1>4. ServerInv' /\ StartInv' /\ ForeignInv' /\ BatchInv'
  BY <1>2, ServerFrame, StartFrame, ForeignFrame, BatchFrame
<1>5. ActiveInv'
  <2>1. \A l \in LoopIds : active'[l] \subseteq active[l]
    BY DEF Typed, TypeOK
  <2> QED
    BY <2>1, ActiveFrame
<1> QED
  BY <1>3, <1>4, <1>5

LEMMA SwapFunctorsKeeps ==
    ASSUME Inv, NEW k \in LoopIds, SwapFunctors(k), Typed'
    PROVE  Inv'
<1>1. /\ UNCHANGED <<serverVars, connVars, active, done, undefined, clientVars>>
      /\ lpc[k] = "events" /\ active[k] = {} /\ lpc' = [lpc EXCEPT ![k] = "functors"]
      /\ batch' = [batch EXCEPT ![k] = pending[k]]
  BY DEF SwapFunctors
<1>2. \A l \in LoopIds : Fs(l)' = Fs(l) /\ Unrun(l)' = Unrun(l)
  BY QueueSwap DEF Inv, Typed
<1> USE <1>1 DEF serverVars, poolVars, acceptVars, connVars, clientVars, Inv
<1>3. FunctorInv' /\ StateInv' /\ MapInv' /\ BacklogInv'
  BY <1>2, FunctorFrame, StateFrame, MapFrame, BacklogFrame
<1>4. ServerInv' /\ StartInv' /\ ForeignInv'
  BY <1>2, ServerFrame, StartFrame, ForeignFrame
<1>5. BatchInv'
  <2>1. done[k] = 0 /\ Len(pending[k]) \in Nat
    BY DEF BatchInv, Typed, TypeOK
  <2> QED
    BY <2>1 DEF BatchInv, Typed, TypeOK
<1>6. ActiveInv'
  BY DEF ActiveInv, Typed, TypeOK
<1> QED
  BY <1>3, <1>4, <1>5, <1>6

LEMMA FinishBatchKeeps ==
    ASSUME Inv, NEW k \in LoopIds, FinishBatch(k), Typed'
    PROVE  Inv'
<1>1. /\ UNCHANGED <<serverVars, connVars, active, pending, undefined, clientVars>>
      /\ lpc[k] = "functors" /\ lpc' = [lpc EXCEPT ![k] = "poll"]
      /\ batch' = [batch EXCEPT ![k] = <<>>] /\ done' = [done EXCEPT ![k] = 0]
  BY DEF FinishBatch
<1>2. \A l \in LoopIds : Fs(l)' \subseteq Fs(l) /\ Unrun(l)' = Unrun(l)
  BY QueueFinish DEF Inv, Typed
<1> USE <1>1 DEF serverVars, poolVars, acceptVars, connVars, clientVars, Inv
<1>3. FunctorInv' /\ StateInv' /\ MapInv' /\ BacklogInv'
  BY <1>2, FunctorFrame, StateFrame, MapFrame, BacklogFrame
<1>4. ServerInv' /\ StartInv' /\ ForeignInv'
  BY <1>2, ServerFrame, StartFrame, ForeignFrame
<1>5. BatchInv'
  BY DEF BatchInv, Typed, TypeOK
<1>6. ActiveInv'
  BY DEF ActiveInv, Typed, TypeOK
<1> QED
  BY <1>3, <1>4, <1>5, <1>6

LEMMA StutterKeeps ==
    ASSUME Inv, UNCHANGED vars, Typed'
    PROVE  Inv'
<1>1. UNCHANGED <<serverVars, connVars, loopVars, clientVars>>
  BY DEF vars
<1> USE <1>1 DEF serverVars, poolVars, acceptVars, connVars, loopVars, clientVars, Inv
<1>2. \A l \in LoopIds : Fs(l)' = Fs(l) /\ Unrun(l)' = Unrun(l)
  BY QueuesSame
<1>3. BatchInv' /\ FunctorInv' /\ StateInv' /\ MapInv' /\ BacklogInv'
  BY <1>2, BatchFrame, FunctorFrame, StateFrame, MapFrame, BacklogFrame
<1>4. ActiveInv' /\ ServerInv' /\ StartInv' /\ ForeignInv'
  BY <1>2, ActiveFrame, ServerFrame, StartFrame, ForeignFrame
<1> QED
  BY <1>3, <1>4

-----------------------------------------------------------------------------
(* The clients.                                                            *)

LEMMA ClientKeeps ==
    ASSUME Inv, NEW c \in Clients, ClientStep(c), Typed'
    PROVE  Inv'
<1>1. UNCHANGED <<serverVars, connVars, loopVars>>
  BY DEF ClientStep, ClientConnects, ClientSends, ClientCloses
<1>0. ClientConnects(c) => serverAlive
  BY Zenon DEF ClientConnects, Inv, ServerInv
<1> USE <1>1 DEF serverVars, poolVars, acceptVars, connVars, loopVars, Inv
<1>2. \A l \in LoopIds : Fs(l)' = Fs(l) /\ Unrun(l)' = Unrun(l)
  BY QueuesSame
<1>3. BatchInv' /\ FunctorInv' /\ MapInv' /\ StartInv' /\ ForeignInv'
  BY <1>2, BatchFrame, FunctorFrame, MapFrame, StartFrame, ForeignFrame
<1>4. CASE ClientConnects(c)
  <2>1. /\ client[c] = "idle" /\ client' = [client EXCEPT ![c] = "open"]
        /\ backlog' = Append(backlog, c)
        /\ client \in [Clients -> {"idle", "open", "closed"}] /\ backlog \in Seq(Clients)
    BY <1>4 DEF ClientConnects, Typed, TypeOK
  <2>2. StateInv' /\ state[c] = "none"
    BY <2>1 DEF StateInv
  <2>3. /\ Len(backlog') = Len(backlog) + 1 /\ backlog'[Len(backlog) + 1] = c
        /\ \A i \in 1..Len(backlog) : backlog'[i] = backlog[i] /\ backlog[i] \in Clients
        /\ \A i \in 1..Len(backlog) : backlog[i] # c
        /\ backlog' # <<>> /\ Len(backlog) \in Nat
    BY <2>1 DEF BacklogInv
  <2>4. BacklogInv'
    <3>1. \A i \in 1..Len(backlog') : i = Len(backlog) + 1 \/ i \in 1..Len(backlog)
      BY <2>3
    <3>2. \A i, j \in 1..Len(backlog') : backlog'[i] = backlog'[j] => i = j
      BY <2>3, <3>1 DEF BacklogInv
    <3>3. \A i \in 1..Len(backlog') :
             state'[backlog'[i]] = "none" /\ client'[backlog'[i]] # "idle"
      BY <2>1, <2>2, <2>3, <3>1 DEF BacklogInv
    <3> QED
      BY <3>2, <3>3 DEF BacklogInv
  <2>5. ActiveInv'
    BY <2>3 DEF ActiveInv
  <2>6. serverAlive'
    BY <1>4, <1>0, Zenon
  <2>7. ServerInv'
    BY <2>6 DEF ServerInv
  <2> QED
    BY <2>2, <2>4, <2>5, <2>7, <1>3
<1>5. CASE ClientSends(c)
  <2>1. UNCHANGED <<client, backlog>>
    BY <1>5 DEF ClientSends
  <2> QED
    BY <2>1, <1>3, StateFrame, BacklogFrame, ActiveFrame, ServerFrame
<1>6. CASE ClientCloses(c)
  <2>1. /\ client[c] = "open" /\ client' = [client EXCEPT ![c] = "closed"]
        /\ UNCHANGED backlog /\ client \in [Clients -> {"idle", "open", "closed"}]
        /\ backlog \in Seq(Clients)
    BY <1>6 DEF ClientCloses, Typed, TypeOK
  <2>2. ActiveInv' /\ ServerInv'
    BY <2>1, ActiveFrame, ServerFrame
  <2>3. StateInv'
    BY <2>1 DEF StateInv
  <2>4. BacklogInv'
    BY <2>1 DEF BacklogInv
  <2> QED
    BY <2>2, <2>3, <2>4, <1>3
<1> QED
  BY <1>4, <1>5, <1>6 DEF ClientStep

-----------------------------------------------------------------------------
(* The handlers and the functors.                                          *)

LEMMA MessageKeeps ==
    ASSUME Inv, NEW k \in LoopIds, NEW c \in Clients, Message(k, c), Typed'
    PROVE  Inv'
<1>1. /\ UNCHANGED <<serverVars, chan, loopOf, told, pending, undefined, client, backlog,
                     lpc, batch, done>>
      /\ active' = [active EXCEPT ![k] = @ \ {c}]
      /\ \/ state' = state
         \/ state[c] = "kConnected" /\ state' = [state EXCEPT ![c] = "kDisconnecting"]
  BY DEF Message, Handles
<1> USE <1>1 DEF serverVars, poolVars, acceptVars, Inv
<1>2. \A l \in LoopIds : Fs(l)' = Fs(l) /\ Unrun(l)' = Unrun(l)
  BY QueuesSame
<1>3. BatchInv' /\ ServerInv' /\ StartInv' /\ ForeignInv'
  BY <1>2, BatchFrame, ServerFrame, StartFrame, ForeignFrame
<1>4. ActiveInv'
  <2>1. \A l \in LoopIds : active'[l] \subseteq active[l]
    BY DEF Typed, TypeOK
  <2> QED
    BY <2>1, ActiveFrame
<1>5. CASE state' = state
  BY <1>5, <1>2, <1>3, <1>4, FunctorFrame, StateFrame, MapFrame, BacklogFrame
<1>6. CASE state[c] = "kConnected" /\ state' = [state EXCEPT ![c] = "kDisconnecting"]
  <2>1. \A d \in Clients : state'[d] = IF d = c THEN "kDisconnecting" ELSE state[d]
    BY <1>6 DEF Typed, TypeOK
  <2>2. FunctorInv'
    BY <1>2, <1>6, <2>1 DEF FunctorInv
  <2>3. StateInv'
    BY <1>6, <2>1 DEF StateInv
  <2>4. MapInv'
    <3>1. \A d \in Clients : DestroyComes(d)' <=> DestroyComes(d)
      BY <1>2 DEF DestroyComes
    <3>2. /\ mapUsers' \subseteq {Base}
          /\ \A d \in connections' :
                told'[d] = "up" /\ state'[d] \in {"kConnected", "kDisconnecting"}
                    /\ chan'[d].entry = "present"
          /\ \A d \in Clients \ connections' :
                 /\ chan'[d].entry = "none"
                 /\ chan'[d].index # kNew => DestroyComes(d)'
      BY <2>1, <3>1 DEF MapInv, Typed, TypeOK
    <3>3. \A d \in Clients \ connections' : serverAlive' => told'[d] # "up"
      BY Zenon DEF MapInv
    <3> QED
      BY <3>2, <3>3, Zenon DEF MapInv
  <2>5. BacklogInv'
    BY <1>6, <2>1 DEF BacklogInv, Typed, TypeOK
  <2> QED
    BY <2>2, <2>3, <2>4, <2>5, <1>3, <1>4
<1> QED
  BY <1>5, <1>6

LEMMA RunListenKeeps ==
    ASSUME Inv, NEW k \in LoopIds, RunListen(k), Typed'
    PROVE  Inv'
<1> DEFINE f == <<"listen", acceptor>>
<1>1. /\ UNCHANGED <<serverAlive, poolVars, connections, mapUsers, connVars>>
      /\ UNCHANGED <<lpc, active, pending, batch, clientVars>>
      /\ Runs(k, f) /\ lpc[k] = "functors" /\ done[k] < Len(batch[k])
      /\ done' = [done EXCEPT ![k] = @ + 1]
  BY Zenon DEF RunListen, Runs
<1>0. ~undefined
  BY DEF RunListen, Runs, Running
<1>2. /\ f \in Fs(k)
      /\ \A l \in LoopIds : Fs(l)' = Fs(l) /\ Unrun(l) \subseteq Unrun(l)' \cup {f}
  BY <1>1, QueueRun DEF Inv, Typed
<1>3. /\ serverAlive => Listen /\ ~undefined'
      /\ ~serverAlive => undefined' /\ UNCHANGED acceptVars
  BY <1>0, Zenon DEF RunListen
<1>4. serverAlive' <=> serverAlive
  BY Zenon DEF RunListen
<1> HIDE DEF f
<1> USE <1>1 DEF poolVars, acceptVars, connVars, clientVars, Inv
<1>5. StateInv' /\ BacklogInv' /\ FunctorInv'
  BY <1>2, StateFrame, BacklogFrame, FunctorFrame
<1>6. MapInv'
  <2>1. \A l \in LoopIds, c \in Clients :
            Destroys(c) \in Unrun(l) => Destroys(c) \in Unrun(l)'
    BY <1>2 DEF Destroys, f
  <2> QED
    BY <2>1, MapFrame
<1>7. BatchInv'
  BY DEF BatchInv, Typed, TypeOK
<1>8. ForeignStart /\ ~Early /\ started # 0
  BY <1>2 DEF ForeignInv, f, Early
<1>9. ~Early' /\ ForeignStart'
  BY <1>8 DEF Early, ForeignStart
<1>10. acceptChan'.entry = "present" \/ acceptChan' = acceptChan
  BY <1>3, EnableReadingGood DEF Listen, Typed
<1>11. ActiveInv'
  BY <1>10 DEF ActiveInv
<1>12. StartInv'
  BY <1>8, <1>9 DEF StartInv
<1>13. ForeignInv'
  <2>1. started' # 0
    BY <1>8
  <2> QED
    BY <1>9, <2>1, Zenon DEF ForeignInv
<1>14. ServerInv'
  <2>1. CASE serverAlive
    BY <1>4, <2>1, Zenon DEF ServerInv
  <2>2. CASE ~serverAlive
    <3>1. UNCHANGED <<serverAlive, connections, backlog, listening, acceptChan, spc>>
      BY <1>3, <2>2
    <3> QED
      BY <3>1, ServerFrame
  <2> QED
    BY <2>1, <2>2
<1> QED
  BY <1>5, <1>6, <1>7, <1>11, <1>12, <1>13, <1>14

\* A functor of a connection is its connectDestroyed, after its end.
LEMMA RunConnectionIs ==
    ASSUME Inv, NEW k \in LoopIds, NEW c \in Clients, RunConnection(k, c)
    PROVE  /\ Runs(k, Destroys(c)) /\ ConnectDestroyed({c})
           /\ state[c] = "kDisconnected" /\ chan[c].entry = "none"
           /\ state' = state /\ told' = told
<1>1. ~Runs(k, Establishes(c))
  BY QueueRun DEF Inv, Typed, FunctorInv
<1>2. Runs(k, Destroys(c)) /\ ConnectDestroyed({c})
  BY <1>1 DEF RunConnection, Establishes, Destroys
<1>3. Destroys(c) \in Fs(k)
  BY <1>2, QueueRun DEF Inv, Typed
<1>4. state[c] = "kDisconnected" /\ chan[c].entry = "none"
  BY <1>3 DEF Inv, FunctorInv
<1>5. state' = state /\ told' = told
  BY <1>2, <1>4 DEF ConnectDestroyed, Inv, Typed, TypeOK
<1> QED
  BY <1>2, <1>4, <1>5

LEMMA RunConnectionKeeps ==
    ASSUME Inv, NEW k \in LoopIds, NEW c \in Clients, RunConnection(k, c), Typed'
    PROVE  Inv'
<1>1. UNCHANGED <<serverVars, loopOf, undefined>>
  BY DEF RunConnection
<1>2. /\ Runs(k, Destroys(c)) /\ ConnectDestroyed({c})
      /\ state[c] = "kDisconnected" /\ chan[c].entry = "none"
  BY RunConnectionIs
<1>3. state' = state /\ told' = told
  BY RunConnectionIs
<1>4. /\ UNCHANGED <<lpc, active, pending, batch, clientVars>>
      /\ lpc[k] = "functors" /\ done[k] < Len(batch[k])
      /\ done' = [done EXCEPT ![k] = @ + 1]
  BY <1>2 DEF Runs
<1>5. /\ Destroys(c) \in Fs(k)
      /\ \A l \in LoopIds : Fs(l)' = Fs(l) /\ Unrun(l) \subseteq Unrun(l)' \cup {Destroys(c)}
  BY <1>2, QueueRun DEF Inv, Typed
<1>6. /\ chan'[c].index = kNew /\ chan'[c].entry = "none"
      /\ \A d \in Clients \ {c} : chan'[d] = chan[d]
  BY <1>2, DestroyedTyped DEF Inv
<1> USE <1>1, <1>4, <1>3 DEF serverVars, poolVars, acceptVars, clientVars, Inv
<1>7. BacklogInv' /\ ActiveInv'
  BY BacklogFrame, ActiveFrame
<1>8. ServerInv' /\ StartInv' /\ ForeignInv'
  BY <1>5, ServerFrame, StartFrame, ForeignFrame
<1>9. BatchInv'
  BY DEF BatchInv, Typed, TypeOK
<1>10. FunctorInv'
  BY <1>5, <1>6 DEF FunctorInv
<1>11. StateInv'
  BY <1>6 DEF StateInv
<1>12. MapInv'
  <2>1. c \notin connections
    BY <1>2 DEF MapInv
  <2>2. \A d \in Clients \ {c} : DestroyComes(d) => DestroyComes(d)'
    BY <1>5 DEF DestroyComes, Destroys
  <2>3. /\ mapUsers' \subseteq {Base}
        /\ \A d \in connections' :
              told'[d] = "up" /\ state'[d] \in {"kConnected", "kDisconnecting"}
                  /\ chan'[d].entry = "present"
        /\ \A d \in Clients \ connections' :
               /\ chan'[d].entry = "none"
               /\ chan'[d].index # kNew => DestroyComes(d)'
    <3>1. connections' = connections /\ connections \subseteq Clients
      BY DEF Typed, TypeOK
    <3>2. \A d \in connections : chan'[d] = chan[d]
      BY <1>6, <2>1, <3>1
    <3>3. \A d \in Clients \ connections : d = c \/ chan'[d] = chan[d]
      BY <1>6
    <3> QED
      BY <1>6, <2>1, <2>2, <3>1, <3>2, <3>3 DEF MapInv
  <2>4. \A d \in Clients \ connections' : serverAlive' => told'[d] # "up"
    BY Zenon DEF MapInv
  <2> QED
    BY <2>3, <2>4, Zenon DEF MapInv
<1> QED
  BY <1>7, <1>8, <1>9, <1>10, <1>11, <1>12

\* A connection whose events are handled is in connections_, on the base loop, and its server
\* exists.
LEMMA HandledFacts ==
    ASSUME Inv, NEW k \in LoopIds, NEW c \in Clients, c \in active[k]
    PROVE  /\ k = Base /\ c \in connections /\ loopOf[c] = k /\ serverAlive
           /\ state[c] \in {"kConnected", "kDisconnecting"} /\ chan[c].entry = "present"
<1>1. lpc[k] = "events" /\ c \in connections /\ loopOf[c] = k
  BY DEF Inv, ActiveInv
<1>2. k = Base
  BY <1>1, IdsFacts DEF Inv, StateInv
<1>3. state[c] \in {"kConnected", "kDisconnecting"} /\ chan[c].entry = "present"
  BY <1>1 DEF Inv, MapInv
<1>4. serverAlive
  BY <1>1 DEF Inv, ServerInv
<1> QED
  BY <1>1, <1>2, <1>3, <1>4

LEMMA HandleCloseKeeps ==
    ASSUME Inv, NEW k \in LoopIds, NEW c \in Clients, HandleClose(k, c), Typed'
    PROVE  Inv'
<1>1. /\ state' = [state EXCEPT ![c] = "kDisconnected"]
      /\ chan' = [chan EXCEPT ![c] = DisableAll(@)]
      /\ told' = [told EXCEPT ![c] = "down"]
      /\ connections' = connections \ {c} /\ mapUsers' = mapUsers \cup {k}
      /\ pending' = [pending EXCEPT ![k] = Append(@, Destroys(c))]
      /\ active' = [active EXCEPT ![k] = @ \ {c}]
      /\ UNCHANGED <<poolVars, acceptVars, loopOf, clientVars, lpc, batch, done>>
      /\ c \in active[k]
  BY DEF HandleClose, Handles, Destroys
<1>2. /\ k = Base /\ c \in connections /\ loopOf[c] = k
      /\ state[c] \in {"kConnected", "kDisconnecting"} /\ chan[c].entry = "present"
  BY <1>1, HandledFacts
<1>3. serverAlive /\ serverAlive' /\ ~undefined'
  <2>1. serverAlive
    BY <1>1, HandledFacts
  <2> QED
    BY <2>1, Zenon DEF HandleClose
<1>4. DisableAll(chan[c]).entry = "none"
  BY <1>2, DisableAllGood DEF Inv, Typed
<1>5. \A d \in Clients :
         IF d = c THEN /\ state'[d] = "kDisconnected" /\ told'[d] = "down"
                       /\ chan'[d].entry = "none"
         ELSE state'[d] = state[d] /\ told'[d] = told[d] /\ chan'[d] = chan[d]
  BY <1>1, <1>4 DEF Inv, Typed, TypeOK
<1>6. ASSUME NEW l \in LoopIds
      PROVE  /\ Fs(l)' \subseteq Fs(l) \cup {Destroys(c)}
             /\ Unrun(l) \subseteq Unrun(l)'
             /\ l = k => Destroys(c) \in Unrun(l)'
  BY <1>1, QueueAppend DEF Inv, Typed
<1>7. BatchInv' /\ StartInv'
  BY <1>1, BatchFrame, StartFrame DEF Inv, poolVars, acceptVars
<1>8. FunctorInv'
  BY <1>5, <1>6 DEF Inv, FunctorInv, Destroys, Establishes
<1>9. StateInv'
  BY <1>1, <1>2, <1>5 DEF Inv, StateInv, clientVars
<1>10. MapInv'
  <2>1. DestroyComes(c)'
    BY <1>6 DEF DestroyComes
  <2>2. \A d \in Clients : DestroyComes(d) => DestroyComes(d)'
    BY <1>6 DEF DestroyComes
  <2>3. mapUsers' \subseteq {Base} /\ connections \subseteq Clients
    BY <1>1, <1>2 DEF Inv, MapInv, Typed, TypeOK
  <2>4. \A d \in connections' :
            told'[d] = "up" /\ state'[d] \in {"kConnected", "kDisconnecting"}
                /\ chan'[d].entry = "present"
    BY <1>1, <1>5, <2>3 DEF Inv, MapInv
  <2>5. \A d \in Clients \ connections' :
            /\ chan'[d].entry = "none"
            /\ chan'[d].index # kNew => DestroyComes(d)'
    BY <1>1, <1>5, <2>1, <2>2 DEF Inv, MapInv
  <2>6. \A d \in Clients \ connections' : told'[d] # "up"
    BY <1>1, <1>3, <1>5 DEF Inv, MapInv
  <2> QED
    BY <2>3, <2>4, <2>5, <2>6 DEF MapInv
<1>11. ActiveInv'
  <2>1. \A l \in LoopIds : active'[l] = IF l = k THEN active[l] \ {c} ELSE active[l]
    <3>1. DOMAIN active = LoopIds
      BY DEF Inv, Typed, TypeOK
    <3> QED
      BY <1>1, <3>1
  <2>2. ASSUME NEW l \in LoopIds, NEW d \in Clients \cap active'[l]
        PROVE  lpc'[l] = "events" /\ d \in connections' /\ loopOf'[d] = l
    <3>1. d \in active[l]
      BY <2>1, <2>2
    <3>2. lpc[l] = "events" /\ d \in connections /\ loopOf[d] = l
      BY <3>1 DEF Inv, ActiveInv
    <3>3. d # c
      BY <1>2, <2>1, <3>2
    <3> QED
      BY <1>1, <3>2, <3>3
  <2>3. \A l \in LoopIds : acceptor \in active'[l] => acceptor \in active[l]
    BY <2>1
  <2> QED
    BY <1>1, <2>2, <2>3 DEF Inv, ActiveInv, clientVars, acceptVars
<1>12. BacklogInv'
  <2>1. \A i \in 1..Len(backlog) : backlog[i] \in Clients /\ backlog[i] # c
    BY <1>2 DEF Inv, BacklogInv, Typed, TypeOK
  <2>2. \A i \in 1..Len(backlog) : state'[backlog[i]] = state[backlog[i]]
    BY <1>5, <2>1
  <2> QED
    BY <1>1, <2>2 DEF Inv, BacklogInv, clientVars
<1>13. ServerInv'
  BY <1>3, Zenon DEF ServerInv
<1>14. ForeignInv'
  <2>1. \A l \in LoopIds :
            <<"listen", acceptor>> \in Fs(l)' => <<"listen", acceptor>> \in Fs(l)
    BY <1>6 DEF Destroys
  <2>2. (Early' <=> Early) /\ (ForeignStart' <=> ForeignStart)
    BY <1>1, Zenon DEF Early, ForeignStart, poolVars
  <2>3. \A l \in LoopIds : <<"listen", acceptor>> \in Fs(l)' => ForeignStart' /\ ~Early'
    BY <2>1, <2>2 DEF Inv, ForeignInv
  <2> QED
    BY <1>3, <2>3, Zenon DEF ForeignInv
<1> QED
  BY <1>7, <1>8, <1>9, <1>10, <1>11, <1>12, <1>13, <1>14 DEF Inv

\* Where the Acceptor is handled somebody waits, the server exists and the pool is started.
LEMMA AcceptFacts ==
    ASSUME Inv, acceptor \in active[Base]
    PROVE  /\ backlog # <<>> /\ serverAlive /\ started # 0 /\ ~Early
           /\ Len(loops) = numThreads
<1>1. backlog # <<>> /\ acceptChan.entry = "present"
  BY IdsFacts DEF Inv, ActiveInv
<1>2. serverAlive
  BY <1>1 DEF Inv, ServerInv
<1>3. acceptChan.index # kNew
  BY <1>1, RemovedEntry DEF Inv, Typed
<1>4. ~Early
  BY <1>3 DEF Inv, StartInv
<1> QED
  BY <1>1, <1>2, <1>4 DEF Inv, StartInv, Early

\* Who is next to be accepted has no connection.
LEMMA HeadFacts ==
    ASSUME Inv, backlog # <<>>
    PROVE  /\ Head(backlog) \in Clients /\ state[Head(backlog)] = "none"
           /\ client[Head(backlog)] # "idle" /\ told[Head(backlog)] = "nothing"
           /\ Head(backlog) \notin connections
           /\ Tail(backlog) \in Seq(Clients) /\ Len(Tail(backlog)) = Len(backlog) - 1
           /\ \A i \in 1..Len(Tail(backlog)) :
                  /\ i + 1 \in 1..Len(backlog) /\ Tail(backlog)[i] = backlog[i + 1]
                  /\ Tail(backlog)[i] \in Clients \ {Head(backlog)}
<1>1. backlog \in Seq(Clients) /\ Len(backlog) \in Nat /\ Len(backlog) > 0
  BY DEF Inv, Typed, TypeOK
<1>2. Head(backlog) = backlog[1] /\ 1 \in 1..Len(backlog) /\ Head(backlog) \in Clients
  BY <1>1
<1>3. state[Head(backlog)] = "none" /\ client[Head(backlog)] # "idle"
  BY <1>2 DEF Inv, BacklogInv
<1>4. told[Head(backlog)] = "nothing" /\ Head(backlog) \notin connections
  BY <1>2, <1>3 DEF Inv, StateInv, MapInv
<1>5. /\ Tail(backlog) \in Seq(Clients) /\ Len(Tail(backlog)) = Len(backlog) - 1
      /\ \A i \in 1..Len(Tail(backlog)) :
             i + 1 \in 1..Len(backlog) /\ Tail(backlog)[i] = backlog[i + 1]
  BY <1>1
<1>6. ASSUME NEW i \in 1..Len(Tail(backlog))
      PROVE  backlog[i + 1] \in Clients /\ backlog[i + 1] # backlog[1]
  <2>1. i + 1 \in 1..Len(backlog) /\ i + 1 # 1
    BY <1>1, <1>5
  <2> QED
    BY <1>1, <1>2, <2>1 DEF Inv, BacklogInv
<1> QED
  BY <1>1, <1>2, <1>3, <1>4, <1>5, <1>6

LEMMA AcceptKeeps ==
    ASSUME Inv, Accept, Typed'
    PROVE  Inv'
<1> DEFINE c == Head(backlog)
<1>1. /\ acceptor \in active[Base] /\ active' = [active EXCEPT ![Base] = @ \ {acceptor}]
      /\ UNCHANGED <<lpc, batch, done, serverAlive, poolVars, acceptVars, client>>
  BY DEF Accept, Handles
<1>2. /\ backlog # <<>> /\ serverAlive /\ started # 0 /\ ~Early /\ Len(loops) = numThreads
  BY <1>1, AcceptFacts
<1>0. serverAlive'
  BY <1>2, Zenon DEF Accept
<1>3. ServerInv'
  BY <1>0, Zenon DEF ServerInv
<1>4. BatchInv' /\ StartInv'
  BY <1>1, BatchFrame, StartFrame DEF Inv, poolVars, acceptVars
<1>5. (Early' <=> Early) /\ (ForeignStart' <=> ForeignStart)
  BY <1>1, Zenon DEF Early, ForeignStart, poolVars
<1>6. \A l \in LoopIds :
         active'[l] = IF l = Base THEN active[l] \ {acceptor} ELSE active[l]
  <2>1. DOMAIN active = LoopIds
    BY DEF Inv, Typed, TypeOK
  <2> QED
    BY <1>1, <2>1
<1>7. CASE loops = <<>>
  <2>1. /\ undefined' = TRUE
        /\ UNCHANGED <<connections, mapUsers, pending, connVars, backlog>>
    BY <1>7 DEF Accept, GetNextLoop
  <2>2. \A l \in LoopIds : Fs(l)' = Fs(l) /\ Unrun(l)' = Unrun(l)
    BY <1>1, <2>1, QueuesSame
  <2>3. FunctorInv' /\ StateInv' /\ MapInv' /\ BacklogInv'
    BY <1>1, <2>1, <2>2, FunctorFrame, StateFrame, MapFrame, BacklogFrame
       DEF Inv, connVars
  <2>4. ActiveInv'
    BY <1>1, <1>6, <2>1, ActiveFrame DEF Inv, connVars, acceptVars
  <2>5. ForeignInv'
    <3>1. numThreads' = 0 /\ started' # 0
      BY <1>1, <1>2, <1>7 DEF poolVars
    <3>2. \A l \in LoopIds : <<"listen", acceptor>> \in Fs(l)' => ForeignStart' /\ ~Early'
      BY <1>5, <2>2 DEF Inv, ForeignInv
    <3> QED
      BY <3>1, <3>2, Zenon DEF ForeignInv
  <2> QED
    BY <1>3, <1>4, <2>3, <2>4, <2>5 DEF Inv
<1>8. CASE loops # <<>>
  <2>1. GetNextLoop = Base /\ Base # NoLoop
    BY <1>8, IdsFacts DEF GetNextLoop
  <2>2. /\ Establish(c) /\ pending' = pending /\ backlog' = Tail(backlog)
        /\ connections' = connections \cup {c} /\ mapUsers' = mapUsers \cup {Base}
        /\ loopOf' = [loopOf EXCEPT ![c] = Base]
    BY <2>1 DEF Accept
  <2>3. ~undefined'
    BY <2>1, Zenon DEF Accept, Handles, Running
  <2>4. /\ c \in Clients /\ state[c] = "none" /\ client[c] # "idle" /\ c \notin connections
        /\ Len(Tail(backlog)) = Len(backlog) - 1 /\ Len(backlog) \in Nat
        /\ \A i \in 1..Len(Tail(backlog)) :
               /\ i + 1 \in 1..Len(backlog) /\ Tail(backlog)[i] = backlog[i + 1]
               /\ Tail(backlog)[i] \in Clients \ {c}
    BY <1>2, HeadFacts DEF Inv, Typed, TypeOK
  <2> HIDE DEF c
  <2>5. EnableReading(chan[c]).entry = "present"
    BY <2>4, EnableReadingGood DEF Inv, Typed
  <2>6. \A d \in Clients :
           IF d = c THEN /\ state'[d] = "kConnected" /\ told'[d] = "up"
                         /\ chan'[d].entry = "present" /\ loopOf'[d] = Base
           ELSE /\ state'[d] = state[d] /\ told'[d] = told[d] /\ chan'[d] = chan[d]
                /\ loopOf'[d] = loopOf[d]
    BY <2>2, <2>5 DEF Establish, Inv, Typed, TypeOK
  <2>7. \A l \in LoopIds : Fs(l)' = Fs(l) /\ Unrun(l)' = Unrun(l)
    BY <1>1, <2>2, QueuesSame
  <2>8. FunctorInv'
    BY <2>4, <2>6, <2>7 DEF Inv, FunctorInv
  <2>9. StateInv'
    BY <1>1, <2>4, <2>6 DEF Inv, StateInv
  <2>10. MapInv'
    <3>1. \A d \in Clients : DestroyComes(d)' <=> DestroyComes(d)
      BY <2>7 DEF DestroyComes
    <3>2. mapUsers' \subseteq {Base} /\ connections \subseteq Clients
      BY <2>2 DEF Inv, MapInv, Typed, TypeOK
    <3>3. \A d \in connections' :
              told'[d] = "up" /\ state'[d] \in {"kConnected", "kDisconnecting"}
                  /\ chan'[d].entry = "present"
      BY <2>2, <2>4, <2>6, <3>2 DEF Inv, MapInv
    <3>4. \A d \in Clients \ connections' :
              /\ told'[d] # "up" /\ chan'[d].entry = "none"
              /\ chan'[d].index # kNew => DestroyComes(d)'
      BY <1>2, <2>2, <2>6, <3>1 DEF Inv, MapInv
    <3> QED
      BY <3>2, <3>3, <3>4 DEF MapInv
  <2>11. ActiveInv'
    <3>1. ASSUME NEW l \in LoopIds, NEW d \in Clients \cap active'[l]
          PROVE  lpc'[l] = "events" /\ d \in connections' /\ loopOf'[d] = l
      <4>1. d \in Clients \cap active[l]
        BY <1>6, <3>1
      <4>2. lpc[l] = "events" /\ d \in connections /\ loopOf[d] = l
        BY <4>1 DEF Inv, ActiveInv
      <4>3. d # c
        BY <2>4, <4>2
      <4> QED
        BY <1>1, <2>2, <2>6, <4>1, <4>2, <4>3
    <3>2. \A l \in LoopIds : acceptor \notin active'[l]
      BY <1>6 DEF Inv, ActiveInv
    <3> QED
      BY <3>1, <3>2 DEF ActiveInv
  <2>12. BacklogInv'
    <3>1. \A i, j \in 1..Len(backlog') : backlog'[i] = backlog'[j] => i = j
      BY <2>2, <2>4 DEF Inv, BacklogInv
    <3>2. \A i \in 1..Len(backlog') :
             state'[backlog'[i]] = "none" /\ client'[backlog'[i]] # "idle"
      BY <1>1, <2>2, <2>4, <2>6 DEF Inv, BacklogInv
    <3> QED
      BY <3>1, <3>2 DEF BacklogInv
  <2>13. ForeignInv'
    BY <1>5, <2>3, <2>7 DEF Inv, ForeignInv
  <2> QED
    BY <1>3, <1>4, <2>8, <2>9, <2>10, <2>11, <2>12, <2>13 DEF Inv
<1> QED
  BY <1>7, <1>8

LEMMA DestroyServerKeeps ==
    ASSUME Inv, DestroyServer, Typed'
    PROVE  Inv'
<1>1. /\ serverAlive /\ lpc[Base] \in {"setup", "poll", "functors"}
      /\ \A s \in Callers : spc[s] \in {"idle", "done"}
      /\ connections' = {} /\ mapUsers' = mapUsers \cup {Base}
      /\ ConnectDestroyed(connections)
      /\ acceptChan' = RemoveChannel(DisableAll(acceptChan))
      /\ backlog' = <<>>
      /\ client' = [c \in Clients |-> IF c \in ToSet(backlog) THEN "closed" ELSE client[c]]
      /\ UNCHANGED <<poolVars, loopOf, loopVars>>
  BY DEF DestroyServer
<1>2. ~serverAlive' /\ ~listening' /\ ~undefined'
  BY Zenon DEF DestroyServer, Running, loopVars
<1>3. acceptChan'.index = kNew
  BY <1>1, DisableAllGood, RemoveChannelGood DEF Inv, Typed
<1>4. connections \subseteq Clients
  BY DEF Inv, Typed, TypeOK
<1>5. /\ \A c \in connections : chan'[c].index = kNew /\ chan'[c].entry = "none"
      /\ \A c \in Clients \ connections : chan'[c] = chan[c]
  BY <1>1, <1>4, DestroyedTyped DEF Inv
<1>6. /\ \A c \in connections : state'[c] # "none" /\ state'[c] # "kConnecting"
      /\ \A c \in Clients \ connections : state'[c] = state[c] /\ told'[c] = told[c]
  BY <1>1, <1>4 DEF ConnectDestroyed, Inv, MapInv
<1>7. \A l \in LoopIds : Fs(l)' = Fs(l) /\ Unrun(l)' = Unrun(l)
  BY <1>1, QueuesSame DEF loopVars
<1>8. BatchInv'
  BY <1>1, BatchFrame DEF Inv, loopVars
<1>9. FunctorInv'
  <2>1. \A l \in LoopIds, c \in Clients : Destroys(c) \in Fs(l) => c \notin connections
    BY DEF Inv, FunctorInv, MapInv
  <2> QED
    BY <1>5, <1>6, <1>7, <2>1 DEF Inv, FunctorInv
<1>10. StateInv'
  <2>1. \A c \in connections : client[c] # "idle"
    BY <1>4 DEF Inv, StateInv, MapInv
  <2>2. \A c \in Clients : client'[c] = "idle" => client[c] = "idle"
    BY <1>1
  <2> QED
    BY <1>1, <1>5, <1>6, <2>1, <2>2 DEF Inv, StateInv
<1>11. MapInv'
  <2>1. mapUsers' \subseteq {Base}
    BY <1>1 DEF Inv, MapInv
  <2>2. \A c \in Clients : DestroyComes(c)' <=> DestroyComes(c)
    BY <1>7 DEF DestroyComes
  <2>3. \A c \in Clients : /\ chan'[c].entry = "none"
                           /\ chan'[c].index # kNew => DestroyComes(c)'
    BY <1>5, <2>2 DEF Inv, MapInv
  <2> QED
    BY <1>1, <1>2, <2>1, <2>3 DEF MapInv
<1>12. ActiveInv'
  <2>1. \A l \in LoopIds : l # Base => Clients \cap active[l] = {}
    BY IdsFacts DEF Inv, ActiveInv, StateInv
  <2>2. \A l \in LoopIds : Clients \cap active[l] = {} /\ acceptor \notin active[l]
    BY <1>1, <2>1 DEF Inv, ActiveInv
  <2>3. active' = active
    BY <1>1 DEF loopVars
  <2> QED
    BY <2>2, <2>3 DEF ActiveInv
<1>13. BacklogInv'
  BY <1>1 DEF BacklogInv
<1>14. ServerInv'
  <2>1. UNCHANGED spc
    BY <1>1 DEF poolVars
  <2> QED
    BY <1>1, <1>2, <1>3, <2>1, Zenon DEF ServerInv
<1>15. StartInv'
  BY <1>1, <1>3 DEF Inv, StartInv, Early, poolVars
<1>16. ForeignInv'
  BY <1>1, <1>2, <1>7 DEF Inv, ForeignInv, Early, ForeignStart, poolVars
<1> QED
  BY <1>8, <1>9, <1>10, <1>11, <1>12, <1>13, <1>14, <1>15, <1>16 DEF Inv

-----------------------------------------------------------------------------
(* The invariant holds.                                                    *)

LEMMA StepKeeps == Inv /\ [Next]_vars => Inv'
<1> SUFFICES ASSUME Inv, [Next]_vars PROVE Inv'
  OBVIOUS
<1>0. Typed'
  BY TypedStep DEF Inv
<1>1. ASSUME NEW n \in 0..MaxThreads, SetThreadNum(n) PROVE Inv'
  BY <1>0, <1>1, SetThreadNumKeeps
<1>2. ASSUME NEW s \in Callers, Start(s) \/ StartStep(s) PROVE Inv'
  BY <1>0, <1>2, StartKeeps, StartPoolKeeps, CallListenKeeps DEF StartStep
<1>3. ASSUME NEW l \in LoopIds, LoopStep(l) PROVE Inv'
  <2>1. CASE Poll(l) \/ SwapFunctors(l) \/ RunListen(l) \/ FinishBatch(l)
    BY <1>0, <2>1, PollKeeps, SwapFunctorsKeeps, RunListenKeeps, FinishBatchKeeps
  <2>2. ASSUME NEW c \in Clients, Message(l, c) \/ HandleClose(l, c) \/ RunConnection(l, c)
        PROVE  Inv'
    BY <1>0, <2>2, MessageKeeps, HandleCloseKeeps, RunConnectionKeeps
  <2> QED
    BY <1>3, <2>1, <2>2 DEF LoopStep
<1>4. CASE BaseStep
  BY <1>0, <1>3, <1>4, EnterLoopKeeps, AcceptFailsKeeps, AcceptKeeps, IdsFacts DEF BaseStep
<1>5. CASE DestroyServer
  BY <1>0, <1>5, DestroyServerKeeps
<1>6. ASSUME NEW c \in Clients, ClientStep(c) PROVE Inv'
  BY <1>0, <1>6, ClientKeeps
<1>7. CASE UNCHANGED vars
  BY <1>0, <1>7, StutterKeeps
<1> QED
  BY <1>1, <1>2, <1>3, <1>4, <1>5, <1>6, <1>7 DEF Next

LEMMA InvHolds == Spec => []Inv
<1> QED
  BY InvInit, StepKeeps, PTL DEF Spec

-----------------------------------------------------------------------------
(* The theorems.                                                           *)

\* The variables have their types.
THEOREM TypeCorrect == Spec => []TypeOK
<1>1. Inv => TypeOK
  BY DEF Inv, Typed
<1> QED
  BY <1>1, InvHolds, PTL

\* connections_, which has no mutex, is changed on the thread of the base loop only: with any
\* number of loop threads, as getNextLoop never names the loop of one.
THEOREM MapHasOneThread == Spec => []MapOnOneThread
<1>1. Inv => MapOnOneThread
  BY DEF Inv, MapInv, MapOnOneThread
<1> QED
  BY <1>1, InvHolds, PTL

\* As long as there is a server, connections_ holds exactly the connections that are up for the
\* application, whatever order accepts, ends and functors come in.
THEOREM MapIsWhatIsUp == Spec => []MapHoldsUp
<1>1. ASSUME Inv, serverAlive PROVE connections = {c \in Clients : told[c] = "up"}
  <2>1. connections \subseteq Clients
    BY <1>1 DEF Inv, Typed, TypeOK
  <2> QED
    BY <1>1, <2>1 DEF Inv, MapInv
<1>2. Inv => MapHoldsUp
  BY <1>1 DEF MapHoldsUp
<1> QED
  BY <1>2, InvHolds, PTL

\* No Channel is destroyed, by the last functor that holds its connection or by ~TcpServer,
\* while the poller has it in its map or epoll has its fd.
THEOREM RemovedFirst == Spec => []RemovedBeforeDestroyed
<1>1. ASSUME Inv, NEW c \in Clients \ Open
      PROVE  chan[c].index = kNew /\ chan[c].entry = "none"
  <2>1. CASE state[c] = "none"
    BY <1>1, <2>1, RemovedEntry DEF Inv, StateInv, Typed
  <2>2. CASE ~Held(c)
    <3>1. c \notin connections
      BY <2>2 DEF Held
    <3>2. \A l \in LoopIds : Destroys(c) \notin Fs(l)
      BY <2>2 DEF Held, Fs, Destroys
    <3>3. ~DestroyComes(c)
      BY <1>1, <3>2, UnrunInFs DEF DestroyComes, Inv, Typed
    <3> QED
      BY <1>1, <3>1, <3>3 DEF Inv, MapInv
  <2> QED
    BY <1>1, <2>1, <2>2 DEF Open
<1>2. ASSUME Inv, ~serverAlive PROVE acceptChan.index = kNew /\ acceptChan.entry = "none"
  BY <1>2, RemovedEntry DEF Inv, ServerInv, Typed
<1>3. Inv => RemovedBeforeDestroyed
  BY <1>1, <1>2 DEF RemovedBeforeDestroyed
<1> QED
  BY <1>3, InvHolds, PTL

\* With loop threads and with start() called on the base loop's thread only, nothing is run of
\* a destroyed server, and nothing taken from an empty loops_.
THEOREM NothingIsLost == Spec => []NothingDangles
<1>1. Inv => NothingDangles
  BY DEF Inv, ForeignInv, ForeignStart, NothingDangles
<1> QED
  BY <1>1, InvHolds, PTL

-----------------------------------------------------------------------------
(* The server implements Service.                                          *)

LEMMA ServiceInit == Init => S!Init
<1> SUFFICES ASSUME Init PROVE S!Init
  OBVIOUS
<1>1. backlog = <<>> /\ \A c \in Clients : told[c] = "nothing"
  BY DEF Init
<1>2. serverAlive = TRUE
  BY Zenon DEF Init
<1> QED
  BY <1>1, <1>2 DEF S!Init

\* A client comes.
LEMMA ConnectsArrives ==
    ASSUME Inv, NEW c \in Clients, ClientConnects(c)
    PROVE  S!Arrive(c)
<1>1. /\ UNCHANGED told /\ client[c] = "idle" /\ backlog' = Append(backlog, c)
      /\ backlog \in Seq(Clients)
  BY DEF ClientConnects, connVars, Inv, Typed, TypeOK
<1>2. serverAlive /\ serverAlive' = serverAlive
  BY Zenon DEF ClientConnects, Inv, ServerInv, serverVars
<1>3. told[c] = "nothing"
  BY <1>1 DEF Inv, StateInv
<1>4. c \notin S!ToSet(backlog)
  BY <1>1 DEF S!ToSet, Inv, BacklogInv
<1> QED
  BY <1>1, <1>2, <1>3, <1>4 DEF S!Arrive

\* The first who waits is served, or the process is lost.
LEMMA AcceptServes ==
    ASSUME Inv, Accept
    PROVE  S!Serve \/ UNCHANGED S!vars
<1>1. backlog # <<>> /\ serverAlive
  BY AcceptFacts DEF Accept, Handles
<1>2. serverAlive' = serverAlive
  BY Zenon DEF Accept
<1>3. CASE loops = <<>>
  BY <1>2, <1>3 DEF Accept, GetNextLoop, connVars, S!vars
<1>4. CASE loops # <<>>
  <2>1. Establish(Head(backlog)) /\ backlog' = Tail(backlog)
    BY <1>4, IdsFacts DEF Accept, GetNextLoop
  <2>2. Head(backlog) \in Clients /\ told[Head(backlog)] = "nothing"
    BY <1>1, HeadFacts
  <2>3. told' = [told EXCEPT ![Head(backlog)] = "up"] /\ DOMAIN told = Clients
    BY <2>1 DEF Establish, Inv, Typed, TypeOK
  <2> QED
    BY <1>1, <1>2, <2>1, <2>2, <2>3 DEF S!Serve
<1> QED
  BY <1>3, <1>4

\* A connection ends.
LEMMA CloseEnds ==
    ASSUME Inv, NEW k \in LoopIds, NEW c \in Clients, HandleClose(k, c)
    PROVE  S!End(c)
<1>1. /\ told' = [told EXCEPT ![c] = "down"] /\ DOMAIN told = Clients /\ c \in active[k]
      /\ backlog' = backlog
  BY DEF HandleClose, Handles, clientVars, Inv, Typed, TypeOK
<1>2. serverAlive /\ told[c] = "up"
  BY <1>1, HandledFacts DEF Inv, MapInv
<1>3. serverAlive' = serverAlive
  BY Zenon DEF HandleClose
<1> QED
  BY <1>1, <1>2, <1>3 DEF S!End

\* The server stops.
LEMMA DestroyStops ==
    ASSUME Inv, DestroyServer
    PROVE  S!Stop
<1>1. /\ backlog' = <<>> /\ connections \subseteq Clients
      /\ told' = [c \in Clients |->
                     IF c \in connections /\ state[c] = "kConnected" THEN "down" ELSE told[c]]
  BY DEF DestroyServer, ConnectDestroyed, Inv, Typed, TypeOK
<1>2. \A c \in connections : told[c] = "up"
  BY DEF Inv, MapInv
<1>3. serverAlive /\ serverAlive' = FALSE
  BY Zenon DEF DestroyServer
<1> QED
  BY <1>1, <1>2, <1>3 DEF S!Stop

LEMMA ServiceStep == Inv /\ [Next]_vars => [S!Next]_(S!vars)
<1> SUFFICES ASSUME Inv, [Next]_vars PROVE S!Next \/ UNCHANGED S!vars
  OBVIOUS
<1>1. ASSUME NEW n \in 0..MaxThreads, SetThreadNum(n) PROVE UNCHANGED S!vars
  BY <1>1 DEF SetThreadNum, connVars, clientVars, S!vars
<1>2. ASSUME NEW s \in Callers, Start(s) \/ StartStep(s) PROVE UNCHANGED S!vars
  BY <1>2 DEF Start, StartStep, StartPool, CallListen, connVars, clientVars, S!vars
<1>3. ASSUME NEW l \in LoopIds, LoopStep(l) PROVE S!Next \/ UNCHANGED S!vars
  <2>1. CASE Poll(l) \/ SwapFunctors(l) \/ FinishBatch(l)
    BY <2>1 DEF Poll, SwapFunctors, FinishBatch, serverVars, connVars, clientVars, S!vars
  <2>2. CASE RunListen(l)
    BY <2>2 DEF RunListen, Runs, connVars, clientVars, S!vars
  <2>3. ASSUME NEW c \in Clients, Message(l, c) PROVE UNCHANGED S!vars
    BY <2>3 DEF Message, serverVars, S!vars
  <2>4. ASSUME NEW c \in Clients, HandleClose(l, c) PROVE S!Next
    BY <2>4, CloseEnds DEF S!Next
  <2>5. ASSUME NEW c \in Clients, RunConnection(l, c) PROVE UNCHANGED S!vars
    <3>1. told' = told
      BY <2>5, RunConnectionIs
    <3>2. UNCHANGED <<serverAlive, backlog>>
      BY <2>5 DEF RunConnection, Runs, serverVars, clientVars
    <3> QED
      BY <3>1, <3>2 DEF S!vars
  <2> QED
    BY <1>3, <2>1, <2>2, <2>3, <2>4, <2>5 DEF LoopStep
<1>4. CASE BaseStep
  <2>1. CASE EnterLoop \/ AcceptFails
    BY <2>1 DEF EnterLoop, AcceptFails, serverVars, connVars, clientVars, S!vars
  <2>2. CASE Accept
    BY <2>2, AcceptServes DEF S!Next
  <2> QED
    BY <1>3, <1>4, <2>1, <2>2, IdsFacts DEF BaseStep
<1>5. CASE DestroyServer
  BY <1>5, DestroyStops DEF S!Next
<1>6. ASSUME NEW c \in Clients, ClientStep(c) PROVE S!Next \/ UNCHANGED S!vars
  <2>1. CASE ClientConnects(c)
    BY <2>1, ConnectsArrives DEF S!Next
  <2>2. CASE ClientSends(c) \/ ClientCloses(c)
    BY <2>2 DEF ClientSends, ClientCloses, serverVars, connVars, S!vars
  <2> QED
    BY <1>6, <2>1, <2>2 DEF ClientStep
<1>7. CASE UNCHANGED vars
  BY <1>7 DEF vars, serverVars, connVars, clientVars, S!vars
<1> QED
  BY <1>1, <1>2, <1>3, <1>4, <1>5, <1>6, <1>7 DEF Next

\* Clients are served in the order they came, and each is told of once and of its end once:
\* every step of the server is one of Service or none that shows.
THEOREM Refinement == Spec => ImplementsService
<1> QED
  BY ServiceInit, ServiceStep, InvHolds, PTL DEF Spec, ImplementsService, S!Spec

-----------------------------------------------------------------------------
(* What the liveness of the server rests on: a second inductive invariant, *)
(* in four parts, which holds together with Inv.                           *)

Asked == <<"listen", acceptor>>

\* From the first start() on somebody is about to listen.
ComeInv ==
    (started > 0 /\ serverAlive) =>
        listening \/ Asked \in Unrun(Base) \/ \E s \in Callers : spc[s] \in {"pool", "listen"}

\* Who waits, waits at a listening socket, and a listening socket is watched.
AcceptInv ==
    /\ backlog # <<>> => listening
    /\ serverAlive /\ listening =>
           acceptChan.entry = "present" /\ "IN" \in acceptChan.events
    /\ acceptChan.entry = "present" => "IN" \in acceptChan.events

\* What connections_ holds is watched for what its client sends and for its end.
ReadInv == \A c \in connections : "IN" \in chan[c].events

\* A client that has come waits or has been told.
ToldInv ==
    serverAlive =>
        \A c \in Clients : client[c] # "idle" => c \in ToSet(backlog) \/ told[c] # "nothing"

\* The listening socket's call stays in its queue, whatever else is put in or taken out.
LEMMA AskedStays ==
    ASSUME Inv, ComeInv, UNCHANGED <<started, serverAlive, listening, spc>>,
           Asked \in Unrun(Base) => Asked \in Unrun(Base)'
    PROVE  ComeInv'
<1>1. serverAlive' = serverAlive /\ listening' = listening
  OBVIOUS
<1> QED
  BY <1>1 DEF ComeInv

LEMMA AskedIsNot ==
    ASSUME NEW c \in Clients
    PROVE  Destroys(c) # Asked /\ Establishes(c) # Asked
  BY DEF Destroys, Establishes, Asked

LEMMA CallersCome ==
    ASSUME Inv, ComeInv, NEW s \in Callers, Start(s) \/ StartStep(s)
    PROVE  ComeInv'
<1>t. TypeOK /\ Base \in LoopIds /\ started \in Nat /\ spc \in [Callers -> {"idle", "pool", "listen", "done"}]
  BY IdsFacts DEF Inv, Typed, TypeOK
<1>1. CASE Start(s)
  <2>0. UNCHANGED <<pending, batch, done, listening, serverAlive>>
    BY <1>1, Zenon DEF Start, acceptVars, loopVars
  <2>1. Unrun(Base)' = Unrun(Base)
    BY <1>t, <2>0, QueuesSame
  <2>2. CASE started = 0
    <3>1. spc'[s] = "pool"
      BY <1>1, <1>t, <2>2 DEF Start, CallerMoves
    <3> QED
      BY <3>1 DEF ComeInv
  <2>3. CASE started # 0
    <3>1. started > 0 /\ \A t \in Callers : spc[t] \in {"pool", "listen"} => spc'[t] = spc[t]
      BY <1>1, <1>t, <2>3 DEF Start, CallerMoves
    <3>2. CASE serverAlive
      <4>1. listening \/ Asked \in Unrun(Base) \/ \E t \in Callers : spc[t] \in {"pool", "listen"}
        BY <3>1, <3>2 DEF ComeInv
      <4> QED
        BY <2>0, <2>1, <3>1, <4>1 DEF ComeInv
    <3>3. CASE ~serverAlive
      BY <2>0, <3>3, Zenon DEF ComeInv
    <3> QED
      BY <3>2, <3>3
  <2> QED
    BY <2>2, <2>3
<1>2. CASE StartPool(s)
  <2>1. spc'[s] = "listen"
    BY <1>2, <1>t DEF StartPool, CallerMoves
  <2> QED
    BY <2>1 DEF ComeInv
<1>3. CASE CallListen(s)
  <2>1. CASE s = baseThread
    <3>1. listening' = TRUE
      BY <1>3, <2>1 DEF CallListen, Listen
    <3> QED
      BY <3>1 DEF ComeInv
  <2>2. CASE s # baseThread
    <3>1. pending' = [pending EXCEPT ![Base] = Append(@, Asked)] /\ UNCHANGED <<batch, done>>
      BY <1>3, <2>2 DEF CallListen, Asked
    <3>2. \A l \in LoopIds : Unrun(l)' = IF l = Base THEN Unrun(l) \cup {Asked} ELSE Unrun(l)
      BY <1>t, <3>1, QueueAppend
    <3> QED
      BY <1>t, <3>2 DEF ComeInv
  <2> QED
    BY <2>1, <2>2
<1> QED
  BY <1>1, <1>2, <1>3 DEF StartStep

LEMMA LoopsCome ==
    ASSUME Inv, ComeInv, NEW l \in LoopIds, LoopStep(l)
    PROVE  ComeInv'
<1>t. TypeOK /\ BatchInv /\ Base \in LoopIds
  BY IdsFacts DEF Inv, Typed
<1>1. CASE Poll(l)
  <2>1. UNCHANGED <<started, serverAlive, listening, spc, pending, batch, done>>
    BY <1>1, Zenon DEF Poll, serverVars, poolVars, acceptVars
  <2> QED
    BY <1>t, <2>1, QueuesSame, AskedStays
<1>2. CASE SwapFunctors(l)
  <2>1. UNCHANGED <<started, serverAlive, listening, spc>>
    BY <1>2, Zenon DEF SwapFunctors, serverVars, poolVars, acceptVars
  <2> QED
    BY <1>2, <1>t, <2>1, QueueSwap, AskedStays
<1>3. CASE FinishBatch(l)
  <2>1. UNCHANGED <<started, serverAlive, listening, spc>>
    BY <1>3, Zenon DEF FinishBatch, serverVars, poolVars, acceptVars
  <2> QED
    BY <1>3, <1>t, <2>1, QueueFinish, AskedStays
<1>4. CASE RunListen(l)
  <2>1. CASE serverAlive
    <3>1. listening' = TRUE
      BY <1>4, <2>1 DEF RunListen, Listen
    <3> QED
      BY <3>1 DEF ComeInv
  <2>2. CASE ~serverAlive
    <3>1. serverAlive' = serverAlive
      BY <1>4, Zenon DEF RunListen
    <3> QED
      BY <2>2, <3>1, Zenon DEF ComeInv
  <2> QED
    BY <2>1, <2>2
<1>5. ASSUME NEW c \in Clients, Message(l, c) PROVE ComeInv'
  <2>1. UNCHANGED <<started, serverAlive, listening, spc, pending, batch, done>>
    BY <1>5, Zenon DEF Message, Handles, serverVars, poolVars, acceptVars
  <2> QED
    BY <1>t, <2>1, QueuesSame, AskedStays
<1>6. ASSUME NEW c \in Clients, HandleClose(l, c) PROVE ComeInv'
  <2>1. /\ UNCHANGED <<started, serverAlive, listening, spc, batch, done>>
        /\ pending' = [pending EXCEPT ![l] = Append(@, Destroys(c))]
    BY <1>6, Zenon DEF HandleClose, Handles, poolVars, acceptVars, Destroys
  <2>2. \A k \in LoopIds : Unrun(k)' = IF k = l THEN Unrun(k) \cup {Destroys(c)} ELSE Unrun(k)
    BY <1>t, <2>1, QueueAppend
  <2>3. Unrun(Base) \subseteq Unrun(Base)'
    BY <1>t, <2>2
  <2> QED
    BY <2>1, <2>3, AskedStays
<1>7. ASSUME NEW c \in Clients, RunConnection(l, c) PROVE ComeInv'
  <2>1. UNCHANGED <<started, serverAlive, listening, spc>>
    BY <1>7, Zenon DEF RunConnection, serverVars, poolVars, acceptVars
  <2>2. Runs(l, Destroys(c))
    BY <1>7, RunConnectionIs
  <2>3. Unrun(Base) \subseteq Unrun(Base)' \cup {Destroys(c)}
    BY <1>t, <2>2, QueueRun
  <2> QED
    BY <2>1, <2>3, AskedIsNot, AskedStays
<1> QED
  BY <1>1, <1>2, <1>3, <1>4, <1>5, <1>6, <1>7 DEF LoopStep

LEMMA AcceptComes ==
    ASSUME Inv, ComeInv, Accept
    PROVE  ComeInv'
<1>1. CASE listening
  <2>1. listening' = listening
    BY Zenon DEF Accept, acceptVars
  <2> QED
    BY <1>1, <2>1, Zenon DEF ComeInv
<1>2. CASE ~listening
  <2>1. UNCHANGED <<started, serverAlive, listening, spc, batch, done>>
    BY Zenon DEF Accept, Handles, poolVars, acceptVars
  <2>2. GetNextLoop = NoLoop \/ GetNextLoop = Base
    BY DEF GetNextLoop
  <2>3. pending' = pending
    BY <2>2, IdsFacts DEF Accept
  <2> QED
    BY <2>1, <2>3, QueuesSame, IdsFacts, AskedStays
<1> QED
  BY <1>1, <1>2

LEMMA ComeStep == Inv /\ ComeInv /\ [Next]_vars => ComeInv'
<1> SUFFICES ASSUME Inv, ComeInv, [Next]_vars PROVE ComeInv'
  OBVIOUS
<1>0. ASSUME UNCHANGED <<started, serverAlive, listening, spc, pending, batch, done>>
      PROVE  ComeInv'
  BY <1>0, QueuesSame, IdsFacts, AskedStays
<1>1. ASSUME NEW n \in 0..MaxThreads, SetThreadNum(n) PROVE ComeInv'
  <2>1. UNCHANGED <<started, serverAlive, listening, spc, pending, batch, done>>
    BY <1>1, Zenon DEF SetThreadNum, acceptVars, loopVars
  <2> QED
    BY <1>0, <2>1
<1>2. CASE EnterLoop \/ AcceptFails
  <2>1. UNCHANGED <<started, serverAlive, listening, spc, pending, batch, done>>
    BY <1>2, Zenon DEF EnterLoop, AcceptFails, Handles, serverVars, poolVars, acceptVars
  <2> QED
    BY <1>0, <2>1
<1>3. CASE DestroyServer
  <2>1. ~serverAlive'
    BY <1>3, Zenon DEF DestroyServer
  <2> QED
    BY <2>1, Zenon DEF ComeInv
<1>4. ASSUME NEW c \in Clients, ClientStep(c) PROVE ComeInv'
  <2>1. UNCHANGED <<started, serverAlive, listening, spc, pending, batch, done>>
    BY <1>4, Zenon DEF ClientStep, ClientConnects, ClientSends, ClientCloses,
                       serverVars, poolVars, acceptVars, loopVars
  <2> QED
    BY <1>0, <2>1
<1>5. CASE UNCHANGED vars
  <2>1. UNCHANGED <<started, serverAlive, listening, spc, pending, batch, done>>
    BY <1>5, Zenon DEF vars, serverVars, poolVars, acceptVars, loopVars
  <2> QED
    BY <1>0, <2>1
<1>6. CASE BaseStep
  BY <1>2, <1>6, AcceptComes, LoopsCome, IdsFacts DEF BaseStep
<1> QED
  BY <1>1, <1>3, <1>4, <1>5, <1>6, CallersCome, LoopsCome DEF Next

LEMMA ListenWatches ==
    ASSUME Typed, Listen
    PROVE  acceptChan'.entry = "present" /\ "IN" \in acceptChan'.events
  BY EnableReadingGood, EnableReadingEvents DEF Typed, Listen, kReadEvent

LEMMA AcceptStep == Inv /\ AcceptInv /\ [Next]_vars => AcceptInv'
<1> SUFFICES ASSUME Inv, AcceptInv, [Next]_vars PROVE AcceptInv'
  OBVIOUS
<1>t. Typed
  BY DEF Inv
<1>0. ASSUME UNCHANGED <<serverAlive, listening, acceptChan, backlog>> PROVE AcceptInv'
  <2>1. (serverAlive' <=> serverAlive) /\ (listening' <=> listening)
    BY <1>0, Zenon
  <2> QED
    BY <1>0, <2>1 DEF AcceptInv
<1>1. ASSUME Listen, UNCHANGED backlog PROVE AcceptInv'
  BY <1>t, <1>1, ListenWatches DEF AcceptInv, Listen
<1>2. ASSUME NEW n \in 0..MaxThreads, SetThreadNum(n) PROVE AcceptInv'
  <2>1. UNCHANGED <<serverAlive, listening, acceptChan, backlog>>
    BY <1>2, Zenon DEF SetThreadNum, acceptVars, clientVars
  <2> QED
    BY <1>0, <2>1
<1>3. ASSUME NEW s \in Callers, Start(s) \/ StartPool(s) PROVE AcceptInv'
  <2>1. UNCHANGED <<serverAlive, listening, acceptChan, backlog>>
    BY <1>3, Zenon DEF Start, StartPool, acceptVars, clientVars
  <2> QED
    BY <1>0, <2>1
<1>4. ASSUME NEW s \in Callers, CallListen(s) PROVE AcceptInv'
  <2>1. UNCHANGED <<serverAlive, backlog>>
    BY <1>4, Zenon DEF CallListen, clientVars
  <2>2. Listen \/ UNCHANGED <<listening, acceptChan>>
    BY <1>4, Zenon DEF CallListen, acceptVars
  <2> QED
    BY <1>0, <1>1, <2>1, <2>2
<1>5. ASSUME NEW l \in LoopIds, RunListen(l) PROVE AcceptInv'
  <2>1. UNCHANGED <<serverAlive, backlog>>
    BY <1>5, Zenon DEF RunListen, Runs, clientVars
  <2>2. Listen \/ UNCHANGED <<listening, acceptChan>>
    BY <1>5, Zenon DEF RunListen, acceptVars
  <2> QED
    BY <1>0, <1>1, <2>1, <2>2
<1>6. ASSUME NEW l \in LoopIds, Poll(l) \/ SwapFunctors(l) \/ FinishBatch(l) PROVE AcceptInv'
  <2>1. UNCHANGED <<serverAlive, listening, acceptChan, backlog>>
    BY <1>6, Zenon DEF Poll, SwapFunctors, FinishBatch, serverVars, acceptVars, clientVars
  <2> QED
    BY <1>0, <2>1
<1>7. ASSUME NEW l \in LoopIds, NEW c \in Clients,
             Message(l, c) \/ HandleClose(l, c) \/ RunConnection(l, c)
      PROVE  AcceptInv'
  <2>1. UNCHANGED <<serverAlive, listening, acceptChan, backlog>>
    BY <1>7, Zenon DEF Message, HandleClose, RunConnection, Runs, serverVars, acceptVars, clientVars
  <2> QED
    BY <1>0, <2>1
<1>8. CASE EnterLoop \/ AcceptFails
  <2>1. UNCHANGED <<serverAlive, listening, acceptChan, backlog>>
    BY <1>8, Zenon DEF EnterLoop, AcceptFails, serverVars, acceptVars, clientVars
  <2> QED
    BY <1>0, <2>1
<1>9. CASE Accept
  <2>1. UNCHANGED <<serverAlive, listening, acceptChan>>
    BY <1>9, Zenon DEF Accept, acceptVars
  <2>2. backlog # <<>>
    BY <1>9, AcceptFacts DEF Accept, Handles
  <2>3. listening /\ listening'
    BY <2>1, <2>2 DEF AcceptInv
  <2> QED
    BY <2>1, <2>3 DEF AcceptInv
<1>10. CASE DestroyServer
  <2>1. backlog' = <<>> /\ ~serverAlive'
    BY <1>10, Zenon DEF DestroyServer
  <2>2. acceptChan' = RemoveChannel(DisableAll(acceptChan))
    BY <1>10, Zenon DEF DestroyServer
  <2>3. GoodChannel(RemoveChannel(DisableAll(acceptChan)))
            /\ RemoveChannel(DisableAll(acceptChan)).index = kNew
    BY <1>t, DisableAllGood, RemoveChannelGood DEF Typed
  <2>4. acceptChan'.entry = "none"
    BY <2>2, <2>3, RemovedEntry
  <2> QED
    BY <2>1, <2>4 DEF AcceptInv
<1>11. ASSUME NEW c \in Clients, ClientStep(c) PROVE AcceptInv'
  <2>1. UNCHANGED <<serverAlive, listening, acceptChan>>
    BY <1>11, Zenon DEF ClientStep, ClientConnects, ClientSends, ClientCloses,
                        serverVars, acceptVars
  <2>2. listening \/ backlog' = backlog
    BY <1>11, Zenon DEF ClientStep, ClientConnects, ClientSends, ClientCloses
  <2>3. CASE listening
    <3>1. listening'
      BY <2>1, <2>3, Zenon
    <3> QED
      BY <2>1, <2>3, <3>1 DEF AcceptInv
  <2> QED
    BY <1>0, <2>1, <2>2, <2>3
<1>12. CASE UNCHANGED vars
  <2>1. UNCHANGED <<serverAlive, listening, acceptChan, backlog>>
    BY <1>12, Zenon DEF vars, serverVars, acceptVars, clientVars
  <2> QED
    BY <1>0, <2>1
<1>13. ASSUME NEW s \in Callers, Start(s) \/ StartStep(s) PROVE AcceptInv'
  BY <1>3, <1>4, <1>13 DEF StartStep
<1>14. ASSUME NEW l \in LoopIds, LoopStep(l) PROVE AcceptInv'
  BY <1>5, <1>6, <1>7, <1>14 DEF LoopStep
<1>15. CASE BaseStep
  BY <1>8, <1>9, <1>14, <1>15, IdsFacts DEF BaseStep
<1> QED
  BY <1>2, <1>10, <1>11, <1>12, <1>13, <1>14, <1>15 DEF Next

LEMMA ReadStep == Inv /\ ReadInv /\ [Next]_vars => ReadInv'
<1> SUFFICES ASSUME Inv, ReadInv, [Next]_vars PROVE ReadInv'
  OBVIOUS
<1>t. Typed /\ connections \subseteq Clients /\ chan \in [Clients -> ChannelType]
  BY DEF Inv, Typed, TypeOK
<1>0. ASSUME UNCHANGED <<connections, chan>> PROVE ReadInv'
  BY <1>0 DEF ReadInv
<1>1. ASSUME NEW n \in 0..MaxThreads, SetThreadNum(n) PROVE ReadInv'
  <2>1. UNCHANGED <<connections, chan>>
    BY <1>1, Zenon DEF SetThreadNum, connVars
  <2> QED
    BY <1>0, <2>1
<1>2. ASSUME NEW s \in Callers, Start(s) \/ StartPool(s) \/ CallListen(s) PROVE ReadInv'
  <2>1. UNCHANGED <<connections, chan>>
    BY <1>2, Zenon DEF Start, StartPool, CallListen, connVars
  <2> QED
    BY <1>0, <2>1
<1>3. ASSUME NEW l \in LoopIds,
             Poll(l) \/ SwapFunctors(l) \/ FinishBatch(l) \/ RunListen(l)
      PROVE  ReadInv'
  <2>1. UNCHANGED <<connections, chan>>
    BY <1>3, Zenon DEF Poll, SwapFunctors, FinishBatch, RunListen, serverVars, connVars
  <2> QED
    BY <1>0, <2>1
<1>4. ASSUME NEW l \in LoopIds, NEW c \in Clients, Message(l, c) PROVE ReadInv'
  <2>1. UNCHANGED <<connections, chan>>
    BY <1>4, Zenon DEF Message, serverVars
  <2> QED
    BY <1>0, <2>1
<1>5. ASSUME NEW l \in LoopIds, NEW c \in Clients, HandleClose(l, c) PROVE ReadInv'
  <2>1. connections' = connections \ {c} /\ \A d \in Clients \ {c} : chan'[d] = chan[d]
    BY <1>5, <1>t DEF HandleClose
  <2> QED
    BY <1>t, <2>1 DEF ReadInv
<1>6. ASSUME NEW l \in LoopIds, NEW c \in Clients, RunConnection(l, c) PROVE ReadInv'
  <2>1. ConnectDestroyed({c}) /\ chan[c].entry = "none"
    BY <1>6, RunConnectionIs
  <2>2. c \notin connections
    BY <2>1 DEF Inv, MapInv
  <2>3. connections' = connections
    BY <1>6, Zenon DEF RunConnection, serverVars
  <2>4. \A d \in Clients \ {c} : chan'[d] = chan[d]
    BY <2>1 DEF ConnectDestroyed
  <2> QED
    BY <1>t, <2>2, <2>3, <2>4 DEF ReadInv
<1>7. CASE EnterLoop \/ AcceptFails
  <2>1. UNCHANGED <<connections, chan>>
    BY <1>7, Zenon DEF EnterLoop, AcceptFails, serverVars, connVars
  <2> QED
    BY <1>0, <2>1
<1>8. CASE Accept
  <2> DEFINE c == Head(backlog)
  <2>1. c \in Clients
    BY <1>8, AcceptFacts, HeadFacts DEF Accept, Handles
  <2>2. CASE GetNextLoop = NoLoop
    <3>1. UNCHANGED <<connections, chan>>
      BY <1>8, <2>2, Zenon DEF Accept, connVars
    <3> QED
      BY <1>0, <3>1
  <2>3. CASE GetNextLoop # NoLoop
    <3>1. GetNextLoop = Base
      BY <2>3 DEF GetNextLoop
    <3>2. connections' = connections \cup {c} /\ chan' = [chan EXCEPT ![c] = EnableReading(@)]
      BY <1>8, <3>1, IdsFacts DEF Accept, Establish
    <3>3. "IN" \in EnableReading(chan[c]).events
      BY <1>t, <2>1, EnableReadingEvents DEF Typed, kReadEvent
    <3>4. "IN" \in chan'[c].events /\ \A d \in Clients \ {c} : chan'[d] = chan[d]
      BY <1>t, <2>1, <3>2, <3>3
    <3> QED
      BY <1>t, <3>2, <3>4 DEF ReadInv
  <2> QED
    BY <2>2, <2>3
<1>9. CASE DestroyServer
  <2>1. connections' = {}
    BY <1>9, Zenon DEF DestroyServer
  <2> QED
    BY <2>1 DEF ReadInv
<1>10. ASSUME NEW c \in Clients, ClientStep(c) PROVE ReadInv'
  <2>1. UNCHANGED <<connections, chan>>
    BY <1>10, Zenon DEF ClientStep, ClientConnects, ClientSends, ClientCloses,
                        serverVars, connVars
  <2> QED
    BY <1>0, <2>1
<1>11. CASE UNCHANGED vars
  <2>1. UNCHANGED <<connections, chan>>
    BY <1>11, Zenon DEF vars, serverVars, connVars
  <2> QED
    BY <1>0, <2>1
<1>12. ASSUME NEW s \in Callers, Start(s) \/ StartStep(s) PROVE ReadInv'
  BY <1>2, <1>12 DEF StartStep
<1>13. ASSUME NEW l \in LoopIds, LoopStep(l) PROVE ReadInv'
  BY <1>3, <1>4, <1>5, <1>6, <1>13 DEF LoopStep
<1>14. CASE BaseStep
  BY <1>7, <1>8, <1>13, <1>14, IdsFacts DEF BaseStep
<1> QED
  BY <1>1, <1>9, <1>10, <1>11, <1>12, <1>13, <1>14 DEF Next

\* accept takes the head of the queue and leaves the others there.
LEMMA HeadOrTail ==
    ASSUME NEW D, NEW s \in Seq(D), s # <<>>, NEW x \in ToSet(s), x # Head(s)
    PROVE  x \in ToSet(Tail(s))
<1>1. PICK i \in 1..Len(s) : s[i] = x
  BY DEF ToSet
<1>2. Len(s) \in Nat /\ Len(Tail(s)) = Len(s) - 1 /\ Head(s) = s[1] /\ Tail(s) \in Seq(D)
  OBVIOUS
<1>3. i # 1 /\ i - 1 \in 1..Len(Tail(s))
  BY <1>1, <1>2
<1>4. Tail(s)[i - 1] = s[i]
  BY <1>2, <1>3
<1>5. DOMAIN Tail(s) = 1..Len(Tail(s))
  BY <1>2
<1> QED
  BY <1>1, <1>3, <1>4, <1>5 DEF ToSet

LEMMA ToldStep == Inv /\ ToldInv /\ [Next]_vars => ToldInv'
<1> SUFFICES ASSUME Inv, ToldInv, [Next]_vars PROVE ToldInv'
  OBVIOUS
<1>t. /\ client \in [Clients -> {"idle", "open", "closed"}] /\ backlog \in Seq(Clients)
      /\ told \in [Clients -> {"nothing", "up", "down"}]
  BY DEF Inv, Typed, TypeOK
<1>0. ASSUME UNCHANGED <<serverAlive, client, backlog, told>> PROVE ToldInv'
  <2>1. serverAlive' <=> serverAlive
    BY <1>0, Zenon
  <2> QED
    BY <1>0, <2>1 DEF ToldInv
<1>1. ASSUME NEW n \in 0..MaxThreads, SetThreadNum(n) PROVE ToldInv'
  <2>1. UNCHANGED <<serverAlive, client, backlog, told>>
    BY <1>1, Zenon DEF SetThreadNum, connVars, clientVars
  <2> QED
    BY <1>0, <2>1
<1>2. ASSUME NEW s \in Callers, Start(s) \/ StartPool(s) \/ CallListen(s) PROVE ToldInv'
  <2>1. UNCHANGED <<serverAlive, client, backlog, told>>
    BY <1>2, Zenon DEF Start, StartPool, CallListen, connVars, clientVars
  <2> QED
    BY <1>0, <2>1
<1>3. ASSUME NEW l \in LoopIds,
             Poll(l) \/ SwapFunctors(l) \/ FinishBatch(l) \/ RunListen(l)
      PROVE  ToldInv'
  <2>1. UNCHANGED <<serverAlive, client, backlog, told>>
    BY <1>3, Zenon DEF Poll, SwapFunctors, FinishBatch, RunListen, Runs, serverVars, connVars,
                       clientVars
  <2> QED
    BY <1>0, <2>1
<1>4. ASSUME NEW l \in LoopIds, NEW c \in Clients, Message(l, c) PROVE ToldInv'
  <2>1. UNCHANGED <<serverAlive, client, backlog, told>>
    BY <1>4, Zenon DEF Message, serverVars
  <2> QED
    BY <1>0, <2>1
<1>5. ASSUME NEW l \in LoopIds, NEW c \in Clients, HandleClose(l, c) PROVE ToldInv'
  <2>1. UNCHANGED <<serverAlive, client, backlog>>
    BY <1>5, Zenon DEF HandleClose, clientVars
  <2>2. \A d \in Clients : told'[d] = "down" \/ told'[d] = told[d]
    BY <1>5, <1>t DEF HandleClose
  <2>3. serverAlive' <=> serverAlive
    BY <2>1, Zenon
  <2> QED
    BY <2>1, <2>2, <2>3 DEF ToldInv
<1>6. ASSUME NEW l \in LoopIds, NEW c \in Clients, RunConnection(l, c) PROVE ToldInv'
  <2>1. UNCHANGED <<serverAlive, client, backlog>>
    BY <1>6, Zenon DEF RunConnection, Runs, serverVars, clientVars
  <2>2. told' = told
    BY <1>6, RunConnectionIs
  <2> QED
    BY <1>0, <2>1, <2>2
<1>7. CASE EnterLoop \/ AcceptFails
  <2>1. UNCHANGED <<serverAlive, client, backlog, told>>
    BY <1>7, Zenon DEF EnterLoop, AcceptFails, serverVars, connVars, clientVars
  <2> QED
    BY <1>0, <2>1
<1>8. CASE Accept
  <2> DEFINE c == Head(backlog)
  <2>1. backlog # <<>> /\ c \in Clients
    BY <1>8, AcceptFacts, HeadFacts DEF Accept, Handles
  <2>2. UNCHANGED <<serverAlive, client>>
    BY <1>8, Zenon DEF Accept
  <2>3. CASE GetNextLoop = NoLoop
    <3>1. UNCHANGED <<backlog, told>>
      BY <1>8, <2>3, Zenon DEF Accept, connVars
    <3> QED
      BY <1>0, <2>2, <3>1
  <2>4. CASE GetNextLoop # NoLoop
    <3>1. GetNextLoop = Base
      BY <2>4 DEF GetNextLoop
    <3>2. backlog' = Tail(backlog) /\ told' = [told EXCEPT ![c] = "up"]
      BY <1>8, <3>1, IdsFacts DEF Accept, Establish
    <3>3. told'[c] = "up" /\ \A d \in Clients \ {c} : told'[d] = told[d]
      BY <1>t, <2>1, <3>2
    <3>4. \A d \in ToSet(backlog) \ {c} : d \in ToSet(backlog')
      BY <1>t, <2>1, <3>2, HeadOrTail
    <3>5. serverAlive' <=> serverAlive
      BY <2>2, Zenon
    <3> QED
      BY <2>2, <3>3, <3>4, <3>5 DEF ToldInv
  <2> QED
    BY <2>3, <2>4
<1>9. CASE DestroyServer
  <2>1. ~serverAlive'
    BY <1>9, Zenon DEF DestroyServer
  <2> QED
    BY <2>1, Zenon DEF ToldInv
<1>10. ASSUME NEW c \in Clients, ClientStep(c) PROVE ToldInv'
  <2>1. UNCHANGED <<serverAlive, told>>
    BY <1>10, Zenon DEF ClientStep, ClientConnects, ClientSends, ClientCloses,
                        serverVars, connVars
  <2>2. serverAlive' <=> serverAlive
    BY <2>1, Zenon
  <2>3. CASE ClientConnects(c)
    <3>1. ToSet(backlog') = ToSet(backlog) \cup {c}
      BY <1>t, <2>3, ToSetAppend DEF ClientConnects
    <3>2. \A d \in Clients \ {c} : client'[d] = client[d]
      BY <1>t, <2>3 DEF ClientConnects
    <3> QED
      BY <2>1, <2>2, <3>1, <3>2 DEF ToldInv
  <2>4. CASE ClientSends(c) \/ ClientCloses(c)
    <3>1. backlog' = backlog
      BY <2>4, Zenon DEF ClientSends, ClientCloses
    <3>2. \A d \in Clients : client[d] = "idle" => client'[d] = "idle"
      BY <1>t, <2>4 DEF ClientSends, ClientCloses
    <3> QED
      BY <2>1, <2>2, <3>1, <3>2 DEF ToldInv
  <2> QED
    BY <1>10, <2>3, <2>4 DEF ClientStep
<1>11. CASE UNCHANGED vars
  <2>1. UNCHANGED <<serverAlive, client, backlog, told>>
    BY <1>11, Zenon DEF vars, serverVars, connVars, clientVars
  <2> QED
    BY <1>0, <2>1
<1>12. ASSUME NEW s \in Callers, Start(s) \/ StartStep(s) PROVE ToldInv'
  BY <1>2, <1>12 DEF StartStep
<1>13. ASSUME NEW l \in LoopIds, LoopStep(l) PROVE ToldInv'
  BY <1>3, <1>4, <1>5, <1>6, <1>13 DEF LoopStep
<1>14. CASE BaseStep
  BY <1>7, <1>8, <1>13, <1>14, IdsFacts DEF BaseStep
<1> QED
  BY <1>1, <1>9, <1>10, <1>11, <1>12, <1>13, <1>14 DEF Next

WatchInv == ComeInv /\ AcceptInv /\ ReadInv /\ ToldInv

LEMMA WatchInit == Init => WatchInv
<1> SUFFICES ASSUME Init PROVE WatchInv
  OBVIOUS
<1>1. started = 0 /\ backlog = <<>> /\ connections = {} /\ \A c \in Clients : client[c] = "idle"
  BY DEF Init
<1>2. ~listening
  BY Zenon DEF Init
<1>3. acceptChan.entry = "none"
  BY DEF Init, NewChannel
<1> QED
  BY <1>1, <1>2, <1>3 DEF WatchInv, ComeInv, AcceptInv, ReadInv, ToldInv

LEMMA WatchHolds == Spec => [](Inv /\ WatchInv)
<1>1. Init => Inv /\ WatchInv
  BY InvInit, WatchInit
<1>2. Inv /\ WatchInv /\ [Next]_vars => (Inv /\ WatchInv)'
  BY StepKeeps, ComeStep, AcceptStep, ReadStep, ToldStep DEF WatchInv
<1> QED
  BY <1>1, <1>2, PTL DEF Spec

\* Of any number of threads that call start() one starts the pool, no connection is accepted
\* before it is started, and the call of Acceptor::listen does not get lost on its way.
THEOREM OneStart == Spec => []StartedOnce
<1>1. ASSUME Inv, WatchInv PROVE StartedOnce
  <2>1. Len(loops) <= numThreads
    <3>1. numThreads \in Nat
      BY <1>1, TcpServerAssumption DEF Inv, Typed, TypeOK
    <3> QED
      BY <1>1, <3>1 DEF Inv, StartInv
  <2>2. acceptChan.entry = "present" => ~Early
    BY <1>1, RemovedEntry DEF Inv, StartInv, Typed
  <2>3. Asked \in Unrun(Base) => ListenQueued
    BY DEF Unrun, ListenQueued, Asked
  <2>4. (started > 0 /\ serverAlive) =>
            \/ listening \/ ListenQueued
            \/ \E s \in Callers : spc[s] \in {"pool", "listen"}
    BY <1>1, <2>3 DEF WatchInv, ComeInv
  <2> QED
    BY <1>1, <2>1, <2>2, <2>4 DEF Inv, StartInv, StartedOnce
<1> QED
  BY <1>1, WatchHolds, PTL

\* epoll dispatches a read to a registered channel whose events_ have EPOLLIN.
LEMMA WatchedDispatches ==
    ASSUME NEW ch, GoodChannel(ch), ch.entry = "present", "IN" \in ch.events
    PROVE  Dispatches(ch, {"IN"})
<1>1. Reported(ch, {"IN"}) = {"IN"}
  BY DEF GoodChannel, InSync, Reported
<1>2. Callbacks({"IN"}) = <<"read">>
  BY DEF Callbacks
<1> QED
  BY <1>1, <1>2 DEF Dispatches

\* Nobody who has connected is forgotten: he is in the queue of a listening socket that epoll
\* watches, with all fds used up as well, or he has had his connection, which epoll watches as
\* long as connections_ holds it.  Nobody else is registered with epoll.
THEOREM EveryoneIsWatched == Spec => []EveryoneWatched
<1>1. ASSUME Inv, WatchInv PROVE EveryoneWatched
  <2>1. ASSUME serverAlive, backlog # <<>> PROVE Dispatches(acceptChan, {"IN"})
    BY <1>1, <2>1, WatchedDispatches DEF WatchInv, AcceptInv, Inv, Typed
  <2>2. ASSUME NEW c \in connections PROVE Dispatches(chan[c], {"IN"})
    BY <1>1, WatchedDispatches DEF WatchInv, ReadInv, Inv, MapInv, Typed, TypeOK
  <2>3. ASSUME acceptChan.entry = "present" PROVE "IN" \in acceptChan.interest
    BY <1>1, <2>3 DEF WatchInv, AcceptInv, Inv, Typed, GoodChannel, InSync
  <2>4. ASSUME NEW c \in Clients, chan[c].entry = "present" PROVE c \in connections
    BY <1>1, <2>4 DEF Inv, MapInv
  <2> QED
    BY <1>1, <2>1, <2>2, <2>3, <2>4 DEF WatchInv, ToldInv, EveryoneWatched
<1> QED
  BY <1>1, WatchHolds, PTL
=============================================================================
