------------------------------ MODULE TcpServer ------------------------------
(***************************************************************************)
(* A TcpServer with its Acceptor and its connections: start() from several *)
(* threads, the listening socket and its queue, the limit of file          *)
(* descriptors, getNextLoop, connections_, the loops that handle events    *)
(* and functors, and the destructor.                                       *)
(*                                                                         *)
(* A handler runs to its end in one step; module TcpConnection splits it   *)
(* where the application acts on the same connection, and has its output.  *)
(* EventLoopThreadPool has the pool's threads.  Each client connects once; *)
(* its connection has its name, as nextConnId_ makes names unique.         *)
(***************************************************************************)
EXTENDS Channel, FiniteSets, SequencesExt

CONSTANTS Clients,      \* each makes one connection
          acceptor,     \* stands for the Acceptor in lists of channels and functors
          baseThread,   \* the thread of the base loop
          Starters,     \* other threads that may call start()
          MaxThreads,   \* the most loop threads setThreadNum asks for
          MaxFds        \* how many connections the limit of fds leaves room for

ASSUME TcpServerAssumption ==
    /\ acceptor \notin Clients /\ baseThread \notin Starters
    /\ MaxThreads \in Nat /\ MaxFds \in Nat \ {0}

Base    == 0
LoopIds == 0..MaxThreads    \* the base loop and those of the pool
NoLoop  == -1
Callers == Starters \cup {baseThread}

VARIABLES
    \* TcpServer, its EventLoopThreadPool and its Acceptor
    serverAlive, \* the TcpServer exists
    numThreads,  \* numThreads_
    started,     \* started_
    loops,       \* loops_ of the pool
    listening,   \* listenning_ and the state of the listening socket
    acceptChan,  \* acceptChannel_
    connections, \* connections_
    spc,         \* where each caller of start() is
    \* the TcpConnections
    state,       \* state_, "none" before accept
    chan,        \* channel_
    loopOf,      \* loop_
    \* the loops and their threads
    lpc,         \* where each is: before loop(), in poll, in the events, in the functors
    active,      \* activeChannels_ that are still to be handled
    pending,     \* pendingFunctors_
    batch,       \* the local vector of doPendingFunctor, which keeps its functors alive
    done,        \* how many of them have been run
    undefined,   \* the process is lost to undefined behaviour
    \* kernel and clients
    client,      \* "idle", "open", "closed"
    backlog,     \* connections that wait for accept
    inbox,       \* clients that have sent what nobody has read
    \* history
    told,        \* what the last connectionCallback_ said of each connection
    mapUsers     \* the loops whose thread has changed connections_

acceptVars == <<listening, acceptChan>>
poolVars   == <<numThreads, started, loops, spc>>
serverVars == <<serverAlive, poolVars, acceptVars, connections, mapUsers>>
connVars   == <<state, chan, loopOf, told>>
loopVars   == <<lpc, active, pending, batch, done, undefined>>
clientVars == <<client, backlog, inbox>>
vars == <<serverVars, connVars, loopVars, clientVars>>

Functors ==
    {<<"listen", acceptor>>} \cup ({"connectEstablished", "connectDestroyed"} \X Clients)

TypeOK ==
    /\ serverAlive \in BOOLEAN /\ listening \in BOOLEAN /\ undefined \in BOOLEAN
    /\ numThreads \in 0..MaxThreads
    /\ started \in Nat
    /\ loops \in Seq(LoopIds)
    /\ acceptChan \in ChannelType
    /\ connections \subseteq Clients
    /\ spc \in [Callers -> {"idle", "pool", "listen", "done"}]
    /\ state \in [Clients -> {"none", "kConnecting", "kConnected", "kDisconnecting",
                              "kDisconnected"}]
    /\ chan \in [Clients -> ChannelType]
    /\ loopOf \in [Clients -> LoopIds \cup {NoLoop}]
    /\ lpc \in [LoopIds -> {"setup", "poll", "events", "functors"}]
    /\ active \in [LoopIds -> SUBSET (Clients \cup {acceptor})]
    /\ pending \in [LoopIds -> Seq(Functors)]
    /\ batch \in [LoopIds -> Seq(Functors)]
    /\ done \in [LoopIds -> Nat]
    /\ client \in [Clients -> {"idle", "open", "closed"}]
    /\ backlog \in Seq(Clients)
    /\ inbox \subseteq Clients
    /\ told \in [Clients -> {"nothing", "up", "down"}]
    /\ mapUsers \subseteq LoopIds

Init ==
    /\ serverAlive = TRUE /\ listening = FALSE /\ undefined = FALSE
    /\ numThreads = 0 /\ started = 0 /\ loops = <<>>
    /\ acceptChan = NewChannel /\ connections = {}
    /\ spc = [s \in Callers |-> "idle"]
    /\ state = [c \in Clients |-> "none"] /\ chan = [c \in Clients |-> NewChannel]
    /\ loopOf = [c \in Clients |-> NoLoop]
    /\ lpc = [l \in LoopIds |-> IF l = Base THEN "setup" ELSE "poll"]
    /\ active = [l \in LoopIds |-> {}]
    /\ pending = [l \in LoopIds |-> <<>>] /\ batch = [l \in LoopIds |-> <<>>]
    /\ done = [l \in LoopIds |-> 0]
    /\ client = [c \in Clients |-> "idle"] /\ backlog = <<>> /\ inbox = {}
    /\ told = [c \in Clients |-> "nothing"] /\ mapUsers = {}

Running == ~undefined

\* Somebody holds a shared_ptr to the connection: connections_ or a functor.
Held(c) ==
    \/ c \in connections
    \/ \E l \in LoopIds : \E f \in ToSet(pending[l]) \cup ToSet(batch[l]) : f[2] = c

\* The connections that exist; each has an fd, which its Socket closes in the end.
Open == {c \in Clients : state[c] # "none" /\ Held(c)}

-----------------------------------------------------------------------------
(* setThreadNum and start.                                                 *)

SetThreadNum(n) ==
    /\ serverAlive /\ started = 0 /\ lpc[Base] = "setup" /\ n # numThreads
    /\ numThreads' = n
    /\ UNCHANGED <<serverAlive, started, loops, spc, acceptVars, connections, mapUsers,
                   connVars, loopVars, clientVars>>

CallerMoves(s, from, to) == Running /\ spc[s] = from /\ spc' = [spc EXCEPT ![s] = to]

\* The base loop's thread calls start() before loop().
MayStart(s) == serverAlive /\ (s = baseThread => lpc[Base] = "setup")

Start_PreIncrement(s) ==   \* mutant: if(++started_ == 0)
    /\ MayStart(s) /\ CallerMoves(s, "idle", "done")
    /\ started' = started + 1
    /\ UNCHANGED <<serverAlive, numThreads, loops, acceptVars, connections, mapUsers, connVars,
                   loopVars, clientVars>>

Start_NoCount(s) ==   \* mutant: started_ is tested and not counted
    /\ MayStart(s) /\ CallerMoves(s, "idle", IF started = 0 THEN "pool" ELSE "done")
    /\ UNCHANGED <<serverAlive, numThreads, started, loops, acceptVars, connections, mapUsers,
                   connVars, loopVars, clientVars>>

\* if(started_++ == 0)
Start(s) ==
    /\ MayStart(s) /\ CallerMoves(s, "idle", IF started = 0 THEN "pool" ELSE "done")
    /\ started' = started + 1
    /\ UNCHANGED <<serverAlive, numThreads, loops, acceptVars, connections, mapUsers, connVars,
                   loopVars, clientVars>>

\* threadPool_->start(): loops_ has one loop per thread when it returns.
StartPool(s) ==
    /\ CallerMoves(s, "pool", "listen")
    /\ loops' = loops \o [i \in 1..numThreads |-> i]
    /\ UNCHANGED <<serverAlive, numThreads, started, acceptVars, connections, mapUsers,
                   connVars, loopVars, clientVars>>

\* Acceptor::listen.
Listen == listening' = TRUE /\ acceptChan' = EnableReading(acceptChan)

\* loop_->runInLoop(Acceptor::listen)
CallListen(s) ==
    /\ CallerMoves(s, "listen", "done")
    /\ IF s = baseThread
       THEN Listen /\ UNCHANGED pending
       ELSE /\ pending' = [pending EXCEPT ![Base] = Append(@, <<"listen", acceptor>>)]
            /\ UNCHANGED acceptVars
    /\ UNCHANGED <<serverAlive, numThreads, started, loops, connections, mapUsers, connVars,
                   lpc, active, batch, done, undefined, clientVars>>

-----------------------------------------------------------------------------
(* The loops.                                                              *)

EnterLoop ==
    /\ Running /\ lpc[Base] = "setup" /\ spc[baseThread] \in {"idle", "done"}
    /\ lpc' = [lpc EXCEPT ![Base] = "poll"]
    /\ UNCHANGED <<serverVars, connVars, active, pending, batch, done, undefined, clientVars>>

\* The conditions on a connection's socket that matter here.
Conditions(c) ==
    (IF c \in inbox \/ client[c] = "closed" THEN {"IN"} ELSE {})
    \cup (IF client[c] = "closed" /\ state[c] = "kDisconnecting" THEN {"HUP"} ELSE {})

Dispatches(ch, conditions) == Callbacks(Reported(ch, conditions)) # <<>>

ReadyChannels(l) ==
    {c \in Clients : loopOf[c] = l /\ Held(c) /\ Dispatches(chan[c], Conditions(c))}
    \cup (IF l = Base /\ backlog # <<>> /\ Dispatches(acceptChan, {"IN"})
          THEN {acceptor} ELSE {})

\* A pass through loop() that finds neither an event nor a functor changes nothing.
Poll(l) ==
    /\ Running /\ lpc[l] = "poll"
    /\ ReadyChannels(l) # {} \/ pending[l] # <<>>
    /\ lpc' = [lpc EXCEPT ![l] = "events"]
    /\ active' = [active EXCEPT ![l] = ReadyChannels(l)]
    /\ UNCHANGED <<serverVars, connVars, pending, batch, done, undefined, clientVars>>

\* The next of activeChannels_ is handled.
Handles(l, channel) ==
    /\ Running /\ lpc[l] = "events" /\ channel \in active[l]
    /\ active' = [active EXCEPT ![l] = @ \ {channel}]
    /\ UNCHANGED <<lpc, batch, done>>

Full == Cardinality(Open) >= MaxFds

\* Mutant: accept() that fails for want of an fd still takes the connection.
AcceptFails_Drops ==
    /\ Handles(Base, acceptor) /\ Full
    /\ backlog' = Tail(backlog)
    /\ UNCHANGED <<serverVars, connVars, pending, undefined, client, inbox>>

\* Mutant: accept() that fails stops watching the listening socket, to end the busy loop.
AcceptFails_Pauses ==
    /\ Handles(Base, acceptor) /\ Full
    /\ acceptChan' = DisableReading(acceptChan)
    /\ UNCHANGED <<serverAlive, poolVars, listening, connections, mapUsers, connVars, pending,
                   undefined, clientVars>>

\* Acceptor::handleRead with EMFILE: the connection stays in the queue, and the next poll
\* reports it again.
AcceptFails ==
    /\ Handles(Base, acceptor) /\ Full
    /\ UNCHANGED <<serverVars, connVars, pending, undefined, clientVars>>

\* Mutant: the test for an empty pool as it is meant.
GetNextLoop_Fixed == IF loops = <<>> THEN Base ELSE loops[1]

\* Of an empty loops_ the code takes an element, otherwise it returns baseLoop_; next_
\* stays 0.
GetNextLoop == IF loops = <<>> THEN NoLoop ELSE Base

\* connectEstablished
Establish(c) ==
    /\ state' = [state EXCEPT ![c] = "kConnected"]
    /\ chan' = [chan EXCEPT ![c] = EnableReading(@)]
    /\ told' = [told EXCEPT ![c] = "up"]

\* Acceptor::handleRead, TcpServer::newConnection.
Accept ==
    LET c == Head(backlog)
        l == GetNextLoop
    IN
    /\ Handles(Base, acceptor) /\ ~Full
    /\ IF l = NoLoop
       THEN undefined' = TRUE /\ UNCHANGED <<connections, mapUsers, pending, connVars, backlog>>
       ELSE /\ backlog' = Tail(backlog)
            /\ connections' = connections \cup {c} /\ mapUsers' = mapUsers \cup {Base}
            /\ loopOf' = [loopOf EXCEPT ![c] = l]
            /\ IF l = Base
               THEN Establish(c) /\ UNCHANGED pending
               ELSE /\ state' = [state EXCEPT ![c] = "kConnecting"]
                    /\ pending' = [pending EXCEPT ![l] = Append(@, <<"connectEstablished", c>>)]
                    /\ UNCHANGED <<chan, told>>
            /\ UNCHANGED undefined
    /\ UNCHANGED <<serverAlive, poolVars, acceptVars, client, inbox>>

\* handleRead with data: the message callback may call shutdown(), as the echo server does.
Message(l, c) ==
    /\ Handles(l, c) /\ c \in inbox
    /\ inbox' = inbox \ {c}
    /\ \/ UNCHANGED state
       \/ /\ state[c] = "kConnected"
          /\ state' = [state EXCEPT ![c] = "kDisconnecting"]
    /\ UNCHANGED <<serverVars, chan, loopOf, told, pending, undefined, client, backlog>>

HandleClose_NoErase(l, c) ==   \* mutant: connections_ keeps the connection
    /\ Handles(l, c) /\ c \notin inbox
    /\ state' = [state EXCEPT ![c] = "kDisconnected"]
    /\ chan' = [chan EXCEPT ![c] = DisableAll(@)]
    /\ told' = [told EXCEPT ![c] = "down"]
    /\ pending' = [pending EXCEPT ![l] = Append(@, <<"connectDestroyed", c>>)]
    /\ undefined' = ~serverAlive
    /\ UNCHANGED <<serverVars, loopOf, clientVars>>

\* handleRead at the end of file: handleClose, the connection callback, closeCallback_, which
\* is removeConnectionInLoop of the server, called on the thread of the connection's loop.
HandleClose(l, c) ==
    /\ Handles(l, c) /\ c \notin inbox
    /\ state' = [state EXCEPT ![c] = "kDisconnected"]
    /\ chan' = [chan EXCEPT ![c] = DisableAll(@)]
    /\ told' = [told EXCEPT ![c] = "down"]
    /\ connections' = connections \ {c} /\ mapUsers' = mapUsers \cup {l}
    /\ pending' = [pending EXCEPT ![l] = Append(@, <<"connectDestroyed", c>>)]
    /\ undefined' = ~serverAlive
    /\ UNCHANGED <<serverAlive, poolVars, acceptVars, loopOf, clientVars>>

SwapFunctors(l) ==
    /\ Running /\ lpc[l] = "events" /\ active[l] = {}
    /\ lpc' = [lpc EXCEPT ![l] = "functors"]
    /\ batch' = [batch EXCEPT ![l] = pending[l]]
    /\ pending' = [pending EXCEPT ![l] = <<>>]
    /\ UNCHANGED <<serverVars, connVars, active, done, undefined, clientVars>>

\* The next functor of the batch.
Runs(l, f) ==
    /\ Running /\ lpc[l] = "functors" /\ done[l] < Len(batch[l])
    /\ f = batch[l][done[l] + 1]
    /\ done' = [done EXCEPT ![l] = @ + 1]
    /\ UNCHANGED <<lpc, active, pending, batch, clientVars>>

\* Acceptor::listen is bound to the Acceptor, which the server owns.
RunListen(l) ==
    /\ Runs(l, <<"listen", acceptor>>)
    /\ IF serverAlive THEN Listen /\ UNCHANGED undefined
       ELSE undefined' = TRUE /\ UNCHANGED acceptVars
    /\ UNCHANGED <<serverAlive, poolVars, connections, mapUsers, connVars>>

\* Mutant: connectDestroyed leaves the channel with the poller.
ConnectDestroyed_NoRemove(S) ==
    /\ state' = [c \in Clients |->
                    IF c \in S /\ state[c] = "kConnected" THEN "kDisconnected" ELSE state[c]]
    /\ told' = [c \in Clients |-> IF c \in S /\ state[c] = "kConnected" THEN "down" ELSE told[c]]
    /\ UNCHANGED chan

\* Mutant: connectDestroyed removes the channel and then disables it, which registers it again.
ConnectDestroyed_RemoveFirst(S) ==
    /\ state' = [c \in Clients |->
                    IF c \in S /\ state[c] = "kConnected" THEN "kDisconnected" ELSE state[c]]
    /\ told' = [c \in Clients |-> IF c \in S /\ state[c] = "kConnected" THEN "down" ELSE told[c]]
    /\ chan' = [c \in Clients |->
                   IF c \notin S THEN chan[c]
                   ELSE IF state[c] = "kConnected" THEN DisableAll(RemoveChannel(chan[c]))
                        ELSE RemoveChannel(chan[c])]

\* connectDestroyed of the connections S.
ConnectDestroyed(S) ==
    /\ state' = [c \in Clients |->
                    IF c \in S /\ state[c] = "kConnected" THEN "kDisconnected" ELSE state[c]]
    /\ told' = [c \in Clients |-> IF c \in S /\ state[c] = "kConnected" THEN "down" ELSE told[c]]
    /\ chan' = [c \in Clients |->
                   IF c \notin S THEN chan[c]
                   ELSE IF state[c] = "kConnected" THEN RemoveChannel(DisableAll(chan[c]))
                        ELSE RemoveChannel(chan[c])]

RunConnection(l, c) ==
    /\ \E f \in {"connectEstablished", "connectDestroyed"} :
           /\ Runs(l, <<f, c>>)
           /\ IF f = "connectEstablished" THEN Establish(c) ELSE ConnectDestroyed({c})
    /\ UNCHANGED <<serverVars, loopOf, undefined>>

FinishBatch(l) ==
    /\ Running /\ lpc[l] = "functors" /\ done[l] = Len(batch[l])
    /\ lpc' = [lpc EXCEPT ![l] = "poll"]
    /\ batch' = [batch EXCEPT ![l] = <<>>] /\ done' = [done EXCEPT ![l] = 0]
    /\ UNCHANGED <<serverVars, connVars, active, pending, undefined, clientVars>>

\* Mutant: ~TcpServer queues connectDestroyed behind the events of the next poll.
DestroyServer_Queues ==
    /\ Running /\ serverAlive /\ lpc[Base] \in {"setup", "poll", "functors"}
    /\ \A s \in Callers : spc[s] \in {"idle", "done"}
    /\ serverAlive' = FALSE
    /\ connections' = {} /\ mapUsers' = mapUsers \cup {Base}
    /\ pending' = [pending EXCEPT ![Base] =
                      @ \o SetToSeq({<<"connectDestroyed", c>> : c \in connections})]
    /\ acceptChan' = RemoveChannel(DisableAll(acceptChan))
    /\ listening' = FALSE /\ backlog' = <<>>
    /\ client' = [c \in Clients |-> IF c \in ToSet(backlog) THEN "closed" ELSE client[c]]
    /\ UNCHANGED <<poolVars, connVars, lpc, active, batch, done, undefined, inbox>>

\* ~TcpServer, on the base loop's thread, before, in a functor of, or after loop(): all
\* connections, which live on this loop, the pool, and the Acceptor with its queue.
DestroyServer ==
    /\ Running /\ serverAlive /\ lpc[Base] \in {"setup", "poll", "functors"}
    /\ \A s \in Callers : spc[s] \in {"idle", "done"}
    /\ serverAlive' = FALSE
    /\ connections' = {} /\ mapUsers' = mapUsers \cup {Base}
    /\ ConnectDestroyed(connections)
    /\ acceptChan' = RemoveChannel(DisableAll(acceptChan))
    /\ listening' = FALSE /\ backlog' = <<>>
    /\ client' = [c \in Clients |-> IF c \in ToSet(backlog) THEN "closed" ELSE client[c]]
    /\ UNCHANGED <<poolVars, loopOf, loopVars, inbox>>

-----------------------------------------------------------------------------
(* The clients.                                                            *)

ClientConnects(c) ==
    /\ Running /\ listening /\ client[c] = "idle"
    /\ client' = [client EXCEPT ![c] = "open"]
    /\ backlog' = Append(backlog, c)
    /\ UNCHANGED <<serverVars, connVars, loopVars, inbox>>

ClientSends(c) ==
    /\ Running /\ client[c] = "open" /\ c \in ToSet(backlog) \cup Open
    /\ c \notin inbox
    /\ inbox' = inbox \cup {c}
    /\ UNCHANGED <<serverVars, connVars, loopVars, client, backlog>>

ClientCloses(c) ==
    /\ Running /\ client[c] = "open"
    /\ client' = [client EXCEPT ![c] = "closed"]
    /\ UNCHANGED <<serverVars, connVars, loopVars, backlog, inbox>>

-----------------------------------------------------------------------------

StartStep(s) == StartPool(s) \/ CallListen(s)

LoopStep(l) ==
    \/ Poll(l) \/ SwapFunctors(l) \/ RunListen(l) \/ FinishBatch(l)
    \/ \E c \in Clients : Message(l, c) \/ HandleClose(l, c) \/ RunConnection(l, c)

BaseStep == EnterLoop \/ AcceptFails \/ Accept \/ LoopStep(Base)

ClientStep(c) == ClientConnects(c) \/ ClientSends(c) \/ ClientCloses(c)

Next ==
    \/ \E n \in 0..MaxThreads : SetThreadNum(n)
    \/ \E s \in Callers : Start(s) \/ StartStep(s)
    \/ BaseStep \/ \E l \in LoopIds : LoopStep(l)
    \/ DestroyServer
    \/ \E c \in Clients : ClientStep(c)

Spec == Init /\ [][Next]_vars

\* The threads run, main() calls loop(), and no client stays for ever.
FairSpec ==
    /\ Spec
    /\ WF_vars(BaseStep)
    /\ \A l \in LoopIds \ {Base} : WF_vars(LoopStep(l))
    /\ \A s \in Callers : WF_vars(StartStep(s))
    /\ \A c \in Clients : WF_vars(ClientCloses(c))

-----------------------------------------------------------------------------
(* Properties.                                                             *)

\* connections_ has no mutex: only the thread of the base loop changes it, although
\* closeCallback_ calls removeConnectionInLoop on whatever loop the connection lives.
MapOnOneThread == mapUsers \subseteq {Base}

\* connections_ holds exactly the connections that are up for the application.
MapHoldsUp ==
    (serverAlive /\ Running) => connections = {c \in Clients : told[c] = "up"}

\* Neither a connection nor the Acceptor is destroyed while the poller knows its channel,
\* whether its client, the server or both end it.
RemovedBeforeDestroyed ==
    /\ \A c \in Clients \ Open : chan[c].index = kNew /\ chan[c].entry = "none"
    /\ ~serverAlive => acceptChan.index = kNew /\ acceptChan.entry = "none"

\* The call of Acceptor::listen that is queued on the base loop is still to be run.
ListenQueued ==
    \/ <<"listen", acceptor>> \in ToSet(pending[Base])
    \/ \E i \in 1..Len(batch[Base]) : i > done[Base] /\ batch[Base][i] = <<"listen", acceptor>>

\* However many threads call start(), the server starts once: the pool once, and before the
\* Acceptor can hand out connections; and it does start: from the first start(), by whatever
\* thread, until the server listens, some caller is on its way to Acceptor::listen or the
\* base loop has it in its queue.
StartedOnce ==
    /\ Len(loops) <= numThreads
    /\ acceptChan.entry = "present" => Len(loops) = numThreads
    /\ (started > 0 /\ serverAlive) =>
           \/ listening \/ ListenQueued
           \/ \E s \in Callers : spc[s] \in {"pool", "listen"}

\* With loop threads, and a start() on the base loop's thread, nothing runs into a destroyed
\* server or an empty loops_.
NothingDangles ==
    undefined => numThreads = 0 \/ \E s \in Starters : spc[s] = "done"

\* What EveryClientServed and EveryEndReleases rest on: who has connected waits or has had a
\* connection, and epoll still reports, for as long as it is true, that somebody waits, with
\* all fds used up too, and what comes from each connection in connections_.  And epoll
\* watches nobody else: disableAll on a channel that is off the poller would register it with
\* an empty mask, for which EPOLLERR and EPOLLHUP are still reported.
EveryoneWatched ==
    /\ serverAlive =>
        /\ \A c \in Clients : client[c] # "idle" => c \in ToSet(backlog) \/ told[c] # "nothing"
        /\ backlog # <<>> => Dispatches(acceptChan, {"IN"})
        /\ \A c \in connections : Dispatches(chan[c], {"IN"})
    /\ acceptChan.entry = "present" => "IN" \in acceptChan.interest
    /\ \A c \in Clients : chan[c].entry = "present" => c \in connections

\* The server serves its clients as module Service says, with connections coming and going
\* in one batch of events and fds running out.
S == INSTANCE Service WITH
        waiting <- backlog,
        up      <- {c \in Clients : told[c] = "up"},
        down    <- {c \in Clients : told[c] = "down"},
        serving <- serverAlive
ImplementsService == S!Spec

\* Once any thread has called start() the server listens.
StartListens == (started > 0) ~> (listening \/ ~serverAlive \/ undefined)

\* Every client gets its connection, although accept() fails as long as the fds are used up,
\* if clients end: the fds of ended connections come back.
EveryClientServed ==
    \A c \in Clients :
        (client[c] = "open") ~> (told[c] # "nothing" \/ ~serverAlive \/ undefined)

\* A client that has closed, before or after accept, in the end holds neither a place in the
\* queue nor an fd.
EveryEndReleases ==
    \A c \in Clients :
        (client[c] = "closed") ~> (c \notin ToSet(backlog) \cup Open \/ undefined)

\* What TcpConnection.h says of loop_, "never the base loop, as TcpConnections are managed in
\* subLoops", and newConnection of its choice: with loop threads a connection lives on theirs.
OnSubLoop ==
    \A c \in Clients : loopOf[c] # NoLoop /\ numThreads > 0 => loopOf[c] # Base
=============================================================================
