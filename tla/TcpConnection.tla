----------------------------- MODULE TcpConnection -----------------------------
(***************************************************************************)
(* One TcpConnection from TcpServer::newConnection to its destructor: its  *)
(* Channel, its output Buffer, the loop that dispatches its events and its *)
(* functors, the server's map, the application's callbacks and threads,    *)
(* and the socket with the peer behind it.                                 *)
(*                                                                         *)
(* The connection lives on the loop that runs the Acceptor: getNextLoop    *)
(* returns baseLoop_ whenever there are loop threads.  The destructor is   *)
(* not a step: the object exists as long as a shared_ptr does (Alive).     *)
(* Payloads are byte counts; module BufferData has the bytes.  Nobody in   *)
(* the library ignores SIGPIPE: that the application does is assumed.      *)
(***************************************************************************)
EXTENDS Channel, Buffer, SequencesExt

CONSTANTS Threads,           \* application threads other than the loop's
          CallbackSets,      \* which optional callbacks the application may have set
          HighWaterMark,     \* highWaterMark_
          ServerDies,        \* may the TcpServer be destroyed?
          SendBufferSize,    \* room in the kernel's send buffer
          Lens,              \* lengths of the strings that are sent
          MaxSends           \* bound: calls of send()

ASSUME TcpConnectionAssumption ==
    /\ CallbackSets \subseteq SUBSET {"writeComplete", "highWaterMark"}
    /\ ServerDies \in BOOLEAN
    /\ HighWaterMark \in Nat /\ SendBufferSize \in Nat \ {0} /\ MaxSends \in Nat
    /\ Lens \subseteq Nat

VARIABLES
    \* TcpConnection
    state,       \* state_, "none" before newConnection
    chan,        \* channel_ and its registration (module Channel)
    out,         \* outputBuffer_ (module Buffer)
    \* TcpServer
    serverAlive, \* the TcpServer exists
    inMap,       \* connections_ holds the connection
    callbacks,   \* of writeCompleteCallback_ and highWaterMarkCallback_, those that are set
    \* the loop thread
    lpc,         \* in poll, in the events or in the functors; or the process is lost
    todo,        \* callbacks that handleEventWithGuard has still to run
    cb,          \* application callback being run
    after,       \* what the caller of that callback does next
    pending,     \* pendingFunctors_
    functors,    \* the local vector of doPendingFunctor, which keeps its functors alive
    done,        \* how many of them have been run
    \* application threads
    tpc,         \* where each is; all but "none" hold a TcpConnectionPtr
    sends,       \* calls of send() so far
    shared,      \* history: a thread was given the connection
    \* kernel
    inbox,       \* is there data to read?
    peer,        \* "open", "closed" (FIN arrived), "reset" (RST arrived)
    sockErr,     \* an error of the socket that nobody has read
    wrShut,      \* shutdown(SHUT_WR) was called
    space,       \* room in the send buffer
    \* history
    accepted,    \* bytes that sendInLoop wrote or stored
    sent,        \* of these, the ones that were written to the socket in their turn
    stale,       \* bytes were written to the socket that lay behind the stored ones
    told         \* what the last connectionCallback_ said

connVars   == <<state, chan, out>>
serverVars == <<serverAlive, inMap, callbacks>>
loopVars   == <<lpc, todo, cb, after, pending, functors, done>>
batch      == <<functors, done>>
appVars    == <<tpc, sends, shared>>
kernelVars == <<inbox, peer, sockErr, wrShut, space>>
history    == <<accepted, sent, stale, told>>
vars == <<connVars, serverVars, loopVars, appVars, kernelVars, history>>

States == {"none", "kConnected", "kDisconnecting", "kDisconnected"}

\* Functors of the connection.  Two are bound to the raw `this' by another thread.
Holding == {<<"connectDestroyed", 0>>, <<"writeComplete", 0>>, <<"highWaterMark", 0>>}
Raw     == {<<"shutdownInLoop", 0>>} \cup {<<"sendInLoop", n>> : n \in Lens}

TypeOK ==
    /\ state \in States
    /\ chan \in ChannelType
    /\ out \in BufferType
    /\ serverAlive \in BOOLEAN /\ inMap \in BOOLEAN /\ callbacks \in CallbackSets
    /\ lpc \in {"poll", "events", "functors", "undefined", "terminated"}
    /\ todo \in Seq({"close", "error", "read", "write"})
    /\ cb \in {"none", "connection", "message", "writeComplete", "highWaterMark"}
    /\ after \in {"nothing", "closeCallback", "remove"}
    /\ pending \in Seq(Holding \cup Raw)
    /\ functors \in Seq(Holding \cup Raw)
    /\ done \in 0..Len(functors)
    /\ tpc \in [Threads -> {"none", "holds", "sending", "shutting", "shut"}]
    /\ sends \in 0..MaxSends /\ shared \in BOOLEAN
    /\ inbox \in BOOLEAN /\ sockErr \in BOOLEAN /\ wrShut \in BOOLEAN
    /\ peer \in {"open", "closed", "reset"}
    /\ space \in 0..SendBufferSize
    /\ accepted \in Nat /\ sent \in Nat /\ stale \in BOOLEAN
    /\ told \in {"nothing", "up", "down"}

Init ==
    /\ state = "none" /\ chan = NewChannel /\ out = NewBuffer
    /\ serverAlive = TRUE /\ inMap = FALSE /\ callbacks \in CallbackSets
    /\ lpc = "events" /\ todo = <<>> /\ cb = "none" /\ after = "nothing"
    /\ pending = <<>> /\ functors = <<>> /\ done = 0
    /\ tpc = [t \in Threads |-> "none"] /\ sends = 0 /\ shared = FALSE
    /\ inbox = FALSE /\ peer = "open" /\ sockErr = FALSE /\ wrShut = FALSE
    /\ space = SendBufferSize
    /\ accepted = 0 /\ sent = 0 /\ stale = FALSE /\ told = "nothing"

\* Somebody holds a shared_ptr to the connection: the map, the guard of handleEvent, the
\* caller of a callback, a functor, a thread.
Alive ==
    \/ inMap
    \/ todo # <<>> \/ cb # "none"
    \/ ToSet(pending \o functors) \cap Holding # {}
    \/ \E t \in Threads : tpc[t] # "none"

Idle == cb = "none"   \* no application callback is running on the loop thread

\* The process has not been lost to undefined behaviour or to std::terminate.
Running == lpc \notin {"undefined", "terminated"}

-----------------------------------------------------------------------------
(* The socket.                                                             *)

Conditions ==
    (IF inbox \/ peer # "open" THEN {"IN"} ELSE {})
    \cup (IF space > 0 \/ wrShut \/ peer = "reset" THEN {"OUT"} ELSE {})
    \cup (IF peer = "reset" \/ (peer = "closed" /\ wrShut) THEN {"HUP"} ELSE {})
    \cup (IF sockErr THEN {"ERR"} ELSE {})

\* write() fails with EPIPE or, once, with the pending error ECONNRESET.
Broken == wrShut \/ peer = "reset"

\* faultError: write() failed with one of these two.
FaultError_ResetOnly == peer = "reset"   \* mutant: EPIPE is forgotten
FaultError == Broken

\* How much write() takes of n bytes; 0 stands for EWOULDBLOCK when n > 0.
Takes(n) == IF n < space THEN n ELSE space

-----------------------------------------------------------------------------
(* Parts of the handlers.                                                  *)

\* sendInLoop writes only what has nothing before it in outputBuffer_.
WritesDirectly_Always == TRUE   \* mutant
WritesDirectly == ~IsWriting(chan) /\ ReadableBytes(out) = 0

\* sendInLoop without its first test.  EPIPE and ECONNRESET drop the data (faultError); after
\* another errno (~works: EINTR, ENOBUFS, ...) it is stored as after EWOULDBLOCK.
SendInLoop(len, queue) ==
    LET fault == WritesDirectly /\ FaultError IN
    /\ sockErr' = (sockErr /\ ~fault)
    /\ UNCHANGED <<state, serverVars, inbox, peer, wrShut, stale, told>>
    /\ \E works \in BOOLEAN :
        LET writes    == WritesDirectly /\ ~Broken /\ works
            nwrote    == IF writes THEN Takes(len) ELSE 0
            remaining == IF fault THEN 0 ELSE len - nwrote
            oldLen    == ReadableBytes(out)
            complete  == writes /\ remaining = 0 /\ "writeComplete" \in callbacks
            high      == /\ remaining > 0 /\ "highWaterMark" \in callbacks
                         /\ oldLen + remaining >= HighWaterMark /\ oldLen < HighWaterMark
        IN
        /\ pending' = queue \o (IF complete THEN <<<<"writeComplete", 0>>>> ELSE <<>>)
                            \o (IF high THEN <<<<"highWaterMark", 0>>>> ELSE <<>>)
        /\ out'  = IF remaining > 0 THEN AppendBytes(out, remaining) ELSE out
        /\ chan' = IF remaining > 0 /\ ~IsWriting(chan) THEN EnableWriting(chan) ELSE chan
        /\ space' = space - nwrote
        /\ accepted' = accepted + nwrote + remaining
        /\ sent' = sent + nwrote

ShutdownInLoop_AtOnce == wrShut' = TRUE   \* mutant
ShutdownInLoop == wrShut' = (wrShut \/ ~IsWriting(chan))

\* Mutant: handleClose calls closeCallback_ and not connectionCallback_.
HandleClose_Silent ==
    /\ state' = "kDisconnected"
    /\ chan' = DisableAll(chan)
    /\ inMap' = FALSE /\ pending' = Append(pending, <<"connectDestroyed", 0>>)
    /\ UNCHANGED <<out, serverAlive, callbacks, cb, after, kernelVars, history>>

\* Mutant: handleClose leaves state_ as it was.
HandleClose_KeepsState ==
    /\ chan' = DisableAll(chan)
    /\ cb' = "connection" /\ told' = "down"
    /\ after' = "closeCallback"
    /\ UNCHANGED <<state, out, serverVars, pending, kernelVars, accepted, sent, stale>>

\* handleClose up to the connection callback, which closeCallback_ follows.
HandleClose ==
    /\ state' = "kDisconnected"
    /\ chan' = DisableAll(chan)
    /\ cb' = "connection" /\ told' = "down"
    /\ after' = "closeCallback"
    /\ UNCHANGED <<out, serverVars, pending, kernelVars, accepted, sent, stale>>

ConnectDestroyed ==
    \/ /\ state = "kConnected"
       /\ state' = "kDisconnected"
       /\ chan' = DisableAll(chan)
       /\ cb' = "connection" /\ told' = "down"
       /\ after' = "remove"
    \/ /\ state # "kConnected"
       /\ chan' = RemoveChannel(chan)
       /\ UNCHANGED <<state, cb, told, after>>

-----------------------------------------------------------------------------
(* The loop thread.                                                        *)

\* Acceptor::handleRead -> newConnection -> connectEstablished, all on the loop thread.
NewConnection ==
    /\ lpc = "events" /\ todo = <<>> /\ Idle
    /\ state = "none" /\ serverAlive
    /\ inMap' = TRUE
    /\ state' = "kConnected"
    /\ chan' = EnableReading(NewChannel)
    /\ cb' = "connection" /\ told' = "up"
    /\ UNCHANGED <<out, serverAlive, callbacks, lpc, todo, after, pending, batch, appVars,
                   kernelVars, accepted, sent, stale>>

\* poll() returns: with events of the channel, for another reason, or at the timeout.  A
\* destroyed connection has closed its fd, and the kernel reports nothing of it.
Poll ==
    /\ lpc = "poll" /\ lpc' = "events"
    /\ todo' = IF Alive THEN Callbacks(Reported(chan, Conditions)) ELSE <<>>
    /\ UNCHANGED <<connVars, serverVars, cb, after, pending, batch, appVars, kernelVars,
                   history>>

Dispatch(callback) ==
    /\ lpc = "events" /\ Idle /\ todo # <<>>
    /\ Head(todo) = callback
    /\ todo' = Tail(todo)
    /\ UNCHANGED <<lpc, batch, appVars>>

\* closeCallback_ and errorCallback_ are both handleClose.
CloseEvent == (Dispatch("close") \/ Dispatch("error")) /\ HandleClose

\* handleRead: data goes to the application, end of file closes, an error is logged.
ReadData ==
    /\ Dispatch("read") /\ inbox
    /\ inbox' = FALSE
    /\ cb' = "message"
    /\ UNCHANGED <<connVars, serverVars, after, pending, peer, sockErr, wrShut, space,
                   history>>

\* Mutant: read() = 0 is only logged.
ReadEof_Ignored ==
    /\ Dispatch("read") /\ ~inbox /\ ~sockErr /\ peer # "open"
    /\ UNCHANGED <<connVars, serverVars, cb, after, pending, kernelVars, history>>

ReadEof == Dispatch("read") /\ ~inbox /\ ~sockErr /\ peer # "open" /\ HandleClose

\* Mutant: handleRead closes the connection after an error, as at the end of file.
ReadError_Closes == Dispatch("read") /\ ~inbox /\ sockErr /\ HandleClose

ReadError ==
    /\ Dispatch("read") /\ ~inbox /\ sockErr
    /\ sockErr' = FALSE
    /\ UNCHANGED <<connVars, serverVars, cb, after, pending, inbox, peer, wrShut, space,
                   history>>

\* handleWrite, whose write() takes n of the bytes that writeFd offers.  They begin with the
\* stored ones, but writeFd offers as many as there is free space: what is behind writerIndex_,
\* sent before or never written, goes out too.  As nothing disables writing, this step is also
\* taken when no byte is stored.
WriteSome ==
    LET n == Takes(WriteFdLen(out)) IN
    /\ Dispatch("write") /\ IsWriting(chan) /\ ~Broken /\ n > 0
    /\ space' = space - n
    /\ out' = Retrieve(out, n)
    /\ sent' = sent + (IF n < ReadableBytes(out) THEN n ELSE ReadableBytes(out))
    /\ stale' = (stale \/ n > ReadableBytes(out))
    /\ pending' = IF ReadableBytes(out') = 0 THEN Append(pending, <<"writeComplete", 0>>)
                  ELSE pending
    /\ IF state = "kDisconnecting" THEN ShutdownInLoop ELSE UNCHANGED wrShut
    /\ UNCHANGED <<state, chan, serverVars, cb, after, inbox, peer, sockErr, accepted,
                   told>>

\* handleWrite that only logs: not writing, an error, or a write of 0 bytes.  An error that
\* passes is left out: the next epoll_wait reports the same event.
WriteNothing ==
    /\ Dispatch("write")
    /\ ~IsWriting(chan) \/ Broken \/ Takes(WriteFdLen(out)) = 0
    /\ sockErr' = (sockErr /\ ~IsWriting(chan))
    /\ UNCHANGED <<connVars, serverVars, cb, after, pending, inbox, peer, wrShut, space,
                   history>>

SwapFunctors ==
    /\ lpc = "events" /\ Idle /\ todo = <<>>
    /\ lpc' = "functors"
    /\ functors' = pending /\ pending' = <<>>
    /\ UNCHANGED <<connVars, serverVars, todo, cb, after, done, appVars, kernelVars,
                   history>>

\* The next functor of the batch.
Runs(f) ==
    /\ lpc = "functors" /\ Idle /\ done < Len(functors)
    /\ functors[done + 1] = f
    /\ done' = done + 1
    /\ UNCHANGED <<todo, functors, appVars>>

RunConnectDestroyed ==
    /\ Runs(<<"connectDestroyed", 0>>)
    /\ ConnectDestroyed
    /\ UNCHANGED <<out, serverVars, lpc, pending, kernelVars, accepted, sent, stale>>

\* An empty std::function throws, nothing catches, and the process is terminated.
RunWriteComplete ==
    /\ Runs(<<"writeComplete", 0>>)
    /\ \/ "writeComplete" \in callbacks /\ cb' = "writeComplete" /\ UNCHANGED lpc
       \/ "writeComplete" \notin callbacks /\ lpc' = "terminated" /\ UNCHANGED cb
    /\ UNCHANGED <<connVars, serverVars, after, pending, kernelVars, history>>

RunHighWaterMark ==
    /\ Runs(<<"highWaterMark", 0>>)
    /\ cb' = "highWaterMark"
    /\ UNCHANGED <<connVars, serverVars, lpc, after, pending, kernelVars, history>>

RunSendInLoop(len) ==
    /\ Runs(<<"sendInLoop", len>>) /\ Alive
    /\ IF state = "kDisconnected"
       THEN UNCHANGED <<connVars, serverVars, pending, kernelVars, history>>
       ELSE SendInLoop(len, pending)
    /\ UNCHANGED <<lpc, cb, after>>

RunShutdownInLoop ==
    /\ Runs(<<"shutdownInLoop", 0>>) /\ Alive
    /\ ShutdownInLoop
    /\ UNCHANGED <<connVars, serverVars, lpc, cb, after, pending, inbox, peer, sockErr,
                   space, history>>

\* A functor bound to `this' runs after the object is gone.
RunDangling ==
    /\ ~Alive /\ \E f \in Raw : Runs(f)
    /\ lpc' = "undefined"
    /\ UNCHANGED <<connVars, serverVars, cb, after, pending, kernelVars, history>>

\* The batch is done; its vector drops the references it held.
FinishBatch ==
    /\ lpc = "functors" /\ Idle /\ done = Len(functors)
    /\ lpc' = "poll" /\ functors' = <<>> /\ done' = 0
    /\ UNCHANGED <<connVars, serverVars, todo, cb, after, pending, appVars, kernelVars,
                   history>>

\* ~TcpServer, on the loop thread.
DestroyServer ==
    /\ ServerDies /\ serverAlive /\ lpc = "functors" /\ Idle
    /\ serverAlive' = FALSE /\ inMap' = FALSE
    /\ IF inMap THEN ConnectDestroyed ELSE UNCHANGED <<state, chan, cb, told, after>>
    /\ UNCHANGED <<out, callbacks, lpc, todo, pending, batch, appVars, kernelVars,
                   accepted, sent, stale>>

-----------------------------------------------------------------------------
(* The application, in a callback on the loop thread.                      *)

\* The callback returns.  closeCallback_ is removeConnectionInLoop, bound to the server.
CallbackReturns ==
    /\ cb # "none" /\ cb' = "none" /\ after' = "nothing"
    /\ \/ after = "nothing" /\ UNCHANGED <<chan, inMap, lpc, pending>>
       \/ after = "remove" /\ chan' = RemoveChannel(chan) /\ UNCHANGED <<inMap, lpc,
                                                                         pending>>
       \/ /\ after = "closeCallback"
          /\ inMap' = FALSE
          /\ pending' = Append(pending, <<"connectDestroyed", 0>>)
          /\ lpc' = IF serverAlive THEN lpc ELSE "undefined"
          /\ UNCHANGED chan
    /\ UNCHANGED <<state, out, serverAlive, callbacks, todo, batch, appVars, kernelVars,
                   history>>

\* send() on the loop thread.
Send(len) ==
    /\ cb # "none" /\ state = "kConnected" /\ sends < MaxSends
    /\ sends' = sends + 1
    /\ SendInLoop(len, pending)
    /\ UNCHANGED <<lpc, todo, cb, after, batch, tpc, shared>>

\* shutdown() on the loop thread.
Shutdown ==
    /\ cb # "none" /\ state = "kConnected"
    /\ state' = "kDisconnecting"
    /\ ShutdownInLoop
    /\ UNCHANGED <<chan, out, serverVars, loopVars, appVars, inbox, peer, sockErr, space,
                   history>>

\* The application hands its TcpConnectionPtr to a thread.
GivePointer(t) ==
    /\ cb # "none" /\ tpc[t] = "none"
    /\ shared' = TRUE
    /\ tpc' = [tpc EXCEPT ![t] = "holds"]
    /\ UNCHANGED <<connVars, serverVars, loopVars, sends, kernelVars, history>>

-----------------------------------------------------------------------------
(* The application, in another thread.                                     *)

ThreadMoves(t, from, to) == Running /\ tpc[t] = from /\ tpc' = [tpc EXCEPT ![t] = to]

ThreadDrops(t) ==
    /\ ThreadMoves(t, "holds", "none")
    /\ UNCHANGED <<connVars, serverVars, loopVars, sends, shared, kernelVars, history>>

\* send() and shutdown() read state_ ...
ThreadChecks(t, to) ==
    /\ to \in {"sending", "shutting"}
    /\ ThreadMoves(t, "holds", to)
    /\ state = "kConnected"
    /\ UNCHANGED <<connVars, serverVars, loopVars, sends, shared, kernelVars, history>>

\* ... and send() then queues sendInLoop, bound to this,
ThreadSends(t, len) ==
    /\ ThreadMoves(t, "sending", "holds")
    /\ sends < MaxSends /\ sends' = sends + 1
    /\ pending' = Append(pending, <<"sendInLoop", len>>)
    /\ UNCHANGED <<connVars, serverVars, lpc, todo, cb, after, batch, shared, kernelVars, history>>

\* while shutdown() writes state_, whatever it is by now,
ThreadSetsState(t) ==
    /\ ThreadMoves(t, "shutting", "shut")
    /\ state' = "kDisconnecting"
    /\ UNCHANGED <<chan, out, serverVars, loopVars, sends, shared, kernelVars, history>>

\* and queues shutdownInLoop, bound to this.
ThreadShuts(t) ==
    /\ ThreadMoves(t, "shut", "holds")
    /\ pending' = Append(pending, <<"shutdownInLoop", 0>>)
    /\ UNCHANGED <<connVars, serverVars, lpc, todo, cb, after, batch, sends, shared, kernelVars,
                   history>>

-----------------------------------------------------------------------------
(* The peer, while the socket is open.                                     *)

SocketOpen == state # "none" /\ Alive /\ Running

PeerUnchanged == UNCHANGED <<connVars, serverVars, loopVars, appVars, wrShut, history>>

PeerSends ==
    /\ SocketOpen /\ peer = "open"
    /\ inbox' = TRUE
    /\ UNCHANGED <<peer, sockErr, space>> /\ PeerUnchanged

PeerReads ==
    /\ SocketOpen /\ peer # "reset" /\ space < SendBufferSize
    /\ space' = SendBufferSize
    /\ UNCHANGED <<inbox, peer, sockErr>> /\ PeerUnchanged

PeerCloses ==
    /\ SocketOpen /\ peer = "open"
    /\ peer' = "closed"
    /\ UNCHANGED <<inbox, sockErr, space>> /\ PeerUnchanged

PeerResets ==
    /\ SocketOpen /\ peer # "reset"
    /\ peer' = "reset" /\ sockErr' = TRUE
    /\ UNCHANGED <<inbox, space>> /\ PeerUnchanged

-----------------------------------------------------------------------------

LoopStep ==
    \/ Poll \/ CloseEvent \/ ReadData \/ ReadEof \/ ReadError \/ WriteSome \/ WriteNothing
    \/ SwapFunctors \/ FinishBatch \/ CallbackReturns
    \/ RunConnectDestroyed \/ RunWriteComplete \/ RunHighWaterMark \/ RunShutdownInLoop
    \/ RunDangling \/ \E n \in Lens : RunSendInLoop(n)

CallbackCall == Shutdown \/ (\E n \in Lens : Send(n)) \/ \E t \in Threads : GivePointer(t)

ThreadStep(t) ==
    \/ ThreadDrops(t) \/ ThreadSetsState(t) \/ ThreadShuts(t)
    \/ \E to \in {"sending", "shutting"} : ThreadChecks(t, to)
    \/ \E n \in Lens : ThreadSends(t, n)

PeerStep == PeerSends \/ PeerReads \/ PeerCloses \/ PeerResets

Next ==
    \/ NewConnection \/ LoopStep \/ DestroyServer \/ CallbackCall \/ PeerStep
    \/ \E t \in Threads : ThreadStep(t)

Spec == Init /\ [][Next]_vars

\* The loop thread runs and callbacks return.
FairSpec == Spec /\ WF_vars(LoopStep)

\* And the peer goes on reading.
FairPeerSpec == FairSpec /\ WF_vars(PeerReads)

-----------------------------------------------------------------------------
(* Properties.                                                             *)

Gone == state # "none" /\ ~Alive

\* The poller never keeps the Channel of a destroyed connection, in channels_ or in the
\* kernel: whoever drops the last reference, connectDestroyed has removed it before.  Out of
\* this claim: a server destroyed while a thread uses its connection.
RemovedBeforeDestroyed ==
    Gone /\ (serverAlive \/ ~shared) => chan.index = kNew /\ chan.entry = "none"

\* As long as all calls are made on the loop thread (~shared) nothing touches an object after its
\* destruction: no functor runs on a destroyed connection and no closeCallback_ goes into a
\* destroyed server, even if the server dies with a connection open or half closed that
\* functors keep alive.
NothingDangles == ~shared => lpc # "undefined"

\* The application hears of the end of every connection it heard the beginning of,
\* before the object is destroyed.
EndReported == (Gone /\ serverAlive) => told = "down"

\* As long as the application has not been told of the end, epoll reports what has to be handled,
\* whatever the application does with the connection and in whichever of its threads: room for
\* the bytes that wait in outputBuffer_, which are never stranded, and input, hence handleRead,
\* for a socket that the peer has closed or reset.
StaysWatched ==
    (inMap /\ told = "up") =>
        /\ ReadableBytes(out) > 0 => chan.entry = "present" /\ "OUT" \in chan.interest
        /\ peer # "open" => "IN" \in Reported(chan, Conditions)

\* The end is told once, although the error callback, the close callback and handleRead all lead
\* to handleClose and one event can call several of them, and although connectDestroyed reports
\* the end too; and what the application sends after it is given up, whatever is dispatched or
\* run later: as long as all calls are made on the loop thread, no test of state_ passes any
\* more.  A late send of a thread may revive the channel, see NoSendAfterEnd.
EndIsFinal ==
    [][told = "down" /\ ~shared =>
           accepted' = accepted /\ (cb # "connection" => cb' # "connection")]_vars

\* What becomes of the bytes that are sent on a connection (module ByteStream): each byte that
\* sendInLoop took is sent once and in its turn or waits in outputBuffer_, no direct write and no
\* FIN of shutdown() passes bytes that wait, and a send that passed its test before shutdown()
\* stores nothing behind a FIN, where it could never be sent, whatever threads, events and functors
\* do in between; stale bytes of the buffer go out behind the last waiting byte only, and not as
\* long as no byte had to wait.
BS == INSTANCE ByteStream WITH phase <- told, waiting <- ReadableBytes(out),
                               buffered <- told = "up" /\ IsWriting(chan), fin <- wrShut
ImplementsByteStream == BS!Spec

\* A connection that the peer has closed or reset is torn down and destroyed, in whatever
\* state its output, its shutdown and its functors are, as soon as no thread holds it.
PeerEndDestroys ==
    (state # "none" /\ peer # "open")
        ~> (Gone \/ ~Running \/ \E t \in Threads : tpc[t] # "none")

\* The bytes that wait in outputBuffer_ are sent as long as the peer reads, as the comment in
\* sendInLoop says of handleWrite, or the connection ends: but for a buffer that is filled to its
\* end, of which writeFd writes as many bytes as there is free space, none.
BacklogSent ==
    WF_vars(PeerReads) =>
        ((told = "up" /\ ReadableBytes(out) > 0)
            ~> (ReadableBytes(out) = 0 \/ WritableBytes(out) = 0 \/ ~inMap \/ ~Running))

\* What the comment in handleRead says of the whole class, that it keeps "the integrity of the data
\* that is sent and received", and the one in sendInLoop of handleWrite, that it sends the data of
\* the send buffer: no other bytes are written to the socket.
NothingElseSent == ~stale

\* What TcpConnection.h says of shutdown(), "close the connection": its FIN is sent,
\* or the connection ends.
ShutdownCompletes == (state = "kDisconnecting") ~> (wrShut \/ state = "kDisconnected")

\* What sendInLoop logs of a connection that has ended, "disconnected, give up writing!":
\* after the application was told of the end no more is written or stored.
NoSendAfterEnd == [][told = "down" => accepted' = accepted]_vars
=============================================================================
