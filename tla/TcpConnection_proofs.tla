------------------------ MODULE TcpConnection_proofs ------------------------
(***************************************************************************)
(* Proofs about TcpConnection for every set of threads, every capacity and *)
(* every length of what is sent.                                           *)
(***************************************************************************)
EXTENDS TcpConnection, Channel_proofs, Buffer_proofs

\* The functors that hold the connection until they are run, those that are queued, and those
\* of them that are still to be run.
Destroys == <<"connectDestroyed", 0>>
Fs       == ToSet(pending) \cup ToSet(functors)
Unrun    == ToSet(pending) \cup {functors[i] : i \in {j \in 1..Len(functors) : j > done}}

\* The types, the truth values apart from the rest.
BoolOK ==
    /\ serverAlive \in BOOLEAN /\ inMap \in BOOLEAN /\ shared \in BOOLEAN
    /\ inbox \in BOOLEAN /\ sockErr \in BOOLEAN /\ wrShut \in BOOLEAN /\ stale \in BOOLEAN
ConnOK ==
    /\ state \in States /\ GoodChannel(chan) /\ Good(out)
    /\ space \in 0..SendBufferSize /\ accepted \in Nat /\ sent \in Nat
LoopOK ==
    /\ callbacks \in CallbackSets
    /\ lpc \in {"poll", "events", "functors", "undefined", "terminated"}
    /\ todo \in Seq({"close", "error", "read", "write"})
    /\ cb \in {"none", "connection", "message", "writeComplete", "highWaterMark"}
    /\ after \in {"nothing", "closeCallback", "remove"}
    /\ told \in {"nothing", "up", "down"} /\ peer \in {"open", "closed", "reset"}
QueueOK ==
    /\ pending \in Seq(Holding \cup Raw) /\ functors \in Seq(Holding \cup Raw)
    /\ done \in 0..Len(functors)
ThreadOK ==
    /\ tpc \in [Threads -> {"none", "holds", "sending", "shutting", "shut"}]
    /\ sends \in 0..MaxSends
Typed == BoolOK /\ ConnOK /\ LoopOK /\ QueueOK /\ ThreadOK

\* Before newConnection there is nothing; from then on the application has been told.
NoneInv ==
    /\ state = "none" =>
           /\ chan = NewChannel /\ ReadableBytes(out) = 0 /\ ~inMap /\ ~wrShut
           /\ told = "nothing" /\ cb = "none" /\ todo = <<>>
           /\ pending = <<>> /\ functors = <<>>
           /\ \A t \in Threads : tpc[t] = "none"
    /\ state # "none" => told # "nothing"

\* A callback runs in the events or the functors; what follows it belongs to an end.
PhaseInv ==
    /\ cb # "none" => lpc \in {"events", "functors"}
    /\ lpc \in {"poll", "events"} => functors = <<>>
    /\ after # "nothing" => cb = "connection" /\ told = "down"
    /\ after = "remove" => ~inMap

\* The map holds what is up as long as there is a server; connectDestroyed comes for what has
\* ended.
MapInv ==
    /\ inMap => serverAlive
    /\ told = "up" /\ serverAlive => inMap
    /\ Destroys \in Fs => told = "down" /\ ~inMap

\* What the channel asks for while the connection is up: input always, and room for the bytes
\* that wait, which do not wait behind a FIN.
OutputInv ==
    /\ told = "up" /\ inMap => chan.entry = "present"
    /\ told = "up" => "IN" \in chan.events
    /\ told = "up" /\ ReadableBytes(out) > 0 => IsWriting(chan)
    /\ told = "up" /\ wrShut => ~IsWriting(chan)
    /\ accepted = sent + ReadableBytes(out)

\* What handleEventWithGuard can have to run when the channel has asked for EPOLLIN throughout:
\* a hang-up comes with input, and is found by handleRead.
Todos == {<<>>, <<"error">>, <<"read">>, <<"write">>, <<"error", "read">>,
          <<"error", "write">>, <<"read", "write">>, <<"error", "read", "write">>}

\* The events of a connection no thread was given: an error is reported to a connection that is
\* up; the handleRead that may follow it finds the error, and does not close again.
EventsInv ==
    /\ todo \in Todos
    /\ todo # <<>> => /\ lpc = "events"
                      /\ told = "up" => inMap
                      /\ Head(todo) = "error" => sockErr /\ cb = "none" /\ told = "up"
                      /\ Head(todo) = "read" /\ told = "down" => sockErr

\* A connection no thread was given is off epoll when it has ended or has left the map, and off
\* the poller when connectDestroyed has run.
EndInv ==
    /\ \A t \in Threads : tpc[t] = "none"
    /\ Fs \cap Raw = {}
    /\ told = "down" => state = "kDisconnected" /\ chan.entry = "none"
    /\ state = "kConnected" => inMap
    /\ ~inMap => chan.entry = "none"
    /\ after = "closeCallback" => serverAlive
    /\ ~inMap /\ chan.index # kNew => after = "remove" \/ Destroys \in Unrun
    /\ lpc # "undefined"

\* The inductive invariant.
Inv ==
    /\ Typed /\ NoneInv /\ PhaseInv /\ MapInv /\ OutputInv
    /\ ~shared => EventsInv /\ EndInv

\* What a thread's late send and late shutdown() may find, if there is one thread and the server
\* lives.  shutdown() may take the state back from kDisconnected to kDisconnecting, and a
\* sendInLoop that is run then may register the channel again: but one is only queued by a thread
\* that then has still to pass the test of shutdown(), so a connectDestroyed is behind it.
Sends == {<<"sendInLoop", n>> : n \in Lens}

\* Behind every sendInLoop of s that comes after the first k functors is a connectDestroyed.
Followed(s, k) ==
    \A i \in 1..Len(s) : i > k /\ s[i] \in Sends => \E j \in 1..Len(s) : j > i /\ s[j] = Destroys
SendsFollowed ==
    Followed(pending, 0) /\ (Followed(functors, done) \/ Destroys \in ToSet(pending))

LateInv == serverAlive =>
    /\ after # "remove"
    /\ told = "down" =>
           /\ state # "kConnected"
           /\ state = "kDisconnecting" => \A t \in Threads : tpc[t] \notin {"sending", "shutting"}
           /\ after = "closeCallback" \/ chan.index = kNew \/ Destroys \in Unrun
           /\ (state = "kDisconnecting" \/ \E t \in Threads : tpc[t] = "shutting")
                  => after = "closeCallback" \/ SendsFollowed

-----------------------------------------------------------------------------
(* The queues.                                                             *)

LEMMA ToSetConcat ==
    ASSUME NEW U, NEW s \in Seq(U), NEW t \in Seq(U)
    PROVE  s \o t \in Seq(U) /\ ToSet(s \o t) = ToSet(s) \cup ToSet(t)
<1>1. /\ DOMAIN s = 1..Len(s) /\ DOMAIN t = 1..Len(t) /\ Len(s) \in Nat /\ Len(t) \in Nat
      /\ s \o t \in Seq(U) /\ DOMAIN (s \o t) = 1..(Len(s) + Len(t))
      /\ \A i \in 1..(Len(s) + Len(t)) :
             (s \o t)[i] = IF i <= Len(s) THEN s[i] ELSE t[i - Len(s)]
  OBVIOUS
<1>2. ASSUME NEW i \in 1..Len(t) PROVE t[i] \in ToSet(s \o t)
  <2>1. Len(s) + i \in DOMAIN (s \o t) /\ (s \o t)[Len(s) + i] = t[i]
    BY <1>1, <1>2
  <2> QED
    BY <2>1 DEF ToSet
<1>3. ASSUME NEW i \in 1..Len(s) PROVE s[i] \in ToSet(s \o t)
  <2>1. i \in DOMAIN (s \o t) /\ (s \o t)[i] = s[i]
    BY <1>1, <1>3
  <2> QED
    BY <2>1 DEF ToSet
<1>4. ASSUME NEW i \in DOMAIN (s \o t) PROVE (s \o t)[i] \in ToSet(s) \cup ToSet(t)
  BY <1>1, <1>4 DEF ToSet
<1> QED
  BY <1>1, <1>2, <1>3, <1>4 DEF ToSet

LEMMA ToSetConcat3 ==
    ASSUME NEW U, NEW p \in Seq(U), NEW s \in Seq(U), NEW t \in Seq(U)
    PROVE  /\ p \o s \o t \in Seq(U)
           /\ ToSet(p \o s \o t) = ToSet(p) \cup ToSet(s) \cup ToSet(t)
<1> DEFINE q == p \o s
<1>1. q \in Seq(U) /\ ToSet(q) = ToSet(p) \cup ToSet(s)
  BY ToSetConcat
<1>2. p \o s \o t = q \o t
  OBVIOUS
<1> HIDE DEF q
<1>3. q \o t \in Seq(U) /\ ToSet(q \o t) = ToSet(q) \cup ToSet(t)
  BY <1>1, ToSetConcat
<1> QED
  BY <1>1, <1>2, <1>3, Zenon

LEMMA ToSetOne == ASSUME NEW x PROVE ToSet(<<x>>) = {x}
  BY DEF ToSet

LEMMA ToSetNone == ToSet(<<>>) = {}
  BY DEF ToSet

LEMMA FunctorIds ==
    /\ Destroys \in Holding /\ <<"writeComplete", 0>> \in Holding
    /\ <<"highWaterMark", 0>> \in Holding /\ <<"shutdownInLoop", 0>> \in Raw
    /\ \A n \in Lens : <<"sendInLoop", n>> \in Raw
    /\ Holding \cap Raw = {}
    /\ <<"writeComplete", 0>> # Destroys /\ <<"highWaterMark", 0>> # Destroys
<1>1. Holding \cap Raw = {}
  <2>1. ASSUME NEW f \in Holding, NEW g \in Raw PROVE f # g
    <3>1. f[1] \in {"connectDestroyed", "writeComplete", "highWaterMark"}
      BY DEF Holding
    <3>2. g[1] \in {"shutdownInLoop", "sendInLoop"}
      BY DEF Raw
    <3> QED
      BY <3>1, <3>2
  <2> QED
    BY <2>1
<1>2. /\ <<"shutdownInLoop", 0>> \in Raw /\ \A n \in Lens : <<"sendInLoop", n>> \in Raw
  BY Zenon DEF Raw
<1>3. /\ Destroys \in Holding /\ <<"writeComplete", 0>> \in Holding
      /\ <<"highWaterMark", 0>> \in Holding
  BY DEF Holding, Destroys
<1>4. <<"writeComplete", 0>> # Destroys /\ <<"highWaterMark", 0>> # Destroys
  BY DEF Destroys
<1> QED
  BY <1>1, <1>2, <1>3, <1>4

\* queueInLoop.
LEMMA QueueAppend ==
    ASSUME pending \in Seq(Holding \cup Raw), NEW f \in Holding \cup Raw,
           pending' = Append(pending, f), UNCHANGED <<functors, done>>
    PROVE  /\ pending' \in Seq(Holding \cup Raw)
           /\ Fs' = Fs \cup {f} /\ Unrun' = Unrun \cup {f}
<1>1. ASSUME NEW U, pending \in Seq(U), f \in U
      PROVE  pending' \in Seq(U) /\ ToSet(pending') = ToSet(pending) \cup {f}
  <2> DEFINE one == <<f>>
  <2>1. Append(pending, f) = pending \o one /\ one \in Seq(U)
    BY <1>1
  <2>2. ToSet(one) = {f}
    BY ToSetOne
  <2> HIDE DEF one
  <2>3. pending \o one \in Seq(U) /\ ToSet(pending \o one) = ToSet(pending) \cup ToSet(one)
    BY <1>1, <2>1, ToSetConcat
  <2> QED
    BY <2>1, <2>2, <2>3, Zenon
<1>2. ToSet(pending') = ToSet(pending) \cup {f} /\ pending' \in Seq(Holding \cup Raw)
  BY <1>1
<1> QED
  BY <1>2 DEF Fs, Unrun

LEMMA QueuesSame ==
    ASSUME UNCHANGED <<pending, functors, done>>
    PROVE  Fs' = Fs /\ Unrun' = Unrun
  BY DEF Fs, Unrun

\* One functor of the batch.
LEMMA QueueRun ==
    ASSUME NEW f, Runs(f), functors \in Seq(Holding \cup Raw), done \in Nat
    PROVE  /\ f \in Fs /\ functors # <<>> /\ done' \in 0..Len(functors)
           /\ pending' = pending => Fs' = Fs /\ Unrun \subseteq Unrun' \cup {f}
<1>1. /\ done < Len(functors) /\ functors[done + 1] = f /\ done' = done + 1
      /\ functors' = functors /\ Len(functors) \in Nat /\ DOMAIN functors = 1..Len(functors)
  BY DEF Runs
<1>2. f \in ToSet(functors)
  <2>1. done + 1 \in DOMAIN functors
    BY <1>1
  <2> QED
    BY <1>1, <2>1 DEF ToSet
<1>3. \A j \in 1..Len(functors) : j > done => j > done' \/ functors[j] = f
  BY <1>1
<1> QED
  BY <1>1, <1>2, <1>3 DEF Fs, Unrun

-----------------------------------------------------------------------------
(* The parts of the handlers.                                              *)

LEMMA TypedIsTypeOK == Typed => TypeOK
<1> SUFFICES ASSUME Typed PROVE TypeOK
  OBVIOUS
<1>1. chan \in ChannelType /\ out \in BufferType
  BY DEF Typed, ConnOK, GoodChannel, Good
<1> QED
  BY <1>1, Zenon DEF Typed, BoolOK, ConnOK, LoopOK, QueueOK, ThreadOK, TypeOK

LEMMA TakesFacts ==
    ASSUME NEW n \in Nat, space \in Nat
    PROVE  Takes(n) \in Nat /\ Takes(n) <= n /\ Takes(n) <= space
  BY DEF Takes

\* What sendInLoop does with w bytes that it writes and r that it stores.
SendMoves(w, r) ==
    /\ w <= space /\ space' = space - w
    /\ accepted' = accepted + w + r /\ sent' = sent + w
    /\ out' = IF r > 0 THEN AppendBytes(out, r) ELSE out
    /\ chan' = IF r > 0 /\ ~IsWriting(chan) THEN EnableWriting(chan) ELSE chan
    /\ IsWriting(chan) \/ ReadableBytes(out) > 0 => w = 0
    /\ ~IsWriting(chan) /\ ReadableBytes(out) = 0 /\ wrShut => w = 0 /\ r = 0

LEMMA SendFacts ==
    ASSUME ConnOK, NEW len \in Lens, SendInLoop(len, pending)
    PROVE  \E w, r \in Nat : SendMoves(w, r)
<1> DEFINE fault       == WritesDirectly /\ FaultError
           nwrote(k)   == IF WritesDirectly /\ ~Broken /\ k THEN Takes(len) ELSE 0
           remaining(k) == IF fault THEN 0 ELSE len - nwrote(k)
<1>1. PICK k \in BOOLEAN :
         /\ out'  = IF remaining(k) > 0 THEN AppendBytes(out, remaining(k)) ELSE out
         /\ chan' = IF remaining(k) > 0 /\ ~IsWriting(chan) THEN EnableWriting(chan) ELSE chan
         /\ space' = space - nwrote(k)
         /\ accepted' = accepted + nwrote(k) + remaining(k)
         /\ sent' = sent + nwrote(k)
  BY Zenon DEF SendInLoop
<1> DEFINE w == nwrote(k)
           r == remaining(k)
<1>2. len \in Nat /\ space \in Nat
  BY TcpConnectionAssumption DEF ConnOK
<1>3. w \in Nat /\ w <= len /\ w <= space
  BY <1>2, TakesFacts
<1>4. r \in Nat
  BY <1>2, <1>3
<1>5. IsWriting(chan) \/ ReadableBytes(out) > 0 => w = 0
  BY ReadableNat DEF ConnOK, WritesDirectly
<1>6. ~IsWriting(chan) /\ ReadableBytes(out) = 0 /\ wrShut => w = 0 /\ r = 0
  BY DEF FaultError, Broken, WritesDirectly
<1>7. /\ out'  = IF r > 0 THEN AppendBytes(out, r) ELSE out
      /\ chan' = IF r > 0 /\ ~IsWriting(chan) THEN EnableWriting(chan) ELSE chan
      /\ space' = space - w /\ accepted' = accepted + w + r /\ sent' = sent + w
  BY <1>1
<1> HIDE DEF w, r
<1> QED
  BY <1>3, <1>4, <1>5, <1>6, <1>7 DEF SendMoves

\* The rest of it: functors that hold the connection, and what stays as it is.
LEMMA SendQueues ==
    ASSUME QueueOK, NEW len \in Lens, SendInLoop(len, pending), functors' = functors
    PROVE  /\ pending' \in Seq(Holding \cup Raw)
           /\ done' = done => Unrun \subseteq Unrun'
           /\ Fs' \subseteq Fs \cup {<<"writeComplete", 0>>, <<"highWaterMark", 0>>}
           /\ UNCHANGED <<state, callbacks, peer, told>>
<1>1. PICK s \in {<<>>, <<<<"writeComplete", 0>>>>}, t \in {<<>>, <<<<"highWaterMark", 0>>>>} :
         pending' = pending \o s \o t
  BY DEF SendInLoop
<1>2. ASSUME NEW U, pending \in Seq(U),
             <<"writeComplete", 0>> \in U, <<"highWaterMark", 0>> \in U
      PROVE  /\ pending' \in Seq(U)
             /\ ToSet(pending') = ToSet(pending) \cup ToSet(s) \cup ToSet(t)
  <2>1. s \in Seq(U) /\ t \in Seq(U)
    <3>1. /\ <<>> \in Seq(U) /\ <<<<"writeComplete", 0>>>> \in Seq(U)
          /\ <<<<"highWaterMark", 0>>>> \in Seq(U)
      <4>1. ASSUME NEW x \in U PROVE <<x>> \in Seq(U)
        OBVIOUS
      <4> QED
        BY <1>2, <4>1
    <3> QED
      BY <3>1
  <2>2. /\ pending \o s \o t \in Seq(U)
        /\ ToSet(pending \o s \o t) = ToSet(pending) \cup ToSet(s) \cup ToSet(t)
    BY <1>2, <2>1, ToSetConcat3
  <2> QED
    BY <1>1, <2>2, Zenon
<1>3. ToSet(s) \cup ToSet(t) \subseteq {<<"writeComplete", 0>>, <<"highWaterMark", 0>>}
  <2>1. /\ ToSet(s) \in {{}, {<<"writeComplete", 0>>}}
        /\ ToSet(t) \in {{}, {<<"highWaterMark", 0>>}}
    BY ToSetOne, ToSetNone
  <2> QED
    BY <2>1
<1>4. /\ pending' \in Seq(Holding \cup Raw)
      /\ ToSet(pending') = ToSet(pending) \cup ToSet(s) \cup ToSet(t)
  BY <1>2, FunctorIds, Zenon DEF QueueOK
<1>5. UNCHANGED <<state, callbacks, peer, told>>
  BY DEF SendInLoop, serverVars
<1> QED
  BY <1>3, <1>4, <1>5 DEF Fs, Unrun

LEMMA SendConn ==
    ASSUME ConnOK, NEW len \in Lens, SendInLoop(len, pending), state' = state
    PROVE  ConnOK'
<1>1. PICK w, r \in Nat : SendMoves(w, r)
  BY SendFacts
<1>2. Good(out')
  BY <1>1, AppendBytesGood DEF SendMoves, ConnOK
<1>3. GoodChannel(chan')
  BY <1>1, EnableWritingGood DEF SendMoves, ConnOK
<1>4. space' \in 0..SendBufferSize /\ accepted' \in Nat /\ sent' \in Nat
  BY <1>1, TcpConnectionAssumption DEF SendMoves, ConnOK
<1> QED
  BY <1>2, <1>3, <1>4 DEF ConnOK

\* Sending keeps what is known of the output.
LEMMA SendOutput ==
    ASSUME ConnOK, OutputInv, NEW len \in Lens, SendInLoop(len, pending)
    PROVE  /\ OutputInv'
           /\ chan.events \subseteq chan'.events
           /\ wrShut /\ told = "up" => accepted' = accepted
<1>1. PICK w, r \in Nat : SendMoves(w, r)
  BY SendFacts
<1>2. told' = told /\ (inMap' <=> inMap) /\ (wrShut' <=> wrShut)
  BY Zenon DEF SendInLoop, serverVars
<1>3. ReadableBytes(out') = ReadableBytes(out) + r
  <2>1. CASE r > 0
    BY <1>1, <2>1, AppendBytesGood DEF SendMoves, ConnOK
  <2>2. CASE r = 0
    BY <1>1, <2>2, ReadableNat DEF SendMoves, ConnOK
  <2> QED
    BY <2>1, <2>2
<1>4. /\ chan.events \subseteq chan'.events
      /\ chan.entry = "present" => chan'.entry = "present"
      /\ r > 0 => IsWriting(chan')
      /\ IsWriting(chan) => IsWriting(chan')
      /\ r = 0 => chan' = chan
  <2>1. CASE r > 0 /\ ~IsWriting(chan)
    <3>1. chan' = EnableWriting(chan)
      BY <1>1, <2>1 DEF SendMoves
    <3>2. chan'.entry = "present" /\ chan'.events = chan.events \cup kWriteEvent
      BY <3>1, EnableWritingGood DEF ConnOK
    <3>3. IsWriting(chan')
      BY <3>2 DEF IsWriting, kWriteEvent
    <3> QED
      BY <2>1, <3>2, <3>3
  <2>2. CASE ~(r > 0 /\ ~IsWriting(chan))
    BY <1>1, <2>2 DEF SendMoves
  <2> QED
    BY <2>1, <2>2
<1>5. ReadableBytes(out) \in Nat
  BY ReadableNat DEF ConnOK
<1>6. told = "up" /\ wrShut => w = 0 /\ r = 0
  BY <1>1, <1>5 DEF SendMoves, OutputInv
<1>7. accepted' = sent' + ReadableBytes(out')
  BY <1>1, <1>3, <1>5 DEF SendMoves, OutputInv, ConnOK
<1>8. OutputInv'
  BY <1>2, <1>3, <1>4, <1>5, <1>6, <1>7 DEF OutputInv
<1>9. wrShut /\ told = "up" => accepted' = accepted
  BY <1>1, <1>6 DEF SendMoves, ConnOK
<1> QED
  BY <1>4, <1>8, <1>9

-----------------------------------------------------------------------------
(* The invariant.                                                          *)

LEMMA InitInv == Init => Inv
<1> SUFFICES ASSUME Init PROVE Inv
  OBVIOUS
<1>1. BoolOK /\ ~inMap /\ ~wrShut /\ ~shared /\ serverAlive
  BY Zenon DEF Init, BoolOK
<1>2. /\ state = "none" /\ chan = NewChannel /\ out = NewBuffer /\ callbacks \in CallbackSets
      /\ lpc = "events" /\ todo = <<>> /\ cb = "none" /\ after = "nothing"
      /\ pending = <<>> /\ functors = <<>> /\ done = 0 /\ tpc = [t \in Threads |-> "none"]
      /\ sends = 0 /\ peer = "open" /\ space = SendBufferSize
      /\ accepted = 0 /\ sent = 0 /\ told = "nothing"
  BY DEF Init
<1>3. Good(out) /\ ReadableBytes(out) = 0 /\ GoodChannel(chan)
  BY <1>2, NewBufferGood, NewChannelGood, BufferAssumption DEF NewBuffer, ReadableBytes
<1>4. Fs = {} /\ chan.entry = "none" /\ chan.index = kNew
  BY <1>2, ToSetNone DEF Fs, NewChannel
<1>5. Typed
  BY <1>1, <1>2, <1>3, TcpConnectionAssumption
     DEF Typed, ConnOK, LoopOK, QueueOK, ThreadOK, States
<1>6. NoneInv /\ PhaseInv /\ MapInv /\ OutputInv
  BY <1>1, <1>2, <1>3, <1>4 DEF NoneInv, PhaseInv, MapInv, OutputInv
<1>7. EventsInv /\ EndInv
  BY <1>1, <1>2, <1>4 DEF EventsInv, EndInv, Todos
<1> QED
  BY <1>5, <1>6, <1>7 DEF Inv

\* Whatever happens but newConnection happens after it.
LEMMA Started ==
    ASSUME NoneInv,
           \/ cb # "none" \/ todo # <<>> \/ functors # <<>> \/ state # "none"
           \/ \E t \in Threads : tpc[t] # "none"
    PROVE  state # "none" /\ told # "nothing"
  BY DEF NoneInv

LEMMA TodosTails ==
    ASSUME NEW s \in Todos, s # <<>>
    PROVE  /\ Tail(s) \in Todos /\ Head(s) \in {"error", "read", "write"}
           /\ Tail(s) # <<>> => Head(Tail(s)) \in {"read", "write"}
           /\ Tail(s) # <<>> /\ Head(Tail(s)) = "read" => Head(s) = "error"
<1>1. ASSUME NEW x, s = <<x>> PROVE Head(s) = x /\ Tail(s) = <<>>
  BY <1>1
<1>2. ASSUME NEW x, NEW y, s = <<x, y>> PROVE Head(s) = x /\ Tail(s) = <<y>>
  BY <1>2
<1>3. ASSUME NEW x, NEW y, NEW z, s = <<x, y, z>> PROVE Head(s) = x /\ Tail(s) = <<y, z>>
  BY <1>3
<1>4. \A x : Head(<<x>>) = x
  OBVIOUS
<1>5. \A x, y : Head(<<x, y>>) = x
  OBVIOUS
<1>6. CASE s \in {<<"error">>, <<"read">>, <<"write">>}
  <2>1. Tail(s) = <<>> /\ Head(s) \in {"error", "read", "write"}
    BY <1>1, <1>6
  <2> QED
    BY <2>1 DEF Todos
<1>7. CASE s \in {<<"error", "read">>, <<"error", "write">>}
  <2>1. Tail(s) \in {<<"read">>, <<"write">>} /\ Head(s) = "error"
    BY <1>2, <1>7
  <2>2. Tail(s) \in Todos /\ Head(Tail(s)) \in {"read", "write"}
    BY <1>4, <2>1 DEF Todos
  <2> QED
    BY <2>1, <2>2
<1>8. CASE s = <<"read", "write">>
  <2>1. Tail(s) = <<"write">> /\ Head(s) = "read"
    BY <1>2, <1>8
  <2>2. Tail(s) \in Todos /\ Head(Tail(s)) = "write"
    BY <1>4, <2>1 DEF Todos
  <2> QED
    BY <2>1, <2>2
<1>9. CASE s = <<"error", "read", "write">>
  <2>1. Tail(s) = <<"read", "write">> /\ Head(s) = "error"
    BY <1>3, <1>9
  <2>2. Tail(s) \in Todos /\ Head(Tail(s)) = "read"
    BY <1>5, <2>1 DEF Todos
  <2> QED
    BY <2>1, <2>2
<1> QED
  BY <1>6, <1>7, <1>8, <1>9 DEF Todos

LEMMA ReadDataKeeps == ASSUME Inv, ReadData PROVE Inv'
<1> USE DEF ReadData, Dispatch, Idle, connVars, serverVars, batch, appVars, history
<1>1. /\ BoolOK' /\ (inMap' <=> inMap) /\ (wrShut' <=> wrShut) /\ (shared' <=> shared)
      /\ (serverAlive' <=> serverAlive) /\ (sockErr' <=> sockErr)
  BY Zenon DEF Inv, Typed, BoolOK
<1>2. /\ UNCHANGED <<state, chan, out, callbacks, after, lpc, pending, functors, done, tpc,
                     sends, peer, space, accepted, sent, told>>
      /\ cb = "none" /\ cb' = "message" /\ lpc = "events"
      /\ todo # <<>> /\ Head(todo) = "read" /\ todo' = Tail(todo)
  OBVIOUS
<1> USE DEF Inv
<1>3. state # "none" /\ told # "nothing" /\ Fs' = Fs /\ Unrun' = Unrun
  BY <1>2, Started, QueuesSame
<1>4. Typed'
  BY <1>1, <1>2 DEF Typed, ConnOK, LoopOK, QueueOK, ThreadOK
<1>5. NoneInv' /\ PhaseInv' /\ MapInv' /\ OutputInv'
  BY <1>1, <1>2, <1>3 DEF NoneInv, PhaseInv, MapInv, OutputInv
<1>6. ASSUME ~shared' PROVE EventsInv' /\ EndInv'
  BY <1>1, <1>2, <1>3, <1>6, TodosTails DEF EventsInv, EndInv, PhaseInv
<1> QED
  BY <1>4, <1>5, <1>6

LEMMA ReadErrorKeeps == ASSUME Inv, ReadError PROVE Inv'
<1> USE DEF ReadError, Dispatch, Idle, connVars, serverVars, batch, appVars, history
<1>1. /\ BoolOK' /\ (inMap' <=> inMap) /\ (wrShut' <=> wrShut) /\ (shared' <=> shared)
      /\ (serverAlive' <=> serverAlive)
  BY Zenon DEF Inv, Typed, BoolOK
<1>2. /\ UNCHANGED <<state, chan, out, callbacks, cb, after, lpc, pending, functors, done,
                     tpc, sends, peer, space, accepted, sent, told>>
      /\ cb = "none" /\ lpc = "events"
      /\ todo # <<>> /\ Head(todo) = "read" /\ todo' = Tail(todo)
  OBVIOUS
<1> USE DEF Inv
<1>3. state # "none" /\ told # "nothing" /\ Fs' = Fs /\ Unrun' = Unrun
  BY <1>2, Started, QueuesSame
<1>4. Typed'
  BY <1>1, <1>2 DEF Typed, ConnOK, LoopOK, QueueOK, ThreadOK
<1>5. NoneInv' /\ PhaseInv' /\ MapInv' /\ OutputInv'
  BY <1>1, <1>2, <1>3 DEF NoneInv, PhaseInv, MapInv, OutputInv
<1>6. ASSUME ~shared' PROVE EventsInv' /\ EndInv'
  BY <1>1, <1>2, <1>3, <1>6, TodosTails DEF EventsInv, EndInv, PhaseInv
<1> QED
  BY <1>4, <1>5, <1>6

LEMMA WriteNothingKeeps == ASSUME Inv, WriteNothing PROVE Inv'
<1> USE DEF WriteNothing, Dispatch, Idle, connVars, serverVars, batch, appVars, history
<1>1. BoolOK'
  <2>1. sockErr' \in BOOLEAN
    BY Zenon
  <2> QED
    BY <2>1, Zenon DEF Inv, Typed, BoolOK
<1>2. /\ (inMap' <=> inMap) /\ (wrShut' <=> wrShut) /\ (shared' <=> shared)
      /\ (serverAlive' <=> serverAlive)
  BY Zenon
<1>3. /\ UNCHANGED <<state, chan, out, callbacks, cb, after, lpc, pending, functors, done,
                     tpc, sends, peer, space, accepted, sent, told>>
      /\ cb = "none" /\ lpc = "events"
      /\ todo # <<>> /\ Head(todo) = "write" /\ todo' = Tail(todo)
  OBVIOUS
<1> USE DEF Inv
<1>4. state # "none" /\ told # "nothing" /\ Fs' = Fs /\ Unrun' = Unrun
  BY <1>3, Started, QueuesSame
<1>5. Typed'
  BY <1>1, <1>3 DEF Typed, ConnOK, LoopOK, QueueOK, ThreadOK
<1>6. NoneInv' /\ PhaseInv' /\ MapInv' /\ OutputInv'
  BY <1>2, <1>3, <1>4 DEF NoneInv, PhaseInv, MapInv, OutputInv
<1>7. ASSUME ~shared' PROVE EventsInv' /\ EndInv'
  BY <1>2, <1>3, <1>4, <1>7, TodosTails DEF EventsInv, EndInv, PhaseInv
<1> QED
  BY <1>5, <1>6, <1>7

LEMMA WriteSomeKeeps == ASSUME Inv, WriteSome PROVE Inv'
<1> DEFINE n == Takes(WriteFdLen(out))
<1> USE DEF WriteSome, Dispatch, Idle, serverVars, batch, appVars
<1>1. /\ BoolOK' /\ (inMap' <=> inMap) /\ (wrShut' <=> wrShut) /\ (shared' <=> shared)
      /\ (serverAlive' <=> serverAlive) /\ (sockErr' <=> sockErr)
  BY Zenon DEF Inv, Typed, BoolOK, ShutdownInLoop
<1>2. /\ UNCHANGED <<state, chan, callbacks, cb, after, lpc, functors, done, tpc, sends,
                     peer, accepted, told>>
      /\ cb = "none" /\ lpc = "events"
      /\ todo # <<>> /\ Head(todo) = "write" /\ todo' = Tail(todo)
      /\ IsWriting(chan) /\ ~wrShut
      /\ space' = space - n /\ out' = Retrieve(out, n)
      /\ sent' = sent + (IF n < ReadableBytes(out) THEN n ELSE ReadableBytes(out))
      /\ pending' = pending \/ pending' = Append(pending, <<"writeComplete", 0>>)
  BY DEF Broken
<1> USE DEF Inv
<1>3. n \in Nat /\ n <= space
  <2>1. WriteFdLen(out) \in Nat
    BY BufferAssumption DEF Typed, ConnOK, Good, BufferType, WriteFdLen, WritableBytes
  <2> QED
    BY <2>1, TakesFacts, TcpConnectionAssumption DEF Typed, ConnOK
<1> HIDE DEF n, WriteSome
<1>4. /\ Good(out') /\ ReadableBytes(out) \in Nat
      /\ ReadableBytes(out') = IF n < ReadableBytes(out) THEN ReadableBytes(out) - n ELSE 0
  BY <1>2, <1>3, RetrieveGood, ReadableNat DEF Typed, ConnOK
<1>5. /\ state # "none" /\ told # "nothing" /\ pending' \in Seq(Holding \cup Raw)
      /\ Unrun \subseteq Unrun' /\ Fs' \subseteq Fs \cup {<<"writeComplete", 0>>}
  BY <1>2, Started, QueuesSame, QueueAppend, FunctorIds DEF Typed, QueueOK
<1>6. Typed'
  BY <1>1, <1>2, <1>3, <1>4, <1>5, TcpConnectionAssumption
     DEF Typed, ConnOK, LoopOK, QueueOK, ThreadOK
<1>7. NoneInv' /\ PhaseInv' /\ MapInv'
  BY <1>1, <1>2, <1>5, FunctorIds DEF NoneInv, PhaseInv, MapInv
<1>8. OutputInv'
  <2>1. accepted' = sent' + ReadableBytes(out')
    <3>1. accepted = sent + ReadableBytes(out) /\ sent \in Nat
      BY DEF OutputInv, Typed, ConnOK
    <3> QED
      BY <1>2, <1>3, <1>4, <3>1
  <2> QED
    BY <1>1, <1>2, <2>1 DEF OutputInv
<1>9. ASSUME ~shared' PROVE EventsInv' /\ EndInv'
  BY <1>1, <1>2, <1>5, <1>9, TodosTails, FunctorIds DEF EventsInv, EndInv, PhaseInv
<1> QED
  BY <1>6, <1>7, <1>8, <1>9

\* handleClose, from whichever of the callbacks it is reached.
LEMMA CloseKeeps ==
    ASSUME Inv, NEW callback, Dispatch(callback), HandleClose,
           callback # "write", callback = "read" => ~sockErr
    PROVE  Inv'
<1> USE DEF Dispatch, HandleClose, Idle, serverVars, batch, appVars, kernelVars
<1>1. /\ BoolOK' /\ (inMap' <=> inMap) /\ (wrShut' <=> wrShut) /\ (shared' <=> shared)
      /\ (serverAlive' <=> serverAlive) /\ (sockErr' <=> sockErr)
  BY Zenon DEF Inv, Typed, BoolOK
<1>2. /\ UNCHANGED <<out, callbacks, lpc, pending, functors, done, tpc, sends, peer, space,
                     accepted, sent>>
      /\ cb = "none" /\ cb' = "connection" /\ lpc = "events" /\ after' = "closeCallback"
      /\ todo # <<>> /\ Head(todo) = callback /\ todo' = Tail(todo)
      /\ state' = "kDisconnected" /\ told' = "down" /\ chan' = DisableAll(chan)
  OBVIOUS
<1> USE DEF Inv
<1>3. state # "none" /\ told # "nothing" /\ Fs' = Fs /\ Unrun' = Unrun
  BY <1>2, Started, QueuesSame
<1>4. GoodChannel(chan') /\ (chan.entry = "present" => chan'.entry = "none")
  BY <1>2, DisableAllGood DEF Typed, ConnOK
<1>5. Typed'
  BY <1>1, <1>2, <1>4 DEF Typed, ConnOK, LoopOK, QueueOK, ThreadOK, States
<1>6. NoneInv' /\ PhaseInv' /\ MapInv' /\ OutputInv'
  BY <1>1, <1>2, <1>3 DEF NoneInv, PhaseInv, MapInv, OutputInv
<1>7. ASSUME ~shared' PROVE EventsInv' /\ EndInv'
  <2>1. EventsInv /\ EndInv
    BY <1>1, <1>7
  <2>2. told = "up" /\ inMap /\ serverAlive
    <3>1. Head(todo) \in {"error", "read", "write"}
      BY <1>2, <2>1, TodosTails DEF EventsInv
    <3>2. told \in {"up", "down"}
      BY <1>3 DEF LoopOK, Typed
    <3>3. told = "up"
      BY <1>2, <2>1, <3>1, <3>2 DEF EventsInv
    <3> QED
      BY <1>2, <2>1, <3>3 DEF EventsInv, MapInv
  <2>3. chan'.entry = "none"
    BY <1>4, <2>2 DEF OutputInv
  <2>4. EventsInv'
    BY <1>1, <1>2, <2>1, TodosTails DEF EventsInv
  <2>5. EndInv'
    BY <1>1, <1>2, <1>3, <2>1, <2>2, <2>3 DEF EndInv
  <2> QED
    BY <2>4, <2>5
<1> QED
  BY <1>5, <1>6, <1>7

\* handleEventWithGuard.
LEMMA Joins ==
    ASSUME NEW x, NEW y, NEW z
    PROVE  /\ <<>> \o <<>> = <<>> /\ <<>> \o <<x>> = <<x>>
           /\ <<x>> \o <<>> = <<x>> /\ <<x>> \o <<y>> = <<x, y>>
           /\ <<x, y>> \o <<>> = <<x, y>> /\ <<x, y>> \o <<z>> = <<x, y, z>>
<1> DEFINE U == {x, y, z}
<1>1. <<>> \o <<>> = <<>> /\ <<>> \o <<x>> = <<x>> /\ <<x>> \o <<>> = <<x>>
  OBVIOUS
<1>2. <<x, y>> \o <<>> = <<x, y>>
  OBVIOUS
<1>3. ASSUME NEW s \in Seq(U), NEW t \in Seq(U), Len(s) = Len(t),
             \A i \in 1..Len(s) : s[i] = t[i]
      PROVE  s = t
  BY <1>3
<1>4. <<x>> \o <<y>> = <<x, y>>
  <2>1. /\ <<x>> \o <<y>> \in Seq(U) /\ Len(<<x>> \o <<y>>) = 2
        /\ (<<x>> \o <<y>>)[1] = x /\ (<<x>> \o <<y>>)[2] = y
    OBVIOUS
  <2>2. <<x, y>> \in Seq(U) /\ Len(<<x, y>>) = 2 /\ <<x, y>>[1] = x /\ <<x, y>>[2] = y
    OBVIOUS
  <2>3. ASSUME NEW s \in Seq(U), NEW t \in Seq(U), Len(s) = 2, Len(t) = 2,
               s[1] = t[1], s[2] = t[2]
        PROVE  s = t
    <3>1. \A i \in 1..2 : s[i] = t[i]
      BY <2>3
    <3> QED
      BY <1>3, <2>3, <3>1
  <2> QED
    BY <2>1, <2>2, <2>3, Zenon
<1>5. <<x, y>> \o <<z>> = <<x, y, z>>
  <2>1. /\ <<x, y>> \o <<z>> \in Seq(U) /\ Len(<<x, y>> \o <<z>>) = 3
        /\ (<<x, y>> \o <<z>>)[1] = x /\ (<<x, y>> \o <<z>>)[2] = y
        /\ (<<x, y>> \o <<z>>)[3] = z
    OBVIOUS
  <2>2. /\ <<x, y, z>> \in Seq(U) /\ Len(<<x, y, z>>) = 3
        /\ <<x, y, z>>[1] = x /\ <<x, y, z>>[2] = y /\ <<x, y, z>>[3] = z
    OBVIOUS
  <2>3. ASSUME NEW s \in Seq(U), NEW t \in Seq(U), Len(s) = 3, Len(t) = 3,
               s[1] = t[1], s[2] = t[2], s[3] = t[3]
        PROVE  s = t
    <3>1. \A i \in 1..3 : s[i] = t[i]
      BY <2>3
    <3> QED
      BY <1>3, <2>3, <3>1
  <2> QED
    BY <2>1, <2>2, <2>3, Zenon
<1> QED
  BY <1>1, <1>2, <1>4, <1>5

LEMMA CallbacksType ==
    ASSUME NEW r
    PROVE  Callbacks(r) \in Seq({"close", "error", "read", "write"})
<1> DEFINE E == {"close", "error", "read", "write"}
<1>1. PICK a \in {<<>>, <<"close">>}, b \in {<<>>, <<"error">>}, c \in {<<>>, <<"read">>},
           d \in {<<>>, <<"write">>} : Callbacks(r) = a \o b \o c \o d
  BY Zenon DEF Callbacks
<1>2. /\ <<>> \in Seq(E) /\ <<"close">> \in Seq(E) /\ <<"error">> \in Seq(E)
      /\ <<"read">> \in Seq(E) /\ <<"write">> \in Seq(E)
  OBVIOUS
<1> HIDE DEF E
<1>3. a \in Seq(E) /\ b \in Seq(E) /\ c \in Seq(E) /\ d \in Seq(E)
  BY <1>2
<1>4. a \o b \o c \o d \in Seq(E)
  BY <1>3
<1> QED
  BY <1>1, <1>4 DEF E

\* A hang-up that comes with input is left to handleRead.
LEMMA CallbacksTodos ==
    ASSUME NEW r, "HUP" \in r => "IN" \in r
    PROVE  /\ Callbacks(r) \in Todos
           /\ Callbacks(r) # <<>> /\ Head(Callbacks(r)) = "error" => "ERR" \in r
<1> DEFINE b == IF "ERR" \in r THEN <<"error">> ELSE <<>>
           c == IF "IN"  \in r THEN <<"read">> ELSE <<>>
           d == IF "OUT" \in r THEN <<"write">> ELSE <<>>
           e == b \o c
<1>1. Callbacks(r) = <<>> \o b \o c \o d
  BY DEF Callbacks
<1>2. b \in {<<>>, <<"error">>} /\ c \in {<<>>, <<"read">>} /\ d \in {<<>>, <<"write">>}
  OBVIOUS
<1>3. "ERR" \notin r => b = <<>>
  OBVIOUS
<1> HIDE DEF b, c, d
<1>4. <<>> \o b = b
  BY <1>2
<1>5. ASSUME b = <<>> PROVE e \in {<<>>, <<"read">>}
  BY <1>2, <1>5, Joins, Zenon
<1>6. ASSUME b = <<"error">> PROVE e \in {<<"error">>, <<"error", "read">>}
  BY <1>2, <1>6, Joins, Zenon
<1> HIDE DEF e
<1>7. ASSUME e \in {<<>>, <<"read">>}
      PROVE  e \o d \in {<<>>, <<"read">>, <<"write">>, <<"read", "write">>}
  <2>1. CASE d = <<>>
    BY <1>7, <2>1, Joins, Zenon
  <2>2. CASE d = <<"write">>
    BY <1>7, <2>2, Joins, Zenon
  <2> QED
    BY <1>2, <2>1, <2>2
<1>8. ASSUME e \in {<<"error">>, <<"error", "read">>}
      PROVE  e \o d \in {<<"error">>, <<"error", "read">>, <<"error", "write">>,
                         <<"error", "read", "write">>}
  <2>1. CASE d = <<>>
    BY <1>8, <2>1, Joins, Zenon
  <2>2. CASE d = <<"write">>
    BY <1>8, <2>2, Joins, Zenon
  <2> QED
    BY <1>2, <2>1, <2>2
<1>9. Callbacks(r) = e \o d
  BY <1>1, <1>4, Zenon DEF e
<1>10. \A s \in {<<>>, <<"read">>, <<"write">>, <<"read", "write">>} :
          s # <<>> => Head(s) # "error"
  <2>1. /\ Head(<<"read">>) = "read" /\ Head(<<"write">>) = "write"
        /\ Head(<<"read", "write">>) = "read"
    OBVIOUS
  <2> QED
    BY <2>1
<1> QED
  BY <1>2, <1>3, <1>5, <1>6, <1>7, <1>8, <1>9, <1>10 DEF Todos

\* Nothing has come of a connection that does not exist, and of one that has ended nothing
\* more is reported if no thread revives it.
LEMMA PollKeeps == ASSUME Inv, Poll PROVE Inv'
<1> USE DEF Poll, connVars, serverVars, batch, appVars, kernelVars, history
<1>1. /\ BoolOK' /\ (inMap' <=> inMap) /\ (wrShut' <=> wrShut) /\ (shared' <=> shared)
      /\ (serverAlive' <=> serverAlive) /\ (sockErr' <=> sockErr)
  BY Zenon DEF Inv, Typed, BoolOK
<1> DEFINE reported == Reported(chan, Conditions)
<1>2. /\ UNCHANGED <<state, chan, out, callbacks, cb, after, pending, functors, done, tpc,
                     sends, peer, space, accepted, sent, told>>
      /\ lpc = "poll" /\ lpc' = "events"
      /\ todo' = (IF Alive THEN Callbacks(reported) ELSE <<>>)
  OBVIOUS
<1>3. Fs' = Fs /\ Unrun' = Unrun
  BY <1>2, QueuesSame
<1> USE DEF Inv
<1>4. cb = "none"
  BY <1>2 DEF PhaseInv
<1>5. <<>> \in Seq({"close", "error", "read", "write"})
  OBVIOUS
<1>6. todo' \in Seq({"close", "error", "read", "write"})
  BY <1>2, <1>5, CallbacksType, Zenon
<1>7. Typed'
  BY <1>1, <1>2, <1>6 DEF Typed, ConnOK, LoopOK, QueueOK, ThreadOK
<1>8. state = "none" => todo' = <<>>
  <2> SUFFICES ASSUME state = "none" PROVE reported = {}
    <3>1. Callbacks({}) = <<>>
      BY DEF Callbacks
    <3> QED
      BY <1>2, <3>1
  <2>1. chan.entry = "none"
    BY DEF NoneInv, NewChannel
  <2> QED
    BY <2>1 DEF Reported
<1>9. NoneInv' /\ PhaseInv' /\ MapInv' /\ OutputInv'
  BY <1>1, <1>2, <1>3, <1>8 DEF NoneInv, PhaseInv, MapInv, OutputInv
<1>10. ASSUME ~shared' PROVE EventsInv' /\ EndInv'
  <2>1. EventsInv /\ EndInv
    BY <1>1, <1>10
  <2>2. ASSUME todo' # <<>>
        PROVE  told = "up" /\ inMap /\ "IN" \in chan.interest
    <3>1. state # "none" /\ chan.entry = "present"
      <4>1. Callbacks({}) = <<>>
        BY DEF Callbacks
      <4> QED
        BY <1>2, <1>8, <2>2, <4>1 DEF Reported
    <3>2. chan.interest = chan.events
      BY <3>1 DEF Typed, ConnOK, GoodChannel, InSync
    <3> QED
      BY <2>1, <3>1, <3>2 DEF EndInv, OutputInv, NoneInv, Typed, LoopOK
  <2>3. ASSUME todo' # <<>> PROVE "HUP" \in reported => "IN" \in reported
    BY <2>2, <2>3 DEF Reported, Conditions
  <2>4. "ERR" \in reported => sockErr
    BY DEF Reported, Conditions
  <2>5. EventsInv'
    <3>1. CASE todo' = <<>>
      BY <3>1 DEF EventsInv, Todos
    <3>2. CASE todo' # <<>>
      <4>1. todo' = Callbacks(reported)
        BY <1>2, <3>2
      <4>2. todo' \in Todos /\ (Head(todo') = "error" => sockErr)
        BY <2>3, <2>4, CallbacksTodos, <3>2, <4>1
      <4> QED
        BY <1>1, <1>2, <1>4, <2>2, <3>2, <4>2 DEF EventsInv
    <3> QED
      BY <3>1, <3>2
  <2>6. EndInv'
    BY <1>1, <1>2, <1>3, <2>1 DEF EndInv
  <2> QED
    BY <2>5, <2>6
<1> QED
  BY <1>7, <1>9, <1>10

\* The batch is taken from the queue: what is held and what is to be run stays the same.
LEMMA SwapFunctorsKeeps == ASSUME Inv, SwapFunctors PROVE Inv'
<1> USE DEF SwapFunctors, Idle, connVars, serverVars, appVars, kernelVars, history
<1>1. /\ BoolOK' /\ (inMap' <=> inMap) /\ (wrShut' <=> wrShut) /\ (shared' <=> shared)
      /\ (serverAlive' <=> serverAlive) /\ (sockErr' <=> sockErr)
  BY Zenon DEF Inv, Typed, BoolOK
<1>2. /\ UNCHANGED <<state, chan, out, callbacks, todo, cb, after, done, tpc, sends, peer,
                     space, accepted, sent, told>>
      /\ cb = "none" /\ todo = <<>> /\ lpc = "events" /\ lpc' = "functors"
      /\ functors' = pending /\ pending' = <<>>
  OBVIOUS
<1> USE DEF Inv
<1>3. functors = <<>> /\ done = 0 /\ pending \in Seq(Holding \cup Raw)
  BY <1>2 DEF PhaseInv, Typed, QueueOK
<1>4. Fs' = Fs /\ Unrun' = Unrun
  <2>1. Fs' = ToSet(pending) /\ Fs = ToSet(pending)
    BY <1>2, <1>3, ToSetNone DEF Fs
  <2>2. {pending[i] : i \in {j \in 1..Len(pending) : j > 0}} = ToSet(pending)
    BY <1>3 DEF ToSet
  <2>3. Unrun' = ToSet(pending)
    BY <1>2, <1>3, <2>2, ToSetNone DEF Unrun
  <2>4. Unrun = ToSet(pending)
    BY <1>3 DEF Unrun
  <2> QED
    BY <2>1, <2>3, <2>4
<1>5. Typed'
  BY <1>1, <1>2, <1>3 DEF Typed, ConnOK, LoopOK, QueueOK, ThreadOK
<1>6. NoneInv' /\ PhaseInv' /\ MapInv' /\ OutputInv'
  BY <1>1, <1>2, <1>3, <1>4 DEF NoneInv, PhaseInv, MapInv, OutputInv
<1>7. ASSUME ~shared' PROVE EventsInv' /\ EndInv'
  BY <1>1, <1>2, <1>4, <1>7 DEF EventsInv, EndInv
<1> QED
  BY <1>5, <1>6, <1>7

LEMMA FinishBatchKeeps == ASSUME Inv, FinishBatch PROVE Inv'
<1> USE DEF FinishBatch, Idle, connVars, serverVars, appVars, kernelVars, history
<1>1. /\ BoolOK' /\ (inMap' <=> inMap) /\ (wrShut' <=> wrShut) /\ (shared' <=> shared)
      /\ (serverAlive' <=> serverAlive) /\ (sockErr' <=> sockErr)
  BY Zenon DEF Inv, Typed, BoolOK
<1>2. /\ UNCHANGED <<state, chan, out, callbacks, todo, cb, after, pending, tpc, sends, peer,
                     space, accepted, sent, told>>
      /\ cb = "none" /\ lpc = "functors" /\ lpc' = "poll" /\ done = Len(functors)
      /\ functors' = <<>> /\ done' = 0
  OBVIOUS
<1> USE DEF Inv
<1>3. Fs' \subseteq Fs /\ Unrun' = Unrun
  <2>1. Fs' = ToSet(pending) /\ Unrun' = ToSet(pending)
    BY <1>2, ToSetNone DEF Fs, Unrun
  <2>2. Unrun = ToSet(pending)
    BY <1>2 DEF Unrun, Typed, QueueOK
  <2> QED
    BY <2>1, <2>2 DEF Fs
<1>4. Typed'
  BY <1>1, <1>2 DEF Typed, ConnOK, LoopOK, QueueOK, ThreadOK
<1>5. NoneInv' /\ PhaseInv' /\ MapInv' /\ OutputInv'
  BY <1>1, <1>2, <1>3 DEF NoneInv, PhaseInv, MapInv, OutputInv
<1>6. ASSUME ~shared' PROVE EventsInv' /\ EndInv'
  BY <1>1, <1>2, <1>3, <1>6 DEF EventsInv, EndInv
<1> QED
  BY <1>4, <1>5, <1>6

LEMMA NewConnectionKeeps == ASSUME Inv, NewConnection PROVE Inv'
<1> USE DEF NewConnection, Idle, batch, appVars, kernelVars
<1>1. /\ BoolOK' /\ inMap' /\ (wrShut' <=> wrShut) /\ (shared' <=> shared)
      /\ (serverAlive' <=> serverAlive) /\ serverAlive
  BY Zenon DEF Inv, Typed, BoolOK
<1>2. /\ UNCHANGED <<out, callbacks, todo, after, lpc, pending, functors, done, tpc, sends,
                     peer, space, accepted, sent>>
      /\ state = "none" /\ state' = "kConnected" /\ told' = "up"
      /\ cb = "none" /\ cb' = "connection" /\ lpc = "events" /\ todo = <<>>
      /\ chan' = EnableReading(NewChannel)
  OBVIOUS
<1> USE DEF Inv
<1>3. /\ ReadableBytes(out) = 0 /\ ~wrShut /\ pending = <<>> /\ functors = <<>>
      /\ \A t \in Threads : tpc[t] = "none"
  BY <1>2 DEF NoneInv
<1>4. Fs' = {} /\ Fs = {}
  BY <1>2, <1>3, ToSetNone DEF Fs
<1>5. GoodChannel(chan') /\ chan'.entry = "present" /\ "IN" \in chan'.events
  <2>1. GoodChannel(chan') /\ chan'.entry = "present"
    BY <1>2, NewChannelGood, EnableReadingGood
  <2>2. chan'.events = NewChannel.events \cup kReadEvent
    BY <1>2, NewChannelGood, EnableReadingEvents
  <2> QED
    BY <2>1, <2>2 DEF kReadEvent
<1>6. Typed'
  BY <1>1, <1>2, <1>5 DEF Typed, ConnOK, LoopOK, QueueOK, ThreadOK, States
<1>7. NoneInv' /\ PhaseInv' /\ MapInv'
  BY <1>1, <1>2, <1>3, <1>4 DEF NoneInv, PhaseInv, MapInv
<1>8. OutputInv'
  BY <1>1, <1>2, <1>3, <1>5 DEF OutputInv
<1>9. ASSUME ~shared' PROVE EventsInv' /\ EndInv'
  <2>1. after = "nothing" /\ lpc # "undefined"
    BY <1>2 DEF PhaseInv, Typed, LoopOK
  <2>2. EventsInv'
    BY <1>2 DEF EventsInv, Todos
  <2>3. EndInv'
    BY <1>1, <1>2, <1>3, <1>4, <1>5, <2>1 DEF EndInv
  <2> QED
    BY <2>2, <2>3
<1> QED
  BY <1>6, <1>7, <1>8, <1>9

\* What follows a callback: nothing, the end of connectDestroyed, or removeConnectionInLoop.
LEMMA CallbackReturnsKeeps == ASSUME Inv, CallbackReturns PROVE Inv'
<1> USE DEF CallbackReturns, batch, appVars, kernelVars, history
<1>1. /\ (wrShut' <=> wrShut) /\ (shared' <=> shared) /\ (serverAlive' <=> serverAlive)
      /\ (sockErr' <=> sockErr) /\ (inbox' <=> inbox)
  BY Zenon
<1>2. /\ UNCHANGED <<state, out, callbacks, todo, functors, done, tpc, sends, peer, space,
                     accepted, sent, told>>
      /\ cb # "none" /\ cb' = "none" /\ after' = "nothing"
  OBVIOUS
<1> USE DEF Inv
<1>3. state # "none" /\ told # "nothing"
  BY <1>2, Started
<1>4. CASE after = "nothing"
  <2>1. (inMap' <=> inMap) /\ BoolOK'
    <3>1. "nothing" # "remove" /\ "nothing" # "closeCallback"
      OBVIOUS
    <3>2. inMap' = inMap
      BY <1>4, <3>1, Zenon
    <3> QED
      BY <1>1, <3>2, Zenon DEF Typed, BoolOK
  <2>2. UNCHANGED <<chan, lpc, pending>>
    BY <1>4
  <2>3. Fs' = Fs /\ Unrun' = Unrun
    BY <1>2, <2>2, QueuesSame
  <2>4. Typed'
    BY <1>2, <2>1, <2>2 DEF Typed, ConnOK, LoopOK, QueueOK, ThreadOK
  <2>5. NoneInv' /\ PhaseInv' /\ MapInv' /\ OutputInv'
    BY <1>1, <1>2, <1>3, <2>1, <2>2, <2>3 DEF NoneInv, PhaseInv, MapInv, OutputInv
  <2>6. ASSUME ~shared' PROVE EventsInv' /\ EndInv'
    BY <1>1, <1>2, <1>4, <2>1, <2>2, <2>3, <2>6 DEF EventsInv, EndInv
  <2> QED
    BY <2>4, <2>5, <2>6
<1>5. CASE after = "remove"
  <2>1. (inMap' <=> inMap) /\ BoolOK'
    <3>1. "remove" # "nothing" /\ "remove" # "closeCallback"
      OBVIOUS
    <3>2. inMap' = inMap
      BY <1>5, <3>1, Zenon
    <3> QED
      BY <1>1, <3>2, Zenon DEF Typed, BoolOK
  <2>2. UNCHANGED <<lpc, pending>> /\ chan' = RemoveChannel(chan)
    BY <1>5
  <2>3. Fs' = Fs /\ Unrun' = Unrun
    BY <1>2, <2>2, QueuesSame
  <2>4. told = "down" /\ ~inMap
    BY <1>5 DEF PhaseInv
  <2>5. GoodChannel(chan') /\ chan'.index = kNew /\ chan'.entry = "none"
    BY <2>2, RemoveChannelGood, RemovedEntry DEF Typed, ConnOK
  <2>6. Typed'
    BY <1>2, <2>1, <2>2, <2>5 DEF Typed, ConnOK, LoopOK, QueueOK, ThreadOK
  <2>7. NoneInv' /\ PhaseInv' /\ MapInv' /\ OutputInv'
    BY <1>1, <1>2, <1>3, <2>1, <2>2, <2>3, <2>4 DEF NoneInv, PhaseInv, MapInv, OutputInv
  <2>8. ASSUME ~shared' PROVE EventsInv' /\ EndInv'
    BY <1>1, <1>2, <1>5, <2>1, <2>2, <2>3, <2>4, <2>5, <2>8 DEF EventsInv, EndInv
  <2> QED
    BY <2>6, <2>7, <2>8
<1>6. CASE after = "closeCallback"
  <2>1. ~inMap' /\ BoolOK'
    <3>1. "closeCallback" # "nothing" /\ "closeCallback" # "remove"
      OBVIOUS
    <3>2. inMap' = FALSE
      BY <1>6, <3>1, Zenon
    <3> QED
      BY <1>1, <3>2, Zenon DEF Typed, BoolOK
  <2>2. UNCHANGED chan /\ pending' = Append(pending, Destroys)
    BY <1>6 DEF Destroys
  <2>3. lpc' \in {lpc, "undefined"} /\ (serverAlive => lpc' = lpc)
    BY <1>6
  <2>4. /\ pending' \in Seq(Holding \cup Raw)
        /\ Fs' = Fs \cup {Destroys} /\ Unrun' = Unrun \cup {Destroys}
    BY <1>2, <2>2, QueueAppend, FunctorIds DEF Typed, QueueOK
  <2>5. told = "down"
    BY <1>6 DEF PhaseInv
  <2>6. Typed'
    BY <1>2, <2>1, <2>2, <2>3, <2>4 DEF Typed, ConnOK, LoopOK, QueueOK, ThreadOK
  <2>7. NoneInv' /\ PhaseInv' /\ MapInv' /\ OutputInv'
    BY <1>1, <1>2, <1>3, <2>1, <2>2, <2>3, <2>4, <2>5 DEF NoneInv, PhaseInv, MapInv, OutputInv
  <2>8. ASSUME ~shared' PROVE EventsInv' /\ EndInv'
    BY <1>1, <1>2, <1>6, <2>1, <2>2, <2>3, <2>4, <2>5, <2>8, FunctorIds DEF EventsInv, EndInv
  <2> QED
    BY <2>6, <2>7, <2>8
<1> QED
  BY <1>4, <1>5, <1>6 DEF Typed, LoopOK

\* connectDestroyed by its functor: the application knows already, unless a thread's
\* shutdown() has changed state_ since.
LEMMA RunConnectDestroyedKeeps == ASSUME Inv, RunConnectDestroyed PROVE Inv'
<1> USE DEF RunConnectDestroyed, Runs, Idle, serverVars, appVars, kernelVars
<1>1. /\ BoolOK' /\ (inMap' <=> inMap) /\ (wrShut' <=> wrShut) /\ (shared' <=> shared)
      /\ (serverAlive' <=> serverAlive) /\ (sockErr' <=> sockErr)
  BY Zenon DEF Inv, Typed, BoolOK
<1>2. /\ UNCHANGED <<out, callbacks, lpc, todo, pending, functors, tpc, sends, peer, space,
                     accepted, sent>>
      /\ cb = "none" /\ lpc = "functors" /\ Runs(Destroys) /\ ConnectDestroyed
  BY DEF Destroys
<1> HIDE DEF RunConnectDestroyed, Runs
<1> USE DEF Inv
<1>3. /\ Destroys \in Fs /\ functors # <<>> /\ done' \in 0..Len(functors)
      /\ Fs' = Fs /\ Unrun \subseteq Unrun' \cup {Destroys}
  BY <1>2, QueueRun DEF Typed, QueueOK
<1>4. state # "none" /\ told = "down" /\ ~inMap
  BY <1>3, Started DEF MapInv
<1>5. /\ GoodChannel(chan') /\ told' = "down" /\ state' \in {state, "kDisconnected"}
      /\ \/ cb' = "connection" /\ after' = "remove" /\ state = "kConnected"
         \/ cb' = cb /\ after' = after /\ chan'.index = kNew /\ state' = state
  BY <1>2, <1>4, DisableAllGood, RemoveChannelGood DEF ConnectDestroyed, Typed, ConnOK
<1>6. Typed'
  BY <1>1, <1>2, <1>3, <1>5 DEF Typed, ConnOK, LoopOK, QueueOK, ThreadOK, States
<1>7. NoneInv' /\ PhaseInv' /\ MapInv' /\ OutputInv'
  BY <1>1, <1>2, <1>3, <1>4, <1>5 DEF NoneInv, PhaseInv, MapInv, OutputInv
<1>8. ASSUME ~shared' PROVE EventsInv' /\ EndInv'
  <2>1. EventsInv /\ EndInv
    BY <1>1, <1>8
  <2>2. state = "kDisconnected" /\ todo = <<>>
    BY <1>2, <1>4, <2>1 DEF EventsInv, EndInv
  <2>3. chan'.index = kNew /\ chan'.entry = "none"
    BY <1>5, <2>2, RemovedEntry
  <2> QED
    BY <1>1, <1>2, <1>3, <1>4, <1>5, <2>1, <2>2, <2>3 DEF EventsInv, EndInv
<1> QED
  BY <1>6, <1>7, <1>8

\* The functors that call the application.
LEMMA RunCallbackKeeps ==
    ASSUME Inv, RunWriteComplete \/ RunHighWaterMark
    PROVE  Inv'
<1>1. PICK f \in {<<"writeComplete", 0>>, <<"highWaterMark", 0>>} :
         Runs(f) /\ UNCHANGED <<connVars, serverVars, after, pending, kernelVars, history>>
  BY Zenon DEF RunWriteComplete, RunHighWaterMark
<1>2. /\ BoolOK' /\ (inMap' <=> inMap) /\ (wrShut' <=> wrShut) /\ (shared' <=> shared)
      /\ (serverAlive' <=> serverAlive) /\ (sockErr' <=> sockErr)
  <2>1. UNCHANGED appVars
    BY <1>1, Zenon DEF Runs
  <2> QED
    BY <1>1, <2>1, Zenon DEF Inv, Typed, BoolOK, serverVars, appVars, kernelVars, history
<1> USE DEF RunWriteComplete, RunHighWaterMark, Runs, Idle, connVars, serverVars, appVars,
            kernelVars, history
<1>3. /\ UNCHANGED <<state, chan, out, callbacks, todo, after, pending, functors, tpc, sends,
                     peer, space, accepted, sent, told>>
      /\ cb = "none" /\ lpc = "functors" /\ lpc' \in {lpc, "terminated"}
      /\ cb' \in {"none", "writeComplete", "highWaterMark"} /\ (cb' # "none" => lpc' = lpc)
  BY <1>1
<1> HIDE DEF RunWriteComplete, RunHighWaterMark, Runs
<1> USE DEF Inv
<1>4. /\ functors # <<>> /\ done' \in 0..Len(functors)
      /\ Fs' = Fs /\ Unrun \subseteq Unrun' \cup {f}
  BY <1>1, <1>3, QueueRun DEF Typed, QueueOK
<1>5. state # "none" /\ told # "nothing" /\ f # Destroys
  BY <1>4, Started, FunctorIds
<1>6. Typed'
  BY <1>2, <1>3, <1>4 DEF Typed, ConnOK, LoopOK, QueueOK, ThreadOK
<1>7. NoneInv' /\ PhaseInv' /\ MapInv' /\ OutputInv'
  BY <1>2, <1>3, <1>4, <1>5 DEF NoneInv, PhaseInv, MapInv, OutputInv
<1>8. ASSUME ~shared' PROVE EventsInv' /\ EndInv'
  BY <1>2, <1>3, <1>4, <1>5, <1>8 DEF EventsInv, EndInv
<1> QED
  BY <1>6, <1>7, <1>8

\* Functors bound to `this' are those of a thread.
LEMMA RawMeansShared ==
    ASSUME Inv, NEW f \in Raw, Runs(f)
    PROVE  /\ shared /\ functors # <<>> /\ done' \in 0..Len(functors)
           /\ pending' = pending => Fs' = Fs
<1> USE DEF Inv
<1>1. /\ f \in Fs /\ functors # <<>> /\ done' \in 0..Len(functors)
      /\ pending' = pending => Fs' = Fs
  BY QueueRun DEF Typed, QueueOK
<1> QED
  BY <1>1 DEF EndInv

LEMMA RunSendInLoopKeeps ==
    ASSUME Inv, NEW len \in Lens, RunSendInLoop(len)
    PROVE  Inv'
<1> USE DEF RunSendInLoop, Runs, Idle, connVars, serverVars, appVars, kernelVars, history
<1>1. (shared' <=> shared)
  BY Zenon
<1>2. /\ UNCHANGED <<lpc, todo, cb, after, functors, tpc, sends>>
      /\ cb = "none" /\ lpc = "functors" /\ Runs(<<"sendInLoop", len>>)
  OBVIOUS
<1>3. CASE state = "kDisconnected"
  <2>1. /\ BoolOK' /\ (inMap' <=> inMap) /\ (wrShut' <=> wrShut)
        /\ (serverAlive' <=> serverAlive)
    BY <1>3, Zenon DEF Inv, Typed, BoolOK
  <2>2. UNCHANGED <<state, chan, out, callbacks, pending, peer, space, accepted, sent, told>>
    BY <1>3
  <2> HIDE DEF RunSendInLoop, Runs
  <2> USE DEF Inv
  <2>3. shared /\ functors # <<>> /\ done' \in 0..Len(functors) /\ Fs' = Fs
    BY <1>2, <2>2, RawMeansShared, FunctorIds
  <2>4. state # "none" /\ told # "nothing"
    BY <2>3, Started
  <2>5. Typed'
    BY <1>2, <2>1, <2>2, <2>3 DEF Typed, ConnOK, LoopOK, QueueOK, ThreadOK
  <2>6. NoneInv' /\ PhaseInv' /\ MapInv' /\ OutputInv'
    BY <1>2, <2>1, <2>2, <2>3, <2>4 DEF NoneInv, PhaseInv, MapInv, OutputInv
  <2> QED
    BY <1>1, <2>3, <2>5, <2>6
<1>4. CASE state # "kDisconnected"
  <2>1. SendInLoop(len, pending)
    BY <1>4, Zenon
  <2>2. /\ BoolOK' /\ (inMap' <=> inMap) /\ (wrShut' <=> wrShut)
        /\ (serverAlive' <=> serverAlive)
    BY <1>1, <2>1, Zenon DEF Inv, Typed, BoolOK, SendInLoop
  <2> HIDE DEF RunSendInLoop, Runs
  <2> USE DEF Inv
  <2>3. shared /\ functors # <<>> /\ done' \in 0..Len(functors)
    BY <1>2, RawMeansShared, FunctorIds
  <2>4. /\ pending' \in Seq(Holding \cup Raw) /\ UNCHANGED <<state, callbacks, peer, told>>
        /\ Fs' \subseteq Fs \cup {<<"writeComplete", 0>>, <<"highWaterMark", 0>>}
    BY <1>2, <2>1, SendQueues DEF Typed
  <2>5. ConnOK' /\ OutputInv'
    BY <2>1, <2>4, SendConn, SendOutput DEF Typed
  <2>6. state # "none" /\ told # "nothing"
    BY <2>3, Started
  <2>7. Typed'
    BY <1>2, <2>2, <2>3, <2>4, <2>5 DEF Typed, LoopOK, QueueOK, ThreadOK
  <2>8. NoneInv' /\ PhaseInv' /\ MapInv'
    BY <1>2, <2>2, <2>3, <2>4, <2>6, FunctorIds DEF NoneInv, PhaseInv, MapInv
  <2> QED
    BY <1>1, <2>3, <2>5, <2>7, <2>8
<1> QED
  BY <1>3, <1>4

LEMMA RunShutdownInLoopKeeps == ASSUME Inv, RunShutdownInLoop PROVE Inv'
<1> USE DEF RunShutdownInLoop, Runs, Idle, ShutdownInLoop, connVars, serverVars, appVars, history
<1>1. /\ BoolOK' /\ (inMap' <=> inMap) /\ (shared' <=> shared)
      /\ (serverAlive' <=> serverAlive) /\ (wrShut' <=> (wrShut \/ ~IsWriting(chan)))
  BY Zenon DEF Inv, Typed, BoolOK
<1>2. /\ UNCHANGED <<state, chan, out, callbacks, lpc, todo, cb, after, pending, functors,
                     tpc, sends, peer, space, accepted, sent, told>>
      /\ cb = "none" /\ lpc = "functors" /\ Runs(<<"shutdownInLoop", 0>>)
  OBVIOUS
<1> HIDE DEF RunShutdownInLoop, Runs, ShutdownInLoop
<1> USE DEF Inv
<1>3. shared /\ functors # <<>> /\ done' \in 0..Len(functors) /\ Fs' = Fs
  BY <1>2, RawMeansShared, FunctorIds
<1>4. state # "none" /\ told # "nothing"
  BY <1>3, Started
<1>5. Typed'
  BY <1>1, <1>2, <1>3 DEF Typed, ConnOK, LoopOK, QueueOK, ThreadOK
<1>6. NoneInv' /\ PhaseInv' /\ MapInv' /\ OutputInv'
  BY <1>1, <1>2, <1>3, <1>4 DEF NoneInv, PhaseInv, MapInv, OutputInv
<1> QED
  BY <1>1, <1>3, <1>5, <1>6

LEMMA RunDanglingKeeps == ASSUME Inv, RunDangling PROVE Inv'
<1>0. (shared' <=> shared)
  <2>1. PICK f : Runs(f)
    BY Zenon DEF RunDangling
  <2> QED
    BY <2>1, Zenon DEF Runs, appVars
<1> USE DEF RunDangling, Runs, Idle, connVars, serverVars, appVars, kernelVars, history
<1>1. /\ BoolOK' /\ (inMap' <=> inMap) /\ (shared' <=> shared)
      /\ (serverAlive' <=> serverAlive) /\ (wrShut' <=> wrShut)
  BY <1>0, Zenon DEF Inv, Typed, BoolOK
<1>2. /\ UNCHANGED <<state, chan, out, callbacks, todo, cb, after, pending, functors,
                     tpc, sends, peer, space, accepted, sent, told>>
      /\ cb = "none" /\ lpc' = "undefined" /\ \E f \in Raw : Runs(f)
  OBVIOUS
<1> HIDE DEF RunDangling, Runs
<1> USE DEF Inv
<1>3. shared /\ functors # <<>> /\ done' \in 0..Len(functors) /\ Fs' = Fs
  BY <1>2, RawMeansShared
<1>4. state # "none" /\ told # "nothing"
  BY <1>3, Started
<1>5. Typed'
  BY <1>1, <1>2, <1>3 DEF Typed, ConnOK, LoopOK, QueueOK, ThreadOK
<1>6. NoneInv' /\ PhaseInv' /\ MapInv' /\ OutputInv'
  BY <1>1, <1>2, <1>3, <1>4 DEF NoneInv, PhaseInv, MapInv, OutputInv
<1> QED
  BY <1>1, <1>3, <1>5, <1>6

\* ~TcpServer runs connectDestroyed at once: the end of a connection that is kConnected is
\* told, another one is only removed.
LEMMA DestroyServerKeeps == ASSUME Inv, DestroyServer PROVE Inv'
<1> USE DEF DestroyServer, Idle, batch, appVars, kernelVars
<1>1. /\ BoolOK' /\ ~inMap' /\ ~serverAlive' /\ (wrShut' <=> wrShut) /\ (shared' <=> shared)
      /\ (sockErr' <=> sockErr)
  BY Zenon DEF Inv, Typed, BoolOK
<1>2. /\ UNCHANGED <<out, callbacks, lpc, todo, pending, functors, done, tpc, sends, peer,
                     space, accepted, sent>>
      /\ cb = "none" /\ lpc = "functors"
  OBVIOUS
<1>3. \/ inMap /\ ConnectDestroyed
      \/ ~inMap /\ UNCHANGED <<state, chan, cb, told, after>>
  OBVIOUS
<1> HIDE DEF DestroyServer
<1> USE DEF Inv
<1>4. Fs' = Fs /\ Unrun' = Unrun /\ after = "nothing"
  BY <1>2, QueuesSame DEF PhaseInv
<1>5. CASE inMap /\ state = "kConnected"
  <2>1. /\ state' = "kDisconnected" /\ chan' = DisableAll(chan) /\ cb' = "connection"
        /\ told' = "down" /\ after' = "remove"
    BY <1>3, <1>5 DEF ConnectDestroyed
  <2>2. GoodChannel(chan') /\ (chan.entry = "present" => chan'.entry = "none")
    BY <2>1, DisableAllGood DEF Typed, ConnOK
  <2>3. Typed'
    BY <1>1, <1>2, <2>1, <2>2 DEF Typed, ConnOK, LoopOK, QueueOK, ThreadOK, States
  <2>4. NoneInv' /\ PhaseInv' /\ MapInv' /\ OutputInv'
    BY <1>1, <1>2, <1>4, <2>1 DEF NoneInv, PhaseInv, MapInv, OutputInv
  <2>5. ASSUME ~shared' PROVE EventsInv' /\ EndInv'
    <3>1. EventsInv /\ EndInv
      BY <1>1, <2>5
    <3>2. told = "up"
      BY <1>5, <3>1 DEF EndInv, NoneInv, Typed, LoopOK
    <3>3. chan'.entry = "none"
      BY <1>5, <2>2, <3>2 DEF OutputInv
    <3> QED
      BY <1>1, <1>2, <1>4, <2>1, <3>1, <3>3 DEF EventsInv, EndInv
  <2> QED
    BY <2>3, <2>4, <2>5
<1>6. CASE inMap /\ state # "kConnected"
  <2>1. UNCHANGED <<state, cb, told, after>> /\ chan' = RemoveChannel(chan)
    BY <1>3, <1>6 DEF ConnectDestroyed
  <2>2. /\ GoodChannel(chan') /\ chan'.index = kNew /\ chan'.entry = "none"
        /\ chan'.events = chan.events
    BY <2>1, RemoveChannelGood, RemoveChannelEvents, RemovedEntry DEF Typed, ConnOK
  <2>3. IsWriting(chan') <=> IsWriting(chan)
    BY <2>2 DEF IsWriting
  <2>4. state # "none" /\ told # "nothing"
    BY <1>6 DEF NoneInv
  <2>5. Typed'
    BY <1>1, <1>2, <2>1, <2>2 DEF Typed, ConnOK, LoopOK, QueueOK, ThreadOK, States
  <2>6. NoneInv' /\ PhaseInv' /\ MapInv' /\ OutputInv'
    BY <1>1, <1>2, <1>4, <2>1, <2>2, <2>3, <2>4 DEF NoneInv, PhaseInv, MapInv, OutputInv
  <2>7. ASSUME ~shared' PROVE EventsInv' /\ EndInv'
    BY <1>1, <1>2, <1>4, <1>6, <2>1, <2>2, <2>7 DEF EventsInv, EndInv
  <2> QED
    BY <2>5, <2>6, <2>7
<1>7. CASE ~inMap
  <2>1. UNCHANGED <<state, chan, cb, told, after>>
    BY <1>3, <1>7
  <2>2. Typed'
    BY <1>1, <1>2, <2>1 DEF Typed, ConnOK, LoopOK, QueueOK, ThreadOK, States
  <2>3. NoneInv' /\ PhaseInv' /\ MapInv' /\ OutputInv'
    BY <1>1, <1>2, <1>4, <1>7, <2>1 DEF NoneInv, PhaseInv, MapInv, OutputInv
  <2>4. ASSUME ~shared' PROVE EventsInv' /\ EndInv'
    BY <1>1, <1>2, <1>4, <1>7, <2>1, <2>4 DEF EventsInv, EndInv
  <2> QED
    BY <2>2, <2>3, <2>4
<1> QED
  BY <1>5, <1>6, <1>7

LEMMA SendKeeps == ASSUME Inv, NEW len \in Lens, Send(len) PROVE Inv'
<1> USE DEF Send, batch
<1>1. /\ BoolOK' /\ (inMap' <=> inMap) /\ (wrShut' <=> wrShut) /\ (shared' <=> shared)
      /\ (serverAlive' <=> serverAlive)
  BY Zenon DEF Inv, Typed, BoolOK, SendInLoop, serverVars
<1>2. /\ UNCHANGED <<lpc, todo, cb, after, functors, done, tpc>>
      /\ cb # "none" /\ state = "kConnected" /\ sends < MaxSends /\ sends' = sends + 1
      /\ SendInLoop(len, pending)
  OBVIOUS
<1> HIDE DEF Send
<1> USE DEF Inv
<1>3. /\ pending' \in Seq(Holding \cup Raw) /\ UNCHANGED <<state, callbacks, peer, told>>
      /\ Fs' \subseteq Fs \cup {<<"writeComplete", 0>>, <<"highWaterMark", 0>>}
      /\ Unrun \subseteq Unrun'
  BY <1>2, SendQueues DEF Typed
<1>4. ConnOK' /\ OutputInv' /\ chan.events \subseteq chan'.events
  BY <1>2, <1>3, SendConn, SendOutput DEF Typed
<1>5. state # "none" /\ told # "nothing"
  BY <1>2, Started
<1>6. Typed'
  BY <1>1, <1>2, <1>3, <1>4, TcpConnectionAssumption DEF Typed, LoopOK, QueueOK, ThreadOK
<1>7. NoneInv' /\ PhaseInv' /\ MapInv'
  BY <1>1, <1>2, <1>3, <1>5, FunctorIds DEF NoneInv, PhaseInv, MapInv
<1>8. ASSUME ~shared' PROVE EventsInv' /\ EndInv'
  <2>1. EventsInv /\ EndInv
    BY <1>1, <1>8
  <2>2. told # "down" /\ inMap
    BY <1>2, <2>1 DEF EndInv
  <2> QED
    BY <1>1, <1>2, <1>3, <1>4, <2>1, <2>2, FunctorIds DEF EventsInv, EndInv
<1> QED
  BY <1>4, <1>6, <1>7, <1>8

LEMMA ShutdownKeeps == ASSUME Inv, Shutdown PROVE Inv'
<1> USE DEF Shutdown, ShutdownInLoop, serverVars, loopVars, appVars, history
<1>1. /\ BoolOK' /\ (inMap' <=> inMap) /\ (shared' <=> shared) /\ (sockErr' <=> sockErr)
      /\ (serverAlive' <=> serverAlive) /\ (wrShut' <=> (wrShut \/ ~IsWriting(chan)))
  BY Zenon DEF Inv, Typed, BoolOK
<1>2. /\ UNCHANGED <<chan, out, callbacks, lpc, todo, cb, after, pending, functors, done,
                     tpc, sends, peer, space, accepted, sent, told>>
      /\ cb # "none" /\ state = "kConnected" /\ state' = "kDisconnecting"
  OBVIOUS
<1> HIDE DEF Shutdown, ShutdownInLoop
<1> USE DEF Inv
<1>3. told # "nothing" /\ Fs' = Fs /\ Unrun' = Unrun
  BY <1>2, Started, QueuesSame
<1>4. Typed'
  BY <1>1, <1>2 DEF Typed, ConnOK, LoopOK, QueueOK, ThreadOK, States
<1>5. NoneInv' /\ PhaseInv' /\ MapInv' /\ OutputInv'
  BY <1>1, <1>2, <1>3 DEF NoneInv, PhaseInv, MapInv, OutputInv
<1>6. ASSUME ~shared' PROVE EventsInv' /\ EndInv'
  BY <1>1, <1>2, <1>3, <1>6 DEF EventsInv, EndInv
<1> QED
  BY <1>4, <1>5, <1>6

LEMMA GivePointerKeeps == ASSUME Inv, NEW t \in Threads, GivePointer(t) PROVE Inv'
<1> USE DEF GivePointer, connVars, serverVars, loopVars, kernelVars, history
<1>1. /\ BoolOK' /\ (inMap' <=> inMap) /\ shared' /\ (wrShut' <=> wrShut)
      /\ (serverAlive' <=> serverAlive)
  BY Zenon DEF Inv, Typed, BoolOK
<1>2. /\ UNCHANGED <<state, chan, out, callbacks, lpc, todo, cb, after, pending, functors,
                     done, sends, peer, space, accepted, sent, told>>
      /\ cb # "none" /\ tpc' = [tpc EXCEPT ![t] = "holds"]
  OBVIOUS
<1> HIDE DEF GivePointer
<1> USE DEF Inv
<1>3. state # "none" /\ told # "nothing" /\ Fs' = Fs
  BY <1>2, Started, QueuesSame
<1>4. Typed'
  BY <1>1, <1>2 DEF Typed, ConnOK, LoopOK, QueueOK, ThreadOK
<1>5. NoneInv' /\ PhaseInv' /\ MapInv' /\ OutputInv'
  BY <1>1, <1>2, <1>3 DEF NoneInv, PhaseInv, MapInv, OutputInv
<1> QED
  BY <1>1, <1>4, <1>5

\* A thread changes state_ to kDisconnecting at most, and queues functors bound to `this'.
LEMMA ThreadKeeps == ASSUME Inv, NEW t \in Threads, ThreadStep(t) PROVE Inv'
<1>1. /\ UNCHANGED <<serverVars, shared, kernelVars, history, chan, out, lpc, todo, cb, after,
                     functors, done>>
      /\ state' \in {state, "kDisconnecting"}
      /\ tpc[t] # "none"
      /\ \E to \in {"none", "holds", "sending", "shutting", "shut"} : tpc' = [tpc EXCEPT ![t] = to]
      /\ sends' = sends \/ (sends < MaxSends /\ sends' = sends + 1)
      /\ pending' = pending \/ \E f \in Raw : pending' = Append(pending, f)
  <2>1. CASE ThreadDrops(t) \/ \E to \in {"sending", "shutting"} : ThreadChecks(t, to)
    BY <2>1 DEF ThreadDrops, ThreadChecks, ThreadMoves, connVars, loopVars
  <2>2. CASE ThreadSetsState(t)
    BY <2>2 DEF ThreadSetsState, ThreadMoves, loopVars
  <2>3. CASE ThreadShuts(t)
    BY <2>3, FunctorIds DEF ThreadShuts, ThreadMoves, connVars, batch
  <2>4. CASE \E n \in Lens : ThreadSends(t, n)
    BY <2>4, FunctorIds DEF ThreadSends, ThreadMoves, connVars, batch
  <2> QED
    BY <2>1, <2>2, <2>3, <2>4 DEF ThreadStep
<1>2. /\ BoolOK' /\ (inMap' <=> inMap) /\ (shared' <=> shared) /\ (wrShut' <=> wrShut)
      /\ (serverAlive' <=> serverAlive)
  BY <1>1, Zenon DEF Inv, Typed, BoolOK, serverVars, kernelVars, history
<1> USE DEF Inv, serverVars, kernelVars, history
<1>3. /\ pending' \in Seq(Holding \cup Raw) /\ (Destroys \in Fs' => Destroys \in Fs)
  <2>1. CASE pending' = pending
    BY <1>1, <2>1, QueuesSame DEF Typed, QueueOK
  <2>2. ASSUME NEW f \in Raw, pending' = Append(pending, f)
        PROVE  /\ pending' \in Seq(Holding \cup Raw) /\ (Destroys \in Fs' => Destroys \in Fs)
    <3>1. pending' \in Seq(Holding \cup Raw) /\ Fs' = Fs \cup {f}
      BY <1>1, <2>2, QueueAppend DEF Typed, QueueOK
    <3> QED
      BY <3>1, FunctorIds
  <2> QED
    BY <1>1, <2>1, <2>2
<1>4. state # "none" /\ told # "nothing"
  BY <1>1, Started
<1>5. shared'
  BY <1>1, <1>2 DEF EndInv
<1>6. Typed'
  BY <1>1, <1>2, <1>3, TcpConnectionAssumption
     DEF Typed, ConnOK, LoopOK, QueueOK, ThreadOK, States
<1>7. NoneInv' /\ PhaseInv' /\ MapInv' /\ OutputInv'
  BY <1>1, <1>2, <1>3, <1>4 DEF NoneInv, PhaseInv, MapInv, OutputInv
<1> QED
  BY <1>5, <1>6, <1>7

LEMMA PeerKeeps == ASSUME Inv, PeerStep PROVE Inv'
<1> USE DEF PeerUnchanged, connVars, serverVars, loopVars, appVars, history
<1>1. PeerUnchanged /\ SocketOpen
  BY Zenon DEF PeerStep, PeerSends, PeerReads, PeerCloses, PeerResets
<1>2. BoolOK' /\ (sockErr => sockErr')
  <2>1. inbox' \in BOOLEAN /\ sockErr' \in BOOLEAN /\ (sockErr => sockErr')
    BY Zenon DEF PeerStep, PeerSends, PeerReads, PeerCloses, PeerResets, Inv, Typed, BoolOK
  <2> QED
    BY <1>1, <2>1, Zenon DEF Inv, Typed, BoolOK
<1>3. /\ (inMap' <=> inMap) /\ (shared' <=> shared) /\ (wrShut' <=> wrShut)
      /\ (serverAlive' <=> serverAlive)
  BY <1>1, Zenon
<1>4. UNCHANGED <<state, chan, out, callbacks, lpc, todo, cb, after, pending, functors, done,
                  tpc, sends, accepted, sent, told>>
  BY <1>1
<1>5. /\ peer' \in {peer, "closed", "reset"} /\ space' \in {space, SendBufferSize}
  BY DEF PeerStep, PeerSends, PeerReads, PeerCloses, PeerResets
<1> USE DEF Inv
<1>6. Fs' = Fs /\ Unrun' = Unrun
  BY <1>4, QueuesSame
<1>7. Typed'
  BY <1>2, <1>4, <1>5, TcpConnectionAssumption DEF Typed, ConnOK, LoopOK, QueueOK, ThreadOK
<1>8. NoneInv' /\ PhaseInv' /\ MapInv' /\ OutputInv'
  BY <1>3, <1>4, <1>6 DEF NoneInv, PhaseInv, MapInv, OutputInv
<1>9. ASSUME ~shared' PROVE EventsInv' /\ EndInv'
  BY <1>2, <1>3, <1>4, <1>6, <1>9 DEF EventsInv, EndInv
<1> QED
  BY <1>7, <1>8, <1>9

LEMMA StutterKeeps == ASSUME Inv, UNCHANGED vars PROVE Inv'
<1>1. /\ BoolOK' /\ (inMap' <=> inMap) /\ (wrShut' <=> wrShut) /\ (shared' <=> shared)
      /\ (serverAlive' <=> serverAlive) /\ (sockErr' <=> sockErr)
  BY Zenon DEF Inv, Typed, BoolOK, vars, connVars, serverVars, loopVars, appVars, kernelVars,
               history
<1>2. UNCHANGED <<state, chan, out, callbacks, lpc, todo, cb, after, pending, functors, done,
                  tpc, sends, peer, space, accepted, sent, told>>
  BY DEF vars, connVars, serverVars, loopVars, appVars, kernelVars, history
<1> USE DEF Inv
<1>3. Fs' = Fs /\ Unrun' = Unrun
  BY <1>2, QueuesSame
<1>4. Typed'
  BY <1>1, <1>2 DEF Typed, ConnOK, LoopOK, QueueOK, ThreadOK
<1>5. NoneInv' /\ PhaseInv' /\ MapInv' /\ OutputInv'
  BY <1>1, <1>2, <1>3 DEF NoneInv, PhaseInv, MapInv, OutputInv
<1>6. ASSUME ~shared' PROVE EventsInv' /\ EndInv'
  BY <1>1, <1>2, <1>3, <1>6 DEF EventsInv, EndInv
<1> QED
  BY <1>4, <1>5, <1>6

LEMMA NextInv == Inv /\ [Next]_vars => Inv'
<1> SUFFICES ASSUME Inv, [Next]_vars PROVE Inv'
  OBVIOUS
<1>1. CASE NewConnection
  BY <1>1, NewConnectionKeeps
<1>2. CASE LoopStep
  <2>1. CASE CloseEvent
    <3>1. PICK callback \in {"close", "error"} : Dispatch(callback) /\ HandleClose
      BY <2>1 DEF CloseEvent
    <3> QED
      BY <3>1, CloseKeeps
  <2>2. CASE ReadEof
    BY <2>2, CloseKeeps DEF ReadEof
  <2>3. CASE Poll
    BY <2>3, PollKeeps
  <2>4. CASE ReadData \/ ReadError
    BY <2>4, ReadDataKeeps, ReadErrorKeeps
  <2>5. CASE WriteSome \/ WriteNothing
    BY <2>5, WriteSomeKeeps, WriteNothingKeeps
  <2>6. CASE SwapFunctors \/ FinishBatch
    BY <2>6, SwapFunctorsKeeps, FinishBatchKeeps
  <2>7. CASE CallbackReturns
    BY <2>7, CallbackReturnsKeeps
  <2>8. CASE RunConnectDestroyed \/ RunWriteComplete \/ RunHighWaterMark
    BY <2>8, RunConnectDestroyedKeeps, RunCallbackKeeps
  <2>9. CASE RunShutdownInLoop \/ RunDangling \/ \E n \in Lens : RunSendInLoop(n)
    BY <2>9, RunShutdownInLoopKeeps, RunDanglingKeeps, RunSendInLoopKeeps
  <2> QED
    BY <1>2, <2>1, <2>2, <2>3, <2>4, <2>5, <2>6, <2>7, <2>8, <2>9 DEF LoopStep
<1>3. CASE DestroyServer
  BY <1>3, DestroyServerKeeps
<1>4. CASE CallbackCall
  BY <1>4, SendKeeps, ShutdownKeeps, GivePointerKeeps DEF CallbackCall
<1>5. CASE PeerStep
  BY <1>5, PeerKeeps
<1>6. CASE \E t \in Threads : ThreadStep(t)
  BY <1>6, ThreadKeeps
<1>7. CASE UNCHANGED vars
  BY <1>7, StutterKeeps
<1> QED
  BY <1>1, <1>2, <1>3, <1>4, <1>5, <1>6, <1>7 DEF Next

LEMMA InvHolds == Spec => []Inv
  BY InitInv, NextInv, PTL DEF Spec

-----------------------------------------------------------------------------
(* One thread that uses the connection late.                               *)

\* No functor but those of a thread's send() is a sendInLoop.
LEMMA NotSends ==
    /\ Holding \cap Sends = {} /\ <<"shutdownInLoop", 0>> \notin Sends
    /\ Sends \subseteq Raw
<1>1. Sends \subseteq Raw
  BY DEF Sends, Raw
<1>2. <<"shutdownInLoop", 0>> \notin Sends
  BY DEF Sends
<1> QED
  BY <1>1, <1>2, FunctorIds

\* queueInLoop of something else.
LEMMA FollowedAppend ==
    ASSUME NEW U, NEW s \in Seq(U), NEW f \in U \ Sends, Followed(s, 0)
    PROVE  Followed(Append(s, f), 0)
<1> DEFINE q == Append(s, f)
<1>1. /\ Len(q) = Len(s) + 1 /\ Len(s) \in Nat /\ q[Len(s) + 1] = f
      /\ \A i \in 1..Len(s) : q[i] = s[i]
  OBVIOUS
<1> HIDE DEF q
<1> SUFFICES ASSUME NEW i \in 1..Len(q), q[i] \in Sends
             PROVE  \E j \in 1..Len(q) : j > i /\ q[j] = Destroys
  BY DEF Followed, q
<1>2. i \in 1..Len(s) /\ s[i] \in Sends /\ i > 0
  BY <1>1
<1>3. PICK j \in 1..Len(s) : j > i /\ s[j] = Destroys
  BY <1>2 DEF Followed
<1>4. j \in 1..Len(q) /\ q[j] = Destroys
  BY <1>1, <1>3
<1> QED
  BY <1>3, <1>4

\* removeConnectionInLoop queues connectDestroyed behind all that was sent.
LEMMA FollowedDestroys ==
    ASSUME NEW U, NEW s \in Seq(U)
    PROVE  Followed(Append(s, Destroys), 0)
<1> DEFINE q == Append(s, Destroys)
<1>1. Len(q) = Len(s) + 1 /\ Len(s) \in Nat /\ q[Len(s) + 1] = Destroys
  OBVIOUS
<1> HIDE DEF q
<1> SUFFICES ASSUME NEW i \in 1..Len(q), q[i] \in Sends
             PROVE  \E j \in 1..Len(q) : j > i /\ q[j] = Destroys
  BY DEF Followed, q
<1>2. i # Len(s) + 1
  BY <1>1, NotSends, FunctorIds
<1>3. Len(s) + 1 \in 1..Len(q) /\ Len(s) + 1 > i
  BY <1>1, <1>2
<1> QED
  BY <1>1, <1>3

LEMMA FollowedLess ==
    ASSUME NEW s, Len(s) \in Nat, NEW k \in Nat, NEW m \in Nat, m >= k, Followed(s, k)
    PROVE  Followed(s, m)
  BY DEF Followed

\* A sendInLoop that is run has its connectDestroyed still to come.
LEMMA SendThenDestroys ==
    ASSUME QueueOK, SendsFollowed, NEW len \in Lens, Runs(<<"sendInLoop", len>>),
           ToSet(pending) \subseteq ToSet(pending')
    PROVE  Destroys \in Unrun'
<1>1. /\ done < Len(functors) /\ functors[done + 1] = <<"sendInLoop", len>>
      /\ done' = done + 1 /\ functors' = functors
      /\ Len(functors) \in Nat /\ done \in Nat
  BY DEF Runs, QueueOK
<1>2. functors[done + 1] \in Sends
  BY <1>1 DEF Sends
<1>3. CASE Followed(functors, done)
  <2>1. done + 1 \in 1..Len(functors) /\ done + 1 > done
    BY <1>1
  <2>2. PICK j \in 1..Len(functors) : j > done + 1 /\ functors[j] = Destroys
    BY <1>2, <1>3, <2>1 DEF Followed
  <2> QED
    BY <1>1, <2>2 DEF Unrun
<1>4. CASE Destroys \in ToSet(pending)
  BY <1>4 DEF Unrun
<1> QED
  BY <1>3, <1>4 DEF SendsFollowed

\* The steps that leave the order of the queues as it is.
LEMMA OrderSame ==
    ASSUME SendsFollowed, UNCHANGED <<pending, functors, done>>
    PROVE  SendsFollowed'
  BY DEF SendsFollowed, Followed

LEMMA OrderRun ==
    ASSUME QueueOK, SendsFollowed, NEW f, Runs(f), pending' = pending
    PROVE  SendsFollowed'
<1>1. /\ done' = done + 1 /\ functors' = functors
      /\ Len(functors) \in Nat /\ done \in Nat
  BY DEF Runs, QueueOK
<1>2. Followed(functors, done) => Followed(functors', done')
  BY <1>1, FollowedLess
<1> QED
  BY <1>2 DEF SendsFollowed

LEMMA OrderAppend ==
    ASSUME QueueOK, SendsFollowed, NEW f \in (Holding \cup Raw) \ Sends,
           pending' = Append(pending, f), UNCHANGED <<functors, done>>
    PROVE  SendsFollowed'
<1>1. Followed(pending', 0)
  BY FollowedAppend DEF SendsFollowed, QueueOK
<1>2. Destroys \in ToSet(pending) => Destroys \in ToSet(pending')
  <2>1. \A i \in 1..Len(pending) : i \in DOMAIN pending' /\ pending'[i] = pending[i]
    BY DEF QueueOK
  <2> QED
    BY <2>1 DEF ToSet, QueueOK
<1> QED
  BY <1>1, <1>2 DEF SendsFollowed

\* A step that reports nothing, changes no state and keeps the order keeps LateInv.
LEMMA LateKeeps ==
    ASSUME LateInv, UNCHANGED <<after, told, state>>, serverAlive' => serverAlive,
           \A t \in Threads : tpc'[t] \in {"sending", "shutting"} => tpc'[t] = tpc[t],
           told = "down" /\ serverAlive =>
               \/ chan'.index \in {chan.index, kNew}
               \/ Destroys \in Unrun',
           Destroys \in Unrun => Destroys \in Unrun' \/ chan'.index = kNew,
           SendsFollowed => SendsFollowed'
    PROVE  LateInv'
<1> SUFFICES ASSUME serverAlive' PROVE LateInv'
  BY DEF LateInv
<1>1. serverAlive
  OBVIOUS
<1>2. after' # "remove"
  BY <1>1 DEF LateInv
<1> SUFFICES ASSUME told = "down"
             PROVE  /\ state # "kConnected"
                    /\ state = "kDisconnecting" => \A t \in Threads : tpc'[t] \notin {"sending", "shutting"}
                    /\ after = "closeCallback" \/ chan'.index = kNew \/ Destroys \in Unrun'
                    /\ (state = "kDisconnecting" \/ \E t \in Threads : tpc'[t] = "shutting")
                           => after = "closeCallback" \/ SendsFollowed'
  BY <1>1, <1>2 DEF LateInv
<1> QED
  BY <1>1 DEF LateInv

\* Nor does one that begins or follows a report of the end.
LEMMA LateClose ==
    ASSUME serverAlive' => after' = "closeCallback" /\ state' = "kDisconnected"
    PROVE  LateInv'
  BY DEF LateInv

LEMMA LateReturns ==
    ASSUME Inv, LateInv, CallbackReturns
    PROVE  LateInv'
<1>1. /\ (serverAlive' <=> serverAlive) /\ after' = "nothing" /\ cb # "none"
      /\ UNCHANGED <<state, told, functors, done, tpc>>
  BY Zenon DEF CallbackReturns, batch, appVars, history
<1>2. CASE after = "nothing"
  <2>1. UNCHANGED <<chan, pending>>
    BY <1>2 DEF CallbackReturns
  <2> QED
    BY <1>1, <1>2, <2>1, QueuesSame, OrderSame, LateKeeps
<1>3. CASE after = "closeCallback"
  <2>1. UNCHANGED chan /\ pending' = Append(pending, Destroys)
    BY <1>3 DEF CallbackReturns, Destroys
  <2>2. pending \in Seq(Holding \cup Raw)
    BY DEF Inv, Typed, QueueOK
  <2>3. Followed(pending', 0)
    BY <2>1, <2>2, FollowedDestroys
  <2>4. Destroys \in ToSet(pending')
    <3>1. Len(pending) + 1 \in DOMAIN pending' /\ pending'[Len(pending) + 1] = Destroys
      BY <2>1, <2>2
    <3> QED
      BY <3>1 DEF ToSet
  <2>5. Destroys \in Unrun' /\ SendsFollowed'
    BY <2>3, <2>4 DEF Unrun, SendsFollowed
  <2>6. told = "down"
    BY <1>3 DEF Inv, PhaseInv
  <2> QED
    BY <1>1, <2>5, <2>6 DEF LateInv
<1>4. CASE after = "remove"
  BY <1>1, <1>4 DEF LateInv
<1> QED
  BY <1>2, <1>3, <1>4 DEF Inv, Typed, LoopOK

\* The batch is taken; the functors wait in the same order.
LEMMA LateSwap == ASSUME Inv, LateInv, SwapFunctors PROVE LateInv'
<1>1. /\ (serverAlive' <=> serverAlive) /\ lpc = "events"
      /\ UNCHANGED <<state, chan, told, after, done, tpc>>
      /\ functors' = pending /\ pending' = <<>>
  BY Zenon DEF SwapFunctors, connVars, serverVars, appVars, history
<1>2. functors = <<>> /\ done = 0 /\ pending \in Seq(Holding \cup Raw)
  BY <1>1 DEF Inv, PhaseInv, Typed, QueueOK
<1>3. Unrun = ToSet(pending) /\ Unrun' = ToSet(pending)
  <2>1. {pending[i] : i \in {j \in 1..Len(pending) : j > 0}} = ToSet(pending)
    BY <1>2 DEF ToSet
  <2> QED
    BY <1>1, <1>2, <2>1, ToSetNone DEF Unrun
<1>4. SendsFollowed => SendsFollowed'
  BY <1>1, <1>2 DEF SendsFollowed, Followed
<1> QED
  BY <1>1, <1>3, <1>4, LateKeeps

LEMMA LateFinish == ASSUME Inv, LateInv, FinishBatch PROVE LateInv'
<1>1. /\ (serverAlive' <=> serverAlive) /\ done = Len(functors)
      /\ UNCHANGED <<state, chan, told, after, pending, tpc>>
      /\ functors' = <<>> /\ done' = 0
  BY Zenon DEF FinishBatch, connVars, serverVars, appVars, history
<1>2. Unrun' = Unrun
  BY <1>1 DEF Unrun, Inv, Typed, QueueOK
<1>3. SendsFollowed => SendsFollowed'
  BY <1>1 DEF SendsFollowed, Followed
<1> QED
  BY <1>1, <1>2, <1>3, LateKeeps

\* connectDestroyed finds no state kConnected, and removes the channel.
LEMMA LateDestroyed == ASSUME Inv, LateInv, RunConnectDestroyed PROVE LateInv'
<1>1. /\ (serverAlive' <=> serverAlive) /\ Runs(Destroys) /\ ConnectDestroyed
      /\ UNCHANGED <<pending, tpc>>
  BY Zenon DEF RunConnectDestroyed, Runs, Destroys, serverVars, appVars
<1>2. Destroys \in Fs /\ Unrun \subseteq Unrun' \cup {Destroys}
  BY <1>1, QueueRun DEF Inv, Typed, QueueOK
<1>3. told = "down"
  BY <1>2 DEF Inv, MapInv
<1>4. SendsFollowed => SendsFollowed'
  BY <1>1, OrderRun DEF Inv, Typed
<1>5. CASE serverAlive
  <2>1. UNCHANGED <<state, told, after>> /\ chan' = RemoveChannel(chan)
    BY <1>1, <1>3, <1>5 DEF ConnectDestroyed, LateInv
  <2>2. chan'.index = kNew
    BY <2>1, RemoveChannelGood DEF Inv, Typed, ConnOK
  <2> QED
    BY <1>1, <1>4, <2>1, <2>2, LateKeeps
<1>6. CASE ~serverAlive
  BY <1>1, <1>6 DEF LateInv
<1> QED
  BY <1>5, <1>6

LEMMA LateRuns ==
    ASSUME Inv, LateInv,
           \/ RunWriteComplete \/ RunHighWaterMark \/ RunShutdownInLoop \/ RunDangling
    PROVE  LateInv'
<1>1. PICK f \in (Holding \cup Raw) \ {Destroys} : Runs(f)
  <2>1. /\ {<<"writeComplete", 0>>, <<"highWaterMark", 0>>, <<"shutdownInLoop", 0>>}
              \subseteq (Holding \cup Raw) \ {Destroys}
        /\ Raw \subseteq (Holding \cup Raw) \ {Destroys}
    BY FunctorIds
  <2>2. \E f \in {<<"writeComplete", 0>>, <<"highWaterMark", 0>>, <<"shutdownInLoop", 0>>} \cup Raw :
           Runs(f)
    BY Zenon DEF RunWriteComplete, RunHighWaterMark, RunShutdownInLoop, RunDangling
  <2> QED
    BY <2>1, <2>2
<1>2. serverAlive' <=> serverAlive
  <2>1. UNCHANGED serverVars
    BY Zenon DEF RunWriteComplete, RunHighWaterMark, RunShutdownInLoop, RunDangling
  <2> QED
    BY <2>1, Zenon DEF serverVars
<1>3. UNCHANGED <<state, chan, told, after, pending, tpc>>
  BY <1>1 DEF Runs, RunWriteComplete, RunHighWaterMark, RunShutdownInLoop, RunDangling,
              connVars, appVars, history
<1>4. Unrun \subseteq Unrun' \cup {f}
  BY <1>1, <1>3, QueueRun DEF Inv, Typed, QueueOK
<1>5. SendsFollowed => SendsFollowed'
  BY <1>1, <1>3, OrderRun DEF Inv, Typed
<1> QED
  BY <1>1, <1>2, <1>3, <1>4, <1>5, LateKeeps

\* What sendInLoop queues is no sendInLoop.
LEMMA SendFollowed ==
    ASSUME QueueOK, NEW len \in Lens, SendInLoop(len, pending), functors' = functors,
           Followed(pending, 0)
    PROVE  Followed(pending', 0) /\ ToSet(pending) \subseteq ToSet(pending')
<1>1. PICK s \in {<<>>, <<<<"writeComplete", 0>>>>}, t \in {<<>>, <<<<"highWaterMark", 0>>>>} :
         pending' = pending \o s \o t
  BY DEF SendInLoop
<1> DEFINE U == Holding \cup Raw
<1>2. /\ <<"writeComplete", 0>> \in U \ Sends /\ <<"highWaterMark", 0>> \in U \ Sends
  BY FunctorIds, NotSends
<1> HIDE DEF U
<1>3. ASSUME NEW q \in Seq(U), NEW f \in U \ Sends, NEW r \in {<<>>, <<f>>}, Followed(q, 0)
      PROVE  q \o r \in Seq(U) /\ Followed(q \o r, 0) /\ ToSet(q) \subseteq ToSet(q \o r)
  <2>1. CASE r = <<>>
    BY <1>3, <2>1
  <2>2. CASE r = <<f>>
    <3>1. q \o r = Append(q, f) /\ r \in Seq(U)
      BY <2>2
    <3>2. Followed(q \o r, 0)
      BY <1>3, <3>1, FollowedAppend
    <3>3. r \in Seq(U)
      BY <3>1
    <3>4. q \o r \in Seq(U) /\ ToSet(q \o r) = ToSet(q) \cup ToSet(r)
      BY <3>3, ToSetConcat
    <3> QED
      BY <3>2, <3>4
  <2> QED
    BY <1>3, <2>1, <2>2
<1>4. pending \in Seq(U)
  BY DEF QueueOK, U
<1>5. /\ pending \o s \in Seq(U) /\ Followed(pending \o s, 0)
      /\ ToSet(pending) \subseteq ToSet(pending \o s)
  BY <1>2, <1>3, <1>4
<1>6. /\ (pending \o s) \o t \in Seq(U) /\ Followed((pending \o s) \o t, 0)
      /\ ToSet(pending \o s) \subseteq ToSet((pending \o s) \o t)
  BY <1>2, <1>3, <1>5
<1> QED
  BY <1>1, <1>5, <1>6

\* A late sendInLoop may register the channel again, with a connectDestroyed to come.
LEMMA LateSendInLoop ==
    ASSUME Inv, LateInv, NEW len \in Lens, RunSendInLoop(len)
    PROVE  LateInv'
<1>1. /\ Runs(<<"sendInLoop", len>>) /\ UNCHANGED <<after, tpc, functors>> /\ cb = "none"
      /\ <<"sendInLoop", len>> # Destroys
  BY FunctorIds DEF RunSendInLoop, Runs, Idle, appVars, Destroys
<1>2. after = "nothing"
  BY <1>1 DEF Inv, PhaseInv
<1>3. CASE state = "kDisconnected"
  <2>1. (serverAlive' <=> serverAlive) /\ UNCHANGED <<state, chan, told, pending>>
    BY <1>3, Zenon DEF RunSendInLoop, connVars, serverVars, history
  <2>2. Unrun \subseteq Unrun' \cup {<<"sendInLoop", len>>}
    BY <1>1, <2>1, QueueRun DEF Inv, Typed, QueueOK
  <2>3. SendsFollowed => SendsFollowed'
    BY <1>1, <2>1, OrderRun DEF Inv, Typed
  <2> QED
    BY <1>1, <2>1, <2>2, <2>3, LateKeeps
<1>4. CASE state # "kDisconnected"
  <2>1. SendInLoop(len, pending)
    BY <1>4, Zenon DEF RunSendInLoop
  <2>2. (serverAlive' <=> serverAlive) /\ UNCHANGED <<state, told>>
    BY <2>1, Zenon DEF SendInLoop, serverVars
  <2> SUFFICES ASSUME serverAlive, told = "down" PROVE LateInv'
    BY <1>1, <1>2, <2>2 DEF LateInv
  <2>3. SendsFollowed
    <3>1. state = "kDisconnecting"
      BY <1>4 DEF LateInv, Inv, NoneInv, Typed, ConnOK, States
    <3> QED
      BY <1>2, <3>1 DEF LateInv
  <2>4. Followed(pending', 0) /\ ToSet(pending) \subseteq ToSet(pending')
    BY <1>1, <2>1, <2>3, SendFollowed DEF Inv, Typed, SendsFollowed
  <2>5. Destroys \in Unrun'
    BY <1>1, <2>3, <2>4, SendThenDestroys DEF Inv, Typed
  <2>6. SendsFollowed'
    <3>1. /\ done' = done + 1 /\ Len(functors) \in Nat /\ done \in Nat
      BY <1>1 DEF Runs, Inv, Typed, QueueOK
    <3>2. Followed(functors, done) => Followed(functors', done')
      BY <1>1, <3>1, FollowedLess
    <3> QED
      BY <2>3, <2>4, <3>2 DEF SendsFollowed
  <2> QED
    BY <1>1, <2>2, <2>5, <2>6, LateKeeps
<1> QED
  BY <1>3, <1>4

\* A thread tests the state, or passes on what a test has found before.
LEMMA LateThread ==
    ASSUME \A u, v \in Threads : u = v, Inv, LateInv, NEW t \in Threads, ThreadStep(t)
    PROVE  LateInv'
<1>1. /\ serverAlive' <=> serverAlive
      /\ UNCHANGED <<chan, told, after, functors, done>>
  <2> USE DEF ThreadStep, ThreadDrops, ThreadChecks, ThreadSetsState, ThreadShuts, ThreadSends
  <2>1. UNCHANGED serverVars
    BY Zenon
  <2>2. UNCHANGED <<chan, told, after, functors, done>>
    BY DEF connVars, loopVars, batch, history
  <2> QED
    BY <2>1, <2>2, Zenon DEF serverVars
<1>2. /\ \A u \in Threads : u = t /\ (\A to : [tpc EXCEPT ![t] = to][u] = to)
      /\ pending \in Seq(Holding \cup Raw) /\ QueueOK
  BY DEF Inv, Typed, ThreadOK, QueueOK
<1>3. CASE ThreadDrops(t)
  <2>1. UNCHANGED <<state, pending>> /\ \A u \in Threads : tpc'[u] = "none"
    BY <1>2, <1>3 DEF ThreadDrops, ThreadMoves, connVars, loopVars
  <2> QED
    BY <1>1, <2>1, QueuesSame, OrderSame, LateKeeps
<1>4. ASSUME NEW to \in {"sending", "shutting"}, ThreadChecks(t, to) PROVE LateInv'
  <2>1. state = "kConnected"
    BY <1>4 DEF ThreadChecks
  <2> QED
    BY <1>1, <2>1 DEF LateInv
<1>5. ASSUME NEW n \in Lens, ThreadSends(t, n) PROVE LateInv'
  <2>1. /\ UNCHANGED state /\ tpc[t] = "sending" /\ \A u \in Threads : tpc'[u] = "holds"
        /\ pending' = Append(pending, <<"sendInLoop", n>>)
    BY <1>2, <1>5 DEF ThreadSends, ThreadMoves, connVars
  <2>2. Unrun \subseteq Unrun'
    BY <1>1, <1>2, <2>1, QueueAppend, FunctorIds
  <2>3. told = "down" /\ serverAlive => state # "kDisconnecting"
    BY <2>1 DEF LateInv
  <2> QED
    BY <1>1, <2>1, <2>2, <2>3 DEF LateInv
<1>6. CASE ThreadSetsState(t)
  <2>1. /\ state' = "kDisconnecting" /\ tpc[t] = "shutting" /\ UNCHANGED pending
        /\ \A u \in Threads : tpc'[u] = "shut"
    BY <1>2, <1>6 DEF ThreadSetsState, ThreadMoves, loopVars
  <2>2. SendsFollowed => SendsFollowed'
    BY <1>1, <2>1, OrderSame
  <2>3. Unrun' = Unrun
    BY <1>1, <2>1, QueuesSame
  <2> QED
    BY <1>1, <2>1, <2>2, <2>3 DEF LateInv
<1>7. CASE ThreadShuts(t)
  <2>1. /\ UNCHANGED state /\ \A u \in Threads : tpc'[u] = "holds"
        /\ pending' = Append(pending, <<"shutdownInLoop", 0>>)
    BY <1>2, <1>7 DEF ThreadShuts, ThreadMoves, connVars
  <2>2. Unrun \subseteq Unrun'
    BY <1>1, <1>2, <2>1, QueueAppend, FunctorIds
  <2>3. SendsFollowed => SendsFollowed'
    BY <1>1, <1>2, <2>1, OrderAppend, FunctorIds, NotSends
  <2> QED
    BY <1>1, <2>1, <2>2, <2>3, LateKeeps
<1> QED
  BY <1>3, <1>4, <1>5, <1>6, <1>7 DEF ThreadStep

\* The events that do not close, the peer, and what the application does in a callback.
LEMMA LateElse ==
    ASSUME Inv, LateInv,
           \/ Poll \/ ReadData \/ ReadError \/ WriteNothing \/ PeerStep \/ UNCHANGED vars
           \/ \E t \in Threads : GivePointer(t)
    PROVE  LateInv'
<1>1. serverAlive' <=> serverAlive
  <2>1. UNCHANGED serverVars
    BY Zenon DEF Poll, ReadData, ReadError, WriteNothing, PeerStep, PeerSends, PeerReads,
                 PeerCloses, PeerResets, PeerUnchanged, GivePointer, vars
  <2> QED
    BY <2>1, Zenon DEF serverVars
<1>2. /\ UNCHANGED <<state, chan, told, after, pending, functors, done>>
      /\ tpc' = tpc \/ \E t \in Threads : tpc' = [tpc EXCEPT ![t] = "holds"]
  BY DEF Poll, ReadData, ReadError, WriteNothing, PeerStep, PeerSends, PeerReads, PeerCloses,
         PeerResets, PeerUnchanged, GivePointer, Dispatch, vars, connVars, loopVars, batch,
         appVars, history
<1>3. \A t \in Threads : tpc'[t] \in {"sending", "shutting"} => tpc'[t] = tpc[t]
  BY <1>2 DEF Inv, Typed, ThreadOK
<1> QED
  BY <1>1, <1>2, <1>3, QueuesSame, OrderSame, LateKeeps

LEMMA LateWrites == ASSUME Inv, LateInv, WriteSome PROVE LateInv'
<1>1. serverAlive' <=> serverAlive
  BY Zenon DEF WriteSome, serverVars
<1>2. /\ UNCHANGED <<state, chan, told, after, functors, done, tpc>>
      /\ pending' = pending \/ pending' = Append(pending, <<"writeComplete", 0>>)
  BY DEF WriteSome, Dispatch, batch, appVars
<1>3. Unrun \subseteq Unrun'
  BY <1>2, QueuesSame, QueueAppend, FunctorIds DEF Inv, Typed, QueueOK
<1>4. SendsFollowed => SendsFollowed'
  BY <1>2, OrderSame, OrderAppend, FunctorIds, NotSends DEF Inv, Typed
<1> QED
  BY <1>1, <1>2, <1>3, <1>4, LateKeeps

LEMMA LateNext ==
    ASSUME \A t, u \in Threads : t = u, Inv, LateInv, [Next]_vars
    PROVE  LateInv'
<1>1. CASE NewConnection
  BY <1>1 DEF NewConnection, Inv, PhaseInv, LateInv
<1>2. CASE LoopStep
  <2>1. CASE CloseEvent \/ ReadEof
    BY <2>1, LateClose DEF CloseEvent, ReadEof, HandleClose
  <2>2. CASE Poll \/ ReadData \/ ReadError \/ WriteNothing
    BY <2>2, LateElse
  <2>3. CASE WriteSome \/ SwapFunctors \/ FinishBatch \/ CallbackReturns
    BY <2>3, LateWrites, LateSwap, LateFinish, LateReturns
  <2>4. CASE \/ RunConnectDestroyed \/ RunWriteComplete \/ RunHighWaterMark
             \/ RunShutdownInLoop \/ RunDangling \/ \E n \in Lens : RunSendInLoop(n)
    BY <2>4, LateDestroyed, LateRuns, LateSendInLoop
  <2> QED
    BY <1>2, <2>1, <2>2, <2>3, <2>4 DEF LoopStep
<1>3. CASE DestroyServer
  BY <1>3, Zenon DEF DestroyServer, LateInv
<1>4. CASE CallbackCall
  <2>1. CASE Shutdown \/ \E n \in Lens : Send(n)
    <3>1. UNCHANGED serverVars
      BY <2>1, Zenon DEF Shutdown, Send, SendInLoop
    <3>2. UNCHANGED <<told, after>> /\ state = "kConnected"
      BY <2>1 DEF Shutdown, Send, SendInLoop, loopVars, history
    <3> QED
      BY <3>1, <3>2 DEF LateInv, serverVars
  <2> QED
    BY <1>4, <2>1, LateElse DEF CallbackCall
<1>5. CASE PeerStep \/ UNCHANGED vars
  BY <1>5, LateElse
<1>6. CASE \E t \in Threads : ThreadStep(t)
  BY <1>6, LateThread
<1> QED
  BY <1>1, <1>2, <1>3, <1>4, <1>5, <1>6 DEF Next

-----------------------------------------------------------------------------
(* The theorems.                                                           *)

\* Every variable has its type: no sequence of calls, events and functors takes the indices of
\* outputBuffer_ or the registration of channel_ out of what its class allows.
THEOREM TypeCorrect == Spec => []TypeOK
<1>1. Inv => TypeOK
  BY TypedIsTypeOK DEF Inv
<1> QED
  BY <1>1, InvHolds, PTL

\* sendInLoop and handleWrite never leave bytes in outputBuffer_ without asking for EPOLLOUT, no
\* enableWriting, registration or removal takes EPOLLIN from a connection that is up, and no
\* thread's late send, shutdown or functor undoes either.
THEOREM AlwaysWatched == Spec => []StaysWatched
<1>1. Inv => StaysWatched
  <2> SUFFICES ASSUME Inv, inMap, told = "up" PROVE StaysWatched
    BY DEF StaysWatched
  <2>1. /\ chan.entry = "present" /\ "IN" \in chan.events
        /\ ReadableBytes(out) > 0 => IsWriting(chan)
    BY DEF Inv, OutputInv
  <2>2. chan.interest = chan.events
    BY <2>1 DEF Inv, Typed, ConnOK, GoodChannel, InSync
  <2>3. ReadableBytes(out) > 0 => "OUT" \in chan.interest
    BY <2>1, <2>2 DEF IsWriting, kWriteEvent
  <2>4. peer # "open" => "IN" \in Reported(chan, Conditions)
    BY <2>1, <2>2 DEF Reported, Conditions
  <2> QED
    BY <2>1, <2>3, <2>4 DEF StaysWatched
<1> QED
  BY <1>1, InvHolds, PTL

\* shutdown(), from the loop or from a thread, does not send the FIN before the bytes that
\* wait, and sendInLoop stores none behind it.
THEOREM FinAfterBacklog == Spec => [](wrShut /\ told = "up" => ReadableBytes(out) = 0)
<1>1. Inv => (wrShut /\ told = "up" => ReadableBytes(out) = 0)
  <2> SUFFICES ASSUME Inv, wrShut, told = "up" PROVE ReadableBytes(out) = 0
    OBVIOUS
  <2>1. ReadableBytes(out) \in Nat
    BY ReadableNat DEF Inv, Typed, ConnOK
  <2> QED
    BY <2>1 DEF Inv, OutputInv
<1> QED
  BY <1>1, InvHolds, PTL

\* As long as the server lives, no connection of which the application has heard is destroyed
\* before connectionCallback_ has reported its end.
THEOREM EndAlwaysReported == Spec => []EndReported
<1>1. Inv => EndReported
  <2> SUFFICES ASSUME Inv, Gone, serverAlive PROVE told = "down"
    BY DEF EndReported
  <2>1. state # "none" /\ ~inMap
    BY DEF Gone, Alive
  <2> QED
    BY <2>1 DEF Inv, NoneInv, MapInv, Typed, LoopOK
<1> QED
  BY <1>1, InvHolds, PTL

\* No functor runs on a destroyed connection and no closeCallback_ goes into a destroyed server
\* if the application keeps the connection on its loop.
THEOREM NothingEverDangles == Spec => []NothingDangles
<1>1. Inv => NothingDangles
  BY DEF Inv, EndInv, NothingDangles
<1> QED
  BY <1>1, InvHolds, PTL

\* Of a connection that the application keeps on its loop, the last reference goes after
\* connectDestroyed has removed the Channel, whether the server is alive or not.
THEOREM RemovedFirst == Spec => [](~shared => RemovedBeforeDestroyed)
<1>1. Inv => (~shared => RemovedBeforeDestroyed)
  <2> SUFFICES ASSUME Inv, ~shared, Gone PROVE chan.index = kNew /\ chan.entry = "none"
    BY DEF RemovedBeforeDestroyed
  <2> USE DEF Inv
  <2>1. EndInv
    OBVIOUS
  <2>2. ~inMap /\ cb = "none" /\ ToSet(pending \o functors) \cap Holding = {}
    BY DEF Gone, Alive
  <2>3. ToSet(pending \o functors) = Fs
    BY ToSetConcat DEF Typed, QueueOK, Fs
  <2>4. Unrun \subseteq Fs
    BY DEF Typed, QueueOK, Unrun, Fs, ToSet
  <2>5. Destroys \notin Unrun
    BY <2>2, <2>3, <2>4, FunctorIds
  <2>6. after # "remove"
    BY <2>2 DEF PhaseInv
  <2>7. chan.index = kNew
    BY <2>1, <2>2, <2>5, <2>6 DEF EndInv
  <2> QED
    BY <2>1, <2>2, <2>7 DEF EndInv
<1> QED
  BY <1>1, InvHolds, PTL

\* And so it is with one that a single thread uses, however late it sends and shuts down, as
\* long as the server lives: a sendInLoop that registers the channel again after the end has a
\* connectDestroyed behind it.  With two threads it may have none.
THEOREM RemovedWithOneThread ==
    ASSUME \A t, u \in Threads : t = u
    PROVE  Spec => []RemovedBeforeDestroyed
<1>1. Init => LateInv
  BY DEF Init, LateInv
<1>2. Inv /\ LateInv /\ [Next]_vars => LateInv'
  BY LateNext
<1>3. Inv /\ (~shared => RemovedBeforeDestroyed) /\ LateInv => RemovedBeforeDestroyed
  <2> SUFFICES ASSUME Inv, LateInv, Gone, serverAlive
               PROVE  chan.index = kNew /\ chan.entry = "none"
    BY DEF RemovedBeforeDestroyed
  <2> USE DEF Inv
  <2>1. state # "none" /\ ~inMap /\ cb = "none" /\ ToSet(pending \o functors) \cap Holding = {}
    BY DEF Gone, Alive
  <2>2. Destroys \notin Unrun
    <3>1. ToSet(pending \o functors) = Fs
      BY ToSetConcat DEF Typed, QueueOK, Fs
    <3>2. Unrun \subseteq Fs
      BY DEF Typed, QueueOK, Unrun, Fs, ToSet
    <3> QED
      BY <2>1, <3>1, <3>2, FunctorIds
  <2>3. told = "down"
    BY <2>1 DEF NoneInv, MapInv, Typed, LoopOK
  <2>4. chan.index = kNew
    BY <2>1, <2>2, <2>3 DEF LateInv, PhaseInv
  <2>5. InSync(chan)
    BY DEF Typed, ConnOK, GoodChannel
  <2> QED
    BY <2>4, <2>5 DEF InSync, kNew, kAdded
<1> QED
  BY <1>1, <1>2, <1>3, InvHolds, RemovedFirst, PTL DEF Spec

\* The steps that send.
LEMMA OnlySendsAccept ==
    ASSUME Next
    PROVE  \/ accepted' = accepted
           \/ state # "kDisconnected" /\ \E len \in Lens : SendInLoop(len, pending)
<1>1. CASE NewConnection \/ DestroyServer \/ PeerStep
  BY <1>1 DEF NewConnection, DestroyServer, PeerStep, PeerSends, PeerReads, PeerCloses,
              PeerResets, PeerUnchanged, history
<1>2. CASE LoopStep
  <2>1. CASE Poll \/ CloseEvent \/ ReadData \/ ReadEof \/ ReadError \/ WriteSome \/ WriteNothing
    BY <2>1 DEF Poll, CloseEvent, ReadData, ReadEof, ReadError, WriteSome, WriteNothing,
                HandleClose, history
  <2>2. CASE SwapFunctors \/ FinishBatch \/ CallbackReturns
    BY <2>2 DEF SwapFunctors, FinishBatch, CallbackReturns, history
  <2>3. CASE \/ RunConnectDestroyed \/ RunWriteComplete \/ RunHighWaterMark
             \/ RunShutdownInLoop \/ RunDangling
    BY <2>3 DEF RunConnectDestroyed, RunWriteComplete, RunHighWaterMark, RunShutdownInLoop,
                RunDangling, history
  <2>4. ASSUME NEW n \in Lens, RunSendInLoop(n)
        PROVE  accepted' = accepted \/ (state # "kDisconnected" /\ SendInLoop(n, pending))
    BY <2>4, Zenon DEF RunSendInLoop, history
  <2> QED
    BY <1>2, <2>1, <2>2, <2>3, <2>4 DEF LoopStep
<1>3. CASE CallbackCall
  BY <1>3 DEF CallbackCall, Shutdown, Send, GivePointer, history
<1>4. ASSUME NEW t \in Threads, ThreadStep(t) PROVE accepted' = accepted
  BY <1>4 DEF ThreadStep, ThreadDrops, ThreadSetsState, ThreadShuts, ThreadChecks,
              ThreadSends, history
<1> QED
  BY <1>1, <1>2, <1>3, <1>4 DEF Next

\* A send whose test of state_ came before a shutdown() and whose sendInLoop comes after the FIN
\* writes and stores nothing.
THEOREM NothingEverStoredAfterFin == Spec => [][wrShut /\ told = "up" => accepted' = accepted]_vars
<1>1. Inv /\ [Next]_vars => [wrShut /\ told = "up" => accepted' = accepted]_vars
  <2> SUFFICES ASSUME Inv, Next, wrShut, told = "up" PROVE accepted' = accepted
    OBVIOUS
  <2>1. ASSUME NEW len \in Lens, SendInLoop(len, pending) PROVE accepted' = accepted
    BY <2>1, SendOutput DEF Inv, Typed
  <2> QED
    BY <2>1, OnlySendsAccept
<1> QED
  BY <1>1, InvHolds, PTL DEF Spec

LEMMA ToldOnce ==
    ASSUME Inv, Next, told = "down", cb # "connection", ~shared
    PROVE  cb' # "connection"
<1> SUFFICES ASSUME cb' = "connection" PROVE FALSE
  OBVIOUS
<1>1. EventsInv /\ EndInv /\ NoneInv
  BY DEF Inv
<1>2. state = "kDisconnected"
  BY <1>1 DEF EndInv
<1>3. ~NewConnection
  BY <1>2 DEF NewConnection
<1>4. ~DestroyServer
  BY <1>2 DEF DestroyServer, ConnectDestroyed
<1>5. ~CallbackCall
  BY DEF CallbackCall, Shutdown, Send, GivePointer, loopVars
<1>6. ~PeerStep
  BY DEF PeerStep, PeerSends, PeerReads, PeerCloses, PeerResets, PeerUnchanged, loopVars
<1>7. ASSUME NEW t \in Threads PROVE ~ThreadStep(t)
  BY DEF ThreadStep, ThreadDrops, ThreadSetsState, ThreadShuts, ThreadChecks, ThreadSends,
         loopVars
<1>8. ~LoopStep
  <2>1. ~CloseEvent
    BY <1>1, TodosTails DEF CloseEvent, Dispatch, EventsInv
  <2>2. ~ReadEof
    BY <1>1 DEF ReadEof, Dispatch, EventsInv
  <2>3. ~(Poll \/ ReadData \/ ReadError \/ WriteSome \/ WriteNothing)
    BY DEF Poll, ReadData, ReadError, WriteSome, WriteNothing
  <2>4. ~(SwapFunctors \/ FinishBatch \/ CallbackReturns)
    BY DEF SwapFunctors, FinishBatch, CallbackReturns
  <2>5. ~RunConnectDestroyed
    BY <1>2 DEF RunConnectDestroyed, ConnectDestroyed
  <2>6. ~(RunWriteComplete \/ RunHighWaterMark \/ RunShutdownInLoop \/ RunDangling)
    BY DEF RunWriteComplete, RunHighWaterMark, RunShutdownInLoop, RunDangling
  <2>7. ASSUME NEW n \in Lens PROVE ~RunSendInLoop(n)
    BY DEF RunSendInLoop
  <2> QED
    BY <2>1, <2>2, <2>3, <2>4, <2>5, <2>6, <2>7 DEF LoopStep
<1> QED
  BY <1>3, <1>4, <1>5, <1>6, <1>7, <1>8 DEF Next

\* handleClose and connectDestroyed, which both report the end, report it once between them,
\* whichever events come together, and leave a state that no test of send() and sendInLoop
\* passes, if the application keeps the connection on its loop.
THEOREM EndAlwaysFinal == Spec => EndIsFinal
<1>1. Inv /\ [Next]_vars =>
          [told = "down" /\ ~shared =>
               accepted' = accepted /\ (cb # "connection" => cb' # "connection")]_vars
  <2> SUFFICES ASSUME Inv, Next, told = "down", ~shared
               PROVE  accepted' = accepted /\ (cb # "connection" => cb' # "connection")
    OBVIOUS
  <2>1. state = "kDisconnected"
    BY DEF Inv, EndInv
  <2>2. accepted' = accepted
    BY <2>1, OnlySendsAccept
  <2> QED
    BY <2>2, ToldOnce
<1> QED
  BY <1>1, InvHolds, PTL DEF Spec, EndIsFinal

-----------------------------------------------------------------------------
(* The connection implements ByteStream.                                   *)

\* The amounts and what they have to do with each other.
LEMMA Amounts ==
    ASSUME Inv
    PROVE  /\ accepted \in Nat /\ sent \in Nat /\ ReadableBytes(out) \in Nat
           /\ accepted = sent + ReadableBytes(out)
           /\ told = "up" /\ ReadableBytes(out) > 0 => IsWriting(chan)
           /\ told = "up" /\ wrShut => ~IsWriting(chan)
  BY ReadableNat DEF Inv, Typed, ConnOK, OutputInv

LEMMA AmountsAfter ==
    ASSUME Inv'
    PROVE  /\ accepted' \in Nat /\ sent' \in Nat /\ ReadableBytes(out') \in Nat
           /\ accepted' = sent' + ReadableBytes(out')
  BY ReadableNat DEF Inv, Typed, ConnOK, OutputInv

LEMMA RemoveKeepsWriting ==
    ASSUME NEW ch, GoodChannel(ch)
    PROVE  IsWriting(RemoveChannel(ch)) <=> IsWriting(ch)
<1>1. RemoveChannel(ch).events = ch.events
  BY DEF GoodChannel, ChannelType, RemoveChannel, EpollDel
<1> QED
  BY <1>1 DEF IsWriting

LEMMA StreamSame ==
    ASSUME UNCHANGED <<told, accepted, sent, out>>, stale' = stale, wrShut' = wrShut,
           told = "up" => (IsWriting(chan') <=> IsWriting(chan))
    PROVE  UNCHANGED BS!vars
<1>1. ReadableBytes(out') = ReadableBytes(out)
  OBVIOUS
<1>2. (told' = "up" /\ IsWriting(chan')) = (told = "up" /\ IsWriting(chan))
  OBVIOUS
<1> QED
  BY <1>1, <1>2, Zenon DEF BS!vars

LEMMA StreamLate ==
    ASSUME Inv', told = "down", told' = told, accepted' >= accepted, sent' >= sent,
           stale => stale', wrShut => wrShut'
    PROVE  BS!Next
<1>1. accepted' = sent' + ReadableBytes(out')
  BY AmountsAfter
<1>2. (told' = "up" /\ IsWriting(chan')) = (told = "up" /\ IsWriting(chan))
  OBVIOUS
<1>3. BS!Late
  BY <1>1, <1>2, Zenon DEF BS!Late, BS!Accounted
<1> QED
  BY <1>3 DEF BS!Next

\* sendInLoop.
LEMMA StreamSend ==
    ASSUME Inv, Inv', told # "nothing", NEW len \in Lens, SendInLoop(len, pending)
    PROVE  BS!Next \/ UNCHANGED BS!vars
<1>1. told' = told /\ wrShut' = wrShut /\ stale' = stale
  BY Zenon DEF SendInLoop
<1>2. PICK w, r \in Nat : SendMoves(w, r)
  BY SendFacts DEF Inv, Typed
<1>3. accepted' = accepted + w + r /\ sent' = sent + w
  BY <1>2 DEF SendMoves
<1>4. CASE told = "down"
  <2>1. accepted' >= accepted /\ sent' >= sent
    BY <1>3, Amounts
  <2> QED
    BY <1>1, <1>4, <2>1, StreamLate
<1>5. CASE told = "up"
  <2>1. ReadableBytes(out') = ReadableBytes(out) + r
    BY <1>3, Amounts, AmountsAfter
  <2>2. r > 0 => IsWriting(chan')
    <3>1. told' = "up" /\ (ReadableBytes(out') > 0 => IsWriting(chan'))
      BY <1>1, <1>5 DEF Inv, OutputInv
    <3> QED
      BY <2>1, <3>1, Amounts
  <2>3. r = 0 => chan' = chan /\ out' = out
    BY <1>2 DEF SendMoves
  <2>4. CASE w > 0
    <3>1. ReadableBytes(out) = 0 /\ ~IsWriting(chan) /\ ~wrShut
      BY <1>2, <2>4, Amounts DEF SendMoves
    <3>2. /\ sent' > sent
          /\ accepted' = accepted + (sent' - sent) + ReadableBytes(out')
      BY <1>3, <2>1, <2>4, <3>1, Amounts
    <3>3. IsWriting(chan') <=> ReadableBytes(out') > 0
      BY <2>1, <2>2, <2>3, <3>1
    <3>4. (told' = "up" /\ IsWriting(chan'))
              = ((told = "up" /\ IsWriting(chan)) \/ ReadableBytes(out') > 0)
      BY <1>1, <1>5, <3>1, <3>3
    <3>5. BS!SendAtOnce
      BY <1>1, <1>5, <3>1, <3>2, <3>4, Zenon DEF BS!SendAtOnce, BS!Open
    <3> QED
      BY <3>5 DEF BS!Next
  <2>5. CASE w = 0 /\ r > 0
    <3>1. ~wrShut
      BY <1>2, <1>5, <2>5, Amounts DEF SendMoves
    <3>2. /\ accepted' > accepted /\ sent' = sent
          /\ ReadableBytes(out') = ReadableBytes(out) + (accepted' - accepted)
      BY <1>3, <2>1, <2>5, Amounts
    <3>3. (told' = "up" /\ IsWriting(chan')) = TRUE
      BY <1>1, <1>5, <2>2, <2>5
    <3>4. BS!Store
      BY <1>1, <1>5, <3>1, <3>2, <3>3, Zenon DEF BS!Store, BS!Open
    <3> QED
      BY <3>4 DEF BS!Next
  <2>6. CASE w = 0 /\ r = 0
    <3>1. accepted' = accepted /\ sent' = sent
      BY <1>3, <2>6, Amounts
    <3> QED
      BY <1>1, <2>3, <2>6, <3>1, StreamSame
  <2> QED
    BY <2>4, <2>5, <2>6
<1> QED
  BY <1>4, <1>5 DEF Inv, Typed, LoopOK

\* handleWrite: stale bytes are written behind the last stored one, or when none is stored.
LEMMA StreamWrite ==
    ASSUME Inv, Inv', WriteSome
    PROVE  BS!Next \/ UNCHANGED BS!vars
<1> DEFINE n == Takes(WriteFdLen(out))
           w == IF n < ReadableBytes(out) THEN n ELSE ReadableBytes(out)
<1>1. /\ UNCHANGED <<told, accepted, chan>> /\ ~wrShut /\ IsWriting(chan) /\ todo # <<>>
      /\ n > 0 /\ sent' = sent + w
  BY DEF WriteSome, Dispatch, Broken
<1>2. wrShut' = wrShut
  <2>1. wrShut \in BOOLEAN /\ wrShut' \in BOOLEAN
    BY Zenon DEF Inv, Typed, BoolOK
  <2>2. wrShut' = wrShut \/ wrShut' = (wrShut \/ ~IsWriting(chan))
    BY Zenon DEF WriteSome, ShutdownInLoop
  <2> QED
    BY <1>1, <2>1, <2>2, Zenon
<1>3. stale \in BOOLEAN /\ stale' = (stale \/ n > ReadableBytes(out))
  BY Zenon DEF WriteSome, Inv, Typed, BoolOK
<1>4. n \in Nat
  <2>1. WriteFdLen(out) \in Nat
    BY BufferAssumption DEF Inv, Typed, ConnOK, Good, BufferType, WriteFdLen, WritableBytes
  <2> QED
    BY <2>1, TakesFacts, TcpConnectionAssumption DEF Inv, Typed, ConnOK
<1> HIDE DEF n
<1>5. w \in Nat /\ ReadableBytes(out') = ReadableBytes(out) - w
  BY <1>1, <1>4, Amounts, AmountsAfter
<1>6. told \in {"up", "down"}
  BY <1>1, Started DEF Inv, Typed, LoopOK
<1>7. (told' = "up" /\ IsWriting(chan')) = (told = "up" /\ IsWriting(chan))
  BY <1>1
<1>8. CASE told = "down"
  <2>1. sent' >= sent /\ accepted' >= accepted
    BY <1>1, <1>5, Amounts
  <2>2. stale => stale'
    BY <1>3, Zenon
  <2> QED
    BY <1>1, <1>2, <1>8, <2>1, <2>2, StreamLate
<1>9. CASE told = "up" /\ ReadableBytes(out) = 0
  <2>1. sent' = sent /\ ReadableBytes(out') = ReadableBytes(out) /\ n > ReadableBytes(out)
    <3>1. w = 0
      BY <1>4, <1>9
    <3>2. sent' = sent + w
      BY <1>1
    <3> HIDE DEF w
    <3> QED
      BY <1>1, <1>5, <1>9, <3>1, <3>2, Amounts
  <2>2. stale' = TRUE
    BY <1>3, <2>1, Zenon
  <2>3. (told = "up" /\ IsWriting(chan)) = TRUE
    BY <1>1, <1>9
  <2>4. BS!SendStale
    BY <1>1, <1>2, <1>7, <1>9, <2>1, <2>2, <2>3, Zenon DEF BS!SendStale, BS!Open
  <2> QED
    BY <2>4 DEF BS!Next
<1>10. CASE told = "up" /\ ReadableBytes(out) > 0
  <2>1. sent' > sent /\ ReadableBytes(out) = ReadableBytes(out') + (sent' - sent)
    BY <1>1, <1>4, <1>5, <1>10, Amounts
  <2>2. stale' = stale \/ (ReadableBytes(out') = 0 /\ stale')
    <3>1. CASE n > ReadableBytes(out)
      <4>1. ReadableBytes(out') = 0
        BY <1>4, <1>5, <3>1, Amounts
      <4>2. stale'
        BY <1>3, <3>1, Zenon
      <4> QED
        BY <4>1, <4>2
    <3>2. CASE ~(n > ReadableBytes(out))
      BY <1>3, <3>2, Zenon
    <3> QED
      BY <3>1, <3>2
  <2>3. BS!SendStored
    BY <1>1, <1>2, <1>7, <1>10, <2>1, <2>2, Zenon DEF BS!SendStored, BS!Open
  <2> QED
    BY <2>3 DEF BS!Next
<1> QED
  BY <1>6, <1>8, <1>9, <1>10, Amounts

\* shutdownInLoop, called or run.
LEMMA StreamShut ==
    ASSUME Inv, Inv', ShutdownInLoop, UNCHANGED <<told, accepted, sent, chan, out>>,
           stale' = stale, told # "nothing"
    PROVE  BS!Next \/ UNCHANGED BS!vars
<1>1. CASE wrShut \/ IsWriting(chan)
  <2>1. wrShut' = wrShut
    <3>1. wrShut \in BOOLEAN /\ wrShut' \in BOOLEAN
      BY Zenon DEF Inv, Typed, BoolOK
    <3> QED
      BY <1>1, <3>1, Zenon DEF ShutdownInLoop
  <2> QED
    BY <2>1, StreamSame
<1>2. CASE ~wrShut /\ ~IsWriting(chan)
  <2>1. wrShut' = TRUE
    BY <1>2, Zenon DEF ShutdownInLoop
  <2>2. CASE told = "down"
    <3>1. accepted' >= accepted /\ sent' >= sent
      BY Amounts
    <3> QED
      BY <2>1, <2>2, <3>1, StreamLate
  <2>3. CASE told = "up"
    <3>1. ReadableBytes(out) = 0 /\ ReadableBytes(out') = ReadableBytes(out)
      BY <1>2, <2>3, Amounts
    <3>2. (told' = "up" /\ IsWriting(chan')) = (told = "up" /\ IsWriting(chan))
      OBVIOUS
    <3>3. BS!CloseHalf
      BY <1>2, <2>1, <2>3, <3>1, <3>2, Zenon DEF BS!CloseHalf, BS!Open
    <3> QED
      BY <3>3 DEF BS!Next
  <2> QED
    BY <2>2, <2>3 DEF Inv, Typed, LoopOK
<1> QED
  BY <1>1, <1>2

\* A report of the end, by handleClose or connectDestroyed.
LEMMA StreamEnd ==
    ASSUME told \in {"up", "down"}, told' = "down", UNCHANGED <<accepted, sent, out>>,
           stale' = stale, wrShut' = wrShut
    PROVE  BS!Next \/ UNCHANGED BS!vars
<1>1. CASE told = "down"
  BY <1>1, StreamSame
<1>2. CASE told = "up"
  <2>1. (told' = "up" /\ IsWriting(chan')) = FALSE /\ ReadableBytes(out') = ReadableBytes(out)
    OBVIOUS
  <2>2. BS!End
    BY <1>2, <2>1, Zenon DEF BS!End
  <2> QED
    BY <2>2 DEF BS!Next
<1> QED
  BY <1>1, <1>2

LEMMA StreamStep == Inv /\ [Next]_vars => [BS!Next]_(BS!vars)
<1> SUFFICES ASSUME Inv, [Next]_vars PROVE BS!Next \/ UNCHANGED BS!vars
  OBVIOUS
<1>0. Inv'
  BY NextInv
<1> USE DEF connVars, serverVars, loopVars, batch, appVars, kernelVars, history
<1>1. CASE NewConnection
  <2>1. /\ told' = "up" /\ state = "none" /\ UNCHANGED <<accepted, sent, out>>
        /\ stale' = stale /\ wrShut' = wrShut /\ chan' = EnableReading(NewChannel)
    BY <1>1, Zenon DEF NewConnection
  <2>2. told = "nothing"
    BY <2>1 DEF Inv, NoneInv
  <2>3. ~IsWriting(chan')
    BY <2>1 DEF EnableReading, NewChannel, UpdateChannel, EpollAdd, IsWriting, kNew, kAdded,
                kDeleted, kNoneEvent, kReadEvent, kWriteEvent
  <2>4. (told' = "up" /\ IsWriting(chan')) = (told = "up" /\ IsWriting(chan))
    BY <2>2, <2>3
  <2>5. ReadableBytes(out') = ReadableBytes(out)
    BY <2>1
  <2>6. BS!Begin
    BY <2>1, <2>2, <2>4, <2>5, Zenon DEF BS!Begin
  <2> QED
    BY <2>6 DEF BS!Next
<1>2. CASE CloseEvent \/ ReadEof
  <2>1. /\ todo # <<>> /\ told' = "down" /\ UNCHANGED <<accepted, sent, out>>
        /\ stale' = stale /\ wrShut' = wrShut
    BY <1>2, Zenon DEF CloseEvent, ReadEof, Dispatch, HandleClose
  <2>2. told \in {"up", "down"}
    BY <2>1, Started DEF Inv, Typed, LoopOK
  <2> QED
    BY <2>1, <2>2, StreamEnd
<1>3. CASE RunConnectDestroyed \/ DestroyServer
  <2>1. /\ stale' = stale /\ wrShut' = wrShut /\ UNCHANGED <<accepted, sent, out>>
        /\ ConnectDestroyed \/ UNCHANGED <<told, chan>>
    BY <1>3, Zenon DEF RunConnectDestroyed, DestroyServer
  <2>2. CASE UNCHANGED <<told, chan>>
    BY <2>1, <2>2, StreamSame
  <2>3. CASE ConnectDestroyed /\ state = "kConnected"
    <3>1. told' = "down"
      BY <2>3 DEF ConnectDestroyed
    <3>2. told \in {"up", "down"}
      BY <2>3, Started DEF Inv, Typed, LoopOK
    <3> QED
      BY <2>1, <3>1, <3>2, StreamEnd
  <2>4. CASE ConnectDestroyed /\ state # "kConnected"
    <3>1. told' = told /\ chan' = RemoveChannel(chan)
      BY <2>4 DEF ConnectDestroyed
    <3>2. IsWriting(chan') <=> IsWriting(chan)
      BY <3>1, RemoveKeepsWriting DEF Inv, Typed, ConnOK
    <3> QED
      BY <2>1, <3>1, <3>2, StreamSame
  <2> QED
    BY <2>1, <2>2, <2>3, <2>4
<1>4. CASE WriteSome
  BY <1>0, <1>4, StreamWrite
<1>5. ASSUME NEW n \in Lens, RunSendInLoop(n) \/ Send(n)
      PROVE  BS!Next \/ UNCHANGED BS!vars
  <2>1. CASE SendInLoop(n, pending)
    <3>1. told # "nothing"
      <4>1. cb # "none" \/ functors # <<>>
        BY <1>5, QueueRun DEF RunSendInLoop, Send, Inv, Typed, QueueOK
      <4> QED
        BY <4>1, Started DEF Inv
    <3> QED
      BY <1>0, <2>1, <3>1, StreamSend
  <2>2. CASE UNCHANGED <<connVars, kernelVars, history>>
    <3>1. UNCHANGED <<told, accepted, sent, out, chan>> /\ stale' = stale /\ wrShut' = wrShut
      BY <2>2, Zenon
    <3> QED
      BY <3>1, StreamSame
  <2> QED
    BY <1>5, <2>1, <2>2, Zenon DEF RunSendInLoop, Send
<1>6. CASE RunShutdownInLoop \/ Shutdown
  <2>1. ShutdownInLoop /\ UNCHANGED <<told, accepted, sent, chan, out>> /\ stale' = stale
    BY <1>6, Zenon DEF RunShutdownInLoop, Shutdown
  <2>2. cb # "none" \/ functors # <<>>
    BY <1>6, QueueRun DEF RunShutdownInLoop, Shutdown, Inv, Typed, QueueOK
  <2>3. told # "nothing"
    BY <2>2, Started DEF Inv
  <2> QED
    BY <1>0, <2>1, <2>3, StreamShut
<1>7. CASE \/ Poll \/ ReadData \/ ReadError \/ WriteNothing \/ SwapFunctors \/ FinishBatch
           \/ RunWriteComplete \/ RunHighWaterMark \/ RunDangling \/ PeerStep \/ UNCHANGED vars
           \/ \E t \in Threads : GivePointer(t) \/ ThreadStep(t)
  <2>1. UNCHANGED <<told, accepted, sent, out, chan>> /\ stale' = stale /\ wrShut' = wrShut
    BY <1>7, Zenon
       DEF Poll, ReadData, ReadError, WriteNothing, SwapFunctors, FinishBatch,
           RunWriteComplete, RunHighWaterMark, RunDangling, PeerStep, PeerSends, PeerReads,
           PeerCloses, PeerResets, PeerUnchanged, vars, GivePointer, ThreadStep, ThreadDrops,
           ThreadChecks, ThreadSends, ThreadSetsState, ThreadShuts
  <2> QED
    BY <2>1, StreamSame
<1>8. CASE CallbackReturns
  <2>1. UNCHANGED <<told, accepted, sent, out>> /\ stale' = stale /\ wrShut' = wrShut
    BY <1>8, Zenon DEF CallbackReturns
  <2>2. chan' = chan \/ after = "remove"
    BY <1>8 DEF CallbackReturns
  <2>3. told = "up" => chan' = chan
    BY <2>2 DEF Inv, PhaseInv
  <2> QED
    BY <2>1, <2>3, StreamSame
<1> QED
  BY <1>1, <1>2, <1>3, <1>4, <1>5, <1>6, <1>7, <1>8 DEF Next, LoopStep, CallbackCall

\* Of the bytes that are taken from the application each is sent once and in its turn, and the
\* FIN is sent once and behind the last: no direct write of sendInLoop passes what waits in
\* outputBuffer_ and nothing is stored behind the FIN.  The stale bytes that handleWrite sends as
\* well come after the last byte that waited, and only if a byte had to wait.  No interleaving of
\* threads, events and functors makes it otherwise.
THEOREM Refinement == Spec => ImplementsByteStream
<1>1. ASSUME Init PROVE BS!Init
  <2>1. /\ told = "nothing" /\ accepted = 0 /\ sent = 0 /\ stale = FALSE /\ wrShut = FALSE
        /\ out = NewBuffer
    BY <1>1, Zenon DEF Init
  <2>2. ReadableBytes(out) = 0
    BY <2>1, BufferAssumption DEF NewBuffer, ReadableBytes
  <2>3. (told = "up" /\ IsWriting(chan)) = FALSE
    BY <2>1
  <2> QED
    BY <2>1, <2>2, <2>3, Zenon DEF BS!Init
<1> QED
  BY <1>1, StreamStep, InvHolds, PTL DEF Spec, ImplementsByteStream, BS!Spec
=============================================================================
