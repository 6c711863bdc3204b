---------------------------- MODULE Poller_proofs ----------------------------
(* What holds of Poller for every set of channels and fd numbers. *)
EXTENDS Poller, Channel_proofs

\* Types, and every Channel object in agreement with its registration.
Typed == TypeOK /\ \A c \in Chans : GoodChannel(chan[c])

\* No two live channels share an fd, and a channel that does not live is not added.
Owned ==
    /\ \A c, d \in live : fd[c] = fd[d] => c = d
    /\ \A c \in Chans \ live : chan[c].index = kNew

\* The inductive invariant.
Inv == Typed /\ Owned /\ MapInSync /\ active \subseteq live

LEMMA InitInv == Init => Inv
<1> SUFFICES ASSUME Init PROVE Inv
  OBVIOUS
<1> USE DEF Init
<1>1. NewChannel \in ChannelType /\ NewChannel.index = kNew
  BY NewChannelGood DEF GoodChannel, NewChannel
<1>2. TypeOK
  BY <1>1, PollerAssumption DEF TypeOK
<1>3. \A c \in Chans : GoodChannel(chan[c])
  BY NewChannelGood
<1>4. Owned /\ MapInSync /\ active \subseteq live
  BY <1>1 DEF Owned, MapInSync
<1> QED
  BY <1>2, <1>3, <1>4 DEF Inv, Typed

LEMMA ConstructInv ==
    ASSUME Inv, NEW c \in Chans, NEW f \in Fds, Construct(c, f)
    PROVE  Inv'
<1> USE DEF Construct, Inv, Typed
<1>1. NewChannel \in ChannelType /\ NewChannel.index = kNew
  BY NewChannelGood DEF GoodChannel, NewChannel
<1>2. TypeOK'
  BY <1>1 DEF TypeOK
<1>3. \A e \in Chans : GoodChannel(chan[e])'
  BY NewChannelGood DEF TypeOK
<1>4. Owned'
  BY <1>1 DEF Owned, TypeOK
<1>5. MapInSync'
  BY <1>1, PollerAssumption DEF MapInSync, TypeOK, Owned
<1>6. (active \subseteq live)'
  OBVIOUS
<1> QED
  BY <1>2, <1>3, <1>4, <1>5, <1>6

\* Every SetInterest is an updateChannel after some change of events_.
LEMMA UpdateInv ==
    ASSUME Inv, NEW c \in Chans, NEW ch, Update(c, ch), GoodChannel(ch), ch.index # kNew
    PROVE  Inv'
<1> USE DEF Update, Inv, Typed
<1>1. TypeOK'
  BY DEF TypeOK, GoodChannel
<1>2. \A e \in Chans : GoodChannel(chan[e])'
  BY DEF TypeOK
<1>3. Owned'
  BY DEF Owned, TypeOK
<1>4. MapInSync'
  BY PollerAssumption DEF MapInSync, TypeOK, Owned
<1>5. (active \subseteq live)'
  OBVIOUS
<1> QED
  BY <1>1, <1>2, <1>3, <1>4, <1>5

LEMMA SetInterestInv ==
    ASSUME Inv, NEW c \in Chans, SetInterest(c)
    PROVE  Inv'
<1>1. GoodChannel(chan[c]) /\ chan[c].events \in SUBSET EpollEvents
  BY DEF Inv, Typed, GoodChannel, ChannelType
<1>2. PICK n \in SUBSET EpollEvents : Update(c, UpdateChannel([chan[c] EXCEPT !.events = n]))
  BY <1>1 DEF SetInterest, EnableReading, DisableReading, EnableWriting, DisableWriting,
              DisableAll, kReadEvent, kWriteEvent, kNoneEvent, EpollEvents
<1> QED
  BY <1>1, <1>2, UpdateInv, UpdateChannelGood

LEMMA ChannelRemoveInv ==
    ASSUME Inv, NEW c \in Chans, ChannelRemove(c)
    PROVE  Inv'
<1> USE DEF ChannelRemove, Inv, Typed
<1>1. GoodChannel(RemoveChannel(chan[c])) /\ RemoveChannel(chan[c]).index = kNew
  BY RemoveChannelGood
<1>2. TypeOK'
  BY <1>1 DEF Erased, TypeOK, GoodChannel
<1>3. \A e \in Chans : GoodChannel(chan[e])'
  BY <1>1 DEF TypeOK
<1>4. Owned'
  BY <1>1 DEF Owned, TypeOK
<1>5. MapInSync'
  BY <1>1, PollerAssumption DEF Erased, MapInSync, TypeOK, Owned
<1>6. (active \subseteq live)'
  OBVIOUS
<1> QED
  BY <1>2, <1>3, <1>4, <1>5, <1>6

LEMMA DestroyInv ==
    ASSUME Inv, NEW c \in Chans, Destroy(c)
    PROVE  Inv'
<1> USE DEF Destroy, Inv, Typed
<1>1. NewChannel \in ChannelType /\ NewChannel.index = kNew
  BY NewChannelGood DEF GoodChannel, NewChannel
<1>2. TypeOK'
  BY <1>1 DEF TypeOK
<1>3. \A e \in Chans : GoodChannel(chan[e])'
  BY NewChannelGood DEF TypeOK
<1>4. Owned'
  BY <1>1 DEF Owned, TypeOK
<1>5. MapInSync'
  BY <1>1, PollerAssumption DEF MapInSync, TypeOK, Owned
<1>6. (active \subseteq live)'
  OBVIOUS
<1> QED
  BY <1>2, <1>3, <1>4, <1>5, <1>6

\* poll() reports live channels, and the list it fills stays non-empty.
LEMMA PollInv ==
    ASSUME Inv, Poll
    PROVE  Inv'
<1> USE DEF Inv, Typed
<1>1. PICK S \in SUBSET ReadyChannels :
        /\ active' = S
        /\ revents' = [c \in Chans |-> IF c \in S THEN Reported(chan[c], cond[fd[c]]) ELSE {}]
        /\ capacity' = IF Cardinality(S) = capacity THEN 2 * capacity ELSE capacity
  BY DEF NextCapacity, Poll, kSubset
<1>2. S \subseteq live
  BY <1>1 DEF ReadyChannels
<1>3. \A c \in Chans : Reported(chan[c], cond[fd[c]]) \subseteq EpollEvents
  BY DEF TypeOK, Reported
<1>4. TypeOK'
  BY <1>1, <1>2, <1>3 DEF TypeOK, Poll
<1>5. UNCHANGED <<live, fd, chan, channels>>
  BY DEF Poll
<1> QED
  BY <1>1, <1>2, <1>4, <1>5 DEF Owned, MapInSync

LEMMA HandleEventInv ==
    ASSUME Inv, NEW c \in Chans, HandleEvent(c)
    PROVE  Inv'
<1> USE DEF Inv, Typed
<1>1. TypeOK'
  BY DEF TypeOK, HandleEvent
<1>2. UNCHANGED <<live, fd, chan, channels>> /\ active' \subseteq active
  BY DEF HandleEvent
<1> QED
  BY <1>1, <1>2 DEF Owned, MapInSync

LEMMA OccursInv ==
    ASSUME Inv, NEW c \in Chans, NEW e \in Conditions, Occurs(c, e)
    PROVE  Inv'
<1> USE DEF Inv, Typed
<1>1. TypeOK'
  BY PollerAssumption DEF TypeOK, Occurs
<1>2. UNCHANGED <<live, fd, chan, channels, active>>
  BY DEF Occurs
<1> QED
  BY <1>1, <1>2 DEF Owned, MapInSync

\* Inv is inductive and holds in every reachable state.
THEOREM InvHolds == Spec => []Inv
<1>1. ASSUME Inv, [Next]_vars PROVE Inv'
  <2>1. CASE \E c \in Chans, f \in Fds : Construct(c, f)
    BY <1>1, <2>1, ConstructInv
  <2>2. CASE \E c \in Chans : SetInterest(c)
    BY <1>1, <2>2, SetInterestInv
  <2>3. CASE \E c \in Chans : ChannelRemove(c)
    BY <1>1, <2>3, ChannelRemoveInv
  <2>4. CASE \E c \in Chans : Destroy(c)
    BY <1>1, <2>4, DestroyInv
  <2>5. CASE \E c \in Chans : HandleEvent(c)
    BY <1>1, <2>5, HandleEventInv
  <2>6. CASE \E c \in Chans, e \in Conditions : Occurs(c, e)
    BY <1>1, <2>6, OccursInv
  <2>7. CASE Poll
    BY <1>1, <2>7, PollInv
  <2>8. CASE UNCHANGED vars
    BY <1>1, <2>8 DEF vars, Inv, Typed, TypeOK, Owned, MapInSync
  <2> QED
    BY <1>1, <2>1, <2>2, <2>3, <2>4, <2>5, <2>6, <2>7, <2>8 DEF Next
<1> QED
  BY <1>1, InitInv, PTL DEF Spec

\* The state stays well typed; in particular events_ keeps room for one event.
THEOREM TypeCorrect == Spec => []TypeOK
<1>1. Inv => TypeOK
  BY DEF Inv, Typed
<1> QED
  BY <1>1, InvHolds, PTL

\* For any number of channels and fd numbers: no order of enable, disable, remove,
\* destruction and reuse of fd numbers makes epoll_ctl fail, or leaves the kernel watching
\* something else than events_.
THEOREM InterestAlwaysInSync == Spec => []InterestInSync
<1>1. Inv => InterestInSync
  BY DEF Inv, Typed, TypeOK, GoodChannel, InterestInSync
<1> QED
  BY <1>1, InvHolds, PTL

\* channels_ never keeps a channel that was removed or destroyed, and never misses one.
THEOREM MapAlwaysInSync == Spec => []MapInSync
<1>1. Inv => MapInSync
  BY DEF Inv
<1> QED
  BY <1>1, InvHolds, PTL
=============================================================================
