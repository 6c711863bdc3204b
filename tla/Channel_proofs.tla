--------------------------- MODULE Channel_proofs ---------------------------
(* What the operations on a channel keep and establish. *)
EXTENDS Channel, TLAPS

\* A channel as its owner may find it, between two operations.
GoodChannel(ch) == ch \in ChannelType /\ InSync(ch)

LEMMA NewChannelGood == GoodChannel(NewChannel)
  BY DEF GoodChannel, NewChannel, ChannelType, Entries, InSync, kNoneEvent, kNew, kAdded, kDeleted

\* Three different values.
LEMMA IndexesDiffer == kNew # kAdded /\ kDeleted # kAdded /\ kNew # kDeleted
  BY DEF kNew, kAdded, kDeleted

\* The good channels, field by field.
Added(e) ==
    [index |-> kAdded, events |-> e, entry |-> "present", interest |-> e]
NotAdded(i, e, m) ==
    [index |-> i, events |-> e, entry |-> "none", interest |-> m]

LEMMA AddedGood ==
    ASSUME NEW e \in SUBSET EpollEvents
    PROVE  GoodChannel(Added(e)) /\ Added(e).index # kNew
  BY IndexesDiffer DEF GoodChannel, InSync, ChannelType, Entries, Added

LEMMA NotAddedGood ==
    ASSUME NEW i \in {kNew, kDeleted},
           NEW e \in SUBSET EpollEvents, NEW m \in SUBSET EpollEvents
    PROVE  GoodChannel(NotAdded(i, e, m)) /\ NotAdded(i, e, m).index = i
  BY IndexesDiffer DEF GoodChannel, InSync, ChannelType, Entries, NotAdded

LEMMA GoodIsEither ==
    ASSUME NEW ch, GoodChannel(ch)
    PROVE  \/ \E e \in SUBSET EpollEvents : ch = Added(e)
           \/ \E i \in {kNew, kDeleted}, e \in SUBSET EpollEvents, m \in SUBSET EpollEvents :
                  ch = NotAdded(i, e, m)
<1>1. PICK i \in {kNew, kAdded, kDeleted}, e \in SUBSET EpollEvents, n \in Entries,
           m \in SUBSET EpollEvents :
         ch = [index |-> i, events |-> e, entry |-> n, interest |-> m]
  <2>1. ch = [index |-> ch.index, events |-> ch.events, entry |-> ch.entry,
              interest |-> ch.interest]
    BY DEF GoodChannel, ChannelType
  <2> QED
    BY <2>1 DEF GoodChannel, ChannelType
<1>2. CASE i = kAdded
  BY <1>1, <1>2 DEF GoodChannel, InSync, Added
<1>3. CASE i # kAdded
  BY <1>1, <1>3 DEF GoodChannel, InSync, NotAdded
<1> QED
  BY <1>2, <1>3

\* updateChannel after a change of events_: an empty mask takes a registered channel off the
\* poller, everything else is registered.
LEMMA UpdateChannelIs ==
    ASSUME NEW ch, GoodChannel(ch), NEW n \in SUBSET EpollEvents
    PROVE  LET u == UpdateChannel([ch EXCEPT !.events = n]) IN
           /\ u = Added(n) \/ u = NotAdded(kDeleted, n, {})
           /\ n # kNoneEvent => u = Added(n)
           /\ n = kNoneEvent /\ ch.entry = "present" => u = NotAdded(kDeleted, n, {})
<1> DEFINE d == [ch EXCEPT !.events = n]
<1>1. ASSUME NEW i \in {kNew, kDeleted}, NEW e \in SUBSET EpollEvents,
             NEW m \in SUBSET EpollEvents, ch = NotAdded(i, e, m)
      PROVE  UpdateChannel(d) = Added(n)
  <2>1. d = NotAdded(i, n, m)
    BY <1>1 DEF NotAdded
  <2> QED
    BY <2>1 DEF UpdateChannel, EpollAdd, NotAdded, Added
<1>2. ASSUME NEW e \in SUBSET EpollEvents, ch = Added(e)
      PROVE  UpdateChannel(d) = IF n = kNoneEvent THEN NotAdded(kDeleted, n, {}) ELSE Added(n)
  <2>1. d = [index |-> kAdded, events |-> n, entry |-> "present", interest |-> e]
    BY <1>2 DEF Added
  <2> HIDE DEF d
  <2>2. CASE n = kNoneEvent
    <3>1. UpdateChannel(d) = [EpollDel(d) EXCEPT !.index = kDeleted]
      BY <2>1, <2>2, IndexesDiffer DEF UpdateChannel
    <3> QED
      BY <2>1, <2>2, <3>1 DEF EpollDel, NotAdded
  <2>3. CASE n # kNoneEvent
    <3>1. UpdateChannel(d) = EpollMod(d)
      BY <2>1, <2>3, IndexesDiffer DEF UpdateChannel
    <3> QED
      BY <2>1, <2>3, <3>1 DEF EpollMod, Added
  <2> QED
    BY <2>2, <2>3
<1>3. ch.entry = "present" => \E e \in SUBSET EpollEvents : ch = Added(e)
  BY GoodIsEither DEF NotAdded
<1> QED
  BY <1>1, <1>2, <1>3, GoodIsEither

\* updateChannel restores the agreement that the change of events_ has broken.
LEMMA UpdateChannelGood ==
    ASSUME NEW ch, GoodChannel(ch), NEW n \in SUBSET EpollEvents
    PROVE  /\ GoodChannel(UpdateChannel([ch EXCEPT !.events = n]))
           /\ UpdateChannel([ch EXCEPT !.events = n]).index # kNew
<1>1. kDeleted # kNew /\ {} \in SUBSET EpollEvents
  BY IndexesDiffer
<1> QED
  BY <1>1, UpdateChannelIs, AddedGood, NotAddedGood

LEMMA RemoveChannelGood ==
    ASSUME NEW ch, GoodChannel(ch)
    PROVE  GoodChannel(RemoveChannel(ch)) /\ RemoveChannel(ch).index = kNew
<1>1. ASSUME NEW i \in {kNew, kDeleted}, NEW e \in SUBSET EpollEvents,
             NEW m \in SUBSET EpollEvents, ch = NotAdded(i, e, m)
      PROVE  RemoveChannel(ch) = NotAdded(kNew, e, m)
  BY <1>1, IndexesDiffer DEF RemoveChannel, NotAdded
<1>2. ASSUME NEW e \in SUBSET EpollEvents, ch = Added(e)
      PROVE  RemoveChannel(ch) = NotAdded(kNew, e, {})
  BY <1>2 DEF RemoveChannel, EpollDel, NotAdded, Added
<1>3. \E e \in SUBSET EpollEvents, m \in SUBSET EpollEvents :
         RemoveChannel(ch) = NotAdded(kNew, e, m)
  BY <1>1, <1>2, GoodIsEither
<1> QED
  BY <1>3, NotAddedGood

\* What enableReading, disableAll and remove leave behind.
LEMMA EnableReadingGood ==
    ASSUME NEW ch, GoodChannel(ch)
    PROVE  GoodChannel(EnableReading(ch)) /\ EnableReading(ch).entry = "present"
<1> DEFINE n == ch.events \cup kReadEvent
<1>1. n \in SUBSET EpollEvents /\ n # kNoneEvent
  BY DEF GoodChannel, ChannelType, kReadEvent, kNoneEvent, EpollEvents
<1>2. EnableReading(ch) = Added(n)
  <2>1. ch.events \in SUBSET EpollEvents
    BY DEF GoodChannel, ChannelType
  <2>2. UpdateChannel([ch EXCEPT !.events = n]) = Added(n)
    BY <1>1, UpdateChannelIs
  <2> QED
    BY <2>2 DEF EnableReading
<1> QED
  BY <1>1, <1>2, AddedGood DEF Added

LEMMA DisableAllGood ==
    ASSUME NEW ch, GoodChannel(ch)
    PROVE  /\ GoodChannel(DisableAll(ch))
           /\ ch.entry = "present" => DisableAll(ch).entry = "none"
<1>1. kNoneEvent \in SUBSET EpollEvents
  BY DEF kNoneEvent
<1>2. GoodChannel(DisableAll(ch))
  BY <1>1, UpdateChannelGood DEF DisableAll
<1>3. ASSUME ch.entry = "present" PROVE DisableAll(ch) = NotAdded(kDeleted, kNoneEvent, {})
  BY <1>1, <1>3, UpdateChannelIs, Zenon DEF DisableAll
<1>4. NotAdded(kDeleted, kNoneEvent, {}).entry = "none"
  BY DEF NotAdded
<1> QED
  BY <1>2, <1>3, <1>4

LEMMA RemovedEntry ==
    ASSUME NEW ch, GoodChannel(ch)
    PROVE  ch.index = kNew => ch.entry = "none"
  BY IndexesDiffer DEF GoodChannel, InSync

LEMMA EnableWritingGood ==
    ASSUME NEW ch, GoodChannel(ch)
    PROVE  /\ GoodChannel(EnableWriting(ch)) /\ EnableWriting(ch).entry = "present"
           /\ EnableWriting(ch).events = ch.events \cup kWriteEvent
<1> DEFINE n == ch.events \cup kWriteEvent
<1>1. n \in SUBSET EpollEvents /\ n # kNoneEvent
  BY DEF GoodChannel, ChannelType, kWriteEvent, kNoneEvent, EpollEvents
<1>2. EnableWriting(ch) = Added(n)
  <2>1. UpdateChannel([ch EXCEPT !.events = n]) = Added(n)
    BY <1>1, UpdateChannelIs
  <2>2. EnableWriting(ch) = UpdateChannel([ch EXCEPT !.events = n])
    BY DEF EnableWriting, GoodChannel, ChannelType
  <2> QED
    BY <2>1, <2>2, Zenon
<1> QED
  BY <1>1, <1>2, AddedGood DEF Added

\* What becomes of the wanted events.
LEMMA DisableAllEvents ==
    ASSUME NEW ch, GoodChannel(ch)
    PROVE  DisableAll(ch).events = kNoneEvent
<1>1. kNoneEvent \in SUBSET EpollEvents
  BY DEF kNoneEvent
<1>2. \/ DisableAll(ch) = Added(kNoneEvent)
      \/ DisableAll(ch) = NotAdded(kDeleted, kNoneEvent, {})
  BY <1>1, UpdateChannelIs, Zenon DEF DisableAll
<1> QED
  BY <1>2 DEF Added, NotAdded

LEMMA EnableReadingEvents ==
    ASSUME NEW ch, GoodChannel(ch)
    PROVE  EnableReading(ch).events = ch.events \cup kReadEvent
<1> DEFINE n == ch.events \cup kReadEvent
<1>1. n \in SUBSET EpollEvents
  BY DEF GoodChannel, ChannelType, kReadEvent, EpollEvents
<1>2. EnableReading(ch) = UpdateChannel([ch EXCEPT !.events = n])
  BY DEF EnableReading, GoodChannel, ChannelType
<1>3. EnableReading(ch) = Added(n) \/ EnableReading(ch) = NotAdded(kDeleted, n, {})
  BY <1>1, <1>2, UpdateChannelIs, Zenon
<1> QED
  BY <1>3 DEF Added, NotAdded

LEMMA RemoveChannelEvents ==
    ASSUME NEW ch, GoodChannel(ch)
    PROVE  RemoveChannel(ch).events = ch.events
  BY DEF RemoveChannel, EpollDel, GoodChannel, ChannelType
=============================================================================
