------------------------------- MODULE Channel -------------------------------
(***************************************************************************)
(* A Channel and the epoll registration of its fd, as a record, and the    *)
(* operations of Channel and EPollPoller on it as functions of the record. *)
(* Masks of epoll events are sets.                                         *)
(***************************************************************************)
EXTENDS Integers, Sequences

kNew     == -1
kAdded   == 1
kDeleted == 2

EpollEvents == {"IN", "PRI", "OUT", "ERR", "HUP"}
kNoneEvent  == {}
kReadEvent_RdHup == {"IN", "PRI", "RDHUP"}   \* mutant
kReadEvent  == {"IN", "PRI"}
kWriteEvent == {"OUT"}

\* The kernel's entry for the fd, or that epoll_ctl failed and LOG_FATAL ended the process.
Entries == {"none", "present", "fatal"}

ChannelType ==
    [index    : {kNew, kAdded, kDeleted},  \* index_
     events   : SUBSET EpollEvents,        \* events_
     entry    : Entries,
     interest : SUBSET EpollEvents]        \* the mask of the entry

NewChannel == [index |-> kNew, events |-> kNoneEvent, entry |-> "none", interest |-> {}]

\* EPollPoller::update.  ADD of a registered fd and MOD of an unregistered one fail
\* and end the process; a failing DEL is only logged.
EpollAdd(ch) ==
    IF ch.entry = "none" THEN [ch EXCEPT !.entry = "present", !.interest = ch.events]
    ELSE [ch EXCEPT !.entry = "fatal"]
EpollMod(ch) ==
    IF ch.entry = "present" THEN [ch EXCEPT !.interest = ch.events]
    ELSE [ch EXCEPT !.entry = "fatal"]
EpollDel(ch) == [ch EXCEPT !.entry = "none", !.interest = {}]

UpdateChannel(ch) ==
    IF ch.index \in {kNew, kDeleted}
    THEN EpollAdd([ch EXCEPT !.index = kAdded])
    ELSE IF ch.events = kNoneEvent
         THEN [EpollDel(ch) EXCEPT !.index = kDeleted]
         ELSE EpollMod(ch)

RemoveChannel_NoDel(ch) == [ch EXCEPT !.index = kNew]   \* mutant
RemoveChannel(ch) ==
    IF ch.index = kAdded
    THEN [EpollDel(ch) EXCEPT !.index = kNew]
    ELSE [ch EXCEPT !.index = kNew]

EnableReading(ch)  == UpdateChannel([ch EXCEPT !.events = @ \cup kReadEvent])
DisableReading(ch) == UpdateChannel([ch EXCEPT !.events = @ \ kReadEvent])
EnableWriting_NoUpdate(ch) == [ch EXCEPT !.events = @ \cup kWriteEvent]   \* mutant
EnableWriting_Alone(ch) == UpdateChannel([ch EXCEPT !.events = kWriteEvent])   \* mutant
EnableWriting(ch)  == UpdateChannel([ch EXCEPT !.events = @ \cup kWriteEvent])
DisableWriting(ch) == UpdateChannel([ch EXCEPT !.events = @ \ kWriteEvent])
DisableAll(ch)     == UpdateChannel([ch EXCEPT !.events = kNoneEvent])

IsWriting(ch) == ch.events \cap kWriteEvent # {}

\* What epoll_wait reports for the fd when these conditions hold on it.
Reported(ch, conditions) ==
    IF ch.entry = "present" THEN conditions \cap (ch.interest \cup {"ERR", "HUP"}) ELSE {}

\* handleEventWithGuard: the callbacks that run for a set of reported events, in order.
\* The test for reading is revents_ & (EPOLLIN || EPOLLPRI), that is revents_ & 1: EPOLLIN.
Callbacks(revents) ==
    (IF "HUP" \in revents /\ "IN" \notin revents THEN <<"close">> ELSE <<>>)
    \o (IF "ERR" \in revents THEN <<"error">> ELSE <<>>)
    \o (IF "IN"  \in revents THEN <<"read">> ELSE <<>>)
    \o (IF "OUT" \in revents THEN <<"write">> ELSE <<>>)

\* index_, events_ and the kernel agree: a channel is registered iff it is kAdded, and then for
\* events_.
InSync(ch) ==
    /\ ch.entry = IF ch.index = kAdded THEN "present" ELSE "none"
    /\ ch.entry = "present" => ch.interest = ch.events
=============================================================================
