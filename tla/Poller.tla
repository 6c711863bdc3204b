-------------------------------- MODULE Poller --------------------------------
(***************************************************************************)
(* EPollPoller with the Channels of one loop: channels are constructed on  *)
(* an fd, enabled, disabled, removed and destroyed by their owners in any  *)
(* legal order, fd numbers are reused, and poll() reports a part of what   *)
(* is ready.  All of it runs on the loop thread.                           *)
(***************************************************************************)
EXTENDS Channel, SequencesExt

CONSTANTS Chans,              \* Channel objects
          Fds,                \* file descriptor numbers
          NoChan,             \* absent entry of channels_
          Conditions,         \* epoll events that can occur on an fd
          InitEventListSize   \* kInitEventListSize

ASSUME PollerAssumption ==
    /\ NoChan \notin Chans
    /\ Conditions \subseteq EpollEvents
    /\ InitEventListSize \in Nat \ {0}

VARIABLES
    live,      \* channels that are constructed and not destroyed
    fd,        \* fd_ of each live channel
    chan,      \* its state and registration (module Channel)
    channels,  \* channels_, the map of Poller
    cond,      \* kernel: what holds on each fd
    active,    \* activeChannels still to be handled
    revents,   \* revents_ of those, {} once handled
    capacity   \* events_.size()

vars == <<live, fd, chan, channels, cond, active, revents, capacity>>

TypeOK ==
    /\ live \subseteq Chans
    /\ fd \in [Chans -> Fds]
    /\ chan \in [Chans -> ChannelType]
    /\ channels \in [Fds -> Chans \cup {NoChan}]
    /\ cond \in [Fds -> SUBSET EpollEvents]
    /\ active \subseteq Chans
    /\ revents \in [Chans -> SUBSET EpollEvents]
    /\ capacity \in Nat \ {0}

Init ==
    /\ live = {} /\ active = {}
    /\ fd \in {[c \in Chans |-> f] : f \in Fds}
    /\ chan = [c \in Chans |-> NewChannel]
    /\ channels = [f \in Fds |-> NoChan]
    /\ cond = [f \in Fds |-> {}]
    /\ revents = [c \in Chans |-> {}]
    /\ capacity = InitEventListSize

\* Channel::Channel, on an fd the kernel has just handed out.
Construct(c, f) ==
    /\ c \notin live
    /\ \A d \in live : fd[d] # f
    /\ live' = live \cup {c}
    /\ fd' = [fd EXCEPT ![c] = f]
    /\ chan' = [chan EXCEPT ![c] = NewChannel]
    /\ cond' = [cond EXCEPT ![f] = {}]
    /\ UNCHANGED <<channels, active, revents, capacity>>

\* updateChannel after events_ has changed: channels_[fd] = channel for a new one.
Update(c, ch) ==
    /\ c \in live
    /\ chan' = [chan EXCEPT ![c] = ch]
    /\ channels' = IF chan[c].index = kNew THEN [channels EXCEPT ![fd[c]] = c] ELSE channels
    /\ UNCHANGED <<live, fd, cond, active, revents, capacity>>

SetInterest(c) ==
    \/ Update(c, EnableReading(chan[c]))
    \/ Update(c, DisableReading(chan[c]))
    \/ Update(c, EnableWriting(chan[c]))
    \/ Update(c, DisableWriting(chan[c]))
    \/ Update(c, DisableAll(chan[c]))

\* channels_.erase(fd).
Erased_Nothing(f) == channels   \* mutant
Erased(f) == [channels EXCEPT ![f] = NoChan]

\* removeChannel.  Owners remove outside the dispatch of the channel: connectDestroyed
\* is a functor, the destructors of Acceptor and EventLoop run when the loop does not.
ChannelRemove(c) ==
    /\ c \in live \ active
    /\ chan' = [chan EXCEPT ![c] = RemoveChannel(chan[c])]
    /\ channels' = Erased(fd[c])
    /\ UNCHANGED <<live, fd, cond, active, revents, capacity>>

\* ~Channel and close(fd), after remove(); the kernel drops the entry of a closed fd.
Destroy(c) ==
    /\ c \in live \ active
    /\ chan[c].index = kNew
    /\ live' = live \ {c}
    /\ chan' = [chan EXCEPT ![c] = NewChannel]
    /\ UNCHANGED <<fd, channels, cond, active, revents, capacity>>

-----------------------------------------------------------------------------

ReadyChannels == {c \in live : Reported(chan[c], cond[fd[c]]) # {}}

\* events_.resize(): a list that was filled is doubled for the next call.
NextCapacity_Fixed(n) == capacity   \* mutant
NextCapacity(n) == IF n = capacity THEN 2 * capacity ELSE capacity

\* poll() and fillActiveChannels(): epoll_wait picks at most events_.size() of the ready
\* fds, any of them.
Poll ==
    /\ active = {} /\ ReadyChannels # {}
    /\ \E S \in kSubset(Min({capacity, Cardinality(ReadyChannels)}), ReadyChannels) :
        /\ active' = S
        /\ revents' = [c \in Chans |-> IF c \in S THEN Reported(chan[c], cond[fd[c]]) ELSE {}]
        /\ capacity' = NextCapacity(Cardinality(S))
    /\ UNCHANGED <<live, fd, chan, channels, cond>>

\* handleEvent: the read callback takes the input, the write callback fills the socket.
HandleEvent(c) ==
    /\ c \in active
    /\ active' = active \ {c}
    /\ revents' = [revents EXCEPT ![c] = {}]
    /\ LET ran == ToSet(Callbacks(revents[c])) IN
       cond' = [cond EXCEPT ![fd[c]] =
                  @ \ ((IF "read" \in ran THEN kReadEvent ELSE {})
                       \cup (IF "write" \in ran THEN kWriteEvent ELSE {}))]
    /\ UNCHANGED <<live, fd, chan, channels, capacity>>

\* The kernel: something happens on the fd of a live channel.
Occurs(c, e) ==
    /\ c \in live
    /\ cond' = [cond EXCEPT ![fd[c]] = @ \cup {e}]
    /\ UNCHANGED <<live, fd, chan, channels, active, revents, capacity>>

Next ==
    \/ \E c \in Chans :
        \/ \E f \in Fds : Construct(c, f)
        \/ SetInterest(c) \/ ChannelRemove(c) \/ Destroy(c)
        \/ HandleEvent(c)
        \/ \E e \in Conditions : Occurs(c, e)
    \/ Poll

Spec == Init /\ [][Next]_vars

\* The loop polls again and handles what it was given.
FairSpec == Spec /\ WF_vars(Poll) /\ WF_vars(\E c \in Chans : HandleEvent(c))

-----------------------------------------------------------------------------
(* Properties.                                                             *)

\* index_ and the kernel's interest list never drift apart, whatever is enabled, disabled
\* and removed in whatever order: epoll_ctl is never called in a way that fails (and so
\* never reaches LOG_FATAL), and what the kernel watches is exactly events_.
InterestInSync == \A c \in live : InSync(chan[c])

\* channels_ holds live channels only, each under its own fd, and exactly those that were
\* added and not removed, although fd numbers are reused by later channels.
MapInSync ==
    /\ \A f \in Fds : channels[f] # NoChan =>
           channels[f] \in live /\ fd[channels[f]] = f /\ chan[channels[f]].index # kNew
    /\ \A c \in live : chan[c].index # kNew => channels[fd[c]] = c

\* Input on a channel that stays interested in it is read, however many fds are ready
\* and whichever of them epoll_wait picks: the list it fills grows.
InputServed ==
    \A c \in Chans :
        (c \in live /\ "IN" \in Reported(chan[c], cond[fd[c]]))
            ~> (c \notin live \/ "IN" \notin Reported(chan[c], cond[fd[c]]))
=============================================================================
