----------------------------- MODULE SocketLoop -----------------------------
(* SocketLoop: the net thread that owns epoll and the pool of sockets, and   *)
(* the threads that ask it to connect, listen, send and close through the    *)
(* command queue and an eventfd.  One action is one handler of the net       *)
(* thread, or one step of connect(), listen(), send() or close() between two *)
(* accesses to what the threads share.  getNewSocket() is one step here;     *)
(* SlotPool looks inside it.                                                 *)
(*                                                                           *)
(* An operator BadX is a faulty variant of X that the specification does not *)
(* use: it serves to see the property that guards against the slip fail.     *)
EXTENDS Integers, Sequences, FiniteSets

CONSTANTS
    Threads,     \* the threads that call the loop
    MaxSocket,   \* m_maxSocket
    Fds,         \* the file descriptors the process may have, besides the eventfd
    Loads        \* what the application does, one of several workloads:
                 \*   threads, fds: the threads that call, the descriptors they may have
                 \*   ops: the calls they make, "connect", "listen", "send", "close"
                 \*        (of a connection), "unlisten" (close of a listener)
                 \*   lens: the sizes of the payloads sent
                 \*   births, sends, closes: bounds, how often a slot is taken, and
                 \*        calls of send() and close()
                 \*   arrivals: bound, connections that peers open to listeners

ASSUME LoopAssumption ==
    /\ MaxSocket \in Nat \ {0}
    /\ Fds \subseteq Nat
    /\ \A l \in Loads :
          /\ l.threads \subseteq Threads /\ l.fds \subseteq Fds
          /\ l.lens \subseteq Nat
          /\ l.births \in Nat /\ l.sends \in Nat /\ l.closes \in Nat /\ l.arrivals \in Nat

VARIABLES
    \* the pool
    cursor,     \* hash(m_allocId)
    status, type, fd,   \* Socket::status, type and fd of every slot
    wbuf,       \* Socket::writeBuffer, its bytes in order (see Bytes)
    connTimer,  \* the ids in m_connTimeout
    \* the command queue and the eventfd that announces it
    queue, efd, edge,
    \* the kernel and the poller
    open, lfds,  \* open descriptors, and those of them that listen
    epoll,       \* the events a descriptor is registered for ({}: not registered)
    ud,          \* the slot registered with it
    mask,        \* SocketPoller::m_fdEvent
    backlog,     \* connections that wait to be accepted, by listening descriptor
    ledges,      \* the listening descriptors that epoll has an edge to report for
    \* the net thread
    netpc, cur, batch,
    \* the calling threads, and the workload
    pc, loc, load,
    \* history
    births,     \* every time a slot was taken: which, and by what
    born,       \* the number of the slot's present use
    calls,      \* the handler's callbacks for the present use
    sent, wire, \* bytes accepted for the connection, bytes the kernel took
    sends, closes,
    arrivals,
    refused,    \* listeners that turned a connection away after the last that came
    early       \* a socket was closed between connect() and its Connect command

pool == <<cursor, status, type, fd, wbuf, connTimer>>
chan == <<queue, efd, edge>>
kernel == <<open, lfds, epoll, ud, mask>>
backlogs == <<backlog, ledges, arrivals, refused>>
net == <<netpc, cur, batch>>
app == <<pc, loc, load, sends, closes>>
hist == <<births, born, calls, sent, wire, early>>
vars == <<pool, chan, kernel, backlogs, net, app, hist>>

Slots == 0 .. MaxSocket - 1
NoFd == -1
Notifier == 0
\* The kernel gives out the lowest free descriptor.
FreeFds == {f \in load.fds \ open : \A g \in load.fds \ open : f <= g}

Status == {"Idle", "Reserse", "Listen", "Connecting", "Connected"}
Callbacks == {"onAccept", "onConnect", "onPacket", "onClose"}
Events == [slot : Slots, r : BOOLEAN, w : BOOLEAN]
Cmds == [type : {"Connect", "Listen", "Send", "Close"}, id : Slots,
         n : Nat, len : Nat]
Byte == Nat \X Nat

TypeOK ==
    /\ cursor \in Slots
    /\ status \in [Slots -> Status]
    /\ type \in [Slots -> {"Normal", "Listen", "Notify"}]
    /\ fd \in [Slots -> Fds \cup {NoFd}]
    /\ wbuf \in [Slots -> Seq(Byte)]
    /\ connTimer \subseteq Slots
    /\ queue \in Seq(Cmds)
    /\ efd \in BOOLEAN /\ edge \in BOOLEAN
    /\ open \subseteq Fds /\ lfds \subseteq open
    /\ epoll \in [Fds -> SUBSET {"R", "W"}]
    /\ ud \in [Fds -> Slots]
    /\ mask \in [Fds -> SUBSET {"R", "W"}]
    /\ netpc \in {"wait", "events", "write", "accept", "cmds", "timeout"}
    /\ cur \in Slots
    /\ batch \subseteq Events
    /\ pc \in [Threads -> {"out", "connect", "listen", "push", "notify"}]
    /\ loc \in [Threads -> [slot : Slots, fd : Fds \cup {NoFd}]]
    /\ births \in Seq([slot : Slots, kind : {"connect", "listen", "accept"}])
    /\ born \in [Slots -> Nat]
    /\ calls \in [Slots -> Seq(Callbacks)]
    /\ sent \in [Slots -> Seq(Byte)]
    /\ wire \in [Slots -> Seq(Byte)]
    /\ load \in Loads /\ sends \in 0 .. load.sends /\ closes \in 0 .. load.closes
    /\ early \in BOOLEAN
    /\ backlog \in [Fds -> Nat] /\ ledges \subseteq Fds /\ refused \subseteq Fds
    /\ arrivals \in 0 .. load.arrivals

\* After the constructor: slot 0 is the eventfd's, registered for reading.
Init ==
    /\ cursor = Notifier
    /\ status = [s \in Slots |-> IF s = Notifier THEN "Listen" ELSE "Idle"]
    /\ type = [s \in Slots |-> IF s = Notifier THEN "Notify" ELSE "Normal"]
    /\ fd = [s \in Slots |-> NoFd]
    /\ wbuf = [s \in Slots |-> <<>>]
    /\ connTimer = {}
    /\ queue = <<>> /\ efd = FALSE /\ edge = FALSE
    /\ open = {} /\ lfds = {}
    /\ epoll = [f \in Fds |-> {}]
    /\ ud = [f \in Fds |-> Notifier]
    /\ mask = [f \in Fds |-> {}]
    /\ netpc = "wait" /\ cur = Notifier /\ batch = {}
    /\ pc = [t \in Threads |-> "out"]
    /\ load \in Loads
    /\ loc = [t \in Threads |-> [slot |-> Notifier, fd |-> NoFd]]
    /\ births = <<>>
    /\ born = [s \in Slots |-> 0]
    /\ calls = [s \in Slots |-> <<>>]
    /\ sent = [s \in Slots |-> <<>>]
    /\ wire = [s \in Slots |-> <<>>]
    /\ sends = 0 /\ closes = 0
    /\ early = FALSE
    /\ backlog = [f \in Fds |-> 0] /\ ledges = {} /\ refused = {} /\ arrivals = 0

-----------------------------------------------------------------------------
(* Helpers *)

\* The bytes of the n-th payload.  An empty IoBuffer in writeBuffer is a mark
\* <<n, 0>>: it holds no byte and yet stands in the list.
Bytes(n, len) == IF len = 0 THEN << <<n, 0>> >> ELSE [k \in 1 .. len |-> <<n, k>>]

\* getNewSocket(): the first idle slot after the last one looked at.
Ahead(s) == (s - cursor - 1) % MaxSocket
BadIsNewSocket(s) ==
    /\ fd[s] = NoFd /\ type[s] # "Notify"
    /\ \A r \in Slots : fd[r] = NoFd /\ type[r] # "Notify" => Ahead(s) <= Ahead(r)
IsNewSocket(s) ==
    /\ status[s] = "Idle"
    /\ \A r \in Slots : status[r] = "Idle" => Ahead(s) <= Ahead(r)
Take(s, kind) ==
    /\ Len(births) < load.births
    /\ IsNewSocket(s)
    /\ cursor' = s
    /\ births' = Append(births, [slot |-> s, kind |-> kind])
    /\ born' = [born EXCEPT ![s] = Len(births')]
    /\ calls' = [calls EXCEPT ![s] = IF kind = "accept" THEN <<"onAccept">> ELSE <<>>]
    /\ sent' = [sent EXCEPT ![s] = <<>>]
    /\ wire' = [wire EXCEPT ![s] = <<>>]

\* A callback of the handler, and onPacket(), of which a run counts once.
Callback(s, cb) == calls' = [calls EXCEPT ![s] = Append(@, cb)]
WithPacket(s) ==
    IF calls[s] # <<>> /\ calls[s][Len(calls[s])] = "onPacket" THEN calls[s]
    ELSE Append(calls[s], "onPacket")

\* SocketPoller: the mask decides between EPOLL_CTL_ADD and EPOLL_CTL_MOD, and
\* the kernel refuses to add what is registered or to change what is not.
addEvent(f, e, s) ==
    LET add == mask[f] = {}
        done == add = (epoll[f] = {})
    IN  /\ mask' = [mask EXCEPT ![f] = @ \cup {e}]
        /\ epoll' = [epoll EXCEPT ![f] = IF done THEN mask'[f] ELSE @]
        /\ ud' = [ud EXCEPT ![f] = IF done THEN s ELSE @]

\* forceClose(): close() takes the descriptor out of epoll too ...
CloseFd(f) ==
    /\ open' = open \ {f}
    /\ lfds' = lfds \ {f}
    /\ epoll' = [g \in Fds |-> IF g = f THEN {} ELSE epoll[g]]

\* ... m_poll.del() forgets its mask ...
BadPollDel(f) == UNCHANGED mask
PollDel(f) == mask' = [g \in Fds |-> IF g = f THEN {} ELSE mask[g]]

\* ... the handler is told ...
BadOnClose(s, before) == calls' = [calls EXCEPT ![s] = before]
OnClose(s, before) == calls' = [calls EXCEPT ![s] = Append(before, "onClose")]

\* ... what was not written is thrown away ...
ClearBuffer(s) == wbuf' = [wbuf EXCEPT ![s] = <<>>]

\* ... and the slot is idle again.  Its type stays.
ResetSlot(s) ==
    /\ fd' = [fd EXCEPT ![s] = NoFd]
    /\ status' = [status EXCEPT ![s] = "Idle"]

\* forceClose() of a socket in use, after the callbacks "before".
CloseAfter(s, before) ==
    /\ CloseFd(fd[s])
    /\ PollDel(fd[s])
    /\ OnClose(s, before)
    /\ ClearBuffer(s)
    /\ ResetSlot(s)
    /\ early' = (early \/ (status[s] = "Connecting" /\ fd[s] = NoFd))
    /\ UNCHANGED <<cursor, type, ud, births, born, sent, wire>>

ForceClose(s) == CloseAfter(s, calls[s])

InUse(s) == status[s] \notin {"Idle", "Reserse"}

-----------------------------------------------------------------------------
(* The calling threads *)

Command(ty, id, n, len) == [type |-> ty, id |-> id, n |-> n, len |-> len]

\* connect(): getNewSocket() leaves the slot reserved.
Connect(t) ==
    /\ "connect" \in load.ops
    /\ pc[t] = "out"
    /\ \E s \in Slots :
          /\ Take(s, "connect")
          /\ status' = [status EXCEPT ![s] = "Reserse"]
          /\ fd' = [fd EXCEPT ![s] = NoFd]
          /\ loc' = [loc EXCEPT ![t] = [slot |-> s, fd |-> NoFd]]
    /\ pc' = [pc EXCEPT ![t] = "connect"]
    /\ UNCHANGED <<type, wbuf, connTimer, chan, kernel, net, load, sends, closes, early>>

\* s->handler and the address are set, then the status.
FillConnect(t) ==
    /\ pc[t] = "connect"
    /\ status' = [status EXCEPT ![loc[t].slot] = "Connecting"]
    /\ pc' = [pc EXCEPT ![t] = "push"]
    /\ UNCHANGED <<cursor, type, fd, wbuf, connTimer, chan, kernel, net, loc,
                   load, sends, closes, hist>>

\* listen(): the descriptor is bound first, then a slot is taken for it.  A
\* server listens when it starts, before any slot is used a second time.
Listen(t) ==
    /\ "listen" \in load.ops
    /\ pc[t] = "out"
    /\ \E s \in Slots, f \in FreeFds :
          /\ born[s] = 0
          /\ Take(s, "listen")
          /\ status' = [status EXCEPT ![s] = "Reserse"]
          /\ fd' = [fd EXCEPT ![s] = NoFd]
          /\ open' = open \cup {f}
          /\ lfds' = lfds \cup {f}
          /\ loc' = [loc EXCEPT ![t] = [slot |-> s, fd |-> f]]
          /\ backlog' = [backlog EXCEPT ![f] = 0]
          /\ ledges' = ledges \ {f} /\ refused' = refused \ {f}
    /\ pc' = [pc EXCEPT ![t] = "listen"]
    /\ UNCHANGED arrivals
    /\ UNCHANGED <<type, wbuf, connTimer, chan, epoll, ud, mask, net, load, sends, closes, early>>

FillListen(t) ==
    /\ pc[t] = "listen"
    /\ LET s == loc[t].slot IN
          /\ fd' = [fd EXCEPT ![s] = loc[t].fd]
          /\ type' = [type EXCEPT ![s] = "Listen"]
          /\ status' = [status EXCEPT ![s] = "Listen"]
    /\ pc' = [pc EXCEPT ![t] = "push"]
    /\ UNCHANGED <<cursor, wbuf, connTimer, chan, kernel, net, loc, load, sends, closes, hist>>

\* pushCmd() of connect() and listen(): the queue first ...
Push(t) ==
    /\ pc[t] = "push"
    /\ queue' = Append(queue, Command(IF loc[t].fd = NoFd THEN "Connect" ELSE "Listen",
                                      loc[t].slot, 0, 0))
    /\ pc' = [pc EXCEPT ![t] = "notify"]
    /\ UNCHANGED <<pool, efd, edge, kernel, net, loc, load, sends, closes, hist>>

BadNotify(t) ==
    /\ pc[t] = "notify"
    /\ efd' = (efd \/ Len(queue) = 1)
    /\ edge' = (edge \/ Len(queue) = 1)
    /\ pc' = [pc EXCEPT ![t] = "out"]
    /\ loc' = [loc EXCEPT ![t] = [slot |-> Notifier, fd |-> NoFd]]
    /\ UNCHANGED <<pool, queue, kernel, net, load, sends, closes, hist>>
\* ... then the eventfd: its counter becomes positive and epoll, which watches
\* it edge-triggered, has an edge to report.
Notify(t) ==
    /\ pc[t] = "notify"
    /\ efd' = TRUE
    /\ edge' = TRUE
    /\ pc' = [pc EXCEPT ![t] = "out"]
    /\ loc' = [loc EXCEPT ![t] = [slot |-> Notifier, fd |-> NoFd]]
    /\ UNCHANGED <<pool, queue, kernel, net, load, sends, closes, hist>>

\* The uses of a slot whose id the application has: connect() and listen() have
\* returned it, or onAccept() has received it.  It keeps the id for ever.
Returned(b) ==
    \A t \in Threads : pc[t] # "out" /\ loc[t].slot = births[b].slot => born[loc[t].slot] # b

\* send(id, data): the command is pushed; n numbers the payloads.
SendCall(t) ==
    /\ "send" \in load.ops
    /\ pc[t] = "out"
    /\ sends < load.sends
    /\ \E b \in DOMAIN births, len \in load.lens :
          /\ births[b].kind # "listen"
          /\ Returned(b)
          /\ queue' = Append(queue, Command("Send", births[b].slot, sends + 1, len))
    /\ sends' = sends + 1
    /\ pc' = [pc EXCEPT ![t] = "notify"]
    /\ UNCHANGED <<pool, efd, edge, kernel, net, loc, load, closes, hist>>

\* close(id, closeType)
CloseCall(t) ==
    /\ pc[t] = "out"
    /\ closes < load.closes
    /\ \E b \in DOMAIN births :
          /\ (IF births[b].kind = "listen" THEN "unlisten" ELSE "close") \in load.ops
          /\ Returned(b)
          /\ queue' = Append(queue, Command("Close", births[b].slot, 0, 0))
    /\ closes' = closes + 1
    /\ pc' = [pc EXCEPT ![t] = "notify"]
    /\ UNCHANGED <<pool, efd, edge, kernel, net, loc, load, sends, hist>>

-----------------------------------------------------------------------------
(* The net thread: runOnce() *)

\* A peer connects to a listener: the kernel completes the connection, and
\* epoll, edge-triggered, has something to report.
Arrive(f) ==
    /\ f \in lfds /\ arrivals < load.arrivals
    /\ arrivals' = arrivals + 1
    /\ backlog' = [backlog EXCEPT ![f] = @ + 1]
    /\ ledges' = ledges \cup {f}
    /\ refused' = refused \ {f}
    /\ UNCHANGED <<pool, chan, kernel, net, app, hist>>

\* m_poll.wait(): the eventfd is reported when it has an edge and is readable,
\* a listener when it has an edge; of the others that are registered any may
\* be ready.  EPOLLERR and EPOLLHUP are
\* reported as bWrite whether asked for or not.
Ready(f) == {e \in [slot : {ud[f]}, r : BOOLEAN, w : BOOLEAN] :
                (e.r \/ e.w) /\ (e.r => "R" \in epoll[f])}
Reported == {f \in ledges \cap lfds : epoll[f] # {}}
Wait ==
    /\ netpc = "wait"
    /\ \E F \in SUBSET {f \in Fds \ lfds : epoll[f] # {}} :
       \E ev \in [F -> UNION {Ready(f) : f \in F}] :
          /\ \A f \in F : ev[f] \in Ready(f)
          /\ batch' = {ev[f] : f \in F} \cup
                      {[slot |-> ud[f], r |-> TRUE, w |-> FALSE] : f \in Reported} \cup
                      (IF edge /\ efd THEN {[slot |-> Notifier, r |-> TRUE, w |-> FALSE]} ELSE {})
    /\ edge' = FALSE
    /\ ledges' = ledges \ Reported
    /\ netpc' = "events"
    /\ UNCHANGED <<pool, queue, efd, kernel, backlog, arrivals, refused, cur, app, hist>>

\* The end of the for loop over m_event.
EventsDone ==
    /\ netpc = "events" /\ batch = {}
    /\ netpc' = "timeout"
    /\ UNCHANGED <<pool, chan, kernel, cur, batch, app, hist>>

\* The next event of the batch.
Event(e) ==
    /\ netpc = "events"
    /\ e \in batch
    /\ batch' = batch \ {e}

\* case SocketType_Notify: handleCmd() reads the eventfd, then drains the queue.
HandleNotify(e) ==
    /\ Event(e) /\ type[e.slot] = "Notify"
    /\ efd' = FALSE
    /\ netpc' = "cmds"
    /\ UNCHANGED <<pool, queue, edge, kernel, cur, app, hist>>

\* case SocketType_Listen
HandleListen(e) ==
    /\ Event(e) /\ type[e.slot] = "Listen"
    /\ netpc' = "accept" /\ cur' = e.slot
    /\ UNCHANGED <<pool, chan, kernel, app, hist>>

BadAcceptNext == netpc' = "events" /\ cur' = Notifier
\* while (1): the next connection is looked at.
AcceptNext == UNCHANGED <<netpc, cur>>

\* handleAccept(): accept() succeeds and the pool has a slot.  The descriptor is
\* registered past the mask (addToRead), and onAccept() is called.
AcceptOne ==
    /\ netpc = "accept"
    /\ fd[cur] \in lfds /\ backlog[fd[cur]] > 0
    /\ \E s \in Slots, f \in FreeFds :
          /\ Take(s, "accept")
          /\ status' = [status EXCEPT ![s] = "Connected"]
          /\ type' = [type EXCEPT ![s] = "Normal"]
          /\ fd' = [fd EXCEPT ![s] = f]
          /\ open' = open \cup {f}
          /\ epoll' = [epoll EXCEPT ![f] = {"R"}]
          /\ ud' = [ud EXCEPT ![f] = s]
    /\ backlog' = [backlog EXCEPT ![fd[cur]] = @ - 1]
    /\ AcceptNext
    /\ UNCHANGED <<wbuf, connTimer, chan, lfds, mask, batch, app, early, ledges, arrivals, refused>>

\* The pool is full: the accepted descriptor is closed and the loop left, with
\* whatever else waits.
AcceptRefused ==
    /\ netpc = "accept"
    /\ fd[cur] \in lfds /\ backlog[fd[cur]] > 0
    /\ \A s \in Slots : status[s] # "Idle"
    /\ backlog' = [backlog EXCEPT ![fd[cur]] = @ - 1]
    /\ refused' = refused \cup {fd[cur]}
    /\ netpc' = "events" /\ cur' = Notifier
    /\ UNCHANGED <<pool, chan, kernel, batch, app, hist, ledges, arrivals>>

\* accept() says EAGAIN.  (Any other error is retried for ever: on a descriptor
\* that does not listen, or without a free descriptor, the net thread has no
\* step left.)
AcceptDone ==
    /\ netpc = "accept"
    /\ fd[cur] \in lfds /\ backlog[fd[cur]] = 0
    /\ netpc' = "events" /\ cur' = Notifier
    /\ UNCHANGED <<pool, chan, kernel, backlogs, batch, app, hist>>

\* default, status Connecting: handleConnect().  getsockopt() fails on fd -1.
HandleConnect(e) ==
    /\ Event(e) /\ type[e.slot] = "Normal" /\ status[e.slot] = "Connecting"
    /\ connTimer' = connTimer \ {e.slot}
    /\ LET s == e.slot
           f == fd[s]
       IN  \/ ForceClose(s)
           \/ /\ f # NoFd
              /\ status' = [status EXCEPT ![s] = "Connected"]
              \* delEvent(EP_WRITE) empties the mask and unregisters, addEvent(EP_READ) adds
              /\ mask' = [mask EXCEPT ![f] = {"R"}]
              /\ epoll' = [epoll EXCEPT ![f] = {"R"}]
              /\ Callback(s, "onConnect")
              /\ UNCHANGED <<cursor, type, fd, wbuf, open, lfds, ud, births, born, sent, wire, early>>
    /\ UNCHANGED <<netpc, cur, chan, app>>

\* handleRead(): nothing to read, or a read error or end of stream (close
\* without looking at what was read), or packets for the handler and perhaps a
\* malformed one (close).
Read(s) ==
    \/ UNCHANGED <<pool, kernel, hist>>
    \/ /\ calls' = [calls EXCEPT ![s] = WithPacket(s)]
       /\ UNCHANGED <<pool, kernel, births, born, sent, wire, early>>
    \/ \E before \in {calls[s], WithPacket(s)} : CloseAfter(s, before) /\ UNCHANGED connTimer

\* default: bRead first, then bWrite, whatever handleRead() did.
HandleIo(e) ==
    /\ Event(e) /\ type[e.slot] = "Normal" /\ status[e.slot] # "Connecting"
    /\ IF e.r /\ status[e.slot] = "Connected"
       THEN Read(e.slot)
       ELSE UNCHANGED <<pool, kernel, hist>>
    /\ netpc' = IF e.w THEN "write" ELSE "events"
    /\ cur' = IF e.w THEN e.slot ELSE Notifier
    /\ UNCHANGED <<chan, app>>

\* The kernel takes the first k bytes of s's writeBuffer.
Written(s, k) ==
    /\ wire' = [wire EXCEPT ![s] = @ \o SubSeq(wbuf[s], 1, k)]
    /\ wbuf' = [wbuf EXCEPT ![s] = SubSeq(@, k + 1, Len(@))]

\* No empty buffer is in the way of the first k bytes: write() of one returns 0.
Writable(s, k) == \A i \in 1 .. k : wbuf[s][i][2] # 0

\* delEvent(EP_WRITE): a socket that was accepted has no mask and stays armed.
DelWrite(s) ==
    LET f == fd[s] IN
    /\ mask' = [mask EXCEPT ![f] = @ \ {"W"}]
    /\ epoll' = [epoll EXCEPT ![f] = IF mask[f] = {} THEN @ ELSE mask'[f]]

WriteAll(s) ==
    /\ Written(s, Len(wbuf[s]))
    /\ DelWrite(s)

\* handleWrite(): everything is written and EPOLLOUT given up; or the kernel
\* takes some bytes and says EAGAIN; or an error or an empty buffer closes.
HandleWrite ==
    /\ netpc = "write"
    /\ netpc' = "events" /\ cur' = Notifier
    /\ LET s == cur IN
       \/ /\ status[s] # "Connected"
          /\ UNCHANGED <<pool, kernel, hist>>
       \/ /\ status[s] = "Connected" /\ Writable(s, Len(wbuf[s]))
          /\ WriteAll(s)
          /\ UNCHANGED <<cursor, status, type, fd, connTimer, open, lfds, ud,
                         births, born, calls, sent, early>>
       \/ /\ status[s] = "Connected"
          /\ \E k \in 0 .. Len(wbuf[s]) - 1 : Writable(s, k + 1) /\ Written(s, k)
          /\ UNCHANGED <<cursor, status, type, fd, connTimer, kernel, births, born,
                         calls, sent, early>>
       \/ /\ status[s] = "Connected" /\ wbuf[s] # <<>>
          /\ ForceClose(s) /\ UNCHANGED connTimer
    /\ UNCHANGED <<chan, batch, app>>

-----------------------------------------------------------------------------
(* The net thread: handleOneCmd() *)

Pop(ty) ==
    /\ netpc = "cmds" /\ queue # <<>>
    /\ Head(queue).type = ty
    /\ queue' = Tail(queue)
    /\ UNCHANGED <<efd, edge, net, app>>

CmdsDone ==
    /\ netpc = "cmds" /\ queue = <<>>
    /\ netpc' = "events"
    /\ UNCHANGED <<pool, chan, kernel, cur, batch, app, hist>>

\* connectSocket(): the status of the slot is not looked at.
ConnectFails ==
    /\ Pop("Connect")
    /\ LET s == Head(queue).id IN
          /\ Callback(s, "onClose")
          /\ status' = [status EXCEPT ![s] = "Idle"]
    /\ UNCHANGED <<cursor, type, fd, wbuf, connTimer, kernel, births, born, sent, wire, early>>

ConnectAtOnce ==
    /\ Pop("Connect")
    /\ \E f \in FreeFds : LET s == Head(queue).id IN
          /\ open' = open \cup {f}
          /\ fd' = [fd EXCEPT ![s] = f]
          /\ status' = [status EXCEPT ![s] = "Connected"]
          /\ Callback(s, "onConnect")
          /\ addEvent(f, "R", s)
    /\ UNCHANGED <<cursor, type, wbuf, connTimer, lfds, births, born, sent, wire, early>>

BadConnectStarts ==
    /\ Pop("Connect")
    /\ \E f \in FreeFds : LET s == Head(queue).id IN
          /\ open' = open \cup {f}
          /\ fd' = [fd EXCEPT ![s] = f]
          /\ status' = [status EXCEPT ![s] = "Connecting"]
          /\ addEvent(f, "W", s)
    /\ UNCHANGED <<cursor, type, wbuf, connTimer, lfds, births, born, calls, sent, wire, early>>
\* connect() says EINPROGRESS
ConnectStarts ==
    /\ Pop("Connect")
    /\ \E f \in FreeFds : LET s == Head(queue).id IN
          /\ open' = open \cup {f}
          /\ fd' = [fd EXCEPT ![s] = f]
          /\ status' = [status EXCEPT ![s] = "Connecting"]
          /\ addEvent(f, "W", s)
          /\ connTimer' = connTimer \cup {s}
    /\ UNCHANGED <<cursor, type, wbuf, lfds, births, born, calls, sent, wire, early>>

\* listenSocket(): addToRead(), which fails if the listener is closed by now.
\* What waits in the backlog already is reported.
ListenSocket ==
    /\ Pop("Listen")
    /\ LET s == Head(queue).id
           f == fd[s]
       IN  IF f \in open /\ epoll[f] = {}
           THEN /\ epoll' = [epoll EXCEPT ![f] = {"R"}]
                /\ ud' = [ud EXCEPT ![f] = s]
                /\ ledges' = IF backlog[f] > 0 THEN ledges \cup {f} ELSE ledges
           ELSE UNCHANGED <<epoll, ud, ledges>>
    /\ UNCHANGED <<pool, open, lfds, mask, hist, backlog, arrivals, refused>>

\* sendSocket(): a socket that is not connected drops the data.  With bytes
\* waiting the buffer joins them; without, it is written at once and what the
\* kernel does not take waits for EPOLLOUT.
SendDropped ==
    /\ Pop("Send")
    /\ status[Head(queue).id] # "Connected"
    /\ UNCHANGED <<pool, kernel, hist>>

BadSendQueued ==
    /\ Pop("Send")
    /\ LET s == Head(queue).id
           b == Bytes(Head(queue).n, Head(queue).len)
       IN  /\ status[s] = "Connected" /\ wbuf[s] # <<>>
           /\ wire' = [wire EXCEPT ![s] = @ \o b]
           /\ sent' = [sent EXCEPT ![s] = @ \o b]
    /\ UNCHANGED <<pool, kernel, births, born, calls, early>>
SendQueued ==
    /\ Pop("Send")
    /\ LET s == Head(queue).id
           b == Bytes(Head(queue).n, Head(queue).len)
       IN  /\ status[s] = "Connected" /\ wbuf[s] # <<>>
           /\ wbuf' = [wbuf EXCEPT ![s] = @ \o b]
           /\ sent' = [sent EXCEPT ![s] = @ \o b]
    /\ UNCHANGED <<cursor, status, type, fd, connTimer, kernel, births, born, calls, wire, early>>

\* addToWrite(): EPOLL_CTL_MOD to EPOLLIN | EPOLLOUT, past the mask.
AddToWrite(f) == epoll' = [epoll EXCEPT ![f] = IF @ = {} THEN {} ELSE {"R", "W"}]

SendNow ==
    /\ Pop("Send")
    /\ LET s == Head(queue).id
           len == Head(queue).len
           b == Bytes(Head(queue).n, len)
       IN  /\ status[s] = "Connected" /\ wbuf[s] = <<>>
           /\ \/ /\ wire' = [wire EXCEPT ![s] = IF len = 0 THEN @ ELSE @ \o b]
                 /\ sent' = [sent EXCEPT ![s] = IF len = 0 THEN @ ELSE @ \o b]
                 /\ UNCHANGED <<pool, kernel, births, born, calls, early>>
              \/ \E k \in 0 .. len - 1 :
                 /\ wire' = [wire EXCEPT ![s] = @ \o SubSeq(b, 1, k)]
                 /\ wbuf' = [wbuf EXCEPT ![s] = SubSeq(b, k + 1, len)]
                 /\ sent' = [sent EXCEPT ![s] = @ \o b]
                 /\ AddToWrite(fd[s])
                 /\ UNCHANGED <<cursor, status, type, fd, connTimer, open, lfds, ud, mask,
                                births, born, calls, early>>
              \/ /\ len > 0
                 /\ ForceClose(s) /\ UNCHANGED connTimer

\* closeSocket()
CloseSocket ==
    /\ Pop("Close")
    /\ IF InUse(Head(queue).id)
       THEN ForceClose(Head(queue).id) /\ UNCHANGED connTimer
       ELSE UNCHANGED <<pool, kernel, hist>>

-----------------------------------------------------------------------------
(* The net thread: m_connTimeout.timeout() at the end of runOnce() *)

\* doConnTimeClose(): time is not modelled, an entry may be due in any round.
Expire(s) ==
    /\ netpc = "timeout"
    /\ s \in connTimer
    /\ connTimer' = connTimer \ {s}
    /\ IF InUse(s)
       THEN ForceClose(s)
       ELSE UNCHANGED <<cursor, status, type, fd, wbuf, kernel, hist>>
    /\ UNCHANGED <<chan, net, app>>

RoundDone ==
    /\ netpc = "timeout"
    /\ netpc' = "wait"
    /\ UNCHANGED <<pool, chan, kernel, cur, batch, app, hist>>

-----------------------------------------------------------------------------
Command1 ==
    \/ ConnectFails \/ ConnectAtOnce \/ ConnectStarts
    \/ SendDropped \/ SendQueued \/ SendNow \/ CloseSocket

\* The steps of the net thread that touch a backlog, and the others.
Accepting == Wait \/ AcceptOne \/ AcceptRefused \/ AcceptDone \/ ListenSocket
Handling ==
    \/ EventsDone \/ RoundDone \/ CmdsDone \/ Command1 \/ HandleWrite
    \/ \E e \in batch : HandleNotify(e) \/ HandleListen(e) \/ HandleConnect(e) \/ HandleIo(e)

NetStep == Accepting \/ (Handling /\ UNCHANGED backlogs)

Return(t) == (FillConnect(t) \/ FillListen(t) \/ Push(t) \/ Notify(t)) /\ UNCHANGED backlogs

Next ==
    \/ NetStep
    \/ \E f \in load.fds : Arrive(f)
    \/ \E s \in Slots : Expire(s) /\ UNCHANGED backlogs
    \/ \E t \in load.threads : Listen(t) \/ Return(t)
    \/ \E t \in load.threads : (Connect(t) \/ SendCall(t) \/ CloseCall(t)) /\ UNCHANGED backlogs

\* The net thread keeps running, a call of a thread finishes once it has taken a
\* slot, and an entry of m_connTimeout that stays comes due.
Fairness ==
    /\ WF_vars(NetStep)
    /\ \A s \in Slots : SF_vars(Expire(s) /\ UNCHANGED backlogs)
    /\ \A t \in Threads : WF_vars(Return(t))

Spec == Init /\ [][Next]_vars
FairSpec == Spec /\ Fairness

-----------------------------------------------------------------------------
(* Properties.  Those after NoLostCommand are about a loop in which no       *)
(* socket was closed between its connect() and the Connect command: the id   *)
(* is the index of the slot, so a close() meant for the slot's former use, a *)
(* connect timer of that use or an event of it still in the batch can do     *)
(* this, and connectSocket() does not notice (see IdleIsUnused).             *)

(* pushCmd() and handleCmd() never lose a wakeup: as long as a command waits *)
(* the eventfd has an edge that epoll will report, the event is in the batch,*)
(* the net thread is draining the queue, or the thread that pushed it is     *)
(* about to write to the eventfd.                                            *)
NoLostCommand ==
    queue # <<>> =>
        \/ edge /\ efd
        \/ \E e \in batch : e.slot = Notifier
        \/ netpc = "cmds"
        \/ \E t \in Threads : pc[t] = "notify"

(* The threads at work in connect() or listen() on a slot they have taken,   *)
(* and the Connect commands on their way.                                    *)
Taking(s) == {t \in Threads : pc[t] \in {"connect", "listen"} /\ loc[t].slot = s}
Pending(s) ==
    {t \in Threads : pc[t] = "push" /\ loc[t] = [slot |-> s, fd |-> NoFd]} \cup
    {i \in DOMAIN queue : queue[i].type = "Connect" /\ queue[i].id = s}

(* A slot has one user: it is reserved exactly while one thread fills it in, *)
(* and connecting without a descriptor exactly while one Connect command for *)
(* it is on its way, although connectSocket() takes the id on trust.         *)
SlotHasOneUser ==
    ~early => \A s \in Slots :
        /\ Cardinality(Taking(s)) = IF status[s] = "Reserse" THEN 1 ELSE 0
        /\ Cardinality(Pending(s)) =
              IF status[s] = "Connecting" /\ fd[s] = NoFd THEN 1 ELSE 0

(* No descriptor leaks and none has two owners: each open one belongs to one *)
(* slot in use, or to the thread that is in listen() with it.                *)
FdHasOneOwner ==
    ~early => \A f \in open :
        Cardinality({s \in Slots : fd[s] = f /\ InUse(s)} \cup
                    {t \in Threads : pc[t] = "listen" /\ loc[t].fd = f}) = 1

(* Epoll keeps watching what the loop waits for, also when the kernel gives  *)
(* a descriptor's number out again: a connected socket is armed for reading, *)
(* and for writing while it has bytes to write; a socket that connects is    *)
(* armed for writing and has its 3-second timer.                             *)
Armed ==
    ~early => \A s \in Slots :
        /\ status[s] = "Connected" =>
              /\ fd[s] \in open /\ ud[fd[s]] = s /\ "R" \in epoll[fd[s]]
              /\ wbuf[s] # <<>> => "W" \in epoll[fd[s]]
        /\ status[s] = "Connecting" /\ fd[s] # NoFd =>
              /\ fd[s] \in open /\ ud[fd[s]] = s /\ "W" \in epoll[fd[s]]
              /\ s \in connTimer

(* handleAccept() runs on a descriptor that listens.  On any other accept()  *)
(* fails with an error that is not EAGAIN, which is retried for ever, and    *)
(* the net thread never does anything else.                                  *)
AcceptsOnListener == netpc = "accept" => fd[cur] \in lfds

(* The loop keeps its sockets apart, whatever threads, the net thread and the*)
(* kernel do in between: a slot has one user, a descriptor one owner, and    *)
(* handleAccept() is for listeners.                                          *)
SocketsApart == TypeOK /\ SlotHasOneUser /\ FdHasOneOwner /\ AcceptsOnListener

(* What the peer gets is what send() was asked for: the bytes accepted for a *)
(* connection are those the kernel took, in order, followed by those in      *)
(* writeBuffer, whatever mixture of full, partial and refused writes, and    *)
(* whoever used the slot before.                                             *)
StreamIsWhole ==
    ~early => \A s \in Slots :
        status[s] = "Connected" => sent[s] = wire[s] \o wbuf[s]

(* A handler hears of each use of a slot in order: opened once (or refused), *)
(* packets only while open, closed once and nothing after it.                *)
CallbackOrder ==
    ~early => \A s \in Slots \ {Notifier} :
        /\ \A i \in DOMAIN calls[s] :
              /\ calls[s][i] \in {"onAccept", "onConnect"} => i = 1
              /\ calls[s][i] = "onPacket" => i > 1
              /\ calls[s][i] = "onClose" => i = Len(calls[s]) /\ status[s] = "Idle"
        /\ status[s] = "Connected" => calls[s] # <<>>
        /\ status[s] = "Idle" /\ born[s] # 0 =>
              calls[s] # <<>> /\ calls[s][Len(calls[s])] = "onClose"

(* The listener is edge-triggered, and still no connection is forgotten in   *)
(* its backlog: while one waits, epoll has an edge to report, or the event   *)
(* is in the batch, or handleAccept() is at work on it; except that after it *)
(* turned one away, because the pool was full, what else waits stays until   *)
(* another connection arrives, even when slots become free.                  *)
BacklogSeen ==
    \A f \in lfds \ refused : epoll[f] # {} /\ backlog[f] > 0 =>
        \/ f \in ledges
        \/ \E e \in batch : e.slot = ud[f]
        \/ netpc = "accept" /\ fd[cur] = f

(* SocketStatus_Idle is the status of a slot that is not in use: no Connect  *)
(* command for it is on its way.                                             *)
IdleIsUnused == \A s \in Slots : status[s] = "Idle" => Pending(s) = {}

(* A slot that connects or is connected has the type of a plain connection,  *)
(* not that of a listener.                                                   *)
ConnectionIsNormal ==
    \A s \in Slots : status[s] \in {"Connecting", "Connected"} => type[s] = "Normal"

(* Every command is handled: the net thread empties the queue.               *)
CommandsHandled == queue # <<>> ~> queue = <<>>

(* connect() always ends: the socket gets connected, or its handler is told  *)
(* that it was closed, within the connect timeout.                           *)
ConnectEnds == \A s \in Slots : status[s] = "Connecting" ~> status[s] # "Connecting"

(* What threads ask the loop for is done: it takes each command, and each    *)
(* connection it begins to make comes about or is given up.                  *)
CommandsEnd == CommandsHandled /\ ConnectEnds
=============================================================================
