------------------------- MODULE SocketLoop_proofs -------------------------
(* Proofs about SocketLoop, for any threads, slots, descriptors and          *)
(* workloads.                                                                *)
EXTENDS SocketLoop, FiniteSetTheorems, SequenceTheorems, TLAPS

(* A workload closes connections, and lets its listeners be.                 *)
KeepsListeners == \A l \in Loads : "unlisten" \notin l.ops

-----------------------------------------------------------------------------
(* The inductive invariant.  What holds whether or not a socket was closed   *)
(* early:                                                                    *)

(* The slots that were ever taken for a listener, and for a connection.      *)
ServerSlots == {births[b].slot : b \in {c \in DOMAIN births : births[c].kind = "listen"}}
ClientSlots == {births[b].slot : b \in {c \in DOMAIN births : births[c].kind # "listen"}}

(* The slot of the eventfd is nobody else's.                                 *)
NotifierApart ==
    /\ status[Notifier] = "Listen" /\ type[Notifier] = "Notify" /\ fd[Notifier] = NoFd
    /\ Notifier \notin connTimer
    /\ \A t \in Threads : pc[t] \in {"connect", "listen", "push"} => loc[t].slot # Notifier
    /\ \A i \in DOMAIN queue : queue[i].id # Notifier
    /\ Notifier \notin ServerSlots \cup ClientSlots

(* A slot with a descriptor has it open and to itself; a thread in listen()  *)
(* has one that no slot has; and what is closed has neither mask nor events. *)
FdInv ==
    /\ \A s \in Slots : fd[s] # NoFd => fd[s] \in open
    /\ \A s, r \in Slots : fd[s] # NoFd /\ fd[s] = fd[r] => s = r
    /\ \A t \in Threads : pc[t] = "listen" =>
          /\ loc[t].fd \in lfds
          /\ \A s \in Slots : fd[s] # loc[t].fd
          /\ \A u \in Threads : pc[u] = "listen" /\ loc[u].fd = loc[t].fd => u = t
    /\ \A f \in Fds \ open : epoll[f] = {} /\ mask[f] = {}

(* The slot of a listener was never a connection's, and no command, timer or *)
(* thread that is about a connection names it.                               *)
ListenersApart ==
    /\ ServerSlots \cap ClientSlots = {}
    /\ \A s \in ServerSlots \cup ClientSlots : born[s] # 0
    /\ \A s \in ServerSlots : status[s] \in {"Reserse", "Listen"}
    /\ connTimer \subseteq ClientSlots
    /\ \A i \in DOMAIN queue : IF queue[i].type = "Listen" THEN type[queue[i].id] = "Listen"
                                                           ELSE queue[i].id \in ClientSlots
    /\ \A t \in Threads :
          /\ pc[t] = "connect" => loc[t].slot \in ClientSlots /\ loc[t].fd = NoFd
          /\ pc[t] = "listen" => loc[t].slot \in ServerSlots /\ status[loc[t].slot] = "Reserse"
          /\ pc[t] = "push" => IF loc[t].fd = NoFd THEN loc[t].slot \in ClientSlots
                                                   ELSE type[loc[t].slot] = "Listen"
          /\ \A u \in Threads :
                pc[t] = "listen" /\ pc[u] = "listen" /\ loc[t].slot = loc[u].slot => t = u

(* What is of the type of a listener listens, and what listens is registered *)
(* for that slot.                                                            *)
ListenInv ==
    /\ \A s \in Slots : type[s] = "Listen" =>
          s \in ServerSlots /\ status[s] = "Listen" /\ fd[s] \in lfds
    /\ \A s \in Slots : fd[s] \in lfds => type[s] = "Listen"
    /\ \A f \in lfds : epoll[f] # {} => fd[ud[f]] = f
    /\ netpc = "accept" => type[cur] = "Listen"

(* The net thread goes to epoll with nothing left of the last batch.         *)
BatchDone == netpc \in {"wait", "timeout"} => batch = {}

-----------------------------------------------------------------------------
(* What holds until a socket is closed early:                                *)

(* A slot is reserved while one thread fills it in, ...                      *)
TakingInv ==
    /\ \A t, u \in Threads : pc[t] \in {"connect", "listen"} /\ pc[u] \in {"connect", "listen"} /\
                             loc[t].slot = loc[u].slot => t = u
    /\ \A t \in Threads : pc[t] \in {"connect", "listen"} => status[loc[t].slot] = "Reserse"
    /\ \A t \in Threads : pc[t] = "connect" => loc[t].fd = NoFd
    /\ \A s \in Slots : status[s] = "Reserse" =>
          \E t \in Threads : pc[t] \in {"connect", "listen"} /\ loc[t].slot = s

Pushes(t) == pc[t] = "push" /\ loc[t].fd = NoFd
(* ... and connecting without a descriptor while one Connect command for it  *)
(* is about to be pushed or queued.                                          *)
Awaited(s) == status[s] = "Connecting" /\ fd[s] = NoFd
PushersWait == \A t \in Threads : Pushes(t) => Awaited(loc[t].slot)
QueuedWait == \A i \in DOMAIN queue : queue[i].type = "Connect" => Awaited(queue[i].id)
OnePusher == \A t, u \in Threads : Pushes(t) /\ Pushes(u) /\ loc[t].slot = loc[u].slot => t = u
OneQueued ==
    \A i, j \in DOMAIN queue :
        queue[i].type = "Connect" /\ queue[j].type = "Connect" /\ queue[i].id = queue[j].id => i = j
PushedOrQueued ==
    \A t \in Threads : \A i \in DOMAIN queue :
        ~(Pushes(t) /\ queue[i].type = "Connect" /\ queue[i].id = loc[t].slot)
WaitEnds ==
    \A s \in Slots : Awaited(s) =>
        \/ \E t \in Threads : Pushes(t) /\ loc[t].slot = s
        \/ \E i \in DOMAIN queue : queue[i].type = "Connect" /\ queue[i].id = s
PendingInv ==
    PushersWait /\ QueuedWait /\ OnePusher /\ OneQueued /\ PushedOrQueued /\ WaitEnds

(* Each open descriptor has an owner.                                        *)
OwnerInv ==
    \A f \in open : \/ \E s \in Slots : fd[s] = f
                    \/ \E t \in Threads : pc[t] = "listen" /\ loc[t].fd = f

(* A slot in use has its descriptor, registered for what the loop waits for. *)
Polled(s) ==
    /\ status[s] \in {"Idle", "Reserse"} => fd[s] = NoFd
    /\ status[s] = "Listen" /\ s # Notifier => fd[s] # NoFd
    /\ status[s] = "Connected" =>
          /\ fd[s] # NoFd /\ ud[fd[s]] = s
          /\ "R" \in epoll[fd[s]] /\ mask[fd[s]] \subseteq {"R"}
          /\ wbuf[s] # <<>> => "W" \in epoll[fd[s]]
    /\ status[s] = "Connecting" /\ fd[s] # NoFd =>
          /\ ud[fd[s]] = s /\ epoll[fd[s]] = {"W"} /\ mask[fd[s]] = {"W"}
          /\ s \in connTimer

(* Nothing waits to be written for a slot that is not connected, and nothing *)
(* was sent before it was.                                                   *)
Streamed(s) ==
    /\ status[s] # "Connected" => wbuf[s] = <<>>
    /\ status[s] \in {"Reserse", "Connecting"} => sent[s] = <<>> /\ wire[s] = <<>>
    /\ status[s] = "Connected" => sent[s] = wire[s] \o wbuf[s]

(* The callbacks of a connection that is open, and of one that is closed.    *)
OpenCalls(c) ==
    /\ c # <<>>
    /\ c[1] \in {"onAccept", "onConnect"}
    /\ \A i \in DOMAIN c : i > 1 => c[i] = "onPacket"
ClosedCalls(c) ==
    \E d \in Seq(Callbacks) : (d = <<>> \/ OpenCalls(d)) /\ c = Append(d, "onClose")
Told(s) ==
    /\ status[s] \in {"Reserse", "Connecting", "Listen"} => calls[s] = <<>>
    /\ status[s] = "Connected" => OpenCalls(calls[s])
    /\ status[s] = "Idle" => ClosedCalls(calls[s]) \/ (calls[s] = <<>> /\ born[s] = 0)

SlotInv == \A s \in Slots : Polled(s) /\ Streamed(s) /\ (s # Notifier => Told(s))

-----------------------------------------------------------------------------
(* What the steps of the net thread do to the slots.                         *)

(* A slot that the net thread gets at through a timer, a command or an event *)
(* of a connection.                                                          *)
Reached(s) ==
    \/ status[s] \in {"Connecting", "Connected"}
    \/ s \in connTimer
    \/ \E i \in DOMAIN queue : queue[i].type \in {"Send", "Close"} /\ queue[i].id = s

(* Nothing, except that a timer of a slot that is not in use may go.         *)
Still ==
    /\ UNCHANGED <<cursor, status, type, fd, wbuf, kernel, hist>>
    /\ connTimer' \subseteq connTimer
    /\ \A s \in connTimer : InUse(s) => s \in connTimer'

(* A slot is closed.                                                         *)
Closing(s) ==
    /\ InUse(s) /\ Reached(s)
    /\ \E before \in {calls[s], WithPacket(s)} :
          /\ before # calls[s] => status[s] = "Connected"
          /\ CloseAfter(s, before)
    /\ connTimer' \in {connTimer, connTimer \ {s}}

(* A connection comes about.                                                 *)
Opening(s) ==
    /\ status[s] = "Connecting" /\ fd[s] # NoFd
    /\ status' = [status EXCEPT ![s] = "Connected"]
    /\ mask' = [mask EXCEPT ![fd[s]] = {"R"}]
    /\ epoll' = [epoll EXCEPT ![fd[s]] = {"R"}]
    /\ connTimer' = connTimer \ {s}
    /\ Callback(s, "onConnect")
    /\ UNCHANGED <<cursor, type, fd, wbuf, open, lfds, ud, births, born, sent, wire, early>>

(* Packets are given to the handler.                                         *)
Hearing(s) ==
    /\ status[s] = "Connected"
    /\ calls' = [calls EXCEPT ![s] = WithPacket(s)]
    /\ UNCHANGED <<pool, kernel, births, born, sent, wire, early>>

(* Bytes are accepted or written: w is left to write, x with the kernel, y   *)
(* accepted so far.                                                          *)
Streaming(s) ==
    /\ status[s] = "Connected"
    /\ \E w, x, y \in Seq(Byte) :
          /\ wbuf' = [wbuf EXCEPT ![s] = w]
          /\ wire' = [wire EXCEPT ![s] = x]
          /\ sent' = [sent EXCEPT ![s] = y]
          /\ sent[s] = wire[s] \o wbuf[s] => y = x \o w
          /\ \/ UNCHANGED <<epoll, mask>> /\ (wbuf[s] = <<>> => w = <<>>)
             \/ AddToWrite(fd[s]) /\ UNCHANGED mask
             \/ DelWrite(s) /\ w = <<>>
    /\ UNCHANGED <<cursor, status, type, fd, connTimer, open, lfds, ud, births, born, calls, early>>

(* One of these, for a slot that is not the eventfd's.                       *)
Touches(s) == Closing(s) \/ Opening(s) \/ Hearing(s) \/ Streaming(s)

(* A step that does not concern slot r.                                      *)
Same(r) ==
    /\ status'[r] = status[r] /\ fd'[r] = fd[r] /\ wbuf'[r] = wbuf[r]
    /\ sent'[r] = sent[r] /\ wire'[r] = wire[r] /\ calls'[r] = calls[r] /\ born'[r] = born[r]
    /\ r \in connTimer /\ InUse(r) => r \in connTimer'
    /\ fd[r] # NoFd => /\ epoll'[fd[r]] = epoll[fd[r]] /\ mask'[fd[r]] = mask[fd[r]]
                       /\ ud'[fd[r]] = ud[fd[r]]

(* The queue stays, or loses a command that is not a Connect.                *)
Takes ==
    \/ queue' = queue
    \/ queue # <<>> /\ Head(queue).type # "Connect" /\ queue' = Tail(queue)

-----------------------------------------------------------------------------
(* The constants.                                                            *)
LEMMA Constants ==
    /\ Slots \subseteq Nat /\ Notifier \in Slots
    /\ Fds \subseteq Nat /\ NoFd \notin Fds /\ NoFd \notin Nat
BY LoopAssumption DEF Slots, Notifier, NoFd

(* A descriptor the kernel may hand out is not open.                        *)
LEMMA FreeFdsFree == TypeOK => FreeFds \subseteq Fds \ open
BY LoopAssumption DEF TypeOK, FreeFds

(* The bounds of the workload, and what was counted against them.            *)
LEMMA LoadFacts ==
    ASSUME TypeOK
    PROVE  /\ load.threads \subseteq Threads /\ load.fds \subseteq Fds /\ load.lens \subseteq Nat
           /\ load.sends \in Nat /\ load.closes \in Nat /\ load.arrivals \in Nat
           /\ sends \in 0 .. load.sends /\ closes \in 0 .. load.closes
           /\ sends + 1 \in Nat
<1>1. load \in Loads  BY DEF TypeOK
<1>2. /\ load.threads \subseteq Threads /\ load.fds \subseteq Fds /\ load.lens \subseteq Nat
      /\ load.sends \in Nat /\ load.closes \in Nat /\ load.arrivals \in Nat
  BY <1>1, LoopAssumption
<1>3. sends \in 0 .. load.sends /\ closes \in 0 .. load.closes  BY DEF TypeOK
<1>4. sends + 1 \in Nat  BY <1>2, <1>3
<1> QED  BY <1>2, <1>3, <1>4

(* The slots that were taken.                                                *)
LEMMA BirthTypes ==
    ASSUME TypeOK
    PROVE  \A b \in DOMAIN births : births[b].slot \in Slots
<1> DEFINE B == [slot : Slots, kind : {"connect", "listen", "accept"}]
<1>1. births \in Seq(B)  BY DEF TypeOK
<1>2. \A b \in B : b.slot \in Slots  OBVIOUS
<1> HIDE DEF B
<1>3. \A b \in DOMAIN births : births[b] \in B  BY <1>1
<1> QED  BY <1>2, <1>3

(* What a queue is after one more element.                                   *)
LEMMA AppendFacts ==
    ASSUME NEW S, NEW q \in Seq(S), NEW x \in S
    PROVE  /\ Append(q, x) \in Seq(S)
           /\ Len(q) \in Nat /\ DOMAIN q = 1 .. Len(q)
           /\ Len(Append(q, x)) = Len(q) + 1
           /\ DOMAIN Append(q, x) = 1 .. Len(q) + 1
           /\ \A k \in DOMAIN q : Append(q, x)[k] = q[k]
           /\ Append(q, x)[Len(q) + 1] = x
OBVIOUS

(* What a queue is without its first element.                                *)
LEMMA TailFacts ==
    ASSUME NEW S, NEW q \in Seq(S), q # <<>>
    PROVE  /\ Head(q) \in S /\ Tail(q) \in Seq(S)
           /\ Len(q) \in Nat /\ DOMAIN q = 1 .. Len(q) /\ 1 \in DOMAIN q /\ Head(q) = q[1]
           /\ Len(Tail(q)) = Len(q) - 1 /\ DOMAIN Tail(q) = 1 .. Len(q) - 1
           /\ \A k \in DOMAIN Tail(q) : k + 1 \in DOMAIN q /\ Tail(q)[k] = q[k + 1]
OBVIOUS

(* The bytes of a payload.                                                   *)
LEMMA BytesType ==
    ASSUME NEW n \in Nat, NEW len \in Nat
    PROVE  Bytes(n, len) \in Seq(Byte) /\ (len > 0 => Len(Bytes(n, len)) = len)
<1>1. CASE len = 0
  <2>1. <<n, 0>> \in Byte  BY DEF Byte
  <2> QED  BY <1>1, <2>1 DEF Bytes
<1>2. CASE len # 0
  <2>1. \A k \in 1 .. len : <<n, k>> \in Byte  BY DEF Byte
  <2>2. [k \in 1 .. len |-> <<n, k>>] \in [1 .. len -> Byte]  BY <2>1
  <2>3. [k \in 1 .. len |-> <<n, k>>] \in Seq(Byte)  BY <2>2
  <2>4. Len([k \in 1 .. len |-> <<n, k>>]) = len  OBVIOUS
  <2> QED  BY <1>2, <2>3, <2>4 DEF Bytes
<1> QED  BY <1>1, <1>2

(* A buffer that is written in part.                                         *)
LEMMA SplitFacts ==
    ASSUME NEW S, NEW q \in Seq(S), NEW k \in 0 .. Len(q)
    PROVE  /\ SubSeq(q, 1, k) \in Seq(S) /\ SubSeq(q, k + 1, Len(q)) \in Seq(S)
           /\ SubSeq(q, 1, k) \o SubSeq(q, k + 1, Len(q)) = q
           /\ k = Len(q) => SubSeq(q, k + 1, Len(q)) = <<>>
<1>1. Len(q) \in Nat /\ \A i \in 1 .. Len(q) : q[i] \in S  OBVIOUS
<1>2. SubSeq(q, 1, k) \in Seq(S) /\ SubSeq(q, k + 1, Len(q)) \in Seq(S)
  BY <1>1, SubSeqProperties
<1>3. SubSeq(q, 1, k) \o SubSeq(q, k + 1, Len(q)) = SubSeq(q, 1, Len(q))
  <2>1. 1 \in 1 .. Len(q) + 1 /\ k \in 1 - 1 .. Len(q) /\ Len(q) \in k .. Len(q)  BY <1>1
  <2> QED  BY <2>1, ConcatAdjacentSubSeq
<1>4. k = Len(q) => SubSeq(q, k + 1, Len(q)) = <<>>  BY <1>1, SubSeqEmpty
<1> QED  BY <1>2, <1>3, <1>4, SubSeqFull

(* Bytes that move from the head of one sequence to the end of another.      *)
LEMMA MoveFacts ==
    ASSUME NEW S, NEW p \in Seq(S), NEW q \in Seq(S), NEW k \in 0 .. Len(q)
    PROVE  /\ p \o SubSeq(q, 1, k) \in Seq(S)
           /\ (p \o SubSeq(q, 1, k)) \o SubSeq(q, k + 1, Len(q)) = p \o q
<1> DEFINE a == SubSeq(q, 1, k)
           w == SubSeq(q, k + 1, Len(q))
<1>1. a \in Seq(S) /\ w \in Seq(S)  BY SplitFacts
<1>2. a \o w = q  BY SplitFacts
<1> HIDE DEF a, w
<1>3. p \o a \in Seq(S)  BY <1>1, ConcatProperties
<1>4. (p \o a) \o w = p \o (a \o w)  BY <1>1, ConcatAssociative
<1> QED  BY <1>2, <1>3, <1>4 DEF a, w

(* handleWrite() moves the first k bytes of writeBuffer to the kernel.       *)
LEMMA WrittenFacts ==
    ASSUME TypeOK, NEW s \in Slots, NEW k \in 0 .. Len(wbuf[s]), Written(s, k)
    PROVE  \E w, x \in Seq(Byte) :
              /\ wbuf' = [wbuf EXCEPT ![s] = w] /\ wire' = [wire EXCEPT ![s] = x]
              /\ x \o w = wire[s] \o wbuf[s]
              /\ k = Len(wbuf[s]) => w = <<>>
<1> DEFINE x == wire[s] \o SubSeq(wbuf[s], 1, k)
           w == SubSeq(wbuf[s], k + 1, Len(wbuf[s]))
<1>1. wbuf[s] \in Seq(Byte) /\ wire[s] \in Seq(Byte)  BY DEF TypeOK
<1>2. w \in Seq(Byte) /\ (k = Len(wbuf[s]) => w = <<>>)  BY <1>1, SplitFacts
<1>3. x \in Seq(Byte) /\ x \o w = wire[s] \o wbuf[s]  BY <1>1, MoveFacts
<1>4. wbuf' = [wbuf EXCEPT ![s] = w] /\ wire' = [wire EXCEPT ![s] = x]  BY DEF Written
<1> HIDE DEF x, w
<1> QED  BY <1>2, <1>3, <1>4

(* sendSocket() with bytes waiting.                                          *)
LEMMA QueuedStreams ==
    ASSUME TypeOK, SendQueued
    PROVE  Streaming(Head(queue).id)
<1> DEFINE s == Head(queue).id
           b == Bytes(Head(queue).n, Head(queue).len)
<1>1. Head(queue) \in Cmds  BY TailFacts DEF TypeOK, SendQueued, Pop
<1>2. s \in Slots /\ Head(queue).n \in Nat /\ Head(queue).len \in Nat  BY <1>1 DEF Cmds
<1>3. b \in Seq(Byte)  BY <1>2, BytesType
<1>4. /\ status[s] = "Connected" /\ wbuf[s] # <<>>
      /\ wbuf' = [wbuf EXCEPT ![s] = wbuf[s] \o b]
      /\ sent' = [sent EXCEPT ![s] = sent[s] \o b]
      /\ UNCHANGED <<cursor, status, type, fd, connTimer, kernel, births, born, calls, wire, early>>
  BY DEF SendQueued
<1> HIDE DEF s, b
<1>5. wbuf[s] \in Seq(Byte) /\ wire[s] \in Seq(Byte) /\ sent[s] \in Seq(Byte)  BY <1>2 DEF TypeOK
<1>6. wbuf[s] \o b \in Seq(Byte) /\ sent[s] \o b \in Seq(Byte)  BY <1>3, <1>5, ConcatProperties
<1>7. (wire[s] \o wbuf[s]) \o b = wire[s] \o (wbuf[s] \o b)
  <2>1. \A p, q, r \in Seq(Byte) : (p \o q) \o r = p \o (q \o r)  BY ConcatAssociative
  <2> QED  BY <1>3, <1>5, <2>1
<1>8. wire' = [wire EXCEPT ![s] = wire[s]]  BY <1>4 DEF TypeOK
<1>9. Streaming(s)
  BY <1>4, <1>5, <1>6, <1>7, <1>8 DEF Streaming, kernel
<1> QED  BY <1>9 DEF s

(* sendSocket() with nothing waiting.                                        *)
LEMMA SendStreams ==
    ASSUME TypeOK, SendNow
    PROVE  Streaming(Head(queue).id) \/ Closing(Head(queue).id)
<1> DEFINE s == Head(queue).id
           len == Head(queue).len
           b == Bytes(Head(queue).n, len)
<1>1. Head(queue) \in Cmds  BY TailFacts DEF TypeOK, SendNow, Pop
<1>2. s \in Slots /\ Head(queue).n \in Nat /\ len \in Nat  BY <1>1 DEF Cmds
<1>3. b \in Seq(Byte) /\ (len > 0 => Len(b) = len)  BY <1>2, BytesType
<1>4. status[s] = "Connected" /\ wbuf[s] = <<>>  BY DEF SendNow
<1>5. wbuf[s] \in Seq(Byte) /\ wire[s] \in Seq(Byte) /\ sent[s] \in Seq(Byte)  BY <1>2 DEF TypeOK
<1>6. \A q \in Seq(Byte) : q \o <<>> = q  OBVIOUS
<1>7. CASE /\ wire' = [wire EXCEPT ![s] = IF len = 0 THEN @ ELSE @ \o b]
           /\ sent' = [sent EXCEPT ![s] = IF len = 0 THEN @ ELSE @ \o b]
           /\ UNCHANGED <<pool, kernel, births, born, calls, early>>
  <2> DEFINE x == IF len = 0 THEN wire[s] ELSE wire[s] \o b
             y == IF len = 0 THEN sent[s] ELSE sent[s] \o b
  <2>1. wire' = [wire EXCEPT ![s] = x] /\ sent' = [sent EXCEPT ![s] = y]  BY <1>7
  <2> HIDE DEF s, len, b
  <2>2. x \in Seq(Byte) /\ y \in Seq(Byte)  BY <1>3, <1>5, ConcatProperties
  <2>3. sent[s] = wire[s] \o wbuf[s] => y = x \o <<>>  BY <1>4, <1>5, <1>6, <2>2
  <2> HIDE DEF x, y
  <2>4. wbuf' = [wbuf EXCEPT ![s] = <<>>]  BY <1>4, <1>7 DEF pool, TypeOK
  <2>5. Streaming(s)
    BY <1>4, <1>5, <1>7, <2>1, <2>2, <2>3, <2>4 DEF Streaming, kernel, pool
  <2> QED  BY <2>5 DEF s
<1>8. CASE \E k \in 0 .. len - 1 :
             /\ wire' = [wire EXCEPT ![s] = @ \o SubSeq(b, 1, k)]
             /\ wbuf' = [wbuf EXCEPT ![s] = SubSeq(b, k + 1, len)]
             /\ sent' = [sent EXCEPT ![s] = @ \o b]
             /\ AddToWrite(fd[s])
             /\ UNCHANGED <<cursor, status, type, fd, connTimer, open, lfds, ud, mask,
                            births, born, calls, early>>
  <2>1. PICK k \in 0 .. len - 1 :
             /\ wire' = [wire EXCEPT ![s] = @ \o SubSeq(b, 1, k)]
             /\ wbuf' = [wbuf EXCEPT ![s] = SubSeq(b, k + 1, len)]
             /\ sent' = [sent EXCEPT ![s] = @ \o b]
             /\ AddToWrite(fd[s])
             /\ UNCHANGED <<cursor, status, type, fd, connTimer, open, lfds, ud, mask,
                            births, born, calls, early>>
    BY <1>8
  <2> HIDE DEF s, len, b
  <2>2. len > 0 /\ Len(b) = len /\ k \in 0 .. Len(b)  BY <1>2, <1>3
  <2> DEFINE x == wire[s] \o SubSeq(b, 1, k)
             w == SubSeq(b, k + 1, len)
             y == sent[s] \o b
  <2>3. w \in Seq(Byte)  BY <1>3, <2>2, SplitFacts
  <2>4. x \in Seq(Byte) /\ x \o w = wire[s] \o b
    <3>1. w = SubSeq(b, k + 1, Len(b))  BY <2>2
    <3>2. x \o SubSeq(b, k + 1, Len(b)) = wire[s] \o b  BY <1>3, <1>5, <2>2, MoveFacts
    <3>3. x \in Seq(Byte)  BY <1>3, <1>5, <2>2, MoveFacts
    <3> QED  BY <3>1, <3>2, <3>3
  <2>5. y \in Seq(Byte)  BY <1>3, <1>5, ConcatProperties
  <2>6. sent[s] = wire[s] \o wbuf[s] => y = x \o w  BY <1>4, <1>5, <1>6, <2>4
  <2>7. wire' = [wire EXCEPT ![s] = x] /\ wbuf' = [wbuf EXCEPT ![s] = w] /\ sent' = [sent EXCEPT ![s] = y]
    BY <2>1
  <2> HIDE DEF x, y, w
  <2>8. Streaming(s)
    BY <1>4, <2>1, <2>3, <2>4, <2>5, <2>6, <2>7 DEF Streaming
  <2> QED  BY <2>8 DEF s
<1>9. CASE len > 0 /\ ForceClose(s) /\ UNCHANGED connTimer
  BY <1>4, <1>9 DEF Closing, ForceClose, InUse, Reached
<1> QED  BY <1>7, <1>8, <1>9 DEF SendNow

(* handleWrite().                                                            *)
LEMMA WriteStreams ==
    ASSUME TypeOK, HandleWrite
    PROVE  Still \/ (status[cur] = "Connected" /\ (Streaming(cur) \/ Closing(cur)))
<1>0. cur \in Slots /\ wbuf[cur] \in Seq(Byte) /\ Len(wbuf[cur]) \in Nat /\ sent[cur] \in Seq(Byte)
  BY DEF TypeOK
<1>1. CASE UNCHANGED <<pool, kernel, hist>>  BY <1>1 DEF Still, pool
<1>2. CASE /\ status[cur] = "Connected" /\ WriteAll(cur)
           /\ UNCHANGED <<cursor, status, type, fd, connTimer, open, lfds, ud,
                          births, born, calls, sent, early>>
  <2>1. Written(cur, Len(wbuf[cur])) /\ DelWrite(cur)  BY <1>2 DEF WriteAll
  <2>2. \E w, x \in Seq(Byte) :
           /\ wbuf' = [wbuf EXCEPT ![cur] = w] /\ wire' = [wire EXCEPT ![cur] = x]
           /\ x \o w = wire[cur] \o wbuf[cur]
           /\ w = <<>>
    <3>1. Len(wbuf[cur]) \in 0 .. Len(wbuf[cur])  BY <1>0
    <3> QED  BY <1>0, <2>1, <3>1, WrittenFacts
  <2>3. sent' = [sent EXCEPT ![cur] = sent[cur]]  BY <1>2 DEF TypeOK
  <2> QED  BY <1>0, <1>2, <2>1, <2>2, <2>3 DEF Streaming
<1>3. CASE /\ status[cur] = "Connected"
           /\ \E k \in 0 .. Len(wbuf[cur]) - 1 : Written(cur, k)
           /\ UNCHANGED <<cursor, status, type, fd, connTimer, kernel, births, born,
                          calls, sent, early>>
  <2>1. PICK k \in 0 .. Len(wbuf[cur]) - 1 : Written(cur, k)  BY <1>3
  <2>2. k \in 0 .. Len(wbuf[cur]) /\ wbuf[cur] # <<>>  BY <1>0
  <2>3. \E w, x \in Seq(Byte) :
           /\ wbuf' = [wbuf EXCEPT ![cur] = w] /\ wire' = [wire EXCEPT ![cur] = x]
           /\ x \o w = wire[cur] \o wbuf[cur]
    BY <1>0, <2>1, <2>2, WrittenFacts
  <2>4. sent' = [sent EXCEPT ![cur] = sent[cur]]  BY <1>3 DEF TypeOK
  <2> QED  BY <1>0, <1>3, <2>2, <2>3, <2>4 DEF Streaming, kernel
<1>4. CASE status[cur] = "Connected" /\ ForceClose(cur) /\ UNCHANGED connTimer
  BY <1>4 DEF Closing, ForceClose, InUse, Reached
<1> QED  BY <1>1, <1>2, <1>3, <1>4 DEF HandleWrite

(* The steps that are not a calling thread's.                                *)
NetAct == NetStep \/ (\E f \in load.fds : Arrive(f)) \/ (\E s \in Slots : Expire(s))

(* Each is of one of these kinds.                                            *)
LEMMA NetKinds ==
    ASSUME TypeOK, NotifierApart, NetAct
    PROVE  /\ UNCHANGED <<pc, loc>>
           /\ \/ Takes /\ (Still \/ \E s \in Slots \ {Notifier} : Touches(s))
              \/ AcceptOne \/ ListenSocket \/ ConnectFails \/ ConnectAtOnce \/ ConnectStarts
<1> DEFINE Kind == \/ Takes /\ (Still \/ \E s \in Slots \ {Notifier} : Touches(s))
                   \/ AcceptOne \/ ListenSocket \/ ConnectFails \/ ConnectAtOnce \/ ConnectStarts
<1>0. queue # <<>> => /\ Head(queue) \in Cmds /\ Head(queue).id \in Slots \ {Notifier}
                      /\ \E i \in DOMAIN queue : queue[i] = Head(queue)
  <2>1. queue \in Seq(Cmds)  BY DEF TypeOK
  <2>2. queue # <<>> => Head(queue) \in Cmds /\ 1 \in DOMAIN queue /\ Head(queue) = queue[1]
    BY <2>1, TailFacts
  <2>3. \A c \in Cmds : c.id \in Slots  BY DEF Cmds
  <2> QED  BY <2>2, <2>3 DEF NotifierApart
<1>1. CASE Wait \/ AcceptRefused \/ AcceptDone \/ EventsDone \/ RoundDone \/ CmdsDone \/ SendDropped
           \/ (\E e \in batch : HandleNotify(e) \/ HandleListen(e)) \/ (\E f \in load.fds : Arrive(f))
  <2>1. UNCHANGED <<pc, loc, pool, kernel, hist>> /\ Takes
    BY <1>1 DEF Wait, AcceptRefused, AcceptDone, EventsDone, RoundDone, CmdsDone, SendDropped, Pop,
                HandleNotify, HandleListen, Arrive, Takes, chan, app
  <2>2. Still  BY <2>1 DEF Still, pool
  <2> QED  BY <2>1, <2>2
<1>2. CASE AcceptOne \/ ListenSocket \/ ConnectFails \/ ConnectAtOnce \/ ConnectStarts
  BY <1>2 DEF AcceptOne, ListenSocket, ConnectFails, ConnectAtOnce, ConnectStarts, Pop, app
<1>3. CASE SendQueued
  BY <1>0, <1>3, QueuedStreams DEF SendQueued, Pop, Takes, Touches, app
<1>4. CASE SendNow
  BY <1>0, <1>4, SendStreams DEF SendNow, Pop, Takes, Touches, app
<1>5. CASE HandleWrite
  <2>1. UNCHANGED <<pc, loc, queue>>  BY <1>5 DEF HandleWrite, chan, app
  <2>2. status[cur] = "Connected" => cur \in Slots \ {Notifier}  BY DEF TypeOK, NotifierApart
  <2> QED  BY <1>5, <2>1, <2>2, WriteStreams DEF Takes, Touches
<1>6. CASE CloseSocket
  <2>1. UNCHANGED <<pc, loc>> /\ Takes  BY <1>6 DEF CloseSocket, Pop, Takes, app
  <2>2. CASE InUse(Head(queue).id)
    <3>1. Closing(Head(queue).id)  BY <1>0, <1>6, <2>2 DEF CloseSocket, Pop, ForceClose, Closing, Reached
    <3> QED  BY <1>0, <1>6, <2>1, <3>1 DEF CloseSocket, Pop, Touches
  <2>3. CASE ~InUse(Head(queue).id)
    <3>1. Still  BY <1>6, <2>3 DEF CloseSocket, Still, pool
    <3> QED  BY <2>1, <3>1
  <2> QED  BY <2>2, <2>3
<1>7. ASSUME NEW s \in Slots, Expire(s)  PROVE UNCHANGED <<pc, loc>> /\ Kind
  <2>1. UNCHANGED <<pc, loc, queue>> /\ s # Notifier  BY <1>7 DEF Expire, chan, app, NotifierApart
  <2>2. CASE InUse(s)
    <3>1. Closing(s)  BY <1>7, <2>2 DEF Expire, ForceClose, Closing, Reached
    <3> QED  BY <2>1, <3>1 DEF Touches, Takes
  <2>3. CASE ~InUse(s)
    <3>1. Still  BY <1>7, <2>3 DEF Expire, Still
    <3> QED  BY <2>1, <3>1 DEF Takes
  <2> QED  BY <2>2, <2>3
<1>8. ASSUME NEW e \in batch, HandleConnect(e)  PROVE UNCHANGED <<pc, loc>> /\ Kind
  <2>1. UNCHANGED <<pc, loc, queue>> /\ e.slot \in Slots \ {Notifier}
    BY <1>8 DEF HandleConnect, chan, app, NotifierApart, TypeOK, Events
  <2>2. CASE ForceClose(e.slot)
    <3>1. Closing(e.slot)  BY <1>8, <2>2 DEF HandleConnect, ForceClose, Closing, Reached, InUse
    <3> QED  BY <2>1, <3>1 DEF Touches, Takes
  <2>3. CASE ~ForceClose(e.slot)
    <3>1. Opening(e.slot)  BY <1>8, <2>3 DEF HandleConnect, Opening
    <3> QED  BY <2>1, <3>1 DEF Touches, Takes
  <2> QED  BY <2>2, <2>3
<1>9. ASSUME NEW e \in batch, HandleIo(e)  PROVE UNCHANGED <<pc, loc>> /\ Kind
  <2>1. UNCHANGED <<pc, loc, queue>> /\ e.slot \in Slots
    BY <1>9 DEF HandleIo, chan, app, TypeOK, Events
  <2>2. CASE UNCHANGED <<pool, kernel, hist>>
    <3>1. Still  BY <2>2 DEF Still, pool
    <3> QED  BY <2>1, <3>1 DEF Takes
  <2>3. CASE status[e.slot] = "Connected" /\ Read(e.slot) /\ ~UNCHANGED <<pool, kernel, hist>>
    <3>1. e.slot # Notifier  BY <2>3 DEF NotifierApart
    <3>2. Hearing(e.slot) \/ Closing(e.slot)  BY <2>3 DEF Read, Hearing, Closing, InUse, Reached
    <3> QED  BY <2>1, <3>1, <3>2 DEF Touches, Takes
  <2> QED  BY <1>9, <2>2, <2>3 DEF HandleIo
<1> QED  BY <1>1, <1>2, <1>3, <1>4, <1>5, <1>6, <1>7, <1>8, <1>9 DEF NetAct, NetStep, Accepting, Handling, Command1

-----------------------------------------------------------------------------
(* Types.                                                                    *)

SlotTypes ==
    /\ cursor \in Slots
    /\ status \in [Slots -> Status]
    /\ type \in [Slots -> {"Normal", "Listen", "Notify"}]
    /\ fd \in [Slots -> Fds \cup {NoFd}]
    /\ wbuf \in [Slots -> Seq(Byte)]
    /\ connTimer \subseteq Slots
KernelTypes ==
    /\ open \subseteq Fds /\ lfds \subseteq open
    /\ epoll \in [Fds -> SUBSET {"R", "W"}]
    /\ ud \in [Fds -> Slots]
    /\ mask \in [Fds -> SUBSET {"R", "W"}]
HistTypes ==
    /\ births \in Seq([slot : Slots, kind : {"connect", "listen", "accept"}])
    /\ born \in [Slots -> Nat]
    /\ calls \in [Slots -> Seq(Callbacks)]
    /\ sent \in [Slots -> Seq(Byte)]
    /\ wire \in [Slots -> Seq(Byte)]
    /\ early \in BOOLEAN
UserTypes ==
    /\ queue \in Seq(Cmds)
    /\ efd \in BOOLEAN /\ edge \in BOOLEAN
    /\ pc \in [Threads -> {"out", "connect", "listen", "push", "notify"}]
    /\ loc \in [Threads -> [slot : Slots, fd : Fds \cup {NoFd}]]
    /\ load \in Loads /\ sends \in 0 .. load.sends /\ closes \in 0 .. load.closes
NetTypes ==
    /\ netpc \in {"wait", "events", "write", "accept", "cmds", "timeout"}
    /\ cur \in Slots
    /\ batch \subseteq Events
    /\ backlog \in [Fds -> Nat] /\ ledges \subseteq Fds /\ refused \subseteq Fds
    /\ arrivals \in 0 .. load.arrivals

(* The parts of TypeOK.                                                      *)
LEMMA TypeParts == TypeOK <=> SlotTypes /\ KernelTypes /\ HistTypes /\ UserTypes /\ NetTypes
BY DEF TypeOK, SlotTypes, KernelTypes, HistTypes, UserTypes, NetTypes

(* onPacket() is a callback.                                                 *)
LEMMA PacketTypes ==
    ASSUME TypeOK, NEW s \in Slots
    PROVE  calls[s] \in Seq(Callbacks) /\ WithPacket(s) \in Seq(Callbacks)
<1>1. calls[s] \in Seq(Callbacks) /\ "onPacket" \in Callbacks  BY DEF TypeOK, Callbacks
<1> QED  BY <1>1, AppendFacts DEF WithPacket

(* forceClose().                                                             *)
LEMMA CloseTypes ==
    ASSUME TypeOK, NEW s \in Slots, Closing(s)
    PROVE  SlotTypes' /\ KernelTypes' /\ HistTypes'
<1>1. PICK before \in {calls[s], WithPacket(s)} : CloseAfter(s, before)  BY DEF Closing
<1>2. before \in Seq(Callbacks) /\ "onClose" \in Callbacks  BY PacketTypes DEF Callbacks
<1>3. Append(before, "onClose") \in Seq(Callbacks)  BY <1>2, AppendFacts
<1>4. SlotTypes'
  <2>1. wbuf' \in [Slots -> Seq(Byte)]
    <3>1. <<>> \in Seq(Byte)  OBVIOUS
    <3> QED  BY <1>1, <3>1 DEF TypeOK, CloseAfter, ClearBuffer
  <2> QED  BY <1>1, <2>1 DEF TypeOK, SlotTypes, Closing, CloseAfter, ResetSlot, Status
<1>5. KernelTypes'
  BY <1>1 DEF TypeOK, KernelTypes, CloseAfter, CloseFd, PollDel
<1>6. calls' \in [Slots -> Seq(Callbacks)]  BY <1>1, <1>3 DEF TypeOK, CloseAfter, OnClose
<1>7. early' \in BOOLEAN  BY <1>1 DEF CloseAfter
<1> QED  BY <1>1, <1>4, <1>5, <1>6, <1>7 DEF TypeOK, HistTypes, CloseAfter

(* The other kinds of steps that touch one slot.                             *)
LEMMA TouchTypes ==
    ASSUME TypeOK, NEW s \in Slots, Touches(s)
    PROVE  SlotTypes' /\ KernelTypes' /\ HistTypes'
<1>1. CASE Closing(s)  BY <1>1, CloseTypes
<1>2. CASE Opening(s)
  <2>1. Append(calls[s], "onConnect") \in Seq(Callbacks)
    BY PacketTypes, AppendFacts DEF Callbacks
  <2>2. calls' \in [Slots -> Seq(Callbacks)]  BY <1>2, <2>1 DEF TypeOK, Opening, Callback
  <2> QED  BY <1>2, <2>2 DEF TypeOK, Opening, SlotTypes, KernelTypes, HistTypes, Status
<1>3. CASE Hearing(s)
  <2>1. calls' \in [Slots -> Seq(Callbacks)]  BY <1>3, PacketTypes DEF TypeOK, Hearing
  <2> QED  BY <1>3, <2>1 DEF TypeOK, Hearing, SlotTypes, KernelTypes, HistTypes, pool, kernel
<1>4. CASE Streaming(s)
  <2>0. PICK w, x, y \in Seq(Byte) :
          /\ wbuf' = [wbuf EXCEPT ![s] = w]
          /\ wire' = [wire EXCEPT ![s] = x]
          /\ sent' = [sent EXCEPT ![s] = y]
          /\ UNCHANGED <<epoll, mask>> \/ (AddToWrite(fd[s]) /\ UNCHANGED mask) \/ DelWrite(s)
    BY <1>4 DEF Streaming
  <2>1. mask' \in [Fds -> SUBSET {"R", "W"}]
    <3>1. \A f \in Fds : mask[f] \ {"W"} \in SUBSET {"R", "W"}  BY DEF TypeOK
    <3>2. CASE DelWrite(s)  BY <3>1, <3>2 DEF TypeOK, DelWrite
    <3> QED  BY <2>0, <3>2 DEF TypeOK
  <2>2. epoll' \in [Fds -> SUBSET {"R", "W"}]
    <3>1. {"R", "W"} \in SUBSET {"R", "W"} /\ {} \in SUBSET {"R", "W"}  OBVIOUS
    <3>2. \A f \in Fds : mask'[f] \in SUBSET {"R", "W"}  BY <2>1
    <3>3. CASE AddToWrite(fd[s])  BY <3>1, <3>3 DEF TypeOK, AddToWrite
    <3>4. CASE DelWrite(s)  BY <3>2, <3>4 DEF TypeOK, DelWrite
    <3> QED  BY <2>0, <3>3, <3>4 DEF TypeOK
  <2>3. wbuf' \in [Slots -> Seq(Byte)]  BY <2>0 DEF TypeOK
  <2>4. sent' \in [Slots -> Seq(Byte)]  BY <2>0 DEF TypeOK
  <2>5. wire' \in [Slots -> Seq(Byte)]  BY <2>0 DEF TypeOK
  <2> QED  BY <1>4, <2>1, <2>2, <2>3, <2>4, <2>5 DEF TypeOK, Streaming, SlotTypes, KernelTypes, HistTypes
<1> QED  BY <1>1, <1>2, <1>3, <1>4 DEF Touches

(* A slot is taken.                                                          *)
LEMMA TakeTypes ==
    ASSUME TypeOK, NEW s \in Slots, NEW kind \in {"connect", "listen", "accept"}, Take(s, kind),
           UNCHANGED early
    PROVE  cursor' \in Slots /\ HistTypes'
<1> DEFINE B == [slot : Slots, kind : {"connect", "listen", "accept"}]
<1>1. births \in Seq(B) /\ [slot |-> s, kind |-> kind] \in B  BY DEF TypeOK
<1>2. births' \in Seq(B) /\ Len(births') \in Nat  BY <1>1, AppendFacts DEF Take
<1>3. born' \in [Slots -> Nat]  BY <1>2 DEF TypeOK, Take
<1>4. calls' \in [Slots -> Seq(Callbacks)]
  <2>1. <<>> \in Seq(Callbacks) /\ <<"onAccept">> \in Seq(Callbacks)  BY DEF Callbacks
  <2> QED  BY <2>1 DEF TypeOK, Take
<1>5. sent' \in [Slots -> Seq(Byte)] /\ wire' \in [Slots -> Seq(Byte)]
  <2>1. <<>> \in Seq(Byte)  OBVIOUS
  <2> QED  BY <2>1 DEF TypeOK, Take
<1> QED  BY <1>2, <1>3, <1>4, <1>5 DEF TypeOK, Take, HistTypes

(* Adding an event.                                                          *)
LEMMA AddEventTypes ==
    ASSUME TypeOK, NEW s \in Slots, NEW f \in Fds, NEW e \in {"R", "W"}, addEvent(f, e, s)
    PROVE  /\ mask' \in [Fds -> SUBSET {"R", "W"}] /\ epoll' \in [Fds -> SUBSET {"R", "W"}]
           /\ ud' \in [Fds -> Slots]
<1>1. mask' \in [Fds -> SUBSET {"R", "W"}]  BY DEF TypeOK, addEvent
<1>2. epoll' \in [Fds -> SUBSET {"R", "W"}]  BY <1>1 DEF TypeOK, addEvent
<1>3. ud' \in [Fds -> Slots]  BY DEF TypeOK, addEvent
<1> QED  BY <1>1, <1>2, <1>3

(* The slots, the kernel and the history keep their types.                   *)
LEMMA PlaceTypes ==
    ASSUME TypeOK, NotifierApart, Next
    PROVE  SlotTypes' /\ KernelTypes' /\ HistTypes'
<1>0. load.threads \subseteq Threads  BY LoopAssumption DEF TypeOK
<1>1. CASE Still
  BY <1>1 DEF Still, TypeOK, SlotTypes, KernelTypes, HistTypes, kernel, hist
<1>2. CASE AcceptOne
  <2>1. PICK s \in Slots, f \in FreeFds :
          /\ Take(s, "accept")
          /\ status' = [status EXCEPT ![s] = "Connected"]
          /\ type' = [type EXCEPT ![s] = "Normal"]
          /\ fd' = [fd EXCEPT ![s] = f]
          /\ open' = open \cup {f}
          /\ epoll' = [epoll EXCEPT ![f] = {"R"}]
          /\ ud' = [ud EXCEPT ![f] = s]
    BY <1>2 DEF AcceptOne
  <2>2. UNCHANGED <<wbuf, connTimer, lfds, mask, early>>  BY <1>2 DEF AcceptOne
  <2>3. f \in Fds  BY FreeFdsFree
  <2>4. cursor' \in Slots /\ HistTypes'  BY <2>1, <2>2, TakeTypes
  <2> QED  BY <2>1, <2>2, <2>3, <2>4 DEF TypeOK, SlotTypes, KernelTypes, Status
<1>3. CASE ListenSocket
  <2>1. Head(queue) \in Cmds  BY <1>3, TailFacts DEF TypeOK, ListenSocket, Pop
  <2>2. Head(queue).id \in Slots  BY <2>1 DEF Cmds
  <2>3. KernelTypes'
    <3> DEFINE s == Head(queue).id
               f == fd[s]
    <3>1. CASE /\ f \in open
               /\ epoll' = [epoll EXCEPT ![f] = {"R"}]
               /\ ud' = [ud EXCEPT ![f] = s]
      <4>1. f \in Fds /\ {"R"} \in SUBSET {"R", "W"}  BY <3>1 DEF TypeOK
      <4> HIDE DEF f, s
      <4>2. epoll' \in [Fds -> SUBSET {"R", "W"}]  BY <3>1, <4>1 DEF TypeOK
      <4>3. ud' \in [Fds -> Slots]  BY <2>2, <3>1, <4>1 DEF TypeOK, s
      <4> QED  BY <1>3, <4>2, <4>3 DEF ListenSocket, TypeOK, KernelTypes
    <3>2. CASE UNCHANGED <<epoll, ud>>
      BY <1>3, <3>2 DEF ListenSocket, TypeOK, KernelTypes
    <3> QED  BY <1>3, <3>1, <3>2 DEF ListenSocket
  <2> QED  BY <1>3, <2>3 DEF ListenSocket, TypeOK, SlotTypes, HistTypes, pool, hist
<1>4. CASE ConnectFails \/ ConnectAtOnce \/ ConnectStarts
  <2> DEFINE s == Head(queue).id
  <2>1. Head(queue) \in Cmds  BY <1>4, TailFacts DEF TypeOK, ConnectFails, ConnectAtOnce, ConnectStarts, Pop
  <2>2. s \in Slots  BY <2>1 DEF Cmds
  <2>3. \A cb \in Callbacks : Append(calls[s], cb) \in Seq(Callbacks)
    BY <2>2, PacketTypes, AppendFacts
  <2> HIDE DEF s
  <2>4. ASSUME NEW cb \in Callbacks, Callback(s, cb)  PROVE calls' \in [Slots -> Seq(Callbacks)]
    BY <2>3, <2>4 DEF TypeOK, Callback
  <2>5. "onClose" \in Callbacks /\ "onConnect" \in Callbacks  BY DEF Callbacks
  <2>6. CASE ConnectFails
    <3>1. status' = [status EXCEPT ![s] = "Idle"] /\ calls' \in [Slots -> Seq(Callbacks)]
      BY <2>4, <2>5, <2>6 DEF ConnectFails, s
    <3>2. UNCHANGED <<cursor, type, fd, wbuf, connTimer, kernel, births, born, sent, wire, early>>
      BY <2>6 DEF ConnectFails
    <3> QED  BY <3>1, <3>2 DEF TypeOK, SlotTypes, KernelTypes, HistTypes, Status, kernel
  <2>7. CASE ConnectAtOnce
    <3>1. PICK f \in FreeFds :
            /\ open' = open \cup {f}
            /\ fd' = [fd EXCEPT ![s] = f]
            /\ status' = [status EXCEPT ![s] = "Connected"]
            /\ Callback(s, "onConnect")
            /\ addEvent(f, "R", s)
      BY <2>7 DEF ConnectAtOnce, s
    <3>2. UNCHANGED <<cursor, type, wbuf, connTimer, lfds, births, born, sent, wire, early>>
      BY <2>7 DEF ConnectAtOnce
    <3>3. f \in Fds  BY FreeFdsFree
    <3>4. calls' \in [Slots -> Seq(Callbacks)]  BY <2>4, <2>5, <3>1
    <3> QED  BY <2>2, <3>1, <3>2, <3>3, <3>4, AddEventTypes DEF TypeOK, SlotTypes, KernelTypes, HistTypes, Status
  <2>8. CASE ConnectStarts
    <3>1. PICK f \in FreeFds :
            /\ open' = open \cup {f}
            /\ fd' = [fd EXCEPT ![s] = f]
            /\ status' = [status EXCEPT ![s] = "Connecting"]
            /\ addEvent(f, "W", s)
            /\ connTimer' = connTimer \cup {s}
      BY <2>8 DEF ConnectStarts, s
    <3>2. UNCHANGED <<cursor, type, wbuf, lfds, births, born, calls, sent, wire, early>>
      BY <2>8 DEF ConnectStarts
    <3>3. f \in Fds  BY FreeFdsFree
    <3> QED  BY <2>2, <3>1, <3>2, <3>3, AddEventTypes DEF TypeOK, SlotTypes, KernelTypes, HistTypes, Status
  <2> QED  BY <1>4, <2>6, <2>7, <2>8
<1>5. CASE NetAct  BY <1>1, <1>2, <1>3, <1>4, <1>5, NetKinds, TouchTypes
<1>6. ASSUME NEW t \in load.threads, Listen(t)  PROVE SlotTypes' /\ KernelTypes' /\ HistTypes'
  <2>1. PICK s \in Slots, f \in FreeFds :
          /\ Take(s, "listen")
          /\ status' = [status EXCEPT ![s] = "Reserse"]
          /\ fd' = [fd EXCEPT ![s] = NoFd]
          /\ open' = open \cup {f}
          /\ lfds' = lfds \cup {f}
    BY <1>6 DEF Listen
  <2>2. UNCHANGED <<type, wbuf, connTimer, epoll, ud, mask, early>>  BY <1>6 DEF Listen
  <2>3. f \in Fds  BY FreeFdsFree
  <2>4. cursor' \in Slots /\ HistTypes'  BY <2>1, <2>2, TakeTypes
  <2> QED  BY <2>1, <2>2, <2>3, <2>4 DEF TypeOK, SlotTypes, KernelTypes, Status
<1>7. ASSUME NEW t \in load.threads, Connect(t)  PROVE SlotTypes' /\ KernelTypes' /\ HistTypes'
  <2>1. PICK s \in Slots :
          /\ Take(s, "connect")
          /\ status' = [status EXCEPT ![s] = "Reserse"]
          /\ fd' = [fd EXCEPT ![s] = NoFd]
    BY <1>7 DEF Connect
  <2>2. UNCHANGED <<type, wbuf, connTimer, kernel, early>>  BY <1>7 DEF Connect
  <2>4. cursor' \in Slots /\ HistTypes'  BY <2>1, <2>2, TakeTypes
  <2> QED  BY <2>1, <2>2, <2>4 DEF TypeOK, SlotTypes, KernelTypes, Status, kernel
<1>8. ASSUME NEW t \in load.threads, FillConnect(t) \/ FillListen(t)
      PROVE  SlotTypes' /\ KernelTypes' /\ HistTypes'
  <2>1. loc[t].slot \in Slots /\ loc[t].fd \in Fds \cup {NoFd}  BY <1>0 DEF TypeOK
  <2>2. CASE FillConnect(t)
    BY <2>1, <2>2 DEF FillConnect, TypeOK, SlotTypes, KernelTypes, HistTypes, Status, kernel, hist
  <2>3. CASE FillListen(t)
    BY <2>1, <2>3 DEF FillListen, TypeOK, SlotTypes, KernelTypes, HistTypes, Status, kernel, hist
  <2> QED  BY <1>8, <2>2, <2>3
<1>9. ASSUME NEW t \in load.threads, Push(t) \/ Notify(t) \/ SendCall(t) \/ CloseCall(t)  PROVE Still
  BY <1>9 DEF Push, Notify, SendCall, CloseCall, Still, pool
<1> QED  BY <1>1, <1>5, <1>6, <1>7, <1>8, <1>9 DEF Next, NetAct, Return

(* The net thread takes commands from the front of the queue and leaves the  *)
(* calling threads alone.                                                    *)
LEMMA NetUsers ==
    ASSUME NetAct
    PROVE  UNCHANGED app /\ (queue' = queue \/ (netpc = "cmds" /\ queue # <<>> /\ queue' = Tail(queue)))
<1>1. ASSUME NEW e \in batch, HandleNotify(e) \/ HandleListen(e) \/ HandleConnect(e) \/ HandleIo(e)
      PROVE  UNCHANGED <<app, queue>>
  BY <1>1 DEF HandleNotify, HandleListen, HandleConnect, HandleIo, chan
<1>2. CASE Wait \/ AcceptOne \/ AcceptRefused \/ AcceptDone \/ EventsDone \/ RoundDone \/ CmdsDone
           \/ HandleWrite \/ (\E f \in load.fds : Arrive(f)) \/ (\E s \in Slots : Expire(s))
  BY <1>2 DEF Wait, AcceptOne, AcceptRefused, AcceptDone, EventsDone, RoundDone, CmdsDone, HandleWrite,
              Arrive, Expire, chan
<1>3. CASE ListenSocket \/ Command1
  BY <1>3 DEF ListenSocket, Command1, ConnectFails, ConnectAtOnce, ConnectStarts, SendDropped,
              SendQueued, SendNow, CloseSocket, Pop
<1> QED  BY <1>1, <1>2, <1>3 DEF NetAct, NetStep, Accepting, Handling

(* The queue, the eventfd and the calling threads keep their types.          *)
LEMMA UserTypesStep ==
    ASSUME TypeOK, Next
    PROVE  UserTypes'
<1> DEFINE P == {"out", "connect", "listen", "push", "notify"}
           L == [slot : Slots, fd : Fds \cup {NoFd}]
<1>0. load.threads \subseteq Threads  BY LoadFacts
<1>a. queue \in Seq(Cmds) /\ pc \in [Threads -> P] /\ loc \in [Threads -> L]  BY DEF TypeOK
<1>1. CASE NetAct
  <2>1. queue' \in Seq(Cmds)
    <3>1. queue # <<>> => Tail(queue) \in Seq(Cmds)  BY <1>a, TailFacts
    <3> QED  BY <1>1, <1>a, <3>1, NetUsers
  <2>2. UNCHANGED <<pc, loc, load, sends, closes>>  BY <1>1, NetUsers DEF app
  <2>3. efd' \in BOOLEAN /\ edge' \in BOOLEAN
    <3>0. efd \in BOOLEAN /\ edge \in BOOLEAN  BY DEF TypeOK
    <3>1. ASSUME NEW e \in batch, HandleNotify(e) \/ HandleListen(e) \/ HandleConnect(e) \/ HandleIo(e)
          PROVE  efd' \in BOOLEAN /\ edge' \in BOOLEAN
      <4>1. efd' = FALSE \/ UNCHANGED efd
        BY <3>1 DEF HandleNotify, HandleListen, HandleConnect, HandleIo, chan
      <4>2. UNCHANGED edge
        BY <3>1 DEF HandleNotify, HandleListen, HandleConnect, HandleIo, chan
      <4> QED  BY <3>0, <4>1, <4>2
    <3>2. CASE Wait  BY <3>0, <3>2 DEF Wait
    <3>3. CASE AcceptOne \/ AcceptRefused \/ AcceptDone \/ EventsDone \/ RoundDone \/ CmdsDone
               \/ HandleWrite \/ (\E f \in load.fds : Arrive(f)) \/ (\E s \in Slots : Expire(s))
      <4>1. UNCHANGED <<efd, edge>>
        BY <3>3 DEF AcceptOne, AcceptRefused, AcceptDone, EventsDone, RoundDone, CmdsDone, HandleWrite,
                    Arrive, Expire, chan
      <4> QED  BY <3>0, <4>1
    <3>4. CASE ListenSocket \/ Command1
      <4>1. UNCHANGED <<efd, edge>>
        BY <3>4 DEF ListenSocket, Command1, ConnectFails, ConnectAtOnce, ConnectStarts, SendDropped,
                    SendQueued, SendNow, CloseSocket, Pop
      <4> QED  BY <3>0, <4>1
    <3> QED  BY <1>1, <3>1, <3>2, <3>3, <3>4 DEF NetAct, NetStep, Accepting, Handling
  <2> QED  BY <2>1, <2>2, <2>3 DEF TypeOK, UserTypes
<1>2. ASSUME NEW t \in load.threads, Connect(t) \/ Listen(t)  PROVE UserTypes'
  <2>1. UNCHANGED <<chan, load, sends, closes>>  BY <1>2 DEF Connect, Listen
  <2>2. \E s \in Slots, f \in Fds \cup {NoFd} : loc' = [loc EXCEPT ![t] = [slot |-> s, fd |-> f]]
    BY <1>2, FreeFdsFree DEF Connect, Listen
  <2>3. loc' \in [Threads -> L]
    <3>1. \A s \in Slots, f \in Fds \cup {NoFd} : [slot |-> s, fd |-> f] \in L  OBVIOUS
    <3> HIDE DEF L
    <3> QED  BY <1>a, <2>2, <3>1
  <2>4. pc' \in [Threads -> P]
    <3>1. \E x \in P : pc' = [pc EXCEPT ![t] = x]  BY <1>2 DEF Connect, Listen
    <3> QED  BY <1>a, <3>1
  <2> QED  BY <2>1, <2>3, <2>4 DEF TypeOK, UserTypes, chan
<1>3. ASSUME NEW t \in load.threads, FillConnect(t) \/ FillListen(t)  PROVE UserTypes'
  BY <1>3 DEF FillConnect, FillListen, TypeOK, UserTypes, chan
<1>4. ASSUME NEW t \in load.threads, Push(t)  PROVE UserTypes'
  <2>1. loc[t].slot \in Slots  BY <1>0 DEF TypeOK
  <2>2. Command(IF loc[t].fd = NoFd THEN "Connect" ELSE "Listen", loc[t].slot, 0, 0) \in Cmds
    BY <2>1 DEF Command, Cmds
  <2>3. queue' \in Seq(Cmds)  BY <1>4, <2>2, AppendFacts DEF Push, TypeOK
  <2> QED  BY <1>4, <2>3 DEF Push, TypeOK, UserTypes
<1>5. ASSUME NEW t \in load.threads, Notify(t)  PROVE UserTypes'
  <2>1. loc' \in [Threads -> [slot : Slots, fd : Fds \cup {NoFd}]]  BY <1>5, Constants DEF Notify, TypeOK
  <2> QED  BY <1>5, <2>1 DEF Notify, TypeOK, UserTypes
<1>6. ASSUME NEW t \in load.threads, SendCall(t)  PROVE UserTypes'
  <2>1. sends + 1 \in 0 .. load.sends /\ sends + 1 \in Nat  BY <1>6, LoadFacts DEF SendCall
  <2>2. PICK b \in DOMAIN births, len \in load.lens :
          queue' = Append(queue, Command("Send", births[b].slot, sends + 1, len))
    BY <1>6 DEF SendCall
  <2>3. births[b].slot \in Slots  BY BirthTypes
  <2>4. Command("Send", births[b].slot, sends + 1, len) \in Cmds
    BY <2>1, <2>3, LoadFacts DEF Command, Cmds
  <2>5. queue' \in Seq(Cmds)  BY <2>2, <2>4, AppendFacts DEF TypeOK
  <2> QED  BY <1>6, <2>1, <2>5 DEF SendCall, TypeOK, UserTypes
<1>7. ASSUME NEW t \in load.threads, CloseCall(t)  PROVE UserTypes'
  <2>1. closes + 1 \in 0 .. load.closes  BY <1>7, LoadFacts DEF CloseCall
  <2>2. PICK b \in DOMAIN births : queue' = Append(queue, Command("Close", births[b].slot, 0, 0))
    BY <1>7 DEF CloseCall
  <2>3. births[b].slot \in Slots  BY BirthTypes
  <2>4. Command("Close", births[b].slot, 0, 0) \in Cmds  BY <2>3 DEF Command, Cmds
  <2>5. queue' \in Seq(Cmds)  BY <2>2, <2>4, AppendFacts DEF TypeOK
  <2> QED  BY <1>7, <2>1, <2>5 DEF CloseCall, TypeOK, UserTypes
<1> QED  BY <1>1, <1>2, <1>3, <1>4, <1>5, <1>6, <1>7 DEF Next, NetAct, Return

(* The net thread and the backlogs keep their types.                         *)
LEMMA NetTypesStep ==
    ASSUME TypeOK, Next
    PROVE  NetTypes'
<1>0. load.threads \subseteq Threads /\ load.arrivals \in Nat /\ load.fds \subseteq Fds  BY LoadFacts
<1>1. CASE Wait
  <2>1. \A f \in Fds : [slot |-> ud[f], r |-> TRUE, w |-> FALSE] \in Events  BY DEF TypeOK, Events
  <2>2. \A f \in Fds : Ready(f) \subseteq Events  BY DEF Ready, TypeOK, Events
  <2>3. [slot |-> Notifier, r |-> TRUE, w |-> FALSE] \in Events  BY Constants DEF Events
  <2>4. Reported \subseteq Fds  BY DEF Reported, TypeOK
  <2>5. batch' \subseteq Events
    <3>1. PICK F \in SUBSET {f \in Fds \ lfds : epoll[f] # {}} :
          \E ev \in [F -> UNION {Ready(f) : f \in F}] :
             /\ \A f \in F : ev[f] \in Ready(f)
             /\ batch' = {ev[f] : f \in F} \cup
                         {[slot |-> ud[f], r |-> TRUE, w |-> FALSE] : f \in Reported} \cup
                         (IF edge /\ efd THEN {[slot |-> Notifier, r |-> TRUE, w |-> FALSE]} ELSE {})
      BY <1>1 DEF Wait
    <3>2. PICK ev \in [F -> UNION {Ready(f) : f \in F}] :
             /\ \A f \in F : ev[f] \in Ready(f)
             /\ batch' = {ev[f] : f \in F} \cup
                         {[slot |-> ud[f], r |-> TRUE, w |-> FALSE] : f \in Reported} \cup
                         (IF edge /\ efd THEN {[slot |-> Notifier, r |-> TRUE, w |-> FALSE]} ELSE {})
      BY <3>1
    <3>3. \A f \in F : ev[f] \in Events  BY <2>2, <3>2
    <3> QED  BY <2>1, <2>3, <2>4, <3>2, <3>3
  <2> QED  BY <1>1, <2>5 DEF Wait, TypeOK, NetTypes, app
<1>2. CASE AcceptOne \/ AcceptRefused \/ AcceptDone
  <2>1. backlog' \in [Fds -> Nat]
    <3>1. CASE AcceptDone  BY <3>1 DEF AcceptDone, TypeOK, backlogs
    <3>2. CASE AcceptOne \/ AcceptRefused
      <4>1. fd[cur] \in Fds /\ backlog[fd[cur]] \in Nat /\ backlog[fd[cur]] > 0
        BY <3>2 DEF AcceptOne, AcceptRefused, TypeOK
      <4>2. backlog[fd[cur]] - 1 \in Nat  BY <4>1
      <4>3. backlog' = [backlog EXCEPT ![fd[cur]] = backlog[fd[cur]] - 1]
        BY <3>2 DEF AcceptOne, AcceptRefused
      <4> QED  BY <4>2, <4>3 DEF TypeOK
    <3> QED  BY <1>2, <3>1, <3>2
  <2> QED
    BY <1>2, <2>1, Constants DEF AcceptOne, AcceptRefused, AcceptDone, AcceptNext, TypeOK, NetTypes, app, backlogs
<1>3. CASE ListenSocket
  <2>1. ledges' \subseteq Fds
    <3>1. fd[Head(queue).id] \in open => fd[Head(queue).id] \in Fds  BY DEF TypeOK
    <3>2. ledges' \in {ledges, ledges \cup {fd[Head(queue).id]}} /\ (ledges' = ledges \/ fd[Head(queue).id] \in open)
      BY <1>3 DEF ListenSocket
    <3> QED  BY <3>1, <3>2 DEF TypeOK
  <2>2. UNCHANGED <<netpc, cur, batch, load, backlog, refused, arrivals>>
    BY <1>3 DEF ListenSocket, Pop, net, app
  <2> QED  BY <2>1, <2>2 DEF TypeOK, NetTypes
<1>4. CASE Handling /\ UNCHANGED backlogs
  <2>1. ASSUME NEW e \in batch, HandleNotify(e) \/ HandleListen(e) \/ HandleConnect(e) \/ HandleIo(e)
        PROVE  NetTypes'
    <3>1. e.slot \in Slots  BY DEF TypeOK, Events
    <3>2. UNCHANGED load  BY <2>1 DEF HandleNotify, HandleListen, HandleConnect, HandleIo, app
    <3> QED  BY <1>4, <2>1, <3>1, <3>2, Constants
             DEF HandleNotify, HandleListen, HandleConnect, HandleIo, Event, TypeOK, NetTypes, backlogs
  <2>2. CASE Command1
    BY <1>4, <2>2 DEF Command1, ConnectFails, ConnectAtOnce, ConnectStarts, SendDropped,
              SendQueued, SendNow, CloseSocket, Pop, net, app, TypeOK, NetTypes, backlogs
  <2>3. CASE EventsDone \/ RoundDone \/ CmdsDone \/ HandleWrite
    BY <1>4, <2>3, Constants DEF EventsDone, RoundDone, CmdsDone, HandleWrite, app, TypeOK, NetTypes, backlogs
  <2> QED  BY <1>4, <2>1, <2>2, <2>3 DEF Handling
<1>5. ASSUME NEW f \in load.fds, Arrive(f)  PROVE NetTypes'
  <2>0. arrivals \in 0 .. load.arrivals /\ backlog \in [Fds -> Nat]  BY DEF TypeOK
  <2>1. arrivals + 1 \in 0 .. load.arrivals  BY <1>0, <1>5, <2>0 DEF Arrive
  <2>2. backlog' \in [Fds -> Nat]  BY <1>0, <1>5, <2>0 DEF Arrive
  <2> QED  BY <1>0, <1>5, <2>1, <2>2 DEF Arrive, TypeOK, NetTypes, net, app
<1>6. ASSUME NEW s \in Slots, Expire(s), UNCHANGED backlogs  PROVE NetTypes'
  BY <1>6 DEF Expire, TypeOK, NetTypes, net, app, backlogs
<1>7. ASSUME NEW t \in load.threads, Listen(t)  PROVE NetTypes'
  <2>1. backlog \in [Fds -> Nat] /\ ledges \subseteq Fds /\ refused \subseteq Fds  BY DEF TypeOK
  <2>2. \E f \in FreeFds : /\ backlog' = [backlog EXCEPT ![f] = 0]
                           /\ ledges' = ledges \ {f} /\ refused' = refused \ {f}
    BY <1>7 DEF Listen
  <2>3. PICK f \in FreeFds : backlog' = [backlog EXCEPT ![f] = 0]  BY <2>2
  <2>4. backlog' \in [Fds -> Nat]
    <3>1. 0 \in Nat  OBVIOUS
    <3> QED  BY <2>1, <2>3, <3>1
  <2> QED  BY <1>7, <2>1, <2>2, <2>4 DEF Listen, TypeOK, NetTypes, net
<1>8. ASSUME NEW t \in load.threads, UNCHANGED backlogs,
             Connect(t) \/ FillConnect(t) \/ FillListen(t) \/ Push(t) \/ Notify(t) \/ SendCall(t) \/ CloseCall(t)
      PROVE  NetTypes'
  BY <1>8 DEF Connect, FillConnect, FillListen, Push, Notify, SendCall, CloseCall, TypeOK, NetTypes, net, backlogs
<1> QED  BY <1>1, <1>2, <1>3, <1>4, <1>5, <1>6, <1>7, <1>8 DEF Next, NetStep, Accepting, Return

-----------------------------------------------------------------------------
(* The queue and the slots that were taken.                                  *)

(* The net thread adds nothing to the queue.                                 *)
LEMMA QueueShrinks ==
    ASSUME TypeOK, NetAct
    PROVE  \A i \in DOMAIN queue' : \E j \in DOMAIN queue : queue'[i] = queue[j]
<1>1. queue \in Seq(Cmds)  BY DEF TypeOK
<1>2. queue # <<>> => \A i \in DOMAIN Tail(queue) : \E j \in DOMAIN queue : Tail(queue)[i] = queue[j]
  BY <1>1, TailFacts
<1> QED  BY <1>2, NetUsers

(* An element of a sequence that grew by one was in it or is the new one.    *)
LEMMA ElementOfAppend ==
    ASSUME NEW S, NEW q \in Seq(S), NEW x \in S
    PROVE  \A i \in DOMAIN Append(q, x) : \/ i \in DOMAIN q /\ Append(q, x)[i] = q[i]
                                          \/ i = Len(q) + 1 /\ i \notin DOMAIN q /\ Append(q, x)[i] = x
<1>1. /\ Len(q) \in Nat /\ DOMAIN q = 1 .. Len(q) /\ DOMAIN Append(q, x) = 1 .. Len(q) + 1
      /\ \A k \in DOMAIN q : Append(q, x)[k] = q[k]
      /\ Append(q, x)[Len(q) + 1] = x
  BY AppendFacts
<1>2. \A i \in 1 .. Len(q) + 1 : i \in 1 .. Len(q) \/ (i = Len(q) + 1 /\ i \notin 1 .. Len(q))  BY <1>1
<1> QED  BY <1>1, <1>2

(* The slots of all births.                                                  *)
LEMMA BirthSlots ==
    ASSUME NEW b \in DOMAIN births
    PROVE  IF births[b].kind = "listen" THEN births[b].slot \in ServerSlots
                                        ELSE births[b].slot \in ClientSlots
BY DEF ServerSlots, ClientSlots

(* getNewSocket() gives an idle slot, and it is one more of its kind.        *)
LEMMA TakeSlots ==
    ASSUME TypeOK, NEW s \in Slots, NEW kind \in {"connect", "listen", "accept"}, Take(s, kind)
    PROVE  /\ status[s] = "Idle"
           /\ ServerSlots' = IF kind = "listen" THEN ServerSlots \cup {s} ELSE ServerSlots
           /\ ClientSlots' = IF kind = "listen" THEN ClientSlots ELSE ClientSlots \cup {s}
           /\ born'[s] # 0 /\ \A r \in Slots : born[r] # 0 => born'[r] # 0
<1> DEFINE B == [slot : Slots, kind : {"connect", "listen", "accept"}]
           x == [slot |-> s, kind |-> kind]
           n == Len(births) + 1
<1>1. births \in Seq(B) /\ x \in B  BY DEF TypeOK
<1>2. births' = Append(births, x)  BY DEF Take
<1> HIDE DEF B
<1>3. /\ n \in DOMAIN births' /\ births'[n] = x
      /\ Len(births') = Len(births) + 1 /\ Len(births) \in Nat
      /\ \A b \in DOMAIN births : b \in DOMAIN births' /\ births'[b] = births[b]
  BY <1>1, <1>2, AppendFacts
<1>4. \A b \in DOMAIN births' : (b \in DOMAIN births /\ births'[b] = births[b]) \/ b = n
  BY <1>1, <1>2, ElementOfAppend
<1> HIDE DEF n, x
<1>5. x.slot = s /\ x.kind = kind  BY DEF x
<1>6. ServerSlots' = IF kind = "listen" THEN ServerSlots \cup {s} ELSE ServerSlots
  BY <1>3, <1>4, <1>5 DEF ServerSlots
<1>7. ClientSlots' = IF kind = "listen" THEN ClientSlots ELSE ClientSlots \cup {s}
  BY <1>3, <1>4, <1>5 DEF ClientSlots
<1>8. born'[s] # 0 /\ \A r \in Slots : born[r] # 0 => born'[r] # 0
  <2>1. born' = [born EXCEPT ![s] = Len(births')] /\ Len(births') # 0  BY <1>3 DEF Take
  <2> QED  BY <2>1 DEF TypeOK
<1> QED  BY <1>6, <1>7, <1>8 DEF Take, IsNewSocket

-----------------------------------------------------------------------------
(* The slot of the eventfd.                                                  *)

(* No step gives the slot of the eventfd to anybody.                         *)
LEMMA NotifierStep ==
    ASSUME TypeOK, NotifierApart, Next
    PROVE  NotifierApart'
<1>0. load.threads \subseteq Threads /\ Notifier \in Slots /\ queue \in Seq(Cmds)
  BY LoopAssumption, Constants DEF TypeOK
<1>a. \A b \in DOMAIN births : births[b].slot # Notifier  BY BirthSlots DEF NotifierApart
<1>b. queue # <<>> => Head(queue).id # Notifier /\ Head(queue).id \in Slots
  <2>1. queue # <<>> => Head(queue) \in Cmds /\ 1 \in DOMAIN queue /\ Head(queue) = queue[1]
    BY <1>0, TailFacts
  <2> QED  BY <2>1 DEF NotifierApart, Cmds
<1>c. ASSUME NEW c \in Cmds, queue' = Append(queue, c), c.id # Notifier
      PROVE  \A i \in DOMAIN queue' : queue'[i].id # Notifier
  BY <1>0, <1>c, ElementOfAppend DEF NotifierApart
<1>1. CASE NetAct
  <2>1. \A i \in DOMAIN queue' : queue'[i].id # Notifier  BY <1>1, QueueShrinks DEF NotifierApart
  <2>2. UNCHANGED <<pc, loc>>  BY <1>1, NetKinds
  <2>3. CASE Still
    BY <2>1, <2>2, <2>3 DEF Still, NotifierApart, hist, ServerSlots, ClientSlots
  <2>4. ASSUME NEW s \in Slots \ {Notifier}, Touches(s)  PROVE NotifierApart'
    <3>1. UNCHANGED births /\ Notifier \notin connTimer'
      BY <2>4 DEF Touches, Closing, CloseAfter, Opening, Hearing, Streaming, pool, NotifierApart
    <3>2. status'[Notifier] = "Listen" /\ type'[Notifier] = "Notify" /\ fd'[Notifier] = NoFd
      BY <1>0, <2>4 DEF Touches, Closing, CloseAfter, ResetSlot, Opening, Hearing, Streaming, pool, NotifierApart, TypeOK
    <3> QED  BY <2>1, <2>2, <3>1, <3>2 DEF NotifierApart, ServerSlots, ClientSlots
  <2>5. CASE AcceptOne
    <3>1. PICK s \in Slots :
             /\ Take(s, "accept")
             /\ status' = [status EXCEPT ![s] = "Connected"]
             /\ type' = [type EXCEPT ![s] = "Normal"]
             /\ \E f \in FreeFds : fd' = [fd EXCEPT ![s] = f]
      BY <2>5 DEF AcceptOne
    <3>2. s # Notifier  BY <3>1, TakeSlots DEF NotifierApart
    <3>3. Notifier \notin ServerSlots' \cup ClientSlots'  BY <3>1, <3>2, TakeSlots DEF NotifierApart
    <3>4. UNCHANGED connTimer  BY <2>5 DEF AcceptOne
    <3> QED  BY <1>0, <2>1, <2>2, <3>1, <3>2, <3>3, <3>4 DEF NotifierApart, TypeOK
  <2>6. CASE ListenSocket
    BY <2>1, <2>2, <2>6 DEF ListenSocket, NotifierApart, pool, hist, ServerSlots, ClientSlots
  <2>7. CASE ConnectFails \/ ConnectAtOnce \/ ConnectStarts
    <3> DEFINE s == Head(queue).id
    <3>1. s # Notifier  BY <1>b, <2>7 DEF ConnectFails, ConnectAtOnce, ConnectStarts, Pop
    <3>2. /\ \E x : status' = [status EXCEPT ![s] = x]
          /\ UNCHANGED <<type, births>>
          /\ fd' = fd \/ \E f \in FreeFds : fd' = [fd EXCEPT ![s] = f]
          /\ connTimer' \subseteq connTimer \cup {s}
      BY <2>7 DEF ConnectFails, ConnectAtOnce, ConnectStarts
    <3> HIDE DEF s
    <3> QED  BY <1>0, <2>1, <2>2, <3>1, <3>2 DEF NotifierApart, TypeOK, ServerSlots, ClientSlots
  <2> QED  BY <1>1, <2>3, <2>4, <2>5, <2>6, <2>7, NetKinds
<1>2. ASSUME NEW t \in load.threads, Connect(t) \/ Listen(t)  PROVE NotifierApart'
  <2>1. PICK s \in Slots : /\ Take(s, "connect") \/ Take(s, "listen")
                           /\ status' = [status EXCEPT ![s] = "Reserse"]
                           /\ fd' = [fd EXCEPT ![s] = NoFd]
                           /\ \E f : loc' = [loc EXCEPT ![t] = [slot |-> s, fd |-> f]]
    BY <1>2 DEF Connect, Listen
  <2>2. s # Notifier  BY <2>1, TakeSlots DEF NotifierApart
  <2>3. Notifier \notin ServerSlots' \cup ClientSlots'  BY <2>1, <2>2, TakeSlots DEF NotifierApart
  <2>4. UNCHANGED <<type, connTimer, queue>>  BY <1>2 DEF Connect, Listen, chan
  <2>5. \A u \in Threads : pc'[u] \in {"connect", "listen", "push"} => loc'[u].slot # Notifier
    <3>1. \E x : pc' = [pc EXCEPT ![t] = x]  BY <1>2 DEF Connect, Listen
    <3> QED  BY <1>0, <2>1, <2>2, <3>1 DEF NotifierApart, TypeOK
  <2> QED  BY <1>0, <2>1, <2>2, <2>3, <2>4, <2>5 DEF NotifierApart, TypeOK
<1>3. ASSUME NEW t \in load.threads, FillConnect(t) \/ FillListen(t)  PROVE NotifierApart'
  <2>1. loc[t].slot # Notifier  BY <1>0, <1>3 DEF FillConnect, FillListen, NotifierApart
  <2>2. UNCHANGED <<connTimer, queue, births, loc>>  BY <1>3 DEF FillConnect, FillListen, chan, hist
  <2>3. status'[Notifier] = "Listen" /\ type'[Notifier] = "Notify" /\ fd'[Notifier] = NoFd
    BY <1>0, <1>3, <2>1 DEF FillConnect, FillListen, NotifierApart, TypeOK
  <2>4. pc' = [pc EXCEPT ![t] = "push"] /\ pc[t] \in {"connect", "listen"}
    BY <1>3 DEF FillConnect, FillListen
  <2>5. \A u \in Threads : pc'[u] \in {"connect", "listen", "push"} => loc'[u].slot # Notifier
    BY <1>0, <2>1, <2>2, <2>4 DEF NotifierApart, TypeOK
  <2> QED  BY <2>2, <2>3, <2>5 DEF NotifierApart, ServerSlots, ClientSlots
<1>4. ASSUME NEW t \in load.threads, Push(t) \/ SendCall(t) \/ CloseCall(t) \/ Notify(t)  PROVE NotifierApart'
  <2>1. UNCHANGED <<pool, births>>  BY <1>4 DEF Push, SendCall, CloseCall, Notify, hist
  <2>2. \A i \in DOMAIN queue' : queue'[i].id # Notifier
    <3>1. CASE Push(t)
      <4>1. loc[t].slot # Notifier /\ loc[t].slot \in Slots  BY <1>0, <3>1 DEF Push, NotifierApart, TypeOK
      <4> QED  BY <1>c, <3>1, <4>1 DEF Push, Command, Cmds
    <3>2. CASE SendCall(t) \/ CloseCall(t)
      <4>1. \E b \in DOMAIN births, ty \in {"Send", "Close"}, n \in Nat, len \in Nat :
               queue' = Append(queue, Command(ty, births[b].slot, n, len))
        BY <3>2, LoadFacts DEF SendCall, CloseCall
      <4>2. \A b \in DOMAIN births : births[b].slot \in Slots  BY BirthTypes
      <4> QED  BY <1>a, <1>c, <4>1, <4>2 DEF Command, Cmds
    <3>3. CASE Notify(t)  BY <3>3 DEF Notify, NotifierApart
    <3> QED  BY <1>4, <3>1, <3>2, <3>3
  <2>3. \A u \in Threads : pc'[u] \in {"connect", "listen", "push"} => loc'[u].slot # Notifier
    BY <1>0, <1>4 DEF Push, SendCall, CloseCall, Notify, NotifierApart, TypeOK
  <2> QED  BY <2>1, <2>2, <2>3 DEF NotifierApart, pool, ServerSlots, ClientSlots
<1> QED  BY <1>1, <1>2, <1>3, <1>4 DEF Next, NetAct, Return

-----------------------------------------------------------------------------
(* The batch of events and the wakeup of the net thread.                     *)

(* What the net thread does between two events of the batch.                 *)
LEMMA BatchStep ==
    ASSUME BatchDone, Next
    PROVE  BatchDone'
<1>1. ASSUME NEW e \in batch, HandleNotify(e) \/ HandleListen(e) \/ HandleConnect(e) \/ HandleIo(e)
      PROVE  BatchDone'
  BY <1>1 DEF HandleNotify, HandleListen, HandleConnect, HandleIo, Event, BatchDone
<1>2. CASE Wait \/ AcceptOne \/ AcceptRefused \/ AcceptDone \/ EventsDone \/ RoundDone \/ CmdsDone
           \/ HandleWrite
  BY <1>2 DEF Wait, AcceptOne, AcceptRefused, AcceptDone, AcceptNext, EventsDone, RoundDone, CmdsDone,
              HandleWrite, BatchDone
<1>3. CASE ListenSocket \/ Command1
  BY <1>3 DEF ListenSocket, Command1, ConnectFails, ConnectAtOnce, ConnectStarts, SendDropped,
              SendQueued, SendNow, CloseSocket, Pop, net, BatchDone
<1>4. CASE (\E f \in load.fds : Arrive(f)) \/ (\E s \in Slots : Expire(s))
  BY <1>4 DEF Arrive, Expire, net, BatchDone
<1>5. CASE \E t \in load.threads : \/ Listen(t) \/ Connect(t) \/ FillConnect(t) \/ FillListen(t)
                                   \/ Push(t) \/ Notify(t) \/ SendCall(t) \/ CloseCall(t)
  BY <1>5 DEF Listen, Connect, FillConnect, FillListen, Push, Notify, SendCall, CloseCall, net, BatchDone
<1> QED  BY <1>1, <1>2, <1>3, <1>4, <1>5 DEF Next, NetStep, Accepting, Handling, Return

(* A command that waits is announced, or about to be.                        *)
LEMMA WakeStep ==
    ASSUME TypeOK, NotifierApart, BatchDone, NoLostCommand, Next
    PROVE  NoLostCommand'
<1>0. load.threads \subseteq Threads  BY LoadFacts
<1>1. CASE Wait
  <2>1. UNCHANGED <<queue, efd, pc>> /\ batch = {} /\ netpc = "wait"  BY <1>1 DEF Wait, app, BatchDone
  <2>2. edge /\ efd => \E e \in batch' : e.slot = Notifier
    <3>1. edge /\ efd => [slot |-> Notifier, r |-> TRUE, w |-> FALSE] \in batch'  BY <1>1 DEF Wait
    <3> QED  BY <3>1
  <2> QED  BY <2>1, <2>2 DEF NoLostCommand
<1>2. ASSUME NEW e \in batch, HandleNotify(e)  PROVE NoLostCommand'
  BY <1>2 DEF HandleNotify, NoLostCommand
<1>3. ASSUME NEW e \in batch, HandleListen(e) \/ HandleConnect(e) \/ HandleIo(e)  PROVE NoLostCommand'
  <2>1. e.slot # Notifier /\ netpc = "events" /\ batch' = batch \ {e}
    BY <1>3 DEF HandleListen, HandleConnect, HandleIo, Event, NotifierApart
  <2>2. UNCHANGED <<queue, efd, edge, pc>>
    BY <1>3 DEF HandleListen, HandleConnect, HandleIo, chan, app
  <2> QED  BY <2>1, <2>2 DEF NoLostCommand
<1>4. CASE AcceptOne \/ AcceptRefused \/ AcceptDone \/ EventsDone \/ RoundDone \/ HandleWrite
  <2>1. netpc # "cmds" /\ UNCHANGED batch
    BY <1>4 DEF AcceptOne, AcceptRefused, AcceptDone, EventsDone, RoundDone, HandleWrite
  <2>2. UNCHANGED <<queue, efd, edge, pc>>
    BY <1>4 DEF AcceptOne, AcceptRefused, AcceptDone, EventsDone, RoundDone, HandleWrite, chan, app
  <2> QED  BY <2>1, <2>2 DEF NoLostCommand
<1>5. CASE CmdsDone  BY <1>5 DEF CmdsDone, NoLostCommand, chan
<1>6. CASE ListenSocket \/ Command1
  <2>1. netpc' = "cmds"
    BY <1>6 DEF ListenSocket, Command1, ConnectFails, ConnectAtOnce, ConnectStarts, SendDropped,
                SendQueued, SendNow, CloseSocket, Pop, net
  <2> QED  BY <2>1 DEF NoLostCommand
<1>7. CASE (\E f \in load.fds : Arrive(f)) \/ (\E s \in Slots : Expire(s))
  <2>1. UNCHANGED <<queue, efd, edge, pc, netpc, batch>>  BY <1>7 DEF Arrive, Expire, net, chan, app
  <2> QED  BY <2>1 DEF NoLostCommand
<1>8. ASSUME NEW t \in load.threads, Listen(t) \/ Connect(t) \/ FillConnect(t) \/ FillListen(t)
      PROVE  NoLostCommand'
  <2>1. UNCHANGED <<queue, efd, edge, netpc, batch>> /\ pc[t] # "notify"
    BY <1>8 DEF Listen, Connect, FillConnect, FillListen, net, chan
  <2>2. \A u \in Threads : pc[u] = "notify" => pc'[u] = "notify"
    BY <1>8, <2>1 DEF Listen, Connect, FillConnect, FillListen, TypeOK
  <2> QED  BY <2>1, <2>2 DEF NoLostCommand
<1>9. ASSUME NEW t \in load.threads, Push(t) \/ SendCall(t) \/ CloseCall(t)  PROVE NoLostCommand'
  <2>1. pc'[t] = "notify"  BY <1>0, <1>9 DEF Push, SendCall, CloseCall, TypeOK
  <2> QED  BY <1>0, <2>1 DEF NoLostCommand
<1>10. ASSUME NEW t \in load.threads, Notify(t)  PROVE NoLostCommand'
  BY <1>10 DEF Notify, NoLostCommand
<1> QED
  BY <1>1, <1>2, <1>3, <1>4, <1>5, <1>6, <1>7, <1>8, <1>9, <1>10
     DEF Next, NetStep, Accepting, Handling, Return

(* The types and the wakeup, for any workload.                               *)
WakeInv == TypeOK /\ NotifierApart /\ BatchDone /\ NoLostCommand

(* After the constructor.                                                    *)
LEMMA InitTypes == Init => TypeOK /\ NotifierApart
<1> SUFFICES ASSUME Init  PROVE TypeOK /\ NotifierApart
  OBVIOUS
<1>1. load \in Loads /\ load.sends \in Nat /\ load.closes \in Nat /\ load.arrivals \in Nat
  BY LoopAssumption DEF Init
<1>2. SlotTypes
  <2>1. <<>> \in Seq(Byte)  OBVIOUS
  <2> QED  BY <2>1, Constants DEF Init, SlotTypes, Status
<1>3. KernelTypes  BY Constants DEF Init, KernelTypes
<1>4. HistTypes
  <2>1. \A S : <<>> \in Seq(S)  OBVIOUS
  <2>2. /\ calls \in [Slots -> Seq(Callbacks)]
        /\ sent \in [Slots -> Seq(Byte)] /\ wire \in [Slots -> Seq(Byte)]
    BY <2>1 DEF Init
  <2>3. born \in [Slots -> Nat] /\ early \in BOOLEAN  BY DEF Init
  <2>4. births \in Seq([slot : Slots, kind : {"connect", "listen", "accept"}])  BY <2>1 DEF Init
  <2> QED  BY <2>2, <2>3, <2>4 DEF HistTypes
<1>5. UserTypes
  <2>1. <<>> \in Seq(Cmds)  OBVIOUS
  <2>2. loc \in [Threads -> [slot : Slots, fd : Fds \cup {NoFd}]]  BY Constants DEF Init
  <2>3. efd \in BOOLEAN /\ edge \in BOOLEAN  BY DEF Init
  <2>4. sends \in 0 .. load.sends /\ closes \in 0 .. load.closes  BY <1>1 DEF Init
  <2>5. queue \in Seq(Cmds) /\ pc \in [Threads -> {"out", "connect", "listen", "push", "notify"}]
    BY <2>1 DEF Init
  <2> QED  BY <1>1, <2>2, <2>3, <2>4, <2>5 DEF UserTypes
<1>6. NetTypes  BY <1>1, Constants DEF Init, NetTypes
<1>7. NotifierApart
  <2>1. DOMAIN queue = {} /\ DOMAIN births = {}  BY DEF Init
  <2> QED  BY <2>1, Constants DEF Init, NotifierApart, ServerSlots, ClientSlots
<1> QED  BY <1>2, <1>3, <1>4, <1>5, <1>6, <1>7, TypeParts

(* It holds at the start, ...                                                *)
LEMMA WakeInit == Init => WakeInv
<1>1. Init => BatchDone /\ NoLostCommand  BY DEF Init, BatchDone, NoLostCommand
<1> QED  BY <1>1, InitTypes DEF WakeInv

(* ... and every step keeps it.                                              *)
LEMMA WakeNext == WakeInv /\ [Next]_vars => WakeInv'
<1> SUFFICES ASSUME WakeInv, [Next]_vars  PROVE WakeInv'
  OBVIOUS
<1>1. CASE Next
  <2>1. TypeOK'
    <3>1. (SlotTypes /\ KernelTypes /\ HistTypes /\ UserTypes /\ NetTypes)'
      BY <1>1, PlaceTypes, UserTypesStep, NetTypesStep DEF WakeInv
    <3> QED  BY <3>1 DEF TypeOK, SlotTypes, KernelTypes, HistTypes, UserTypes, NetTypes
  <2> QED  BY <1>1, <2>1, NotifierStep, BatchStep, WakeStep DEF WakeInv
<1>2. CASE UNCHANGED vars
  BY <1>2 DEF WakeInv, TypeOK, NotifierApart, BatchDone, NoLostCommand, ServerSlots, ClientSlots,
              vars, pool, chan, kernel, backlogs, net, app, hist
<1> QED  BY <1>1, <1>2

(* Types and wakeups, whatever the threads ask for.                          *)
THEOREM WakeInvariance == Spec => []WakeInv
BY WakeInit, WakeNext, PTL DEF Spec

(* pushCmd() and handleCmd() never lose a wakeup: a command that waits in    *)
(* the queue is announced by the eventfd, or about to be, however the        *)
(* threads' pushes and writes fall between the net thread's read of the      *)
(* eventfd and its look at the queue.                                        *)
THEOREM CommandsAreSeen == Spec => []NoLostCommand
<1>1. WakeInv => NoLostCommand  BY DEF WakeInv
<1> QED  BY <1>1, WakeInvariance, PTL

-----------------------------------------------------------------------------
(* The descriptors.                                                          *)

(* The descriptors of the slots and of the threads in listen().              *)
LEMMA FdTypes ==
    ASSUME TypeOK
    PROVE  /\ \A s \in Slots : fd[s] \in Fds \cup {NoFd}
           /\ \A t \in Threads : loc[t].fd \in Fds \cup {NoFd} /\ loc[t].slot \in Slots
           /\ lfds \subseteq open /\ open \subseteq Fds /\ NoFd \notin Fds
BY Constants DEF TypeOK

(* No step makes two owners of a descriptor.                                 *)
LEMMA FdStep ==
    ASSUME TypeOK, NotifierApart, FdInv, Next
    PROVE  FdInv'
<1>0. load.threads \subseteq Threads  BY LoadFacts
<1>a. \A f \in FreeFds : /\ f \in Fds \ open /\ f # NoFd /\ f \notin lfds
                         /\ \A s \in Slots : fd[s] # f
                         /\ \A t \in Threads : pc[t] = "listen" => loc[t].fd # f
  BY FreeFdsFree, FdTypes DEF FdInv
<1>b. \A s \in Slots : \A f \in Fds \ open : fd[s] # f  BY FdTypes DEF FdInv
<1>c. fd \in [Slots -> Fds \cup {NoFd}] /\ epoll \in [Fds -> SUBSET {"R", "W"}]
      /\ mask \in [Fds -> SUBSET {"R", "W"}]
  BY DEF TypeOK
<1>1. CASE UNCHANGED <<pc, loc, fd, kernel>>
  BY <1>1 DEF FdInv, kernel
<1>2. ASSUME NEW s \in Slots, Closing(s), UNCHANGED <<pc, loc>>  PROVE FdInv'
  <2>1. /\ fd' = [fd EXCEPT ![s] = NoFd] /\ open' = open \ {fd[s]} /\ lfds' = lfds \ {fd[s]}
        /\ epoll' = [g \in Fds |-> IF g = fd[s] THEN {} ELSE epoll[g]]
        /\ mask' = [g \in Fds |-> IF g = fd[s] THEN {} ELSE mask[g]]
    BY <1>2 DEF Closing, CloseAfter, CloseFd, PollDel, ResetSlot
  <2> QED  BY <1>2, <1>c, <2>1, FdTypes DEF FdInv
<1>3. ASSUME NEW s \in Slots, Opening(s) \/ Hearing(s) \/ Streaming(s), UNCHANGED <<pc, loc>>
      PROVE  FdInv'
  <2>1. UNCHANGED <<fd, open, lfds>>
    BY <1>3 DEF Opening, Hearing, Streaming, pool, kernel
  <2>2. \A f \in Fds \ open : epoll'[f] = epoll[f] /\ mask'[f] = mask[f]
    BY <1>3, <1>b, <1>c DEF Opening, Hearing, Streaming, kernel, AddToWrite, DelWrite
  <2> QED  BY <1>3, <2>1, <2>2 DEF FdInv
<1>4. ASSUME NEW s \in Slots, NEW f \in FreeFds, UNCHANGED <<pc, loc, lfds>>,
             open' = open \cup {f}, fd' = [fd EXCEPT ![s] = f],
             \A g \in Fds \ {f} : epoll'[g] = epoll[g] /\ mask'[g] = mask[g]
      PROVE  FdInv'
  BY <1>4, <1>a, <1>c DEF FdInv
<1>5. CASE AcceptOne /\ UNCHANGED <<pc, loc>>
  BY <1>4, <1>5, <1>a, <1>c DEF AcceptOne
<1>6. CASE ListenSocket /\ UNCHANGED <<pc, loc>>
  <2>1. UNCHANGED <<fd, open, lfds, mask>>  BY <1>6 DEF ListenSocket, pool
  <2>2. \A f \in Fds \ open : epoll'[f] = epoll[f]  BY <1>6, <1>c DEF ListenSocket
  <2> QED  BY <1>6, <2>1, <2>2 DEF FdInv
<1>7. CASE ConnectFails /\ UNCHANGED <<pc, loc>>  BY <1>1, <1>7 DEF ConnectFails
<1>8. CASE (ConnectAtOnce \/ ConnectStarts) /\ UNCHANGED <<pc, loc>>
  <2>1. Head(queue).id \in Slots
    <3>1. Head(queue) \in Cmds  BY <1>8, TailFacts DEF TypeOK, ConnectAtOnce, ConnectStarts, Pop
    <3> QED  BY <3>1 DEF Cmds
  <2>2. \E f \in FreeFds : /\ open' = open \cup {f} /\ fd' = [fd EXCEPT ![Head(queue).id] = f]
                           /\ \A g \in Fds \ {f} : epoll'[g] = epoll[g] /\ mask'[g] = mask[g]
    BY <1>8, <1>a, <1>c DEF ConnectAtOnce, ConnectStarts, addEvent
  <2> QED  BY <1>4, <1>8, <2>1, <2>2 DEF ConnectAtOnce, ConnectStarts
<1>9. CASE NetAct
  BY <1>1, <1>2, <1>3, <1>5, <1>6, <1>7, <1>8, <1>9, NetKinds DEF Still, Touches
<1>10. ASSUME NEW t \in load.threads, Listen(t)  PROVE FdInv'
  <2>1. PICK s \in Slots, f \in FreeFds :
          /\ fd' = [fd EXCEPT ![s] = NoFd]
          /\ open' = open \cup {f} /\ lfds' = lfds \cup {f}
          /\ loc' = [loc EXCEPT ![t] = [slot |-> s, fd |-> f]]
    BY <1>10 DEF Listen
  <2>2. pc' = [pc EXCEPT ![t] = "listen"] /\ UNCHANGED <<epoll, mask>>  BY <1>10 DEF Listen
  <2>3. \A u \in Threads : pc'[u] = "listen" =>
           IF u = t THEN loc'[u].fd = f ELSE pc[u] = "listen" /\ loc'[u].fd = loc[u].fd
    BY <1>0, <2>1, <2>2 DEF TypeOK
  <2>4. \A r \in Slots : fd'[r] # NoFd => fd'[r] = fd[r] /\ fd'[r] # f  BY <1>a, <1>c, <2>1
  <2>5. \A u \in Threads : pc[u] = "listen" =>
           loc[u].fd # f /\ loc[u].fd # NoFd /\ \A r \in Slots : fd'[r] # loc[u].fd
    BY <1>a, <2>4, FdTypes DEF FdInv
  <2>6. \A r \in Slots : fd'[r] # f  BY <1>a, <2>4
  <2> QED  BY <2>1, <2>2, <2>3, <2>4, <2>5, <2>6 DEF FdInv
<1>11. ASSUME NEW t \in load.threads, Connect(t)  PROVE FdInv'
  <2>1. PICK s \in Slots :
          /\ fd' = [fd EXCEPT ![s] = NoFd]
          /\ loc' = [loc EXCEPT ![t] = [slot |-> s, fd |-> NoFd]]
    BY <1>11 DEF Connect
  <2>2. pc' = [pc EXCEPT ![t] = "connect"] /\ UNCHANGED kernel  BY <1>11 DEF Connect
  <2>3. \A u \in Threads : pc'[u] = "listen" => pc[u] = "listen" /\ loc'[u] = loc[u]
    BY <1>0, <2>1, <2>2 DEF TypeOK
  <2>4. \A r \in Slots : fd'[r] # NoFd => fd'[r] = fd[r]  BY <1>c, <2>1
  <2>5. \A u \in Threads : pc[u] = "listen" => loc[u].fd # NoFd  BY FdTypes DEF FdInv
  <2> QED  BY <2>2, <2>3, <2>4, <2>5 DEF FdInv, kernel
<1>12. ASSUME NEW t \in load.threads, FillListen(t)  PROVE FdInv'
  <2>1. loc[t].slot \in Slots /\ loc[t].fd \in lfds /\ loc[t].fd \in Fds  BY <1>0, <1>12, FdTypes DEF FillListen, FdInv
  <2>2. /\ fd' = [fd EXCEPT ![loc[t].slot] = loc[t].fd] /\ pc[t] = "listen"
        /\ UNCHANGED <<loc, open, lfds, epoll, mask>>
    BY <1>12 DEF FillListen, kernel
  <2>3. \A u \in Threads : pc'[u] = IF u = t THEN "push" ELSE pc[u]
    BY <1>0, <1>12 DEF FillListen, TypeOK
  <2> QED  BY <1>0, <1>c, <2>1, <2>2, <2>3, FdTypes DEF FdInv
<1>13. ASSUME NEW t \in load.threads,
              FillConnect(t) \/ Push(t) \/ SendCall(t) \/ CloseCall(t) \/ Notify(t)
       PROVE  FdInv'
  <2>1. UNCHANGED <<fd, open, lfds, epoll, mask>>
    BY <1>13 DEF FillConnect, Push, SendCall, CloseCall, Notify, pool, kernel
  <2>2. \A u \in Threads : pc'[u] = "listen" => pc[u] = "listen" /\ loc'[u] = loc[u]
    BY <1>0, <1>13 DEF FillConnect, Push, SendCall, CloseCall, Notify, TypeOK
  <2> QED  BY <2>1, <2>2 DEF FdInv
<1> QED
  BY <1>9, <1>10, <1>11, <1>12, <1>13 DEF Next, NetAct, Return

-----------------------------------------------------------------------------
(* The listeners.                                                            *)

(* The first command of the queue.                                           *)
LEMMA HeadFacts ==
    ASSUME TypeOK, queue # <<>>
    PROVE  /\ Head(queue) \in Cmds /\ Head(queue).id \in Slots /\ Head(queue).type \in {"Connect", "Listen", "Send", "Close"}
           /\ 1 \in DOMAIN queue /\ Head(queue) = queue[1]
<1>1. Head(queue) \in Cmds /\ 1 \in DOMAIN queue /\ Head(queue) = queue[1]  BY TailFacts DEF TypeOK
<1> QED  BY <1>1 DEF Cmds

(* A slot that is not a listener's.                                          *)
Plain(s) == s \notin ServerSlots /\ type[s] # "Listen" /\ fd[s] \notin lfds

(* What timers, commands and calls of connections get at, and what is free.  *)
LEMMA PlainSlots ==
    ASSUME TypeOK, ListenersApart, ListenInv
    PROVE  /\ ClientSlots \cap ServerSlots = {}
           /\ \A s \in Slots : s \in ClientSlots \/ Reached(s) \/ status[s] = "Idle" => Plain(s)
           /\ queue # <<>> /\ Head(queue).type = "Connect" =>
                 Head(queue).id \in ClientSlots /\ Plain(Head(queue).id)
<1>1. ClientSlots \cap ServerSlots = {}  BY DEF ListenersApart
<1>2. \A s \in Slots : s \notin ServerSlots => Plain(s)  BY DEF ListenInv, Plain
<1>3. \A s \in Slots : status[s] = "Idle" => s \notin ServerSlots  BY DEF ListenersApart
<1>4. \A s \in Slots : Reached(s) => s \notin ServerSlots  BY <1>1 DEF ListenersApart, Reached
<1>5. queue # <<>> /\ Head(queue).type = "Connect" =>
         Head(queue).id \in ClientSlots /\ Head(queue).id \in Slots
  BY HeadFacts DEF ListenersApart
<1> QED  BY <1>1, <1>2, <1>3, <1>4, <1>5

(* A listener stays what it is, and no new one has a descriptor that listens.*)
LEMMA ListenersStay ==
    ASSUME TypeOK, NotifierApart, FdInv, ListenersApart, ListenInv, NetAct
    PROVE  /\ \A s \in Slots : type[s] = "Listen" => type'[s] = "Listen" /\ status'[s] = "Listen"
           /\ \A s \in Slots : fd[s] \in lfds \/ fd'[s] \in lfds => fd'[s] = fd[s]
           /\ \A s \in Slots : type'[s] = "Listen" => type[s] = "Listen"
           /\ \A s \in ServerSlots : status'[s] = status[s]
           /\ \A s \in Slots : born[s] # 0 => born'[s] # 0
           /\ UNCHANGED <<pc, loc, lfds, ServerSlots>> /\ ClientSlots \subseteq ClientSlots'
           /\ ~ListenSocket => \A f \in lfds : epoll'[f] = epoll[f] /\ ud'[f] = ud[f]
<1> DEFINE Goal ==
           /\ \A s \in Slots : type[s] = "Listen" => type'[s] = "Listen" /\ status'[s] = "Listen"
           /\ \A s \in Slots : fd[s] \in lfds \/ fd'[s] \in lfds => fd'[s] = fd[s]
           /\ \A s \in Slots : type'[s] = "Listen" => type[s] = "Listen"
           /\ \A s \in ServerSlots : status'[s] = status[s]
           /\ \A s \in Slots : born[s] # 0 => born'[s] # 0
           /\ UNCHANGED <<lfds, ServerSlots>> /\ ClientSlots \subseteq ClientSlots'
           /\ ~ListenSocket => \A f \in lfds : epoll'[f] = epoll[f] /\ ud'[f] = ud[f]
<1>a. \A s \in Slots : type[s] = "Listen" => status[s] = "Listen"  BY DEF ListenInv
<1>b. NoFd \notin lfds /\ lfds \subseteq Fds /\ \A f \in FreeFds : f \in Fds /\ f \notin lfds
  BY FreeFdsFree, FdTypes
<1>c. /\ status \in [Slots -> Status] /\ type \in [Slots -> {"Normal", "Listen", "Notify"}]
      /\ fd \in [Slots -> Fds \cup {NoFd}] /\ epoll \in [Fds -> SUBSET {"R", "W"}] /\ ud \in [Fds -> Slots]
      /\ mask \in [Fds -> SUBSET {"R", "W"}]
  BY DEF TypeOK
<1> SUFFICES Goal  BY NetKinds
<1>1. CASE UNCHANGED <<status, type, fd, kernel, births, born>>
  <2>1. UNCHANGED <<ServerSlots, ClientSlots>>  BY <1>1 DEF ServerSlots, ClientSlots
  <2> QED  BY <1>1, <1>a, <2>1 DEF kernel
<1>2. ASSUME NEW s \in Slots, Plain(s), UNCHANGED <<lfds, ServerSlots>>, ClientSlots \subseteq ClientSlots',
             \A r \in Slots \ {s} : status'[r] = status[r] /\ type'[r] = type[r] /\ fd'[r] = fd[r],
             type'[s] # "Listen", fd'[s] \notin lfds,
             \A r \in Slots : born[r] # 0 => born'[r] # 0,
             \A f \in lfds : epoll'[f] = epoll[f] /\ ud'[f] = ud[f]
      PROVE  Goal
  <2>1. \A r \in ServerSlots : r # s  BY <1>2 DEF Plain
  <2>2. \A r \in ServerSlots : r \in Slots  BY BirthTypes DEF ServerSlots
  <2> QED  BY <1>2, <1>a, <2>1, <2>2 DEF Plain
<1>3. ASSUME NEW s \in Slots, Touches(s)  PROVE Goal
  <2>1. Reached(s)  BY <1>3 DEF Touches, Closing, Opening, Hearing, Streaming, Reached
  <2>2. Plain(s)  BY <2>1, PlainSlots
  <2>3. UNCHANGED <<type, ud, births, born>>
    BY <1>3 DEF Touches, Closing, CloseAfter, Opening, Hearing, Streaming, pool, kernel
  <2>4. UNCHANGED lfds
    BY <1>3, <2>2 DEF Touches, Closing, CloseAfter, CloseFd, Opening, Hearing, Streaming, kernel, Plain
  <2>5. \A r \in Slots \ {s} : status'[r] = status[r] /\ fd'[r] = fd[r]
    BY <1>3, <1>c DEF Touches, Closing, CloseAfter, ResetSlot, Opening, Hearing, Streaming, pool
  <2>6. fd'[s] = NoFd \/ fd'[s] = fd[s]
    BY <1>3, <1>c DEF Touches, Closing, CloseAfter, ResetSlot, Opening, Hearing, Streaming, pool
  <2>7. \A f \in lfds : epoll'[f] = epoll[f]
    <3>1. \A f \in lfds : f # fd[s] /\ f \in Fds  BY <1>b, <2>2 DEF Plain
    <3> QED  BY <1>3, <1>c, <3>1 DEF Touches, Closing, CloseAfter, CloseFd, Opening, Hearing, Streaming, kernel,
                                      AddToWrite, DelWrite
  <2>8. UNCHANGED <<ServerSlots, ClientSlots>>  BY <2>3 DEF ServerSlots, ClientSlots
  <2>9. type'[s] # "Listen" /\ fd'[s] \notin lfds  BY <1>b, <2>2, <2>3, <2>6 DEF Plain
  <2> QED  BY <1>2, <2>2, <2>3, <2>4, <2>5, <2>7, <2>8, <2>9
<1>4. CASE AcceptOne
  <2>1. PICK s \in Slots, f \in FreeFds :
          /\ Take(s, "accept")
          /\ status' = [status EXCEPT ![s] = "Connected"]
          /\ type' = [type EXCEPT ![s] = "Normal"]
          /\ fd' = [fd EXCEPT ![s] = f]
          /\ epoll' = [epoll EXCEPT ![f] = {"R"}]
          /\ ud' = [ud EXCEPT ![f] = s]
    BY <1>4 DEF AcceptOne
  <2>2. /\ Plain(s) /\ UNCHANGED ServerSlots /\ ClientSlots \subseteq ClientSlots'
        /\ \A r \in Slots : born[r] # 0 => born'[r] # 0
    BY <2>1, TakeSlots, PlainSlots
  <2>3. UNCHANGED lfds  BY <1>4 DEF AcceptOne
  <2>4. type'[s] # "Listen" /\ fd'[s] \notin lfds  BY <1>b, <1>c, <2>1
  <2>5. \A r \in Slots \ {s} : status'[r] = status[r] /\ type'[r] = type[r] /\ fd'[r] = fd[r]
    BY <1>c, <2>1
  <2>6. \A g \in lfds : epoll'[g] = epoll[g] /\ ud'[g] = ud[g]  BY <1>b, <1>c, <2>1
  <2> HIDE DEF Goal
  <2> QED  BY <1>2, <2>2, <2>3, <2>4, <2>5, <2>6
<1>5. CASE ListenSocket
  <2>1. UNCHANGED <<status, type, fd, births, born, lfds>>  BY <1>5 DEF ListenSocket, pool, hist
  <2>2. UNCHANGED <<ServerSlots, ClientSlots>>  BY <2>1 DEF ServerSlots, ClientSlots
  <2> QED  BY <1>5, <1>a, <2>1, <2>2
<1>6. CASE ConnectFails \/ ConnectAtOnce \/ ConnectStarts
  <2> DEFINE s == Head(queue).id
  <2>1. s \in Slots /\ Plain(s)  BY <1>6, HeadFacts, PlainSlots DEF ConnectFails, ConnectAtOnce, ConnectStarts, Pop
  <2>2. /\ \E x : status' = [status EXCEPT ![s] = x]
        /\ UNCHANGED <<type, births, born, lfds>>
        /\ \/ UNCHANGED <<fd, kernel>>
           \/ \E f \in FreeFds : /\ fd' = [fd EXCEPT ![s] = f]
                                 /\ addEvent(f, "R", s) \/ addEvent(f, "W", s)
    BY <1>6 DEF ConnectFails, ConnectAtOnce, ConnectStarts, kernel
  <2> HIDE DEF s
  <2>3. \A r \in Slots \ {s} : status'[r] = status[r] /\ fd'[r] = fd[r]  BY <1>c, <2>2
  <2>4. fd'[s] \notin lfds  BY <1>b, <1>c, <2>1, <2>2 DEF Plain
  <2>5. \A f \in lfds : epoll'[f] = epoll[f] /\ ud'[f] = ud[f]
    BY <1>b, <1>c, <2>2 DEF addEvent, kernel
  <2>6. UNCHANGED <<ServerSlots, ClientSlots>>  BY <2>2 DEF ServerSlots, ClientSlots
  <2>7. type'[s] # "Listen" /\ UNCHANGED <<type, born, lfds>>  BY <2>1, <2>2 DEF Plain
  <2> HIDE DEF Goal
  <2> QED  BY <1>2, <2>1, <2>3, <2>4, <2>5, <2>6, <2>7
<1>7. CASE Still  BY <1>1, <1>7 DEF Still, hist
<1> HIDE DEF Goal
<1> QED  BY <1>3, <1>4, <1>5, <1>6, <1>7, NetKinds

(* The slots of connections stay apart from those of listeners.              *)
LEMMA ClientsApart ==
    ASSUME TypeOK, NotifierApart, ListenersApart, ListenInv, NetAct
    PROVE  /\ ServerSlots' \cap ClientSlots' = {}
           /\ \A s \in ServerSlots' \cup ClientSlots' : born'[s] # 0
           /\ connTimer' \subseteq ClientSlots'
<1>1. ASSUME UNCHANGED <<births, born>>, connTimer' \subseteq connTimer \cup ClientSlots
      PROVE  /\ ServerSlots' \cap ClientSlots' = {}
             /\ \A s \in ServerSlots' \cup ClientSlots' : born'[s] # 0
             /\ connTimer' \subseteq ClientSlots'
  <2>1. UNCHANGED <<ServerSlots, ClientSlots>>  BY <1>1 DEF ServerSlots, ClientSlots
  <2> QED  BY <1>1, <2>1 DEF ListenersApart
<1>2. CASE Still  BY <1>1, <1>2 DEF Still, hist
<1>3. ASSUME NEW s \in Slots, Touches(s)  PROVE UNCHANGED <<births, born>> /\ connTimer' \subseteq connTimer
  BY <1>3 DEF Touches, Closing, CloseAfter, Opening, Hearing, Streaming, pool
<1>4. CASE ListenSocket  BY <1>1, <1>4 DEF ListenSocket, pool, hist
<1>5. CASE ConnectFails \/ ConnectAtOnce \/ ConnectStarts
  <2>1. Head(queue).id \in ClientSlots
    BY <1>5, PlainSlots DEF ConnectFails, ConnectAtOnce, ConnectStarts, Pop
  <2> QED  BY <1>1, <1>5, <2>1 DEF ConnectFails, ConnectAtOnce, ConnectStarts
<1>6. CASE AcceptOne
  <2>1. PICK s \in Slots : Take(s, "accept")  BY <1>6 DEF AcceptOne
  <2>2. UNCHANGED connTimer  BY <1>6 DEF AcceptOne
  <2>3. \A r \in ServerSlots \cup ClientSlots : r \in Slots
    BY BirthTypes DEF ServerSlots, ClientSlots
  <2>4. s \notin ServerSlots  BY <2>1, TakeSlots, PlainSlots DEF Plain
  <2> QED  BY <2>1, <2>2, <2>3, <2>4, TakeSlots DEF ListenersApart
<1> QED  BY <1>1, <1>2, <1>3, <1>4, <1>5, <1>6, NetKinds

(* No step mixes connections and listeners, if no listener is closed.        *)
LEMMA ApartStep ==
    ASSUME KeepsListeners, TypeOK, NotifierApart, FdInv, ListenersApart, ListenInv, Next
    PROVE  ListenersApart'
<1>0. load.threads \subseteq Threads /\ "unlisten" \notin load.ops /\ queue \in Seq(Cmds)
  BY LoadFacts DEF KeepsListeners, TypeOK
<1>a. /\ status \in [Slots -> Status] /\ type \in [Slots -> {"Normal", "Listen", "Notify"}]
      /\ pc \in [Threads -> {"out", "connect", "listen", "push", "notify"}]
      /\ loc \in [Threads -> [slot : Slots, fd : Fds \cup {NoFd}]]
  BY DEF TypeOK
<1>b. \A s \in ServerSlots \cup ClientSlots : s \in Slots
  BY BirthTypes DEF ServerSlots, ClientSlots
<1>1. CASE NetAct
  <2>1. \A i \in DOMAIN queue' : IF queue'[i].type = "Listen" THEN type'[queue'[i].id] = "Listen"
                                                              ELSE queue'[i].id \in ClientSlots'
    <3>1. \A i \in DOMAIN queue : queue[i].id \in Slots
      <4>1. \A c \in Cmds : c.id \in Slots  BY DEF Cmds
      <4> QED  BY <1>0, <4>1
    <3> QED  BY <1>1, <3>1, QueueShrinks, ListenersStay DEF ListenersApart
  <2>2. \A s \in ServerSlots' : status'[s] \in {"Reserse", "Listen"}
    BY <1>1, ListenersStay DEF ListenersApart
  <2>3. \A t \in Threads :
          /\ pc'[t] = "connect" => loc'[t].slot \in ClientSlots' /\ loc'[t].fd = NoFd
          /\ pc'[t] = "listen" => loc'[t].slot \in ServerSlots' /\ status'[loc'[t].slot] = "Reserse"
          /\ pc'[t] = "push" => IF loc'[t].fd = NoFd THEN loc'[t].slot \in ClientSlots'
                                                    ELSE type'[loc'[t].slot] = "Listen"
          /\ \A u \in Threads :
                pc'[t] = "listen" /\ pc'[u] = "listen" /\ loc'[t].slot = loc'[u].slot => t = u
    BY <1>1, ListenersStay, FdTypes DEF ListenersApart
  <2> QED  BY <1>1, <2>1, <2>2, <2>3, ClientsApart DEF ListenersApart
<1>2. ASSUME NEW t \in load.threads, Connect(t)  PROVE ListenersApart'
  <2>1. PICK s \in Slots : /\ Take(s, "connect")
                           /\ status' = [status EXCEPT ![s] = "Reserse"]
                           /\ loc' = [loc EXCEPT ![t] = [slot |-> s, fd |-> NoFd]]
    BY <1>2 DEF Connect
  <2>2. UNCHANGED <<type, connTimer, queue>> /\ pc' = [pc EXCEPT ![t] = "connect"]
    BY <1>2 DEF Connect, chan
  <2>3. Plain(s)  BY <2>1, TakeSlots, PlainSlots
  <2>4. \A u \in Threads : IF u = t THEN pc'[u] = "connect" /\ loc'[u].slot = s /\ loc'[u].fd = NoFd
                                    ELSE pc'[u] = pc[u] /\ loc'[u] = loc[u]
    BY <1>a, <2>1, <2>2
  <2>5. /\ ServerSlots' = ServerSlots /\ ClientSlots' = ClientSlots \cup {s}
        /\ born'[s] # 0 /\ \A r \in Slots : born[r] # 0 => born'[r] # 0
    BY <2>1, TakeSlots
  <2>6. \A r \in Slots \ {s} : status'[r] = status[r]  BY <1>a, <2>1
  <2>7. \A u \in Threads : pc[u] = "listen" => loc[u].slot \in Slots \ {s}
    BY <2>3, FdTypes DEF ListenersApart, Plain
  <2> QED  BY <1>b, <2>2, <2>3, <2>4, <2>5, <2>6, <2>7 DEF ListenersApart, Plain
<1>3. ASSUME NEW t \in load.threads, Listen(t)  PROVE ListenersApart'
  <2>1. PICK s \in Slots, f \in FreeFds :
          /\ born[s] = 0 /\ Take(s, "listen")
          /\ status' = [status EXCEPT ![s] = "Reserse"]
          /\ loc' = [loc EXCEPT ![t] = [slot |-> s, fd |-> f]]
    BY <1>3 DEF Listen
  <2>2. UNCHANGED <<type, connTimer, queue>> /\ pc' = [pc EXCEPT ![t] = "listen"]
    BY <1>3 DEF Listen, chan
  <2>3. Plain(s) /\ s \notin ClientSlots  BY <2>1, TakeSlots, PlainSlots DEF ListenersApart
  <2>4. \A u \in Threads : IF u = t THEN pc'[u] = "listen" /\ loc'[u].slot = s
                                    ELSE pc'[u] = pc[u] /\ loc'[u] = loc[u]
    BY <1>a, <2>1, <2>2
  <2>5. /\ ServerSlots' = ServerSlots \cup {s} /\ ClientSlots' = ClientSlots
        /\ born'[s] # 0 /\ \A r \in Slots : born[r] # 0 => born'[r] # 0
    BY <2>1, TakeSlots
  <2>6. \A r \in Slots : status'[r] = IF r = s THEN "Reserse" ELSE status[r]  BY <1>a, <2>1
  <2>7. \A u \in Threads : pc[u] = "listen" => loc[u].slot \in Slots \ {s}
    BY <2>3, FdTypes DEF ListenersApart, Plain
  <2> QED  BY <1>b, <2>2, <2>3, <2>4, <2>5, <2>6, <2>7 DEF ListenersApart, Plain
<1>4. ASSUME NEW t \in load.threads, FillConnect(t)  PROVE ListenersApart'
  <2>1. /\ status' = [status EXCEPT ![loc[t].slot] = "Connecting"] /\ pc[t] = "connect"
        /\ pc' = [pc EXCEPT ![t] = "push"] /\ UNCHANGED <<type, connTimer, queue, loc, births, born>>
    BY <1>4 DEF FillConnect, chan, hist
  <2>2. UNCHANGED <<ServerSlots, ClientSlots>>  BY <2>1 DEF ServerSlots, ClientSlots
  <2>3. loc[t].slot \in ClientSlots /\ loc[t].fd = NoFd  BY <1>0, <2>1 DEF ListenersApart
  <2>4. \A r \in ServerSlots : status'[r] = status[r]  BY <1>a, <1>b, <2>1, <2>3 DEF ListenersApart
  <2>5. \A u \in Threads : pc'[u] = IF u = t THEN "push" ELSE pc[u]  BY <1>a, <2>1
  <2> QED  BY <2>1, <2>2, <2>3, <2>4, <2>5 DEF ListenersApart
<1>5. ASSUME NEW t \in load.threads, FillListen(t)  PROVE ListenersApart'
  <2> DEFINE s == loc[t].slot
  <2>1. /\ status' = [status EXCEPT ![s] = "Listen"] /\ type' = [type EXCEPT ![s] = "Listen"]
        /\ pc[t] = "listen" /\ pc' = [pc EXCEPT ![t] = "push"]
        /\ UNCHANGED <<connTimer, queue, loc, births, born>>
    BY <1>5 DEF FillListen, chan, hist
  <2>2. UNCHANGED <<ServerSlots, ClientSlots>>  BY <2>1 DEF ServerSlots, ClientSlots
  <2>3. s \in Slots /\ s \in ServerSlots /\ loc[t].fd # NoFd
    BY <1>0, <2>1, FdTypes DEF ListenersApart, FdInv
  <2>4. \A u \in Threads : pc'[u] = IF u = t THEN "push" ELSE pc[u]  BY <1>a, <2>1
  <2>5. \A u \in Threads : u # t /\ pc[u] = "listen" => loc[u].slot # s  BY <1>0, <2>1 DEF ListenersApart
  <2> HIDE DEF s
  <2>6. \A r \in Slots : status'[r] = IF r = s THEN "Listen" ELSE status[r]  BY <1>a, <2>1
  <2>7. \A r \in Slots : type[r] = "Listen" => type'[r] = "Listen"  BY <1>a, <2>1
  <2>8. type'[s] = "Listen"  BY <1>a, <2>1, <2>3
  <2>9. \A i \in DOMAIN queue : queue[i].id \in Slots
    <3>1. \A c \in Cmds : c.id \in Slots  BY DEF Cmds
    <3> QED  BY <1>0, <3>1
  <2>10. \A u \in Threads : loc[u].slot \in Slots  BY FdTypes
  <2> QED  BY <1>b, <2>1, <2>2, <2>3, <2>4, <2>5, <2>6, <2>7, <2>8, <2>9, <2>10 DEF ListenersApart, s
<1>6. ASSUME NEW t \in load.threads, Push(t) \/ SendCall(t) \/ CloseCall(t) \/ Notify(t)
      PROVE  ListenersApart'
  <2>1. UNCHANGED <<status, type, connTimer, births, born>>
    BY <1>6 DEF Push, SendCall, CloseCall, Notify, pool, hist
  <2>2. UNCHANGED <<ServerSlots, ClientSlots>>  BY <2>1 DEF ServerSlots, ClientSlots
  <2>3. \A u \in Threads : pc'[u] \in {"connect", "listen", "push"} => pc'[u] = pc[u] /\ loc'[u] = loc[u]
    BY <1>0, <1>6, <1>a DEF Push, SendCall, CloseCall, Notify
  <2>4. ASSUME NEW c \in Cmds, queue' = Append(queue, c),
               IF c.type = "Listen" THEN type[c.id] = "Listen" ELSE c.id \in ClientSlots
        PROVE  \A i \in DOMAIN queue' : IF queue'[i].type = "Listen" THEN type[queue'[i].id] = "Listen"
                                                                     ELSE queue'[i].id \in ClientSlots
    BY <1>0, <2>4, ElementOfAppend DEF ListenersApart
  <2>5. \A i \in DOMAIN queue' : IF queue'[i].type = "Listen" THEN type[queue'[i].id] = "Listen"
                                                              ELSE queue'[i].id \in ClientSlots
    <3>1. CASE Push(t)
      <4> DEFINE c == Command(IF loc[t].fd = NoFd THEN "Connect" ELSE "Listen", loc[t].slot, 0, 0)
      <4>1. loc[t].slot \in Slots  BY <1>0, FdTypes
      <4>2. c \in Cmds  BY <4>1 DEF Command, Cmds
      <4>3. IF c.type = "Listen" THEN type[c.id] = "Listen" ELSE c.id \in ClientSlots
        BY <1>0, <3>1 DEF Push, Command, ListenersApart
      <4>4. queue' = Append(queue, c)  BY <3>1 DEF Push
      <4> HIDE DEF c
      <4> QED  BY <2>4, <4>2, <4>3, <4>4
    <3>2. CASE SendCall(t) \/ CloseCall(t)
      <4>1. PICK b \in DOMAIN births, ty \in {"Send", "Close"}, n \in Nat, len \in Nat :
               queue' = Append(queue, Command(ty, births[b].slot, n, len)) /\ births[b].kind # "listen"
        BY <1>0, <3>2, LoadFacts DEF SendCall, CloseCall
      <4> DEFINE c == Command(ty, births[b].slot, n, len)
      <4>2. births[b].slot \in Slots  BY BirthTypes
      <4>3. births[b].slot \in ClientSlots  BY <4>1, BirthSlots
      <4>4. c \in Cmds /\ c.type # "Listen" /\ c.id \in ClientSlots  BY <4>2, <4>3 DEF Command, Cmds
      <4>5. queue' = Append(queue, c)  BY <4>1
      <4> HIDE DEF c
      <4> QED  BY <2>4, <4>4, <4>5
    <3>3. CASE Notify(t)  BY <3>3 DEF Notify, ListenersApart
    <3> QED  BY <1>6, <3>1, <3>2, <3>3
  <2> QED  BY <2>1, <2>2, <2>3, <2>5 DEF ListenersApart
<1> QED
  BY <1>1, <1>2, <1>3, <1>4, <1>5, <1>6 DEF Next, NetAct, Return

(* The steps of the calling threads, for a slot that listens.                *)
LEMMA CallersListen ==
    ASSUME TypeOK, FdInv, ListenersApart, ListenInv, NEW t \in load.threads,
           Connect(t) \/ FillConnect(t) \/ Push(t) \/ SendCall(t) \/ CloseCall(t) \/ Notify(t)
    PROVE  /\ UNCHANGED <<type, kernel, net>>
           /\ \A s \in Slots : fd[s] # NoFd /\ type[s] = "Listen" => fd'[s] = fd[s]
           /\ \A s \in Slots : fd'[s] # NoFd => fd'[s] = fd[s]
           /\ \A s \in Slots : type[s] = "Listen" => status'[s] = "Listen"
           /\ ServerSlots \subseteq ServerSlots'
<1>0. t \in Threads  BY LoadFacts
<1>a. status \in [Slots -> Status] /\ fd \in [Slots -> Fds \cup {NoFd}]  BY DEF TypeOK
<1>b. \A s \in Slots : type[s] = "Listen" => status[s] = "Listen" /\ s \in ServerSlots  BY DEF ListenInv
<1>1. CASE Connect(t)
  <2>1. PICK s \in Slots : /\ Take(s, "connect")
                           /\ status' = [status EXCEPT ![s] = "Reserse"]
                           /\ fd' = [fd EXCEPT ![s] = NoFd]
    BY <1>1 DEF Connect
  <2>2. status[s] = "Idle" /\ ServerSlots' = ServerSlots  BY <2>1, TakeSlots
  <2> QED  BY <1>1, <1>a, <1>b, <2>1, <2>2 DEF Connect
<1>2. CASE FillConnect(t)
  <2>1. UNCHANGED births /\ loc[t].slot \in ClientSlots  BY <1>0, <1>2 DEF FillConnect, hist, ListenersApart
  <2>2. \A s \in Slots : type[s] = "Listen" => s # loc[t].slot  BY <1>b, <2>1 DEF ListenersApart
  <2>3. UNCHANGED <<type, kernel, net, fd>>  BY <1>2 DEF FillConnect
  <2>4. UNCHANGED ServerSlots  BY <2>1 DEF ServerSlots
  <2> QED  BY <1>2, <1>a, <1>b, <2>2, <2>3, <2>4 DEF FillConnect
<1>3. CASE Push(t) \/ SendCall(t) \/ CloseCall(t) \/ Notify(t)
  <2>1. UNCHANGED <<pool, kernel, net, births>>  BY <1>3 DEF Push, SendCall, CloseCall, Notify, hist
  <2>2. UNCHANGED ServerSlots  BY <2>1 DEF ServerSlots
  <2> QED  BY <1>b, <2>1, <2>2 DEF pool
<1> QED  BY <1>1, <1>2, <1>3

(* What the net thread does in handleAccept() it does to a listener.         *)
LEMMA ListenStep ==
    ASSUME TypeOK, NotifierApart, FdInv, ListenersApart, ListenInv, Next
    PROVE  ListenInv'
<1>0. load.threads \subseteq Threads  BY LoadFacts
<1>a. /\ status \in [Slots -> Status] /\ type \in [Slots -> {"Normal", "Listen", "Notify"}]
      /\ fd \in [Slots -> Fds \cup {NoFd}] /\ epoll \in [Fds -> SUBSET {"R", "W"}] /\ ud \in [Fds -> Slots]
      /\ cur \in Slots
  BY DEF TypeOK
<1>b. NoFd \notin lfds /\ lfds \subseteq Fds  BY FdTypes
<1>1. CASE NetAct
  <2>1. \A s \in Slots : type'[s] = "Listen" =>
            s \in ServerSlots' /\ status'[s] = "Listen" /\ fd'[s] \in lfds'
    BY <1>1, ListenersStay DEF ListenInv
  <2>2. \A s \in Slots : fd'[s] \in lfds' => type'[s] = "Listen"
    BY <1>1, ListenersStay DEF ListenInv
  <2>3. \A f \in lfds' : epoll'[f] # {} => fd'[ud'[f]] = f
    <3>1. CASE ~ListenSocket
      <4>1. \A f \in lfds : ud[f] \in Slots  BY <1>a, <1>b
      <4> QED  BY <1>1, <3>1, <4>1, ListenersStay DEF ListenInv
    <3>2. CASE ListenSocket
      <4>1. UNCHANGED <<fd, lfds>>  BY <3>2 DEF ListenSocket, pool
      <4>2. Head(queue).id \in Slots  BY <3>2, HeadFacts DEF ListenSocket, Pop
      <4>3. CASE UNCHANGED <<epoll, ud>>  BY <4>1, <4>3 DEF ListenInv
      <4>4. CASE /\ epoll' = [epoll EXCEPT ![fd[Head(queue).id]] = {"R"}]
                 /\ ud' = [ud EXCEPT ![fd[Head(queue).id]] = Head(queue).id]
        BY <1>a, <1>b, <4>1, <4>2, <4>4 DEF ListenInv
      <4> QED  BY <3>2, <4>3, <4>4 DEF ListenSocket
    <3> QED  BY <3>1, <3>2
  <2>4. netpc' = "accept" => type'[cur'] = "Listen"
    <3>1. ASSUME netpc' = "accept"
          PROVE  (netpc = "accept" /\ cur' = cur) \/ (\E e \in batch : HandleListen(e))
      <4>1. ASSUME NEW e \in batch, HandleNotify(e) \/ HandleConnect(e) \/ HandleIo(e)  PROVE FALSE
        BY <3>1, <4>1 DEF HandleNotify, HandleConnect, HandleIo, Event
      <4>2. CASE Wait \/ AcceptOne \/ AcceptRefused \/ AcceptDone \/ EventsDone \/ RoundDone
                 \/ CmdsDone \/ HandleWrite
        BY <3>1, <4>2 DEF Wait, AcceptOne, AcceptRefused, AcceptDone, AcceptNext, EventsDone, RoundDone,
                          CmdsDone, HandleWrite
      <4>3. CASE ListenSocket \/ Command1
        BY <3>1, <4>3 DEF ListenSocket, Command1, ConnectFails, ConnectAtOnce, ConnectStarts, SendDropped,
                          SendQueued, SendNow, CloseSocket, Pop, net
      <4>4. CASE (\E f \in load.fds : Arrive(f)) \/ (\E s \in Slots : Expire(s))
        BY <3>1, <4>4 DEF Arrive, Expire, net
      <4> QED  BY <1>1, <4>1, <4>2, <4>3, <4>4 DEF NetAct, NetStep, Accepting, Handling
    <3>2. ASSUME NEW e \in batch, HandleListen(e)  PROVE cur' = e.slot /\ type[e.slot] = "Listen" /\ e.slot \in Slots
      BY <3>2 DEF HandleListen, TypeOK, Events
    <3> QED  BY <1>1, <1>a, <3>1, <3>2, ListenersStay DEF ListenInv
  <2> QED  BY <2>1, <2>2, <2>3, <2>4 DEF ListenInv
<1>2. ASSUME NEW t \in load.threads,
             Connect(t) \/ FillConnect(t) \/ Push(t) \/ SendCall(t) \/ CloseCall(t) \/ Notify(t)
      PROVE  ListenInv'
  <2>1. \A f \in lfds : ud[f] \in Slots  BY <1>a, <1>b
  <2> QED  BY <1>2, <1>b, <2>1, CallersListen DEF ListenInv, kernel, net
<1>3. ASSUME NEW t \in load.threads, Listen(t)  PROVE ListenInv'
  <2>1. PICK s \in Slots, f \in FreeFds :
          /\ Take(s, "listen")
          /\ status' = [status EXCEPT ![s] = "Reserse"]
          /\ fd' = [fd EXCEPT ![s] = NoFd]
          /\ lfds' = lfds \cup {f}
    BY <1>3 DEF Listen
  <2>2. UNCHANGED <<type, epoll, ud, net>>  BY <1>3 DEF Listen
  <2>3. Plain(s) /\ ServerSlots \subseteq ServerSlots'  BY <2>1, TakeSlots, PlainSlots
  <2>4. f \in Fds \ open  BY FreeFdsFree
  <2>5. epoll[f] = {} /\ f # NoFd /\ \A r \in Slots : fd[r] # f  BY <2>4, FdTypes DEF FdInv
  <2>6. \A r \in Slots : /\ fd'[r] = IF r = s THEN NoFd ELSE fd[r]
                         /\ status'[r] = IF r = s THEN "Reserse" ELSE status[r]
    BY <1>a, <2>1
  <2>7. \A g \in lfds : ud[g] \in Slots  BY <1>a, <1>b
  <2> QED  BY <1>a, <1>b, <2>1, <2>2, <2>3, <2>5, <2>6, <2>7 DEF ListenInv, net, Plain
<1>4. ASSUME NEW t \in load.threads, FillListen(t)  PROVE ListenInv'
  <2> DEFINE s == loc[t].slot
             f == loc[t].fd
  <2>1. /\ status' = [status EXCEPT ![s] = "Listen"] /\ type' = [type EXCEPT ![s] = "Listen"]
        /\ fd' = [fd EXCEPT ![s] = f] /\ pc[t] = "listen" /\ UNCHANGED <<kernel, net, births>>
    BY <1>4 DEF FillListen, hist
  <2>2. /\ s \in Slots /\ s \in ServerSlots /\ status[s] = "Reserse"
        /\ f \in lfds /\ \A r \in Slots : fd[r] # f
    BY <1>0, <2>1, FdTypes DEF ListenersApart, FdInv
  <2> HIDE DEF s, f
  <2>3. type[s] # "Listen"  BY <2>2 DEF ListenInv
  <2>4. \A r \in Slots : /\ fd'[r] = IF r = s THEN f ELSE fd[r]
                         /\ type'[r] = IF r = s THEN "Listen" ELSE type[r]
                         /\ status'[r] = IF r = s THEN "Listen" ELSE status[r]
    BY <1>a, <2>1
  <2>5. UNCHANGED ServerSlots  BY <2>1 DEF ServerSlots
  <2>6. \A g \in lfds : epoll[g] # {} => ud[g] \in Slots /\ fd[ud[g]] = g /\ ud[g] # s /\ g # f
    BY <1>a, <1>b, <2>2, <2>3 DEF ListenInv
  <2> QED  BY <1>a, <2>1, <2>2, <2>4, <2>5, <2>6 DEF ListenInv, kernel, net
<1> QED  BY <1>1, <1>2, <1>3, <1>4 DEF Next, NetAct, Return

(* A connection that waits is reported, or about to be.                      *)
LEMMA BacklogStep ==
    ASSUME TypeOK, NotifierApart, BatchDone, FdInv, ListenersApart, ListenInv, BacklogSeen, Next
    PROVE  BacklogSeen'
<1>0. load.threads \subseteq Threads /\ load.fds \subseteq Fds  BY LoadFacts
<1>a. /\ backlog \in [Fds -> Nat] /\ epoll \in [Fds -> SUBSET {"R", "W"}] /\ ud \in [Fds -> Slots]
      /\ cur \in Slots /\ fd \in [Slots -> Fds \cup {NoFd}]
  BY DEF TypeOK
<1>b. NoFd \notin lfds /\ lfds \subseteq Fds  BY FdTypes
<1>c. \A f \in lfds : epoll[f] # {} => type[ud[f]] = "Listen" /\ ud[f] \in Slots /\ fd[ud[f]] = f
  BY <1>a, <1>b DEF ListenInv
\* The listener that handleAccept() is at work on keeps its descriptor.
<1>d. ASSUME NetAct, netpc = "accept"  PROVE fd'[cur] = fd[cur]
  BY <1>d, <1>a, ListenersStay DEF ListenInv
<1>e. ASSUME NetAct  PROVE UNCHANGED lfds
  BY <1>e, ListenersStay
\* A step that leaves the reports alone.
<1>f. ASSUME UNCHANGED <<lfds, backlog, refused, ledges, batch>>,
             \A f \in lfds : epoll'[f] # {} => epoll[f] # {} /\ ud'[f] = ud[f],
             netpc = "accept" => netpc' = "accept" /\ cur' = cur /\ fd'[cur] = fd[cur]
      PROVE  BacklogSeen'
  BY <1>f DEF BacklogSeen
<1>1. CASE Wait
  <2>1. UNCHANGED <<lfds, epoll, ud, backlog, refused>> /\ batch = {} /\ netpc = "wait"
    BY <1>1 DEF Wait, kernel, BatchDone
  <2>2. \A f \in ledges \cap lfds : epoll[f] # {} => \E e \in batch' : e.slot = ud[f]
    <3>1. \A f \in Reported : [slot |-> ud[f], r |-> TRUE, w |-> FALSE] \in batch'  BY <1>1 DEF Wait
    <3>2. \A f \in ledges \cap lfds : epoll[f] # {} => f \in Reported  BY DEF Reported
    <3> QED  BY <3>1, <3>2
  <2> QED  BY <2>1, <2>2 DEF BacklogSeen
<1>2. ASSUME NEW e \in batch, HandleListen(e), UNCHANGED backlogs  PROVE BacklogSeen'
  <2>1. /\ netpc = "events" /\ netpc' = "accept" /\ cur' = e.slot /\ batch' = batch \ {e}
        /\ UNCHANGED <<pool, kernel>>
    BY <1>2 DEF HandleListen, Event
  <2> QED  BY <1>2, <1>c, <2>1 DEF BacklogSeen, backlogs, kernel, pool
<1>3. ASSUME NEW e \in batch, HandleNotify(e) \/ HandleConnect(e) \/ HandleIo(e), UNCHANGED backlogs
      PROVE  BacklogSeen'
  <2>1. netpc = "events" /\ batch' = batch \ {e} /\ type[e.slot] # "Listen"
    BY <1>3 DEF HandleNotify, HandleConnect, HandleIo, Event
  <2>2. NetAct /\ ~ListenSocket
    <3>1. NetAct  BY <1>3 DEF NetAct, NetStep, Handling
    <3>2. ~ListenSocket  BY <2>1 DEF ListenSocket, Pop
    <3> QED  BY <3>1, <3>2
  <2>3. \A f \in lfds : epoll'[f] = epoll[f] /\ ud'[f] = ud[f]  BY <2>2, ListenersStay
  <2>4. UNCHANGED lfds  BY <1>e, <2>2
  <2> QED  BY <1>3, <1>c, <2>1, <2>3, <2>4 DEF BacklogSeen, backlogs
<1>4. CASE (EventsDone \/ RoundDone \/ CmdsDone \/ Command1 \/ HandleWrite) /\ UNCHANGED backlogs
  <2>1. netpc # "accept" /\ UNCHANGED batch
    BY <1>4 DEF EventsDone, RoundDone, CmdsDone, HandleWrite, Command1, ConnectFails, ConnectAtOnce,
                ConnectStarts, SendDropped, SendQueued, SendNow, CloseSocket, Pop, net
  <2>2. NetAct  BY <1>4 DEF NetAct, NetStep, Handling
  <2>3. UNCHANGED lfds  BY <1>e, <2>2
  <2>4. CASE ListenSocket
    <3>1. ASSUME ListenSocket, Command1  PROVE FALSE
      BY <3>1 DEF ListenSocket, Command1, ConnectFails, ConnectAtOnce,
                ConnectStarts, SendDropped, SendQueued, SendNow, CloseSocket, Pop
    <3>2. ASSUME ListenSocket, EventsDone \/ RoundDone \/ CmdsDone \/ HandleWrite  PROVE FALSE
      BY <3>2 DEF ListenSocket, EventsDone, RoundDone, CmdsDone, HandleWrite, Pop
    <3> QED  BY <1>4, <2>4, <3>1, <3>2
  <2>5. CASE ~ListenSocket
    <3>1. \A f \in lfds : epoll'[f] = epoll[f] /\ ud'[f] = ud[f]  BY <2>2, <2>5, ListenersStay
    <3> QED  BY <1>4, <1>f, <2>1, <2>3, <3>1 DEF backlogs
  <2> QED  BY <2>4, <2>5
<1>5. CASE AcceptOne
  <2>1. NetAct /\ ~ListenSocket /\ netpc = "accept"
    <3>1. ASSUME ListenSocket  PROVE FALSE  BY <1>5, <3>1 DEF ListenSocket, Pop, AcceptOne
    <3> QED  BY <1>5, <3>1 DEF NetAct, NetStep, Accepting, AcceptOne
  <2>2. UNCHANGED lfds /\ \A f \in lfds : epoll'[f] = epoll[f] /\ ud'[f] = ud[f]
    BY <1>e, <2>1, ListenersStay
  <2>3. /\ fd[cur] \in lfds /\ backlog' = [backlog EXCEPT ![fd[cur]] = @ - 1]
        /\ UNCHANGED <<netpc, cur, batch, ledges, refused>>
    BY <1>5 DEF AcceptOne, AcceptNext
  <2>4. fd'[cur] = fd[cur]  BY <1>d, <2>1
  <2>5. \A f \in lfds : f # fd[cur] => backlog'[f] = backlog[f]  BY <1>a, <1>b, <2>3
  <2> QED  BY <2>1, <2>2, <2>3, <2>4, <2>5 DEF BacklogSeen
<1>6. CASE AcceptRefused
  <2>1. /\ netpc = "accept" /\ fd[cur] \in lfds /\ backlog' = [backlog EXCEPT ![fd[cur]] = @ - 1]
        /\ refused' = refused \cup {fd[cur]} /\ UNCHANGED <<lfds, epoll, ud, batch, ledges>>
    BY <1>6 DEF AcceptRefused, kernel
  <2>2. \A f \in lfds : f # fd[cur] => backlog'[f] = backlog[f]  BY <1>a, <1>b, <2>1
  <2> QED  BY <2>1, <2>2 DEF BacklogSeen
<1>7. CASE AcceptDone
  BY <1>7 DEF AcceptDone, BacklogSeen, kernel, backlogs
<1>8. CASE ListenSocket
  <2> DEFINE f == fd[Head(queue).id]
  <2>1. netpc = "cmds" /\ UNCHANGED <<lfds, backlog, refused, batch>>  BY <1>8 DEF ListenSocket, Pop, net
  <2>2. CASE UNCHANGED <<epoll, ud, ledges>>  BY <1>f, <2>1, <2>2
  <2>3. CASE /\ epoll' = [epoll EXCEPT ![f] = {"R"}]
             /\ ud' = [ud EXCEPT ![f] = Head(queue).id]
             /\ ledges' = IF backlog[f] > 0 THEN ledges \cup {f} ELSE ledges
    <3> HIDE DEF f
    <3>1. ledges \subseteq ledges' /\ (backlog[f] > 0 => f \in ledges')  BY <2>3
    <3>2. \A g \in lfds : g # f => epoll'[g] = epoll[g] /\ ud'[g] = ud[g]  BY <1>a, <1>b, <2>3
    <3> QED  BY <2>1, <3>1, <3>2 DEF BacklogSeen
  <2> QED  BY <1>8, <2>2, <2>3 DEF ListenSocket
<1>9. ASSUME NEW g \in load.fds, Arrive(g)  PROVE BacklogSeen'
  <2>1. /\ g \in lfds /\ backlog' = [backlog EXCEPT ![g] = @ + 1] /\ ledges' = ledges \cup {g}
        /\ refused' = refused \ {g} /\ UNCHANGED <<pool, kernel, net>>
    BY <1>9 DEF Arrive
  <2>2. \A f \in lfds : f # g => backlog'[f] = backlog[f]  BY <1>a, <1>b, <2>1
  <2> QED  BY <2>1, <2>2 DEF BacklogSeen, pool, kernel, net
<1>10. ASSUME NEW s \in Slots, Expire(s), UNCHANGED backlogs  PROVE BacklogSeen'
  <2>1. netpc = "timeout" /\ UNCHANGED net  BY <1>10 DEF Expire
  <2>2. NetAct /\ ~ListenSocket
    <3>1. ASSUME ListenSocket  PROVE FALSE  BY <2>1, <3>1 DEF ListenSocket, Pop
    <3> QED  BY <1>10, <3>1 DEF NetAct
  <2>3. UNCHANGED lfds /\ \A f \in lfds : epoll'[f] = epoll[f] /\ ud'[f] = ud[f]
    BY <1>e, <2>2, ListenersStay
  <2> QED  BY <1>10, <1>f, <2>1, <2>3 DEF net, backlogs
<1>11. ASSUME NEW t \in load.threads, UNCHANGED backlogs,
              Connect(t) \/ FillConnect(t) \/ Push(t) \/ SendCall(t) \/ CloseCall(t) \/ Notify(t)
       PROVE  BacklogSeen'
  <2>1. UNCHANGED <<kernel, net>> /\ (netpc = "accept" => fd'[cur] = fd[cur])
    BY <1>11, <1>a, <1>b, CallersListen DEF ListenInv
  <2> QED  BY <1>11, <1>f, <2>1 DEF kernel, net, backlogs
<1>12. ASSUME NEW t \in load.threads, FillListen(t), UNCHANGED backlogs  PROVE BacklogSeen'
  <2>1. UNCHANGED <<kernel, net>> /\ fd' = [fd EXCEPT ![loc[t].slot] = loc[t].fd]
    BY <1>12 DEF FillListen
  <2>2. netpc = "accept" => cur # loc[t].slot
    BY <1>0, <1>12, <1>a DEF FillListen, ListenInv, ListenersApart
  <2>3. netpc = "accept" => fd'[cur] = fd[cur]  BY <1>a, <2>1, <2>2
  <2> QED  BY <1>12, <1>f, <2>1, <2>3 DEF kernel, net, backlogs
<1>13. ASSUME NEW t \in load.threads, Listen(t)  PROVE BacklogSeen'
  <2>1. PICK s \in Slots, g \in FreeFds :
          /\ Take(s, "listen")
          /\ fd' = [fd EXCEPT ![s] = NoFd]
          /\ lfds' = lfds \cup {g}
          /\ backlog' = [backlog EXCEPT ![g] = 0]
          /\ ledges' = ledges \ {g} /\ refused' = refused \ {g}
    BY <1>13 DEF Listen
  <2>2. UNCHANGED <<epoll, ud, net>>  BY <1>13 DEF Listen
  <2>3. g \in Fds \ open  BY FreeFdsFree
  <2>4. epoll[g] = {} /\ g \notin lfds  BY <2>3, FdTypes DEF FdInv
  <2>5. Plain(s)  BY <2>1, TakeSlots, PlainSlots
  <2>6. netpc = "accept" => fd'[cur] = fd[cur]  BY <1>a, <2>1, <2>5 DEF Plain, ListenInv
  <2>7. \A f \in lfds : backlog'[f] = backlog[f]  BY <1>a, <1>b, <2>1, <2>4
  <2> QED  BY <2>1, <2>2, <2>4, <2>6, <2>7 DEF BacklogSeen, net
<1> QED
  BY <1>1, <1>2, <1>3, <1>4, <1>5, <1>6, <1>7, <1>8, <1>9, <1>10, <1>11, <1>12, <1>13
     DEF Next, NetStep, Accepting, Handling, Return

(* What listens, for workloads that leave the listeners open.                *)
ServeInv == KeepsListeners /\ WakeInv /\ FdInv /\ ListenersApart /\ ListenInv /\ BacklogSeen

(* It holds at the start, ...                                                *)
LEMMA ServeInit == KeepsListeners /\ Init => ServeInv
<1> SUFFICES ASSUME KeepsListeners, Init  PROVE ServeInv
  OBVIOUS
<1>0. DOMAIN queue = {} /\ DOMAIN births = {}  BY DEF Init
<1>1. ServerSlots = {} /\ ClientSlots = {}  BY <1>0 DEF ServerSlots, ClientSlots
<1>2. FdInv  BY DEF Init, FdInv
<1>3. ListenersApart  BY <1>0, <1>1 DEF Init, ListenersApart
<1>4. ListenInv  BY DEF Init, ListenInv
<1>5. BacklogSeen  BY DEF Init, BacklogSeen
<1> QED  BY <1>2, <1>3, <1>4, <1>5, WakeInit DEF ServeInv

(* ... and every step keeps it.                                              *)
LEMMA ServeNext == ServeInv /\ [Next]_vars => ServeInv'
<1> SUFFICES ASSUME ServeInv, [Next]_vars  PROVE ServeInv'
  OBVIOUS
<1>0. KeepsListeners /\ TypeOK /\ NotifierApart /\ BatchDone  BY DEF ServeInv, WakeInv
<1>a. KeepsListeners'  BY <1>0 DEF KeepsListeners
<1>1. CASE Next
  BY <1>0, <1>a, <1>1, WakeNext, FdStep, ApartStep, ListenStep, BacklogStep DEF ServeInv
<1>2. CASE UNCHANGED vars
  <2>1. WakeInv'  BY WakeNext DEF ServeInv
  <2>2. UNCHANGED <<ServerSlots, ClientSlots>>  BY <1>2 DEF ServerSlots, ClientSlots, vars, hist
  <2>3. FdInv'  BY <1>2 DEF ServeInv, FdInv, vars, pool, kernel, app
  <2>4. ListenersApart'  BY <1>2, <2>2 DEF ServeInv, ListenersApart, vars, pool, chan, hist, app
  <2>5. ListenInv'  BY <1>2, <2>2 DEF ServeInv, ListenInv, vars, pool, kernel, net
  <2>6. BacklogSeen'  BY <1>2 DEF ServeInv, BacklogSeen, vars, pool, kernel, backlogs, net
  <2> QED  BY <1>a, <2>1, <2>3, <2>4, <2>5, <2>6 DEF ServeInv
<1> QED  BY <1>1, <1>2

(* The listeners of an application that never closes one.                    *)
THEOREM ServeInvariance == KeepsListeners /\ Spec => []ServeInv
BY ServeInit, ServeNext, PTL DEF Spec

(* The listener is edge-triggered, and no connection is forgotten in its     *)
(* backlog, however peers, threads and handleAccept() interleave; and        *)
(* handleAccept() runs on a descriptor that listens.                         *)
THEOREM BacklogsAreSeen == KeepsListeners /\ Spec => [](BacklogSeen /\ AcceptsOnListener)
<1>1. ServeInv => BacklogSeen /\ AcceptsOnListener
  BY DEF ServeInv, WakeInv, TypeOK, ListenInv, AcceptsOnListener
<1> QED  BY <1>1, ServeInvariance, PTL

-----------------------------------------------------------------------------
(* The slots, until a socket is closed early.                                *)

(* A step of one slot leaves the others alone.                               *)
LEMMA SameSlot ==
    ASSUME NEW r \in Slots, Same(r)
    PROVE  /\ Polled(r) => Polled(r)'
           /\ Streamed(r) => Streamed(r)'
           /\ Told(r) => Told(r)'
<1>1. Polled(r) => Polled(r)'  BY DEF Same, Polled, InUse
<1>2. Streamed(r) => Streamed(r)'  BY DEF Same, Streamed
<1>3. Told(r) => Told(r)'  BY DEF Same, Told
<1> QED  BY <1>1, <1>2, <1>3

(* forceClose(), an event, a write.                                          *)
LEMMA TouchOthers ==
    ASSUME TypeOK, FdInv, NEW s \in Slots, Touches(s), NEW r \in Slots \ {s}
    PROVE  Same(r)
<1>1. /\ status \in [Slots -> Status] /\ fd \in [Slots -> Fds \cup {NoFd}]
      /\ epoll \in [Fds -> SUBSET {"R", "W"}] /\ ud \in [Fds -> Slots] /\ mask \in [Fds -> SUBSET {"R", "W"}]
  BY DEF TypeOK
<1>2. /\ wbuf \in [Slots -> Seq(Byte)] /\ sent \in [Slots -> Seq(Byte)] /\ wire \in [Slots -> Seq(Byte)]
      /\ calls \in [Slots -> Seq(Callbacks)]
  BY DEF TypeOK
<1>3. fd[r] # NoFd => fd[r] # fd[s] /\ fd[r] \in Fds  BY <1>1 DEF FdInv
<1>4. CASE Closing(s)
  <2>1. PICK before : CloseAfter(s, before)  BY <1>4 DEF Closing
  <2>2. r \in connTimer => r \in connTimer'  BY <1>4 DEF Closing
  <2> QED
    BY <1>1, <1>2, <1>3, <2>1, <2>2 DEF CloseAfter, CloseFd, PollDel, OnClose, ClearBuffer, ResetSlot, Same
<1>5. CASE Opening(s)  BY <1>1, <1>2, <1>3, <1>5 DEF Opening, Callback, Same
<1>6. CASE Hearing(s)  BY <1>1, <1>2, <1>6 DEF Hearing, Same, pool, kernel
<1>7. CASE Streaming(s)
  <2>1. fd[r] # NoFd => epoll'[fd[r]] = epoll[fd[r]] /\ mask'[fd[r]] = mask[fd[r]]
    BY <1>1, <1>3, <1>7 DEF Streaming, AddToWrite, DelWrite
  <2>2. wbuf'[r] = wbuf[r] /\ sent'[r] = sent[r] /\ wire'[r] = wire[r]
    BY <1>2, <1>7 DEF Streaming
  <2> QED  BY <1>7, <2>1, <2>2 DEF Streaming, Same
<1> QED  BY <1>4, <1>5, <1>6, <1>7 DEF Touches

(* getNewSocket() for one slot, with what the caller changes besides.        *)
LEMMA TakeOthers ==
    ASSUME TypeOK, FdInv, NEW s \in Slots, NEW kind, Take(s, kind), NEW r \in Slots \ {s},
           NEW x, NEW f \in (Fds \ open) \cup {NoFd},
           status' = [status EXCEPT ![s] = x], fd' = [fd EXCEPT ![s] = f],
           UNCHANGED <<wbuf, connTimer, mask>>,
           \A g \in Fds \ {f} : epoll'[g] = epoll[g] /\ ud'[g] = ud[g]
    PROVE  Same(r)
<1>1. /\ status \in [Slots -> Status] /\ fd \in [Slots -> Fds \cup {NoFd}] /\ born \in [Slots -> Nat]
      /\ sent \in [Slots -> Seq(Byte)] /\ wire \in [Slots -> Seq(Byte)]
      /\ calls \in [Slots -> Seq(Callbacks)]
  BY DEF TypeOK
<1>2. fd[r] # NoFd => fd[r] # f /\ fd[r] \in Fds  BY <1>1 DEF FdInv
<1> QED  BY <1>1, <1>2 DEF Take, Same

(* connectSocket() for the slot of the first command.                        *)
LEMMA ConnectOthers ==
    ASSUME TypeOK, FdInv, ConnectFails \/ ConnectAtOnce \/ ConnectStarts,
           NEW r \in Slots \ {Head(queue).id}
    PROVE  Same(r)
<1> DEFINE s == Head(queue).id
<1>1. /\ status \in [Slots -> Status] /\ fd \in [Slots -> Fds \cup {NoFd}]
      /\ epoll \in [Fds -> SUBSET {"R", "W"}] /\ ud \in [Fds -> Slots] /\ mask \in [Fds -> SUBSET {"R", "W"}]
      /\ calls \in [Slots -> Seq(Callbacks)]
  BY DEF TypeOK
<1>2. \A f \in FreeFds : fd[r] # f  BY FreeFdsFree, FdTypes DEF FdInv
<1>3. fd[r] # NoFd => fd[r] \in Fds  BY <1>1
<1>4. CASE ConnectFails
  <2>1. status' = [status EXCEPT ![s] = "Idle"] /\ calls' = [calls EXCEPT ![s] = Append(@, "onClose")]
        /\ UNCHANGED <<fd, wbuf, connTimer, kernel, born, sent, wire>>
    BY <1>4 DEF ConnectFails, Callback
  <2> QED  BY <1>1, <2>1 DEF Same, kernel
<1>5. CASE ConnectAtOnce
  <2>1. PICK f \in FreeFds : /\ fd' = [fd EXCEPT ![s] = f]
                             /\ status' = [status EXCEPT ![s] = "Connected"]
                             /\ Callback(s, "onConnect")
                             /\ addEvent(f, "R", s)
    BY <1>5 DEF ConnectAtOnce
  <2>2. UNCHANGED <<wbuf, connTimer, born, sent, wire>>  BY <1>5 DEF ConnectAtOnce
  <2> QED  BY <1>1, <1>2, <1>3, <2>1, <2>2 DEF Same, Callback, addEvent
<1>6. CASE ConnectStarts
  <2>1. PICK f \in FreeFds : /\ fd' = [fd EXCEPT ![s] = f]
                             /\ status' = [status EXCEPT ![s] = "Connecting"]
                             /\ addEvent(f, "W", s)
    BY <1>6 DEF ConnectStarts
  <2>2. UNCHANGED <<wbuf, born, calls, sent, wire>> /\ connTimer \subseteq connTimer'  BY <1>6 DEF ConnectStarts
  <2> QED  BY <1>1, <1>2, <1>3, <2>1, <2>2 DEF Same, addEvent
<1> QED  BY <1>4, <1>5, <1>6

(* The callbacks of a slot that is closed, or is told of a packet.           *)
LEMMA CallsFacts ==
    ASSUME NEW c \in Seq(Callbacks), OpenCalls(c)
    PROVE  OpenCalls(Append(c, "onPacket"))
<1>1. "onPacket" \in Callbacks  BY DEF Callbacks
<1>2. Len(c) \in Nat /\ DOMAIN c = 1 .. Len(c) /\ Len(c) > 0  BY DEF OpenCalls
<1>3. /\ Append(c, "onPacket")[1] = c[1] /\ Append(c, "onPacket") # <<>>
  BY <1>1, <1>2, AppendFacts
<1>4. \A i \in DOMAIN Append(c, "onPacket") : i > 1 => Append(c, "onPacket")[i] = "onPacket"
  BY <1>1, ElementOfAppend DEF OpenCalls
<1> QED  BY <1>3, <1>4 DEF OpenCalls

(* onPacket() on an open connection.                                        *)
LEMMA PacketFacts ==
    ASSUME TypeOK, NEW s \in Slots, OpenCalls(calls[s])
    PROVE  OpenCalls(WithPacket(s))
BY CallsFacts DEF WithPacket, TypeOK

(* forceClose() leaves the slot as a new one.                                *)
LEMMA CloseSlot ==
    ASSUME TypeOK, NEW s \in Slots \ {Notifier}, Closing(s), Polled(s), Streamed(s), Told(s)
    PROVE  Polled(s)' /\ Streamed(s)' /\ Told(s)'
<1>1. PICK before \in {calls[s], WithPacket(s)} :
         (before # calls[s] => status[s] = "Connected") /\ CloseAfter(s, before)
  BY DEF Closing
<1>2. status'[s] = "Idle" /\ fd'[s] = NoFd /\ wbuf'[s] = <<>> /\ calls'[s] = Append(before, "onClose")
  BY <1>1 DEF CloseAfter, OnClose, ClearBuffer, ResetSlot, TypeOK
<1>3. before \in Seq(Callbacks) /\ (before = <<>> \/ OpenCalls(before))
  <2>1. before \in Seq(Callbacks)  BY <1>1, PacketTypes
  <2>2. CASE status[s] = "Connected"
    <3>1. OpenCalls(calls[s])  BY <2>2 DEF Told
    <3>2. OpenCalls(WithPacket(s))  BY <3>1, PacketFacts
    <3>3. before = calls[s] \/ before = WithPacket(s)  BY <1>1
    <3> QED  BY <2>1, <3>1, <3>2, <3>3
  <2>3. CASE status[s] # "Connected"
    <3>1. status[s] \in {"Connecting", "Listen"}  BY <2>3 DEF Closing, InUse, TypeOK, Status
    <3>2. calls[s] = <<>>  BY <3>1 DEF Told
    <3>3. before = calls[s]  BY <1>1, <2>3
    <3> QED  BY <2>1, <3>2, <3>3
  <2> QED  BY <2>1, <2>2, <2>3
<1>4. ClosedCalls(calls'[s])  BY <1>2, <1>3 DEF ClosedCalls
<1> QED  BY <1>2, <1>4 DEF Polled, Streamed, Told

(* The other steps on an open connection.                                    *)
LEMMA OpenSlot ==
    ASSUME TypeOK, FdInv, NEW s \in Slots \ {Notifier}, Opening(s) \/ Hearing(s) \/ Streaming(s),
           Polled(s), Streamed(s), Told(s)
    PROVE  Polled(s)' /\ Streamed(s)' /\ Told(s)'
<1>0. /\ status \in [Slots -> Status] /\ fd[s] \in Fds \cup {NoFd}
      /\ epoll \in [Fds -> SUBSET {"R", "W"}] /\ mask \in [Fds -> SUBSET {"R", "W"}]
      /\ wbuf \in [Slots -> Seq(Byte)] /\ sent \in [Slots -> Seq(Byte)] /\ wire \in [Slots -> Seq(Byte)]
      /\ calls \in [Slots -> Seq(Callbacks)]
  BY DEF TypeOK
<1>1. CASE Opening(s)
  <2>1. /\ status'[s] = "Connected" /\ fd'[s] = fd[s] /\ fd[s] # NoFd /\ fd[s] \in Fds
        /\ mask'[fd[s]] = {"R"} /\ epoll'[fd[s]] = {"R"} /\ ud' = ud
        /\ wbuf'[s] = wbuf[s] /\ sent'[s] = sent[s] /\ wire'[s] = wire[s]
    BY <1>0, <1>1 DEF Opening
  <2>2. wbuf[s] = <<>> /\ sent[s] = <<>> /\ wire[s] = <<>> /\ calls[s] = <<>>
    BY <1>1 DEF Opening, Streamed, Told
  <2>3. calls'[s] = <<"onConnect">>
    <3>1. calls'[s] = Append(calls[s], "onConnect")  BY <1>0, <1>1 DEF Opening, Callback
    <3> QED  BY <2>2, <3>1
  <2>4. OpenCalls(calls'[s])  BY <2>3 DEF OpenCalls
  <2>5. Polled(s)'  BY <1>1, <2>1, <2>2 DEF Polled, Opening
  <2> QED  BY <2>1, <2>2, <2>4, <2>5 DEF Streamed, Told
<1>2. CASE Hearing(s)
  <2>1. calls'[s] = WithPacket(s) /\ UNCHANGED <<pool, kernel, sent, wire>> /\ status[s] = "Connected"
    BY <1>0, <1>2 DEF Hearing
  <2>2. OpenCalls(calls'[s])  BY <2>1, PacketFacts DEF Told
  <2>3. Polled(s)' /\ Streamed(s)'  BY <2>1 DEF Polled, Streamed, pool, kernel
  <2> QED  BY <2>1, <2>2, <2>3 DEF Told, pool
<1>3. CASE Streaming(s)
  <2>1. /\ status[s] = "Connected" /\ UNCHANGED <<status, fd, ud, calls, connTimer>>
        /\ fd[s] \in Fds /\ fd[s] # NoFd /\ ud[fd[s]] = s
        /\ "R" \in epoll[fd[s]] /\ mask[fd[s]] \subseteq {"R"}
        /\ wbuf[s] # <<>> => "W" \in epoll[fd[s]]
    BY <1>0, <1>3 DEF Streaming, Polled
  <2>2. PICK w, x, y \in Seq(Byte) :
          /\ wbuf' = [wbuf EXCEPT ![s] = w]
          /\ wire' = [wire EXCEPT ![s] = x]
          /\ sent' = [sent EXCEPT ![s] = y]
          /\ sent[s] = wire[s] \o wbuf[s] => y = x \o w
          /\ \/ UNCHANGED <<epoll, mask>> /\ (wbuf[s] = <<>> => w = <<>>)
             \/ AddToWrite(fd[s]) /\ UNCHANGED mask
             \/ DelWrite(s) /\ w = <<>>
    BY <1>3 DEF Streaming
  <2>3. wbuf'[s] = w /\ wire'[s] = x /\ sent'[s] = y  BY <1>0, <2>2
  <2>4. Streamed(s)'  BY <2>1, <2>2, <2>3 DEF Streamed
  <2>5. mask'[fd[s]] \subseteq {"R"}  BY <1>0, <2>1, <2>2 DEF DelWrite
  <2>6. "R" \in epoll'[fd[s]] /\ (w # <<>> => "W" \in epoll'[fd[s]])
    <3>1. CASE UNCHANGED <<epoll, mask>> /\ (wbuf[s] = <<>> => w = <<>>)  BY <2>1, <3>1
    <3>2. CASE AddToWrite(fd[s])  BY <1>0, <2>1, <3>2 DEF AddToWrite
    <3>3. CASE DelWrite(s) /\ w = <<>>
      <4>1. epoll'[fd[s]] = IF mask[fd[s]] = {} THEN epoll[fd[s]] ELSE mask'[fd[s]]
        BY <1>0, <2>1, <3>3 DEF DelWrite
      <4>2. mask'[fd[s]] = mask[fd[s]] \ {"W"}  BY <1>0, <2>1, <3>3 DEF DelWrite
      <4>3. mask[fd[s]] # {} => "R" \in mask[fd[s]] \ {"W"}  BY <2>1
      <4> QED  BY <2>1, <3>3, <4>1, <4>2, <4>3
    <3> QED  BY <2>2, <3>1, <3>2, <3>3
  <2>7. Polled(s)'  BY <2>1, <2>3, <2>5, <2>6 DEF Polled
  <2> QED  BY <2>1, <2>4, <2>7, <1>3 DEF Told
<1> QED  BY <1>1, <1>2, <1>3

(* connectSocket() of a slot that waits for it.                              *)
LEMMA ConnectSlot ==
    ASSUME TypeOK, FdInv, NEW s \in Slots \ {Notifier}, s = Head(queue).id, Awaited(s),
           ConnectFails \/ ConnectAtOnce \/ ConnectStarts,
           Polled(s), Streamed(s), Told(s)
    PROVE  Polled(s)' /\ Streamed(s)' /\ Told(s)' /\ status'[s] # "Reserse" /\ ~Awaited(s)'
<1>0. /\ status \in [Slots -> Status] /\ fd \in [Slots -> Fds \cup {NoFd}]
      /\ epoll \in [Fds -> SUBSET {"R", "W"}] /\ mask \in [Fds -> SUBSET {"R", "W"}]
      /\ ud \in [Fds -> Slots] /\ calls \in [Slots -> Seq(Callbacks)]
  BY DEF TypeOK
<1>1. /\ status[s] = "Connecting" /\ fd[s] = NoFd
      /\ wbuf[s] = <<>> /\ sent[s] = <<>> /\ wire[s] = <<>> /\ calls[s] = <<>>
  BY DEF Awaited, Streamed, Told
<1>2. \A f \in FreeFds : f \in Fds /\ f # NoFd /\ epoll[f] = {} /\ mask[f] = {}
  BY FreeFdsFree, FdTypes DEF FdInv
<1>3. <<>> \in Seq(Callbacks)  OBVIOUS
<1>4. CASE ConnectFails
  <2>1. status' = [status EXCEPT ![s] = "Idle"] /\ calls' = [calls EXCEPT ![s] = Append(@, "onClose")]
        /\ UNCHANGED <<fd, wbuf>>
    BY <1>4 DEF ConnectFails, Callback
  <2>2. status'[s] = "Idle" /\ fd'[s] = NoFd /\ wbuf'[s] = <<>> /\ calls'[s] = Append(<<>>, "onClose")
    BY <1>0, <1>1, <2>1
  <2>3. ClosedCalls(calls'[s])  BY <1>3, <2>2 DEF ClosedCalls
  <2> QED  BY <2>2, <2>3 DEF Polled, Streamed, Told, Awaited
<1>5. CASE ConnectAtOnce
  <2>1. PICK f \in FreeFds : /\ fd' = [fd EXCEPT ![s] = f]
                             /\ status' = [status EXCEPT ![s] = "Connected"]
                             /\ Callback(s, "onConnect")
                             /\ addEvent(f, "R", s)
    BY <1>5 DEF ConnectAtOnce
  <2>2. UNCHANGED <<wbuf, sent, wire>>  BY <1>5 DEF ConnectAtOnce
  <2>3. /\ status'[s] = "Connected" /\ fd'[s] = f /\ f # NoFd /\ ud'[f] = s
        /\ mask'[f] = {"R"} /\ epoll'[f] = {"R"}
    BY <1>0, <1>2, <2>1 DEF addEvent
  <2>4. calls'[s] = <<"onConnect">>
    <3>1. calls'[s] = Append(calls[s], "onConnect")  BY <1>0, <2>1 DEF Callback
    <3> QED  BY <1>1, <3>1
  <2>5. OpenCalls(calls'[s])  BY <2>4 DEF OpenCalls
  <2>6. sent'[s] = wire'[s] \o wbuf'[s]
    <3>1. sent'[s] = <<>> /\ wire'[s] = <<>> /\ wbuf'[s] = <<>>  BY <1>1, <2>2
    <3>2. <<>> \o <<>> = <<>>  OBVIOUS
    <3> QED  BY <3>1, <3>2
  <2> QED  BY <1>1, <2>2, <2>3, <2>5, <2>6 DEF Polled, Streamed, Told, Awaited
<1>6. CASE ConnectStarts
  <2>1. PICK f \in FreeFds : /\ fd' = [fd EXCEPT ![s] = f]
                             /\ status' = [status EXCEPT ![s] = "Connecting"]
                             /\ addEvent(f, "W", s)
                             /\ connTimer' = connTimer \cup {s}
    BY <1>6 DEF ConnectStarts
  <2>2. UNCHANGED <<wbuf, calls, sent, wire>>  BY <1>6 DEF ConnectStarts
  <2>3. /\ status'[s] = "Connecting" /\ fd'[s] = f /\ f # NoFd /\ ud'[f] = s /\ s \in connTimer'
        /\ mask'[f] = {"W"} /\ epoll'[f] = {"W"}
    BY <1>0, <1>2, <2>1 DEF addEvent
  <2> QED  BY <1>1, <2>2, <2>3 DEF Polled, Streamed, Told, Awaited
<1> QED  BY <1>4, <1>5, <1>6

(* A slot that is taken, for a connection that is there or is to come.       *)
LEMMA TakeSlot ==
    ASSUME TypeOK, NEW s \in Slots, NEW kind \in {"connect", "listen"}, Take(s, kind),
           status' = [status EXCEPT ![s] = "Reserse"], fd' = [fd EXCEPT ![s] = NoFd],
           UNCHANGED wbuf, Streamed(s)
    PROVE  Polled(s)' /\ Streamed(s)' /\ Told(s)'
<1>0. /\ status \in [Slots -> Status] /\ fd \in [Slots -> Fds \cup {NoFd}]
      /\ sent \in [Slots -> Seq(Byte)] /\ wire \in [Slots -> Seq(Byte)]
      /\ calls \in [Slots -> Seq(Callbacks)]
  BY DEF TypeOK
<1>1. status[s] = "Idle"  BY DEF Take, IsNewSocket
<1>2. /\ status'[s] = "Reserse" /\ fd'[s] = NoFd /\ wbuf'[s] = <<>>
      /\ sent'[s] = <<>> /\ wire'[s] = <<>> /\ calls'[s] = <<>>
  BY <1>0, <1>1 DEF Take, Streamed
<1> QED  BY <1>2 DEF Polled, Streamed, Told

(* handleAccept().                                                           *)
LEMMA AcceptSlot ==
    ASSUME TypeOK, FdInv, NEW s \in Slots, NEW f \in FreeFds, Take(s, "accept"),
           status' = [status EXCEPT ![s] = "Connected"], fd' = [fd EXCEPT ![s] = f],
           epoll' = [epoll EXCEPT ![f] = {"R"}], ud' = [ud EXCEPT ![f] = s],
           UNCHANGED <<wbuf, mask>>, Streamed(s)
    PROVE  Polled(s)' /\ Streamed(s)' /\ Told(s)'
<1>0. /\ status \in [Slots -> Status] /\ fd \in [Slots -> Fds \cup {NoFd}]
      /\ epoll \in [Fds -> SUBSET {"R", "W"}] /\ ud \in [Fds -> Slots]
      /\ sent \in [Slots -> Seq(Byte)] /\ wire \in [Slots -> Seq(Byte)]
      /\ calls \in [Slots -> Seq(Callbacks)]
  BY DEF TypeOK
<1>1. status[s] = "Idle"  BY DEF Take, IsNewSocket
<1>2. f \in Fds /\ f # NoFd /\ mask[f] = {}  BY FreeFdsFree, FdTypes DEF FdInv
<1>3. /\ status'[s] = "Connected" /\ fd'[s] = f /\ wbuf'[s] = <<>>
      /\ sent'[s] = <<>> /\ wire'[s] = <<>> /\ calls'[s] = <<"onAccept">>
      /\ epoll'[f] = {"R"} /\ ud'[f] = s /\ mask'[f] = {}
  BY <1>0, <1>1, <1>2 DEF Take, Streamed
<1>4. OpenCalls(calls'[s])  BY <1>3 DEF OpenCalls
<1>5. sent'[s] = wire'[s] \o wbuf'[s]  BY <1>3
<1> QED  BY <1>2, <1>3, <1>4, <1>5 DEF Polled, Streamed, Told

(* listenSocket() registers a listener; a slot that has come to something    *)
(* else since is registered already.                                         *)
LEMMA ListenSlots ==
    ASSUME TypeOK, FdInv, SlotInv, ListenSocket, NEW r \in Slots
    PROVE  Polled(r)' /\ Streamed(r)' /\ (r # Notifier => Told(r)')
<1> DEFINE s == Head(queue).id
           f == fd[s]
<1>0. /\ epoll \in [Fds -> SUBSET {"R", "W"}] /\ ud \in [Fds -> Slots] /\ fd[r] \in Fds \cup {NoFd}
  BY DEF TypeOK
<1>1. UNCHANGED <<pool, mask, born, calls, sent, wire>>  BY DEF ListenSocket, hist
<1>2. Polled(r) /\ Streamed(r) /\ (r # Notifier => Told(r))  BY DEF SlotInv
<1>3. Streamed(r)' /\ (r # Notifier => Told(r)')  BY <1>1, <1>2 DEF Streamed, Told, pool
<1>4. \/ UNCHANGED <<epoll, ud>>
      \/ epoll[f] = {} /\ epoll' = [epoll EXCEPT ![f] = {"R"}] /\ ud' = [ud EXCEPT ![f] = s]
  BY DEF ListenSocket
<1> HIDE DEF f, s
<1>5. CASE status[r] \in {"Connected", "Connecting"} /\ fd[r] # NoFd
  <2>1. epoll[fd[r]] # {} /\ fd[r] \in Fds  BY <1>0, <1>2, <1>5 DEF Polled
  <2>2. epoll'[fd[r]] = epoll[fd[r]] /\ ud'[fd[r]] = ud[fd[r]]  BY <1>0, <1>4, <2>1
  <2>3. Polled(r)'  BY <1>1, <1>2, <2>2 DEF Polled, pool
  <2> QED  BY <1>3, <2>3
<1>6. CASE ~(status[r] \in {"Connected", "Connecting"} /\ fd[r] # NoFd)
  <2>1. Polled(r)'  BY <1>1, <1>2, <1>6 DEF Polled, pool
  <2> QED  BY <1>3, <2>1
<1> QED  BY <1>5, <1>6

(* What holds until a socket is closed early.                                *)
Settled == TakingInv /\ PendingInv /\ OwnerInv /\ SlotInv

(* The steps of the net thread.  What was closed early stays so.             *)
LEMMA NetEarly ==
    ASSUME TypeOK, NotifierApart, NetAct, ~early'
    PROVE  ~early /\ \A s \in Slots : Closing(s) => ~Awaited(s)
<1>1. CASE AcceptOne \/ ListenSocket \/ ConnectFails \/ ConnectAtOnce \/ ConnectStarts
  <2>1. UNCHANGED early  BY <1>1 DEF AcceptOne, ListenSocket, ConnectFails, ConnectAtOnce, ConnectStarts, hist
  <2> QED  BY <2>1 DEF Closing, CloseAfter, Awaited
<1>2. CASE Still  BY <1>2 DEF Still, hist, Closing, CloseAfter, Awaited
<1>3. ASSUME NEW s \in Slots, Touches(s)  PROVE ~early
  BY <1>3 DEF Touches, Closing, CloseAfter, Opening, Hearing, Streaming
<1>4. \A s \in Slots : Closing(s) => ~Awaited(s)  BY DEF Closing, CloseAfter, Awaited
<1> QED  BY <1>1, <1>2, <1>3, <1>4, NetKinds

(* connectSocket() has taken a command from the queue.                       *)
Popped == queue # <<>> /\ Head(queue).type = "Connect" /\ queue' # queue

(* The steps of the net thread keep every slot in order, and only            *)
(* connectSocket() ends the wait of a slot for its Connect command.          *)
LEMMA NetSlots ==
    ASSUME TypeOK, NotifierApart, FdInv, Settled, NetAct, ~early'
    PROVE  /\ SlotInv'
           /\ \A s \in Slots : status'[s] = "Reserse" <=> status[s] = "Reserse"
           /\ \A s \in Slots : Awaited(s)' <=> Awaited(s) /\ ~(Popped /\ s = Head(queue).id)
<1> DEFINE Good(r) == /\ Polled(r)' /\ Streamed(r)' /\ (r # Notifier => Told(r)')
                      /\ status'[r] = "Reserse" <=> status[r] = "Reserse"
                      /\ Awaited(r)' <=> Awaited(r) /\ ~(Popped /\ r = Head(queue).id)
<1> SUFFICES \A r \in Slots : Good(r)
  BY DEF SlotInv
<1>a. \A r \in Slots : Polled(r) /\ Streamed(r) /\ (r # Notifier => Told(r))  BY DEF Settled, SlotInv
<1>b. /\ status \in [Slots -> Status] /\ fd \in [Slots -> Fds \cup {NoFd}] /\ type[Notifier] = "Notify"
      /\ status[Notifier] = "Listen"
  BY DEF TypeOK, NotifierApart
<1>1. ASSUME NEW r \in Slots, Same(r), ~(Popped /\ r = Head(queue).id)  PROVE Good(r)
  <2>1. Awaited(r)' <=> Awaited(r)  BY <1>1 DEF Same, Awaited
  <2>2. status'[r] = status[r]  BY <1>1 DEF Same
  <2> HIDE DEF Popped
  <2> QED  BY <1>1, <1>a, <2>1, <2>2, SameSlot
<1>2. ASSUME Takes  PROVE ~Popped
  BY <1>2 DEF Takes, Popped
<1>3. CASE Still /\ Takes
  <2>1. ASSUME NEW r \in Slots  PROVE Same(r)
    BY <1>3 DEF Still, Same, kernel, hist
  <2> QED  BY <1>1, <1>2, <1>3, <2>1
<1>4. ASSUME NEW s \in Slots \ {Notifier}, Touches(s), Takes  PROVE \A r \in Slots : Good(r)
  <2>1. ~Popped  BY <1>2, <1>4
  <2>2. Polled(s)' /\ Streamed(s)' /\ Told(s)'
    <3>1. Polled(s) /\ Streamed(s) /\ Told(s)  BY <1>a
    <3> QED  BY <1>4, <3>1, CloseSlot, OpenSlot DEF Touches
  <2>3. status[s] # "Reserse" /\ status'[s] # "Reserse" /\ ~Awaited(s) /\ ~Awaited(s)'
    <3>1. CASE Closing(s)
      <4>1. ~Awaited(s)  BY <1>4, <3>1, NetEarly
      <4> QED  BY <1>b, <3>1, <4>1 DEF Closing, CloseAfter, ResetSlot, InUse, Awaited
    <3>2. CASE Opening(s) \/ Hearing(s) \/ Streaming(s)
      BY <1>b, <3>2 DEF Opening, Hearing, Streaming, pool, Awaited
    <3> QED  BY <1>4, <3>1, <3>2 DEF Touches
  <2>4. Good(s)  BY <2>1, <2>2, <2>3
  <2>5. \A r \in Slots \ {s} : Good(r)
    <3>1. \A r \in Slots \ {s} : Same(r)  BY <1>4, TouchOthers
    <3> HIDE DEF Good, Popped
    <3> QED  BY <1>1, <2>1, <3>1
  <2> HIDE DEF Good
  <2> QED  BY <2>4, <2>5
<1>5. CASE AcceptOne
  <2>1. PICK s \in Slots, f \in FreeFds :
          /\ Take(s, "accept")
          /\ status' = [status EXCEPT ![s] = "Connected"]
          /\ fd' = [fd EXCEPT ![s] = f]
          /\ epoll' = [epoll EXCEPT ![f] = {"R"}]
          /\ ud' = [ud EXCEPT ![f] = s]
    BY <1>5 DEF AcceptOne
  <2>2. UNCHANGED <<wbuf, connTimer, mask, queue>>  BY <1>5 DEF AcceptOne, chan
  <2>3. ~Popped  BY <2>2 DEF Popped
  <2>4. Polled(s)' /\ Streamed(s)' /\ Told(s)'  BY <1>a, <2>1, <2>2, AcceptSlot
  <2>5. status[s] = "Idle" /\ status'[s] = "Connected"  BY <1>b, <2>1 DEF Take, IsNewSocket
  <2>6. Good(s)  BY <2>3, <2>4, <2>5 DEF Awaited
  <2>7. \A r \in Slots \ {s} : Same(r)
    <3>1. f \in Fds \ open  BY FreeFdsFree
    <3>2. \A g \in Fds \ {f} : epoll'[g] = epoll[g] /\ ud'[g] = ud[g]  BY <2>1 DEF TypeOK
    <3> QED  BY <2>1, <2>2, <3>1, <3>2, TakeOthers
  <2> HIDE DEF Good, Popped
  <2> QED  BY <1>1, <2>3, <2>6, <2>7
<1>6. CASE ListenSocket
  <2>1. UNCHANGED pool /\ ~Popped  BY <1>6 DEF ListenSocket, Popped, Pop
  <2>2. \A r \in Slots : Polled(r)' /\ Streamed(r)' /\ (r # Notifier => Told(r)')
    BY <1>6, ListenSlots DEF Settled
  <2>3. \A r \in Slots : status'[r] = status[r] /\ (Awaited(r)' <=> Awaited(r))  BY <2>1 DEF pool, Awaited
  <2> HIDE DEF Popped
  <2> QED  BY <2>1, <2>2, <2>3
<1>7. CASE ConnectFails \/ ConnectAtOnce \/ ConnectStarts
  <2>1. queue # <<>> /\ Head(queue).type = "Connect" /\ queue' = Tail(queue)
    BY <1>7 DEF ConnectFails, ConnectAtOnce, ConnectStarts, Pop
  <2>2. Popped
    <3>1. Len(Tail(queue)) = Len(queue) - 1 /\ Len(queue) \in Nat  BY <2>1, TailFacts DEF TypeOK
    <3>2. Len(Tail(queue)) # Len(queue)  BY <3>1
    <3>3. Tail(queue) # queue  BY <3>2
    <3> QED  BY <2>1, <3>3 DEF Popped
  <2>3. PICK s \in Slots : s = Head(queue).id  BY <2>1, HeadFacts
  <2>4. Awaited(s) /\ s # Notifier
    <3>1. Awaited(s)  BY <2>1, <2>3, HeadFacts DEF Settled, PendingInv, QueuedWait
    <3> QED  BY <1>b, <3>1 DEF Awaited
  <2>5. Polled(s)' /\ Streamed(s)' /\ Told(s)' /\ status'[s] # "Reserse" /\ ~Awaited(s)'
    <3>1. Polled(s) /\ Streamed(s) /\ Told(s)  BY <1>a, <2>4
    <3> QED  BY <1>7, <2>3, <2>4, <3>1, ConnectSlot
  <2>6. Good(s)  BY <2>2, <2>3, <2>4, <2>5 DEF Awaited
  <2>7. \A r \in Slots \ {s} : Same(r)  BY <1>7, <2>3, ConnectOthers
  <2> HIDE DEF Good, Popped
  <2> QED  BY <1>1, <2>3, <2>6, <2>7
<1> HIDE DEF Good
<1> QED  BY <1>3, <1>4, <1>5, <1>6, <1>7, NetKinds

(* ... and every command to its slot, ...                                    *)
LEMMA NetPending ==
    ASSUME TypeOK, NotifierApart, FdInv, Settled, NetAct, ~early'
    PROVE  TakingInv' /\ PendingInv'
<1>a. UNCHANGED <<pc, loc>>  BY NetKinds
<1>b. \A t \in Threads : loc[t].slot \in Slots  BY FdTypes
<1>c. queue \in Seq(Cmds) /\ \A i \in DOMAIN queue : queue[i].id \in Slots
  <2>1. queue \in Seq(Cmds) /\ \A c \in Cmds : c.id \in Slots  BY DEF TypeOK, Cmds
  <2> QED  BY <2>1
<1>1. TakingInv'
  <2>1. \A s \in Slots : status'[s] = "Reserse" <=> status[s] = "Reserse"  BY NetSlots
  <2> QED  BY <1>a, <1>b, <2>1 DEF Settled, TakingInv
<1>2. \A s \in Slots : Awaited(s)' <=> Awaited(s) /\ ~(Popped /\ s = Head(queue).id)  BY NetSlots
<1>d. PushersWait /\ QueuedWait /\ OnePusher /\ OneQueued /\ PushedOrQueued /\ WaitEnds
  BY DEF Settled, PendingInv
<1>e. \A t \in Threads : Pushes(t)' <=> Pushes(t)  BY <1>a DEF Pushes
<1>f. OnePusher'  BY <1>a, <1>d, <1>e DEF OnePusher
<1>3. CASE queue' = queue
  <2>1. ~Popped  BY <1>3 DEF Popped
  <2>2. \A s \in Slots : Awaited(s)' <=> Awaited(s)  BY <1>2, <2>1
  <2>3. PushersWait'  BY <1>a, <1>b, <1>d, <1>e, <2>2 DEF PushersWait, Awaited, Pushes
  <2>4. QueuedWait'  BY <1>3, <1>c, <1>d, <2>2 DEF QueuedWait, Awaited
  <2>5. WaitEnds'  BY <1>3, <1>a, <1>d, <1>e, <2>2 DEF WaitEnds
  <2>6. OneQueued' /\ PushedOrQueued'  BY <1>3, <1>a, <1>d, <1>e DEF OneQueued, PushedOrQueued
  <2> QED  BY <1>1, <1>f, <2>3, <2>4, <2>5, <2>6 DEF PendingInv
<1>4. CASE queue # <<>> /\ queue' = Tail(queue) /\ queue' # queue
  <2>2. /\ Len(queue) \in Nat /\ DOMAIN queue = 1 .. Len(queue) /\ Head(queue) = queue[1]
        /\ DOMAIN queue' = 1 .. Len(queue) - 1
        /\ \A k \in DOMAIN queue' : k + 1 \in DOMAIN queue /\ queue'[k] = queue[k + 1]
        /\ 1 \in DOMAIN queue
    BY <1>4, <1>c, TailFacts
  <2>3. \A k \in DOMAIN queue \ {1} : \E j \in DOMAIN queue' : queue'[j] = queue[k]
    <3> SUFFICES ASSUME NEW k \in DOMAIN queue \ {1}  PROVE \E j \in DOMAIN queue' : queue'[j] = queue[k]
      OBVIOUS
    <3>1. k - 1 \in DOMAIN queue' /\ (k - 1) + 1 = k  BY <2>2
    <3> QED  BY <2>2, <3>1
  <2>4. Popped <=> queue[1].type = "Connect"  BY <1>4, <2>2 DEF Popped
  <2>5. \A s \in Slots : Awaited(s)' <=> Awaited(s) /\ ~(queue[1].type = "Connect" /\ s = queue[1].id)
    BY <1>2, <2>2, <2>4
  <2>6. \A i, j \in DOMAIN queue' : (i + 1 = j + 1 => i = j) /\ i + 1 # 1  BY <2>2
  <2>7. PushersWait'
    BY <1>a, <1>b, <1>d, <1>e, <2>2, <2>5 DEF PushersWait, PushedOrQueued, Awaited, Pushes
  <2>8. QueuedWait'
    BY <1>c, <1>d, <2>2, <2>5, <2>6 DEF QueuedWait, OneQueued, Awaited
  <2>9. WaitEnds'  BY <1>a, <1>d, <1>e, <2>3, <2>5 DEF WaitEnds
  <2>10. OneQueued'  BY <1>d, <2>2, <2>6 DEF OneQueued
  <2>11. PushedOrQueued'  BY <1>a, <1>d, <1>e, <2>2 DEF PushedOrQueued
  <2> QED  BY <1>1, <1>f, <2>7, <2>8, <2>9, <2>10, <2>11 DEF PendingInv
<1> QED  BY <1>1, <1>3, <1>4, NetUsers

(* ... and every descriptor to its owner.                                    *)
LEMMA NetOwners ==
    ASSUME TypeOK, NotifierApart, FdInv, Settled, NetAct, ~early'
    PROVE  OwnerInv'
<1>a. UNCHANGED <<pc, loc>>  BY NetKinds
<1>b. fd \in [Slots -> Fds \cup {NoFd}] /\ OwnerInv  BY DEF TypeOK, Settled
<1>c. NoFd \notin open  BY FdTypes
<1>1. CASE UNCHANGED <<fd, open>>  BY <1>1, <1>a, <1>b DEF OwnerInv
<1>2. ASSUME NEW s \in Slots, Closing(s)  PROVE OwnerInv'
  <2>1. fd' = [fd EXCEPT ![s] = NoFd] /\ open' = open \ {fd[s]}
    BY <1>2 DEF Closing, CloseAfter, CloseFd, ResetSlot
  <2>2. \A r \in Slots : fd[r] \in open' => fd'[r] = fd[r]  BY <1>b, <2>1
  <2> QED  BY <1>a, <1>b, <2>1, <2>2 DEF OwnerInv
<1>3. ASSUME NEW s \in Slots, Touches(s), ~Closing(s)  PROVE UNCHANGED <<fd, open>>
  BY <1>3 DEF Touches, Opening, Hearing, Streaming, pool, kernel
<1>4. ASSUME NEW s \in Slots, NEW f, fd[s] = NoFd, fd' = [fd EXCEPT ![s] = f], open' = open \cup {f}
      PROVE  OwnerInv'
  <2>1. fd'[s] = f /\ \A r \in Slots : fd[r] \in open => fd'[r] = fd[r]  BY <1>4, <1>b, <1>c
  <2> QED  BY <1>4, <1>a, <1>b, <2>1 DEF OwnerInv
<1>5. CASE AcceptOne
  <2>1. PICK s \in Slots, f \in FreeFds :
           Take(s, "accept") /\ fd' = [fd EXCEPT ![s] = f] /\ open' = open \cup {f}
    BY <1>5 DEF AcceptOne
  <2>2. fd[s] = NoFd  BY <2>1 DEF Take, IsNewSocket, Settled, SlotInv, Polled
  <2> QED  BY <1>4, <2>1, <2>2
<1>6. CASE ListenSocket  BY <1>1, <1>6 DEF ListenSocket, pool
<1>7. CASE ConnectFails  BY <1>1, <1>7 DEF ConnectFails, kernel
<1>8. CASE ConnectAtOnce \/ ConnectStarts
  <2>1. queue # <<>> /\ Head(queue).type = "Connect"  BY <1>8 DEF ConnectAtOnce, ConnectStarts, Pop
  <2>2. PICK s \in Slots : s = Head(queue).id  BY <2>1, HeadFacts
  <2>3. fd[s] = NoFd  BY <2>1, <2>2, HeadFacts DEF Settled, PendingInv, QueuedWait, Awaited
  <2>4. \E f : fd' = [fd EXCEPT ![s] = f] /\ open' = open \cup {f}
    BY <1>8, <2>2 DEF ConnectAtOnce, ConnectStarts
  <2> QED  BY <1>4, <2>3, <2>4
<1>9. CASE Still  BY <1>1, <1>9 DEF Still, kernel
<1> QED  BY <1>1, <1>2, <1>3, <1>5, <1>6, <1>7, <1>8, <1>9, NetKinds

(* connect() and listen() take a slot that is free.                          *)
LEMMA TakeSettled ==
    ASSUME TypeOK, NotifierApart, FdInv, Settled, NEW t \in load.threads, Connect(t) \/ Listen(t)
    PROVE  Settled'
<1>0. t \in Threads  BY LoadFacts
<1>a. /\ status \in [Slots -> Status] /\ fd \in [Slots -> Fds \cup {NoFd}]
      /\ pc \in [Threads -> {"out", "connect", "listen", "push", "notify"}]
      /\ loc \in [Threads -> [slot : Slots, fd : Fds \cup {NoFd}]]
  BY DEF TypeOK
<1>1. PICK s \in Slots, kind \in {"connect", "listen"}, f \in Fds \cup {NoFd} :
         /\ Take(s, kind)
         /\ status' = [status EXCEPT ![s] = "Reserse"]
         /\ fd' = [fd EXCEPT ![s] = NoFd]
         /\ loc' = [loc EXCEPT ![t] = [slot |-> s, fd |-> f]]
         /\ pc' = [pc EXCEPT ![t] = kind]
         /\ IF kind = "connect" THEN f = NoFd /\ open' = open ELSE open' = open \cup {f}
  <2>1. CASE Connect(t)
    BY <2>1, Constants DEF Connect, kernel
  <2>2. CASE Listen(t)
    <3>1. FreeFds \subseteq Fds  BY FreeFdsFree
    <3> QED  BY <2>2, <3>1 DEF Listen
  <2> QED  BY <2>1, <2>2
<1>2. UNCHANGED <<wbuf, connTimer, queue, epoll, ud, mask>> /\ pc[t] = "out"
  BY DEF Connect, Listen, chan, kernel
<1>3. status[s] = "Idle"  BY <1>1 DEF Take, IsNewSocket
<1>b. TakingInv /\ OwnerInv /\ SlotInv /\ PushersWait /\ QueuedWait /\ OnePusher /\ OneQueued
      /\ PushedOrQueued /\ WaitEnds
  BY DEF Settled, PendingInv
<1>4. fd[s] = NoFd /\ s # Notifier
  BY <1>3, <1>b DEF SlotInv, Polled, NotifierApart
<1>5. \A u \in Threads : /\ pc'[u] = IF u = t THEN kind ELSE pc[u]
                         /\ loc'[u].slot = IF u = t THEN s ELSE loc[u].slot
                         /\ loc'[u].fd = IF u = t THEN f ELSE loc[u].fd
                         /\ loc[u].slot \in Slots
  BY <1>0, <1>1, <1>a
<1>6. \A r \in Slots : status'[r] = IF r = s THEN "Reserse" ELSE status[r]  BY <1>1, <1>a
<1>7. UNCHANGED fd  BY <1>1, <1>4, <1>a
<1>8. TakingInv'
  <2>1. \A u \in Threads : pc[u] \in {"connect", "listen"} => loc[u].slot # s  BY <1>3, <1>b DEF TakingInv
  <2>2. \A u, v \in Threads : pc'[u] \in {"connect", "listen"} /\ pc'[v] \in {"connect", "listen"} /\
                             loc'[u].slot = loc'[v].slot => u = v
    BY <1>5, <1>b, <2>1 DEF TakingInv
  <2>3. \A u \in Threads : pc'[u] \in {"connect", "listen"} => status'[loc'[u].slot] = "Reserse"
    BY <1>5, <1>6, <1>b DEF TakingInv
  <2>4. \A u \in Threads : pc'[u] = "connect" => loc'[u].fd = NoFd
    BY <1>1, <1>5, <1>b DEF TakingInv
  <2>5. \A r \in Slots : status'[r] = "Reserse" =>
          \E u \in Threads : pc'[u] \in {"connect", "listen"} /\ loc'[u].slot = r
    <3> SUFFICES ASSUME NEW r \in Slots, status'[r] = "Reserse"
                 PROVE  \E u \in Threads : pc'[u] \in {"connect", "listen"} /\ loc'[u].slot = r
      OBVIOUS
    <3>1. CASE r = s  BY <1>0, <1>5, <3>1
    <3>2. CASE r # s
      <4>1. PICK u \in Threads : pc[u] \in {"connect", "listen"} /\ loc[u].slot = r
        BY <1>6, <1>b, <3>2 DEF TakingInv
      <4>2. u # t  BY <1>2, <4>1
      <4> QED  BY <1>5, <4>1, <4>2
    <3> QED  BY <3>1, <3>2
  <2> QED  BY <2>2, <2>3, <2>4, <2>5 DEF TakingInv
<1>9. PendingInv'
  <2>1. \A r \in Slots : Awaited(r)' <=> Awaited(r)  BY <1>3, <1>6, <1>7 DEF Awaited
  <2>2. \A u \in Threads : (Pushes(u)' <=> Pushes(u)) /\ (Pushes(u) => loc'[u].slot = loc[u].slot)
    BY <1>2, <1>5 DEF Pushes
  <2>3. PushersWait'  BY <1>5, <1>b, <2>1, <2>2 DEF PushersWait, Awaited, Pushes
  <2>4. QueuedWait'
    <3>1. \A i \in DOMAIN queue : queue[i].id \in Slots
      <4>1. queue \in Seq(Cmds) /\ \A c \in Cmds : c.id \in Slots  BY DEF TypeOK, Cmds
      <4> QED  BY <4>1
    <3> QED  BY <1>2, <1>b, <2>1, <3>1 DEF QueuedWait, Awaited
  <2>5. OnePusher' /\ OneQueued'  BY <1>2, <1>b, <2>2 DEF OnePusher, OneQueued
  <2>6. PushedOrQueued'  BY <1>2, <1>b, <2>2 DEF PushedOrQueued
  <2>7. WaitEnds'  BY <1>2, <1>b, <2>1, <2>2 DEF WaitEnds
  <2> QED  BY <2>3, <2>4, <2>5, <2>6, <2>7 DEF PendingInv
<1>10. OwnerInv'
  <2>1. \A u \in Threads : pc[u] = "listen" => u # t  BY <1>2
  <2>2. CASE kind = "connect"  BY <1>1, <1>5, <1>7, <1>b, <2>1, <2>2 DEF OwnerInv
  <2>3. CASE kind = "listen"  BY <1>0, <1>1, <1>5, <1>7, <1>b, <2>1, <2>3 DEF OwnerInv
  <2> QED  BY <2>2, <2>3
<1>11. SlotInv'
  <2>1. Polled(s)' /\ Streamed(s)' /\ Told(s)'  BY <1>1, <1>2, <1>b, TakeSlot DEF SlotInv
  <2>2. \A r \in Slots \ {s} : Same(r)
    <3>1. \A g \in Fds \ {NoFd} : epoll'[g] = epoll[g] /\ ud'[g] = ud[g]  BY <1>2
    <3> QED  BY <1>1, <1>2, <3>1, TakeOthers
  <2>3. \A r \in Slots \ {s} : Polled(r)' /\ Streamed(r)' /\ (r # Notifier => Told(r)')
    BY <1>b, <2>2, SameSlot DEF SlotInv
  <2> QED  BY <2>1, <2>3 DEF SlotInv
<1> QED  BY <1>8, <1>9, <1>10, <1>11 DEF Settled

(* connect() and listen() fill in the slot that they have reserved.          *)
LEMMA FillSettled ==
    ASSUME TypeOK, NotifierApart, FdInv, Settled, NEW t \in load.threads, FillConnect(t) \/ FillListen(t)
    PROVE  Settled'
<1>0. t \in Threads  BY LoadFacts
<1>a. /\ status \in [Slots -> Status] /\ fd \in [Slots -> Fds \cup {NoFd}]
      /\ pc \in [Threads -> {"out", "connect", "listen", "push", "notify"}]
  BY DEF TypeOK
<1>b. TakingInv /\ OwnerInv /\ SlotInv /\ PushersWait /\ QueuedWait /\ OnePusher /\ OneQueued
      /\ PushedOrQueued /\ WaitEnds
  BY DEF Settled, PendingInv
<1>c. \A u \in Threads : loc[u].slot \in Slots  BY FdTypes
<1>1. PICK s \in Slots : s = loc[t].slot  BY <1>0, <1>c
<1>2. UNCHANGED <<wbuf, connTimer, queue, kernel, loc, born, calls, sent, wire>>
  BY DEF FillConnect, FillListen, chan, hist
<1>3. \/ /\ pc[t] = "connect" /\ loc[t].fd = NoFd /\ fd' = fd
         /\ status' = [status EXCEPT ![s] = "Connecting"]
      \/ /\ pc[t] = "listen" /\ loc[t].fd \in Fds /\ loc[t].fd # NoFd
         /\ fd' = [fd EXCEPT ![s] = loc[t].fd] /\ status' = [status EXCEPT ![s] = "Listen"]
  <2>1. CASE FillConnect(t)  BY <1>0, <1>1, <1>b, <2>1 DEF FillConnect, TakingInv
  <2>2. CASE FillListen(t)
    <3>1. pc[t] = "listen"  BY <2>2 DEF FillListen
    <3>2. loc[t].fd \in Fds /\ loc[t].fd # NoFd  BY <1>0, <3>1, FdTypes DEF FdInv
    <3> QED  BY <1>1, <2>2, <3>1, <3>2 DEF FillListen
  <2> QED  BY <2>1, <2>2
<1>4. status[s] = "Reserse" /\ fd[s] = NoFd /\ s # Notifier /\ pc[t] \in {"connect", "listen"}
  <2>1. pc[t] \in {"connect", "listen"}  BY <1>3
  <2>2. status[s] = "Reserse"  BY <1>0, <1>1, <1>b, <2>1 DEF TakingInv
  <2> QED  BY <1>b, <2>1, <2>2 DEF SlotInv, Polled, NotifierApart
<1>5. \A u \in Threads : pc'[u] = IF u = t THEN "push" ELSE pc[u]
  BY <1>a DEF FillConnect, FillListen
<1>6. \A r \in Slots \ {s} : status'[r] = status[r] /\ fd'[r] = fd[r]  BY <1>3, <1>a
<1>7. status'[s] \in {"Connecting", "Listen"}  BY <1>3, <1>a
<1>8. TakingInv'
  <2>1. \A u \in Threads : u # t /\ pc[u] \in {"connect", "listen"} => loc[u].slot # s
    BY <1>0, <1>1, <1>4, <1>b DEF TakingInv
  <2>2. \A u, v \in Threads : pc'[u] \in {"connect", "listen"} /\ pc'[v] \in {"connect", "listen"} /\
                             loc'[u].slot = loc'[v].slot => u = v
    BY <1>2, <1>5, <1>b DEF TakingInv
  <2>3. \A u \in Threads : pc'[u] \in {"connect", "listen"} => status'[loc'[u].slot] = "Reserse"
    BY <1>2, <1>5, <1>6, <1>b, <1>c, <2>1 DEF TakingInv
  <2>4. \A u \in Threads : pc'[u] = "connect" => loc'[u].fd = NoFd
    BY <1>2, <1>5, <1>b DEF TakingInv
  <2>5. \A r \in Slots : status'[r] = "Reserse" =>
          \E u \in Threads : pc'[u] \in {"connect", "listen"} /\ loc'[u].slot = r
    <3> SUFFICES ASSUME NEW r \in Slots, status'[r] = "Reserse"
                 PROVE  \E u \in Threads : pc'[u] \in {"connect", "listen"} /\ loc'[u].slot = r
      OBVIOUS
    <3>1. r # s  BY <1>7
    <3>2. PICK u \in Threads : pc[u] \in {"connect", "listen"} /\ loc[u].slot = r
      BY <1>6, <1>b, <3>1 DEF TakingInv
    <3>3. u # t  BY <1>1, <3>1, <3>2
    <3> QED  BY <1>2, <1>5, <3>2, <3>3
  <2> QED  BY <2>2, <2>3, <2>4, <2>5 DEF TakingInv
<1>9. PendingInv'
  <2>1. \A r \in Slots \ {s} : Awaited(r)' <=> Awaited(r)  BY <1>6 DEF Awaited
  <2>2. ~Awaited(s) /\ (Awaited(s)' <=> Pushes(t)')
    <3>1. ~Awaited(s)  BY <1>4 DEF Awaited
    <3>2. Pushes(t)' <=> loc[t].fd = NoFd  BY <1>0, <1>2, <1>5 DEF Pushes
    <3>3. Awaited(s)' <=> loc[t].fd = NoFd
      <4>1. CASE loc[t].fd = NoFd
        <5>1. status'[s] = "Connecting" /\ fd'[s] = NoFd  BY <1>3, <1>4, <1>a, <4>1
        <5> QED  BY <4>1, <5>1 DEF Awaited
      <4>2. CASE loc[t].fd # NoFd
        <5>1. status'[s] = "Listen"  BY <1>3, <1>a, <4>2
        <5> QED  BY <4>2, <5>1 DEF Awaited
      <4> QED  BY <4>1, <4>2
    <3> QED  BY <3>1, <3>2, <3>3
  <2>3. \A u \in Threads : u # t => (Pushes(u)' <=> Pushes(u))  BY <1>2, <1>5 DEF Pushes
  <2>4. ~Pushes(t)  BY <1>4 DEF Pushes
  <2>5. \A u \in Threads : Pushes(u) => loc[u].slot # s  BY <1>b, <2>2 DEF PushersWait
  <2>6. \A i \in DOMAIN queue : queue[i].type = "Connect" => queue[i].id # s /\ queue[i].id \in Slots
    <3>1. queue \in Seq(Cmds) /\ \A c \in Cmds : c.id \in Slots  BY DEF TypeOK, Cmds
    <3> QED  BY <1>b, <2>2, <3>1 DEF QueuedWait
  <2>7. PushersWait'
    <3>1. \A u \in Threads : Pushes(u)' => Awaited(loc[u].slot)'
      <4> SUFFICES ASSUME NEW u \in Threads, Pushes(u)'  PROVE Awaited(loc[u].slot)'
        OBVIOUS
      <4>1. PICK r \in Slots : r = loc[u].slot  BY <1>c
      <4>2. Awaited(r)'
        <5>1. CASE u = t  BY <1>1, <2>2, <4>1, <5>1
        <5>2. CASE u # t
          <6>1. Pushes(u) /\ r # s /\ Awaited(r)  BY <1>b, <2>3, <2>5, <4>1, <5>2 DEF PushersWait
          <6> QED  BY <2>1, <6>1
        <5> QED  BY <5>1, <5>2
      <4> QED  BY <1>2, <4>1, <4>2 DEF Awaited
    <3> QED  BY <3>1 DEF PushersWait
  <2>8. QueuedWait'  BY <1>2, <1>b, <2>1, <2>6 DEF QueuedWait, Awaited
  <2>9. OnePusher'
    BY <1>0, <1>1, <1>2, <1>b, <2>3, <2>5 DEF OnePusher
  <2>10. OneQueued'  BY <1>2, <1>b DEF OneQueued
  <2>11. PushedOrQueued'
    BY <1>1, <1>2, <1>b, <2>3, <2>6 DEF PushedOrQueued
  <2>12. WaitEnds'
    <3> SUFFICES ASSUME NEW r \in Slots, Awaited(r)'
                 PROVE  \/ \E u \in Threads : Pushes(u)' /\ loc'[u].slot = r
                        \/ \E i \in DOMAIN queue' : queue'[i].type = "Connect" /\ queue'[i].id = r
      BY DEF WaitEnds
    <3>1. CASE r = s  BY <1>0, <1>1, <1>2, <2>2, <3>1
    <3>2. CASE r # s
      <4>1. Awaited(r)  BY <2>1, <3>2
      <4>2. CASE \E u \in Threads : Pushes(u) /\ loc[u].slot = r  BY <1>2, <2>3, <2>4, <4>2
      <4>3. CASE \E i \in DOMAIN queue : queue[i].type = "Connect" /\ queue[i].id = r  BY <1>2, <4>3
      <4> QED  BY <1>b, <4>1, <4>2, <4>3 DEF WaitEnds
    <3> QED  BY <3>1, <3>2
  <2> QED  BY <2>7, <2>8, <2>9, <2>10, <2>11, <2>12 DEF PendingInv
<1>10. OwnerInv'
  <2>1. \A r \in Slots : fd[r] # NoFd => fd'[r] = fd[r]  BY <1>4, <1>6
  <2>2. pc[t] = "listen" => fd'[s] = loc[t].fd  BY <1>3, <1>a
  <2>3. NoFd \notin open /\ UNCHANGED open  BY <1>2, FdTypes DEF kernel
  <2> QED  BY <1>2, <1>5, <1>b, <2>1, <2>2, <2>3 DEF OwnerInv
<1>11. SlotInv'
  <2>1. Polled(s)' /\ Streamed(s)' /\ Told(s)'
    <3>1. wbuf[s] = <<>> /\ sent[s] = <<>> /\ wire[s] = <<>> /\ calls[s] = <<>>
      BY <1>4, <1>b DEF SlotInv, Streamed, Told
    <3>2. IF status'[s] = "Connecting" THEN fd'[s] = NoFd ELSE fd'[s] # NoFd  BY <1>3, <1>4, <1>a
    <3> QED  BY <1>2, <1>7, <3>1, <3>2 DEF Polled, Streamed, Told
  <2>2. \A r \in Slots \ {s} : Same(r)  BY <1>2, <1>6 DEF Same, kernel
  <2>3. \A r \in Slots \ {s} : Polled(r)' /\ Streamed(r)' /\ (r # Notifier => Told(r)')
    BY <1>b, <2>2, SameSlot DEF SlotInv
  <2> QED  BY <2>1, <2>3 DEF SlotInv
<1> QED  BY <1>8, <1>9, <1>10, <1>11 DEF Settled

(* pushCmd().                                                                *)
LEMMA PushSettled ==
    ASSUME TypeOK, NotifierApart, FdInv, Settled, NEW t \in load.threads,
           Push(t) \/ SendCall(t) \/ CloseCall(t) \/ Notify(t)
    PROVE  Settled'
<1>0. t \in Threads /\ queue \in Seq(Cmds)  BY LoadFacts DEF TypeOK
<1>a. /\ pc \in [Threads -> {"out", "connect", "listen", "push", "notify"}]
      /\ loc \in [Threads -> [slot : Slots, fd : Fds \cup {NoFd}]]
  BY DEF TypeOK
<1>b. TakingInv /\ OwnerInv /\ SlotInv /\ PushersWait /\ QueuedWait /\ OnePusher /\ OneQueued
      /\ PushedOrQueued /\ WaitEnds
  BY DEF Settled, PendingInv
<1>c. UNCHANGED <<pool, kernel, born, calls, sent, wire>>
  BY DEF Push, SendCall, CloseCall, Notify, hist
<1>1. \A u \in Threads : u # t => pc'[u] = pc[u] /\ loc'[u] = loc[u]
  BY <1>a DEF Push, SendCall, CloseCall, Notify
<1>2. pc[t] \in {"out", "push", "notify"} /\ pc'[t] \in {"out", "notify"}
  BY <1>0, <1>a DEF Push, SendCall, CloseCall, Notify
<1>3. TakingInv'
  <2>1. \A u \in Threads : pc'[u] \in {"connect", "listen"} \/ pc[u] \in {"connect", "listen"} =>
           pc'[u] = pc[u] /\ loc'[u] = loc[u]
    BY <1>1, <1>2
  <2>2. UNCHANGED status  BY <1>c DEF pool
  <2> QED  BY <1>b, <2>1, <2>2 DEF TakingInv
<1>4. OwnerInv'
  <2>1. \A u \in Threads : pc[u] = "listen" => pc'[u] = "listen" /\ loc'[u] = loc[u]  BY <1>1, <1>2
  <2> QED  BY <1>b, <1>c, <2>1 DEF OwnerInv, pool, kernel
<1>5. SlotInv'
  <2>1. \A r \in Slots : Same(r)  BY <1>c DEF Same, pool, kernel
  <2> QED  BY <1>b, <2>1, SameSlot DEF SlotInv
<1>6. PendingInv'
  <2>1. \A r \in Slots : Awaited(r)' <=> Awaited(r)  BY <1>c DEF pool, Awaited
  <2>2. ~Pushes(t)' /\ \A u \in Threads : u # t => (Pushes(u)' <=> Pushes(u))
    BY <1>1, <1>2 DEF Pushes
  <2>3. \A u \in Threads : loc[u].slot \in Slots  BY FdTypes
  <2>4. PushersWait'
    BY <1>1, <1>b, <2>1, <2>2, <2>3 DEF PushersWait, Awaited, Pushes
  <2>5. OnePusher'  BY <1>1, <1>b, <2>2 DEF OnePusher
  <2>6. \A i \in DOMAIN queue : queue[i].id \in Slots
    <3>1. \A c \in Cmds : c.id \in Slots  BY DEF Cmds
    <3> QED  BY <1>0, <3>1
  <2>7. CASE Push(t) /\ loc[t].fd = NoFd
    <3>1. PICK s \in Slots : s = loc[t].slot  BY <1>0, <2>3
    <3> DEFINE c == Command("Connect", s, 0, 0)
    <3>2. c \in Cmds /\ c.type = "Connect" /\ c.id = s  BY DEF Command, Cmds
    <3>3. queue' = Append(queue, c)  BY <2>7, <3>1 DEF Push
    <3> HIDE DEF c
    <3>4. Pushes(t) /\ Awaited(s)  BY <1>0, <1>b, <2>7, <3>1 DEF Push, Pushes, PushersWait
    <3>5. /\ Len(queue) + 1 \in DOMAIN queue' /\ queue'[Len(queue) + 1] = c
          /\ \A i \in DOMAIN queue : i \in DOMAIN queue' /\ queue'[i] = queue[i]
      <4>1. Len(queue) \in Nat /\ DOMAIN queue = 1 .. Len(queue)  BY <1>0
      <4> QED  BY <1>0, <3>2, <3>3, <4>1, AppendFacts
    <3>6. \A i \in DOMAIN queue' : \/ i \in DOMAIN queue /\ queue'[i] = queue[i]
                                   \/ i = Len(queue) + 1 /\ i \notin DOMAIN queue /\ queue'[i] = c
      BY <1>0, <3>2, <3>3, ElementOfAppend
    <3>7. \A i \in DOMAIN queue : queue[i].type = "Connect" => queue[i].id # s
      BY <1>0, <1>b, <3>1, <3>4 DEF PushedOrQueued
    <3>8. QueuedWait'
      BY <1>b, <2>1, <2>6, <3>2, <3>4, <3>6 DEF QueuedWait, Awaited
    <3>9. OneQueued'  BY <1>b, <3>2, <3>6, <3>7 DEF OneQueued
    <3>10. PushedOrQueued'
      <4>1. \A u \in Threads : u # t /\ Pushes(u) => loc[u].slot # s
        BY <1>0, <1>b, <3>1, <3>4 DEF OnePusher
      <4> QED  BY <1>1, <1>b, <2>2, <3>2, <3>6, <4>1 DEF PushedOrQueued
    <3>11. WaitEnds'
      <4> SUFFICES ASSUME NEW r \in Slots, Awaited(r)'
                   PROVE  \/ \E u \in Threads : Pushes(u)' /\ loc'[u].slot = r
                          \/ \E i \in DOMAIN queue' : queue'[i].type = "Connect" /\ queue'[i].id = r
        BY DEF WaitEnds
      <4>1. CASE r = s  BY <3>2, <3>5, <4>1
      <4>2. CASE r # s  BY <1>1, <1>b, <2>1, <2>2, <3>1, <3>5, <4>2 DEF WaitEnds
      <4> QED  BY <4>1, <4>2
    <3> QED  BY <2>4, <2>5, <3>8, <3>9, <3>10, <3>11 DEF PendingInv
  <2>8. CASE ~(Push(t) /\ loc[t].fd = NoFd)
    <3>1. ~Pushes(t)  BY <2>8 DEF Pushes, Push, SendCall, CloseCall, Notify
    <3>2. queue' = queue \/ \E c \in Cmds : c.type # "Connect" /\ queue' = Append(queue, c)
      <4>1. CASE Push(t)
        <5>1. loc[t].slot \in Slots  BY <1>0, <2>3
        <5> QED  BY <2>8, <4>1, <5>1 DEF Push, Command, Cmds
      <4>2. CASE SendCall(t) \/ CloseCall(t)
        <5>1. PICK b \in DOMAIN births, ty \in {"Send", "Close"}, n \in Nat, len \in Nat :
                 queue' = Append(queue, Command(ty, births[b].slot, n, len))
          BY <4>2, LoadFacts DEF SendCall, CloseCall
        <5>2. births[b].slot \in Slots  BY BirthTypes
        <5> QED  BY <5>1, <5>2 DEF Command, Cmds
      <4>3. CASE Notify(t)  BY <4>3 DEF Notify
      <4> QED  BY <4>1, <4>2, <4>3
    <3>3. \A i \in DOMAIN queue : i \in DOMAIN queue' /\ queue'[i] = queue[i]
      <4>1. CASE queue' = queue  BY <4>1
      <4>2. ASSUME NEW c \in Cmds, queue' = Append(queue, c)
            PROVE  \A i \in DOMAIN queue : i \in DOMAIN queue' /\ queue'[i] = queue[i]
        <5>1. Len(queue) \in Nat /\ DOMAIN queue = 1 .. Len(queue)  BY <1>0
        <5> QED  BY <1>0, <4>2, <5>1, AppendFacts
      <4> QED  BY <3>2, <4>1, <4>2
    <3>4. \A i \in DOMAIN queue' : queue'[i].type = "Connect" => i \in DOMAIN queue /\ queue'[i] = queue[i]
      BY <1>0, <3>2, ElementOfAppend
    <3>5. QueuedWait'  BY <1>b, <2>1, <2>6, <3>4 DEF QueuedWait, Awaited
    <3>6. OneQueued'  BY <1>b, <3>4 DEF OneQueued
    <3>7. PushedOrQueued'  BY <1>1, <1>b, <2>2, <3>4 DEF PushedOrQueued
    <3>8. WaitEnds'  BY <1>1, <1>b, <2>1, <2>2, <3>1, <3>3 DEF WaitEnds
    <3> QED  BY <2>4, <2>5, <3>5, <3>6, <3>7, <3>8 DEF PendingInv
  <2> QED  BY <2>7, <2>8
<1> QED  BY <1>3, <1>4, <1>5, <1>6 DEF Settled

-----------------------------------------------------------------------------
(* The loop, for any workload.                                               *)
LoopInv == WakeInv /\ FdInv /\ (~early => Settled)

(* It holds at the start, ...                                                *)
LEMMA LoopInit == Init => LoopInv
<1> SUFFICES ASSUME Init  PROVE LoopInv
  OBVIOUS
<1>0. DOMAIN queue = {} /\ \A t \in Threads : pc[t] = "out"  BY DEF Init
<1>1. FdInv  BY DEF Init, FdInv
<1>2. TakingInv  BY DEF Init, TakingInv
<1>3. \A s \in Slots : ~Awaited(s)  BY DEF Init, Awaited
<1>4. PushersWait /\ QueuedWait /\ OnePusher /\ OneQueued /\ PushedOrQueued /\ WaitEnds
  BY <1>0, <1>3 DEF PushersWait, QueuedWait, OnePusher, OneQueued, PushedOrQueued, WaitEnds, Pushes
<1>5. OwnerInv  BY DEF Init, OwnerInv
<1>6. SlotInv
  <2> SUFFICES ASSUME NEW s \in Slots  PROVE Polled(s) /\ Streamed(s) /\ (s # Notifier => Told(s))
    BY DEF SlotInv
  <2>1. /\ status[s] = IF s = Notifier THEN "Listen" ELSE "Idle"
        /\ fd[s] = NoFd /\ wbuf[s] = <<>> /\ calls[s] = <<>> /\ born[s] = 0
    BY DEF Init
  <2> QED  BY <2>1 DEF Polled, Streamed, Told
<1> QED  BY <1>1, <1>2, <1>4, <1>5, <1>6, WakeInit DEF LoopInv, Settled, PendingInv

(* ... and every step keeps it.                                              *)
LEMMA LoopNext == LoopInv /\ [Next]_vars => LoopInv'
<1> SUFFICES ASSUME LoopInv, [Next]_vars  PROVE LoopInv'
  OBVIOUS
<1>0. TypeOK /\ NotifierApart /\ FdInv /\ (~early => Settled) /\ WakeInv'
  BY WakeNext DEF LoopInv, WakeInv
<1>1. CASE Next
  <2>1. FdInv'  BY <1>0, <1>1, FdStep
  <2>2. ASSUME ~early'  PROVE Settled'
    <3>1. CASE NetAct
      <4>1. Settled  BY <1>0, <2>2, <3>1, NetEarly
      <4> QED  BY <1>0, <2>2, <3>1, <4>1, NetSlots, NetPending, NetOwners DEF Settled
    <3>2. ASSUME NEW t \in load.threads,
                 \/ Connect(t) \/ Listen(t) \/ FillConnect(t) \/ FillListen(t)
                 \/ Push(t) \/ SendCall(t) \/ CloseCall(t) \/ Notify(t)
          PROVE  Settled'
      <4>1. UNCHANGED early
        BY <3>2 DEF Connect, Listen, FillConnect, FillListen, Push, SendCall, CloseCall, Notify, hist
      <4> QED  BY <1>0, <2>2, <3>2, <4>1, TakeSettled, FillSettled, PushSettled
    <3> QED  BY <1>1, <3>1, <3>2 DEF Next, NetAct, Return
  <2> QED  BY <1>0, <2>1, <2>2 DEF LoopInv
<1>2. CASE UNCHANGED vars
  <2>1. FdInv'  BY <1>0, <1>2 DEF FdInv, vars, pool, kernel, app
  <2>2. ASSUME ~early'  PROVE Settled'
    <3>1. Settled  BY <1>0, <1>2, <2>2 DEF vars, hist
    <3>2. UNCHANGED <<status, fd, wbuf, connTimer, queue, open, epoll, ud, mask, pc, loc, born, calls, sent, wire>>
      BY <1>2 DEF vars, pool, chan, kernel, app, hist
    <3>3. TakingInv'  BY <3>1, <3>2 DEF Settled, TakingInv
    <3>4. PendingInv'
      BY <3>1, <3>2 DEF Settled, PendingInv, PushersWait, QueuedWait, OnePusher, OneQueued, PushedOrQueued,
                        WaitEnds, Awaited, Pushes
    <3>5. OwnerInv'  BY <3>1, <3>2 DEF Settled, OwnerInv
    <3>6. SlotInv'
      <4>1. \A r \in Slots : Same(r)  BY <3>2 DEF Same
      <4> QED  BY <3>1, <4>1, SameSlot DEF Settled, SlotInv
    <3> QED  BY <3>3, <3>4, <3>5, <3>6 DEF Settled
  <2> QED  BY <1>0, <2>1, <2>2 DEF LoopInv
<1> QED  BY <1>1, <1>2

(* The slots, their descriptors, their buffers and their handlers stay in    *)
(* order until a socket is closed early.                                     *)
THEOREM LoopInvariance == Spec => []LoopInv
BY LoopInit, LoopNext, PTL DEF Spec

-----------------------------------------------------------------------------
(* One user for each slot.                                                   *)
LEMMA OneUser == TypeOK /\ Settled => SlotHasOneUser
<1> SUFFICES ASSUME TypeOK, Settled, NEW s \in Slots
             PROVE  /\ Cardinality(Taking(s)) = IF status[s] = "Reserse" THEN 1 ELSE 0
                    /\ Cardinality(Pending(s)) =
                          IF status[s] = "Connecting" /\ fd[s] = NoFd THEN 1 ELSE 0
  BY DEF SlotHasOneUser
<1>a. TakingInv /\ PushersWait /\ QueuedWait /\ OnePusher /\ OneQueued /\ PushedOrQueued /\ WaitEnds
  BY DEF Settled, PendingInv
<1>1. Cardinality(Taking(s)) = IF status[s] = "Reserse" THEN 1 ELSE 0
  <2>1. CASE status[s] = "Reserse"
    <3>1. PICK t \in Threads : pc[t] \in {"connect", "listen"} /\ loc[t].slot = s
      BY <1>a, <2>1 DEF TakingInv
    <3>2. Taking(s) = {t}  BY <1>a, <3>1 DEF TakingInv, Taking
    <3> QED  BY <2>1, <3>2, FS_Singleton
  <2>2. CASE status[s] # "Reserse"
    <3>1. Taking(s) = {}  BY <1>a, <2>2 DEF TakingInv, Taking
    <3> QED  BY <2>2, <3>1, FS_EmptySet
  <2> QED  BY <2>1, <2>2
<1>2. Cardinality(Pending(s)) = IF status[s] = "Connecting" /\ fd[s] = NoFd THEN 1 ELSE 0
  <2>0. Pending(s) = {t \in Threads : Pushes(t) /\ loc[t].slot = s} \cup
                     {i \in DOMAIN queue : queue[i].type = "Connect" /\ queue[i].id = s}
    <3>1. \A x \in [slot : Slots, fd : Fds \cup {NoFd}] :
             x = [slot |-> s, fd |-> NoFd] <=> x.fd = NoFd /\ x.slot = s
      OBVIOUS
    <3>2. \A t \in Threads : loc[t] \in [slot : Slots, fd : Fds \cup {NoFd}]
      BY DEF TypeOK
    <3>3. \A t \in Threads : loc[t] = [slot |-> s, fd |-> NoFd] <=> loc[t].fd = NoFd /\ loc[t].slot = s
      BY <3>1, <3>2
    <3> QED  BY <3>3 DEF Pending, Pushes
  <2>1. CASE Awaited(s)
    <3>1. CASE \E t \in Threads : Pushes(t) /\ loc[t].slot = s
      <4>1. PICK t \in Threads : Pushes(t) /\ loc[t].slot = s  BY <3>1
      <4>2. {u \in Threads : Pushes(u) /\ loc[u].slot = s} = {t}  BY <1>a, <4>1 DEF OnePusher
      <4>3. {i \in DOMAIN queue : queue[i].type = "Connect" /\ queue[i].id = s} = {}
        BY <1>a, <4>1 DEF PushedOrQueued
      <4>4. Pending(s) = {t}  BY <2>0, <4>2, <4>3
      <4> QED  BY <2>1, <4>4, FS_Singleton DEF Awaited
    <3>2. CASE ~\E t \in Threads : Pushes(t) /\ loc[t].slot = s
      <4>1. PICK i \in DOMAIN queue : queue[i].type = "Connect" /\ queue[i].id = s
        BY <1>a, <2>1, <3>2 DEF WaitEnds
      <4>2. {j \in DOMAIN queue : queue[j].type = "Connect" /\ queue[j].id = s} = {i}
        BY <1>a, <4>1 DEF OneQueued
      <4>3. {t \in Threads : Pushes(t) /\ loc[t].slot = s} = {}  BY <3>2
      <4>4. Pending(s) = {i}  BY <2>0, <4>2, <4>3
      <4> QED  BY <2>1, <4>4, FS_Singleton DEF Awaited
    <3> QED  BY <3>1, <3>2
  <2>2. CASE ~Awaited(s)
    <3>1. \A t \in Threads : ~(Pushes(t) /\ loc[t].slot = s)  BY <1>a, <2>2 DEF PushersWait
    <3>2. \A i \in DOMAIN queue : ~(queue[i].type = "Connect" /\ queue[i].id = s)
      BY <1>a, <2>2 DEF QueuedWait
    <3>3. Pending(s) = {}  BY <2>0, <3>1, <3>2
    <3> QED  BY <2>2, <3>3, FS_EmptySet DEF Awaited
  <2> QED  BY <2>1, <2>2
<1> QED  BY <1>1, <1>2

(* One owner for each descriptor.                                            *)
LEMMA OneOwner == TypeOK /\ FdInv /\ Settled => FdHasOneOwner
<1> SUFFICES ASSUME TypeOK, FdInv, Settled, NEW f \in open
             PROVE  Cardinality({s \in Slots : fd[s] = f /\ InUse(s)} \cup
                                {t \in Threads : pc[t] = "listen" /\ loc[t].fd = f}) = 1
  BY DEF FdHasOneOwner
<1> DEFINE S == {s \in Slots : fd[s] = f /\ InUse(s)}
           T == {t \in Threads : pc[t] = "listen" /\ loc[t].fd = f}
<1>0. f # NoFd  BY FdTypes
<1>1. CASE \E s \in Slots : fd[s] = f
  <2>1. PICK s \in Slots : fd[s] = f  BY <1>1
  <2>2. InUse(s)  BY <1>0, <2>1 DEF Settled, SlotInv, Polled, InUse
  <2>3. S = {s}  BY <1>0, <2>1, <2>2 DEF FdInv
  <2>4. T = {}  BY <2>1 DEF FdInv
  <2>5. S \cup T = {s}  BY <2>3, <2>4
  <2> QED  BY <2>5, FS_Singleton
<1>2. CASE ~\E s \in Slots : fd[s] = f
  <2>1. PICK t \in Threads : pc[t] = "listen" /\ loc[t].fd = f  BY <1>2 DEF Settled, OwnerInv
  <2>2. T = {t}  BY <2>1 DEF FdInv
  <2>3. S = {}  BY <1>2
  <2>4. S \cup T = {t}  BY <2>2, <2>3
  <2> QED  BY <2>4, FS_Singleton
<1> QED  BY <1>1, <1>2

(* What a handler heard.                                                     *)
LEMMA CallsInOrder == TypeOK /\ Settled => CallbackOrder
<1> SUFFICES ASSUME TypeOK, Settled, NEW s \in Slots \ {Notifier}
             PROVE  /\ \A i \in DOMAIN calls[s] :
                          /\ calls[s][i] \in {"onAccept", "onConnect"} => i = 1
                          /\ calls[s][i] = "onPacket" => i > 1
                          /\ calls[s][i] = "onClose" => i = Len(calls[s]) /\ status[s] = "Idle"
                    /\ status[s] = "Connected" => calls[s] # <<>>
                    /\ status[s] = "Idle" /\ born[s] # 0 =>
                          calls[s] # <<>> /\ calls[s][Len(calls[s])] = "onClose"
  BY DEF CallbackOrder
<1> DEFINE c == calls[s]
<1>0. Told(s) /\ status[s] \in Status /\ c \in Seq(Callbacks)  BY DEF Settled, SlotInv, TypeOK
<1>1. ASSUME NEW d \in Seq(Callbacks), OpenCalls(d)
      PROVE  /\ d # <<>>
             /\ \A i \in DOMAIN d : /\ d[i] \in {"onAccept", "onConnect"} => i = 1
                                    /\ d[i] = "onPacket" => i > 1
                                    /\ d[i] # "onClose"
  <2>1. Len(d) \in Nat /\ DOMAIN d = 1 .. Len(d)  OBVIOUS
  <2>2. \A i \in DOMAIN d : i = 1 \/ i > 1  BY <2>1
  <2> QED  BY <1>1, <2>2 DEF OpenCalls
<1>2. CASE status[s] = "Connected"
  <2>1. OpenCalls(c)  BY <1>0, <1>2 DEF Told
  <2> HIDE DEF c
  <2>2. /\ c # <<>>
        /\ \A i \in DOMAIN c : /\ c[i] \in {"onAccept", "onConnect"} => i = 1
                               /\ c[i] = "onPacket" => i > 1
                               /\ c[i] # "onClose"
    BY <1>0, <1>1, <2>1
  <2> QED  BY <1>2, <2>2 DEF c
<1>3. CASE c = <<>>
  <2>1. status[s] # "Connected"  BY <1>0, <1>3 DEF Told, OpenCalls
  <2>2. ~(status[s] = "Idle" /\ born[s] # 0)
    <3>1. ~ClosedCalls(<<>>)
      <4>1. "onClose" \in Callbacks  BY DEF Callbacks
      <4>2. \A d \in Seq(Callbacks) : Append(d, "onClose") # <<>>
        <5> SUFFICES ASSUME NEW d \in Seq(Callbacks)  PROVE Append(d, "onClose") # <<>>
          OBVIOUS
        <5>1. Len(Append(d, "onClose")) = Len(d) + 1 /\ Len(d) \in Nat  BY <4>1, AppendFacts
        <5>2. Len(Append(d, "onClose")) # 0  BY <5>1
        <5> QED  BY <5>2
      <4> QED  BY <4>2 DEF ClosedCalls
    <3> QED  BY <1>0, <1>3, <3>1 DEF Told
  <2> QED  BY <1>3, <2>1, <2>2
<1>4. CASE status[s] = "Idle" /\ ClosedCalls(c)
  <2>1. PICK d \in Seq(Callbacks) : (d = <<>> \/ OpenCalls(d)) /\ c = Append(d, "onClose")
    BY <1>4 DEF ClosedCalls
  <2> HIDE DEF c
  <2>2. "onClose" \in Callbacks  BY DEF Callbacks
  <2>3. Len(c) = Len(d) + 1 /\ Len(d) \in Nat /\ c[Len(c)] = "onClose"  BY <2>1, <2>2, AppendFacts
  <2>4. c # <<>>  BY <2>3
  <2>5. \A i \in DOMAIN c : (i \in DOMAIN d /\ c[i] = d[i]) \/ (i = Len(c) /\ c[i] = "onClose")
    BY <2>1, <2>2, <2>3, ElementOfAppend
  <2>6. \A i \in DOMAIN d : /\ d[i] \in {"onAccept", "onConnect"} => i = 1
                            /\ d[i] = "onPacket" => i > 1
                            /\ d[i] # "onClose"
    BY <1>1, <2>1
  <2>7. \A i \in DOMAIN c : /\ c[i] \in {"onAccept", "onConnect"} => i = 1
                            /\ c[i] = "onPacket" => i > 1
                            /\ c[i] = "onClose" => i = Len(c)
    BY <2>5, <2>6
  <2> QED  BY <1>4, <2>3, <2>4, <2>7 DEF c
<1>5. \/ status[s] = "Connected" \/ c = <<>> \/ (status[s] = "Idle" /\ ClosedCalls(c))
  BY <1>0 DEF Told, Status
<1> QED  BY <1>2, <1>3, <1>4, <1>5

(* A slot has one user and a descriptor one owner; epoll watches what the    *)
(* loop waits for; the peer gets what send() was asked for, in order; and a  *)
(* handler hears of each use of a slot in order.  All this for any number of *)
(* threads, slots and descriptors and any workload, as long as no socket was *)
(* closed between its connect() and the Connect command.                     *)
THEOREM SlotsInOrder ==
    Spec => [](SlotHasOneUser /\ FdHasOneOwner /\ Armed /\ StreamIsWhole /\ CallbackOrder)
<1>1. ASSUME LoopInv
      PROVE  SlotHasOneUser /\ FdHasOneOwner /\ Armed /\ StreamIsWhole /\ CallbackOrder
  <2>1. TypeOK /\ FdInv  BY <1>1 DEF LoopInv, WakeInv
  <2>2. CASE early
    BY <2>2 DEF SlotHasOneUser, FdHasOneOwner, Armed, StreamIsWhole, CallbackOrder
  <2>3. CASE ~early
    <3>1. Settled  BY <1>1, <2>3 DEF LoopInv
    <3>2. Armed  BY <2>1, <3>1 DEF Settled, SlotInv, Polled, FdInv, Armed
    <3>3. StreamIsWhole  BY <3>1 DEF Settled, SlotInv, Streamed, StreamIsWhole
    <3> QED  BY <2>1, <3>1, <3>2, <3>3, OneUser, OneOwner, CallsInOrder
  <2> QED  BY <2>2, <2>3
<1> QED  BY <1>1, LoopInvariance, PTL

(* The loop keeps its sockets apart, when the application leaves its         *)
(* listeners open: SlotsInOrder, and handleAccept() is for listeners.        *)
THEOREM SocketsStayApart == KeepsListeners /\ Spec => []SocketsApart
<1>1. WakeInv => TypeOK  BY DEF WakeInv
<1>2. SlotHasOneUser /\ FdHasOneOwner /\ TypeOK /\ AcceptsOnListener => SocketsApart  BY DEF SocketsApart
<1> QED  BY <1>1, <1>2, WakeInvariance, SlotsInOrder, BacklogsAreSeen, PTL

(* Epoll keeps watching what the loop waits for: a connected socket for      *)
(* reading, and for writing while it has bytes to write, whoever held its    *)
(* descriptor's number before.                                               *)
THEOREM EpollWatches == Spec => []Armed
BY SlotsInOrder, PTL

(* The peer gets what send() was asked for, in order and nothing else, by    *)
(* whatever mixture of full, partial and refused writes.                     *)
THEOREM PeerGetsAll == Spec => []StreamIsWhole
BY SlotsInOrder, PTL

(* A handler hears onAccept() or onConnect() first, then packets, and        *)
(* onClose() last, in each use of a slot.                                    *)
THEOREM HandlersHearInOrder == Spec => []CallbackOrder
BY SlotsInOrder, PTL
=============================================================================
