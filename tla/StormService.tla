---------------------------- MODULE StormService ----------------------------
(* The server side of a service.  StormListener, called by the net thread,   *)
(* admits connections, times them out and hands on what happens: to the      *)
(* service itself if that runs in the net thread, or to a queue (LockQueue)  *)
(* that the main loop or threads of their own empty.  A service answers a    *)
(* request with commands to the loop.  The main thread ends the services.    *)
(*                                                                           *)
(* An operator BadX is a faulty variant of X that the specification does not *)
(* use: it serves to see the property that guards against the slip fail.     *)
EXTENDS Integers, Sequences, FiniteSets

CONSTANTS
    Ids,             \* connection ids: slots of the SocketLoop, used again and again
    Workers,         \* the service objects that empty the queue
    MaxConnections,  \* ServiceConfig::maxConnections
    MaxQueueLen,     \* ServiceConfig::maxQueueLen
    Loads            \* what the server meets, one of several workloads:
                     \*   run: ServiceConfig::runThread, "Net", "Main" or "Extra"
                     \*   ids, workers: the ids given to connections, the services there are
                     \*   accepts, packets: bounds, connections and packets in all
                     \*   replies: what a request makes the service do (see Commands)
                     \*   stops: the server is stopped at some time

ASSUME ServiceAssumption ==
    /\ MaxConnections \in Nat /\ MaxQueueLen \in Nat /\ IsFiniteSet(Workers)
    /\ \A l \in Loads :
          /\ l.ids \subseteq Ids /\ l.workers \subseteq Workers
          /\ l.run = "Net" <=> l.workers = {}
          /\ l.run = "Main" => \E w \in Workers : l.workers = {w}
          /\ l.run \in {"Net", "Main", "Extra"}
          /\ l.accepts \in Nat /\ l.packets \in Nat /\ l.stops \in BOOLEAN
          /\ l.replies \subseteq {"none", "close", "answer", "bye"}

VARIABLES
    \* the net thread
    open,       \* accepted sockets that are not closed
    conList,    \* m_conList: connections without a packet so far
    timelist,   \* m_timelist: connections with one
    cmds,       \* Send and Close commands on their way to the loop
    queue,      \* m_queue
    \* the services
    running,    \* m_running of each (g_running for the main loop)
    wpc, hand,  \* where each is, and the packet it handles
    life,       \* neither init() nor destroy() was called, or the one, or both
    \* the main thread in terminateService()
    mpc, stopping, left,
    load,       \* the workload
    \* history
    accepts, packets,
    rejected,   \* the present use of the id is one that onAccept() refused
    told,       \* the ids whose onAccept() the service has heard
    answered    \* the requests whose answers the present use of the id was sent

lists == <<conList, timelist>>
work == <<running, hand, life>>
main == <<mpc, stopping, left, load>>
hist == <<accepts, packets, rejected, answered>>
vars == <<open, lists, cmds, queue, wpc, work, main, hist, told>>

Packets == [type : {"Accept", "Packet", "Close"}, id : Ids, rej : BOOLEAN, n : Nat]
Cmds == [type : {"Send", "Close"}, id : Ids, n : Nat]
None == [type |-> "none"]
Nobody == "nobody"

TypeOK ==
    /\ open \subseteq Ids /\ conList \subseteq Ids /\ timelist \subseteq Ids
    /\ cmds \in Seq(Cmds)
    /\ queue \in Seq(Packets)
    /\ running \in [Workers -> BOOLEAN]
    /\ wpc \in [Workers -> {"start", "test", "pop", "waiting", "woken", "handle", "close", "exit"}]
    /\ hand \in [Workers -> Packets \cup {None}]
    /\ life \in [Workers -> {"new", "up", "down"}]
    /\ mpc \in {"run", "stop", "wakeup", "join", "end"}
    /\ stopping \in Workers \cup {Nobody} /\ left \subseteq Workers
    /\ load \in Loads /\ accepts \in 0 .. load.accepts /\ packets \in 0 .. load.packets
    /\ rejected \subseteq Ids /\ told \subseteq Ids
    /\ answered \in [Ids -> Seq(Nat)]

\* addService(): one service, or threadNum of them in threads of their own.
Init ==
    /\ open = {} /\ conList = {} /\ timelist = {} /\ cmds = <<>>
    /\ queue = <<>>
    /\ running = [w \in Workers |-> FALSE]
    /\ wpc = [w \in Workers |-> "start"]
    /\ hand = [w \in Workers |-> None]
    /\ life = [w \in Workers |-> "new"]
    /\ load \in Loads
    /\ mpc = "run" /\ stopping = Nobody /\ left = load.workers
    /\ accepts = 0 /\ packets = 0
    /\ rejected = {} /\ told = {}
    /\ answered = [i \in Ids |-> <<>>]

InLoop == load.run = "Net"

-----------------------------------------------------------------------------
(* LockQueue *)

BadPushBack(p) ==
    /\ queue' = Append(queue, p)
    /\ UNCHANGED wpc
\* push_back(): one thread in the wait, if there is one, is signalled.
PushBack(p) ==
    /\ queue' = Append(queue, p)
    /\ IF \E w \in Workers : wpc[w] = "waiting"
       THEN \E w \in Workers : wpc[w] = "waiting" /\ wpc' = [wpc EXCEPT ![w] = "woken"]
       ELSE UNCHANGED wpc

\* wakeup(): broadcast
Wakeup == wpc' = [w \in Workers |-> IF wpc[w] = "waiting" THEN "woken" ELSE wpc[w]]

BadFront(q) == q[Len(q)]
\* What pop_front() gives to its caller.
Front(q) == Head(q)

-----------------------------------------------------------------------------
(* What the service does *)

\* onAccept() and onClose() do nothing but hear of it.
Hear(p) ==
    told' = IF p.type = "Packet" \/ p.rej THEN told
            ELSE IF p.type = "Accept" THEN told \cup {p.id} ELSE told \ {p.id}

Cmd(ty, p) == [type |-> ty, id |-> p.id, n |-> IF ty = "Send" THEN p.n ELSE 0]

\* onRequest(): a request that cannot be parsed closes its connection, one-way
\* gets no answer, any other gets one; the command service answers "exit" and
\* closes, and it ignores an empty line.
Commands(p, r) ==
    CASE r = "none" -> <<>>
      [] r = "close" -> <<Cmd("Close", p)>>
      [] r = "answer" -> <<Cmd("Send", p)>>
      [] r = "bye" -> <<Cmd("Send", p), Cmd("Close", p)>>

-----------------------------------------------------------------------------
(* StormListener, in the net thread *)

BadTooMany == FALSE
TooMany == Len(queue) > MaxQueueLen

\* m_inLoop: the service is called at once; otherwise the packet is queued.
HandOn(p) ==
    IF InLoop THEN Hear(p) /\ UNCHANGED <<queue, wpc>>
              ELSE PushBack(p) /\ UNCHANGED told

BadAdmit(i) ==
    /\ conList' = conList \cup {i}
    /\ rejected' = rejected \ {i}
    /\ IF TooMany THEN UNCHANGED <<queue, wpc, told>>
       ELSE HandOn([type |-> "Accept", id |-> i, rej |-> FALSE, n |-> 0])
    /\ UNCHANGED cmds
Admit(i) ==
    /\ conList' = conList \cup {i}
    /\ rejected' = rejected \ {i}
    /\ HandOn([type |-> "Accept", id |-> i, rej |-> FALSE, n |-> 0])
    /\ UNCHANGED cmds

Refuse(i) ==
    /\ cmds' = Append(cmds, [type |-> "Close", id |-> i, n |-> 0])
    /\ rejected' = rejected \cup {i}
    /\ UNCHANGED <<conList, queue, wpc, told>>

\* onAccept(): at the limit the connection is asked to close, and nothing else;
\* otherwise it joins the connections without a packet.
OnAccept(i) ==
    /\ i \notin open /\ accepts < load.accepts
    /\ open' = open \cup {i}
    /\ accepts' = accepts + 1
    /\ answered' = [answered EXCEPT ![i] = <<>>]
    /\ IF Cardinality(timelist) >= MaxConnections THEN Refuse(i) ELSE Admit(i)
    /\ UNCHANGED <<timelist, packets, work, main>>

BadAlive(i) ==
    /\ conList' = conList \ {i}
    /\ timelist' = IF TooMany THEN timelist ELSE timelist \cup {i}
\* A packet came: the connection counts as alive.
Alive(i) ==
    /\ conList' = conList \ {i}
    /\ timelist' = timelist \cup {i}

\* onPacket(): the request is handled, or queued unless too many wait already.
OnPacket(i) ==
    /\ i \in open /\ packets < load.packets
    /\ packets' = packets + 1
    /\ Alive(i)
    /\ LET p == [type |-> "Packet", id |-> i, rej |-> i \in rejected, n |-> packets'] IN
       \/ /\ InLoop
          /\ \E r \in load.replies : cmds' = cmds \o Commands(p, r)
          /\ UNCHANGED <<queue, wpc>>
       \/ /\ ~InLoop /\ ~TooMany
          /\ PushBack(p)
          /\ UNCHANGED cmds
       \/ /\ ~InLoop /\ TooMany
          /\ UNCHANGED <<cmds, queue, wpc>>
    /\ UNCHANGED <<open, accepts, rejected, answered, work, main, told>>

\* onClose(): called by the loop for whatever reason the socket closes.
OnClose(i) ==
    /\ i \in open
    /\ open' = open \ {i}
    /\ conList' = conList \ {i}
    /\ timelist' = timelist \ {i}
    /\ HandOn([type |-> "Close", id |-> i, rej |-> i \in rejected, n |-> 0])
    /\ UNCHANGED <<hist, work, main>>

\* The peer closes, or a read or a write fails.
PeerClose(i) == OnClose(i) /\ UNCHANGED cmds

\* closeSocket() and sendSocket(): the id is closed, or sent to, if it is in
\* use, whoever uses it now.
LoopCmd ==
    /\ cmds # <<>>
    /\ cmds' = Tail(cmds)
    /\ LET c == Head(cmds) IN
       \/ c.type = "Close" /\ OnClose(c.id)
       \/ /\ c.type = "Send" /\ c.id \in open
          /\ answered' = [answered EXCEPT ![c.id] = Append(@, c.n)]
          /\ UNCHANGED <<open, lists, queue, wpc, work, main, accepts, packets, rejected, told>>
       \/ /\ c.id \notin open
          /\ UNCHANGED <<open, lists, queue, wpc, work, main, hist, told>>

\* updateNet(): an entry of m_conList or m_timelist is due; doIdleClose() or
\* doTimeClose() asks for the close, and the entry goes.
TimeOut(i) ==
    /\ cmds' = Append(cmds, [type |-> "Close", id |-> i, n |-> 0])
    /\ \/ i \in conList /\ conList' = conList \ {i} /\ UNCHANGED timelist
       \/ i \in timelist /\ timelist' = timelist \ {i} /\ UNCHANGED conList
    /\ UNCHANGED <<open, queue, wpc, work, main, hist, told>>

-----------------------------------------------------------------------------
(* StormService, in its thread or in the main loop *)

Go(w, to) == wpc' = [wpc EXCEPT ![w] = to]

\* loop(): m_running = true; init().  Or startService(), then mainEntry().
Start(w) ==
    /\ wpc[w] = "start"
    /\ running' = [running EXCEPT ![w] = TRUE]
    /\ life' = [life EXCEPT ![w] = "up"]
    /\ Go(w, "test")
    /\ UNCHANGED <<open, lists, cmds, queue, hand, main, hist, told>>

\* while (m_running) update(-1), or while (g_running) ... update(0)
Test(w) ==
    /\ wpc[w] = "test"
    /\ Go(w, IF running[w] THEN "pop" ELSE "exit")
    /\ UNCHANGED <<open, lists, cmds, queue, work, main, hist, told>>

\* pop_front(): a thread of its own waits once for an empty queue, under the
\* lock; the main loop does not wait.
PopWait(w) ==
    /\ wpc[w] = "pop" /\ queue = <<>> /\ load.run = "Extra"
    /\ Go(w, "waiting")
    /\ UNCHANGED <<open, lists, cmds, queue, work, main, hist, told>>

PopEmpty(w) ==
    /\ wpc[w] = IF load.run = "Extra" THEN "woken" ELSE "pop"
    /\ queue = <<>>
    /\ Go(w, "test")
    /\ UNCHANGED <<open, lists, cmds, queue, work, main, hist, told>>

Pop(w) ==
    /\ wpc[w] \in {"pop", "woken"} /\ queue # <<>>
    /\ hand' = [hand EXCEPT ![w] = Front(queue)]
    /\ queue' = Tail(queue)
    /\ Hear(hand'[w])
    /\ Go(w, "handle")
    /\ UNCHANGED <<open, lists, cmds, running, life, main, hist>>

\* update() goes on with the next packet without a look at m_running.
Handled(w) ==
    /\ hand' = [hand EXCEPT ![w] = None]
    /\ Go(w, "pop")

\* onAccept(), onClose() or onRequest(): the first command is pushed ...
Handle(w) ==
    /\ wpc[w] = "handle"
    /\ \/ hand[w].type # "Packet" /\ Handled(w) /\ UNCHANGED cmds
       \/ /\ hand[w].type = "Packet"
          /\ \E r \in load.replies :
                LET cs == Commands(hand[w], r) IN
                \/ Len(cs) < 2 /\ cmds' = cmds \o cs /\ Handled(w)
                \/ Len(cs) = 2 /\ cmds' = Append(cmds, cs[1]) /\ Go(w, "close") /\ UNCHANGED hand
    /\ UNCHANGED <<open, lists, queue, running, life, main, hist, told>>

\* ... and the Close after a "Bye!".
CloseAfterSend(w) ==
    /\ wpc[w] = "close"
    /\ cmds' = Append(cmds, Cmd("Close", hand[w]))
    /\ Handled(w)
    /\ UNCHANGED <<open, lists, queue, running, life, main, hist, told>>

-----------------------------------------------------------------------------
(* The main thread: the main loop ends, and terminateService() with          *)
(* terminateThread() of each service                                         *)

TerminateService ==
    /\ load.stops /\ mpc = "run"
    /\ mpc' = IF left = {} THEN "end" ELSE "stop"
    /\ UNCHANGED <<open, lists, cmds, queue, wpc, work, stopping, left, load, hist, told>>

BadStopWorker(w) ==
    /\ mpc = "stop" /\ w \in left
    /\ running' = [running EXCEPT ![w] = FALSE]
    /\ life' = [life EXCEPT ![w] = "down"]
    /\ stopping' = w /\ left' = left \ {w}
    /\ mpc' = IF load.run = "Extra" THEN "wakeup" ELSE "join"
    /\ UNCHANGED <<open, lists, cmds, queue, wpc, hand, load, hist, told>>
\* m_running = false.  A service in the main loop: g_running = false.
StopWorker(w) ==
    /\ mpc = "stop" /\ w \in left
    /\ running' = [running EXCEPT ![w] = FALSE]
    /\ stopping' = w /\ left' = left \ {w}
    /\ mpc' = IF load.run = "Extra" THEN "wakeup" ELSE "join"
    /\ UNCHANGED <<open, lists, cmds, queue, wpc, hand, life, load, hist, told>>

WakeupWorkers ==
    /\ mpc = "wakeup"
    /\ Wakeup
    /\ mpc' = "join"
    /\ UNCHANGED <<open, lists, cmds, queue, work, stopping, left, load, hist, told>>

\* m_thread.join(), or the main loop has ended; destroy().
Join ==
    /\ mpc = "join" /\ wpc[stopping] = "exit"
    /\ life' = [life EXCEPT ![stopping] = "down"]
    /\ mpc' = IF left = {} THEN "end" ELSE "stop"
    /\ UNCHANGED <<open, lists, cmds, queue, wpc, running, hand, stopping, left, load, hist, told>>

-----------------------------------------------------------------------------
Listener ==
    \/ LoopCmd
    \/ \E i \in load.ids : OnAccept(i) \/ OnPacket(i) \/ PeerClose(i) \/ TimeOut(i)

Service(w) ==
    \/ Start(w) \/ Test(w) \/ PopWait(w) \/ PopEmpty(w)
    \/ Pop(w) \/ Handle(w) \/ CloseAfterSend(w)

Main == TerminateService \/ WakeupWorkers \/ Join \/ \E w \in Workers : StopWorker(w)

Next == Listener \/ Main \/ \E w \in load.workers : Service(w)

\* The services and the main thread keep running; the net thread handles the
\* commands it has.
Fairness ==
    /\ \A w \in Workers : WF_vars(w \in load.workers /\ Service(w))
    /\ WF_vars(mpc # "run" /\ Main)
    /\ WF_vars(LoopCmd)

Spec == Init /\ [][Next]_vars
FairSpec == Spec /\ Fairness

-----------------------------------------------------------------------------
(* Properties *)

(* No connection escapes the timeouts, and no timer outlives its connection: *)
(* every open connection is in one of the two lists or on its way to be      *)
(* closed, whatever the order of packets, timeouts, closes and reuse of ids. *)
TimeoutsCover ==
    /\ open \subseteq conList \cup timelist \cup
            {cmds[k].id : k \in {j \in DOMAIN cmds : cmds[j].type = "Close"}}
    /\ conList \cup timelist \subseteq open
    /\ conList \cap timelist = {}

(* The number of waiting requests is bounded: at most one more than          *)
(* maxQueueLen, since the test comes before the push and is "greater than".  *)
RequestsBounded ==
    Cardinality({k \in DOMAIN queue : queue[k].type = "Packet"}) <= MaxQueueLen + 1

\* What waits at place k of the queue q is about an admitted connection i.
About(q, i, k) == q[k].id = i /\ ~q[k].rej

\* A service that was told of the ids t and takes the first k packets of q
\* holds i for connected after that: the last it heard of i was no onClose().
Knows(q, t, i, k) ==
    \/ i \in t /\ \A j \in 1 .. k : ~About(q, i, j)
    \/ \E j \in 1 .. k : /\ About(q, i, j) /\ q[j].type # "Close"
                         /\ \A l \in (j + 1) .. k : ~About(q, i, l)

(* The service hears of every admitted connection in order: what it has      *)
(* taken and what still waits alternates between onAccept() and onClose(),   *)
(* and requests lie in between, also when requests are dropped and the id is *)
(* used again.                                                               *)
HeardInOrder ==
    \A i \in Ids : \A k \in DOMAIN queue :
        About(queue, i, k) => (queue[k].type = "Accept" <=> ~Knows(queue, told, i, k - 1))

(* With one service object, in whatever thread it runs, a connection gets    *)
(* the answers to its requests in the order of the requests, and each at     *)
(* most once; with several threads on one queue it does not.                 *)
AnswersInOrder ==
    Cardinality(load.workers) <= 1 =>
        \A i \in Ids : \A j, k \in DOMAIN answered[i] :
            j < k => answered[i][j] < answered[i][k]

(* A service handles packets between its init() and its destroy() only,      *)
(* although listening begins before the one and goes on after the other, and *)
(* the main thread calls destroy() for a service that runs in another thread.*)
HandlesWhileUp == \A w \in Workers : wpc[w] \in {"handle", "close"} => life[w] = "up"

(* No wakeup of a service thread is lost: with packets waiting, not all      *)
(* threads are asleep or gone (unless the server stops).                     *)
NoLostPacket ==
    queue # <<>> /\ mpc = "run" => \E w \in load.workers : wpc[w] # "waiting"

(* LockQueue and its limit: what waits for the services is of its type,      *)
(* bounded, and never waits while all of them sleep.                         *)
QueueInv == TypeOK /\ RequestsBounded /\ NoLostPacket

(* Every queued packet is taken, as long as the server is not stopped.       *)
PacketsTaken == queue # <<>> ~> (queue = <<>> \/ mpc # "run")

(* maxConnections is the largest number of connections.                      *)
ConnectionLimit == Cardinality(open \ rejected) <= MaxConnections

(* maxQueueLen is the largest length of the queue.                           *)
QueueLimit == Len(queue) <= MaxQueueLen

(* terminateThread() wakes the worker and joins it: the join returns.        *)
JoinReturns == mpc = "join" ~> mpc # "join"
=============================================================================
