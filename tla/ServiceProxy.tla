---------------------------- MODULE ServiceProxy ----------------------------
(* ServiceProxy with its ProxyEndPoints: threads invoke a remote service, the *)
(* net thread brings the responses, closes and timeouts, and the main loop    *)
(* runs the callbacks of asynchronous requests.  A request is in doInvoke()   *)
(* step by step, because the net thread may answer it between any two steps:  *)
(* it is sent before it is saved in m_reqMessages, and saved before its timer *)
(* is in m_timeout.                                                           *)
(*                                                                            *)
(* The SocketLoop below is reduced to what SocketLoop.tla shows of it: its    *)
(* commands are handled in order, and each connect() is followed by           *)
(* onConnect() at most once and onClose() at most once, in that order.        *)
(*                                                                            *)
(* An operator BadX is a faulty variant of X that the specification does not  *)
(* use: it serves to see the property that guards against the slip fail.      *)
EXTENDS Integers, Sequences, FiniteSets

CONSTANTS
    Reqs,         \* the requests, each issued by a thread of its own
    EPs,          \* the endpoints (ip and port) of the service
    Setups,       \* how the proxy is set up and used, one of several:
                  \*   needLocator: m_needLocator, its endpoints come from the registry
                  \*   eps: the endpoints there are
                  \*   kinds: the kinds of calls made, see Kind
    MaxConn       \* how many connections the socket pool allows in all

\* Sync and Async calls come from other threads, Loop is an Async call of the
\* net thread itself (as doAsyncUpdateEndPoints() makes), OneWay has no answer,
\* and neither has Broadcast, a one-way call to every active endpoint.
Kind == {"Sync", "Async", "Loop", "OneWay", "Broadcast"}
NoAnswer == {"OneWay", "Broadcast"}

ASSUME ProxyAssumption ==
    /\ \A s \in Setups : s.needLocator \in BOOLEAN /\ s.eps \subseteq EPs /\ s.kinds \subseteq Kind
    /\ MaxConn \in Nat
    /\ Reqs \cap EPs = {}

VARIABLES
    \* the requests and the threads that make them
    pc, kind,
    rep,        \* RequestMessage::ep
    rstatus,    \* RequestMessage::status
    back,       \* RequestMessage::back
    freed,      \* delRequest() was called
    pending,    \* the keys of m_reqMessages
    timers,     \* the keys of m_timeout
    tlock,      \* m_timeout is locked by timeout()
    messages,   \* ServiceProxyManager::m_messages
    \* the endpoints
    active, inactive,   \* m_activeEndPoints, m_inactiveEndPoints
    given,      \* the endpoints a broadcast, which holds m_epMutex, has gone over
    connId, connected, ebuf,   \* m_connId (0 is -1), m_connected, m_buffer
    \* the socket loop and the peers
    cmds,       \* commands for the net thread
    link,       \* state of each connection
    host,       \* its endpoint
    served,     \* requests the peer has got and not answered
    resps,      \* responses on their way
    \* the net thread
    npc, todo, at,
    \* history
    finished,   \* how often finishInvoke() was called
    answered,   \* the peer has answered
    wild,       \* the net thread read a deleted request
    corrupt,    \* an iterator was erased from the wrong vector
    setup       \* how the proxy was set up

reqVars == <<pc, kind, rep, rstatus, back, freed>>
mapVars == <<pending, timers, tlock, messages>>
epVars == <<active, inactive, given, connId, connected, ebuf>>
loopVars == <<cmds, link, host, served, resps>>
netVars == <<npc, todo, at>>
histVars == <<finished, answered, wild, corrupt, setup>>
vars == <<reqVars, mapVars, epVars, loopVars, netVars, histVars>>

Conns == 1 .. MaxConn
NoConn == 0
NoEP == "none"
Live(c) == link[c] \in {"asked", "syn", "open"}
InCall == {"select", "broadcast", "send", "save", "timer", "check", "waiting", "woken"}

TypeOK ==
    /\ pc \in [Reqs -> InCall \cup {"new", "done"}]
    /\ kind \in [Reqs -> Kind]
    /\ rep \in [Reqs -> EPs \cup {NoEP}]
    /\ rstatus \in [Reqs -> {"TimeOut", "Ok", "Error", "NetError"}]
    /\ back \in [Reqs -> BOOLEAN] /\ freed \in [Reqs -> BOOLEAN]
    /\ pending \subseteq Reqs /\ timers \subseteq Reqs /\ tlock \in BOOLEAN
    /\ messages \in Seq(Reqs)
    /\ active \subseteq EPs /\ inactive \subseteq EPs /\ given \subseteq EPs
    /\ connId \in [EPs -> Conns \cup {NoConn}]
    /\ connected \in [EPs -> BOOLEAN]
    /\ ebuf \in [EPs -> SUBSET Reqs]
    /\ cmds \in Seq([type : {"Connect", "Send"}, c : Conns, reqs : SUBSET Reqs])
    /\ link \in [Conns -> {"unused", "asked", "syn", "open", "closed"}]
    /\ host \in [Conns -> EPs \cup {NoEP}]
    /\ served \in [Conns -> SUBSET Reqs] /\ resps \in [Conns -> SUBSET Reqs]
    /\ npc \in {"loop", "invoke", "move", "sweep", "fail", "untime",
                "arrived", "answer", "timeout", "undefined"}
    /\ todo \subseteq Reqs
    /\ at \in [req : Reqs \cup {"none"}, ep : EPs \cup {NoEP}, type : {"none", "Peer", "ConnectFail"}]
    /\ npc \in {"untime", "arrived", "answer"} => at.req \in Reqs
    /\ finished \in [Reqs -> Nat]
    /\ answered \subseteq Reqs
    /\ wild \in BOOLEAN /\ corrupt \in BOOLEAN
    /\ setup \in Setups

Nowhere == [req |-> "none", ep |-> NoEP, type |-> "none"]

Init ==
    /\ setup \in Setups
    /\ pc = [r \in Reqs |-> "new"]
    /\ kind = [r \in Reqs |-> "Sync"]
    /\ rep = [r \in Reqs |-> NoEP]
    /\ rstatus = [r \in Reqs |-> "TimeOut"]
    /\ back = [r \in Reqs |-> FALSE]
    /\ freed = [r \in Reqs |-> FALSE]
    /\ pending = {} /\ timers = {} /\ tlock = FALSE /\ messages = <<>>
    /\ active = (IF setup.needLocator THEN {} ELSE setup.eps) /\ inactive = {}
    /\ given = {}
    /\ connId = [e \in EPs |-> NoConn]
    /\ connected = [e \in EPs |-> FALSE]
    /\ ebuf = [e \in EPs |-> {}]
    /\ cmds = <<>>
    /\ link = [c \in Conns |-> "unused"]
    /\ host = [c \in Conns |-> NoEP]
    /\ served = [c \in Conns |-> {}] /\ resps = [c \in Conns |-> {}]
    /\ npc = "loop" /\ todo = {} /\ at = Nowhere
    /\ finished = [r \in Reqs |-> 0]
    /\ answered = {} /\ wild = FALSE /\ corrupt = FALSE

-----------------------------------------------------------------------------
(* Completion *)

BadFinishInvoke(r, st) ==
    /\ rstatus' = [rstatus EXCEPT ![r] = st]
    /\ finished' = [finished EXCEPT ![r] = @ + 1]
    /\ UNCHANGED back
    /\ pc' = [pc EXCEPT ![r] = IF kind[r] = "Sync" /\ @ = "waiting" THEN "woken" ELSE @]
    /\ messages' = IF kind[r] = "Async" THEN Append(messages, r) ELSE messages
    /\ freed' = [freed EXCEPT ![r] = @ \/ kind[r] = "Loop"]
\* finishInvoke(r) with status st: a Sync caller is signalled under its
\* notifier's lock; the callback of an Async one runs in the main loop, unless
\* the net thread made the request itself: then it runs here, and deletes it.
FinishInvoke(r, st) ==
    /\ rstatus' = [rstatus EXCEPT ![r] = st]
    /\ finished' = [finished EXCEPT ![r] = @ + 1]
    /\ back' = [back EXCEPT ![r] = kind[r] = "Sync"]
    /\ pc' = [pc EXCEPT ![r] = IF kind[r] = "Sync" /\ @ = "waiting" THEN "woken" ELSE @]
    /\ messages' = IF kind[r] = "Async" THEN Append(messages, r) ELSE messages
    /\ freed' = [freed EXCEPT ![r] = @ \/ kind[r] = "Loop"]

\* updateInMainLoop(): dispatch() runs the callback and deletes the request.
Dispatch ==
    /\ messages # <<>>
    /\ messages' = Tail(messages)
    /\ freed' = [freed EXCEPT ![Head(messages)] = TRUE]
    /\ UNCHANGED <<pc, kind, rep, rstatus, back, pending, timers, tlock, epVars,
                   loopVars, netVars, histVars>>

-----------------------------------------------------------------------------
(* doInvoke(), in the thread of request r *)

\* The net thread makes a call of its own between two events, and does
\* nothing else until the call returns.
ByNet(r) == kind[r] = "Loop"
NetBack(r) == npc' = IF ByNet(r) THEN "loop" ELSE npc

\* newRequest()
Begin(r) ==
    /\ pc[r] = "new"
    /\ pc' = [pc EXCEPT ![r] = "select"]
    /\ \E k \in setup.kinds :
          /\ kind' = [kind EXCEPT ![r] = k]
          /\ k = "Loop" => npc = "loop"
          /\ npc' = IF k = "Loop" THEN "invoke" ELSE npc
    /\ UNCHANGED <<rep, rstatus, back, freed, mapVars, epVars, loopVars, todo, at, histVars>>

\* m_epMutex: a broadcast holds it from its first endpoint to its last.
EpUnlocked == \A r \in Reqs : pc[r] # "broadcast"

\* selectEndPoint(): the hash or the sequence number picks any active one.
Select(r) ==
    /\ pc[r] = "select" /\ kind[r] # "Broadcast" /\ EpUnlocked
    /\ \E e \in active : rep' = [rep EXCEPT ![r] = e]
    /\ pc' = [pc EXCEPT ![r] = "send"]
    /\ UNCHANGED <<kind, rstatus, back, freed, mapVars, epVars, loopVars, netVars, histVars>>

\* No endpoint: the call fails at once, in the calling thread, which is the
\* thread that runs the callback.
NoEndPoint(r) ==
    /\ pc[r] = "select" /\ kind[r] # "Broadcast" /\ EpUnlocked
    /\ active = {}
    /\ rstatus' = [rstatus EXCEPT ![r] = "NetError"]
    /\ finished' = [finished EXCEPT ![r] = IF kind[r] = "OneWay" THEN @ ELSE @ + 1]
    /\ back' = [back EXCEPT ![r] = kind[r] = "Sync"]
    /\ freed' = [freed EXCEPT ![r] = TRUE]
    /\ pc' = [pc EXCEPT ![r] = "done"]
    /\ NetBack(r)
    /\ UNCHANGED <<kind, rep, mapVars, epVars, loopVars, todo, at, answered, wild, corrupt, setup>>

\* ProxyEndPoint::send() under the endpoint's mutex: straight to the loop when
\* connected, else into m_buffer, and the first one connects.
NewConn(c) == link[c] = "unused" /\ \A d \in Conns : link[d] = "unused" => c <= d

EpSend(e, r) ==
    \/ /\ connected[e]
       /\ cmds' = IF connId[e] = NoConn THEN cmds
                  ELSE Append(cmds, [type |-> "Send", c |-> connId[e], reqs |-> {r}])
       /\ UNCHANGED <<connId, ebuf, link, host>>
    \/ /\ ~connected[e] /\ connId[e] # NoConn
       /\ ebuf' = [ebuf EXCEPT ![e] = @ \cup {r}]
       /\ UNCHANGED <<connId, cmds, link, host>>
    \/ /\ ~connected[e] /\ connId[e] = NoConn
       /\ ebuf' = [ebuf EXCEPT ![e] = @ \cup {r}]
       /\ IF \E c \in Conns : link[c] = "unused"
          THEN \E c \in Conns :
                  /\ NewConn(c)
                  /\ connId' = [connId EXCEPT ![e] = c]
                  /\ link' = [link EXCEPT ![c] = "asked"]
                  /\ host' = [host EXCEPT ![c] = e]
                  /\ cmds' = Append(cmds, [type |-> "Connect", c |-> c, reqs |-> {}])
          ELSE UNCHANGED <<connId, cmds, link, host>>   \* the pool is full: -1

\* A one-way request is deleted by the stub as soon as it is sent.
Send(r) ==
    /\ pc[r] = "send"
    /\ EpSend(rep[r], r)
    /\ pc' = [pc EXCEPT ![r] = IF kind[r] = "OneWay" THEN "done" ELSE "save"]
    /\ freed' = [freed EXCEPT ![r] = kind[r] = "OneWay"]
    /\ UNCHANGED <<kind, rep, rstatus, back, mapVars, active, inactive, given, connected,
                   served, resps, netVars, histVars>>

\* A broadcast: m_epMutex is locked, the request goes to one active endpoint
\* after the other, and the stub deletes it.
BroadcastBegin(r) ==
    /\ pc[r] = "select" /\ kind[r] = "Broadcast" /\ EpUnlocked
    /\ given' = {}
    /\ pc' = [pc EXCEPT ![r] = "broadcast"]
    /\ UNCHANGED <<kind, rep, rstatus, back, freed, mapVars, active, inactive, connId,
                   connected, ebuf, loopVars, netVars, histVars>>

BroadcastOne(r, e) ==
    /\ pc[r] = "broadcast" /\ e \in active \ given
    /\ EpSend(e, r)
    /\ given' = given \cup {e}
    /\ UNCHANGED <<reqVars, mapVars, active, inactive, connected, served, resps, netVars, histVars>>

BroadcastEnd(r) ==
    /\ pc[r] = "broadcast" /\ active \subseteq given
    /\ pc' = [pc EXCEPT ![r] = "done"]
    /\ freed' = [freed EXCEPT ![r] = TRUE]
    /\ UNCHANGED <<kind, rep, rstatus, back, mapVars, epVars, loopVars, netVars, histVars>>

\* saveMessage() under m_messMutex
Save(r) ==
    /\ pc[r] = "save"
    /\ pending' = pending \cup {r}
    /\ pc' = [pc EXCEPT ![r] = "timer"]
    /\ UNCHANGED <<kind, rep, rstatus, back, freed, timers, tlock, messages,
                   epVars, loopVars, netVars, histVars>>

BadAddTimer(r) ==
    /\ pc[r] = "timer"
    /\ ~tlock
    /\ timers' = IF kind[r] = "Sync" THEN timers \cup {r} ELSE timers
    /\ pc' = [pc EXCEPT ![r] = IF kind[r] = "Sync" THEN "check" ELSE "done"]
    /\ NetBack(r)
    /\ UNCHANGED <<kind, rep, rstatus, back, freed, pending, tlock, messages,
                   epVars, loopVars, todo, at, histVars>>
\* m_timeout.add() waits for m_timeout's mutex.  An Async call returns.
AddTimer(r) ==
    /\ pc[r] = "timer"
    /\ ~tlock
    /\ timers' = timers \cup {r}
    /\ pc' = [pc EXCEPT ![r] = IF kind[r] = "Sync" THEN "check" ELSE "done"]
    /\ NetBack(r)
    /\ UNCHANGED <<kind, rep, rstatus, back, freed, pending, tlock, messages,
                   epVars, loopVars, todo, at, histVars>>

\* if (message->back == false) message->notifier.wait()
CheckBack(r) ==
    /\ pc[r] = "check"
    /\ pc' = [pc EXCEPT ![r] = IF back[r] THEN "woken" ELSE "waiting"]
    /\ UNCHANGED <<kind, rep, rstatus, back, freed, mapVars, epVars, loopVars, netVars, histVars>>

\* The stub decodes the response and deletes the request.
Return(r) ==
    /\ pc[r] = "woken"
    /\ pc' = [pc EXCEPT ![r] = "done"]
    /\ freed' = [freed EXCEPT ![r] = TRUE]
    /\ UNCHANGED <<kind, rep, rstatus, back, mapVars, epVars, loopVars, netVars, histVars>>

-----------------------------------------------------------------------------
(* The net thread: commands and connections *)

\* ProxyEndPoint::onConnect(): what waited in m_buffer is sent.
Opened(c) ==
    LET e == host[c] IN
    /\ link' = [link EXCEPT ![c] = "open"]
    /\ connected' = [connected EXCEPT ![e] = TRUE]
    /\ ebuf' = [ebuf EXCEPT ![e] = {}]
    /\ UNCHANGED <<host, served, resps, active, inactive, given, connId, netVars>>
Flush(c) == IF ebuf[host[c]] = {} THEN <<>>
            ELSE << [type |-> "Send", c |-> c, reqs |-> ebuf[host[c]]] >>

BadClosed(c, ty) ==
    LET e == host[c] IN
    /\ link' = [link EXCEPT ![c] = "closed"]
    /\ served' = [served EXCEPT ![c] = {}]
    /\ resps' = [resps EXCEPT ![c] = {}]
    /\ IF connId[e] = c
       THEN /\ connId' = [connId EXCEPT ![e] = NoConn]
            /\ ebuf' = [ebuf EXCEPT ![e] = {}]
            /\ npc' = "move"
            /\ at' = [req |-> "none", ep |-> e, type |-> ty]
       ELSE UNCHANGED <<connId, ebuf, npc, at>>
    /\ UNCHANGED <<host, active, inactive, given, connected, todo>>
\* ProxyEndPoint::onClose() under the endpoint's mutex, unless it is about
\* another connection; ServiceProxy::onClose() follows without the mutex.
Closed(c, ty) ==
    LET e == host[c] IN
    /\ link' = [link EXCEPT ![c] = "closed"]
    /\ served' = [served EXCEPT ![c] = {}]
    /\ resps' = [resps EXCEPT ![c] = {}]
    /\ IF connId[e] = c
       THEN /\ connId' = [connId EXCEPT ![e] = NoConn]
            /\ connected' = [connected EXCEPT ![e] = FALSE]
            /\ ebuf' = [ebuf EXCEPT ![e] = {}]
            /\ npc' = "move"
            /\ at' = [req |-> "none", ep |-> e, type |-> ty]
       ELSE UNCHANGED <<connId, connected, ebuf, npc, at>>
    /\ UNCHANGED <<host, active, inactive, given, todo>>

\* connectSocket(): fails, succeeds at once, or is in progress.
ConnectCmd ==
    /\ npc = "loop" /\ cmds # <<>> /\ Head(cmds).type = "Connect"
    /\ LET c == Head(cmds).c IN
       \/ Closed(c, "ConnectFail") /\ cmds' = Tail(cmds)
       \/ Opened(c) /\ cmds' = Tail(cmds) \o Flush(c)
       \/ /\ link' = [link EXCEPT ![c] = "syn"]
          /\ cmds' = Tail(cmds)
          /\ UNCHANGED <<host, served, resps, epVars, netVars>>
    /\ UNCHANGED <<reqVars, mapVars, histVars>>

\* sendSocket(): a connection that is not open drops the data.
SendCmd ==
    /\ npc = "loop" /\ cmds # <<>> /\ Head(cmds).type = "Send"
    /\ cmds' = Tail(cmds)
    /\ LET c == Head(cmds).c IN
          served' = IF link[c] = "open"
                    THEN [served EXCEPT ![c] = @ \cup Head(cmds).reqs] ELSE served
    /\ UNCHANGED <<link, host, resps, reqVars, mapVars, epVars, netVars, histVars>>

\* handleConnect()
ConnectReady(c) ==
    /\ npc = "loop" /\ link[c] = "syn"
    /\ Opened(c)
    /\ cmds' = cmds \o Flush(c)
    /\ UNCHANGED <<reqVars, mapVars, histVars>>

\* The connect fails or times out (CloseType_ConnectFail, CloseType_ConnTimeOut).
ConnectLost(c) ==
    /\ npc = "loop" /\ link[c] = "syn"
    /\ Closed(c, "ConnectFail")
    /\ UNCHANGED <<cmds, reqVars, mapVars, histVars>>

\* The peer closes, or reading or writing fails (CloseType_Peer).
PeerClose(c) ==
    /\ npc = "loop" /\ link[c] = "open"
    /\ Closed(c, "Peer")
    /\ UNCHANGED <<cmds, reqVars, mapVars, histVars>>

\* The peer answers a request (nothing to answer for a one-way one).
Answer(c, r) ==
    /\ r \in served[c] /\ kind[r] \notin NoAnswer
    /\ served' = [served EXCEPT ![c] = @ \ {r}]
    /\ resps' = [resps EXCEPT ![c] = @ \cup {r}]
    /\ answered' = answered \cup {r}
    /\ UNCHANGED <<cmds, link, host, reqVars, mapVars, epVars, netVars, finished, wild, corrupt, setup>>

-----------------------------------------------------------------------------
(* The net thread: ServiceProxy::onClose() *)

BadMoveToInactive ==
    /\ npc = "move"
    /\ IF setup.needLocator /\ at.type = "ConnectFail"
       THEN /\ active' = active \ {at.ep}
            /\ inactive' = inactive \cup {at.ep}
            /\ corrupt' = (at.ep \in inactive)
       ELSE UNCHANGED <<active, inactive, corrupt>>
    /\ npc' = IF corrupt' THEN "undefined" ELSE "sweep"
    /\ UNCHANGED <<todo, at, given, connId, connected, ebuf, finished, answered, wild, setup,
                   reqVars, mapVars, loopVars>>
\* moveToInactive() for an endpoint that could not be reached.  If it is in
\* m_inactiveEndPoints already, the iterator found there is given to
\* m_activeEndPoints.erase(): nothing is said of what the net thread does then.
MoveToInactive ==
    /\ npc = "move"
    /\ IF setup.needLocator /\ at.type = "ConnectFail"
       THEN /\ EpUnlocked
            /\ active' = active \ {at.ep}
            /\ inactive' = inactive \cup {at.ep}
            /\ corrupt' = (at.ep \in inactive)
       ELSE UNCHANGED <<active, inactive, corrupt>>
    /\ npc' = IF corrupt' THEN "undefined" ELSE "sweep"
    /\ UNCHANGED <<todo, at, given, connId, connected, ebuf, finished, answered, wild, setup,
                   reqVars, mapVars, loopVars>>

BadSweep ==
    /\ npc = "sweep"
    /\ npc' = "fail"
    /\ todo' = {r \in pending : rep[r] = at.ep}
    /\ pending' = {}
    /\ UNCHANGED <<at, timers, tlock, messages, reqVars, epVars, loopVars, histVars>>
\* Under m_messMutex the endpoint's requests leave m_reqMessages.
Sweep ==
    /\ npc = "sweep"
    /\ npc' = "fail"
    /\ todo' = {r \in pending : rep[r] = at.ep}
    /\ pending' = pending \ todo'
    /\ UNCHANGED <<at, timers, tlock, messages, reqVars, epVars, loopVars, histVars>>

FailOne(r) ==
    /\ npc = "fail" /\ r \in todo
    /\ FinishInvoke(r, IF at.type = "Peer" THEN "Error" ELSE "NetError")
    /\ todo' = todo \ {r}
    /\ npc' = "untime"
    /\ at' = [at EXCEPT !.req = r]
    /\ UNCHANGED <<kind, rep, pending, timers, tlock, epVars, loopVars, answered, wild, corrupt, setup>>

\* m_timeout.del(message->requestId), after finishInvoke(): if the request is
\* deleted by now, the number read is its own or that of any request whose
\* RequestMessage has taken its place.
UntimeOne ==
    /\ npc = "untime"
    /\ npc' = "fail"
    /\ at' = [at EXCEPT !.req = "none"]
    /\ wild' = (wild \/ freed[at.req])
    /\ \E r \in IF freed[at.req] THEN {q \in Reqs : pc[q] # "new"} ELSE {at.req} :
          timers' = timers \ {r}
    /\ UNCHANGED <<todo, pending, tlock, messages, reqVars, epVars, loopVars,
                   finished, answered, corrupt, setup>>

CloseDone ==
    /\ npc = "fail" /\ todo = {}
    /\ npc' = "loop" /\ at' = Nowhere
    /\ UNCHANGED <<todo, reqVars, mapVars, epVars, loopVars, histVars>>

-----------------------------------------------------------------------------
(* The net thread: onPacket() and timeouts *)

\* getAndDelReqMessage(): a response to an unknown request is dropped.
Packet(c, r) ==
    /\ npc = "loop" /\ r \in resps[c]
    /\ resps' = [resps EXCEPT ![c] = @ \ {r}]
    /\ IF r \in pending
       THEN /\ pending' = pending \ {r}
            /\ npc' = "arrived"
            /\ at' = [at EXCEPT !.req = r]
       ELSE UNCHANGED <<pending, npc, at>>
    /\ UNCHANGED <<todo, timers, tlock, messages, cmds, link, host, served, reqVars,
                   epVars, histVars>>

\* m_timeout.del()
UntimeAnswered ==
    /\ npc = "arrived"
    /\ npc' = "answer"
    /\ timers' = timers \ {at.req}
    /\ UNCHANGED <<todo, at, pending, tlock, messages, reqVars, epVars, loopVars, histVars>>

FinishAnswered ==
    /\ npc = "answer"
    /\ FinishInvoke(at.req, "Ok")
    /\ npc' = "loop" /\ at' = Nowhere
    /\ UNCHANGED <<todo, kind, rep, pending, timers, tlock, epVars, loopVars,
                   answered, wild, corrupt, setup>>

\* doTimeOut(): m_timeout stays locked while the due entries are handled.
TimeoutBegin ==
    /\ npc = "loop" /\ timers # {}
    /\ npc' = "timeout" /\ tlock' = TRUE
    /\ UNCHANGED <<todo, at, pending, timers, messages, reqVars, epVars, loopVars, histVars>>

BadReqTimeOut(r) ==
    /\ npc = "timeout" /\ r \in timers
    /\ timers' = timers \ {r}
    /\ IF r \in pending
       THEN /\ FinishInvoke(r, "TimeOut")
            /\ UNCHANGED pending
       ELSE UNCHANGED <<pending, pc, rstatus, back, freed, messages, finished>>
    /\ UNCHANGED <<netVars, kind, rep, tlock, epVars, loopVars, answered, wild, corrupt, setup>>
\* doReqTimeOut(); time is not modelled, an entry may be due in any round.
ReqTimeOut(r) ==
    /\ npc = "timeout" /\ r \in timers
    /\ timers' = timers \ {r}
    /\ IF r \in pending
       THEN /\ FinishInvoke(r, "TimeOut")
            /\ pending' = pending \ {r}
       ELSE UNCHANGED <<pending, pc, rstatus, back, freed, messages, finished>>
    /\ UNCHANGED <<netVars, kind, rep, tlock, epVars, loopVars, answered, wild, corrupt, setup>>

TimeoutEnd ==
    /\ npc = "timeout"
    /\ npc' = "loop" /\ tlock' = FALSE
    /\ UNCHANGED <<todo, at, pending, timers, messages, reqVars, epVars, loopVars, histVars>>

\* updateEndPoints(): the registry's list becomes the active one, every other
\* endpoint known is put aside.
UpdateEndPoints(A) ==
    /\ setup.needLocator /\ npc = "loop" /\ EpUnlocked
    /\ active' = A
    /\ inactive' = (active \cup inactive) \ A
    /\ UNCHANGED <<given, connId, connected, ebuf, reqVars, mapVars, loopVars, netVars, histVars>>

-----------------------------------------------------------------------------
Caller(r) ==
    \/ Begin(r) \/ Select(r) \/ NoEndPoint(r) \/ Send(r) \/ Save(r) \/ AddTimer(r)
    \/ CheckBack(r) \/ Return(r)
    \/ BroadcastBegin(r) \/ BroadcastEnd(r) \/ \E e \in EPs : BroadcastOne(r, e)

Handling ==
    \/ ConnectCmd \/ SendCmd \/ MoveToInactive \/ Sweep \/ UntimeOne \/ CloseDone
    \/ UntimeAnswered \/ FinishAnswered \/ TimeoutBegin \/ TimeoutEnd
    \/ \E r \in Reqs : FailOne(r)

Event ==
    \/ \E c \in Conns : ConnectReady(c) \/ ConnectLost(c) \/ PeerClose(c)
    \/ \E c \in Conns, r \in Reqs : Answer(c, r) \/ Packet(c, r)
    \/ \E A \in SUBSET setup.eps : UpdateEndPoints(A)

Next ==
    \/ Handling \/ Event \/ Dispatch
    \/ \E r \in Reqs : Caller(r) \/ ReqTimeOut(r)

\* The threads keep running, and an entry that stays in m_timeout comes due.
Fairness ==
    /\ \A r \in Reqs : WF_vars(pc[r] # "new" /\ Caller(r)) /\ SF_vars(ReqTimeOut(r))
    /\ WF_vars(Handling)
    /\ WF_vars(Dispatch)

Spec == Init /\ [][Next]_vars
FairSpec == Spec /\ Fairness

-----------------------------------------------------------------------------
(* Properties.  Those with ~wild do not hold once the net thread has read a  *)
(* deleted request in onClose(): see CloseReadsLiveRequest.                  *)

(* However response, close and timeout of a request race with each other and *)
(* with doInvoke(), finishInvoke() runs for it at most once, and never for a *)
(* request that is deleted.                                                  *)
FinishedOnce ==
    \A r \in Reqs :
        /\ finished[r] <= 1
        /\ r \in pending \cup todo \/ (at.req = r /\ npc \in {"arrived", "answer"}) =>
              finished[r] = 0 /\ ~freed[r]

(* No request is forgotten: one that is saved and not finished is in         *)
(* m_reqMessages with a timer in m_timeout (or its thread is about to add    *)
(* it), or the net thread holds it in its hands to finish it.                *)
NoOrphan ==
    ~wild => \A r \in Reqs :
        kind[r] \notin NoAnswer /\ pc[r] \in {"timer", "check", "waiting", "done"} /\ finished[r] = 0 =>
            \/ r \in pending /\ (r \in timers \/ pc[r] = "timer")
            \/ r \in todo
            \/ at.req = r /\ npc \in {"arrived", "answer"}

(* A caller that goes on has its result: a Sync call returns only after      *)
(* finishInvoke(), and reports success only if the peer has answered.        *)
ReturnsResult ==
    \A r \in Reqs :
        /\ pc[r] = "woken" => finished[r] = 1 /\ ~freed[r]
        /\ rstatus[r] = "Ok" => r \in answered
        /\ finished[r] = 1 /\ kind[r] = "Sync" => back[r]

(* An endpoint and the loop agree on its connection: an endpoint that thinks *)
(* it is connected has an open connection, so what it sends is not dropped   *)
(* for ever; data waits in m_buffer only while a connection is on its way or *)
(* the pool had none to give; no two connections of an endpoint live at once.*)
EndPointAgrees ==
    \A e \in EPs :
        /\ connected[e] => connId[e] # NoConn /\ link[connId[e]] = "open" /\ ebuf[e] = {}
        /\ connId[e] # NoConn => Live(connId[e]) /\ host[connId[e]] = e
        /\ \A c \in Conns : Live(c) /\ host[c] = e => connId[e] = c

(* A broadcast goes to every active endpoint once: those it has gone over    *)
(* and those still to come are m_activeEndPoints until it ends, although     *)
(* connections fail and the registry changes the lists meanwhile.            *)
BroadcastCovers == \A r \in Reqs : pc[r] = "broadcast" => given \subseteq active

(* After finishInvoke() a request may be deleted at any time (its thread or  *)
(* the main loop does it), so onClose() must not read it any more.           *)
CloseReadsLiveRequest == ~wild

(* moveToInactive() moves an endpoint from one list to the other: it never   *)
(* erases an element of one vector through the other.                        *)
MovesWithinList == ~corrupt

(* The proxy implements RpcCall: seen from its callers a call is issued, is   *)
(* over at most once and keeps its result.                                   *)
Call == INSTANCE RpcCall WITH
    phase <- [r \in Reqs |-> IF pc[r] = "new" THEN "idle"
                             ELSE IF finished[r] > 0 \/ (kind[r] \in NoAnswer /\ pc[r] = "done")
                                  THEN "over" ELSE "open"],
    result <- [r \in Reqs |-> IF finished[r] > 0 THEN rstatus[r] ELSE "none"]
ImplementsRpcCall == Call!Spec

(* Every call returns to its thread, unless the net thread has read a deleted*)
(* request or erased from the wrong vector before.                           *)
CallsEnd ==
    \A r \in Reqs : pc[r] \notin {"new", "done"} ~> (pc[r] = "done" \/ wild \/ corrupt)

(* For an asynchronous call that has returned, the callback runs in the main *)
(* or the net loop at last, with the same exception.                         *)
CallbacksRun ==
    \A r \in Reqs : pc[r] = "done" /\ kind[r] \in {"Async", "Loop"} ~> (freed[r] \/ wild \/ corrupt)

(* A call comes to its end, whatever happens to its request on the way: it   *)
(* returns, and then its callback is run.                                    *)
CallsComplete == CallsEnd /\ CallbacksRun
=============================================================================
