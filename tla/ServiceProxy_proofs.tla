------------------------ MODULE ServiceProxy_proofs -------------------------
(* Theorems about ServiceProxy, for any requests, endpoints, setups and any   *)
(* number of connections.                                                     *)
EXTENDS ServiceProxy, SequenceTheorems, TLAPS

(* The net thread has taken r from m_reqMessages because its answer came.     *)
Held(r) == at.req = r /\ npc \in {"arrived", "answer"}

(* Someone is going to finish r, or may.                                      *)
InHands(r) == r \in pending \/ r \in todo \/ Held(r)

(* A request is in one place at a time: in m_reqMessages, among those that    *)
(* onClose() fails, or in onPacket().                                         *)
OnePlace ==
    /\ pending \cap todo = {}
    /\ npc \notin {"fail", "untime"} => todo = {}
    /\ \A r \in Reqs : Held(r) => r \notin pending

(* Who is in hands is saved, not finished and not deleted; and who was        *)
(* finished by onClose() just now is finished.                                *)
HandsAreFree ==
    /\ \A r \in Reqs : InHands(r) =>
          /\ finished[r] = 0 /\ ~freed[r]
          /\ kind[r] \notin NoAnswer
          /\ pc[r] \in {"timer", "check", "waiting", "done"}
    /\ npc = "untime" => finished[at.req] = 1

(* Before it is saved a request is neither finished nor deleted.              *)
FreshIsOpen ==
    \A r \in Reqs : pc[r] \in {"new", "select", "broadcast", "send", "save"} =>
        finished[r] = 0 /\ ~freed[r]

AtMostOnce == \A r \in Reqs : finished[r] <= 1

(* The way a call takes through doInvoke() is that of its kind.               *)
PathOfKind ==
    \A r \in Reqs :
        /\ pc[r] = "broadcast" => kind[r] = "Broadcast"
        /\ pc[r] = "send" => kind[r] # "Broadcast"
        /\ pc[r] \in {"save", "timer"} => kind[r] \notin NoAnswer
        /\ pc[r] \in {"check", "waiting", "woken"} => kind[r] = "Sync"

(* While the net thread makes a call of its own it does nothing else.         *)
Calling(r) == kind[r] = "Loop" /\ pc[r] \in {"select", "send", "save", "timer"}
NetCalls ==
    \A r \in Reqs : Calling(r) => npc = "invoke" /\ \A q \in Reqs : Calling(q) => q = r

(* What waits for the main loop is finished and asynchronous.                 *)
MessagesAreOver ==
    \A i \in DOMAIN messages : finished[messages[i]] = 1 /\ kind[messages[i]] = "Async"

(* The request of a Sync call lives until the call returns, and the call is   *)
(* back when and only when it is finished.                                    *)
SyncLives ==
    \A r \in Reqs :
        /\ pc[r] = "woken" => finished[r] = 1
        /\ pc[r] = "waiting" => finished[r] = 0
        /\ kind[r] = "Sync" /\ freed[r] => pc[r] = "done"
        /\ back[r] => finished[r] = 1
        /\ finished[r] = 1 /\ kind[r] = "Sync" => back[r]

(* A request that is about to be sent has its endpoint, and so has a close    *)
(* that onClose() is about to handle.                                         *)
Known ==
    /\ \A r \in Reqs : pc[r] = "send" => rep[r] \in EPs
    /\ npc = "move" => at.ep \in EPs

(* A request is on its way only if its call has begun.                        *)
Sent ==
    /\ \A e \in EPs : \A r \in ebuf[e] : pc[r] # "new"
    /\ \A i \in DOMAIN cmds : \A r \in cmds[i].reqs : pc[r] # "new"
    /\ \A c \in Conns : \A r \in served[c] : pc[r] # "new"

(* An answer that arrives or has arrived was given.                           *)
AnswersAreReal ==
    /\ \A c \in Conns : resps[c] \subseteq answered
    /\ \A r \in Reqs : Held(r) \/ rstatus[r] = "Ok" => r \in answered

(* No two commands in q connect the same connection, and l says of each that  *)
(* it is asked for and no more.                                               *)
OncePerLink(q, l) ==
    /\ \A i \in DOMAIN q : q[i].type = "Connect" => l[q[i].c] = "asked"
    /\ \A i, j \in DOMAIN q :
          q[i].type = "Connect" /\ q[j].type = "Connect" /\ q[i].c = q[j].c => i = j

(* A connection belongs to an endpoint, and its one Connect command comes     *)
(* before anything else happens to it.                                        *)
ConnectsOnce ==
    /\ \A c \in Conns : link[c] # "unused" => host[c] \in EPs
    /\ OncePerLink(cmds, link)

ReqInv ==
    /\ PathOfKind /\ NetCalls /\ OnePlace /\ HandsAreFree /\ FreshIsOpen /\ AtMostOnce
    /\ MessagesAreOver /\ SyncLives
FlowInv == Known /\ Sent /\ AnswersAreReal
LinkInv == ConnectsOnce /\ EndPointAgrees

IInv == TypeOK /\ ReqInv /\ NoOrphan /\ FlowInv /\ LinkInv /\ BroadcastCovers

-----------------------------------------------------------------------------
(* Queues *)

Statuses == {"TimeOut", "Ok", "Error", "NetError"}
LinkStates == {"unused", "asked", "syn", "open", "closed"}
LiveStates == {"asked", "syn", "open"}
Cmd == [type : {"Connect", "Send"}, c : Conns, reqs : SUBSET Reqs]

(* What a queue is after one more element.                                   *)
LEMMA AppendFacts ==
    ASSUME NEW S, NEW q \in Seq(S), NEW x \in S
    PROVE  /\ Append(q, x) \in Seq(S)
           /\ Len(q) \in Nat /\ DOMAIN q = 1 .. Len(q)
           /\ DOMAIN Append(q, x) = 1 .. Len(q) + 1
           /\ \A i \in DOMAIN q : Append(q, x)[i] = q[i]
           /\ Append(q, x)[Len(q) + 1] = x
OBVIOUS

(* What a queue is without its first element.                                *)
LEMMA TailFacts ==
    ASSUME NEW S, NEW q \in Seq(S), q # <<>>
    PROVE  /\ Head(q) \in S /\ Tail(q) \in Seq(S)
           /\ Len(q) \in Nat /\ DOMAIN q = 1 .. Len(q) /\ 1 \in DOMAIN q /\ Head(q) = q[1]
           /\ DOMAIN Tail(q) = 1 .. Len(q) - 1
           /\ \A i \in DOMAIN Tail(q) : i + 1 \in DOMAIN q /\ Tail(q)[i] = q[i + 1]
OBVIOUS

(* Appending nothing or one element.                                         *)
LEMMA ConcatFacts ==
    ASSUME NEW S, NEW q \in Seq(S), NEW x \in S
    PROVE  q \o <<>> = q /\ q \o <<x>> = Append(q, x)
OBVIOUS

(* What the commands of a queue name.                                        *)
LEMMA CmdsOfQueue ==
    ASSUME NEW q \in Seq(Cmd)
    PROVE  \A i \in DOMAIN q : q[i].c \in Conns /\ q[i].reqs \subseteq Reqs
<1>1. \A i \in DOMAIN q : q[i] \in Cmd  OBVIOUS
<1> QED  BY <1>1 DEF Cmd

(* The first of the commands.                                                *)
LEMMA HeadOfCmds ==
    ASSUME TypeOK, cmds # <<>>
    PROVE  /\ cmds \in Seq(Cmd) /\ Tail(cmds) \in Seq(Cmd)
           /\ Head(cmds) \in Cmd /\ Head(cmds).c \in Conns /\ Head(cmds).reqs \subseteq Reqs
           /\ 1 \in DOMAIN cmds /\ Head(cmds) = cmds[1]
           /\ \A i \in DOMAIN Tail(cmds) :
                 i \in Nat /\ i + 1 \in DOMAIN cmds /\ i + 1 # 1 /\ Tail(cmds)[i] = cmds[i + 1]
<1>1. cmds \in Seq(Cmd)  BY DEF TypeOK, Cmd
<1>2. /\ Tail(cmds) \in Seq(Cmd) /\ Head(cmds) \in Cmd /\ Head(cmds) = cmds[1] /\ 1 \in DOMAIN cmds
      /\ DOMAIN Tail(cmds) = 1 .. Len(cmds) - 1 /\ Len(cmds) \in Nat
      /\ \A i \in DOMAIN Tail(cmds) : i + 1 \in DOMAIN cmds /\ Tail(cmds)[i] = cmds[i + 1]
  BY <1>1, TailFacts
<1>3. Head(cmds).c \in Conns /\ Head(cmds).reqs \subseteq Reqs  BY <1>2 DEF Cmd
<1> QED  BY <1>1, <1>2, <1>3

-----------------------------------------------------------------------------
(* Type correctness *)

(* The types of what finishInvoke() changes.                                 *)
ReqTypes ==
    /\ pc \in [Reqs -> InCall \cup {"new", "done"}]
    /\ rstatus \in [Reqs -> Statuses]
    /\ back \in [Reqs -> BOOLEAN] /\ freed \in [Reqs -> BOOLEAN]
    /\ messages \in Seq(Reqs)
    /\ finished \in [Reqs -> Nat]

(* finishInvoke() keeps the types.                                           *)
LEMMA FinishInvokeTypes ==
    ASSUME TypeOK, NEW r \in Reqs, NEW st \in Statuses,
           FinishInvoke(r, st)
    PROVE  ReqTypes'
<1>1. messages' \in Seq(Reqs)  BY AppendFacts DEF TypeOK, FinishInvoke
<1>2. back' \in [Reqs -> BOOLEAN] /\ freed' \in [Reqs -> BOOLEAN]  BY DEF TypeOK, FinishInvoke
<1>3. pc' \in [Reqs -> InCall \cup {"new", "done"}]  BY DEF TypeOK, FinishInvoke, InCall
<1>4. rstatus' \in [Reqs -> Statuses]  BY DEF TypeOK, FinishInvoke, Statuses
<1>5. finished' \in [Reqs -> Nat]  BY DEF TypeOK, FinishInvoke
<1> QED  BY <1>1, <1>2, <1>3, <1>4, <1>5 DEF ReqTypes

(* The types of what ProxyEndPoint::send() changes.                          *)
ConnTypes ==
    /\ connId \in [EPs -> Conns \cup {NoConn}]
    /\ ebuf \in [EPs -> SUBSET Reqs]
    /\ cmds \in Seq(Cmd)
    /\ link \in [Conns -> {"unused", "asked", "syn", "open", "closed"}]
    /\ host \in [Conns -> EPs \cup {NoEP}]

(* ProxyEndPoint::send() keeps the types.                                    *)
LEMMA EpSendTypes ==
    ASSUME TypeOK, NEW e \in EPs, NEW r \in Reqs, EpSend(e, r)
    PROVE  ConnTypes'
<1> USE DEF ConnTypes
<1>1. cmds \in Seq(Cmd)  BY DEF TypeOK, Cmd
<1>2. CASE connected[e]
  <2>1. connId[e] # NoConn => [type |-> "Send", c |-> connId[e], reqs |-> {r}] \in Cmd
    BY DEF TypeOK, Cmd
  <2>2. cmds' \in Seq(Cmd)  BY <1>1, <1>2, <2>1, AppendFacts DEF EpSend
  <2> QED  BY <1>2, <2>2 DEF EpSend, TypeOK
<1>3. CASE ~connected[e] /\ connId[e] # NoConn
  <2>1. /\ ebuf' = [ebuf EXCEPT ![e] = @ \cup {r}]
        /\ connId' = connId /\ cmds' = cmds /\ link' = link /\ host' = host
    BY <1>3 DEF EpSend
  <2> QED  BY <1>1, <2>1 DEF TypeOK
<1>4. CASE ~connected[e] /\ connId[e] = NoConn
  <2>1. ebuf' \in [EPs -> SUBSET Reqs]  BY <1>4 DEF EpSend, TypeOK
  <2>2. CASE ~\E c \in Conns : link[c] = "unused"
    BY <1>1, <1>4, <2>1, <2>2 DEF EpSend, TypeOK
  <2>3. CASE \E c \in Conns : link[c] = "unused"
    <3>1. PICK c \in Conns :
            /\ connId' = [connId EXCEPT ![e] = c]
            /\ link' = [link EXCEPT ![c] = "asked"]
            /\ host' = [host EXCEPT ![c] = e]
            /\ cmds' = Append(cmds, [type |-> "Connect", c |-> c, reqs |-> {}])
      BY <1>4, <2>3 DEF EpSend
    <3>2. [type |-> "Connect", c |-> c, reqs |-> {}] \in Cmd  BY DEF Cmd
    <3>3. cmds' \in Seq(Cmd)  BY <1>1, <3>1, <3>2, AppendFacts
    <3> QED  BY <2>1, <3>1, <3>3 DEF TypeOK
  <2> QED  BY <2>2, <2>3
<1> QED  BY <1>2, <1>3, <1>4

(* The commands that onConnect() adds.                                       *)
LEMMA FlushTypes ==
    ASSUME TypeOK, NEW c \in Conns, host[c] \in EPs, NEW q \in Seq(Cmd)
    PROVE  q \o Flush(c) \in Seq(Cmd)
<1>1. [type |-> "Send", c |-> c, reqs |-> ebuf[host[c]]] \in Cmd  BY DEF TypeOK, Cmd
<1> QED  BY <1>1, ConcatFacts, AppendFacts DEF Flush

(* The steps of the calling threads keep the types.                          *)
LEMMA CallerTypes ==
    ASSUME TypeOK, Known, NEW r \in Reqs, Caller(r)
    PROVE  TypeOK'
<1>1. CASE Begin(r)  BY <1>1, ProxyAssumption DEF TypeOK, Begin, InCall, Kind, mapVars, epVars, loopVars, histVars
<1>2. CASE Select(r)  BY <1>2 DEF TypeOK, Select, InCall, mapVars, epVars, loopVars, netVars, histVars
<1>3. CASE NoEndPoint(r)
  BY <1>3 DEF TypeOK, NoEndPoint, NetBack, mapVars, epVars, loopVars
<1>4. CASE Send(r)
  <2>1. EpSend(rep[r], r) /\ rep[r] \in EPs  BY <1>4 DEF Send, Known
  <2>2. ConnTypes'  BY <2>1, EpSendTypes
  <2> QED  BY <1>4, <2>2 DEF ConnTypes, TypeOK, Send, Cmd, InCall, mapVars, netVars, histVars
<1>5. CASE Save(r)  BY <1>5 DEF TypeOK, Save, InCall, epVars, loopVars, netVars, histVars
<1>6. CASE AddTimer(r)  BY <1>6 DEF TypeOK, AddTimer, NetBack, InCall, epVars, loopVars, histVars
<1>7. CASE CheckBack(r)  BY <1>7 DEF TypeOK, CheckBack, InCall, mapVars, epVars, loopVars, netVars, histVars
<1>8. CASE Return(r)  BY <1>8 DEF TypeOK, Return, mapVars, epVars, loopVars, netVars, histVars
<1>9. CASE BroadcastBegin(r)
  BY <1>9 DEF TypeOK, BroadcastBegin, InCall, mapVars, loopVars, netVars, histVars
<1>10. CASE BroadcastEnd(r)
  BY <1>10 DEF TypeOK, BroadcastEnd, mapVars, epVars, loopVars, netVars, histVars
<1>11. ASSUME NEW e \in EPs, BroadcastOne(r, e)  PROVE TypeOK'
  <2>1. EpSend(e, r)  BY <1>11 DEF BroadcastOne
  <2>2. ConnTypes'  BY <2>1, EpSendTypes
  <2> QED  BY <1>11, <2>2 DEF ConnTypes, TypeOK, BroadcastOne, Cmd, reqVars, mapVars, netVars, histVars
<1> QED  BY <1>1, <1>2, <1>3, <1>4, <1>5, <1>6, <1>7, <1>8, <1>9, <1>10, <1>11 DEF Caller

(* The types of what ProxyEndPoint::onConnect() and onClose() change.        *)
NetTypes ==
    /\ ConnTypes
    /\ connected \in [EPs -> BOOLEAN]
    /\ served \in [Conns -> SUBSET Reqs] /\ resps \in [Conns -> SUBSET Reqs]
    /\ npc \in {"loop", "move"}
    /\ at \in [req : Reqs \cup {"none"}, ep : EPs \cup {NoEP}, type : {"none", "Peer", "ConnectFail"}]

(* onConnect() keeps the types of what the net thread owns.                  *)
LEMMA OpenedTypes ==
    ASSUME TypeOK, npc = "loop", NEW c \in Conns, host[c] \in EPs, Opened(c), cmds' \in Seq(Cmd)
    PROVE  NetTypes'
<1>1. connected' \in [EPs -> BOOLEAN]  BY DEF TypeOK, Opened
<1> QED  BY <1>1 DEF TypeOK, Opened, NetTypes, ConnTypes, netVars

(* onClose() keeps the types of what the net thread owns.                    *)
LEMMA ClosedTypes ==
    ASSUME TypeOK, npc = "loop", NEW c \in Conns, NEW ty \in {"Peer", "ConnectFail"}, Closed(c, ty),
           cmds' \in Seq(Cmd)
    PROVE  NetTypes'
<1>1. connected' \in [EPs -> BOOLEAN]  BY DEF TypeOK, Closed
<1>2. ConnTypes'  BY DEF TypeOK, Closed, ConnTypes
<1> QED  BY <1>1, <1>2 DEF TypeOK, Closed, NetTypes

(* The steps of the net thread keep the types.                               *)
LEMMA NetTypesStep ==
    ASSUME TypeOK, Known, ConnectsOnce, Handling \/ Event \/ Dispatch \/ \E r \in Reqs : ReqTimeOut(r)
    PROVE  TypeOK'
<1> USE DEF InCall, Statuses
<1>0. cmds \in Seq(Cmd)  BY DEF TypeOK, Cmd
<1>1. CASE ConnectCmd
  <2> DEFINE c == Head(cmds).c
  <2>0. /\ cmds # <<>> /\ npc = "loop" /\ Head(cmds).type = "Connect"
        /\ Head(cmds) \in Cmd /\ Tail(cmds) \in Seq(Cmd)
        /\ 1 \in DOMAIN cmds /\ Head(cmds) = cmds[1]
    BY <1>0, <1>1, TailFacts DEF ConnectCmd
  <2>1. /\ c \in Conns /\ Tail(cmds) \in Seq(Cmd) /\ npc = "loop"
        /\ 1 \in DOMAIN cmds /\ c = cmds[1].c /\ cmds[1].type = "Connect"
    BY <2>0 DEF Cmd
  <2>2. host[c] \in EPs  BY <2>1 DEF ConnectsOnce, OncePerLink
  <2> HIDE DEF c
  <2>3. UNCHANGED <<reqVars, mapVars, histVars>>  BY <1>1 DEF ConnectCmd
  <2>4. CASE Closed(c, "ConnectFail") /\ cmds' = Tail(cmds)
    <3>1. NetTypes'  BY <2>1, <2>4, ClosedTypes
    <3> QED  BY <2>3, <2>4, <3>1 DEF TypeOK, NetTypes, ConnTypes, Cmd, Closed, reqVars, mapVars, histVars
  <2>5. CASE Opened(c) /\ cmds' = Tail(cmds) \o Flush(c)
    <3>1. NetTypes'  BY <2>1, <2>2, <2>5, FlushTypes, OpenedTypes
    <3> QED  BY <2>3, <2>5, <3>1 DEF TypeOK, NetTypes, ConnTypes, Cmd, Opened, reqVars, mapVars, netVars, histVars
  <2>6. CASE /\ link' = [link EXCEPT ![c] = "syn"] /\ cmds' = Tail(cmds)
             /\ UNCHANGED <<host, served, resps, epVars, netVars>>
    BY <2>1, <2>3, <2>6 DEF TypeOK, Cmd, reqVars, mapVars, epVars, netVars, histVars
  <2> QED  BY <1>1, <2>4, <2>5, <2>6 DEF ConnectCmd, c
<1>2. CASE SendCmd
  <2> DEFINE c == Head(cmds).c
  <2>1. Head(cmds) \in Cmd /\ Tail(cmds) \in Seq(Cmd)  BY <1>0, <1>2, TailFacts DEF SendCmd
  <2>2. Head(cmds).reqs \subseteq Reqs  BY <2>1 DEF Cmd
  <2>3. served' \in [Conns -> SUBSET Reqs]  BY <1>2, <2>2 DEF SendCmd, TypeOK
  <2> QED  BY <1>2, <2>1, <2>3 DEF SendCmd, TypeOK, Cmd, reqVars, mapVars, epVars, netVars, histVars
<1>3. CASE MoveToInactive
  <2>1. active' \subseteq EPs /\ inactive' \subseteq EPs /\ corrupt' \in BOOLEAN
    <3>1. CASE setup.needLocator /\ at.type = "ConnectFail"
      <4>1. /\ active' = active \ {at.ep} /\ inactive' = inactive \cup {at.ep}
            /\ corrupt' = (at.ep \in inactive)
        BY <1>3, <3>1 DEF MoveToInactive
      <4>2. at.ep \in EPs  BY <1>3 DEF MoveToInactive, Known
      <4> QED  BY <4>1, <4>2 DEF TypeOK
    <3>2. CASE ~(setup.needLocator /\ at.type = "ConnectFail")
      BY <1>3, <3>2 DEF MoveToInactive, TypeOK
    <3> QED  BY <3>1, <3>2
  <2>2. npc' \in {"undefined", "sweep"}  BY <1>3 DEF MoveToInactive
  <2>3. UNCHANGED <<todo, at, given, connId, connected, ebuf, finished, answered, wild, setup,
                    reqVars, mapVars, loopVars>>
    BY <1>3 DEF MoveToInactive
  <2> QED  BY <2>1, <2>2, <2>3 DEF TypeOK, reqVars, mapVars, loopVars
<1>4. CASE Sweep  BY <1>4 DEF Sweep, TypeOK, reqVars, epVars, loopVars, histVars
<1>5. CASE UntimeOne  BY <1>5 DEF UntimeOne, TypeOK, reqVars, epVars, loopVars
<1>6. CASE CloseDone  BY <1>6 DEF CloseDone, Nowhere, TypeOK, reqVars, mapVars, epVars, loopVars, histVars
<1>7. CASE UntimeAnswered  BY <1>7 DEF UntimeAnswered, TypeOK, reqVars, epVars, loopVars, histVars
<1>8. CASE FinishAnswered
  <2>1. ReqTypes'  BY <1>8, FinishInvokeTypes DEF FinishAnswered, TypeOK
  <2> QED  BY <1>8, <2>1 DEF FinishAnswered, Nowhere, TypeOK, ReqTypes, epVars, loopVars
<1>9. CASE TimeoutBegin  BY <1>9 DEF TimeoutBegin, TypeOK, reqVars, epVars, loopVars, histVars
<1>10. CASE TimeoutEnd  BY <1>10 DEF TimeoutEnd, TypeOK, reqVars, epVars, loopVars, histVars
<1>11. ASSUME NEW r \in Reqs, FailOne(r)  PROVE TypeOK'
  <2>1. ReqTypes'  BY <1>11, FinishInvokeTypes DEF FailOne
  <2> QED  BY <1>11, <2>1 DEF FailOne, TypeOK, ReqTypes, epVars, loopVars
<1>12. ASSUME NEW c \in Conns, ConnectReady(c)  PROVE TypeOK'
  <2>1. host[c] \in EPs /\ npc = "loop" /\ Opened(c)  BY <1>12 DEF ConnectReady, ConnectsOnce
  <2>2. cmds' \in Seq(Cmd)  BY <1>0, <1>12, <2>1, FlushTypes DEF ConnectReady
  <2>3. NetTypes'  BY <2>1, <2>2, OpenedTypes
  <2> QED  BY <1>12, <2>1, <2>3
           DEF ConnectReady, TypeOK, NetTypes, ConnTypes, Cmd, Opened, reqVars, mapVars, netVars, histVars
<1>13. ASSUME NEW c \in Conns, ConnectLost(c) \/ PeerClose(c)  PROVE TypeOK'
  <2>1. PICK ty \in {"Peer", "ConnectFail"} :
           npc = "loop" /\ Closed(c, ty) /\ cmds' = cmds /\ UNCHANGED <<reqVars, mapVars, histVars>>
    BY <1>13 DEF ConnectLost, PeerClose
  <2>2. NetTypes'  BY <1>0, <2>1, ClosedTypes
  <2> QED  BY <2>1, <2>2 DEF TypeOK, NetTypes, ConnTypes, Cmd, Closed, reqVars, mapVars, histVars
<1>14. ASSUME NEW c \in Conns, NEW r \in Reqs, Answer(c, r)  PROVE TypeOK'
  BY <1>14 DEF Answer, TypeOK, reqVars, mapVars, epVars, netVars
<1>15. ASSUME NEW c \in Conns, NEW r \in Reqs, Packet(c, r)  PROVE TypeOK'
  BY <1>15 DEF Packet, TypeOK, reqVars, epVars, histVars
<1>16. ASSUME NEW A \in SUBSET setup.eps, UpdateEndPoints(A)  PROVE TypeOK'
  <2>1. A \subseteq EPs  BY <1>16, ProxyAssumption DEF TypeOK
  <2> QED  BY <1>16, <2>1 DEF UpdateEndPoints, TypeOK, reqVars, mapVars, loopVars, netVars, histVars
<1>17. CASE Dispatch
  <2>1. Tail(messages) \in Seq(Reqs)  BY <1>17, TailFacts DEF Dispatch, TypeOK
  <2> QED  BY <1>17, <2>1 DEF Dispatch, TypeOK, epVars, loopVars, netVars, histVars
<1>18. ASSUME NEW r \in Reqs, ReqTimeOut(r)  PROVE TypeOK'
  <2>1. CASE r \in pending
    <3>1. ReqTypes'  BY <1>18, <2>1, FinishInvokeTypes DEF ReqTimeOut
    <3> QED  BY <1>18, <2>1, <3>1 DEF ReqTimeOut, TypeOK, ReqTypes, netVars, epVars, loopVars
  <2>2. CASE r \notin pending
    BY <1>18, <2>2 DEF ReqTimeOut, TypeOK, netVars, epVars, loopVars
  <2> QED  BY <2>1, <2>2
<1> QED  BY <1>1, <1>2, <1>3, <1>4, <1>5, <1>6, <1>7, <1>8, <1>9, <1>10, <1>11, <1>12, <1>13,
            <1>14, <1>15, <1>16, <1>17, <1>18 DEF Handling, Event

-----------------------------------------------------------------------------
(* Requests *)

(* A step that leaves the requests and their queues alone, and in which the  *)
(* net thread does not take one in its hands, keeps what is said of them.    *)
LEMMA ReqFrame ==
    ASSUME ReqInv,
           UNCHANGED <<pc, kind, back, freed, finished, messages, pending, todo>>,
           \/ UNCHANGED <<npc, at>>
           \/ /\ npc \notin {"invoke", "fail", "untime", "arrived", "answer"}
              /\ npc' \in {"loop", "move", "sweep", "timeout", "undefined"}
    PROVE  ReqInv'
<1>1. \A r : Held(r)' => Held(r)  BY DEF Held
<1>2. OnePlace'  BY <1>1 DEF ReqInv, OnePlace
<1>3. HandsAreFree'  BY <1>1 DEF ReqInv, HandsAreFree, InHands
<1>4. FreshIsOpen' /\ AtMostOnce'  BY DEF ReqInv, FreshIsOpen, AtMostOnce
<1>5. MessagesAreOver'  BY DEF ReqInv, MessagesAreOver
<1>6. SyncLives'  BY DEF ReqInv, SyncLives
<1>7. PathOfKind' /\ NetCalls'  BY DEF ReqInv, PathOfKind, NetCalls, Calling
<1> QED  BY <1>2, <1>3, <1>4, <1>5, <1>6, <1>7 DEF ReqInv

(* finishInvoke() for a request that someone had in his hands: it is         *)
(* finished now, and nothing happens to the others.                          *)
LEMMA FinishInvokeFacts ==
    ASSUME TypeOK, ReqInv, NEW r \in Reqs, NEW st, InHands(r), FinishInvoke(r, st), kind' = kind
    PROVE  /\ finished' = [finished EXCEPT ![r] = 1]
           /\ \A q \in Reqs \ {r} : (freed'[q] <=> freed[q]) /\ pc'[q] = pc[q]
           /\ pc'[r] = pc[r] \/ (pc[r] = "waiting" /\ pc'[r] = "woken")
           /\ PathOfKind' /\ FreshIsOpen' /\ AtMostOnce' /\ MessagesAreOver' /\ SyncLives'
           /\ \A q \in Reqs : Calling(q)' <=> Calling(q)
<1>1. /\ finished[r] = 0 /\ ~freed[r] /\ kind[r] \notin NoAnswer
      /\ pc[r] \in {"timer", "check", "waiting", "done"}
  BY DEF ReqInv, HandsAreFree
<1>2. finished' = [finished EXCEPT ![r] = 1]  BY <1>1 DEF FinishInvoke, TypeOK
<1>3. \A q \in Reqs \ {r} : freed'[q] = freed[q] /\ pc'[q] = pc[q] /\ back'[q] = back[q]
  BY DEF FinishInvoke, TypeOK
<1>4. /\ pc'[r] = IF kind[r] = "Sync" /\ pc[r] = "waiting" THEN "woken" ELSE pc[r]
      /\ back'[r] = (kind[r] = "Sync")
      /\ freed'[r] = (freed[r] \/ kind[r] = "Loop")
  BY DEF FinishInvoke, TypeOK
<1>5. \A q \in Reqs \ {r} : finished'[q] = finished[q]  BY <1>2 DEF TypeOK
<1>6. finished'[r] = 1  BY <1>2 DEF TypeOK
<1>7. FreshIsOpen'  BY <1>1, <1>3, <1>4, <1>5 DEF ReqInv, FreshIsOpen
<1>8. AtMostOnce'  BY <1>5, <1>6 DEF ReqInv, AtMostOnce
<1>9. MessagesAreOver'
  <2> SUFFICES ASSUME NEW i \in DOMAIN messages'
               PROVE  finished'[messages'[i]] = 1 /\ kind[messages'[i]] = "Async"
    BY DEF MessagesAreOver
  <2>1. \A j \in DOMAIN messages : messages[j] \in Reqs  BY DEF TypeOK
  <2>2. \A j \in DOMAIN messages : finished'[messages[j]] = 1 /\ kind[messages[j]] = "Async"
    BY <1>5, <1>6, <2>1 DEF ReqInv, MessagesAreOver
  <2>3. CASE kind[r] # "Async"  BY <2>2, <2>3 DEF FinishInvoke
  <2>4. CASE kind[r] = "Async"
    <3>1. messages' = Append(messages, r)  BY <2>4 DEF FinishInvoke
    <3>2. messages \in Seq(Reqs)  BY DEF TypeOK
    <3>3. i \in DOMAIN messages \/ messages'[i] = r  BY <3>1, <3>2, AppendFacts
    <3>4. i \in DOMAIN messages => messages'[i] = messages[i]  BY <3>1, <3>2, AppendFacts
    <3> QED  BY <1>6, <2>2, <2>4, <3>3, <3>4
  <2> QED  BY <2>3, <2>4
<1>10. SyncLives'
  <2> SUFFICES ASSUME NEW q \in Reqs
               PROVE  /\ pc'[q] = "woken" => finished'[q] = 1
                      /\ pc'[q] = "waiting" => finished'[q] = 0
                      /\ kind[q] = "Sync" /\ freed'[q] => pc'[q] = "done"
                      /\ back'[q] => finished'[q] = 1
                      /\ finished'[q] = 1 /\ kind[q] = "Sync" => back'[q]
    BY DEF SyncLives
  <2>1. CASE q # r  BY <1>3, <1>5, <2>1 DEF ReqInv, SyncLives
  <2>2. CASE q = r
    <3>1. pc'[r] # "waiting"  BY <1>1, <1>4 DEF ReqInv, PathOfKind
    <3>2. kind[r] = "Sync" /\ freed'[r] => pc'[r] = "done"  BY <1>1, <1>4
    <3>3. kind[r] = "Sync" => back'[r]  BY <1>4
    <3> QED  BY <1>6, <2>2, <3>1, <3>2, <3>3
  <2> QED  BY <2>1, <2>2
<1>11. PathOfKind'  BY <1>1, <1>3, <1>4 DEF ReqInv, PathOfKind
<1>12. ASSUME NEW q \in Reqs  PROVE Calling(q)' <=> Calling(q)
  <2>1. pc'[q] = pc[q] \/ (pc[q] = "waiting" /\ pc'[q] = "woken")  BY <1>3, <1>4
  <2> QED  BY <2>1 DEF Calling
<1> QED  BY <1>1, <1>2, <1>3, <1>4, <1>7, <1>8, <1>9, <1>10, <1>11, <1>12

(* The steps of the calling threads keep what is said of the requests.       *)
LEMMA CallerReqs ==
    ASSUME TypeOK, ReqInv, NEW r \in Reqs, Caller(r)
    PROVE  ReqInv'
<1> USE DEF ReqInv, OnePlace, HandsAreFree, InHands, Held, FreshIsOpen, AtMostOnce, SyncLives,
            PathOfKind, NetCalls, Calling, NoAnswer, Kind
<1>0. \A i \in DOMAIN messages : messages[i] \in Reqs  BY DEF TypeOK
<1>1. CASE Begin(r)
  <2>1. PICK k \in setup.kinds :
          /\ pc[r] = "new" /\ pc' = [pc EXCEPT ![r] = "select"]
          /\ kind' = [kind EXCEPT ![r] = k]
          /\ k = "Loop" => npc = "loop"
          /\ npc' = IF k = "Loop" THEN "invoke" ELSE npc
          /\ UNCHANGED <<back, freed, finished, messages, pending, todo, at>>
    BY <1>1 DEF Begin, mapVars, histVars
  <2>2. finished[r] = 0 /\ ~freed[r] /\ ~InHands(r)  BY <2>1
  <2>3. OnePlace' /\ HandsAreFree'  BY <2>1, <2>2 DEF TypeOK
  <2>4. FreshIsOpen' /\ AtMostOnce'  BY <2>1, <2>2 DEF TypeOK
  <2>5. MessagesAreOver'  BY <1>0, <2>1, <2>2 DEF TypeOK, MessagesAreOver
  <2>6. SyncLives'  BY <2>1, <2>2 DEF TypeOK
  <2>7. PathOfKind' /\ NetCalls'  BY <2>1 DEF TypeOK
  <2> QED  BY <2>3, <2>4, <2>5, <2>6, <2>7
<1>2. CASE Select(r) \/ BroadcastBegin(r)
  <2>1. /\ pc[r] = "select" /\ ~InHands(r)
        /\ pc' = [pc EXCEPT ![r] = IF kind[r] # "Broadcast" THEN "send" ELSE "broadcast"]
        /\ UNCHANGED <<kind, back, freed, finished, messages, pending, todo, at, npc>>
    BY <1>2 DEF Select, BroadcastBegin, mapVars, netVars, histVars
  <2>2. OnePlace' /\ HandsAreFree'  BY <2>1 DEF TypeOK
  <2>3. FreshIsOpen' /\ AtMostOnce'  BY <2>1 DEF TypeOK
  <2>4. MessagesAreOver'  BY <2>1 DEF MessagesAreOver
  <2>5. SyncLives'  BY <2>1 DEF TypeOK
  <2>6. PathOfKind' /\ NetCalls'  BY <2>1 DEF TypeOK
  <2> QED  BY <2>2, <2>3, <2>4, <2>5, <2>6
<1>3. CASE NoEndPoint(r)
  <2>1. /\ pc[r] = "select" /\ ~InHands(r) /\ finished[r] = 0
        /\ pc' = [pc EXCEPT ![r] = "done"]
        /\ finished' = [finished EXCEPT ![r] = IF kind[r] = "OneWay" THEN @ ELSE @ + 1]
        /\ back' = [back EXCEPT ![r] = kind[r] = "Sync"]
        /\ freed' = [freed EXCEPT ![r] = TRUE]
        /\ UNCHANGED <<kind, messages, pending, todo, at>>
        /\ npc' = IF kind[r] = "Loop" THEN "loop" ELSE npc
    BY <1>3 DEF NoEndPoint, NetBack, ByNet, mapVars
  <2>2. kind[r] = "Loop" => npc = "invoke"  BY <2>1
  <2>3. OnePlace' /\ HandsAreFree'  BY <2>1, <2>2 DEF TypeOK
  <2>4. FreshIsOpen' /\ AtMostOnce'  BY <2>1 DEF TypeOK
  <2>5. MessagesAreOver'  BY <1>0, <2>1 DEF MessagesAreOver, TypeOK
  <2>6. SyncLives'
    <3>1. \A q \in Reqs \ {r} : pc'[q] = pc[q] /\ back'[q] = back[q] /\ freed'[q] = freed[q] /\ finished'[q] = finished[q]
      BY <2>1 DEF TypeOK
    <3>2. /\ pc'[r] = "done" /\ back'[r] = (kind[r] = "Sync")
          /\ kind[r] = "Sync" => finished'[r] = 1
      BY <2>1 DEF TypeOK
    <3>3. kind' = kind  BY <2>1
    <3> QED  BY <3>1, <3>2, <3>3
  <2>7. PathOfKind' /\ NetCalls'  BY <2>1 DEF TypeOK
  <2> QED  BY <2>3, <2>4, <2>5, <2>6, <2>7
<1>4. CASE Send(r)
  <2>1. /\ pc[r] = "send" /\ ~InHands(r)
        /\ pc' = [pc EXCEPT ![r] = IF kind[r] = "OneWay" THEN "done" ELSE "save"]
        /\ freed' = [freed EXCEPT ![r] = kind[r] = "OneWay"]
        /\ UNCHANGED <<kind, back, finished, messages, pending, todo, at, npc>>
    BY <1>4 DEF Send, mapVars, netVars, histVars
  <2>2. OnePlace' /\ HandsAreFree'  BY <2>1 DEF TypeOK
  <2>3. FreshIsOpen' /\ AtMostOnce'  BY <2>1 DEF TypeOK
  <2>4. MessagesAreOver'  BY <2>1 DEF MessagesAreOver
  <2>5. SyncLives'  BY <2>1 DEF TypeOK
  <2>6. PathOfKind' /\ NetCalls'  BY <2>1 DEF TypeOK
  <2> QED  BY <2>2, <2>3, <2>4, <2>5, <2>6
<1>5. CASE Save(r)
  <2>1. /\ pc[r] = "save" /\ ~InHands(r)
        /\ pc' = [pc EXCEPT ![r] = "timer"] /\ pending' = pending \cup {r}
        /\ UNCHANGED <<kind, back, freed, finished, messages, todo, at, npc>>
    BY <1>5 DEF Save, netVars, histVars
  <2>2. OnePlace' /\ HandsAreFree'  BY <2>1 DEF TypeOK
  <2>3. FreshIsOpen' /\ AtMostOnce'  BY <2>1 DEF TypeOK
  <2>4. MessagesAreOver'  BY <2>1 DEF MessagesAreOver
  <2>5. SyncLives'  BY <2>1 DEF TypeOK
  <2>6. PathOfKind' /\ NetCalls'  BY <2>1 DEF TypeOK
  <2> QED  BY <2>2, <2>3, <2>4, <2>5, <2>6
<1>6. CASE AddTimer(r)
  <2>1. /\ pc[r] = "timer"
        /\ pc' = [pc EXCEPT ![r] = IF kind[r] = "Sync" THEN "check" ELSE "done"]
        /\ UNCHANGED <<kind, back, freed, finished, messages, pending, todo, at>>
        /\ npc' = IF kind[r] = "Loop" THEN "loop" ELSE npc
    BY <1>6 DEF AddTimer, NetBack, ByNet, histVars
  <2>2. kind[r] = "Loop" => npc = "invoke"  BY <2>1
  <2>3. OnePlace' /\ HandsAreFree'  BY <2>1, <2>2 DEF TypeOK
  <2>4. FreshIsOpen' /\ AtMostOnce'  BY <2>1 DEF TypeOK
  <2>5. MessagesAreOver'  BY <2>1 DEF MessagesAreOver
  <2>6. SyncLives'  BY <2>1 DEF TypeOK
  <2>7. PathOfKind' /\ NetCalls'  BY <2>1 DEF TypeOK
  <2> QED  BY <2>3, <2>4, <2>5, <2>6, <2>7
<1>7. CASE CheckBack(r)
  <2>1. /\ pc[r] = "check"
        /\ pc' = [pc EXCEPT ![r] = IF back[r] THEN "woken" ELSE "waiting"]
        /\ UNCHANGED <<kind, back, freed, finished, messages, pending, todo, at, npc>>
    BY <1>7 DEF CheckBack, mapVars, netVars, histVars
  <2>2. finished[r] = IF back[r] THEN 1 ELSE 0  BY <2>1 DEF TypeOK
  <2>3. OnePlace' /\ HandsAreFree'  BY <2>1, <2>2 DEF TypeOK
  <2>4. FreshIsOpen' /\ AtMostOnce'  BY <2>1 DEF TypeOK
  <2>5. MessagesAreOver'  BY <2>1 DEF MessagesAreOver
  <2>6. SyncLives'  BY <2>1, <2>2 DEF TypeOK
  <2>7. PathOfKind' /\ NetCalls'  BY <2>1 DEF TypeOK
  <2> QED  BY <2>3, <2>4, <2>5, <2>6, <2>7
<1>8. CASE Return(r) \/ BroadcastEnd(r)
  <2>1. /\ pc[r] \in {"woken", "broadcast"} /\ ~InHands(r)
        /\ pc' = [pc EXCEPT ![r] = "done"] /\ freed' = [freed EXCEPT ![r] = TRUE]
        /\ UNCHANGED <<kind, back, finished, messages, pending, todo, at, npc>>
    BY <1>8 DEF Return, BroadcastEnd, mapVars, netVars, histVars
  <2>2. OnePlace' /\ HandsAreFree'  BY <2>1 DEF TypeOK
  <2>3. FreshIsOpen' /\ AtMostOnce'  BY <2>1 DEF TypeOK
  <2>4. MessagesAreOver'  BY <2>1 DEF MessagesAreOver
  <2>5. SyncLives'  BY <2>1 DEF TypeOK
  <2>6. PathOfKind' /\ NetCalls'  BY <2>1 DEF TypeOK
  <2> QED  BY <2>2, <2>3, <2>4, <2>5, <2>6
<1>9. ASSUME NEW e \in EPs, BroadcastOne(r, e)  PROVE ReqInv'
  <2>1. UNCHANGED <<pc, kind, back, freed, finished, messages, pending, todo, npc, at>>
    BY <1>9 DEF BroadcastOne, reqVars, mapVars, netVars, histVars
  <2> QED  BY <2>1, ReqFrame
<1> QED  BY <1>1, <1>2, <1>3, <1>4, <1>5, <1>6, <1>7, <1>8, <1>9 DEF Caller

(* The steps of the net thread, the peers and the main loop keep what is     *)
(* said of the requests.                                                     *)
LEMMA NetReqs ==
    ASSUME TypeOK, ReqInv, Handling \/ Event \/ Dispatch \/ \E r \in Reqs : ReqTimeOut(r)
    PROVE  ReqInv'
<1> USE DEF ReqInv, OnePlace, HandsAreFree, InHands, Held, NetCalls
<1> DEFINE Same == UNCHANGED <<pc, kind, back, freed, finished, messages>>
<1>1. CASE ConnectCmd \/ SendCmd \/ \E c \in Conns : ConnectReady(c) \/ ConnectLost(c) \/ PeerClose(c)
  <2>1. /\ npc = "loop" /\ Same /\ UNCHANGED <<pending, todo>>
        /\ UNCHANGED <<npc, at>> \/ npc' = "move"
    BY <1>1 DEF ConnectCmd, SendCmd, ConnectReady, ConnectLost, PeerClose, Opened, Closed,
                reqVars, mapVars, netVars, histVars
  <2> QED  BY <2>1, ReqFrame
<1>2. CASE MoveToInactive
  <2>1. /\ npc = "move" /\ Same /\ UNCHANGED <<pending, todo>>
        /\ npc' \in {"undefined", "sweep"}
    BY <1>2 DEF MoveToInactive, reqVars, mapVars
  <2> QED  BY <2>1, ReqFrame
<1>3. CASE Sweep
  <2>1. /\ npc = "sweep" /\ npc' = "fail" /\ Same /\ at' = at
        /\ todo' \subseteq pending /\ pending' = pending \ todo'
    BY <1>3 DEF Sweep, reqVars, histVars
  <2>2. OnePlace' /\ HandsAreFree'  BY <2>1
  <2>3. FreshIsOpen' /\ AtMostOnce' /\ MessagesAreOver' /\ SyncLives'
    BY <2>1 DEF FreshIsOpen, AtMostOnce, MessagesAreOver, SyncLives
  <2>4. PathOfKind' /\ NetCalls'  BY <2>1 DEF PathOfKind, Calling
  <2> QED  BY <2>2, <2>3, <2>4
<1>4. CASE UntimeOne \/ CloseDone
  <2>1. /\ npc \in {"untime", "fail"} /\ npc' \in {"fail", "loop"} /\ Same /\ UNCHANGED <<pending, todo>>
        /\ npc' = "loop" => todo = {}
    BY <1>4 DEF UntimeOne, CloseDone, reqVars, mapVars, histVars
  <2>2. OnePlace' /\ HandsAreFree'  BY <2>1
  <2>3. FreshIsOpen' /\ AtMostOnce' /\ MessagesAreOver' /\ SyncLives'
    BY <2>1 DEF FreshIsOpen, AtMostOnce, MessagesAreOver, SyncLives
  <2>4. PathOfKind' /\ NetCalls'  BY <2>1 DEF PathOfKind, Calling
  <2> QED  BY <2>2, <2>3, <2>4
<1>5. CASE UntimeAnswered
  <2>1. npc = "arrived" /\ npc' = "answer" /\ Same /\ UNCHANGED <<pending, todo, at>>
    BY <1>5 DEF UntimeAnswered, reqVars, histVars
  <2>2. OnePlace' /\ HandsAreFree'  BY <2>1
  <2>3. FreshIsOpen' /\ AtMostOnce' /\ MessagesAreOver' /\ SyncLives'
    BY <2>1 DEF FreshIsOpen, AtMostOnce, MessagesAreOver, SyncLives
  <2>4. PathOfKind' /\ NetCalls'  BY <2>1 DEF PathOfKind, Calling
  <2> QED  BY <2>2, <2>3, <2>4
<1>6. CASE FinishAnswered
  <2> DEFINE r == at.req
  <2>1. /\ npc = "answer" /\ npc' = "loop" /\ r \in Reqs /\ FinishInvoke(r, "Ok")
        /\ UNCHANGED <<kind, pending, todo>>
    BY <1>6 DEF FinishAnswered, TypeOK
  <2>2. InHands(r) /\ r \notin pending  BY <2>1
  <2> HIDE DEF r
  <2>3. /\ finished' = [finished EXCEPT ![r] = 1]
        /\ \A q \in Reqs \ {r} : (freed'[q] <=> freed[q]) /\ pc'[q] = pc[q]
        /\ PathOfKind' /\ FreshIsOpen' /\ AtMostOnce' /\ MessagesAreOver' /\ SyncLives'
        /\ \A q \in Reqs : Calling(q)' <=> Calling(q)
    BY <2>1, <2>2, FinishInvokeFacts
  <2>4. OnePlace'  BY <2>1
  <2>5. HandsAreFree'  BY <2>1, <2>2, <2>3, <2>4 DEF TypeOK
  <2>6. NetCalls'  BY <2>1, <2>3
  <2> QED  BY <2>3, <2>4, <2>5, <2>6
<1>7. CASE TimeoutBegin \/ TimeoutEnd
  <2>1. /\ npc \in {"loop", "timeout"} /\ npc' \in {"loop", "timeout"} /\ Same
        /\ UNCHANGED <<pending, todo>>
    BY <1>7 DEF TimeoutBegin, TimeoutEnd, reqVars, histVars
  <2> QED  BY <2>1, ReqFrame
<1>8. ASSUME NEW r \in Reqs, FailOne(r)  PROVE ReqInv'
  <2>1. PICK st : /\ npc = "fail" /\ npc' = "untime" /\ r \in todo /\ FinishInvoke(r, st)
                  /\ todo' = todo \ {r} /\ at' = [at EXCEPT !.req = r]
                  /\ UNCHANGED <<kind, pending>>
    BY <1>8 DEF FailOne
  <2>2. InHands(r) /\ r \notin pending  BY <2>1
  <2>3. /\ finished' = [finished EXCEPT ![r] = 1]
        /\ \A q \in Reqs \ {r} : (freed'[q] <=> freed[q]) /\ pc'[q] = pc[q]
        /\ PathOfKind' /\ FreshIsOpen' /\ AtMostOnce' /\ MessagesAreOver' /\ SyncLives'
        /\ \A q \in Reqs : Calling(q)' <=> Calling(q)
    BY <2>1, <2>2, FinishInvokeFacts
  <2>4. OnePlace'  BY <2>1
  <2>5. at'.req = r  BY <2>1 DEF TypeOK
  <2>6. HandsAreFree'  BY <2>1, <2>2, <2>3, <2>5 DEF TypeOK
  <2>7. NetCalls'  BY <2>1, <2>3
  <2> QED  BY <2>3, <2>4, <2>6, <2>7
<1>9. ASSUME NEW c \in Conns, NEW r \in Reqs, Answer(c, r)  PROVE ReqInv'
  <2>1. Same /\ UNCHANGED <<pending, todo, npc, at>>
    BY <1>9 DEF Answer, reqVars, mapVars, netVars
  <2> QED  BY <2>1, ReqFrame
<1>10. ASSUME NEW c \in Conns, NEW r \in Reqs, Packet(c, r)  PROVE ReqInv'
  <2>1. CASE r \notin pending
    <3>1. Same /\ UNCHANGED <<pending, todo, npc, at>>
      BY <1>10, <2>1 DEF Packet, reqVars, histVars
    <3> QED  BY <3>1, ReqFrame
  <2>2. CASE r \in pending
    <3>1. /\ npc = "loop" /\ npc' = "arrived" /\ Same /\ todo' = todo
          /\ pending' = pending \ {r} /\ at' = [at EXCEPT !.req = r]
      BY <1>10, <2>2 DEF Packet, reqVars, histVars
    <3>2. at'.req = r  BY <3>1 DEF TypeOK
    <3>3. OnePlace' /\ HandsAreFree'  BY <2>2, <3>1, <3>2
    <3>4. FreshIsOpen' /\ AtMostOnce' /\ MessagesAreOver' /\ SyncLives'
      BY <3>1 DEF FreshIsOpen, AtMostOnce, MessagesAreOver, SyncLives
    <3>5. PathOfKind' /\ NetCalls'  BY <3>1 DEF PathOfKind, Calling
    <3> QED  BY <3>3, <3>4, <3>5
  <2> QED  BY <2>1, <2>2
<1>11. ASSUME NEW A \in SUBSET setup.eps, UpdateEndPoints(A)  PROVE ReqInv'
  <2>1. Same /\ UNCHANGED <<pending, todo, npc, at>>
    BY <1>11 DEF UpdateEndPoints, reqVars, mapVars, netVars, histVars
  <2> QED  BY <2>1, ReqFrame
<1>12. CASE Dispatch
  <2> DEFINE m == Head(messages)
  <2>1. /\ messages # <<>> /\ messages' = Tail(messages) /\ freed' = [freed EXCEPT ![m] = TRUE]
        /\ UNCHANGED <<pc, kind, back, finished, pending, todo, npc, at>>
    BY <1>12 DEF Dispatch, netVars, histVars
  <2>2. /\ m \in Reqs /\ 1 \in DOMAIN messages /\ m = messages[1]
        /\ \A i \in DOMAIN messages' : i + 1 \in DOMAIN messages /\ messages'[i] = messages[i + 1]
    BY <2>1, TailFacts DEF TypeOK
  <2>3. finished[m] = 1 /\ kind[m] = "Async"  BY <2>2 DEF MessagesAreOver
  <2> HIDE DEF m
  <2>4. OnePlace' /\ HandsAreFree'  BY <2>1, <2>2, <2>3 DEF TypeOK
  <2>5. FreshIsOpen' /\ AtMostOnce'  BY <2>1, <2>2, <2>3 DEF FreshIsOpen, AtMostOnce, TypeOK
  <2>6. MessagesAreOver'  BY <2>1, <2>2 DEF MessagesAreOver
  <2>7. SyncLives'  BY <2>1, <2>2, <2>3 DEF SyncLives, TypeOK
  <2>8. PathOfKind' /\ NetCalls'  BY <2>1 DEF PathOfKind, Calling
  <2> QED  BY <2>4, <2>5, <2>6, <2>7, <2>8
<1>13. ASSUME NEW r \in Reqs, ReqTimeOut(r)  PROVE ReqInv'
  <2>1. CASE r \notin pending
    <3>1. Same /\ UNCHANGED <<pending, todo, npc, at>>
      BY <1>13, <2>1 DEF ReqTimeOut, netVars
    <3> QED  BY <3>1, ReqFrame
  <2>2. CASE r \in pending
    <3>1. /\ npc = "timeout" /\ FinishInvoke(r, "TimeOut") /\ pending' = pending \ {r}
          /\ UNCHANGED <<kind, todo, npc, at>>
      BY <1>13, <2>2 DEF ReqTimeOut, netVars
    <3>2. /\ finished' = [finished EXCEPT ![r] = 1]
          /\ \A q \in Reqs \ {r} : (freed'[q] <=> freed[q]) /\ pc'[q] = pc[q]
          /\ PathOfKind' /\ FreshIsOpen' /\ AtMostOnce' /\ MessagesAreOver' /\ SyncLives'
          /\ \A q \in Reqs : Calling(q)' <=> Calling(q)
      BY <2>2, <3>1, FinishInvokeFacts
    <3>3. OnePlace'  BY <3>1
    <3>4. HandsAreFree'  BY <2>2, <3>1, <3>2 DEF TypeOK
    <3>5. NetCalls'  BY <3>1, <3>2
    <3> QED  BY <3>2, <3>3, <3>4, <3>5
  <2> QED  BY <2>1, <2>2
<1> QED  BY <1>1, <1>2, <1>3, <1>4, <1>5, <1>6, <1>7, <1>8, <1>9, <1>10, <1>11, <1>12, <1>13
         DEF Handling, Event

-----------------------------------------------------------------------------
(* NoOrphan *)

(* No step of a calling thread forgets a request.                            *)
LEMMA CallerOrphans ==
    ASSUME TypeOK, ReqInv, NoOrphan, NEW r \in Reqs, Caller(r)
    PROVE  NoOrphan'
<1> USE DEF NoOrphan, ReqInv, NoAnswer
<1>1. CASE Begin(r)
  <2>1. /\ pc[r] = "new" /\ pc' = [pc EXCEPT ![r] = "select"]
        /\ \A q \in Reqs \ {r} : kind'[q] = kind[q]
        /\ npc' = npc \/ npc = "loop"
        /\ UNCHANGED <<finished, pending, timers, todo, at, wild>>
    BY <1>1 DEF Begin, mapVars, histVars, TypeOK
  <2> QED  BY <2>1 DEF TypeOK
<1>2. CASE Select(r) \/ BroadcastBegin(r)
  <2>1. /\ pc[r] = "select" /\ pc' = [pc EXCEPT ![r] = pc'[r]] /\ pc'[r] \in {"send", "broadcast"}
        /\ UNCHANGED <<kind, finished, pending, timers, todo, at, npc, wild>>
    BY <1>2 DEF Select, BroadcastBegin, mapVars, netVars, histVars, TypeOK
  <2> QED  BY <2>1 DEF TypeOK
<1>3. CASE NoEndPoint(r)
  <2>1. /\ pc[r] = "select" /\ pc' = [pc EXCEPT ![r] = "done"]
        /\ finished' = [finished EXCEPT ![r] = IF kind[r] = "OneWay" THEN @ ELSE @ + 1]
        /\ npc' = IF kind[r] = "Loop" THEN "loop" ELSE npc
        /\ UNCHANGED <<kind, pending, timers, todo, at, wild>>
    BY <1>3 DEF NoEndPoint, NetBack, ByNet, mapVars
  <2>2. kind[r] = "Loop" => npc = "invoke"  BY <2>1 DEF NetCalls, Calling
  <2>3. finished[r] = 0  BY <2>1 DEF FreshIsOpen
  <2> QED  BY <2>1, <2>2, <2>3 DEF TypeOK
<1>4. CASE Send(r)
  <2>1. /\ pc[r] = "send"
        /\ pc' = [pc EXCEPT ![r] = IF kind[r] = "OneWay" THEN "done" ELSE "save"]
        /\ UNCHANGED <<kind, finished, pending, timers, todo, at, npc, wild>>
    BY <1>4 DEF Send, mapVars, netVars, histVars
  <2> QED  BY <2>1 DEF TypeOK
<1>5. CASE Save(r)
  <2>1. /\ pc[r] = "save" /\ pc' = [pc EXCEPT ![r] = "timer"] /\ pending' = pending \cup {r}
        /\ UNCHANGED <<kind, finished, timers, todo, at, npc, wild>>
    BY <1>5 DEF Save, netVars, histVars
  <2> QED  BY <2>1 DEF TypeOK
<1>6. CASE AddTimer(r)
  <2>1. /\ pc[r] = "timer" /\ timers' = timers \cup {r}
        /\ pc' = [pc EXCEPT ![r] = IF kind[r] = "Sync" THEN "check" ELSE "done"]
        /\ npc' = IF kind[r] = "Loop" THEN "loop" ELSE npc
        /\ UNCHANGED <<kind, finished, pending, todo, at, wild>>
    BY <1>6 DEF AddTimer, NetBack, ByNet, histVars
  <2>2. kind[r] = "Loop" => npc = "invoke"  BY <2>1 DEF NetCalls, Calling
  <2> QED  BY <2>1, <2>2 DEF TypeOK
<1>7. CASE CheckBack(r)
  <2>1. /\ pc[r] = "check" /\ pc' = [pc EXCEPT ![r] = IF back[r] THEN "woken" ELSE "waiting"]
        /\ UNCHANGED <<kind, finished, pending, timers, todo, at, npc, wild>>
    BY <1>7 DEF CheckBack, mapVars, netVars, histVars
  <2> QED  BY <2>1 DEF TypeOK
<1>8. CASE Return(r) \/ BroadcastEnd(r)
  <2>1. /\ pc[r] \in {"woken", "broadcast"} /\ pc' = [pc EXCEPT ![r] = "done"]
        /\ UNCHANGED <<kind, finished, pending, timers, todo, at, npc, wild>>
    BY <1>8 DEF Return, BroadcastEnd, mapVars, netVars, histVars
  <2>2. finished[r] = 1 \/ kind[r] = "Broadcast"  BY <2>1 DEF SyncLives, PathOfKind
  <2> QED  BY <2>1, <2>2 DEF TypeOK
<1>9. ASSUME NEW e \in EPs, BroadcastOne(r, e)  PROVE NoOrphan'
  BY <1>9 DEF BroadcastOne, reqVars, mapVars, netVars, histVars
<1> QED  BY <1>1, <1>2, <1>3, <1>4, <1>5, <1>6, <1>7, <1>8, <1>9 DEF Caller

(* No step of the net thread or the main loop forgets a request, unless      *)
(* onClose() reads a deleted one and takes another request's timer.          *)
LEMMA NetOrphans ==
    ASSUME TypeOK, ReqInv, NoOrphan, Handling \/ Event \/ Dispatch \/ \E r \in Reqs : ReqTimeOut(r)
    PROVE  NoOrphan'
<1> USE DEF NoOrphan
<1> DEFINE Same == UNCHANGED <<pc, kind, finished, pending, timers, todo>>
<1>1. CASE \/ ConnectCmd \/ SendCmd \/ MoveToInactive \/ TimeoutBegin \/ TimeoutEnd
           \/ \E c \in Conns : ConnectReady(c) \/ ConnectLost(c) \/ PeerClose(c)
  <2>1. npc \in {"loop", "move", "timeout"} /\ Same /\ wild' = wild
    BY <1>1 DEF ConnectCmd, SendCmd, MoveToInactive, TimeoutBegin, TimeoutEnd, ConnectReady,
                ConnectLost, PeerClose, Opened, Closed, reqVars, mapVars, netVars, histVars
  <2> QED  BY <2>1
<1>2. CASE Sweep
  <2>1. /\ npc = "sweep" /\ UNCHANGED <<pc, kind, finished, timers, wild>>
        /\ todo' \subseteq pending /\ pending' = pending \ todo'
    BY <1>2 DEF Sweep, reqVars, histVars
  <2>2. todo = {}  BY <2>1 DEF ReqInv, OnePlace
  <2> QED  BY <2>1, <2>2
<1>3. CASE UntimeOne
  <2>1. CASE freed[at.req]
    <3>1. wild'  BY <1>3, <2>1 DEF UntimeOne
    <3> QED  BY <3>1
  <2>2. CASE ~freed[at.req]
    <3>1. /\ npc = "untime" /\ timers' = timers \ {at.req}
          /\ wild => wild'
          /\ UNCHANGED <<pc, kind, finished, pending, todo>>
      BY <1>3, <2>2 DEF UntimeOne, reqVars
    <3>2. finished[at.req] = 1  BY <3>1 DEF ReqInv, HandsAreFree
    <3> QED  BY <2>2, <3>1, <3>2
  <2> QED  BY <2>1, <2>2
<1>4. CASE CloseDone
  <2>1. npc = "fail" /\ Same /\ wild' = wild
    BY <1>4 DEF CloseDone, reqVars, mapVars, histVars
  <2> QED  BY <2>1
<1>5. CASE UntimeAnswered
  <2>1. /\ npc = "arrived" /\ npc' = "answer" /\ timers' = timers \ {at.req}
        /\ UNCHANGED <<pc, kind, finished, pending, todo, at, wild>>
    BY <1>5 DEF UntimeAnswered, reqVars, histVars
  <2> QED  BY <2>1
<1>6. CASE FinishAnswered
  <2>1. /\ npc = "answer" /\ at.req \in Reqs /\ FinishInvoke(at.req, "Ok")
        /\ UNCHANGED <<kind, pending, timers, todo, wild>>
    BY <1>6 DEF FinishAnswered, TypeOK
  <2>2. /\ finished' = [finished EXCEPT ![at.req] = 1]
        /\ \A q \in Reqs \ {at.req} : pc'[q] = pc[q]
    BY <2>1, FinishInvokeFacts DEF InHands, Held
  <2> QED  BY <2>1, <2>2 DEF TypeOK
<1>7. ASSUME NEW r \in Reqs, FailOne(r)  PROVE NoOrphan'
  <2>1. PICK st : /\ npc = "fail" /\ r \in todo /\ FinishInvoke(r, st)
                  /\ todo' = todo \ {r}
                  /\ UNCHANGED <<kind, pending, timers, wild>>
    BY <1>7 DEF FailOne
  <2>2. /\ finished' = [finished EXCEPT ![r] = 1]
        /\ \A q \in Reqs \ {r} : pc'[q] = pc[q]
    BY <2>1, FinishInvokeFacts DEF InHands
  <2> QED  BY <2>1, <2>2 DEF TypeOK
<1>8. ASSUME NEW c \in Conns, NEW r \in Reqs, Answer(c, r)  PROVE NoOrphan'
  BY <1>8 DEF Answer, reqVars, mapVars, netVars
<1>9. ASSUME NEW c \in Conns, NEW r \in Reqs, Packet(c, r)  PROVE NoOrphan'
  <2>1. CASE r \notin pending
    <3>1. Same /\ UNCHANGED <<npc, at, wild>>
      BY <1>9, <2>1 DEF Packet, reqVars, histVars
    <3> QED  BY <3>1
  <2>2. CASE r \in pending
    <3>1. /\ npc = "loop" /\ npc' = "arrived" /\ at' = [at EXCEPT !.req = r]
          /\ pending' = pending \ {r}
          /\ UNCHANGED <<pc, kind, finished, timers, todo, wild>>
      BY <1>9, <2>2 DEF Packet, reqVars, histVars
    <3>2. at'.req = r  BY <3>1 DEF TypeOK
    <3> QED  BY <3>1, <3>2
  <2> QED  BY <2>1, <2>2
<1>10. ASSUME NEW A \in SUBSET setup.eps, UpdateEndPoints(A)  PROVE NoOrphan'
  BY <1>10 DEF UpdateEndPoints, reqVars, mapVars, netVars, histVars
<1>11. CASE Dispatch
  <2>1. Same /\ UNCHANGED <<npc, at, wild>>  BY <1>11 DEF Dispatch, netVars, histVars
  <2> QED  BY <2>1
<1>12. ASSUME NEW r \in Reqs, ReqTimeOut(r)  PROVE NoOrphan'
  <2>1. CASE r \notin pending
    <3>1. /\ timers' = timers \ {r}
          /\ UNCHANGED <<pc, kind, finished, pending, todo, npc, at, wild>>
      BY <1>12, <2>1 DEF ReqTimeOut, netVars
    <3> QED  BY <2>1, <3>1
  <2>2. CASE r \in pending
    <3>1. /\ FinishInvoke(r, "TimeOut") /\ pending' = pending \ {r} /\ timers' = timers \ {r}
          /\ UNCHANGED <<kind, todo, npc, at, wild>>
      BY <1>12, <2>2 DEF ReqTimeOut, netVars
    <3>2. /\ finished' = [finished EXCEPT ![r] = 1]
          /\ \A q \in Reqs \ {r} : pc'[q] = pc[q]
      BY <2>2, <3>1, FinishInvokeFacts DEF InHands
    <3> QED  BY <3>1, <3>2 DEF TypeOK
  <2> QED  BY <2>1, <2>2
<1> QED  BY <1>1, <1>2, <1>3, <1>4, <1>5, <1>6, <1>7, <1>8, <1>9, <1>10, <1>11, <1>12
         DEF Handling, Event

-----------------------------------------------------------------------------
(* BroadcastCovers, and what is said of the ways of requests and answers *)

(* m_activeEndPoints keeps still while a broadcast goes over it.             *)
LEMMA BroadcastStep ==
    ASSUME TypeOK, BroadcastCovers, Next
    PROVE  BroadcastCovers'
<1> USE DEF BroadcastCovers, EpUnlocked
<1>1. ASSUME NEW r \in Reqs, Caller(r)  PROVE BroadcastCovers'
  <2>1. CASE BroadcastBegin(r)
    <3>1. given' = {}  BY <2>1 DEF BroadcastBegin
    <3> QED  BY <3>1
  <2>2. ASSUME NEW e \in EPs, BroadcastOne(r, e)  PROVE BroadcastCovers'
    <3>1. e \in active /\ given' = given \cup {e} /\ UNCHANGED <<pc, active>>
      BY <2>2 DEF BroadcastOne, reqVars
    <3> QED  BY <3>1
  <2>3. CASE ~BroadcastBegin(r) /\ ~\E e \in EPs : BroadcastOne(r, e)
    <3>1. /\ \E x \in (InCall \cup {"done"}) \ {"broadcast"} : pc' = [pc EXCEPT ![r] = x]
          /\ UNCHANGED <<given, active>>
      BY <1>1, <2>3 DEF Caller, Begin, Select, NoEndPoint, Send, Save, AddTimer, CheckBack, Return,
                        BroadcastEnd, epVars, InCall
    <3> QED  BY <3>1 DEF TypeOK
  <2> QED  BY <2>1, <2>2, <2>3
<1>2. CASE Handling \/ Event \/ Dispatch \/ \E r \in Reqs : ReqTimeOut(r)
  <2>1. pc' = pc \/ \E q \in Reqs : \E st : FinishInvoke(q, st)
    <3>1. CASE FinishAnswered  BY <3>1 DEF FinishAnswered, TypeOK
    <3>2. CASE \E r \in Reqs : FailOne(r) \/ ReqTimeOut(r)  BY <3>2 DEF FailOne, ReqTimeOut
    <3>3. CASE ~FinishAnswered /\ ~\E r \in Reqs : FailOne(r) \/ ReqTimeOut(r)
      BY <1>2, <3>3 DEF Handling, Event, Dispatch, ConnectCmd, SendCmd, MoveToInactive, Sweep, UntimeOne,
           CloseDone, UntimeAnswered, TimeoutBegin, TimeoutEnd, ConnectReady, ConnectLost, PeerClose,
           Answer, Packet, UpdateEndPoints, reqVars
    <3> QED  BY <3>1, <3>2, <3>3
  <2>4. \A r \in Reqs : pc'[r] = "broadcast" => pc[r] = "broadcast"
    BY <2>1 DEF FinishInvoke, TypeOK
  <2>2. given' = given
    BY <1>2 DEF Handling, Event, Dispatch, ReqTimeOut, ConnectCmd, SendCmd, Opened, Closed,
          MoveToInactive, Sweep, UntimeOne, CloseDone, UntimeAnswered, FinishAnswered, TimeoutBegin,
          TimeoutEnd, FailOne, ConnectReady, ConnectLost, PeerClose, Answer, Packet, UpdateEndPoints, epVars
  <2>3. EpUnlocked \/ active' = active
    BY <1>2 DEF Handling, Event, Dispatch, ReqTimeOut, ConnectCmd, SendCmd, Opened, Closed,
          MoveToInactive, Sweep, UntimeOne, CloseDone, UntimeAnswered, FinishAnswered, TimeoutBegin,
          TimeoutEnd, FailOne, ConnectReady, ConnectLost, PeerClose, Answer, Packet, UpdateEndPoints, epVars
  <2> QED  BY <2>2, <2>3, <2>4
<1> QED  BY <1>1, <1>2 DEF Next

(* A request answered was sent, and what a request is told came from its     *)
(* peer.                                                                     *)
LEMMA AnswersStep ==
    ASSUME TypeOK, AnswersAreReal, Next
    PROVE  AnswersAreReal'
<1> USE DEF AnswersAreReal, Held
<1>1. ASSUME NEW r \in Reqs, Caller(r)  PROVE AnswersAreReal'
  <2>1. /\ \A q \in Reqs : rstatus'[q] = "Ok" => rstatus[q] = "Ok"
        /\ UNCHANGED <<resps, answered, at>>
        /\ npc' \in {npc, "loop", "invoke"}
    BY <1>1 DEF TypeOK, Caller, Begin, Select, NoEndPoint, Send, Save, AddTimer, CheckBack, Return,
         NetBack, BroadcastBegin, BroadcastOne, BroadcastEnd, reqVars, loopVars, netVars, histVars
  <2> QED  BY <2>1
<1>2. CASE \/ ConnectCmd \/ SendCmd \/ Sweep \/ CloseDone \/ MoveToInactive \/ UntimeOne
           \/ TimeoutBegin \/ TimeoutEnd \/ UntimeAnswered \/ Dispatch
           \/ \E c \in Conns : ConnectReady(c) \/ ConnectLost(c) \/ PeerClose(c)
           \/ \E A \in SUBSET setup.eps : UpdateEndPoints(A)
  <2>1. /\ UNCHANGED <<rstatus, answered>>
        /\ resps' = resps \/ \E c \in Conns : resps' = [resps EXCEPT ![c] = {}]
        /\ npc' \in {"arrived", "answer"} => npc \in {"arrived", "answer"} /\ at' = at
    <3>1. CASE ConnectCmd
      <4>1. npc = "loop" /\ (npc' = npc \/ npc' = "move") /\ UNCHANGED <<rstatus, answered>>
        BY <3>1 DEF ConnectCmd, Closed, Opened, netVars, reqVars, histVars
      <4>2. resps' = resps \/ resps' = [resps EXCEPT ![Head(cmds).c] = {}]
        BY <3>1 DEF ConnectCmd, Closed, Opened
      <4>3. Head(cmds).c \in Conns  BY <3>1, HeadOfCmds DEF ConnectCmd
      <4> QED  BY <4>1, <4>2, <4>3
    <3>2. CASE \E c \in Conns : ConnectReady(c) \/ ConnectLost(c) \/ PeerClose(c)
      BY <3>2 DEF ConnectReady, ConnectLost, PeerClose, Closed, Opened, netVars, reqVars, histVars
    <3>3. CASE ~ConnectCmd /\ ~\E c \in Conns : ConnectReady(c) \/ ConnectLost(c) \/ PeerClose(c)
      <4>1. UNCHANGED <<rstatus, answered, resps>>
        BY <1>2, <3>3 DEF SendCmd, Sweep, CloseDone, MoveToInactive, UntimeOne, TimeoutBegin, TimeoutEnd,
             UntimeAnswered, Dispatch, UpdateEndPoints, reqVars, loopVars, histVars
      <4>2. npc' \in {"arrived", "answer"} => npc \in {"arrived", "answer"} /\ at' = at
        BY <1>2, <3>3 DEF SendCmd, Sweep, CloseDone, MoveToInactive, UntimeOne, TimeoutBegin, TimeoutEnd,
             UntimeAnswered, Dispatch, UpdateEndPoints, netVars
      <4> QED  BY <4>1, <4>2
    <3> QED  BY <1>2, <3>1, <3>2, <3>3
  <2>2. \A c \in Conns : resps'[c] \subseteq resps[c]  BY <2>1 DEF TypeOK
  <2> QED  BY <2>1, <2>2
<1>3. CASE FinishAnswered
  <2>1. /\ npc = "answer" /\ at.req \in Reqs /\ npc' = "loop" /\ UNCHANGED <<resps, answered>>
        /\ rstatus' = [rstatus EXCEPT ![at.req] = "Ok"]
    BY <1>3 DEF FinishAnswered, FinishInvoke, loopVars, TypeOK
  <2>2. at.req \in answered  BY <2>1
  <2> QED  BY <2>1, <2>2 DEF TypeOK
<1>4. ASSUME NEW r \in Reqs, FailOne(r) \/ ReqTimeOut(r)  PROVE AnswersAreReal'
  <2>1. /\ npc \in {"fail", "timeout"} /\ npc' \in {"untime", "timeout"} /\ UNCHANGED <<resps, answered>>
        /\ rstatus' = rstatus \/ \E st \in Statuses \ {"Ok"} : rstatus' = [rstatus EXCEPT ![r] = st]
    BY <1>4 DEF FailOne, ReqTimeOut, FinishInvoke, loopVars, netVars, Statuses
  <2> QED  BY <2>1 DEF TypeOK
<1>5. ASSUME NEW c \in Conns, NEW r \in Reqs, Answer(c, r)  PROVE AnswersAreReal'
  <2>1. /\ resps' = [resps EXCEPT ![c] = @ \cup {r}] /\ answered' = answered \cup {r}
        /\ UNCHANGED <<rstatus, npc, at>>
    BY <1>5 DEF Answer, reqVars, netVars
  <2> QED  BY <2>1 DEF TypeOK
<1>6. ASSUME NEW c \in Conns, NEW r \in Reqs, Packet(c, r)  PROVE AnswersAreReal'
  <2>1. /\ r \in resps[c] /\ resps' = [resps EXCEPT ![c] = @ \ {r}] /\ UNCHANGED <<rstatus, answered>>
        /\ UNCHANGED <<npc, at>> \/ at' = [at EXCEPT !.req = r]
    BY <1>6 DEF Packet, reqVars, histVars
  <2>2. at' = at \/ at'.req = r  BY <2>1 DEF TypeOK
  <2>3. r \in answered  BY <2>1
  <2> QED  BY <2>1, <2>2, <2>3 DEF TypeOK
<1> QED  BY <1>1, <1>2, <1>3, <1>4, <1>5, <1>6 DEF Next, Handling, Event

-----------------------------------------------------------------------------
(* EndPointAgrees *)

(* Data for a connection is no Connect command.                              *)
LEMMA OnceWithSend ==
    ASSUME NEW q \in Seq(Cmd), NEW l, OncePerLink(q, l), NEW x \in Cmd, x.type = "Send"
    PROVE  OncePerLink(Append(q, x), l)
<1>1. \A i \in DOMAIN Append(q, x) : Append(q, x)[i].type = "Connect" =>
         i \in DOMAIN q /\ Append(q, x)[i] = q[i]
  BY AppendFacts
<1> QED  BY <1>1 DEF OncePerLink

(* Sending what an endpoint has buffered connects nothing again.             *)
LEMMA OnceWithFlush ==
    ASSUME TypeOK, NEW c \in Conns, host[c] \in EPs, NEW q \in Seq(Cmd), NEW l, OncePerLink(q, l)
    PROVE  OncePerLink(q \o Flush(c), l)
<1>1. [type |-> "Send", c |-> c, reqs |-> ebuf[host[c]]] \in Cmd  BY DEF TypeOK, Cmd
<1>2. [type |-> "Send", c |-> c, reqs |-> ebuf[host[c]]].type = "Send"  OBVIOUS
<1> QED  BY <1>1, <1>2, ConcatFacts, OnceWithSend DEF Flush

(* A Connect command for a connection that was not used yet.                 *)
LEMMA OnceWithConnect ==
    ASSUME NEW q \in Seq(Cmd), NEW l \in [Conns -> LinkStates], OncePerLink(q, l),
           NEW c \in Conns, l[c] = "unused"
    PROVE  OncePerLink(Append(q, [type |-> "Connect", c |-> c, reqs |-> {}]), [l EXCEPT ![c] = "asked"])
<1> DEFINE x == [type |-> "Connect", c |-> c, reqs |-> {}]
           p == Append(q, x)
           m == [l EXCEPT ![c] = "asked"]
<1>1. x \in Cmd /\ x.c = c  BY DEF Cmd
<1>2. \A i \in DOMAIN q : q[i].c \in Conns  BY CmdsOfQueue
<1>3. \A i \in DOMAIN p : (i \in DOMAIN q /\ p[i] = q[i]) \/ (i = Len(q) + 1 /\ p[i] = x)
  BY <1>1, AppendFacts
<1>4. \A i \in DOMAIN q : q[i].type = "Connect" => q[i].c # c /\ m[q[i].c] = "asked"
  BY <1>2 DEF OncePerLink
<1>5. m[c] = "asked"  OBVIOUS
<1> HIDE DEF x, p, m
<1>6. OncePerLink(p, m)  BY <1>1, <1>3, <1>4, <1>5 DEF OncePerLink
<1> QED  BY <1>6 DEF x, p, m

(* The state of a connection changes for which no Connect command waits.     *)
LEMMA OnceElsewhere ==
    ASSUME NEW q \in Seq(Cmd), NEW l \in [Conns -> LinkStates], OncePerLink(q, l), NEW c \in Conns, NEW v,
           \A i \in DOMAIN q : q[i].type = "Connect" => q[i].c # c
    PROVE  OncePerLink(q, [l EXCEPT ![c] = v])
<1>1. \A i \in DOMAIN q : q[i].c \in Conns  BY CmdsOfQueue
<1> QED  BY <1>1 DEF OncePerLink

(* The first command is taken.                                               *)
LEMMA OnceTaken ==
    ASSUME TypeOK, cmds # <<>>, NEW l, OncePerLink(cmds, l)
    PROVE  /\ OncePerLink(Tail(cmds), l)
           /\ Head(cmds).type = "Connect" =>
                 /\ l[Head(cmds).c] = "asked"
                 /\ \A i \in DOMAIN Tail(cmds) :
                       Tail(cmds)[i].type = "Connect" => Tail(cmds)[i].c # Head(cmds).c
<1>1. \A i \in DOMAIN Tail(cmds) :
         i \in Nat /\ i + 1 \in DOMAIN cmds /\ i + 1 # 1 /\ Tail(cmds)[i] = cmds[i + 1]
  BY HeadOfCmds
<1>2. 1 \in DOMAIN cmds /\ Head(cmds) = cmds[1]  BY HeadOfCmds
<1>3. OncePerLink(Tail(cmds), l)
  <2>1. \A i \in DOMAIN Tail(cmds) : Tail(cmds)[i].type = "Connect" => l[Tail(cmds)[i].c] = "asked"
    BY <1>1 DEF OncePerLink
  <2>2. ASSUME NEW i \in DOMAIN Tail(cmds), NEW j \in DOMAIN Tail(cmds),
               Tail(cmds)[i].type = "Connect", Tail(cmds)[j].type = "Connect",
               Tail(cmds)[i].c = Tail(cmds)[j].c
        PROVE  i = j
    <3>1. i + 1 = j + 1  BY <1>1, <2>2 DEF OncePerLink
    <3>2. i \in Nat /\ j \in Nat  BY <1>1
    <3> QED  BY <3>1, <3>2
  <2> QED  BY <2>1, <2>2 DEF OncePerLink
<1> QED  BY <1>1, <1>2, <1>3 DEF OncePerLink

(* What send() does to the connection of an endpoint keeps LinkInv.          *)
LEMMA EpSendLinks ==
    ASSUME TypeOK, LinkInv, NEW e \in EPs, NEW r \in Reqs, EpSend(e, r), connected' = connected
    PROVE  LinkInv'
<1> USE DEF LinkInv, ConnectsOnce, EndPointAgrees, Live, LiveStates
<1>0. cmds \in Seq(Cmd)  BY DEF TypeOK, Cmd
<1>1. CASE connected[e]
  <2>1. /\ UNCHANGED <<connId, ebuf, link, host>>
        /\ connId[e] \in Conns
        /\ cmds' = Append(cmds, [type |-> "Send", c |-> connId[e], reqs |-> {r}])
    BY <1>1 DEF EpSend, TypeOK
  <2>2. [type |-> "Send", c |-> connId[e], reqs |-> {r}] \in Cmd  BY <2>1 DEF Cmd
  <2>3. OncePerLink(cmds, link)'  BY <1>0, <2>1, <2>2, OnceWithSend
  <2> QED  BY <2>1, <2>3
<1>2. CASE ~connected[e] /\ connId[e] # NoConn
  <2>1. ebuf' = [ebuf EXCEPT ![e] = @ \cup {r}] /\ UNCHANGED <<connId, cmds, link, host>>
    BY <1>2 DEF EpSend
  <2> QED  BY <1>2, <2>1 DEF TypeOK
<1>3. CASE ~connected[e] /\ connId[e] = NoConn
  <2>1. ebuf' = [ebuf EXCEPT ![e] = @ \cup {r}]  BY <1>3 DEF EpSend
  <2>2. CASE UNCHANGED <<connId, cmds, link, host>>
    BY <1>3, <2>1, <2>2 DEF TypeOK
  <2>3. CASE ~UNCHANGED <<connId, cmds, link, host>>
    <3>1. PICK c \in Conns :
             /\ link[c] = "unused"
             /\ connId' = [connId EXCEPT ![e] = c]
             /\ link' = [link EXCEPT ![c] = "asked"]
             /\ host' = [host EXCEPT ![c] = e]
             /\ cmds' = Append(cmds, [type |-> "Connect", c |-> c, reqs |-> {}])
      BY <1>3, <2>3 DEF EpSend, NewConn
    <3>2. OncePerLink(cmds, link)'
      <4>1. link \in [Conns -> LinkStates]  BY DEF TypeOK, LinkStates
      <4> QED  BY <1>0, <3>1, <4>1, OnceWithConnect
    <3>3. \A d \in Conns : link'[d] # "unused" => host'[d] \in EPs  BY <3>1 DEF TypeOK
    <3>4. EndPointAgrees'
      <4> SUFFICES ASSUME NEW f \in EPs
                   PROVE  /\ connected[f] => connId'[f] # NoConn /\ link'[connId'[f]] = "open" /\ ebuf'[f] = {}
                          /\ connId'[f] # NoConn => link'[connId'[f]] \in LiveStates /\ host'[connId'[f]] = f
                          /\ \A d \in Conns : link'[d] \in LiveStates /\ host'[d] = f => connId'[f] = d
        BY DEF EndPointAgrees
      <4>1. CASE f = e
        <5>1. connId'[e] = c /\ link'[c] = "asked" /\ host'[c] = e  BY <3>1 DEF TypeOK
        <5>2. \A d \in Conns \ {c} : link'[d] = link[d] /\ host'[d] = host[d]  BY <3>1 DEF TypeOK
        <5>3. \A d \in Conns : d # NoConn  BY DEF NoConn, Conns
        <5>4. \A d \in Conns \ {c} : ~(link'[d] \in LiveStates /\ host'[d] = e)  BY <1>3, <5>2, <5>3
        <5> QED  BY <1>3, <4>1, <5>1, <5>4
      <4>2. CASE f # e
        <5>1. connId'[f] = connId[f] /\ ebuf'[f] = ebuf[f]  BY <2>1, <3>1, <4>2 DEF TypeOK
        <5>2. connId[f] # c  BY <3>1 DEF NoConn, Conns
        <5>3. \A d \in Conns \ {c} : link'[d] = link[d] /\ host'[d] = host[d]  BY <3>1 DEF TypeOK
        <5>4. host'[c] = e  BY <3>1 DEF TypeOK
        <5>5. connId[f] # NoConn => connId[f] \in Conns \ {c}  BY <5>2 DEF TypeOK
        <5> QED  BY <4>2, <5>1, <5>3, <5>4, <5>5
      <4> QED  BY <4>1, <4>2
    <3> QED  BY <3>2, <3>3, <3>4
  <2> QED  BY <2>2, <2>3
<1> QED  BY <1>1, <1>2, <1>3

(* onConnect() finds its endpoint waiting for this connection.               *)
LEMMA OpenedLinks ==
    ASSUME TypeOK, LinkInv, NEW c \in Conns, link[c] \in {"asked", "syn"}, Opened(c), OncePerLink(cmds, link)'
    PROVE  LinkInv'
<1> USE DEF LinkInv, ConnectsOnce, EndPointAgrees, Live, LiveStates
<1> DEFINE e == host[c]
<1>1. e \in EPs /\ connId[e] = c  OBVIOUS
<1>2. link' = [link EXCEPT ![c] = "open"] /\ connected' = [connected EXCEPT ![e] = TRUE]
      /\ ebuf' = [ebuf EXCEPT ![e] = {}] /\ UNCHANGED <<host, connId>>
  BY DEF Opened
<1> HIDE DEF e
<1>3. \A d \in Conns : link'[d] # "unused" => host'[d] \in EPs  BY <1>2 DEF TypeOK
<1>4. ASSUME NEW f \in EPs
      PROVE  /\ connected'[f] => connId[f] # NoConn /\ link'[connId[f]] = "open" /\ ebuf'[f] = {}
             /\ connId[f] # NoConn => link'[connId[f]] \in LiveStates /\ host[connId[f]] = f
             /\ \A d \in Conns : link'[d] \in LiveStates /\ host[d] = f => connId[f] = d
  <2>1. link'[c] = "open" /\ ebuf'[e] = {}  BY <1>1, <1>2 DEF TypeOK
  <2>2. \A d \in Conns \ {c} : link'[d] = link[d]  BY <1>2 DEF TypeOK
  <2>3. c # NoConn /\ (connId[f] # NoConn => connId[f] \in Conns)  BY DEF TypeOK, Conns, NoConn
  <2>4. CASE f = e  BY <1>1, <2>1, <2>2, <2>3, <2>4 DEF e
  <2>5. CASE f # e
    <3>1. (connected'[f] <=> connected[f]) /\ ebuf'[f] = ebuf[f]  BY <1>2, <2>5 DEF TypeOK
    <3>2. connId[f] # c  BY <2>3, <2>5 DEF e
    <3> QED  BY <2>2, <2>3, <2>5, <3>1, <3>2 DEF e
  <2> QED  BY <2>4, <2>5
<1> QED  BY <1>2, <1>3, <1>4

(* onClose() is about the connection its endpoint has.                       *)
LEMMA ClosedLinks ==
    ASSUME TypeOK, LinkInv, NEW c \in Conns, NEW ty, link[c] \in {"asked", "syn", "open"}, Closed(c, ty),
           OncePerLink(cmds, link)'
    PROVE  LinkInv' /\ at'.ep \in EPs
<1> USE DEF LinkInv, ConnectsOnce, EndPointAgrees, Live, LiveStates
<1> DEFINE e == host[c]
<1>1. e \in EPs /\ connId[e] = c  OBVIOUS
<1>2. /\ link' = [link EXCEPT ![c] = "closed"] /\ connected' = [connected EXCEPT ![e] = FALSE]
      /\ ebuf' = [ebuf EXCEPT ![e] = {}] /\ connId' = [connId EXCEPT ![e] = NoConn] /\ host' = host
      /\ at' = [req |-> "none", ep |-> e, type |-> ty]
  BY <1>1 DEF Closed
<1> HIDE DEF e
<1>3. \A d \in Conns : link'[d] # "unused" => host'[d] \in EPs  BY <1>2 DEF TypeOK
<1>4. ASSUME NEW f \in EPs
      PROVE  /\ connected'[f] => connId'[f] # NoConn /\ link'[connId'[f]] = "open" /\ ebuf'[f] = {}
             /\ connId'[f] # NoConn => link'[connId'[f]] \in LiveStates /\ host[connId'[f]] = f
             /\ \A d \in Conns : link'[d] \in LiveStates /\ host[d] = f => connId'[f] = d
  <2>1. link'[c] = "closed"  BY <1>2 DEF TypeOK
  <2>2. \A d \in Conns \ {c} : link'[d] = link[d]  BY <1>2 DEF TypeOK
  <2>3. c # NoConn /\ (connId[f] # NoConn => connId[f] \in Conns)  BY DEF TypeOK, Conns, NoConn
  <2>4. CASE f = e
    <3>1. ~connected'[e] /\ connId'[e] = NoConn  BY <1>1, <1>2 DEF TypeOK
    <3> QED  BY <1>1, <2>1, <2>2, <2>4, <3>1 DEF e
  <2>5. CASE f # e
    <3>1. (connected'[f] <=> connected[f]) /\ ebuf'[f] = ebuf[f] /\ connId'[f] = connId[f]
      BY <1>2, <2>5 DEF TypeOK
    <3>2. connId[f] # c  BY <2>3, <2>5 DEF e
    <3> QED  BY <2>1, <2>2, <2>3, <2>5, <3>1, <3>2 DEF e
  <2> QED  BY <2>4, <2>5
<1> QED  BY <1>1, <1>2, <1>3, <1>4

(* Every step keeps LinkInv, and a close that onClose() is to handle is one  *)
(* of an endpoint.                                                           *)
LEMMA LinkStep ==
    ASSUME TypeOK, Known, LinkInv, Next
    PROVE  LinkInv' /\ Known'
<1> USE DEF LinkInv
<1>0. /\ cmds \in Seq(Cmd) /\ OncePerLink(cmds, link)
      /\ link \in [Conns -> LinkStates]
  BY DEF TypeOK, Cmd, ConnectsOnce, LinkStates
<1>1. ASSUME UNCHANGED <<cmds, link, host, connected, connId, ebuf>>  PROVE LinkInv'
  BY <1>1 DEF ConnectsOnce, EndPointAgrees, Live
<1>2. ASSUME NEW r \in Reqs, Caller(r)  PROVE LinkInv' /\ Known'
  <2>1. CASE Send(r)
    <3>1. rep[r] \in EPs /\ EpSend(rep[r], r) /\ UNCHANGED <<connected, rep, npc, at>>
      BY <2>1 DEF Send, Known, netVars
    <3>2. LinkInv'  BY <3>1, EpSendLinks
    <3>3. pc' = [pc EXCEPT ![r] = IF kind[r] = "OneWay" THEN "done" ELSE "save"]  BY <2>1 DEF Send
    <3>4. Known'  BY <3>1, <3>3 DEF Known, TypeOK
    <3> QED  BY <3>2, <3>4
  <2>2. ASSUME NEW e \in EPs, BroadcastOne(r, e)  PROVE LinkInv' /\ Known'
    <3>1. EpSend(e, r) /\ UNCHANGED <<connected, pc, rep, npc, at>>
      BY <2>2 DEF BroadcastOne, reqVars, netVars
    <3> QED  BY <3>1, EpSendLinks DEF Known
  <2>3. CASE ~Send(r) /\ ~\E e \in EPs : BroadcastOne(r, e)
    <3>1. UNCHANGED <<cmds, link, host, connected, connId, ebuf>>
      BY <1>2, <2>3 DEF Caller, Begin, Select, NoEndPoint, Save, AddTimer, CheckBack, Return,
                        BroadcastBegin, BroadcastEnd, epVars, loopVars
    <3>2. /\ npc' \in {npc, "loop", "invoke"} /\ at' = at
          /\ \E x \in InCall \cup {"done"} : pc' = [pc EXCEPT ![r] = x]
          /\ rep' = rep \/ \E e \in active : rep' = [rep EXCEPT ![r] = e]
          /\ pc'[r] = "send" => \E e \in active : rep' = [rep EXCEPT ![r] = e]
      BY <1>2, <2>3 DEF TypeOK, Caller, Begin, Select, NoEndPoint, Save, AddTimer, CheckBack, Return,
                        BroadcastBegin, BroadcastEnd, NetBack, InCall, netVars
    <3>3. Known'  BY <3>2 DEF Known, TypeOK
    <3> QED  BY <1>1, <3>1, <3>3
  <2> QED  BY <2>1, <2>2, <2>3
<1>3. CASE ConnectCmd
  <2> DEFINE c == Head(cmds).c
  <2>1. /\ c \in Conns /\ Tail(cmds) \in Seq(Cmd) /\ link[c] = "asked"
        /\ OncePerLink(Tail(cmds), link)
        /\ \A i \in DOMAIN Tail(cmds) : Tail(cmds)[i].type = "Connect" => Tail(cmds)[i].c # c
    BY <1>0, <1>3, HeadOfCmds, OnceTaken DEF ConnectCmd
  <2>2. \A v : OncePerLink(Tail(cmds), [link EXCEPT ![c] = v])  BY <1>0, <2>1, OnceElsewhere
  <2>3. host[c] \in EPs  BY <2>1 DEF ConnectsOnce
  <2>4. npc = "loop" /\ UNCHANGED <<pc, rep>>  BY <1>3 DEF ConnectCmd, reqVars
  <2> HIDE DEF c
  <2>5. CASE Closed(c, "ConnectFail") /\ cmds' = Tail(cmds)
    <3>1. OncePerLink(cmds, link)'  BY <2>2, <2>5 DEF Closed
    <3> QED  BY <2>1, <2>4, <2>5, <3>1, ClosedLinks DEF Known
  <2>6. CASE Opened(c) /\ cmds' = Tail(cmds) \o Flush(c)
    <3>1. OncePerLink(cmds, link)'  BY <2>1, <2>2, <2>3, <2>6, OnceWithFlush DEF Opened
    <3>2. LinkInv'  BY <2>1, <2>6, <3>1, OpenedLinks
    <3>3. Known'  BY <2>4, <2>6 DEF Known, Opened, netVars
    <3> QED  BY <3>2, <3>3
  <2>7. CASE /\ link' = [link EXCEPT ![c] = "syn"] /\ cmds' = Tail(cmds)
             /\ UNCHANGED <<host, served, resps, epVars, netVars>>
    <3>1. OncePerLink(cmds, link)'  BY <2>2, <2>7
    <3>2. ConnectsOnce'  BY <2>3, <2>7, <3>1 DEF ConnectsOnce, TypeOK
    <3>3. EndPointAgrees'  BY <2>1, <2>7 DEF EndPointAgrees, Live, TypeOK, epVars
    <3>4. Known'  BY <2>4, <2>7 DEF Known, netVars
    <3> QED  BY <3>2, <3>3, <3>4
  <2> QED  BY <1>3, <2>5, <2>6, <2>7 DEF ConnectCmd, c
<1>4. CASE SendCmd
  <2>1. /\ cmds # <<>> /\ cmds' = Tail(cmds)
        /\ UNCHANGED <<link, host, connected, connId, ebuf, pc, rep, npc, at>>
    BY <1>4 DEF SendCmd, epVars, reqVars, netVars
  <2>2. OncePerLink(cmds, link)'  BY <1>0, <2>1, OnceTaken
  <2> QED  BY <2>1, <2>2 DEF ConnectsOnce, EndPointAgrees, Live, Known
<1>5. ASSUME NEW c \in Conns, ConnectReady(c) \/ ConnectLost(c) \/ PeerClose(c)
      PROVE  LinkInv' /\ Known'
  <2>1. npc = "loop" /\ link[c] \in {"syn", "open"} /\ UNCHANGED <<pc, rep>>
    BY <1>5 DEF ConnectReady, ConnectLost, PeerClose, reqVars
  <2>2. host[c] \in EPs  BY <2>1 DEF ConnectsOnce
  <2>3. \A i \in DOMAIN cmds : cmds[i].type = "Connect" => cmds[i].c # c
    BY <1>0, <2>1 DEF OncePerLink
  <2>4. \A v : OncePerLink(cmds, [link EXCEPT ![c] = v])  BY <1>0, <2>3, OnceElsewhere
  <2>5. CASE ConnectReady(c)
    <3>1. link[c] = "syn" /\ Opened(c) /\ cmds' = cmds \o Flush(c)  BY <2>5 DEF ConnectReady
    <3>2. OncePerLink(cmds, link)'  BY <1>0, <2>2, <2>4, <3>1, OnceWithFlush DEF Opened
    <3>3. LinkInv'  BY <3>1, <3>2, OpenedLinks
    <3>4. Known'  BY <2>1, <3>1 DEF Known, Opened, netVars
    <3> QED  BY <3>3, <3>4
  <2>6. CASE ConnectLost(c) \/ PeerClose(c)
    <3>1. PICK ty : Closed(c, ty) /\ cmds' = cmds  BY <2>6 DEF ConnectLost, PeerClose
    <3>2. OncePerLink(cmds, link)'  BY <2>4, <3>1 DEF Closed
    <3> QED  BY <2>1, <3>1, <3>2, ClosedLinks DEF Known
  <2> QED  BY <1>5, <2>5, <2>6
<1>6. CASE \/ Sweep \/ CloseDone \/ MoveToInactive \/ UntimeOne \/ TimeoutBegin \/ TimeoutEnd
           \/ UntimeAnswered \/ Dispatch \/ \E A \in SUBSET setup.eps : UpdateEndPoints(A)
           \/ \E c \in Conns, r \in Reqs : Answer(c, r) \/ Packet(c, r)
  <2>1. UNCHANGED <<cmds, link, host, connected, connId, ebuf>>
    BY <1>6 DEF Sweep, CloseDone, MoveToInactive, UntimeOne, TimeoutBegin, TimeoutEnd, UntimeAnswered,
         Dispatch, UpdateEndPoints, Answer, Packet, epVars, loopVars
  <2>2. UNCHANGED <<pc, rep>>
    BY <1>6 DEF Sweep, CloseDone, MoveToInactive, UntimeOne, TimeoutBegin, TimeoutEnd, UntimeAnswered,
         Dispatch, UpdateEndPoints, Answer, Packet, reqVars
  <2>3. npc' = "move" => npc = "move" /\ at' = at
    BY <1>6 DEF Sweep, CloseDone, MoveToInactive, UntimeOne, TimeoutBegin, TimeoutEnd, UntimeAnswered,
         Dispatch, UpdateEndPoints, Answer, Packet, netVars
  <2> QED  BY <1>1, <2>1, <2>2, <2>3 DEF Known
<1>7. CASE FinishAnswered \/ \E r \in Reqs : FailOne(r) \/ ReqTimeOut(r)
  <2>1. UNCHANGED <<cmds, link, host, connected, connId, ebuf, rep>>
    BY <1>7 DEF FinishAnswered, FailOne, ReqTimeOut, epVars, loopVars
  <2>2. npc' # "move"
    BY <1>7 DEF FinishAnswered, FailOne, ReqTimeOut, netVars
  <2>3. pc' = pc \/ \E q \in Reqs : \E st : FinishInvoke(q, st)
    BY <1>7 DEF FinishAnswered, FailOne, ReqTimeOut, TypeOK
  <2>4. \A q \in Reqs : pc'[q] = "send" => pc[q] = "send"  BY <2>3 DEF FinishInvoke, TypeOK
  <2> QED  BY <1>1, <2>1, <2>2, <2>4 DEF Known
<1> QED  BY <1>2, <1>3, <1>4, <1>5, <1>6, <1>7 DEF Next, Handling, Event

-----------------------------------------------------------------------------
(* Sent *)

(* A call that has begun does not go back, so requests may travel on.        *)
LEMMA BegunStays ==
    ASSUME TypeOK, Next
    PROVE  \A q \in Reqs : pc[q] # "new" => pc'[q] # "new"
<1>1. ASSUME NEW r \in Reqs, Caller(r)  PROVE pc' = pc \/ \E x \in InCall \cup {"done"} : pc' = [pc EXCEPT ![r] = x]
  BY <1>1 DEF Caller, Begin, Select, NoEndPoint, Send, Save, AddTimer, CheckBack, Return,
       BroadcastBegin, BroadcastOne, BroadcastEnd, InCall, reqVars
<1>2. CASE Handling \/ Event \/ Dispatch \/ \E r \in Reqs : ReqTimeOut(r)
  <2>1. CASE FinishAnswered  BY <2>1 DEF FinishAnswered, FinishInvoke, TypeOK
  <2>2. CASE \E r \in Reqs : FailOne(r) \/ ReqTimeOut(r)
    <3>1. pc' = pc \/ \E q \in Reqs : \E st : FinishInvoke(q, st)  BY <2>2 DEF FailOne, ReqTimeOut
    <3> QED  BY <3>1 DEF FinishInvoke, TypeOK
  <2>3. CASE ~FinishAnswered /\ ~\E r \in Reqs : FailOne(r) \/ ReqTimeOut(r)
    <3>1. pc' = pc
      BY <1>2, <2>3 DEF Handling, Event, Dispatch, ConnectCmd, SendCmd, MoveToInactive, Sweep, UntimeOne,
           CloseDone, UntimeAnswered, TimeoutBegin, TimeoutEnd, ConnectReady, ConnectLost, PeerClose,
           Answer, Packet, UpdateEndPoints, reqVars
    <3> QED  BY <3>1
  <2> QED  BY <2>1, <2>2, <2>3
<1> QED  BY <1>1, <1>2 DEF Next, TypeOK, InCall

(* What send() passes on or keeps is the request of a call that has begun.   *)
LEMMA EpSendSent ==
    ASSUME TypeOK, Sent, NEW e \in EPs, NEW r \in Reqs, pc[r] # "new", EpSend(e, r)
    PROVE  /\ \A f \in EPs : \A q \in ebuf'[f] : pc[q] # "new"
           /\ \A i \in DOMAIN cmds' : \A q \in cmds'[i].reqs : pc[q] # "new"
<1>0. cmds \in Seq(Cmd)  BY DEF TypeOK, Cmd
<1>1. \A f \in EPs : ebuf'[f] \subseteq ebuf[f] \cup {r}
  <2>1. ebuf' = ebuf \/ ebuf' = [ebuf EXCEPT ![e] = @ \cup {r}]  BY DEF EpSend
  <2>2. ebuf \in [EPs -> SUBSET Reqs]  BY DEF TypeOK
  <2> QED  BY <2>1, <2>2
<1>2. cmds' = cmds \/ \E x \in Cmd : cmds' = Append(cmds, x) /\ x.reqs \subseteq {r}
  <2>1. CASE connected[e]
    <3> DEFINE x == [type |-> "Send", c |-> connId[e], reqs |-> {r}]
    <3>1. connId[e] # NoConn => x \in Cmd  BY DEF TypeOK, Cmd
    <3>2. x.reqs = {r}  OBVIOUS
    <3>3. cmds' = IF connId[e] = NoConn THEN cmds ELSE Append(cmds, x)  BY <2>1 DEF EpSend
    <3> HIDE DEF x
    <3> QED  BY <3>1, <3>2, <3>3
  <2>2. CASE ~connected[e] /\ cmds' # cmds
    <3>1. PICK c \in Conns : cmds' = Append(cmds, [type |-> "Connect", c |-> c, reqs |-> {}])
      BY <2>2 DEF EpSend
    <3> DEFINE x == [type |-> "Connect", c |-> c, reqs |-> {}]
    <3>2. x \in Cmd /\ x.reqs = {}  BY DEF Cmd
    <3> HIDE DEF x
    <3> QED  BY <3>1, <3>2 DEF x
  <2> QED  BY <2>1, <2>2
<1>3. \A i \in DOMAIN cmds' : \A q \in cmds'[i].reqs : pc[q] # "new"
  <2>1. CASE cmds' = cmds  BY <2>1 DEF Sent
  <2>2. ASSUME NEW x \in Cmd, cmds' = Append(cmds, x), x.reqs \subseteq {r}
        PROVE  \A i \in DOMAIN cmds' : \A q \in cmds'[i].reqs : pc[q] # "new"
    <3>1. \A i \in DOMAIN cmds' : (i \in DOMAIN cmds /\ cmds'[i] = cmds[i]) \/ cmds'[i] = x
      BY <1>0, <2>2, AppendFacts
    <3> QED  BY <2>2, <3>1 DEF Sent
  <2> QED  BY <1>2, <2>1, <2>2
<1> QED  BY <1>1, <1>3 DEF Sent

(* What onConnect() passes on is what waited.                                *)
LEMMA OpenedSent ==
    ASSUME TypeOK, Sent, NEW c \in Conns, host[c] \in EPs, Opened(c), NEW q \in Seq(Cmd),
           \A i \in DOMAIN q : \A r \in q[i].reqs : pc[r] # "new", cmds' = q \o Flush(c)
    PROVE  /\ \A f \in EPs : ebuf'[f] \subseteq ebuf[f]
           /\ \A i \in DOMAIN cmds' : \A r \in cmds'[i].reqs : pc[r] # "new"
<1> DEFINE x == [type |-> "Send", c |-> c, reqs |-> ebuf[host[c]]]
<1>1. x \in Cmd /\ x.reqs = ebuf[host[c]]  BY DEF TypeOK, Cmd
<1>2. \A r \in x.reqs : pc[r] # "new"  BY <1>1 DEF Sent
<1>3. cmds' = q \o <<>> \/ cmds' = q \o <<x>>  BY DEF Flush
<1> HIDE DEF x
<1>4. cmds' = q \/ cmds' = Append(q, x)  BY <1>1, <1>3, ConcatFacts
<1>5. CASE cmds' = Append(q, x)
  <2>1. \A i \in DOMAIN cmds' : (i \in DOMAIN q /\ cmds'[i] = q[i]) \/ cmds'[i] = x
    BY <1>1, <1>5, AppendFacts
  <2> QED  BY <1>2, <2>1 DEF Opened, TypeOK
<1>6. CASE cmds' = q  BY <1>6 DEF Opened, TypeOK
<1> QED  BY <1>4, <1>5, <1>6

(* Every step keeps Sent.                                                    *)
LEMMA SentStep ==
    ASSUME TypeOK, TypeOK', Known, ConnectsOnce, Sent, Next
    PROVE  Sent'
<1> DEFINE Begun(q) == \A i \in DOMAIN q : \A r \in q[i].reqs : pc[r] # "new"
           EbufSent == \A e \in EPs : \A r \in ebuf'[e] : pc[r] # "new"
           ServedSent == \A c \in Conns : \A r \in served'[c] : pc[r] # "new"
<1>0. cmds \in Seq(Cmd) /\ cmds' \in Seq(Cmd)  BY DEF TypeOK, Cmd
<1>1. SUFFICES EbufSent /\ Begun(cmds') /\ ServedSent
  <2>1. \A q \in Reqs : pc[q] # "new" => pc'[q] # "new"  BY BegunStays
  <2>2. \A i \in DOMAIN cmds' : cmds'[i].reqs \subseteq Reqs  BY <1>0, CmdsOfQueue
  <2> QED  BY <2>1, <2>2 DEF Sent, TypeOK
<1>2. Begun(cmds) /\ (ebuf' = ebuf => EbufSent) /\ (served' = served => ServedSent)  BY DEF Sent
<1>3. cmds # <<>> => Begun(Tail(cmds))
  <2> SUFFICES ASSUME cmds # <<>>  PROVE Begun(Tail(cmds))  OBVIOUS
  <2>1. \A i \in DOMAIN Tail(cmds) : i + 1 \in DOMAIN cmds /\ Tail(cmds)[i] = cmds[i + 1]  BY HeadOfCmds
  <2> QED  BY <1>2, <2>1
<1>4. ASSUME NEW r \in Reqs, Caller(r)  PROVE EbufSent /\ Begun(cmds') /\ ServedSent
  <2>1. CASE Send(r)
    <3>1. rep[r] \in EPs /\ pc[r] # "new" /\ EpSend(rep[r], r) /\ served' = served
      BY <2>1 DEF Send, Known
    <3> QED  BY <1>2, <3>1, EpSendSent
  <2>2. ASSUME NEW e \in EPs, BroadcastOne(r, e)  PROVE EbufSent /\ Begun(cmds') /\ ServedSent
    <3>1. pc[r] # "new" /\ EpSend(e, r) /\ served' = served  BY <2>2 DEF BroadcastOne
    <3> QED  BY <1>2, <3>1, EpSendSent
  <2>3. CASE ~Send(r) /\ ~\E e \in EPs : BroadcastOne(r, e)
    <3>1. UNCHANGED <<cmds, ebuf, served>>
      BY <1>4, <2>3 DEF Caller, Begin, Select, NoEndPoint, Save, AddTimer, CheckBack, Return,
                        BroadcastBegin, BroadcastEnd, epVars, loopVars
    <3> QED  BY <1>2, <3>1
  <2> QED  BY <2>1, <2>2, <2>3
<1>5. ASSUME NEW c \in Conns, NEW ty, Closed(c, ty), Begun(cmds')
      PROVE  EbufSent /\ Begun(cmds') /\ ServedSent
  <2>1. /\ ebuf' = ebuf \/ ebuf' = [ebuf EXCEPT ![host[c]] = {}]
        /\ served' = [served EXCEPT ![c] = {}]
    BY <1>5 DEF Closed
  <2>2. EbufSent
    <3>1. ebuf \in [EPs -> SUBSET Reqs]  BY DEF TypeOK
    <3>2. \A e \in EPs : ebuf'[e] \subseteq ebuf[e]  BY <2>1, <3>1
    <3> QED  BY <3>2 DEF Sent
  <2>3. ServedSent  BY <2>1 DEF Sent, TypeOK
  <2> QED  BY <1>5, <2>2, <2>3
<1>6. ASSUME NEW c \in Conns, host[c] \in EPs, Opened(c), NEW q \in Seq(Cmd), Begun(q), cmds' = q \o Flush(c)
      PROVE  EbufSent /\ Begun(cmds') /\ ServedSent
  <2>1. (\A f \in EPs : ebuf'[f] \subseteq ebuf[f]) /\ Begun(cmds')  BY <1>6, OpenedSent
  <2>2. served' = served  BY <1>6 DEF Opened
  <2> QED  BY <1>2, <2>1, <2>2 DEF Sent
<1>7. CASE ConnectCmd
  <2> DEFINE c == Head(cmds).c
  <2>1. c \in Conns /\ Tail(cmds) \in Seq(Cmd) /\ 1 \in DOMAIN cmds /\ c = cmds[1].c
    BY <1>7, HeadOfCmds DEF ConnectCmd
  <2>2. host[c] \in EPs
    <3>1. cmds[1].type = "Connect"  BY <1>7, HeadOfCmds DEF ConnectCmd
    <3> QED  BY <2>1, <3>1 DEF ConnectsOnce, OncePerLink
  <2>3. Begun(Tail(cmds))  BY <1>3, <1>7 DEF ConnectCmd
  <2> HIDE DEF c
  <2>4. CASE Closed(c, "ConnectFail") /\ cmds' = Tail(cmds)  BY <1>5, <2>1, <2>3, <2>4
  <2>5. CASE Opened(c) /\ cmds' = Tail(cmds) \o Flush(c)  BY <1>6, <2>1, <2>2, <2>3, <2>5
  <2>6. CASE cmds' = Tail(cmds) /\ UNCHANGED <<host, served, resps, epVars, netVars>>
    BY <1>2, <2>3, <2>6 DEF epVars
  <2> QED  BY <1>7, <2>4, <2>5, <2>6 DEF ConnectCmd, c
<1>8. CASE SendCmd
  <2>1. ebuf' = ebuf /\ cmds # <<>> /\ cmds' = Tail(cmds)  BY <1>8 DEF SendCmd, epVars
  <2>2. served' = served \/ served' = [served EXCEPT ![Head(cmds).c] = @ \cup Head(cmds).reqs]
    BY <1>8 DEF SendCmd
  <2>3. 1 \in DOMAIN cmds /\ Head(cmds) = cmds[1]  BY <2>1, HeadOfCmds
  <2>4. \A r \in Head(cmds).reqs : pc[r] # "new"  BY <1>2, <2>3
  <2>5. ServedSent
    <3>1. served \in [Conns -> SUBSET Reqs]  BY DEF TypeOK
    <3>2. \A c \in Conns : served'[c] \subseteq served[c] \cup Head(cmds).reqs  BY <2>2, <3>1
    <3> QED  BY <2>4, <3>2 DEF Sent
  <2> QED  BY <1>2, <1>3, <2>1, <2>5
<1>9. ASSUME NEW c \in Conns, ConnectReady(c) \/ ConnectLost(c) \/ PeerClose(c)
      PROVE  EbufSent /\ Begun(cmds') /\ ServedSent
  <2>1. CASE ConnectReady(c)
    <3>1. host[c] \in EPs /\ Opened(c) /\ cmds' = cmds \o Flush(c)
      BY <2>1 DEF ConnectReady, ConnectsOnce
    <3> QED  BY <1>0, <1>2, <1>6, <3>1
  <2>2. CASE ConnectLost(c) \/ PeerClose(c)
    <3>1. PICK ty : Closed(c, ty) /\ cmds' = cmds  BY <2>2 DEF ConnectLost, PeerClose
    <3> QED  BY <1>2, <1>5, <3>1
  <2> QED  BY <1>9, <2>1, <2>2
<1>10. ASSUME NEW c \in Conns, NEW r \in Reqs, Answer(c, r)
       PROVE  EbufSent /\ Begun(cmds') /\ ServedSent
  <2>1. served' = [served EXCEPT ![c] = @ \ {r}] /\ UNCHANGED <<cmds, ebuf>>
    BY <1>10 DEF Answer, epVars
  <2>2. ServedSent  BY <2>1 DEF Sent, TypeOK
  <2> QED  BY <1>2, <2>1, <2>2
<1>11. CASE \/ Sweep \/ CloseDone \/ MoveToInactive \/ UntimeOne \/ TimeoutBegin \/ TimeoutEnd
            \/ UntimeAnswered \/ Dispatch \/ FinishAnswered
            \/ \E A \in SUBSET setup.eps : UpdateEndPoints(A)
            \/ \E r \in Reqs : FailOne(r) \/ ReqTimeOut(r)
            \/ \E c \in Conns, r \in Reqs : Packet(c, r)
  <2>1. UNCHANGED <<cmds, ebuf, served>>
    BY <1>11 DEF Sweep, CloseDone, MoveToInactive, UntimeOne, TimeoutBegin, TimeoutEnd, UntimeAnswered,
         Dispatch, FinishAnswered, UpdateEndPoints, FailOne, ReqTimeOut, Packet, epVars, loopVars
  <2> QED  BY <1>2, <2>1
<1> HIDE DEF Begun, EbufSent, ServedSent
<1> QED  BY <1>4, <1>7, <1>8, <1>9, <1>10, <1>11 DEF Next, Handling, Event

-----------------------------------------------------------------------------
(* The invariant and the theorems *)

(* IInv holds at the start, and every step keeps it.                         *)
LEMMA IInvInit == Init => IInv
<1> SUFFICES ASSUME Init  PROVE IInv  OBVIOUS
<1>1. TypeOK
  <2>1. setup \in Setups /\ setup.eps \subseteq EPs  BY ProxyAssumption DEF Init
  <2>2. active \subseteq EPs /\ inactive \subseteq EPs /\ given \subseteq EPs  BY <2>1 DEF Init
  <2>3. messages \in Seq(Reqs) /\ cmds \in Seq(Cmd)  BY DEF Init
  <2>4. wild \in BOOLEAN /\ corrupt \in BOOLEAN /\ tlock \in BOOLEAN  BY DEF Init
  <2>5. back \in [Reqs -> BOOLEAN] /\ freed \in [Reqs -> BOOLEAN] /\ connected \in [EPs -> BOOLEAN]
    BY DEF Init
  <2>6. at \in [req : Reqs \cup {"none"}, ep : EPs \cup {NoEP}, type : {"none", "Peer", "ConnectFail"}]
    BY DEF Init, Nowhere, NoEP
  <2>7. /\ pc \in [Reqs -> InCall \cup {"new", "done"}] /\ kind \in [Reqs -> Kind]
        /\ rep \in [Reqs -> EPs \cup {NoEP}]
        /\ rstatus \in [Reqs -> {"TimeOut", "Ok", "Error", "NetError"}]
        /\ finished \in [Reqs -> Nat]
    BY DEF Init, Kind
  <2>8. /\ connId \in [EPs -> Conns \cup {NoConn}] /\ ebuf \in [EPs -> SUBSET Reqs]
        /\ link \in [Conns -> {"unused", "asked", "syn", "open", "closed"}]
        /\ host \in [Conns -> EPs \cup {NoEP}]
        /\ served \in [Conns -> SUBSET Reqs] /\ resps \in [Conns -> SUBSET Reqs]
    BY DEF Init
  <2>9. npc = "loop" /\ todo = {} /\ answered = {} /\ pending = {} /\ timers = {}  BY DEF Init
  <2> QED  BY <2>1, <2>2, <2>3, <2>4, <2>5, <2>6, <2>7, <2>8, <2>9 DEF TypeOK, Cmd
<1>2. ReqInv
  BY DEF Init, ReqInv, OnePlace, HandsAreFree, InHands, Held, FreshIsOpen, AtMostOnce, SyncLives,
         PathOfKind, NetCalls, Calling, MessagesAreOver, NoAnswer
<1>3. NoOrphan  BY DEF Init, NoOrphan
<1>4. FlowInv  BY DEF Init, FlowInv, Known, Sent, AnswersAreReal, Held
<1>5. LinkInv  BY DEF Init, LinkInv, ConnectsOnce, OncePerLink, EndPointAgrees, Live, NoConn
<1>6. BroadcastCovers  BY DEF Init, BroadcastCovers
<1> QED  BY <1>1, <1>2, <1>3, <1>4, <1>5, <1>6 DEF IInv

(* Every step of every thread keeps the invariant.                           *)
LEMMA IInvStep == IInv /\ [Next]_vars => IInv'
<1> SUFFICES ASSUME IInv, [Next]_vars  PROVE IInv'  OBVIOUS
<1> USE DEF IInv
<1>1. CASE Next
  <2>1. Handling \/ Event \/ Dispatch \/ (\E r \in Reqs : Caller(r)) \/ \E r \in Reqs : ReqTimeOut(r)
    BY <1>1 DEF Next
  <2>2. TypeOK'  BY <2>1, CallerTypes, NetTypesStep DEF FlowInv, LinkInv
  <2>3. ReqInv'  BY <2>1, CallerReqs, NetReqs
  <2>4. NoOrphan'  BY <2>1, CallerOrphans, NetOrphans
  <2>5. LinkInv' /\ Known'  BY <1>1, LinkStep DEF FlowInv
  <2>6. Sent'  BY <1>1, <2>2, SentStep DEF FlowInv, LinkInv
  <2>7. AnswersAreReal'  BY <1>1, AnswersStep DEF FlowInv
  <2>8. BroadcastCovers'  BY <1>1, BroadcastStep
  <2> QED  BY <2>2, <2>3, <2>4, <2>5, <2>6, <2>7, <2>8 DEF FlowInv
<1>2. CASE UNCHANGED vars
  <2> USE DEF vars, reqVars, mapVars, epVars, loopVars, netVars, histVars
  <2>1. TypeOK'  BY <1>2 DEF TypeOK
  <2>2. ReqInv'  BY <1>2, ReqFrame
  <2>3. NoOrphan'  BY <1>2 DEF NoOrphan
  <2>4. FlowInv'  BY <1>2 DEF FlowInv, Known, Sent, AnswersAreReal, Held
  <2>5. LinkInv'  BY <1>2 DEF LinkInv, ConnectsOnce, OncePerLink, EndPointAgrees, Live
  <2>6. BroadcastCovers'  BY <1>2 DEF BroadcastCovers
  <2> QED  BY <2>1, <2>2, <2>3, <2>4, <2>5, <2>6
<1> QED  BY <1>1, <1>2

(* The inductive invariant.                                                  *)
THEOREM Invariance == Spec => []IInv
BY IInvInit, IInvStep, PTL DEF Spec

(* Type correctness, for any setup and number of connections.                *)
THEOREM TypeCorrect == Spec => []TypeOK
<1>1. IInv => TypeOK  BY DEF IInv
<1> QED  BY <1>1, Invariance, PTL

(* finishInvoke() runs at most once for a request, and never for a deleted   *)
(* one, however response, close and timeout race.                            *)
THEOREM CompletesOnce == Spec => []FinishedOnce
<1>1. IInv => FinishedOnce
  BY DEF IInv, ReqInv, AtMostOnce, HandsAreFree, InHands, Held, FinishedOnce
<1> QED  BY <1>1, Invariance, PTL

(* A saved request that is not finished is in m_reqMessages with a timer, or *)
(* in the net thread's hands, until onClose() reads a deleted request.       *)
THEOREM NothingForgotten == Spec => []NoOrphan
<1>1. IInv => NoOrphan  BY DEF IInv
<1> QED  BY <1>1, Invariance, PTL

(* A Sync call that goes on has its result, and "Ok" means answered.         *)
THEOREM ResultsAreReal == Spec => []ReturnsResult
<1>1. IInv => ReturnsResult
  <2> SUFFICES ASSUME IInv, NEW r \in Reqs
               PROVE  /\ pc[r] = "woken" => finished[r] = 1 /\ ~freed[r]
                      /\ rstatus[r] = "Ok" => r \in answered
                      /\ finished[r] = 1 /\ kind[r] = "Sync" => back[r]
    BY DEF ReturnsResult
  <2>1. rstatus[r] = "Ok" => r \in answered  BY DEF IInv, FlowInv, AnswersAreReal
  <2>2. finished[r] = 1 /\ kind[r] = "Sync" => back[r]  BY DEF IInv, ReqInv, SyncLives
  <2>3. pc[r] = "woken" => finished[r] = 1 /\ ~freed[r]  BY DEF IInv, ReqInv, SyncLives, PathOfKind
  <2> QED  BY <2>1, <2>2, <2>3
<1> QED  BY <1>1, Invariance, PTL

(* An endpoint and the socket loop agree on the endpoint's connection.       *)
THEOREM ConnectionsAgree == Spec => []EndPointAgrees
<1>1. IInv => EndPointAgrees  BY DEF IInv, LinkInv
<1> QED  BY <1>1, Invariance, PTL

(* A broadcast reaches the endpoints that were active when it began.         *)
THEOREM BroadcastsCover == Spec => []BroadcastCovers
<1>1. IInv => BroadcastCovers  BY DEF IInv
<1> QED  BY <1>1, Invariance, PTL

-----------------------------------------------------------------------------
(* The proxy implements RpcCall *)

(* The refinement mapping, request by request.                               *)
Phase(r) ==
    IF pc[r] = "new" THEN "idle"
    ELSE IF finished[r] > 0 \/ (kind[r] \in NoAnswer /\ pc[r] = "done") THEN "over" ELSE "open"
Result(r) == IF finished[r] > 0 THEN rstatus[r] ELSE "none"
phases == [r \in Reqs |-> Phase(r)]
results == [r \in Reqs |-> Result(r)]

(* A step that no caller sees.                                               *)
LEMMA SeenAsStutter ==
    ASSUME \A r \in Reqs : Phase(r)' = Phase(r) /\ Result(r)' = Result(r), answered' = answered
    PROVE  UNCHANGED Call!vars
<1>1. phases' = phases /\ results' = results  BY DEF phases, results
<1> QED  BY <1>1 DEF Call!vars, phases, results, Phase, Result

(* A step that begins or ends the call r alone.                              *)
LEMMA SeenAsPhase ==
    ASSUME NEW r \in Reqs, \A q \in Reqs \ {r} : Phase(q)' = Phase(q) /\ Result(q)' = Result(q),
           answered' = answered, NEW st
    PROVE  /\ Phase(r) = "idle" /\ Phase(r)' = "open" /\ Result(r)' = Result(r) => Call!Issue(r)
           /\ Phase(r) = "open" /\ Phase(r)' = "over" /\ Result(r)' = Result(r) => Call!Forget(r)
           /\ Phase(r) = "open" /\ Phase(r)' = "over" /\ Result(r)' = st /\ (st = "Ok" => r \in answered) =>
                 Call!Finish(r, st)
<1>1. phases' = [phases EXCEPT ![r] = Phase(r)']  BY DEF phases
<1>2. results' = [results EXCEPT ![r] = Result(r)']  BY DEF results
<1>3. Result(r)' = Result(r) => results' = results  BY <1>2 DEF results
<1>4. phases[r] = Phase(r)  BY DEF phases
<1> QED  BY <1>1, <1>2, <1>3, <1>4
         DEF Call!Issue, Call!Forget, Call!Finish, phases, results, Phase, Result

(* finishInvoke() is seen as the end of its call.                            *)
LEMMA FinishRefines ==
    ASSUME IInv, NEW r \in Reqs, NEW st \in Statuses, InHands(r), FinishInvoke(r, st),
           kind' = kind, answered' = answered, st = "Ok" => r \in answered
    PROVE  Call!Next
<1> USE DEF IInv
<1>1. /\ finished' = [finished EXCEPT ![r] = 1]
      /\ \A q \in Reqs \ {r} : pc'[q] = pc[q]
      /\ pc'[r] = pc[r] \/ (pc[r] = "waiting" /\ pc'[r] = "woken")
  BY FinishInvokeFacts
<1>2. rstatus' = [rstatus EXCEPT ![r] = st]  BY DEF FinishInvoke
<1>3. finished[r] = 0 /\ kind[r] \notin NoAnswer /\ pc[r] \in {"timer", "check", "waiting", "done"}
  BY DEF ReqInv, HandsAreFree
<1>4. \A q \in Reqs \ {r} : Phase(q)' = Phase(q) /\ Result(q)' = Result(q)
  BY <1>1, <1>2 DEF Phase, Result, TypeOK
<1>5. Phase(r) = "open" /\ Phase(r)' = "over" /\ Result(r)' = st
  BY <1>1, <1>2, <1>3 DEF Phase, Result, TypeOK
<1>6. Call!Finish(r, st)  BY <1>4, <1>5, SeenAsPhase
<1>7. st \in Call!Results  BY DEF Call!Results, Statuses
<1> QED  BY <1>6, <1>7 DEF Call!Next

(* Every step is one of RpcCall, or is not seen by the callers.              *)
LEMMA RefinesStep ==
    ASSUME IInv, IInv', [Next]_vars
    PROVE  Call!Next \/ UNCHANGED Call!vars
<1> USE DEF IInv
<1>1. ASSUME NEW r \in Reqs, Caller(r)  PROVE Call!Next \/ UNCHANGED Call!vars
  <2>0. pc[r] \in {"new", "select", "send", "broadcast", "save"} => finished[r] = 0
    BY DEF ReqInv, FreshIsOpen
  <2>1. CASE Begin(r)
    <3>1. /\ pc[r] = "new" /\ pc' = [pc EXCEPT ![r] = "select"]
          /\ \A q \in Reqs \ {r} : kind'[q] = kind[q]
          /\ UNCHANGED <<finished, rstatus, answered>>
      BY <2>1 DEF Begin, histVars, TypeOK
    <3>2. \A q \in Reqs \ {r} : Phase(q)' = Phase(q) /\ Result(q)' = Result(q)
      BY <3>1 DEF Phase, Result, TypeOK
    <3>3. Phase(r) = "idle" /\ Phase(r)' = "open" /\ Result(r)' = Result(r)
      BY <2>0, <3>1 DEF Phase, Result, TypeOK
    <3> QED  BY <3>1, <3>2, <3>3, SeenAsPhase DEF Call!Next
  <2>2. CASE NoEndPoint(r)
    <3>1. /\ pc[r] = "select" /\ kind[r] # "Broadcast" /\ pc' = [pc EXCEPT ![r] = "done"]
          /\ rstatus' = [rstatus EXCEPT ![r] = "NetError"]
          /\ finished' = [finished EXCEPT ![r] = IF kind[r] = "OneWay" THEN @ ELSE @ + 1]
          /\ UNCHANGED <<kind, answered>>
      BY <2>2 DEF NoEndPoint
    <3>2. \A q \in Reqs \ {r} : Phase(q)' = Phase(q) /\ Result(q)' = Result(q)
      BY <3>1 DEF Phase, Result, TypeOK
    <3>3. Phase(r) = "open" /\ Phase(r)' = "over"
      BY <2>0, <3>1 DEF Phase, TypeOK, NoAnswer
    <3>4. Result(r)' = IF kind[r] = "OneWay" THEN Result(r) ELSE "NetError"
      BY <2>0, <3>1 DEF Result, TypeOK
    <3>5. CASE kind[r] = "OneWay"
      BY <3>1, <3>2, <3>3, <3>4, <3>5, SeenAsPhase DEF Call!Next
    <3>6. CASE kind[r] # "OneWay"
      <4>1. Call!Finish(r, "NetError")  BY <3>1, <3>2, <3>3, <3>4, <3>6, SeenAsPhase
      <4>2. "NetError" \in Call!Results  BY DEF Call!Results
      <4> QED  BY <4>1, <4>2 DEF Call!Next
    <3> QED  BY <3>5, <3>6
  <2>3. CASE (Send(r) /\ kind[r] = "OneWay") \/ BroadcastEnd(r)
    <3>1. /\ pc[r] \in {"send", "broadcast"} /\ kind[r] \in NoAnswer /\ pc' = [pc EXCEPT ![r] = "done"]
          /\ UNCHANGED <<kind, finished, rstatus, answered>>
      BY <2>3 DEF Send, BroadcastEnd, NoAnswer, ReqInv, PathOfKind, histVars
    <3>2. \A q \in Reqs \ {r} : Phase(q)' = Phase(q) /\ Result(q)' = Result(q)
      BY <3>1 DEF Phase, Result, TypeOK
    <3>3. Phase(r) = "open" /\ Phase(r)' = "over" /\ Result(r)' = Result(r)
      BY <2>0, <3>1 DEF Phase, Result, TypeOK
    <3> QED  BY <3>1, <3>2, <3>3, SeenAsPhase DEF Call!Next
  <2>4. CASE \/ Select(r) \/ Save(r) \/ AddTimer(r) \/ CheckBack(r) \/ Return(r) \/ BroadcastBegin(r)
             \/ (Send(r) /\ kind[r] # "OneWay")
    <3>1. /\ pc[r] \notin {"new", "done"} /\ UNCHANGED <<kind, finished, rstatus, answered>>
          /\ \E x \in InCall \cup {"done"} : pc' = [pc EXCEPT ![r] = x]
          /\ kind[r] \in NoAnswer => \E x \in InCall : pc' = [pc EXCEPT ![r] = x]
      BY <2>4 DEF Select, Save, AddTimer, CheckBack, Return, BroadcastBegin, Send, InCall, histVars,
                  ReqInv, PathOfKind, NoAnswer
    <3>2. pc'[r] # "new" /\ (kind[r] \in NoAnswer => pc'[r] # "done")  BY <3>1 DEF InCall, TypeOK
    <3>3. \A q \in Reqs \ {r} : pc'[q] = pc[q]  BY <3>1 DEF TypeOK
    <3>4. \A q \in Reqs : Phase(q)' = Phase(q) /\ Result(q)' = Result(q)
      BY <3>1, <3>2, <3>3 DEF Phase, Result
    <3> QED  BY <3>1, <3>4, SeenAsStutter
  <2>5. ASSUME NEW e \in EPs, BroadcastOne(r, e)  PROVE UNCHANGED Call!vars
    <3>1. UNCHANGED <<pc, kind, finished, rstatus, answered>>
      BY <2>5 DEF BroadcastOne, reqVars, histVars
    <3> QED  BY <3>1, SeenAsStutter DEF Phase, Result
  <2> QED  BY <1>1, <2>1, <2>2, <2>3, <2>4, <2>5 DEF Caller
<1>2. CASE FinishAnswered
  <2>1. /\ npc = "answer" /\ at.req \in Reqs /\ FinishInvoke(at.req, "Ok") /\ UNCHANGED <<kind, answered>>
    BY <1>2 DEF FinishAnswered, TypeOK
  <2>2. InHands(at.req) /\ at.req \in answered
    BY <2>1 DEF InHands, Held, FlowInv, AnswersAreReal
  <2> QED  BY <2>1, <2>2, FinishRefines DEF Statuses
<1>3. ASSUME NEW r \in Reqs, FailOne(r)  PROVE Call!Next
  <2>1. PICK st \in {"Error", "NetError"} :
           FinishInvoke(r, st) /\ r \in todo /\ UNCHANGED <<kind, answered>>
    BY <1>3 DEF FailOne
  <2> QED  BY <2>1, FinishRefines DEF Statuses, InHands
<1>4. ASSUME NEW r \in Reqs, ReqTimeOut(r)  PROVE Call!Next \/ UNCHANGED Call!vars
  <2>1. CASE r \in pending
    <3>1. FinishInvoke(r, "TimeOut") /\ UNCHANGED <<kind, answered>>  BY <1>4, <2>1 DEF ReqTimeOut
    <3> QED  BY <2>1, <3>1, FinishRefines DEF Statuses, InHands
  <2>2. CASE r \notin pending
    <3>1. UNCHANGED <<pc, kind, finished, rstatus, answered>>  BY <1>4, <2>2 DEF ReqTimeOut
    <3> QED  BY <3>1, SeenAsStutter DEF Phase, Result
  <2> QED  BY <2>1, <2>2
<1>5. ASSUME NEW c \in Conns, NEW r \in Reqs, Answer(c, r)  PROVE Call!Next
  <2>1. /\ r \in served[c] /\ answered' = answered \cup {r}
        /\ UNCHANGED <<pc, kind, finished, rstatus>>
    BY <1>5 DEF Answer, reqVars
  <2>2. pc[r] # "new"  BY <2>1 DEF FlowInv, Sent
  <2>3. phases' = phases /\ results' = results  BY <2>1 DEF phases, results, Phase, Result
  <2>4. phases[r] # "idle"  BY <2>2 DEF phases, Phase
  <2>5. Call!Answer(r)  BY <2>1, <2>3, <2>4 DEF Call!Answer, phases, results, Phase, Result
  <2> QED  BY <2>5 DEF Call!Next
<1>6. CASE \/ ConnectCmd \/ SendCmd \/ Sweep \/ CloseDone \/ MoveToInactive \/ UntimeOne
           \/ TimeoutBegin \/ TimeoutEnd \/ UntimeAnswered \/ Dispatch
           \/ \E c \in Conns : ConnectReady(c) \/ ConnectLost(c) \/ PeerClose(c)
           \/ \E A \in SUBSET setup.eps : UpdateEndPoints(A)
           \/ \E c \in Conns, r \in Reqs : Packet(c, r)
           \/ UNCHANGED vars
  <2>1. UNCHANGED <<pc, kind, finished, rstatus, answered>>
    BY <1>6 DEF ConnectCmd, SendCmd, Sweep, CloseDone, MoveToInactive, UntimeOne, TimeoutBegin, TimeoutEnd,
         UntimeAnswered, Dispatch, ConnectReady, ConnectLost, PeerClose, UpdateEndPoints, Packet, vars,
         reqVars, histVars
  <2> QED  BY <2>1, SeenAsStutter DEF Phase, Result
<1> QED  BY <1>1, <1>2, <1>3, <1>4, <1>5, <1>6 DEF Next, Handling, Event

(* Seen from its callers the proxy is RpcCall: a call is issued, is over at  *)
(* most once, keeps its result, and succeeds only if it was answered.        *)
THEOREM Refinement == Spec => ImplementsRpcCall
<1>1. Init => Call!Init
  <2> SUFFICES ASSUME Init  PROVE Call!Init  OBVIOUS
  <2>1. phases = [r \in Reqs |-> "idle"] /\ results = [r \in Reqs |-> "none"]
    BY DEF Init, phases, results, Phase, Result
  <2>2. answered = {}  BY DEF Init
  <2> QED  BY <2>1, <2>2 DEF Call!Init, phases, results, Phase, Result
<1>2. IInv /\ IInv' /\ [Next]_vars => [Call!Next]_(Call!vars)  BY RefinesStep
<1> QED  BY <1>1, <1>2, Invariance, PTL DEF Spec, ImplementsRpcCall, Call!Spec

=============================================================================
