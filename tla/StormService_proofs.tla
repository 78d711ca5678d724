------------------------ MODULE StormService_proofs -------------------------
(* Theorems about StormService, for any connection ids, number of services,  *)
(* limits and workloads.                                                     *)
EXTENDS StormService, FiniteSetTheorems, TLAPS

(* A thread that is none of the services never starts, one that handles a    *)
(* packet has it in its hand, and a service in the net thread has no queue.  *)
Hands ==
    /\ \A w \in Workers \ load.workers : wpc[w] = "start"
    /\ \A w \in Workers : wpc[w] \in {"handle", "close"} => hand[w] \in Packets
    /\ \A w \in Workers : wpc[w] = "close" => hand[w].type = "Packet"
    /\ InLoop => queue = <<>>

(* A service that has begun and has not left its loop is up.                 *)
UpInLoop == \A w \in Workers : wpc[w] \notin {"start", "exit"} => life[w] = "up"

(* When it has taken all that waits a service holds for connected what is.   *)
Peers == open \ rejected
WillKnow == \A i \in Ids : Knows(queue, told, i, Len(queue)) <=> i \in Peers

(* The numbers of requests rise on the way from the queue through a hand and *)
(* the commands to the peer.                                                 *)
IsSend(k) == cmds[k].type = "Send"
IsPacket(k) == queue[k].type = "Packet"
InHand(w) == wpc[w] \in {"handle", "close"} /\ hand[w].type = "Packet"

AnsweredRise ==
    \A i \in Ids : \A j, k \in DOMAIN answered[i] : j < k => answered[i][j] < answered[i][k]
CmdsRise ==
    /\ \A j, k \in DOMAIN cmds : IsSend(j) /\ IsSend(k) /\ j < k => cmds[j].n < cmds[k].n
    /\ \A k \in DOMAIN cmds : IsSend(k) =>
          /\ cmds[k].n <= packets
          /\ \A i \in Ids : \A j \in DOMAIN answered[i] : answered[i][j] < cmds[k].n
QueueRises ==
    /\ \A j, k \in DOMAIN queue : IsPacket(j) /\ IsPacket(k) /\ j < k => queue[j].n < queue[k].n
    /\ \A k \in DOMAIN queue : IsPacket(k) =>
          /\ queue[k].n <= packets
          /\ \A i \in Ids : \A j \in DOMAIN answered[i] : answered[i][j] < queue[k].n
          /\ \A j \in DOMAIN cmds : IsSend(j) => cmds[j].n < queue[k].n
          /\ \A w \in load.workers : InHand(w) => hand[w].n < queue[k].n
HandRises ==
    \A w \in load.workers : InHand(w) =>
        /\ hand[w].n <= packets
        /\ wpc[w] = "handle" =>
              /\ \A i \in Ids : \A j \in DOMAIN answered[i] : answered[i][j] < hand[w].n
              /\ \A j \in DOMAIN cmds : IsSend(j) => cmds[j].n < hand[w].n
AnsweredSoFar == \A i \in Ids : \A j \in DOMAIN answered[i] : answered[i][j] <= packets

One == \A v, w \in load.workers : v = w
NumbersRise ==
    One => AnsweredRise /\ AnsweredSoFar /\ CmdsRise /\ QueueRises /\ HandRises

IInv ==
    /\ TypeOK /\ RequestsBounded /\ NoLostPacket /\ TimeoutsCover /\ HeardInOrder
    /\ Hands /\ UpInLoop /\ WillKnow /\ NumbersRise

-----------------------------------------------------------------------------
(* Queues *)

(* What a queue is after one more element.                                   *)
LEMMA AppendFacts ==
    ASSUME NEW S, NEW q \in Seq(S), NEW x \in S
    PROVE  /\ Append(q, x) \in Seq(S)
           /\ Len(q) \in Nat /\ DOMAIN q = 1 .. Len(q)
           /\ Len(Append(q, x)) = Len(q) + 1
           /\ DOMAIN Append(q, x) = 1 .. Len(q) + 1
           /\ \A k \in DOMAIN q : Append(q, x)[k] = q[k]
           /\ Append(q, x)[Len(q) + 1] = x
OBVIOUS

(* What a queue is without its first element.                                *)
LEMMA TailFacts ==
    ASSUME NEW S, NEW q \in Seq(S), q # <<>>
    PROVE  /\ Head(q) \in S /\ Tail(q) \in Seq(S)
           /\ Len(q) \in Nat /\ DOMAIN q = 1 .. Len(q) /\ 1 \in DOMAIN q /\ Head(q) = q[1]
           /\ Len(Tail(q)) = Len(q) - 1 /\ DOMAIN Tail(q) = 1 .. Len(q) - 1
           /\ \A k \in DOMAIN Tail(q) : k + 1 \in DOMAIN q /\ Tail(q)[k] = q[k + 1]
OBVIOUS

(* The elements of a sequence.                                               *)
LEMMA ElementOf == ASSUME NEW S, NEW q \in Seq(S)  PROVE \A k \in DOMAIN q : q[k] \in S
OBVIOUS

(* Appending nothing, one element or two.                                    *)
LEMMA ConcatFacts ==
    ASSUME NEW S, NEW q \in Seq(S), NEW x \in S, NEW y \in S
    PROVE  /\ q \o <<>> = q /\ q \o <<x>> = Append(q, x)
           /\ q \o <<x, y>> = Append(Append(q, x), y)
OBVIOUS

(* b is a, followed by commands of which only the first can be a Send, and   *)
(* that with the number n.                                                   *)
Longer(a, b, n) ==
    /\ b \in Seq(Cmds) /\ Len(a) <= Len(b)
    /\ \A k \in DOMAIN a : k \in DOMAIN b /\ b[k] = a[k]
    /\ \A k \in DOMAIN b \ DOMAIN a : b[k].type = "Send" => b[k].n = n /\ k = Len(a) + 1

(* A queue is longer by one command.                                         *)
LEMMA LongerByOne ==
    ASSUME NEW a \in Seq(Cmds), NEW x \in Cmds, NEW n, x.type = "Send" => x.n = n
    PROVE  Longer(a, Append(a, x), n)
<1>1. /\ Append(a, x) \in Seq(Cmds) /\ Len(a) \in Nat /\ DOMAIN a = 1 .. Len(a)
      /\ Len(Append(a, x)) = Len(a) + 1 /\ DOMAIN Append(a, x) = 1 .. Len(a) + 1
      /\ \A k \in DOMAIN a : Append(a, x)[k] = a[k]
      /\ Append(a, x)[Len(a) + 1] = x
  BY AppendFacts
<1>2. \A k \in DOMAIN Append(a, x) \ DOMAIN a : k = Len(a) + 1  BY <1>1
<1>3. \A k \in DOMAIN a : k \in DOMAIN Append(a, x)  BY <1>1
<1> QED  BY <1>1, <1>2, <1>3 DEF Longer

(* A queue that is longer is longer still after a Close.                     *)
LEMMA LongerByClose ==
    ASSUME NEW a \in Seq(Cmds), NEW b \in Seq(Cmds), NEW n, Longer(a, b, n),
           NEW x \in Cmds, x.type # "Send"
    PROVE  Longer(a, Append(b, x), n)
<1>1. /\ Append(b, x) \in Seq(Cmds) /\ Len(b) \in Nat /\ DOMAIN b = 1 .. Len(b)
      /\ Len(Append(b, x)) = Len(b) + 1 /\ DOMAIN Append(b, x) = 1 .. Len(b) + 1
      /\ \A k \in DOMAIN b : Append(b, x)[k] = b[k]
      /\ Append(b, x)[Len(b) + 1] = x
  BY AppendFacts
<1>2. \A k \in DOMAIN Append(b, x) : k \in DOMAIN b \/ k = Len(b) + 1  BY <1>1
<1>3. \A k \in DOMAIN b : k \in DOMAIN Append(b, x)  BY <1>1
<1>4. Len(a) <= Len(Append(b, x))  BY <1>1 DEF Longer
<1> QED  BY <1>1, <1>2, <1>3, <1>4 DEF Longer

(* A queue that stays is longer by no command.                               *)
LEMMA LongerByNone ==
    ASSUME NEW a \in Seq(Cmds), NEW n  PROVE Longer(a, a, n)
BY DEF Longer

(* What onRequest() pushes.                                                  *)
LEMMA CommandsFacts ==
    ASSUME NEW p \in Packets, NEW r \in {"none", "close", "answer", "bye"}, NEW a \in Seq(Cmds)
    PROVE  /\ Longer(a, a \o Commands(p, r), p.n)
           /\ Len(Commands(p, r)) = 2 => Longer(a, Append(a, Commands(p, r)[1]), p.n)
<1> DEFINE s == Cmd("Send", p)
           c == Cmd("Close", p)
<1>1. s \in Cmds /\ c \in Cmds /\ s.n = p.n /\ c.type = "Close"  BY DEF Cmd, Cmds, Packets
<1>2. /\ a \o <<>> = a /\ a \o <<s>> = Append(a, s) /\ a \o <<c>> = Append(a, c)
      /\ a \o <<s, c>> = Append(Append(a, s), c)
  BY <1>1, ConcatFacts
<1>3. Longer(a, Append(a, s), p.n) /\ Longer(a, Append(a, c), p.n) /\ Longer(a, a, p.n)
  BY <1>1, LongerByOne, LongerByNone
<1>4. Append(a, s) \in Seq(Cmds)  BY <1>1, AppendFacts
<1>5. Longer(a, Append(Append(a, s), c), p.n)  BY <1>1, <1>3, <1>4, LongerByClose
<1>6. CASE r = "none"
  <2>1. Commands(p, r) = <<>>  BY <1>6 DEF Commands
  <2> QED  BY <1>2, <1>3, <2>1
<1>7. CASE r = "close"
  <2>1. Commands(p, r) = <<c>>  BY <1>7 DEF Commands
  <2>2. Len(Commands(p, r)) # 2  BY <2>1
  <2> HIDE DEF c
  <2> QED  BY <1>2, <1>3, <2>1, <2>2
<1>8. CASE r = "answer"
  <2>1. Commands(p, r) = <<s>>  BY <1>8 DEF Commands
  <2>2. Len(Commands(p, r)) # 2  BY <2>1
  <2> HIDE DEF s
  <2> QED  BY <1>2, <1>3, <2>1, <2>2
<1>9. CASE r = "bye"
  <2>1. Commands(p, r) = <<s, c>>  BY <1>9 DEF Commands
  <2> HIDE DEF c, s
  <2>2. Commands(p, r)[1] = s  BY <2>1
  <2> QED  BY <1>2, <1>3, <1>5, <2>1, <2>2
<1> QED  BY <1>6, <1>7, <1>8, <1>9

-----------------------------------------------------------------------------
(* Type correctness *)

WpcStates == {"start", "test", "pop", "waiting", "woken", "handle", "close", "exit"}

(* What a workload is made of.                                               *)
LEMMA LoadFacts ==
    ASSUME TypeOK
    PROVE  /\ load.ids \subseteq Ids /\ load.workers \subseteq Workers
           /\ ~InLoop => load.workers # {}
           /\ InLoop => load.workers = {}
           /\ load.accepts \in Nat /\ load.packets \in Nat
           /\ load.replies \subseteq {"none", "close", "answer", "bye"}
<1>1. load \in Loads  BY DEF TypeOK
<1> QED  BY <1>1, ServiceAssumption DEF InLoop

(* push_back(): the packet is last, and at most one that waited is woken.    *)
LEMMA PushBackFacts ==
    ASSUME TypeOK, NEW p \in Packets, PushBack(p)
    PROVE  /\ queue' = Append(queue, p) /\ queue' \in Seq(Packets)
           /\ wpc' \in [Workers -> WpcStates]
           /\ \A w \in Workers : wpc'[w] = wpc[w] \/ (wpc[w] = "waiting" /\ wpc'[w] = "woken")
           /\ (\E w \in Workers : wpc[w] = "waiting") => \E w \in Workers : wpc[w] = "waiting" /\ wpc'[w] = "woken"
<1>1. queue \in Seq(Packets) /\ wpc \in [Workers -> WpcStates]  BY DEF TypeOK, WpcStates
<1>2. queue' = Append(queue, p) /\ queue' \in Seq(Packets)  BY <1>1, AppendFacts DEF PushBack
<1>3. CASE \E w \in Workers : wpc[w] = "waiting"
  <2>1. PICK w \in Workers : wpc[w] = "waiting" /\ wpc' = [wpc EXCEPT ![w] = "woken"]
    BY <1>3 DEF PushBack
  <2> QED  BY <1>1, <1>2, <2>1 DEF WpcStates
<1>4. CASE ~\E w \in Workers : wpc[w] = "waiting"
  BY <1>1, <1>2, <1>4 DEF PushBack
<1> QED  BY <1>3, <1>4

(* Handing a packet on keeps the types.                                      *)
LEMMA HandOnTypes ==
    ASSUME TypeOK, NEW p \in Packets, HandOn(p)
    PROVE  queue' \in Seq(Packets) /\ wpc' \in [Workers -> WpcStates] /\ told' \subseteq Ids
<1>1. CASE InLoop
  <2>1. p.id \in Ids  BY DEF Packets
  <2> QED  BY <1>1, <2>1 DEF HandOn, Hear, TypeOK, WpcStates
<1>2. CASE ~InLoop  BY <1>2, PushBackFacts DEF HandOn, TypeOK
<1> QED  BY <1>1, <1>2

(* onClose() keeps the types.                                                *)
LEMMA OnCloseTypes ==
    ASSUME TypeOK, NEW i \in Ids, OnClose(i), cmds' \in Seq(Cmds)
    PROVE  TypeOK'
<1>1. [type |-> "Close", id |-> i, rej |-> i \in rejected, n |-> 0] \in Packets  BY DEF Packets
<1>2. queue' \in Seq(Packets) /\ wpc' \in [Workers -> WpcStates] /\ told' \subseteq Ids
  BY <1>1, HandOnTypes DEF OnClose
<1> QED  BY <1>2 DEF OnClose, TypeOK, WpcStates, hist, work, main

(* The steps of the net thread keep the types.                               *)
LEMMA ListenerTypes ==
    ASSUME TypeOK, Listener
    PROVE  TypeOK'
<1>0. load.ids \subseteq Ids /\ cmds \in Seq(Cmds) /\ load.packets \in Nat /\ load.accepts \in Nat
  BY LoadFacts DEF TypeOK
<1>1. CASE LoopCmd
  <2> DEFINE c == Head(cmds)
  <2>1. c \in Cmds /\ cmds' = Tail(cmds) /\ cmds' \in Seq(Cmds)  BY <1>0, <1>1, TailFacts DEF LoopCmd
  <2>2. c.id \in Ids /\ c.n \in Nat  BY <2>1 DEF Cmds
  <2> HIDE DEF c
  <2>3. CASE OnClose(c.id)  BY <2>1, <2>2, <2>3, OnCloseTypes
  <2>4. CASE /\ answered' = [answered EXCEPT ![c.id] = Append(@, c.n)]
             /\ UNCHANGED <<open, lists, queue, wpc, work, main, accepts, packets, rejected, told>>
    <3>1. Append(answered[c.id], c.n) \in Seq(Nat)
      <4>1. answered[c.id] \in Seq(Nat)  BY <2>2 DEF TypeOK
      <4> QED  BY <2>2, <4>1, AppendFacts
    <3>2. answered' \in [Ids -> Seq(Nat)]  BY <2>4, <3>1 DEF TypeOK
    <3> QED  BY <2>1, <2>4, <3>2 DEF TypeOK, lists, work, main
  <2>5. CASE UNCHANGED <<open, lists, queue, wpc, work, main, hist, told>>
    BY <2>1, <2>5 DEF TypeOK, lists, work, main, hist
  <2> QED  BY <1>1, <2>3, <2>4, <2>5 DEF LoopCmd, c
<1>2. ASSUME NEW i \in load.ids, OnAccept(i)  PROVE TypeOK'
  <2>1. i \in Ids /\ accepts' \in 0 .. load.accepts  BY <1>0, <1>2 DEF OnAccept, TypeOK
  <2>2. <<>> \in Seq(Nat)  OBVIOUS
  <2>3. answered' \in [Ids -> Seq(Nat)]  BY <1>2, <2>1, <2>2 DEF OnAccept, TypeOK
  <2>4. CASE Refuse(i)
    <3>1. [type |-> "Close", id |-> i, n |-> 0] \in Cmds  BY <2>1 DEF Cmds
    <3>2. cmds' \in Seq(Cmds)  BY <1>0, <2>4, <3>1, AppendFacts DEF Refuse
    <3> QED  BY <1>2, <2>1, <2>3, <2>4, <3>2 DEF OnAccept, Refuse, TypeOK, work, main
  <2>5. CASE Admit(i)
    <3>1. [type |-> "Accept", id |-> i, rej |-> FALSE, n |-> 0] \in Packets  BY <2>1 DEF Packets
    <3>2. queue' \in Seq(Packets) /\ wpc' \in [Workers -> WpcStates] /\ told' \subseteq Ids
      BY <2>5, <3>1, HandOnTypes DEF Admit
    <3> QED  BY <1>2, <2>1, <2>3, <2>5, <3>2 DEF OnAccept, Admit, TypeOK, WpcStates, work, main
  <2> QED  BY <1>2, <2>4, <2>5 DEF OnAccept
<1>3. ASSUME NEW i \in load.ids, OnPacket(i)  PROVE TypeOK'
  <2> DEFINE p == [type |-> "Packet", id |-> i, rej |-> i \in rejected, n |-> packets']
  <2>1. i \in Ids /\ packets' \in 0 .. load.packets /\ packets' \in Nat  BY <1>0, <1>3 DEF OnPacket, TypeOK
  <2>2. p \in Packets  BY <2>1 DEF Packets
  <2>3. UNCHANGED <<open, accepts, rejected, answered, work, main, told>>  BY <1>3 DEF OnPacket
  <2>4. conList' \subseteq Ids /\ timelist' \subseteq Ids  BY <1>3, <2>1 DEF OnPacket, Alive, TypeOK
  <2>5. cmds' \in Seq(Cmds) /\ queue' \in Seq(Packets) /\ wpc' \in [Workers -> WpcStates]
    <3> HIDE DEF p
    <3>1. ASSUME NEW r \in load.replies, cmds' = cmds \o Commands(p, r), UNCHANGED <<queue, wpc>>
          PROVE  cmds' \in Seq(Cmds) /\ queue' \in Seq(Packets) /\ wpc' \in [Workers -> WpcStates]
      BY <1>0, <2>2, <3>1, LoadFacts, CommandsFacts DEF Longer, TypeOK, WpcStates
    <3>2. CASE PushBack(p) /\ UNCHANGED cmds  BY <1>0, <2>2, <3>2, PushBackFacts
    <3>3. CASE UNCHANGED <<cmds, queue, wpc>>  BY <1>0, <3>3 DEF TypeOK, WpcStates
    <3> QED  BY <1>3, <3>1, <3>2, <3>3 DEF OnPacket, p
  <2> QED  BY <2>1, <2>3, <2>4, <2>5 DEF TypeOK, WpcStates, work, main
<1>4. ASSUME NEW i \in load.ids, PeerClose(i)  PROVE TypeOK'
  BY <1>0, <1>4, OnCloseTypes DEF PeerClose
<1>5. ASSUME NEW i \in load.ids, TimeOut(i)  PROVE TypeOK'
  <2>1. [type |-> "Close", id |-> i, n |-> 0] \in Cmds  BY <1>0 DEF Cmds
  <2>2. cmds' \in Seq(Cmds)  BY <1>0, <1>5, <2>1, AppendFacts DEF TimeOut
  <2> QED  BY <1>5, <2>2 DEF TimeOut, TypeOK, work, main, hist
<1> QED  BY <1>1, <1>2, <1>3, <1>4, <1>5 DEF Listener

(* What a service pushes for a packet.                                       *)
LEMMA HandleCmds ==
    ASSUME TypeOK, Hands, NEW w \in load.workers, Handle(w)
    PROVE  /\ hand[w] \in Packets
           /\ cmds' = cmds \/ (hand[w].type = "Packet" /\ Longer(cmds, cmds', hand[w].n))
           /\ Handled(w) \/ (hand[w].type = "Packet" /\ Go(w, "close") /\ hand' = hand)
<1>1. w \in Workers /\ cmds \in Seq(Cmds)  BY LoadFacts DEF TypeOK
<1>2. hand[w] \in Packets  BY <1>1 DEF Handle, Hands
<1>3. CASE hand[w].type # "Packet"  BY <1>2, <1>3 DEF Handle
<1>4. CASE hand[w].type = "Packet"
  <2>1. PICK r \in load.replies :
           LET cs == Commands(hand[w], r) IN
           \/ Len(cs) < 2 /\ cmds' = cmds \o cs /\ Handled(w)
           \/ Len(cs) = 2 /\ cmds' = Append(cmds, cs[1]) /\ Go(w, "close") /\ UNCHANGED hand
    BY <1>4 DEF Handle
  <2>2. r \in {"none", "close", "answer", "bye"}  BY LoadFacts
  <2>3. Longer(cmds, cmds', hand[w].n)  BY <1>1, <1>2, <2>1, <2>2, CommandsFacts
  <2> QED  BY <1>2, <1>4, <2>1, <2>3
<1> QED  BY <1>3, <1>4

(* The steps of the services and the main thread keep the types.             *)
LEMMA ServiceTypes ==
    ASSUME TypeOK, Hands, Main \/ \E w \in load.workers : Service(w)
    PROVE  TypeOK'
<1>0. load.workers \subseteq Workers /\ cmds \in Seq(Cmds) /\ queue \in Seq(Packets)
  BY LoadFacts DEF TypeOK
<1>1. ASSUME NEW w \in load.workers, Start(w)  PROVE TypeOK'
  BY <1>0, <1>1 DEF Start, Go, TypeOK, lists, main, hist
<1>2. ASSUME NEW w \in load.workers, Test(w) \/ PopWait(w) \/ PopEmpty(w)  PROVE TypeOK'
  BY <1>0, <1>2 DEF Test, PopWait, PopEmpty, Go, TypeOK, lists, work, main, hist
<1>3. ASSUME NEW w \in load.workers, Pop(w)  PROVE TypeOK'
  <2>1. Head(queue) \in Packets /\ queue' \in Seq(Packets)  BY <1>0, <1>3, TailFacts DEF Pop
  <2>2. hand' \in [Workers -> Packets \cup {None}] /\ hand'[w] = Head(queue)
    BY <1>0, <1>3, <2>1 DEF Pop, Front, TypeOK
  <2>3. told' \subseteq Ids  BY <1>3, <2>1, <2>2 DEF Pop, Hear, TypeOK, Packets
  <2> QED  BY <1>0, <1>3, <2>1, <2>2, <2>3 DEF Pop, Go, TypeOK, lists, main, hist
<1>4. ASSUME NEW w \in load.workers, Handle(w)  PROVE TypeOK'
  <2>2. cmds' \in Seq(Cmds)  BY <1>0, <1>4, HandleCmds DEF Longer
  <2>3. hand' \in [Workers -> Packets \cup {None}] /\ wpc' \in [Workers -> WpcStates]
    BY <1>4 DEF Handle, Handled, Go, TypeOK, WpcStates
  <2> QED  BY <1>4, <2>2, <2>3 DEF Handle, TypeOK, WpcStates, lists, main, hist
<1>5. ASSUME NEW w \in load.workers, CloseAfterSend(w)  PROVE TypeOK'
  <2>1. hand[w] \in Packets  BY <1>0, <1>5 DEF CloseAfterSend, Hands
  <2>2. Cmd("Close", hand[w]) \in Cmds  BY <2>1 DEF Cmd, Cmds, Packets
  <2>3. cmds' \in Seq(Cmds)  BY <1>0, <1>5, <2>2, AppendFacts DEF CloseAfterSend
  <2> QED  BY <1>5, <2>3 DEF CloseAfterSend, Handled, Go, TypeOK, lists, main, hist
<1>6. CASE TerminateService  BY <1>6 DEF TerminateService, TypeOK, lists, work, hist
<1>7. ASSUME NEW w \in Workers, StopWorker(w)  PROVE TypeOK'
  BY <1>7 DEF StopWorker, TypeOK, lists, hist
<1>8. CASE WakeupWorkers
  BY <1>8 DEF WakeupWorkers, Wakeup, TypeOK, lists, work, hist
<1>9. CASE Join  BY <1>9 DEF Join, TypeOK, lists, hist
<1> QED  BY <1>1, <1>2, <1>3, <1>4, <1>5, <1>6, <1>7, <1>8, <1>9 DEF Service, Main

-----------------------------------------------------------------------------
(* HandlesWhileUp and NoLostPacket *)

(* What the net thread does to the services: it wakes some that wait.        *)
LEMMA ListenerWakes ==
    ASSUME TypeOK, Listener
    PROVE  /\ UNCHANGED <<running, hand, life, mpc, stopping, left, load>>
           /\ \A w \in Workers : wpc'[w] = wpc[w] \/ (wpc[w] = "waiting" /\ wpc'[w] = "woken")
           /\ \/ queue' = queue
              \/ /\ ~InLoop /\ queue' # <<>>
                 /\ (\E w \in Workers : wpc[w] = "waiting") => \E w \in Workers : wpc[w] = "waiting" /\ wpc'[w] = "woken"
<1> DEFINE Woken == \A w \in Workers : wpc'[w] = wpc[w] \/ (wpc[w] = "waiting" /\ wpc'[w] = "woken")
           Pushed == \/ queue' = queue
                     \/ /\ ~InLoop /\ queue' # <<>>
                        /\ (\E w \in Workers : wpc[w] = "waiting") =>
                              \E w \in Workers : wpc[w] = "waiting" /\ wpc'[w] = "woken"
<1>0. load.ids \subseteq Ids /\ cmds \in Seq(Cmds) /\ queue \in Seq(Packets)  BY LoadFacts DEF TypeOK
<1>1. ASSUME NEW p \in Packets, PushBack(p), ~InLoop  PROVE Woken /\ Pushed
  <2>1. Append(queue, p) # <<>>  BY <1>0
  <2> QED  BY <1>1, <2>1, PushBackFacts
<1>2. ASSUME NEW p \in Packets, HandOn(p)  PROVE Woken /\ Pushed  BY <1>1, <1>2 DEF HandOn
<1>3. ASSUME NEW i \in Ids, OnClose(i)
      PROVE  Woken /\ Pushed /\ UNCHANGED <<running, hand, life, mpc, stopping, left, load>>
  <2>1. [type |-> "Close", id |-> i, rej |-> i \in rejected, n |-> 0] \in Packets  BY DEF Packets
  <2>2. Woken /\ Pushed  BY <1>2, <1>3, <2>1 DEF OnClose
  <2> QED  BY <1>3, <2>2 DEF OnClose, work, main
<1>4. CASE LoopCmd
  <2>1. Head(cmds).id \in Ids
    <3>1. Head(cmds) \in Cmds  BY <1>0, <1>4, TailFacts DEF LoopCmd
    <3> QED  BY <3>1 DEF Cmds
  <2> QED  BY <1>3, <1>4, <2>1 DEF LoopCmd, work, main
<1>5. ASSUME NEW i \in load.ids, OnAccept(i)
      PROVE  Woken /\ Pushed /\ UNCHANGED <<running, hand, life, mpc, stopping, left, load>>
  <2>1. [type |-> "Accept", id |-> i, rej |-> FALSE, n |-> 0] \in Packets  BY <1>0 DEF Packets
  <2>2. Woken /\ Pushed  BY <1>2, <1>5, <2>1 DEF OnAccept, Refuse, Admit
  <2> QED  BY <1>5, <2>2 DEF OnAccept, work, main
<1>6. ASSUME NEW i \in load.ids, OnPacket(i)
      PROVE  Woken /\ Pushed /\ UNCHANGED <<running, hand, life, mpc, stopping, left, load>>
  <2>1. [type |-> "Packet", id |-> i, rej |-> i \in rejected, n |-> packets'] \in Packets
    BY <1>0, <1>6 DEF OnPacket, Packets, TypeOK
  <2>2. Woken /\ Pushed  BY <1>1, <1>6, <2>1 DEF OnPacket
  <2> QED  BY <1>6, <2>2 DEF OnPacket, work, main
<1>7. ASSUME NEW i \in load.ids, PeerClose(i)
      PROVE  Woken /\ Pushed /\ UNCHANGED <<running, hand, life, mpc, stopping, left, load>>
  BY <1>0, <1>3, <1>7 DEF PeerClose
<1>8. ASSUME NEW i \in load.ids, TimeOut(i)
      PROVE  Woken /\ Pushed /\ UNCHANGED <<running, hand, life, mpc, stopping, left, load>>
  BY <1>8 DEF TimeOut, work, main
<1> QED  BY <1>4, <1>5, <1>6, <1>7, <1>8 DEF Listener

(* Threads keep to their packets, and sleep only when nothing waits.         *)
LEMMA ThreadsStep ==
    ASSUME TypeOK, Hands, UpInLoop, NoLostPacket, Next
    PROVE  Hands' /\ UpInLoop' /\ NoLostPacket'
<1>0. load.workers \subseteq Workers /\ (InLoop <=> load.workers = {})  BY LoadFacts
<1> USE DEF Hands, UpInLoop, NoLostPacket, InLoop
<1>1. CASE Listener
  <2>1. /\ UNCHANGED <<running, hand, life, mpc, stopping, left, load>>
        /\ \A w \in Workers : wpc'[w] = wpc[w] \/ (wpc[w] = "waiting" /\ wpc'[w] = "woken")
        /\ \/ queue' = queue
           \/ /\ ~InLoop /\ queue' # <<>>
              /\ (\E w \in Workers : wpc[w] = "waiting") => \E w \in Workers : wpc[w] = "waiting" /\ wpc'[w] = "woken"
    BY <1>1, ListenerWakes
  <2>2. Hands' /\ UpInLoop'  BY <2>1
  <2>3. NoLostPacket'  BY <1>0, <2>1
  <2> QED  BY <2>2, <2>3
<1>2. ASSUME NEW w \in load.workers, Start(w)  PROVE Hands' /\ UpInLoop' /\ NoLostPacket'
  BY <1>0, <1>2 DEF Start, Go, TypeOK, main
<1>3. ASSUME NEW w \in load.workers, Test(w) \/ PopWait(w) \/ PopEmpty(w)
      PROVE  Hands' /\ UpInLoop' /\ NoLostPacket'
  BY <1>0, <1>3 DEF Test, PopWait, PopEmpty, Go, TypeOK, work, main
<1>4. ASSUME NEW w \in load.workers, Pop(w)  PROVE Hands' /\ UpInLoop' /\ NoLostPacket'
  <2>1. Head(queue) \in Packets  BY <1>4, TailFacts DEF Pop, TypeOK
  <2>2. /\ wpc[w] \in {"pop", "woken"} /\ wpc' = [wpc EXCEPT ![w] = "handle"]
        /\ hand' = [hand EXCEPT ![w] = Head(queue)] /\ UNCHANGED <<life, load, mpc>>
    BY <1>4 DEF Pop, Go, Front, main
  <2> QED  BY <1>0, <2>1, <2>2 DEF TypeOK
<1>5. ASSUME NEW w \in load.workers, Handle(w)  PROVE Hands' /\ UpInLoop' /\ NoLostPacket'
  <2>1. /\ wpc[w] = "handle" /\ hand[w] \in Packets
        /\ Handled(w) \/ (hand[w].type = "Packet" /\ Go(w, "close") /\ hand' = hand)
        /\ UNCHANGED <<life, load, mpc, queue>>
    BY <1>5, HandleCmds DEF Handle, main
  <2> QED  BY <1>0, <2>1 DEF Handled, Go, TypeOK
<1>6. ASSUME NEW w \in load.workers, CloseAfterSend(w)  PROVE Hands' /\ UpInLoop' /\ NoLostPacket'
  BY <1>0, <1>6 DEF CloseAfterSend, Handled, Go, TypeOK, main
<1>7. CASE TerminateService  BY <1>7 DEF TerminateService, work
<1>8. ASSUME NEW w \in Workers, StopWorker(w)  PROVE Hands' /\ UpInLoop' /\ NoLostPacket'
  BY <1>8 DEF StopWorker
<1>9. CASE WakeupWorkers
  BY <1>9 DEF WakeupWorkers, Wakeup, TypeOK, work
<1>10. CASE Join
  BY <1>10 DEF Join, TypeOK
<1> QED  BY <1>1, <1>2, <1>3, <1>4, <1>5, <1>6, <1>7, <1>8, <1>9, <1>10 DEF Next, Service, Main

-----------------------------------------------------------------------------
(* RequestsBounded *)

Waiting(q) == {k \in DOMAIN q : q[k].type = "Packet"}

(* No more packets wait than the queue holds.                                *)
LEMMA WaitingBounded ==
    ASSUME NEW q \in Seq(Packets)
    PROVE  /\ IsFiniteSet(Waiting(q)) /\ Cardinality(Waiting(q)) \in Nat
           /\ Cardinality(Waiting(q)) <= Len(q)
<1>1. Len(q) \in Nat /\ DOMAIN q = 1 .. Len(q)  OBVIOUS
<1>2. IsFiniteSet(1 .. Len(q)) /\ Cardinality(1 .. Len(q)) = Len(q)  BY <1>1, FS_Interval
<1>3. Waiting(q) \in SUBSET (1 .. Len(q))  BY <1>1 DEF Waiting
<1> QED  BY <1>2, <1>3, FS_Subset, FS_CardinalityType

(* A packet taken is one less to wait, or none.                              *)
LEMMA WaitingTaken ==
    ASSUME NEW q \in Seq(Packets), q # <<>>
    PROVE  Cardinality(Waiting(Tail(q))) <= Cardinality(Waiting(q))
<1> DEFINE f == [k \in Waiting(Tail(q)) |-> k + 1]
<1>1. /\ DOMAIN q = 1 .. Len(q) /\ DOMAIN Tail(q) = 1 .. Len(q) - 1 /\ Len(q) \in Nat
      /\ \A k \in DOMAIN Tail(q) : k + 1 \in DOMAIN q /\ Tail(q)[k] = q[k + 1]
  BY TailFacts
<1>2. \A k \in Waiting(Tail(q)) : k \in Nat /\ k + 1 \in Waiting(q)  BY <1>1 DEF Waiting
<1>3. f \in [Waiting(Tail(q)) -> Waiting(q)]  BY <1>2
<1>4. \A a, b \in Waiting(Tail(q)) : f[a] = f[b] => a = b  BY <1>2
<1>5. f \in Injection(Waiting(Tail(q)), Waiting(q))  BY <1>3, <1>4 DEF Injection, IsInjective
<1> HIDE DEF f
<1>6. IsFiniteSet(Waiting(q))  BY WaitingBounded
<1> QED  BY <1>5, <1>6, FS_Injection

(* Accept and Close packets are not counted.                                 *)
LEMMA WaitingOther ==
    ASSUME NEW q \in Seq(Packets), NEW p \in Packets, p.type # "Packet"
    PROVE  Waiting(Append(q, p)) = Waiting(q)
<1>1. /\ Len(q) \in Nat /\ DOMAIN q = 1 .. Len(q)
      /\ DOMAIN Append(q, p) = 1 .. Len(q) + 1
      /\ \A k \in DOMAIN q : Append(q, p)[k] = q[k]
      /\ Append(q, p)[Len(q) + 1] = p
  BY AppendFacts
<1>2. \A k \in DOMAIN Append(q, p) : k \in DOMAIN q \/ k = Len(q) + 1  BY <1>1
<1>3. \A k \in DOMAIN q : k \in DOMAIN Append(q, p)  BY <1>1
<1> QED  BY <1>1, <1>2, <1>3 DEF Waiting

(* What a step does to the queue: a packet is put at the end, a request only *)
(* if not too many wait, or the first one is taken.                          *)
LEMMA QueueMoves ==
    ASSUME TypeOK, Next
    PROVE  \/ queue' = queue
           \/ \E p \in Packets : /\ queue' = Append(queue, p)
                                 /\ p.type = "Packet" => Len(queue) <= MaxQueueLen
           \/ queue # <<>> /\ queue' = Tail(queue)
<1> DEFINE Push == \/ queue' = queue
                   \/ \E p \in Packets : /\ queue' = Append(queue, p)
                                         /\ p.type = "Packet" => Len(queue) <= MaxQueueLen
<1>0. load.ids \subseteq Ids /\ cmds \in Seq(Cmds)  BY LoadFacts DEF TypeOK
<1>1. ASSUME NEW i \in Ids, OnClose(i)  PROVE Push
  <2>1. [type |-> "Close", id |-> i, rej |-> i \in rejected, n |-> 0] \in Packets  BY DEF Packets
  <2> QED  BY <1>1, <2>1 DEF OnClose, HandOn, PushBack
<1>2. ASSUME LoopCmd  PROVE Push
  <2>1. Head(cmds).id \in Ids
    <3>1. Head(cmds) \in Cmds  BY <1>0, <1>2, TailFacts DEF LoopCmd
    <3> QED  BY <3>1 DEF Cmds
  <2> QED  BY <1>1, <1>2, <2>1 DEF LoopCmd
<1>3. ASSUME NEW i \in load.ids, OnAccept(i)  PROVE Push
  <2>1. [type |-> "Accept", id |-> i, rej |-> FALSE, n |-> 0] \in Packets  BY <1>0 DEF Packets
  <2> QED  BY <1>3, <2>1 DEF OnAccept, Refuse, Admit, HandOn, PushBack
<1>4. ASSUME NEW i \in load.ids, OnPacket(i)  PROVE Push
  <2> DEFINE p == [type |-> "Packet", id |-> i, rej |-> i \in rejected, n |-> packets']
  <2>1. p \in Packets  BY <1>0, <1>4 DEF OnPacket, Packets, TypeOK
  <2>2. queue' = queue \/ (~TooMany /\ queue' = Append(queue, p))  BY <1>4 DEF OnPacket, PushBack
  <2>3. ~TooMany => Len(queue) <= MaxQueueLen
    <3>1. Len(queue) \in Nat  BY DEF TypeOK
    <3> QED  BY <3>1, ServiceAssumption DEF TooMany
  <2> HIDE DEF p
  <2> QED  BY <2>1, <2>2, <2>3
<1>5. ASSUME NEW i \in load.ids, PeerClose(i)  PROVE Push  BY <1>0, <1>1, <1>5 DEF PeerClose
<1>6. ASSUME NEW i \in load.ids, TimeOut(i)  PROVE Push  BY <1>6 DEF TimeOut
<1>7. ASSUME NEW w \in load.workers, Pop(w)  PROVE queue # <<>> /\ queue' = Tail(queue)
  BY <1>7 DEF Pop
<1>8. ASSUME NEW w \in load.workers, Service(w), ~Pop(w)  PROVE queue' = queue
  BY <1>8 DEF Service, Start, Test, PopWait, PopEmpty, Handle, CloseAfterSend
<1>9. ASSUME Main  PROVE queue' = queue
  BY <1>9 DEF Main, TerminateService, StopWorker, WakeupWorkers, Join
<1> HIDE DEF Push
<1>10. Push \/ (queue # <<>> /\ queue' = Tail(queue))
  <2>1. queue' = queue => Push  BY DEF Push
  <2> QED  BY <1>2, <1>3, <1>4, <1>5, <1>6, <1>7, <1>8, <1>9, <2>1 DEF Next, Listener
<1> QED  BY <1>10 DEF Push

(* onPacket() pushes only while the queue is not over its limit.             *)
LEMMA BoundStep ==
    ASSUME TypeOK, RequestsBounded, Next
    PROVE  RequestsBounded'
<1>0. queue \in Seq(Packets) /\ Len(queue) \in Nat /\ MaxQueueLen \in Nat
  BY ServiceAssumption DEF TypeOK
<1>1. RequestsBounded <=> Cardinality(Waiting(queue)) <= MaxQueueLen + 1  BY DEF RequestsBounded, Waiting
<1>2. RequestsBounded' <=> Cardinality(Waiting(queue')) <= MaxQueueLen + 1  BY DEF RequestsBounded, Waiting
<1>3. CASE queue' = queue  BY <1>1, <1>2, <1>3
<1>4. ASSUME NEW p \in Packets, queue' = Append(queue, p), p.type # "Packet"  PROVE RequestsBounded'
  BY <1>0, <1>1, <1>2, <1>4, WaitingOther
<1>5. ASSUME NEW p \in Packets, queue' = Append(queue, p), Len(queue) <= MaxQueueLen  PROVE RequestsBounded'
  <2>1. queue' \in Seq(Packets) /\ Len(queue') = Len(queue) + 1  BY <1>0, <1>5, AppendFacts
  <2>2. /\ Cardinality(Waiting(queue')) \in Nat
        /\ Cardinality(Waiting(queue')) <= Len(queue')
    BY <2>1, WaitingBounded
  <2> QED  BY <1>0, <1>2, <1>5, <2>1, <2>2
<1>6. CASE queue # <<>> /\ queue' = Tail(queue)
  <2>1. Cardinality(Waiting(queue')) <= Cardinality(Waiting(queue))  BY <1>0, <1>6, WaitingTaken
  <2>2. Cardinality(Waiting(queue)) \in Nat  BY <1>0, WaitingBounded
  <2>3. Tail(queue) \in Seq(Packets)  BY <1>0, <1>6, TailFacts
  <2>4. Cardinality(Waiting(queue')) \in Nat  BY <1>6, <2>3, WaitingBounded
  <2> QED  BY <1>0, <1>1, <1>2, <2>1, <2>2, <2>4
<1> QED  BY <1>3, <1>4, <1>5, <1>6, QueueMoves

-----------------------------------------------------------------------------
(* TimeoutsCover *)

Closing(q) == {q[k].id : k \in {j \in DOMAIN q : q[j].type = "Close"}}

(* A longer queue closes no connection less.                                 *)
LEMMA ClosingLonger ==
    ASSUME NEW a \in Seq(Cmds), NEW b, NEW n, Longer(a, b, n)
    PROVE  Closing(a) \subseteq Closing(b)
BY DEF Closing, Longer

(* A Close that is appended closes its connection.                           *)
LEMMA ClosingAppend ==
    ASSUME NEW q \in Seq(Cmds), NEW x \in Cmds, x.type = "Close"
    PROVE  Closing(q) \cup {x.id} \subseteq Closing(Append(q, x))
<1> DEFINE p == Append(q, x)
<1>2. /\ p \in Seq(Cmds) /\ Len(q) \in Nat /\ DOMAIN q = 1 .. Len(q) /\ DOMAIN p = 1 .. Len(q) + 1
      /\ \A k \in DOMAIN q : p[k] = q[k]
      /\ p[Len(q) + 1] = x
  BY AppendFacts
<1>3. Len(q) + 1 \in DOMAIN p /\ \A k \in DOMAIN q : k \in DOMAIN p  BY <1>2
<1> HIDE DEF p
<1>4. Closing(q) \subseteq Closing(p)  BY <1>2, <1>3 DEF Closing
<1>5. x.id \in Closing(p)  BY <1>2, <1>3 DEF Closing
<1> QED  BY <1>4, <1>5 DEF p

(* The first command may be the one that closes.                             *)
LEMMA ClosingTail ==
    ASSUME NEW q \in Seq(Cmds), q # <<>>
    PROVE  \A i \in Closing(q) : i \in Closing(Tail(q)) \/ (Head(q).type = "Close" /\ Head(q).id = i)
<1>1. /\ Len(q) \in Nat /\ DOMAIN q = 1 .. Len(q) /\ Head(q) = q[1] /\ DOMAIN Tail(q) = 1 .. Len(q) - 1
      /\ \A k \in DOMAIN Tail(q) : Tail(q)[k] = q[k + 1]
  BY TailFacts
<1> SUFFICES ASSUME NEW k \in DOMAIN q, q[k].type = "Close", k # 1  PROVE q[k].id \in Closing(Tail(q))
  BY <1>1 DEF Closing
<1>2. k - 1 \in DOMAIN Tail(q) /\ k = (k - 1) + 1  BY <1>1
<1>3. Tail(q)[k - 1] = q[k]  BY <1>1, <1>2
<1> QED  BY <1>2, <1>3 DEF Closing

(* No step lets a connection escape from the lists without a Close command.  *)
LEMMA CoverStep ==
    ASSUME TypeOK, Hands, TimeoutsCover, Next
    PROVE  TimeoutsCover'
<1> DEFINE Cover(o, c, t, q) ==
              /\ o \subseteq c \cup t \cup Closing(q) /\ c \cup t \subseteq o /\ c \cap t = {}
<1>0. load.ids \subseteq Ids /\ cmds \in Seq(Cmds) /\ load.workers \subseteq Workers
  BY LoadFacts DEF TypeOK
<1>1. Cover(open, conList, timelist, cmds)  BY DEF TimeoutsCover, Closing
<1>2. SUFFICES Cover(open', conList', timelist', cmds')  BY DEF TimeoutsCover, Closing
<1>3. ASSUME UNCHANGED <<open, conList, timelist>>, Closing(cmds) \subseteq Closing(cmds')
      PROVE  Cover(open', conList', timelist', cmds')
  BY <1>1, <1>3
<1>4. ASSUME NEW n, Longer(cmds, cmds', n), UNCHANGED <<open, conList, timelist>>
      PROVE  Cover(open', conList', timelist', cmds')
  BY <1>0, <1>3, <1>4, ClosingLonger
<1>5. ASSUME LoopCmd  PROVE Cover(open', conList', timelist', cmds')
  <2> DEFINE h == Head(cmds)
  <2>1. /\ cmds' = Tail(cmds)
        /\ \A i \in Closing(cmds) : i \in Closing(cmds') \/ (h.type = "Close" /\ h.id = i)
    BY <1>0, <1>5, ClosingTail DEF LoopCmd
  <2>2. h.type = "Close" \/ h.type = "Send"
    <3>1. h \in Cmds  BY <1>0, <1>5, TailFacts DEF LoopCmd
    <3> QED  BY <3>1 DEF Cmds
  <2> HIDE DEF h
  <2>3. CASE OnClose(h.id)
    <3>1. open' = open \ {h.id} /\ conList' = conList \ {h.id} /\ timelist' = timelist \ {h.id}
      BY <2>3 DEF OnClose
    <3> QED  BY <1>1, <2>1, <3>1
  <2>4. CASE h.type = "Send" /\ UNCHANGED <<open, conList, timelist>>  BY <1>1, <2>1, <2>4
  <2>5. CASE h.id \notin open /\ UNCHANGED <<open, conList, timelist>>  BY <1>1, <2>1, <2>5
  <2> QED  BY <1>5, <2>3, <2>4, <2>5 DEF LoopCmd, lists, h
<1>6. ASSUME NEW i \in load.ids, OnAccept(i)  PROVE Cover(open', conList', timelist', cmds')
  <2>1. i \notin open /\ open' = open \cup {i} /\ timelist' = timelist  BY <1>6 DEF OnAccept
  <2>2. CASE Refuse(i)
    <3> DEFINE x == [type |-> "Close", id |-> i, n |-> 0]
    <3>1. cmds' = Append(cmds, x) /\ conList' = conList  BY <2>2 DEF Refuse
    <3>2. x \in Cmds /\ x.type = "Close" /\ x.id = i  BY <1>0 DEF Cmds
    <3> HIDE DEF x
    <3>3. Closing(cmds) \cup {i} \subseteq Closing(cmds')  BY <1>0, <3>1, <3>2, ClosingAppend
    <3> QED  BY <1>1, <2>1, <3>1, <3>3
  <2>3. CASE Admit(i)
    <3>1. conList' = conList \cup {i} /\ cmds' = cmds  BY <2>3 DEF Admit
    <3> QED  BY <1>1, <2>1, <3>1
  <2> QED  BY <1>6, <2>2, <2>3 DEF OnAccept
<1>7. ASSUME NEW i \in load.ids, OnPacket(i)  PROVE Cover(open', conList', timelist', cmds')
  <2> DEFINE p == [type |-> "Packet", id |-> i, rej |-> i \in rejected, n |-> packets']
  <2>1. i \in open /\ open' = open /\ conList' = conList \ {i} /\ timelist' = timelist \cup {i}
    BY <1>7 DEF OnPacket, Alive
  <2>2. p \in Packets  BY <1>0, <1>7 DEF OnPacket, Packets, TypeOK
  <2>3. cmds' = cmds \/ \E r \in load.replies : cmds' = cmds \o Commands(p, r)  BY <1>7 DEF OnPacket
  <2> HIDE DEF p
  <2>4. Closing(cmds) \subseteq Closing(cmds')
    BY <1>0, <2>2, <2>3, LoadFacts, CommandsFacts, ClosingLonger
  <2> QED  BY <1>1, <2>1, <2>4
<1>8. ASSUME NEW i \in load.ids, PeerClose(i)  PROVE Cover(open', conList', timelist', cmds')
  <2>1. /\ open' = open \ {i} /\ conList' = conList \ {i} /\ timelist' = timelist \ {i}
        /\ cmds' = cmds
    BY <1>8 DEF PeerClose, OnClose
  <2> QED  BY <1>1, <2>1
<1>9. ASSUME NEW i \in load.ids, TimeOut(i)  PROVE Cover(open', conList', timelist', cmds')
  <2> DEFINE x == [type |-> "Close", id |-> i, n |-> 0]
  <2>1. /\ cmds' = Append(cmds, x) /\ open' = open
        /\ conList \subseteq conList' \cup {i} /\ timelist \subseteq timelist' \cup {i}
        /\ conList' \subseteq conList /\ timelist' \subseteq timelist
    BY <1>9 DEF TimeOut
  <2>2. x \in Cmds /\ x.type = "Close" /\ x.id = i  BY <1>0 DEF Cmds
  <2> HIDE DEF x
  <2>3. Closing(cmds) \cup {i} \subseteq Closing(cmds')  BY <1>0, <2>1, <2>2, ClosingAppend
  <2> QED  BY <1>1, <2>1, <2>3
<1>10. ASSUME NEW w \in load.workers, Handle(w)  PROVE Cover(open', conList', timelist', cmds')
  <2>1. UNCHANGED <<open, conList, timelist>>  BY <1>10 DEF Handle, lists
  <2> QED  BY <1>3, <1>4, <1>10, <2>1, HandleCmds
<1>11. ASSUME NEW w \in load.workers, CloseAfterSend(w)  PROVE Cover(open', conList', timelist', cmds')
  <2>1. UNCHANGED <<open, conList, timelist>>  BY <1>11 DEF CloseAfterSend, lists
  <2>2. hand[w] \in Packets  BY <1>0, <1>11 DEF CloseAfterSend, Hands
  <2>3. Cmd("Close", hand[w]) \in Cmds /\ Cmd("Close", hand[w]).type = "Close"
    BY <2>2 DEF Cmd, Cmds, Packets
  <2>4. Longer(cmds, cmds', 0)  BY <1>0, <1>11, <2>3, LongerByOne DEF CloseAfterSend
  <2> QED  BY <1>4, <2>1, <2>4
<1>12. ASSUME NEW w \in load.workers, Service(w), ~Handle(w), ~CloseAfterSend(w)
       PROVE  UNCHANGED <<open, conList, timelist, cmds>>
  BY <1>12 DEF Service, Start, Test, PopWait, PopEmpty, Pop, lists
<1>13. ASSUME Main  PROVE UNCHANGED <<open, conList, timelist, cmds>>
  BY <1>13 DEF Main, TerminateService, StopWorker, WakeupWorkers, Join, lists
<1> HIDE DEF Cover
<1>14. UNCHANGED <<open, conList, timelist, cmds>> => Cover(open', conList', timelist', cmds')  BY <1>1
<1> QED  BY <1>5, <1>6, <1>7, <1>8, <1>9, <1>10, <1>11, <1>12, <1>13, <1>14 DEF Next, Listener

-----------------------------------------------------------------------------
(* HeardInOrder *)

(* What a service that was told of the ids t knows when it heard p.          *)
Heard(t, p) == IF p.type = "Packet" \/ p.rej THEN t
               ELSE IF p.type = "Accept" THEN t \cup {p.id} ELSE t \ {p.id}

(* The packet p is one the service has to hear when its peers a become b.    *)
Fits(p, a, b) ==
    IF p.rej THEN b = a
    ELSE /\ p.type = "Accept" <=> p.id \notin a
         /\ b = IF p.type = "Close" THEN a \ {p.id} ELSE a \cup {p.id}

(* What a step does to the packets that the service hears: nothing, a packet *)
(* that fits is queued or heard, or the first in the queue is heard.         *)
LEMMA HearMoves ==
    ASSUME TypeOK, Next
    PROVE  \/ queue' = queue /\ told' = told /\ Peers' = Peers
           \/ \E p \in Packets : /\ Fits(p, Peers, Peers')
                                 /\ \/ queue' = Append(queue, p) /\ told' = told
                                    \/ InLoop /\ queue' = queue /\ told' = Heard(told, p)
           \/ /\ queue # <<>> /\ queue' = Tail(queue)
              /\ told' = Heard(told, Head(queue)) /\ Peers' = Peers
<1> DEFINE Same == queue' = queue /\ told' = told /\ Peers' = Peers
           Push == \E p \in Packets : /\ Fits(p, Peers, Peers')
                                      /\ \/ queue' = Append(queue, p) /\ told' = told
                                         \/ InLoop /\ queue' = queue /\ told' = Heard(told, p)
           Take == /\ queue # <<>> /\ queue' = Tail(queue)
                   /\ told' = Heard(told, Head(queue)) /\ Peers' = Peers
<1>0. load.ids \subseteq Ids /\ cmds \in Seq(Cmds)  BY LoadFacts DEF TypeOK
<1>1. ASSUME NEW p \in Packets, HandOn(p), Fits(p, Peers, Peers')  PROVE Push
  BY <1>1 DEF HandOn, Hear, Heard, PushBack
<1>2. ASSUME NEW i \in Ids, OnClose(i)  PROVE Push
  <2> DEFINE p == [type |-> "Close", id |-> i, rej |-> i \in rejected, n |-> 0]
  <2>1. p \in Packets  BY DEF Packets
  <2>2. Peers' = Peers \ {i} /\ i \in open  BY <1>2 DEF OnClose, Peers, hist
  <2>3. Fits(p, Peers, Peers')  BY <2>2 DEF Fits, Peers
  <2>4. HandOn(p)  BY <1>2 DEF OnClose
  <2> HIDE DEF p, Push
  <2> QED  BY <1>1, <2>1, <2>3, <2>4
<1>3. ASSUME LoopCmd  PROVE Same \/ Push
  <2>1. Head(cmds).id \in Ids
    <3>1. Head(cmds) \in Cmds  BY <1>0, <1>3, TailFacts DEF LoopCmd
    <3> QED  BY <3>1 DEF Cmds
  <2> HIDE DEF Push
  <2> QED  BY <1>2, <1>3, <2>1 DEF LoopCmd, Peers, hist
<1>4. ASSUME NEW i \in load.ids, OnAccept(i)  PROVE Same \/ Push
  <2>1. i \in Ids /\ i \notin open /\ open' = open \cup {i}  BY <1>0, <1>4 DEF OnAccept
  <2>2. CASE Refuse(i)  BY <2>1, <2>2 DEF Refuse, Peers
  <2>3. CASE Admit(i)
    <3> DEFINE p == [type |-> "Accept", id |-> i, rej |-> FALSE, n |-> 0]
    <3>1. p \in Packets  BY <2>1 DEF Packets
    <3>2. Peers' = Peers \cup {i} /\ i \notin Peers  BY <2>1, <2>3 DEF Admit, Peers
    <3>3. Fits(p, Peers, Peers')  BY <3>2 DEF Fits
    <3>4. HandOn(p)  BY <2>3 DEF Admit
    <3> HIDE DEF p, Push
    <3> QED  BY <1>1, <3>1, <3>3, <3>4
  <2> QED  BY <1>4, <2>2, <2>3 DEF OnAccept
<1>5. ASSUME NEW i \in load.ids, OnPacket(i)  PROVE Same \/ Push
  <2> DEFINE p == [type |-> "Packet", id |-> i, rej |-> i \in rejected, n |-> packets']
  <2>1. p \in Packets  BY <1>0, <1>5 DEF OnPacket, Packets, TypeOK
  <2>2. Peers' = Peers /\ i \in open /\ told' = told  BY <1>5 DEF OnPacket, Peers
  <2>3. Fits(p, Peers, Peers')  BY <2>2 DEF Fits, Peers
  <2>4. queue' = queue \/ queue' = Append(queue, p)  BY <1>5 DEF OnPacket, PushBack
  <2> HIDE DEF p
  <2> QED  BY <2>1, <2>2, <2>3, <2>4
<1>6. ASSUME NEW i \in load.ids, PeerClose(i)  PROVE Push
  <2> HIDE DEF Push
  <2> QED  BY <1>0, <1>2, <1>6 DEF PeerClose
<1>7. ASSUME NEW i \in load.ids, TimeOut(i)  PROVE Same  BY <1>7 DEF TimeOut, Peers, hist
<1>8. ASSUME NEW w \in load.workers, Pop(w)  PROVE Take
  <2>1. w \in Workers /\ hand \in [Workers -> Packets \cup {None}]  BY LoadFacts DEF TypeOK
  <2>2. hand'[w] = Head(queue)  BY <1>8, <2>1 DEF Pop, Front
  <2> QED  BY <1>8, <2>2 DEF Pop, Hear, Heard, Peers, hist
<1>9. ASSUME NEW w \in load.workers, Service(w), ~Pop(w)  PROVE Same
  BY <1>9 DEF Service, Start, Test, PopWait, PopEmpty, Handle, CloseAfterSend, Peers, hist
<1>10. ASSUME Main  PROVE Same
  BY <1>10 DEF Main, TerminateService, StopWorker, WakeupWorkers, Join, Peers, hist
<1> HIDE DEF Push, Same, Take
<1>11. Same \/ Push \/ Take
  BY <1>3, <1>4, <1>5, <1>6, <1>7, <1>8, <1>9, <1>10 DEF Next, Listener
<1> QED  BY <1>11 DEF Same, Push, Take

(* A packet at the end changes what is known after it only.                  *)
LEMMA KnowsAppend ==
    ASSUME NEW q \in Seq(Packets), NEW x \in Packets, NEW t, NEW i
    PROVE  /\ \A k \in DOMAIN q : About(Append(q, x), i, k) <=> About(q, i, k)
           /\ \A k \in 0 .. Len(q) : Knows(Append(q, x), t, i, k) <=> Knows(q, t, i, k)
           /\ Knows(Append(q, x), t, i, Len(q) + 1) <=>
                 IF x.id = i /\ ~x.rej THEN x.type # "Close" ELSE Knows(q, t, i, Len(q))
<1> DEFINE p == Append(q, x)
           m == Len(q) + 1
<1>1. /\ m - 1 = Len(q) /\ m \in Nat /\ DOMAIN q = 1 .. m - 1
      /\ \A k \in 1 .. m - 1 : p[k] = q[k]
      /\ p[m] = x
  BY AppendFacts
<1> HIDE DEF p, m
<1>2. \A k \in 1 .. m - 1 : About(p, i, k) <=> About(q, i, k)  BY <1>1 DEF About
<1>3. About(p, i, m) <=> x.id = i /\ ~x.rej  BY <1>1 DEF About
<1>4. ASSUME NEW k \in 0 .. m - 1  PROVE Knows(p, t, i, k) <=> Knows(q, t, i, k)
  <2>1. \A j \in 1 .. k : j \in 1 .. m - 1 /\ \A l \in (j + 1) .. k : l \in 1 .. m - 1  BY <1>1
  <2> QED  BY <1>1, <1>2, <2>1 DEF Knows
<1>5. CASE About(p, i, m)
  <2>1. m \in 1 .. m /\ (m + 1) .. m = {} /\ \A j \in 1 .. m : j # m => m \in (j + 1) .. m  BY <1>1
  <2>2. Knows(p, t, i, m) <=> p[m].type # "Close"  BY <1>5, <2>1 DEF Knows
  <2> QED  BY <1>1, <1>2, <1>3, <1>4, <1>5, <2>2 DEF p, m
<1>6. CASE ~About(p, i, m)
  <2>1. /\ \A j \in 1 .. m : j = m \/ j \in 1 .. m - 1
        /\ \A j \in 1 .. m - 1 : j \in 1 .. m
        /\ \A j \in 1 .. m - 1 : \A l \in (j + 1) .. m : l = m \/ l \in (j + 1) .. m - 1
        /\ \A j \in 1 .. m - 1 : \A l \in (j + 1) .. m - 1 : l \in (j + 1) .. m
    BY <1>1
  <2>2. Knows(p, t, i, m) <=> Knows(p, t, i, m - 1)  BY <1>6, <2>1 DEF Knows
  <2>3. m - 1 \in 0 .. m - 1  BY <1>1
  <2> QED  BY <1>1, <1>2, <1>3, <1>4, <1>6, <2>2, <2>3 DEF p, m
<1> QED  BY <1>5, <1>6

(* To hear the first packet and then k others is to hear k + 1.              *)
LEMMA KnowsTail ==
    ASSUME NEW q \in Seq(Packets), q # <<>>, NEW t, NEW i,
           About(q, i, 1) /\ q[1].type = "Packet" => i \in t
    PROVE  /\ \A k \in DOMAIN Tail(q) : About(Tail(q), i, k) <=> About(q, i, k + 1)
           /\ \A k \in 0 .. Len(q) - 1 :
                 Knows(Tail(q), Heard(t, Head(q)), i, k) <=> Knows(q, t, i, k + 1)
<1> DEFINE p == Tail(q)
           m == Len(q)
           u == Heard(t, Head(q))
<1>1. /\ m \in Nat /\ 1 \in 1 .. m /\ Head(q) = q[1] /\ q[1] \in Packets
      /\ DOMAIN p = 1 .. m - 1
      /\ \A k \in 1 .. m - 1 : p[k] = q[k + 1]
  BY TailFacts
<1>2. i \in u <=> IF About(q, i, 1) THEN q[1].type # "Close" ELSE i \in t
  BY <1>1 DEF Heard, About, Packets
<1> HIDE DEF p, m, u
<1>3. \A k \in 1 .. m - 1 : About(p, i, k) <=> About(q, i, k + 1)  BY <1>1 DEF About
<1>4. ASSUME NEW k \in 0 .. m - 1  PROVE Knows(p, u, i, k) <=> Knows(q, t, i, k + 1)
  <2>1. /\ \A j \in 1 .. k : j \in 1 .. m - 1 /\ j + 1 \in 1 .. k + 1 /\ j + 1 \in 2 .. k + 1
        /\ \A j \in 1 .. k + 1 : j = 1 \/ (j - 1 \in 1 .. k /\ (j - 1) + 1 = j)
        /\ 1 \in 1 .. k + 1 /\ 1 + 1 = 2
        /\ \A l \in 2 .. k + 1 : l - 1 \in 1 .. k /\ (l - 1) + 1 = l /\ l \in 1 .. k + 1
    BY <1>1
  <2>a. ASSUME NEW l \in 2 .. k + 1  PROVE About(q, i, l) <=> About(p, i, l - 1)
    <3>1. l - 1 \in 1 .. m - 1 /\ (l - 1) + 1 = l  BY <1>1
    <3>2. About(p, i, l - 1) <=> About(q, i, (l - 1) + 1)  BY <1>3, <3>1
    <3> QED  BY <3>1, <3>2
  <2>2. (\A j \in 1 .. k : ~About(p, i, j)) <=> (\A l \in 2 .. k + 1 : ~About(q, i, l))
    <3>1. (\A j \in 1 .. k : ~About(p, i, j)) => (\A l \in 2 .. k + 1 : ~About(q, i, l))
      BY <2>1, <2>a
    <3>2. (\A l \in 2 .. k + 1 : ~About(q, i, l)) => (\A j \in 1 .. k : ~About(p, i, j))
      BY <1>3, <2>1
    <3> QED  BY <3>1, <3>2
  <2>3. (\A j \in 1 .. k + 1 : ~About(q, i, j)) <=>
           ~About(q, i, 1) /\ (\A l \in 2 .. k + 1 : ~About(q, i, l))
    <3>1. \A j \in 1 .. k + 1 : j = 1 \/ j \in 2 .. k + 1  BY <1>1
    <3> QED  BY <2>1, <3>1
  <2>4. ASSUME NEW j \in 1 .. k
        PROVE  (\A l \in (j + 1) .. k : ~About(p, i, l)) <=>
               (\A l \in ((j + 1) + 1) .. k + 1 : ~About(q, i, l))
    <3>1. /\ \A l \in (j + 1) .. k : l \in 1 .. m - 1 /\ l + 1 \in ((j + 1) + 1) .. k + 1
          /\ \A l \in ((j + 1) + 1) .. k + 1 : l - 1 \in (j + 1) .. k /\ l \in 2 .. k + 1
      BY <1>1
    <3>2. (\A l \in (j + 1) .. k : ~About(p, i, l)) =>
          (\A l \in ((j + 1) + 1) .. k + 1 : ~About(q, i, l))
      BY <2>a, <3>1
    <3>3. (\A l \in ((j + 1) + 1) .. k + 1 : ~About(q, i, l)) =>
          (\A l \in (j + 1) .. k : ~About(p, i, l))
      BY <1>3, <3>1
    <3> QED  BY <3>2, <3>3
  <2> DEFINE P(j) == /\ About(p, i, j) /\ p[j].type # "Close"
                     /\ \A l \in (j + 1) .. k : ~About(p, i, l)
             Q(j) == /\ About(q, i, j) /\ q[j].type # "Close"
                     /\ \A l \in (j + 1) .. k + 1 : ~About(q, i, l)
  <2>5. \A j \in 1 .. k : P(j) <=> Q(j + 1)  BY <1>1, <1>3, <2>1, <2>4
  <2>6. Q(1) <=> About(q, i, 1) /\ q[1].type # "Close" /\ \A l \in 2 .. k + 1 : ~About(q, i, l)
    BY <2>1
  <2>7. Knows(p, u, i, k) <=>
           \/ i \in u /\ \A j \in 1 .. k : ~About(p, i, j)
           \/ \E j \in 1 .. k : P(j)
    BY DEF Knows
  <2>8. Knows(q, t, i, k + 1) <=>
           \/ i \in t /\ \A j \in 1 .. k + 1 : ~About(q, i, j)
           \/ \E j \in 1 .. k + 1 : Q(j)
    BY DEF Knows
  <2> HIDE DEF P, Q
  <2>9. (\E j \in 1 .. k + 1 : Q(j)) <=> Q(1) \/ \E j \in 1 .. k : P(j)
    <3>1. ASSUME NEW j \in 1 .. k + 1, Q(j), j # 1  PROVE P(j - 1) /\ j - 1 \in 1 .. k
      <4>1. j - 1 \in 1 .. k /\ (j - 1) + 1 = j  BY <2>1, <3>1
      <4>2. P(j - 1) <=> Q((j - 1) + 1)  BY <2>5, <4>1
      <4> QED  BY <3>1, <4>1, <4>2
    <3>2. ASSUME NEW j \in 1 .. k, P(j)  PROVE \E l \in 1 .. k + 1 : Q(l)
      BY <2>1, <2>5, <3>2
    <3>3. (\E j \in 1 .. k + 1 : Q(j)) => Q(1) \/ \E j \in 1 .. k : P(j)  BY <3>1
    <3>4. Q(1) \/ (\E j \in 1 .. k : P(j)) => \E j \in 1 .. k + 1 : Q(j)  BY <2>1, <3>2
    <3> QED  BY <3>3, <3>4
  <2> QED  BY <1>2, <2>2, <2>3, <2>6, <2>7, <2>8, <2>9
<1> QED  BY <1>1, <1>3, <1>4 DEF p, m, u

(* A queue that is empty leaves what was told.                               *)
LEMMA KnowsNothing ==
    ASSUME NEW q, NEW t, NEW i
    PROVE  Knows(q, t, i, 0) <=> i \in t
<1>1. 1 .. 0 = {}  OBVIOUS
<1> QED  BY <1>1 DEF Knows

(* Every step keeps the order in which the service hears of an id.           *)
LEMMA HeardStep ==
    ASSUME TypeOK, Hands, HeardInOrder, WillKnow, Next
    PROVE  HeardInOrder' /\ WillKnow'
<1> DEFINE Order(q, t) == \A i \in Ids : \A k \in DOMAIN q :
                             About(q, i, k) => (q[k].type = "Accept" <=> ~Knows(q, t, i, k - 1))
           Will(q, t, s) == \A i \in Ids : Knows(q, t, i, Len(q)) <=> i \in s
<1>0. queue \in Seq(Packets) /\ Len(queue) \in Nat /\ DOMAIN queue = 1 .. Len(queue)
  BY DEF TypeOK
<1>1. Order(queue, told) /\ Will(queue, told, Peers)  BY DEF HeardInOrder, WillKnow
<1>2. SUFFICES Order(queue', told') /\ Will(queue', told', Peers')
  BY DEF HeardInOrder, WillKnow
<1>3. ASSUME queue' = queue, told' = told, Peers' = Peers
      PROVE  Order(queue', told') /\ Will(queue', told', Peers')
  BY <1>1, <1>3
<1>4. ASSUME NEW p \in Packets, Fits(p, Peers, Peers'), queue' = Append(queue, p), told' = told
      PROVE  Order(queue', told') /\ Will(queue', told', Peers')
  <2> DEFINE m == Len(queue)
  <2>1. /\ m \in Nat /\ DOMAIN queue = 1 .. m /\ DOMAIN queue' = 1 .. m + 1 /\ Len(queue') = m + 1
        /\ \A k \in DOMAIN queue : queue'[k] = queue[k]
        /\ queue'[m + 1] = p
    BY <1>0, <1>4, AppendFacts
  <2>2. ASSUME NEW i \in Ids
        PROVE  /\ \A k \in 1 .. m : About(queue', i, k) <=> About(queue, i, k)
               /\ \A k \in 0 .. m : Knows(queue', told', i, k) <=> Knows(queue, told, i, k)
               /\ Knows(queue', told', i, m + 1) <=>
                     IF p.id = i /\ ~p.rej THEN p.type # "Close" ELSE Knows(queue, told, i, m)
    BY <1>0, <1>4, KnowsAppend
  <2> HIDE DEF m
  <2>3. ASSUME NEW i \in Ids, NEW k \in 1 .. m, About(queue', i, k)
        PROVE  queue'[k].type = "Accept" <=> ~Knows(queue', told', i, k - 1)
    <3>1. k - 1 \in 0 .. m  BY <2>1
    <3>2. queue'[k] = queue[k] /\ About(queue, i, k)  BY <2>1, <2>2, <2>3
    <3>3. queue[k].type = "Accept" <=> ~Knows(queue, told, i, k - 1)  BY <1>1, <2>1, <3>2
    <3> QED  BY <2>2, <3>1, <3>2, <3>3
  <2>4. \A i \in Ids : Knows(queue, told, i, m) <=> i \in Peers  BY <1>1 DEF m
  <2>5. ASSUME NEW i \in Ids, About(queue', i, m + 1)
        PROVE  queue'[m + 1].type = "Accept" <=> ~Knows(queue', told', i, (m + 1) - 1)
    <3>1. (m + 1) - 1 = m /\ m \in 0 .. m  BY <2>1
    <3>2. p.id = i /\ ~p.rej  BY <2>1, <2>5 DEF About
    <3>3. Knows(queue', told', i, m) <=> i \in Peers  BY <2>2, <2>4, <3>1
    <3> QED  BY <1>4, <2>1, <3>1, <3>2, <3>3 DEF Fits
  <2>6. \A k \in DOMAIN queue' : k \in 1 .. m \/ k = m + 1  BY <2>1
  <2>7. Order(queue', told')  BY <2>3, <2>5, <2>6
  <2>8. Will(queue', told', Peers')  BY <1>4, <2>1, <2>2, <2>4 DEF Fits
  <2> QED  BY <2>7, <2>8
<1>5. ASSUME NEW p \in Packets, Fits(p, Peers, Peers'), InLoop, queue' = queue, told' = Heard(told, p)
      PROVE  Order(queue', told') /\ Will(queue', told', Peers')
  <2>1. queue = <<>> /\ Len(queue) = 0 /\ DOMAIN queue = {}  BY <1>5 DEF Hands
  <2>2. \A i \in Ids : i \in told <=> i \in Peers  BY <1>1, <2>1, KnowsNothing
  <2>3. \A i \in Ids : i \in told' <=> i \in Peers'  BY <1>5, <2>2 DEF Fits, Heard, Packets
  <2>4. \A i \in Ids : Knows(queue', told', i, 0) <=> i \in told'  BY KnowsNothing
  <2> QED  BY <1>5, <2>1, <2>3, <2>4
<1>6. ASSUME queue # <<>>, queue' = Tail(queue), told' = Heard(told, Head(queue)), Peers' = Peers
      PROVE  Order(queue', told') /\ Will(queue', told', Peers')
  <2> DEFINE m == Len(queue)
  <2>1. /\ m \in Nat /\ m > 0 /\ DOMAIN queue = 1 .. m /\ Len(queue') = m - 1 /\ DOMAIN queue' = 1 .. m - 1
        /\ \A k \in DOMAIN queue' : queue'[k] = queue[k + 1]
    BY <1>0, <1>6, TailFacts
  <2>2. ASSUME NEW i \in Ids
        PROVE  /\ \A k \in DOMAIN queue' : About(queue', i, k) <=> About(queue, i, k + 1)
               /\ \A k \in 0 .. m - 1 : Knows(queue', told', i, k) <=> Knows(queue, told, i, k + 1)
    <3>1. About(queue, i, 1) /\ queue[1].type = "Packet" => i \in told
      <4>1. 1 \in DOMAIN queue /\ 1 - 1 = 0  BY <2>1
      <4> QED  BY <1>1, <4>1, KnowsNothing
    <3> QED  BY <1>0, <1>6, <3>1, KnowsTail
  <2> HIDE DEF m
  <2>3. ASSUME NEW i \in Ids, NEW k \in 1 .. m - 1, About(queue', i, k)
        PROVE  queue'[k].type = "Accept" <=> ~Knows(queue', told', i, k - 1)
    <3>1. k + 1 \in 1 .. m /\ k - 1 \in 0 .. m - 1 /\ (k - 1) + 1 = k /\ (k + 1) - 1 = k  BY <2>1
    <3>2. queue'[k] = queue[k + 1] /\ About(queue, i, k + 1)  BY <2>1, <2>2, <2>3
    <3>3. queue[k + 1].type = "Accept" <=> ~Knows(queue, told, i, k)  BY <1>1, <2>1, <3>1, <3>2
    <3>4. Knows(queue', told', i, k - 1) <=> Knows(queue, told, i, k)
      <4>1. Knows(queue', told', i, k - 1) <=> Knows(queue, told, i, (k - 1) + 1)  BY <2>2, <3>1
      <4> QED  BY <3>1, <4>1
    <3> QED  BY <3>2, <3>3, <3>4
  <2>4. ASSUME NEW i \in Ids  PROVE Knows(queue', told', i, m - 1) <=> i \in Peers'
    <3>1. m - 1 \in 0 .. m - 1 /\ (m - 1) + 1 = m  BY <2>1
    <3>2. Knows(queue', told', i, m - 1) <=> Knows(queue, told, i, (m - 1) + 1)  BY <2>2, <3>1
    <3>3. Knows(queue, told, i, m) <=> i \in Peers  BY <1>1 DEF m
    <3> QED  BY <1>6, <3>1, <3>2, <3>3
  <2> QED  BY <2>1, <2>3, <2>4
<1> HIDE DEF Order, Will
<1> QED  BY <1>3, <1>4, <1>5, <1>6, HearMoves

-----------------------------------------------------------------------------
(* AnswersInOrder *)

(* What of b is of the type T is in a too, at the same place or one later.   *)
FewerOf(T, a, b) ==
    \E d \in {0, 1} : \A k \in DOMAIN b : b[k].type = T => k + d \in DOMAIN a /\ b[k] = a[k + d]

(* Appending something of another type adds none of type T.                  *)
LEMMA FewerAppend ==
    ASSUME NEW S, NEW q \in Seq(S), NEW x \in S, NEW T, x.type # T
    PROVE  FewerOf(T, q, Append(q, x))
<1>1. /\ Len(q) \in Nat /\ DOMAIN q = 1 .. Len(q)
      /\ DOMAIN Append(q, x) = 1 .. Len(q) + 1
      /\ \A k \in DOMAIN q : Append(q, x)[k] = q[k]
      /\ Append(q, x)[Len(q) + 1] = x
  BY AppendFacts
<1>2. \A k \in DOMAIN Append(q, x) : k = Len(q) + 1 \/ (k \in DOMAIN q /\ k + 0 = k)  BY <1>1
<1>3. \A k \in DOMAIN Append(q, x) : Append(q, x)[k].type = T =>
         k + 0 \in DOMAIN q /\ Append(q, x)[k] = q[k + 0]
  BY <1>1, <1>2
<1> QED  BY <1>3 DEF FewerOf

(* The tail has none of type T that the queue had not.                       *)
LEMMA FewerTail ==
    ASSUME NEW S, NEW q \in Seq(S), NEW T, q # <<>>
    PROVE  FewerOf(T, q, Tail(q))
<1>1. \A k \in DOMAIN Tail(q) : k + 1 \in DOMAIN q /\ Tail(q)[k] = q[k + 1]  BY TailFacts
<1> QED  BY <1>1 DEF FewerOf

(* A queue that stays has none of type T more.                               *)
LEMMA FewerSame ==
    ASSUME NEW S, NEW q \in Seq(S), NEW T
    PROVE  FewerOf(T, q, q)
<1>1. \A k \in DOMAIN q : k + 0 = k  OBVIOUS
<1> QED  BY <1>1 DEF FewerOf

(* The types of the numbers.                                                 *)
LEMMA NumberTypes ==
    ASSUME TypeOK
    PROVE  /\ packets \in Nat
           /\ \A i \in Ids : /\ answered[i] \in Seq(Nat) /\ DOMAIN answered[i] \subseteq Nat
                             /\ \A j \in DOMAIN answered[i] : answered[i][j] \in Nat
           /\ DOMAIN cmds \subseteq Nat /\ \A k \in DOMAIN cmds : cmds[k].n \in Nat
           /\ DOMAIN queue \subseteq Nat /\ \A k \in DOMAIN queue : queue[k].n \in Nat
           /\ \A w \in load.workers : hand[w] \in Packets => hand[w].n \in Nat
<1>1. packets \in Nat  BY LoadFacts DEF TypeOK
<1>2. ASSUME NEW i \in Ids  PROVE /\ answered[i] \in Seq(Nat) /\ DOMAIN answered[i] \subseteq Nat
                                  /\ \A j \in DOMAIN answered[i] : answered[i][j] \in Nat
  <2>1. answered[i] \in Seq(Nat)  BY DEF TypeOK
  <2> QED  BY <2>1
<1>3. DOMAIN cmds \subseteq Nat /\ \A k \in DOMAIN cmds : cmds[k].n \in Nat
  <2>1. cmds \in Seq(Cmds)  BY DEF TypeOK
  <2>2. DOMAIN cmds \subseteq Nat /\ \A k \in DOMAIN cmds : cmds[k] \in Cmds  BY <2>1, ElementOf
  <2> QED  BY <2>2 DEF Cmds
<1>4. DOMAIN queue \subseteq Nat /\ \A k \in DOMAIN queue : queue[k].n \in Nat
  <2>1. queue \in Seq(Packets)  BY DEF TypeOK
  <2>2. DOMAIN queue \subseteq Nat /\ \A k \in DOMAIN queue : queue[k] \in Packets  BY <2>1, ElementOf
  <2> QED  BY <2>2 DEF Packets
<1> QED  BY <1>1, <1>2, <1>3, <1>4 DEF Packets

(* Fewer of the numbers, in the order they had, still rise.                  *)
LEMMA RiseFewer ==
    ASSUME TypeOK, TypeOK', NumbersRise, load' = load,
           FewerOf("Send", cmds, cmds'), FewerOf("Packet", queue, queue'), packets <= packets',
           \A i \in Ids : answered'[i] = answered[i] \/ answered'[i] = <<>>,
           \A w \in load.workers : InHand(w)' =>
               InHand(w) /\ hand'[w] = hand[w] /\ (wpc'[w] = "handle" => wpc[w] = "handle")
    PROVE  NumbersRise'
<1> SUFFICES ASSUME One'  PROVE (AnsweredRise /\ AnsweredSoFar /\ CmdsRise /\ QueueRises /\ HandRises)'
  BY DEF NumbersRise
<1>0. AnsweredRise /\ AnsweredSoFar /\ CmdsRise /\ QueueRises /\ HandRises  BY DEF NumbersRise, One
<1>1. /\ packets \in Nat
      /\ \A i \in Ids : DOMAIN answered[i] \subseteq Nat /\ \A j \in DOMAIN answered[i] : answered[i][j] \in Nat
      /\ DOMAIN cmds \subseteq Nat /\ \A k \in DOMAIN cmds : cmds[k].n \in Nat
      /\ DOMAIN queue \subseteq Nat /\ \A k \in DOMAIN queue : queue[k].n \in Nat
  BY NumberTypes
<1>2. packets' \in Nat /\ DOMAIN cmds' \subseteq Nat /\ DOMAIN queue' \subseteq Nat
  <2>1. packets' \in Nat  BY LoadFacts DEF TypeOK
  <2>2. cmds' \in Seq(Cmds) /\ queue' \in Seq(Packets)  BY DEF TypeOK
  <2>3. DOMAIN cmds' \subseteq Nat /\ DOMAIN queue' \subseteq Nat  BY <2>2
  <2> QED  BY <2>1, <2>3
<1>3. PICK d \in {0, 1} : \A k \in DOMAIN cmds' : cmds'[k].type = "Send" =>
         k + d \in DOMAIN cmds /\ cmds'[k] = cmds[k + d]
  BY DEF FewerOf
<1>4. PICK e \in {0, 1} : \A k \in DOMAIN queue' : queue'[k].type = "Packet" =>
         k + e \in DOMAIN queue /\ queue'[k] = queue[k + e]
  BY DEF FewerOf
<1>5. \A i \in Ids : \A j \in DOMAIN answered'[i] : j \in DOMAIN answered[i] /\ answered'[i][j] = answered[i][j]
      /\ answered'[i] = answered[i]
  <2>1. DOMAIN <<>> = {}  OBVIOUS
  <2> QED  BY <2>1
<1>6. AnsweredRise'  BY <1>0, <1>5 DEF AnsweredRise
<1>7. AnsweredSoFar'  BY <1>0, <1>1, <1>2, <1>5 DEF AnsweredSoFar
<1>8. \A j, k \in Nat : j < k => j + d < k + d /\ j + e < k + e  OBVIOUS
<1>9. CmdsRise'
  <2>1. ASSUME NEW j \in DOMAIN cmds', NEW k \in DOMAIN cmds', IsSend(j)', IsSend(k)', j < k
        PROVE  cmds'[j].n < cmds'[k].n
    <3>1. /\ j + d \in DOMAIN cmds /\ k + d \in DOMAIN cmds /\ j + d < k + d
          /\ cmds'[j] = cmds[j + d] /\ cmds'[k] = cmds[k + d]
      BY <1>2, <1>3, <1>8, <2>1 DEF IsSend
    <3> QED  BY <1>0, <2>1, <3>1 DEF CmdsRise, IsSend
  <2>2. ASSUME NEW k \in DOMAIN cmds', IsSend(k)'
        PROVE  /\ cmds'[k].n <= packets'
               /\ \A i \in Ids : \A j \in DOMAIN answered'[i] : answered'[i][j] < cmds'[k].n
    <3>1. k + d \in DOMAIN cmds /\ cmds'[k] = cmds[k + d] /\ IsSend(k + d)
      BY <1>3, <2>2 DEF IsSend
    <3>2. cmds[k + d].n <= packets /\ cmds[k + d].n \in Nat  BY <1>0, <1>1, <3>1 DEF CmdsRise
    <3>3. \A i \in Ids : \A j \in DOMAIN answered[i] : answered[i][j] < cmds[k + d].n
      BY <1>0, <3>1 DEF CmdsRise
    <3>4. cmds'[k].n <= packets'  BY <1>1, <1>2, <3>1, <3>2
    <3> QED  BY <1>5, <3>1, <3>3, <3>4
  <2> QED  BY <2>1, <2>2 DEF CmdsRise
<1>10. QueueRises'
  <2>1. ASSUME NEW j \in DOMAIN queue', NEW k \in DOMAIN queue', IsPacket(j)', IsPacket(k)', j < k
        PROVE  queue'[j].n < queue'[k].n
    <3>1. /\ j + e \in DOMAIN queue /\ k + e \in DOMAIN queue /\ j + e < k + e
          /\ queue'[j] = queue[j + e] /\ queue'[k] = queue[k + e]
      BY <1>2, <1>4, <1>8, <2>1 DEF IsPacket
    <3> QED  BY <1>0, <2>1, <3>1 DEF QueueRises, IsPacket
  <2>2. ASSUME NEW k \in DOMAIN queue', IsPacket(k)'
        PROVE  /\ queue'[k].n <= packets'
               /\ \A i \in Ids : \A j \in DOMAIN answered'[i] : answered'[i][j] < queue'[k].n
               /\ \A j \in DOMAIN cmds' : IsSend(j)' => cmds'[j].n < queue'[k].n
               /\ \A w \in load.workers : InHand(w)' => hand'[w].n < queue'[k].n
    <3>1. k + e \in DOMAIN queue /\ queue'[k] = queue[k + e] /\ IsPacket(k + e)
      BY <1>4, <2>2 DEF IsPacket
    <3>2. queue[k + e].n <= packets /\ queue[k + e].n \in Nat  BY <1>0, <1>1, <3>1 DEF QueueRises
    <3>3. /\ \A i \in Ids : \A j \in DOMAIN answered[i] : answered[i][j] < queue[k + e].n
          /\ \A j \in DOMAIN cmds : IsSend(j) => cmds[j].n < queue[k + e].n
          /\ \A w \in load.workers : InHand(w) => hand[w].n < queue[k + e].n
      BY <1>0, <3>1 DEF QueueRises
    <3>4. queue'[k].n <= packets'  BY <1>1, <1>2, <3>1, <3>2
    <3>5. ASSUME NEW j \in DOMAIN cmds', IsSend(j)'  PROVE cmds'[j].n < queue'[k].n
      <4>1. j + d \in DOMAIN cmds /\ cmds'[j] = cmds[j + d] /\ IsSend(j + d)
        BY <1>3, <3>5 DEF IsSend
      <4> QED  BY <3>1, <3>3, <4>1
    <3>6. ASSUME NEW w \in load.workers, InHand(w)'  PROVE hand'[w].n < queue'[k].n
      BY <3>1, <3>3, <3>6
    <3> QED  BY <1>5, <3>1, <3>3, <3>4, <3>5, <3>6
  <2> QED  BY <2>1, <2>2 DEF QueueRises
<1>11. HandRises'
  <2>1. SUFFICES ASSUME NEW w \in load.workers, InHand(w)'
        PROVE  /\ hand'[w].n <= packets'
               /\ wpc'[w] = "handle" =>
                    /\ \A i \in Ids : \A j \in DOMAIN answered'[i] : answered'[i][j] < hand'[w].n
                    /\ \A j \in DOMAIN cmds' : IsSend(j)' => cmds'[j].n < hand'[w].n
    BY DEF HandRises
  <2>2. InHand(w) /\ hand'[w] = hand[w] /\ (wpc'[w] = "handle" => wpc[w] = "handle")  BY <2>1
  <2>3. hand[w].n <= packets  BY <1>0, <2>2 DEF HandRises
  <2>4. hand[w].n \in Nat
    <3>1. hand[w] \in Packets \cup {None}  BY LoadFacts DEF TypeOK
    <3>2. hand[w] # None  BY <2>2 DEF InHand, None
    <3> QED  BY <3>1, <3>2 DEF Packets
  <2>5. hand'[w].n <= packets'  BY <1>1, <1>2, <2>2, <2>3, <2>4
  <2>6. ASSUME wpc'[w] = "handle"
        PROVE  /\ \A i \in Ids : \A j \in DOMAIN answered[i] : answered[i][j] < hand[w].n
               /\ \A j \in DOMAIN cmds : IsSend(j) => cmds[j].n < hand[w].n
    BY <1>0, <2>2, <2>6 DEF HandRises
  <2>7. ASSUME wpc'[w] = "handle", NEW j \in DOMAIN cmds', IsSend(j)'  PROVE cmds'[j].n < hand'[w].n
    <3>1. j + d \in DOMAIN cmds /\ cmds'[j] = cmds[j + d] /\ IsSend(j + d)
      BY <1>3, <2>7 DEF IsSend
    <3> QED  BY <2>2, <2>6, <2>7, <3>1
  <2> QED  BY <1>5, <2>2, <2>5, <2>6, <2>7
<1> QED  BY <1>6, <1>7, <1>9, <1>10, <1>11

(* The answer of the first command is later than what was sent before.       *)
LEMMA RiseSend ==
    ASSUME TypeOK, NumbersRise, NEW h \in Ids, cmds # <<>>, cmds' = Tail(cmds),
           Head(cmds).type = "Send",
           answered' = [answered EXCEPT ![h] = Append(@, Head(cmds).n)],
           UNCHANGED <<queue, wpc, hand, load, packets>>
    PROVE  NumbersRise'
<1> SUFFICES ASSUME One'  PROVE (AnsweredRise /\ AnsweredSoFar /\ CmdsRise /\ QueueRises /\ HandRises)'
  BY DEF NumbersRise
<1>0. AnsweredRise /\ AnsweredSoFar /\ CmdsRise /\ QueueRises /\ HandRises  BY DEF NumbersRise, One
<1>1. /\ packets \in Nat
      /\ \A i \in Ids : /\ answered[i] \in Seq(Nat) /\ DOMAIN answered[i] \subseteq Nat
                        /\ \A j \in DOMAIN answered[i] : answered[i][j] \in Nat
      /\ DOMAIN cmds \subseteq Nat /\ \A k \in DOMAIN cmds : cmds[k].n \in Nat
      /\ DOMAIN queue \subseteq Nat /\ \A k \in DOMAIN queue : queue[k].n \in Nat
  BY NumberTypes
<1> DEFINE n == cmds[1].n
<1>2. /\ 1 \in DOMAIN cmds /\ Head(cmds) = cmds[1] /\ DOMAIN cmds' \subseteq Nat \ {0}
      /\ \A k \in DOMAIN cmds' : k + 1 \in DOMAIN cmds /\ cmds'[k] = cmds[k + 1]
  <2>1. cmds \in Seq(Cmds)  BY DEF TypeOK
  <2>2. /\ 1 \in DOMAIN cmds /\ Head(cmds) = cmds[1] /\ Len(cmds) \in Nat /\ DOMAIN cmds' = 1 .. Len(cmds) - 1
        /\ \A k \in DOMAIN cmds' : k + 1 \in DOMAIN cmds /\ cmds'[k] = cmds[k + 1]
    BY <2>1, TailFacts
  <2> QED  BY <2>2
<1>3. IsSend(1) /\ n \in Nat  BY <1>1, <1>2 DEF IsSend
<1>4. n <= packets /\ \A i \in Ids : \A j \in DOMAIN answered[i] : answered[i][j] < n
  BY <1>0, <1>2, <1>3 DEF CmdsRise
<1>5. ASSUME NEW k \in DOMAIN cmds', IsSend(k)'
      PROVE  /\ k + 1 \in DOMAIN cmds /\ cmds'[k] = cmds[k + 1] /\ IsSend(k + 1)
             /\ n < cmds[k + 1].n
  <2>1. k + 1 \in DOMAIN cmds /\ cmds'[k] = cmds[k + 1] /\ IsSend(k + 1) /\ 1 < k + 1
    BY <1>2, <1>5 DEF IsSend
  <2> QED  BY <1>0, <1>2, <1>3, <2>1 DEF CmdsRise
<1> HIDE DEF n
<1>6. ASSUME NEW i \in Ids, NEW j \in DOMAIN answered'[i]
      PROVE  \/ j \in DOMAIN answered[i] /\ answered'[i][j] = answered[i][j]
             \/ i = h /\ j = Len(answered[h]) + 1 /\ answered'[i][j] = n
  <2>1. CASE i # h  BY <1>6, <2>1 DEF TypeOK
  <2>2. CASE i = h
    <3>1. answered[h] \in Seq(Nat) /\ n \in Nat  BY <1>1, <1>3
    <3>2. answered'[h] = Append(answered[h], n)  BY <1>2 DEF TypeOK, n
    <3>3. /\ Len(answered[h]) \in Nat /\ DOMAIN answered[h] = 1 .. Len(answered[h])
          /\ DOMAIN answered'[h] = 1 .. Len(answered[h]) + 1
          /\ \A k \in DOMAIN answered[h] : answered'[h][k] = answered[h][k]
          /\ answered'[h][Len(answered[h]) + 1] = n
      BY <3>1, <3>2, AppendFacts
    <3>4. j \in DOMAIN answered[h] \/ j = Len(answered[h]) + 1  BY <1>6, <2>2, <3>3
    <3> QED  BY <2>2, <3>3, <3>4
  <2> QED  BY <2>1, <2>2
<1>7. AnsweredRise'
  <2>1. SUFFICES ASSUME NEW i \in Ids, NEW j \in DOMAIN answered'[i], NEW k \in DOMAIN answered'[i], j < k
        PROVE  answered'[i][j] < answered'[i][k]
    BY DEF AnsweredRise
  <2>2. CASE k \in DOMAIN answered[i] /\ answered'[i][k] = answered[i][k]
    <3>1. j \in DOMAIN answered[i] /\ answered'[i][j] = answered[i][j]
      <4>1. k <= Len(answered[i]) /\ k \in Nat /\ Len(answered[i]) \in Nat  BY <1>1, <2>2
      <4>2. j \in Nat
        <5>1. j \in DOMAIN answered[i] \/ j = Len(answered[i]) + 1  BY <1>6
        <5> QED  BY <1>1, <4>1, <5>1
      <4>3. j # Len(answered[i]) + 1  BY <2>1, <4>1, <4>2
      <4> QED  BY <1>6, <4>3
    <3> QED  BY <1>0, <2>1, <2>2, <3>1 DEF AnsweredRise
  <2>3. CASE i = h /\ k = Len(answered[h]) + 1 /\ answered'[i][k] = n
    <3>1. Len(answered[h]) \in Nat  BY <1>1
    <3>2. j # k  BY <2>1, <2>3, <3>1
    <3>3. j \in DOMAIN answered[i] /\ answered'[i][j] = answered[i][j]  BY <1>6, <2>3, <3>2
    <3> QED  BY <1>4, <2>3, <3>3
  <2> QED  BY <1>6, <2>2, <2>3
<1>8. AnsweredSoFar'  BY <1>0, <1>4, <1>6 DEF AnsweredSoFar
<1>9. ASSUME NEW m \in Nat, n < m, \A i \in Ids : \A j \in DOMAIN answered[i] : answered[i][j] < m
      PROVE  \A i \in Ids : \A j \in DOMAIN answered'[i] : answered'[i][j] < m
  BY <1>6, <1>9
<1>10. CmdsRise'
  <2>1. ASSUME NEW j \in DOMAIN cmds', NEW k \in DOMAIN cmds', IsSend(j)', IsSend(k)', j < k
        PROVE  cmds'[j].n < cmds'[k].n
    <3>1. j + 1 < k + 1  BY <1>2, <2>1
    <3> QED  BY <1>0, <1>5, <2>1, <3>1 DEF CmdsRise
  <2>2. ASSUME NEW k \in DOMAIN cmds', IsSend(k)'
        PROVE  /\ cmds'[k].n <= packets'
               /\ \A i \in Ids : \A j \in DOMAIN answered'[i] : answered'[i][j] < cmds'[k].n
    <3>1. /\ k + 1 \in DOMAIN cmds /\ cmds'[k] = cmds[k + 1] /\ IsSend(k + 1)
          /\ n < cmds[k + 1].n /\ cmds[k + 1].n \in Nat
      BY <1>1, <1>5, <2>2
    <3>2. /\ cmds[k + 1].n <= packets
          /\ \A i \in Ids : \A j \in DOMAIN answered[i] : answered[i][j] < cmds[k + 1].n
      BY <1>0, <3>1 DEF CmdsRise
    <3> QED  BY <1>9, <3>1, <3>2
  <2> QED  BY <2>1, <2>2 DEF CmdsRise
<1>11. QueueRises'
  <2>1. ASSUME NEW k \in DOMAIN queue, IsPacket(k)
        PROVE  /\ \A i \in Ids : \A j \in DOMAIN answered'[i] : answered'[i][j] < queue[k].n
               /\ \A j \in DOMAIN cmds' : IsSend(j)' => cmds'[j].n < queue[k].n
    <3>1. /\ \A i \in Ids : \A j \in DOMAIN answered[i] : answered[i][j] < queue[k].n
          /\ \A j \in DOMAIN cmds : IsSend(j) => cmds[j].n < queue[k].n
      BY <1>0, <2>1 DEF QueueRises
    <3>2. n < queue[k].n /\ queue[k].n \in Nat  BY <1>1, <1>2, <1>3, <3>1 DEF n
    <3> QED  BY <1>5, <1>9, <3>1, <3>2
  <2> QED  BY <1>0, <2>1 DEF QueueRises, IsPacket, InHand
<1>12. HandRises'
  <2>1. ASSUME NEW w \in load.workers, InHand(w), wpc[w] = "handle"
        PROVE  /\ \A i \in Ids : \A j \in DOMAIN answered'[i] : answered'[i][j] < hand[w].n
               /\ \A j \in DOMAIN cmds' : IsSend(j)' => cmds'[j].n < hand[w].n
    <3>1. /\ \A i \in Ids : \A j \in DOMAIN answered[i] : answered[i][j] < hand[w].n
          /\ \A j \in DOMAIN cmds : IsSend(j) => cmds[j].n < hand[w].n
      BY <1>0, <2>1 DEF HandRises
    <3>2. hand[w].n \in Nat
      <4>1. hand[w] \in Packets \cup {None}  BY LoadFacts DEF TypeOK
      <4>2. hand[w] # None  BY <2>1 DEF InHand, None
      <4> QED  BY <4>1, <4>2 DEF Packets
    <3>3. n < hand[w].n  BY <1>2, <1>3, <3>1 DEF n
    <3> QED  BY <1>5, <1>9, <3>1, <3>2, <3>3
  <2> QED  BY <1>0, <2>1 DEF HandRises, InHand
<1> QED  BY <1>7, <1>8, <1>10, <1>11, <1>12

(* The commands for a request later than all before: cmds grow by at most    *)
(* one Send, with a number n larger than those that are on their way or sent *)
(* and smaller than those that wait.                                         *)
LEMMA RiseCmds ==
    ASSUME TypeOK, NEW n \in Nat, Longer(cmds, cmds', n), CmdsRise, n <= packets', packets <= packets',
           packets' \in Nat, answered' = answered,
           \A k \in DOMAIN cmds : IsSend(k) => cmds[k].n < n,
           \A i \in Ids : \A j \in DOMAIN answered[i] : answered[i][j] < n
    PROVE  CmdsRise' /\ \A k \in DOMAIN cmds' : IsSend(k)' => (k \in DOMAIN cmds /\ cmds'[k] = cmds[k] /\ IsSend(k)) \/ cmds'[k].n = n
<1>1. /\ packets \in Nat
      /\ \A i \in Ids : \A j \in DOMAIN answered[i] : answered[i][j] \in Nat
      /\ DOMAIN cmds \subseteq Nat /\ \A k \in DOMAIN cmds : cmds[k].n \in Nat
  BY NumberTypes
<1>2. /\ DOMAIN cmds = 1 .. Len(cmds) /\ Len(cmds) \in Nat
  <2>1. cmds \in Seq(Cmds)  BY DEF TypeOK
  <2> QED  BY <2>1
<1>3. ASSUME NEW k \in DOMAIN cmds', IsSend(k)'
      PROVE  (k \in DOMAIN cmds /\ cmds'[k] = cmds[k] /\ IsSend(k)) \/ (k = Len(cmds) + 1 /\ cmds'[k].n = n)
  BY <1>3 DEF Longer, IsSend
<1>4. ASSUME NEW j \in DOMAIN cmds', NEW k \in DOMAIN cmds', IsSend(j)', IsSend(k)', j < k
      PROVE  cmds'[j].n < cmds'[k].n
  <2>1. CASE k \in DOMAIN cmds /\ cmds'[k] = cmds[k] /\ IsSend(k)
    <3>1. j # Len(cmds) + 1  BY <1>2, <1>4, <2>1
    <3> QED  BY <1>3, <1>4, <2>1, <3>1 DEF CmdsRise
  <2>2. CASE k = Len(cmds) + 1 /\ cmds'[k].n = n
    <3>1. j # k  BY <1>2, <1>4, <2>2
    <3> QED  BY <1>3, <1>4, <2>2, <3>1
  <2> QED  BY <1>3, <1>4, <2>1, <2>2
<1>5. ASSUME NEW k \in DOMAIN cmds', IsSend(k)'
      PROVE  /\ cmds'[k].n <= packets'
             /\ \A i \in Ids : \A j \in DOMAIN answered'[i] : answered'[i][j] < cmds'[k].n
  <2>1. CASE k \in DOMAIN cmds /\ cmds'[k] = cmds[k] /\ IsSend(k)
    <3>1. /\ cmds[k].n <= packets /\ cmds[k].n \in Nat
          /\ \A i \in Ids : \A j \in DOMAIN answered[i] : answered[i][j] < cmds[k].n
      BY <1>1, <2>1 DEF CmdsRise
    <3> QED  BY <1>1, <2>1, <3>1
  <2>2. CASE cmds'[k].n = n  BY <2>2
  <2> QED  BY <1>3, <1>5, <2>1, <2>2
<1> QED  BY <1>3, <1>4, <1>5 DEF CmdsRise

(* A request that comes is later than all before.                            *)
LEMMA RisePacket ==
    ASSUME TypeOK, TypeOK', Hands, NumbersRise, NEW i \in load.ids, OnPacket(i)
    PROVE  NumbersRise'
<1> DEFINE p == [type |-> "Packet", id |-> i, rej |-> i \in rejected, n |-> packets']
<1>0. /\ load.ids \subseteq Ids /\ cmds \in Seq(Cmds) /\ queue \in Seq(Packets)
      /\ packets \in Nat /\ packets' = packets + 1
  BY LoadFacts DEF TypeOK, OnPacket
<1>1. p \in Packets /\ p.n = packets + 1 /\ p.type = "Packet"  BY <1>0 DEF Packets
<1>2. UNCHANGED <<answered, hand, load, told>>  BY <1>0 DEF OnPacket, work, main
<1>3. CASE UNCHANGED <<cmds, queue, wpc>>
  <2>1. FewerOf("Send", cmds, cmds') /\ FewerOf("Packet", queue, queue')  BY <1>0, <1>3, FewerSame
  <2>2. \A w \in load.workers : InHand(w)' => InHand(w)  BY <1>2, <1>3 DEF InHand
  <2>3. packets <= packets'  BY <1>0
  <2> QED  BY <1>2, <1>3, <2>1, <2>2, <2>3, RiseFewer
<1> HIDE DEF p
<1>4. ASSUME NEW r \in load.replies, InLoop, cmds' = cmds \o Commands(p, r), UNCHANGED <<queue, wpc>>
      PROVE  NumbersRise'
  <2>0. load.workers = {} /\ queue = <<>> /\ r \in {"none", "close", "answer", "bye"}
    BY <1>4, LoadFacts DEF Hands
  <2>1. AnsweredRise /\ AnsweredSoFar /\ CmdsRise  BY <2>0 DEF NumbersRise, One
  <2>2. Longer(cmds, cmds', packets + 1)  BY <1>0, <1>1, <1>4, <2>0, CommandsFacts
  <2>3. /\ \A k \in DOMAIN cmds : IsSend(k) => cmds[k].n < packets + 1
        /\ \A h \in Ids : \A j \in DOMAIN answered[h] : answered[h][j] < packets + 1
    BY <1>0, <2>1, NumberTypes DEF CmdsRise, AnsweredSoFar
  <2>4. CmdsRise'
    <3>1. packets + 1 \in Nat /\ packets + 1 <= packets' /\ packets <= packets' /\ packets' \in Nat  BY <1>0
    <3> QED  BY <1>2, <2>1, <2>2, <2>3, <3>1, RiseCmds
  <2>5. AnsweredRise'  BY <1>2, <2>1 DEF AnsweredRise
  <2>6. AnsweredSoFar'
    <3>1. \A h \in Ids : \A j \in DOMAIN answered[h] : answered[h][j] \in Nat  BY NumberTypes
    <3> QED  BY <1>0, <1>2, <2>1, <3>1 DEF AnsweredSoFar
  <2>7. QueueRises' /\ HandRises'
    <3>1. DOMAIN queue' = {} /\ load'.workers = {}  BY <1>2, <1>4, <2>0
    <3> QED  BY <3>1 DEF QueueRises, HandRises
  <2> QED  BY <2>4, <2>5, <2>6, <2>7 DEF NumbersRise
<1>5. ASSUME PushBack(p), UNCHANGED cmds, One
      PROVE  (AnsweredRise /\ AnsweredSoFar /\ CmdsRise /\ QueueRises /\ HandRises)'
  <2>0. AnsweredRise /\ AnsweredSoFar /\ CmdsRise /\ QueueRises /\ HandRises  BY <1>5 DEF NumbersRise
  <2>1. /\ \A h \in Ids : \A j \in DOMAIN answered[h] : answered[h][j] \in Nat
        /\ \A k \in DOMAIN cmds : cmds[k].n \in Nat
        /\ \A k \in DOMAIN queue : queue[k].n \in Nat
        /\ \A w \in load.workers : InHand(w) => hand[w].n \in Nat
    <3>1. \A w \in load.workers : InHand(w) => hand[w] \in Packets
      BY LoadFacts DEF InHand, Hands
    <3> QED  BY <3>1, NumberTypes
  <2>2. \A w \in load.workers : (InHand(w)' <=> InHand(w)) /\ (wpc'[w] = "handle" <=> wpc[w] = "handle")
    <3>1. \A w \in Workers : wpc'[w] = wpc[w] \/ (wpc[w] = "waiting" /\ wpc'[w] = "woken")
      BY <1>1, <1>5, PushBackFacts
    <3> QED  BY <1>2, <3>1, LoadFacts DEF InHand
  <2>3. /\ Len(queue) \in Nat /\ DOMAIN queue = 1 .. Len(queue)
        /\ DOMAIN queue' = 1 .. Len(queue) + 1
        /\ \A k \in DOMAIN queue : queue'[k] = queue[k]
        /\ queue'[Len(queue) + 1] = p
    <3>1. queue' = Append(queue, p)  BY <1>5 DEF PushBack
    <3> QED  BY <1>0, <1>1, <3>1, AppendFacts
  <2>4. \A k \in DOMAIN queue' : (k \in DOMAIN queue /\ queue'[k] = queue[k]) \/ (k = Len(queue) + 1 /\ queue'[k] = p)
    BY <2>3
  <2>5. AnsweredRise'  BY <1>2, <2>0 DEF AnsweredRise
  <2>6. AnsweredSoFar'  BY <1>0, <1>2, <2>0, <2>1 DEF AnsweredSoFar
  <2>7. CmdsRise'  BY <1>0, <1>2, <1>5, <2>0, <2>1 DEF CmdsRise, IsSend
  <2>8. HandRises'
    BY <1>0, <1>2, <1>5, <2>0, <2>1, <2>2 DEF HandRises, IsSend
  <2>9. QueueRises'
    <3>1. ASSUME NEW j \in DOMAIN queue', NEW k \in DOMAIN queue', IsPacket(j)', IsPacket(k)', j < k
          PROVE  queue'[j].n < queue'[k].n
      <4>1. CASE k \in DOMAIN queue /\ queue'[k] = queue[k]
        <5>1. j # Len(queue) + 1  BY <2>3, <3>1, <4>1
        <5> QED  BY <2>0, <2>4, <3>1, <4>1, <5>1 DEF QueueRises, IsPacket
      <4>2. CASE k = Len(queue) + 1 /\ queue'[k] = p
        <5>1. j # k  BY <2>3, <3>1, <4>2
        <5>2. j \in DOMAIN queue /\ queue'[j] = queue[j]  BY <2>4, <4>2, <5>1
        <5>3. queue[j].n <= packets /\ queue[j].n \in Nat
          BY <2>0, <2>1, <3>1, <5>2 DEF QueueRises, IsPacket
        <5> QED  BY <1>0, <1>1, <4>2, <5>2, <5>3
      <4> QED  BY <2>4, <4>1, <4>2
    <3>2. ASSUME NEW k \in DOMAIN queue', IsPacket(k)'
          PROVE  /\ queue'[k].n <= packets'
                 /\ \A h \in Ids : \A j \in DOMAIN answered'[h] : answered'[h][j] < queue'[k].n
                 /\ \A j \in DOMAIN cmds' : IsSend(j)' => cmds'[j].n < queue'[k].n
                 /\ \A w \in load.workers : InHand(w)' => hand'[w].n < queue'[k].n
      <4>1. CASE k \in DOMAIN queue /\ queue'[k] = queue[k]
        <5>1. IsPacket(k)  BY <3>2, <4>1 DEF IsPacket
        <5>2. queue'[k].n <= packets'  BY <1>0, <2>0, <2>1, <4>1, <5>1 DEF QueueRises
        <5> QED  BY <1>2, <1>5, <2>0, <2>2, <4>1, <5>1, <5>2 DEF QueueRises, IsSend
      <4>2. CASE queue'[k] = p
        <5>1. queue'[k].n = packets + 1  BY <1>1, <4>2
        <5>2. \A h \in Ids : \A j \in DOMAIN answered'[h] : answered'[h][j] < packets + 1
          BY <1>0, <1>2, <2>0, <2>1 DEF AnsweredSoFar
        <5>3. \A j \in DOMAIN cmds' : IsSend(j)' => cmds'[j].n < packets + 1
          BY <1>0, <1>5, <2>0, <2>1 DEF CmdsRise, IsSend
        <5>4. \A w \in load.workers : InHand(w)' => hand'[w].n < packets + 1
          BY <1>0, <1>2, <2>0, <2>1, <2>2 DEF HandRises
        <5> QED  BY <1>0, <5>1, <5>2, <5>3, <5>4
      <4> QED  BY <2>4, <4>1, <4>2
    <3> QED  BY <1>2, <3>1, <3>2 DEF QueueRises
  <2> QED  BY <2>5, <2>6, <2>7, <2>8, <2>9
<1>6. ASSUME PushBack(p), UNCHANGED cmds  PROVE NumbersRise'
  <2>1. One' <=> One  BY <1>2 DEF One
  <2> QED  BY <1>5, <1>6, <2>1 DEF NumbersRise
<1> QED  BY <1>3, <1>4, <1>6 DEF OnPacket, p

(* The one service takes the request that is earliest of those that wait.    *)
LEMMA RisePop ==
    ASSUME TypeOK, NumbersRise, NEW w \in load.workers, Pop(w)
    PROVE  NumbersRise'
<1>1. /\ w \in Workers /\ UNCHANGED <<cmds, load, packets, answered>>
      /\ wpc'[w] = "handle" /\ hand'[w] = Head(queue) /\ queue # <<>> /\ queue' = Tail(queue)
  BY LoadFacts DEF Pop, Go, Front, TypeOK, main, hist
<1>2. One' <=> One  BY <1>1 DEF One
<1> SUFFICES ASSUME One  PROVE (AnsweredRise /\ AnsweredSoFar /\ CmdsRise /\ QueueRises /\ HandRises)'
  BY <1>2 DEF NumbersRise
<1>3. AnsweredRise /\ AnsweredSoFar /\ CmdsRise /\ QueueRises /\ HandRises  BY DEF NumbersRise
<1>4. load.workers = {w}  BY DEF One
<1>5. /\ 1 \in DOMAIN queue /\ hand'[w] = queue[1] /\ DOMAIN queue' \subseteq Nat \ {0}
      /\ \A k \in DOMAIN queue' : k + 1 \in DOMAIN queue /\ queue'[k] = queue[k + 1]
  <2>1. queue \in Seq(Packets)  BY DEF TypeOK
  <2>2. /\ 1 \in DOMAIN queue /\ Head(queue) = queue[1] /\ Len(queue) \in Nat
        /\ DOMAIN queue' = 1 .. Len(queue) - 1
        /\ \A k \in DOMAIN queue' : k + 1 \in DOMAIN queue /\ queue'[k] = queue[k + 1]
    BY <1>1, <2>1, TailFacts
  <2> QED  BY <1>1, <2>2
<1>6. AnsweredRise' /\ AnsweredSoFar' /\ CmdsRise'
  BY <1>1, <1>3 DEF AnsweredRise, AnsweredSoFar, CmdsRise, IsSend
<1>7. QueueRises'
  <2>1. ASSUME NEW j \in DOMAIN queue', NEW k \in DOMAIN queue', IsPacket(j)', IsPacket(k)', j < k
        PROVE  queue'[j].n < queue'[k].n
    <3>1. /\ j + 1 \in DOMAIN queue /\ k + 1 \in DOMAIN queue /\ j + 1 < k + 1
          /\ queue'[j] = queue[j + 1] /\ queue'[k] = queue[k + 1]
      BY <1>5, <2>1
    <3> QED  BY <1>3, <2>1, <3>1 DEF QueueRises, IsPacket
  <2>2. ASSUME NEW k \in DOMAIN queue', IsPacket(k)'
        PROVE  /\ queue'[k].n <= packets'
               /\ \A h \in Ids : \A j \in DOMAIN answered'[h] : answered'[h][j] < queue'[k].n
               /\ \A j \in DOMAIN cmds' : IsSend(j)' => cmds'[j].n < queue'[k].n
               /\ InHand(w)' => hand'[w].n < queue'[k].n
    <3>1. k + 1 \in DOMAIN queue /\ queue'[k] = queue[k + 1] /\ IsPacket(k + 1) /\ 1 < k + 1
      BY <1>5, <2>2 DEF IsPacket
    <3>2. InHand(w)' => hand'[w].n < queue'[k].n
      BY <1>3, <1>5, <3>1 DEF InHand, IsPacket, QueueRises
    <3> QED  BY <1>1, <1>3, <3>1, <3>2 DEF QueueRises, IsSend
  <2> QED  BY <1>1, <1>4, <2>1, <2>2 DEF QueueRises
<1>8. HandRises'
  <2>1. ASSUME InHand(w)'
        PROVE  /\ hand'[w].n <= packets'
               /\ \A i \in Ids : \A j \in DOMAIN answered'[i] : answered'[i][j] < hand'[w].n
               /\ \A j \in DOMAIN cmds' : IsSend(j)' => cmds'[j].n < hand'[w].n
    <3>1. IsPacket(1)  BY <1>5, <2>1 DEF InHand, IsPacket
    <3> QED  BY <1>1, <1>3, <1>5, <3>1 DEF QueueRises, IsSend
  <2> QED  BY <1>1, <1>4, <2>1 DEF HandRises
<1> QED  BY <1>6, <1>7, <1>8

(* The one service answers the request in its hand.                          *)
LEMMA RiseHandle ==
    ASSUME TypeOK, TypeOK', Hands, NumbersRise, NEW w \in load.workers, Handle(w)
    PROVE  NumbersRise'
<1>1. /\ w \in Workers /\ UNCHANGED <<queue, load, packets, answered>> /\ wpc[w] = "handle"
      /\ cmds \in Seq(Cmds) /\ queue \in Seq(Packets)
      /\ wpc \in [Workers -> WpcStates] /\ load.workers \subseteq Workers
  BY LoadFacts DEF Handle, TypeOK, WpcStates, main, hist
<1>2. /\ hand[w] \in Packets
      /\ cmds' = cmds \/ (hand[w].type = "Packet" /\ Longer(cmds, cmds', hand[w].n))
      /\ Handled(w) \/ (hand[w].type = "Packet" /\ Go(w, "close") /\ hand' = hand)
  BY HandleCmds
<1>3. \A v \in load.workers : InHand(v)' =>
         InHand(v) /\ hand'[v] = hand[v] /\ (wpc'[v] = "handle" => wpc[v] = "handle")
  <2>1. hand \in [Workers -> Packets \cup {None}]  BY DEF TypeOK
  <2>2. CASE Handled(w)
    <3>1. wpc'[w] = "pop" /\ \A v \in Workers : v # w => wpc'[v] = wpc[v] /\ hand'[v] = hand[v]
      BY <1>1, <2>1, <2>2 DEF Handled, Go
    <3> QED  BY <1>1, <3>1 DEF InHand
  <2>3. CASE hand[w].type = "Packet" /\ Go(w, "close") /\ hand' = hand
    BY <1>1, <2>3 DEF Go, InHand
  <2> QED  BY <1>2, <2>2, <2>3
<1>4. CASE cmds' = cmds
  <2>1. FewerOf("Send", cmds, cmds') /\ FewerOf("Packet", queue, queue')  BY <1>1, <1>4, FewerSame
  <2>2. packets <= packets'  BY <1>1, NumberTypes
  <2> QED  BY <1>1, <1>3, <2>1, <2>2, RiseFewer
<1>5. CASE hand[w].type = "Packet" /\ Longer(cmds, cmds', hand[w].n)
  <2>1. One' <=> One  BY <1>1 DEF One
  <2> SUFFICES ASSUME One  PROVE (AnsweredRise /\ AnsweredSoFar /\ CmdsRise /\ QueueRises /\ HandRises)'
    BY <2>1 DEF NumbersRise
  <2>2. AnsweredRise /\ AnsweredSoFar /\ CmdsRise /\ QueueRises /\ HandRises  BY DEF NumbersRise
  <2>3. load.workers = {w} /\ InHand(w)  BY <1>1, <1>5 DEF One, InHand
  <2>4. wpc'[w] # "handle"
    BY <1>1, <1>2 DEF Handled, Go
  <2> DEFINE n == hand[w].n
  <2>5. /\ n \in Nat /\ n <= packets
        /\ \A k \in DOMAIN cmds : IsSend(k) => cmds[k].n < n
        /\ \A i \in Ids : \A j \in DOMAIN answered[i] : answered[i][j] < n
    BY <1>1, <1>2, <2>2, <2>3 DEF HandRises, Packets
  <2>6. Longer(cmds, cmds', n)  BY <1>5
  <2> HIDE DEF n
  <2>7. packets \in Nat /\ packets' \in Nat /\ n <= packets' /\ packets <= packets'
    <3>1. packets \in Nat  BY NumberTypes
    <3> QED  BY <1>1, <2>5, <3>1
  <2>8. /\ CmdsRise'
        /\ \A k \in DOMAIN cmds' : IsSend(k)' =>
              (k \in DOMAIN cmds /\ cmds'[k] = cmds[k] /\ IsSend(k)) \/ cmds'[k].n = n
    BY <1>1, <2>2, <2>5, <2>6, <2>7, RiseCmds
  <2>9. AnsweredRise' /\ AnsweredSoFar'  BY <1>1, <2>2 DEF AnsweredRise, AnsweredSoFar
  <2>10. QueueRises'
    <3>1. ASSUME NEW k \in DOMAIN queue, IsPacket(k), NEW j \in DOMAIN cmds', IsSend(j)'
          PROVE  cmds'[j].n < queue[k].n
      <4>1. n < queue[k].n  BY <2>2, <2>3, <3>1 DEF QueueRises, n
      <4> QED  BY <2>2, <2>8, <3>1, <4>1 DEF QueueRises
    <3>2. InHand(w)' => hand'[w] = hand[w]  BY <1>3
    <3> QED  BY <1>1, <2>2, <2>3, <3>1, <3>2 DEF QueueRises, IsPacket
  <2>11. HandRises'
    <3>1. InHand(w)' => hand'[w] = hand[w]  BY <1>3
    <3> QED  BY <1>1, <2>2, <2>3, <2>4, <3>1 DEF HandRises
  <2> QED  BY <2>8, <2>9, <2>10, <2>11
<1> QED  BY <1>2, <1>4, <1>5

(* No step disturbs the order of the numbers.                                *)
LEMMA RiseStep ==
    ASSUME TypeOK, TypeOK', Hands, NumbersRise, Next
    PROVE  NumbersRise'
<1> DEFINE Idle(w) == InHand(w)' =>
              InHand(w) /\ hand'[w] = hand[w] /\ (wpc'[w] = "handle" => wpc[w] = "handle")
           Kept == \A i \in Ids : answered'[i] = answered[i] \/ answered'[i] = <<>>
<1>0. /\ load.ids \subseteq Ids /\ cmds \in Seq(Cmds) /\ queue \in Seq(Packets) /\ packets \in Nat
      /\ load.workers \subseteq Workers /\ wpc \in [Workers -> WpcStates]
      /\ hand \in [Workers -> Packets \cup {None}]
  BY LoadFacts, NumberTypes DEF TypeOK, WpcStates
<1>1. FewerOf("Send", cmds, cmds) /\ FewerOf("Packet", queue, queue) /\ packets <= packets
  BY <1>0, FewerSame
<1>2. ASSUME load' = load, packets' = packets, Kept, \A w \in load.workers : Idle(w),
             FewerOf("Send", cmds, cmds'), FewerOf("Packet", queue, queue')
      PROVE  NumbersRise'
  <2>1. packets <= packets'  BY <1>0, <1>2
  <2> QED  BY <1>2, <2>1, RiseFewer
<1>3. ASSUME Listener  PROVE load' = load /\ \A w \in load.workers : Idle(w)
  <2>1. /\ UNCHANGED <<hand, load>>
        /\ \A w \in Workers : wpc'[w] = wpc[w] \/ (wpc[w] = "waiting" /\ wpc'[w] = "woken")
    BY <1>3, ListenerWakes
  <2> QED  BY <1>0, <2>1 DEF InHand
<1>4. ASSUME NEW p \in Packets, p.type # "Packet", HandOn(p)  PROVE FewerOf("Packet", queue, queue')
  BY <1>0, <1>1, <1>4, FewerAppend DEF HandOn, PushBack
<1>5. ASSUME NEW i \in Ids, OnClose(i)
      PROVE  FewerOf("Packet", queue, queue') /\ packets' = packets /\ Kept
  <2> DEFINE p == [type |-> "Close", id |-> i, rej |-> i \in rejected, n |-> 0]
  <2>1. p \in Packets /\ p.type # "Packet"  BY DEF Packets
  <2>2. HandOn(p) /\ packets' = packets /\ answered' = answered  BY <1>5 DEF OnClose, hist
  <2> HIDE DEF p
  <2> QED  BY <1>4, <2>1, <2>2
<1>6. ASSUME NEW x \in Cmds, x.type # "Send", cmds' = Append(cmds, x)  PROVE FewerOf("Send", cmds, cmds')
  BY <1>0, <1>6, FewerAppend
<1>7. ASSUME LoopCmd  PROVE NumbersRise'
  <2> DEFINE h == Head(cmds)
  <2>1. cmds # <<>> /\ cmds' = Tail(cmds) /\ FewerOf("Send", cmds, cmds')
    BY <1>0, <1>7, FewerTail DEF LoopCmd
  <2>2. h.id \in Ids
    <3>1. h \in Cmds  BY <1>0, <2>1, TailFacts
    <3> QED  BY <3>1 DEF Cmds
  <2>3. load' = load /\ \A w \in load.workers : Idle(w)  BY <1>3, <1>7 DEF Listener
  <2> HIDE DEF Idle, Kept
  <2>4. CASE OnClose(h.id)
    <3> HIDE DEF h
    <3> QED  BY <1>2, <1>5, <2>1, <2>2, <2>3, <2>4
  <2>5. CASE /\ h.type = "Send" /\ answered' = [answered EXCEPT ![h.id] = Append(@, h.n)]
             /\ UNCHANGED <<queue, wpc, hand, load, packets>>
    BY <2>1, <2>2, <2>5, RiseSend
  <2>6. CASE UNCHANGED <<queue, packets, answered>>
    <3>1. Kept  BY <2>6 DEF Kept
    <3> QED  BY <1>1, <1>2, <2>1, <2>3, <2>6, <3>1
  <2> QED  BY <1>7, <2>4, <2>5, <2>6 DEF LoopCmd, work, main, hist
<1>8. ASSUME NEW i \in load.ids, OnAccept(i)  PROVE NumbersRise'
  <2>1. i \in Ids /\ packets' = packets /\ Kept  BY <1>0, <1>8 DEF OnAccept, TypeOK
  <2>2. load' = load /\ \A w \in load.workers : Idle(w)  BY <1>3, <1>8 DEF Listener
  <2>3. CASE Refuse(i)
    <3> DEFINE x == [type |-> "Close", id |-> i, n |-> 0]
    <3>1. x \in Cmds /\ x.type # "Send" /\ cmds' = Append(cmds, x) /\ queue' = queue
      BY <2>1, <2>3 DEF Cmds, Refuse
    <3> HIDE DEF x, Idle, Kept
    <3> QED  BY <1>1, <1>2, <1>6, <2>1, <2>2, <3>1
  <2>4. CASE Admit(i)
    <3> DEFINE p == [type |-> "Accept", id |-> i, rej |-> FALSE, n |-> 0]
    <3>1. p \in Packets /\ p.type # "Packet" /\ HandOn(p) /\ cmds' = cmds
      BY <2>1, <2>4 DEF Packets, Admit
    <3> HIDE DEF p, Idle, Kept
    <3> QED  BY <1>1, <1>2, <1>4, <2>1, <2>2, <3>1
  <2> QED  BY <1>8, <2>3, <2>4 DEF OnAccept
<1>9. ASSUME NEW i \in load.ids, PeerClose(i)  PROVE NumbersRise'
  <2>1. load' = load /\ \A w \in load.workers : Idle(w)  BY <1>3, <1>9 DEF Listener
  <2>2. FewerOf("Packet", queue, queue') /\ packets' = packets /\ Kept /\ cmds' = cmds
    BY <1>0, <1>5, <1>9 DEF PeerClose
  <2> HIDE DEF Idle, Kept
  <2> QED  BY <1>1, <1>2, <2>1, <2>2
<1>10. ASSUME NEW i \in load.ids, TimeOut(i)  PROVE NumbersRise'
  <2> DEFINE x == [type |-> "Close", id |-> i, n |-> 0]
  <2>1. load' = load /\ \A w \in load.workers : Idle(w)  BY <1>3, <1>10 DEF Listener
  <2>2. x \in Cmds /\ x.type # "Send" /\ cmds' = Append(cmds, x)  BY <1>0, <1>10 DEF Cmds, TimeOut
  <2>3. queue' = queue /\ packets' = packets /\ Kept  BY <1>10 DEF TimeOut, hist
  <2> HIDE DEF x, Idle, Kept
  <2> QED  BY <1>1, <1>2, <1>6, <2>1, <2>2, <2>3
<1>11. ASSUME NEW w \in load.workers, Start(w) \/ Test(w) \/ PopWait(w) \/ PopEmpty(w)  PROVE NumbersRise'
  <2>1. UNCHANGED <<cmds, queue, hand, load, packets, answered>>
    BY <1>11 DEF Start, Test, PopWait, PopEmpty, work, main, hist
  <2>2. \A v \in load.workers : Idle(v)
    <3>1. w \in Workers /\ wpc'[w] \notin {"handle", "close"} /\ \A v \in Workers : v # w => wpc'[v] = wpc[v]
      BY <1>0, <1>11 DEF Start, Test, PopWait, PopEmpty, Go
    <3> QED  BY <1>0, <2>1, <3>1 DEF InHand
  <2>3. Kept  BY <2>1
  <2> HIDE DEF Idle, Kept
  <2> QED  BY <1>1, <1>2, <2>1, <2>2, <2>3
<1>12. ASSUME NEW w \in load.workers, CloseAfterSend(w)  PROVE NumbersRise'
  <2> DEFINE x == Cmd("Close", hand[w])
  <2>1. UNCHANGED <<queue, load, packets, answered>> /\ cmds' = Append(cmds, x)
    BY <1>12 DEF CloseAfterSend, main, hist
  <2>2. x \in Cmds /\ x.type # "Send"
    <3>1. hand[w] \in Packets  BY <1>0, <1>12 DEF CloseAfterSend, Hands
    <3> QED  BY <3>1 DEF Cmd, Cmds, Packets
  <2>3. \A v \in load.workers : Idle(v)
    <3>1. /\ w \in Workers /\ wpc'[w] = "pop"
          /\ \A v \in Workers : v # w => wpc'[v] = wpc[v] /\ hand'[v] = hand[v]
      BY <1>0, <1>12 DEF CloseAfterSend, Handled, Go
    <3> QED  BY <1>0, <3>1 DEF InHand
  <2>4. Kept  BY <2>1
  <2> HIDE DEF x, Idle, Kept
  <2> QED  BY <1>1, <1>2, <1>6, <2>1, <2>2, <2>3, <2>4
<1>13. ASSUME Main  PROVE NumbersRise'
  <2>1. UNCHANGED <<cmds, queue, hand, load, packets, answered>>
    BY <1>13 DEF Main, TerminateService, StopWorker, WakeupWorkers, Join, work, hist
  <2>2. \A v \in load.workers : Idle(v)
    <3>1. \A v \in Workers : wpc'[v] = wpc[v] \/ wpc'[v] = "woken"
      BY <1>13 DEF Main, TerminateService, StopWorker, WakeupWorkers, Wakeup, Join
    <3> QED  BY <1>0, <2>1, <3>1 DEF InHand
  <2>3. Kept  BY <2>1
  <2> HIDE DEF Idle, Kept
  <2> QED  BY <1>1, <1>2, <2>1, <2>2, <2>3
<1> QED
  BY <1>7, <1>8, <1>9, <1>10, <1>11, <1>12, <1>13, RisePacket, RisePop, RiseHandle
     DEF Next, Listener, Service

-----------------------------------------------------------------------------
(* The theorems *)

(* What holds before the server runs.                                        *)
LEMMA IInvInit == Init => IInv
<1> SUFFICES ASSUME Init  PROVE IInv  OBVIOUS
<1>0. load \in Loads /\ queue = <<>> /\ cmds = <<>>  BY DEF Init
<1>1. load.accepts \in Nat /\ load.packets \in Nat /\ load.workers \subseteq Workers
  BY <1>0, ServiceAssumption
<1>2. <<>> \in Seq(Cmds) /\ <<>> \in Seq(Packets) /\ <<>> \in Seq(Nat) /\ DOMAIN <<>> = {} /\ Len(<<>>) = 0
  OBVIOUS
<1>3. TypeOK  BY <1>0, <1>1, <1>2 DEF Init, TypeOK
<1>4. RequestsBounded
  <2> DEFINE S == {k \in DOMAIN queue : queue[k].type = "Packet"}
  <2>1. S = {}  BY <1>0, <1>2
  <2>2. 0 <= MaxQueueLen + 1  BY ServiceAssumption
  <2>3. RequestsBounded <=> Cardinality(S) <= MaxQueueLen + 1  BY DEF RequestsBounded
  <2> HIDE DEF S
  <2>4. Cardinality(S) = 0  BY <2>1, FS_EmptySet
  <2> QED  BY <2>2, <2>3, <2>4
<1>5. NoLostPacket  BY <1>0 DEF NoLostPacket
<1>6. TimeoutsCover  BY DEF Init, TimeoutsCover
<1>7. HeardInOrder  BY <1>0, <1>2 DEF HeardInOrder
<1>8. WillKnow
  <2>1. told = {} /\ Peers = {}  BY DEF Init, Peers
  <2> QED  BY <1>0, <1>2, <2>1, KnowsNothing DEF WillKnow
<1>9. Hands /\ UpInLoop  BY DEF Init, Hands, UpInLoop
<1>10. NumbersRise
  <2>1. \A i \in Ids : DOMAIN answered[i] = {}  BY <1>2 DEF Init
  <2>2. \A w \in load.workers : ~InHand(w)  BY <1>1 DEF Init, InHand
  <2> QED  BY <1>0, <1>2, <2>1, <2>2
        DEF NumbersRise, AnsweredRise, AnsweredSoFar, CmdsRise, QueueRises, HandRises
<1> QED  BY <1>3, <1>4, <1>5, <1>6, <1>7, <1>8, <1>9, <1>10 DEF IInv

(* Every step of every thread keeps the invariant.                           *)
LEMMA IInvStep == IInv /\ [Next]_vars => IInv'
<1> SUFFICES ASSUME IInv, [Next]_vars  PROVE IInv'  OBVIOUS
<1>1. CASE Next
  <2>1. TypeOK'  BY <1>1, ListenerTypes, ServiceTypes DEF IInv, Next
  <2>2. Hands' /\ UpInLoop' /\ NoLostPacket'  BY <1>1, ThreadsStep DEF IInv
  <2>3. RequestsBounded'  BY <1>1, BoundStep DEF IInv
  <2>4. TimeoutsCover'  BY <1>1, CoverStep DEF IInv
  <2>5. HeardInOrder' /\ WillKnow'  BY <1>1, HeardStep DEF IInv
  <2>6. NumbersRise'  BY <1>1, <2>1, RiseStep DEF IInv
  <2> QED  BY <2>1, <2>2, <2>3, <2>4, <2>5, <2>6 DEF IInv
<1>2. CASE UNCHANGED vars
  <2> USE <1>2 DEF vars, lists, work, main, hist
  <2>1. TypeOK'  BY DEF IInv, TypeOK
  <2>2. RequestsBounded' /\ NoLostPacket' /\ TimeoutsCover' /\ UpInLoop'
    BY DEF IInv, RequestsBounded, NoLostPacket, TimeoutsCover, UpInLoop
  <2>3. HeardInOrder' /\ WillKnow'  BY DEF IInv, HeardInOrder, WillKnow, Peers
  <2>4. Hands'  BY DEF IInv, Hands, InLoop
  <2>5. NumbersRise'
    BY DEF IInv, NumbersRise, One, AnsweredRise, AnsweredSoFar, CmdsRise, QueueRises, HandRises,
           IsSend, IsPacket, InHand
  <2> QED  BY <2>1, <2>2, <2>3, <2>4, <2>5 DEF IInv
<1> QED  BY <1>1, <1>2

(* The inductive invariant holds in every state the server can reach.        *)
THEOREM Invariance == Spec => []IInv
BY IInvInit, IInvStep, PTL DEF Spec

(* LockQueue keeps its type and its bound, and no packet waits while all the *)
(* service threads sleep.                                                    *)
THEOREM QueueIsServed == Spec => []QueueInv
<1>1. IInv => QueueInv  BY DEF IInv, QueueInv
<1> QED  BY <1>1, Invariance, PTL

(* m_conList, m_timelist and the Close commands cover the open connections.  *)
THEOREM NoneEscapes == Spec => []TimeoutsCover
<1>1. IInv => TimeoutsCover  BY DEF IInv
<1> QED  BY <1>1, Invariance, PTL

(* The service hears onAccept(), the requests and onClose() of a connection  *)
(* in this order, for every use of its id.                                   *)
THEOREM HearsInOrder == Spec => []HeardInOrder
<1>1. IInv => HeardInOrder  BY DEF IInv
<1> QED  BY <1>1, Invariance, PTL

(* A service that works alone answers the requests of a connection in order. *)
THEOREM OneAnswersInOrder == Spec => []AnswersInOrder
<1>1. ASSUME IInv  PROVE AnswersInOrder
  <2> SUFFICES ASSUME Cardinality(load.workers) <= 1  PROVE AnsweredRise
    BY DEF AnswersInOrder, AnsweredRise
  <2>1. load.workers \subseteq Workers  BY <1>1, LoadFacts DEF IInv
  <2>2. IsFiniteSet(load.workers)  BY <2>1, FS_Subset, ServiceAssumption
  <2>3. One
    <3> SUFFICES ASSUME NEW v \in load.workers, NEW w \in load.workers, v # w  PROVE FALSE
      BY DEF One
    <3>1. Cardinality(load.workers) \in Nat  BY <2>2, FS_CardinalityType
    <3>2. CASE Cardinality(load.workers) = 0  BY <2>2, <3>2, FS_EmptySet
    <3>3. CASE Cardinality(load.workers) = 1
      <4>1. \E x : load.workers = {x}  BY <2>2, <3>3, FS_Singleton
      <4> QED  BY <4>1
    <3> QED  BY <3>1, <3>2, <3>3
  <2> QED  BY <1>1, <2>3 DEF IInv, NumbersRise
<1> QED  BY <1>1, Invariance, PTL

(* A service handles packets between its init() and its destroy() only.      *)
THEOREM UpWhenHandling == Spec => []HandlesWhileUp
<1>1. IInv => HandlesWhileUp  BY DEF IInv, UpInLoop, HandlesWhileUp
<1> QED  BY <1>1, Invariance, PTL

=============================================================================
