--------------------------- MODULE Registry_proofs ---------------------------
(* Theorems about the registry, for any number of services, threads and       *)
(* heartbeats, any activeInterval, and with or without failing statements.    *)
EXTENDS Registry, TLAPS

(* A thread inside heartBeat() has a service.                                 *)
Busy == \A t \in Threads : pc[t] # "idle" => req[t] \in Services

-----------------------------------------------------------------------------
(* KnownIsListed.  A load replaces m_services before m_allService, so what    *)
(* the latter names must be in the table, in what is loaded and, between the  *)
(* two swaps, in m_services.                                                  *)

AllInTable == \A a \in all : \E s \in Services : addr[s] = a /\ rows[s] # <<>>
AllLoaded ==
    upc \in {"swap", "swapAll"} =>
        \A a \in all : \E s \in Services : addr[s] = a /\ loaded[s] # <<>>
LoadedInTable ==
    upc \in {"swap", "swapAll"} => \A s \in Services : loaded[s] # <<>> => rows[s] # <<>>
LoadedIsListed ==
    upc = "swapAll" => \A s \in Services : loaded[s] # <<>> => services[s] # <<>>
KnownStays == \A t \in Threads : pc[t] = "known" => addr[req[t]] \in all
NamedIsListed ==
    \A s \in Services : Alone(s) /\ addr[s] \in all => services[s] # <<>>

KnownInv == AllInTable /\ AllLoaded /\ LoadedInTable /\ LoadedIsListed /\ KnownStays /\ NamedIsListed

-----------------------------------------------------------------------------
(* NotForgotten.  A thread queues the service before it lists it.             *)

OnItsWay(s) ==
    \/ rows[s] # <<>>
    \/ \E i \in DOMAIN new : new[i] = s
    \/ upc = "new" /\ \E i \in DOMAIN batch : batch[i].svc = s
    \/ s \in lost

WayInv ==
    /\ \A s \in reg : OnItsWay(s)
    /\ \A t \in Threads : pc[t] = "list" => OnItsWay(req[t])

-----------------------------------------------------------------------------
(* LeftOutIsSilent.  A refresh reaches the rows of its service through        *)
(* m_updateServices, in the order of the refreshes, although the rows are     *)
(* found by their address and other services may have the same.               *)

\* The updates that wait, those that are being written first.
Writing == IF upc = "update" THEN batch ELSE <<>>

\* The refresh of s at time v is in its rows r, or among the updates q.
Reflected(r, s, v, q) ==
    \A i \in DOMAIN r :
        r[i] >= v \/ \E j \in DOMAIN q : q[j].svc = s /\ q[j].time >= v

\* No earlier update is written after it.
Ordered(s, v, q) ==
    \A j \in DOMAIN q : q[j].time < v =>
        \E k \in DOMAIN q : k > j /\ q[k].svc = s /\ q[k].time >= v

\* Nothing is said of the rows of a service that has a bare one.
LastReflected ==
    \A s \in Services \ lost :
        /\ s \notin bare => Reflected(rows[s], s, last[s], Writing \o upd)
        /\ Ordered(s, last[s], Writing \o upd)
InThePast == \A s \in Services : last[s] <= clock

\* What a load finds inactive was silent, or waits for the next flush.
Waits(s) == \E j \in DOMAIN upd : upd[j].svc = s /\ upd[j].time >= last[s]
SilentIn(q, s) == \A i \in DOMAIN q : ~q[i].active => clock > last[s] + Active \/ Waits(s)
InactiveIsSilent ==
    \A s \in Services \ (lost \cup bare) :
        /\ upc \in {"swap", "swapAll"} => SilentIn(loaded[s], s)
        /\ upc = "swapAll" => SilentIn(services[s], s)

SilentInv == LastReflected /\ InThePast /\ InactiveIsSilent

IInv == TypeOK /\ Busy /\ KnownInv /\ WayInv /\ SilentInv

-----------------------------------------------------------------------------
(* Sequences *)

(* What a sequence is after one more element.                                 *)
LEMMA AppendFacts ==
    ASSUME NEW S, NEW q \in Seq(S), NEW x \in S
    PROVE  /\ Append(q, x) \in Seq(S) /\ Append(q, x) # <<>>
           /\ Len(q) \in Nat /\ DOMAIN q = 1 .. Len(q) /\ DOMAIN Append(q, x) = 1 .. Len(q) + 1
           /\ \A k \in DOMAIN q : k \in DOMAIN Append(q, x) /\ Append(q, x)[k] = q[k]
           /\ Append(q, x)[Len(q) + 1] = x
OBVIOUS

(* ... and without its first.                                                 *)
LEMMA TailFacts ==
    ASSUME NEW S, NEW q \in Seq(S), q # <<>>
    PROVE  /\ Head(q) \in S /\ Tail(q) \in Seq(S) /\ 1 \in DOMAIN q /\ Head(q) = q[1]
           /\ Len(q) \in Nat /\ DOMAIN q = 1 .. Len(q) /\ DOMAIN Tail(q) = 1 .. Len(q) - 1
           /\ \A k \in DOMAIN Tail(q) : k + 1 \in DOMAIN q /\ Tail(q)[k] = q[k + 1]
OBVIOUS

(* The empty sequence.                                                        *)
LEMMA EmptyFacts == \A S : <<>> \in Seq(S) /\ DOMAIN <<>> = {}
OBVIOUS

(* Only the empty sequence has no element, and all of them are of its set.    *)
LEMMA ElementFacts ==
    ASSUME NEW S, NEW q \in Seq(S)
    PROVE  /\ Len(q) \in Nat /\ DOMAIN q = 1 .. Len(q)
           /\ \A k \in DOMAIN q : q[k] \in S
           /\ q = <<>> <=> DOMAIN q = {}
OBVIOUS

(* A sequence with other elements in the same places.                         *)
LEMMA MapFacts ==
    ASSUME NEW S, NEW T, NEW q \in Seq(S), NEW m, m \in [DOMAIN q -> T]
    PROVE  m \in Seq(T) /\ DOMAIN m = DOMAIN q /\ (m = <<>> <=> q = <<>>)
<1>1. Len(q) \in Nat /\ DOMAIN q = 1 .. Len(q) /\ (q = <<>> <=> DOMAIN q = {})  BY ElementFacts
<1>2. m \in Seq(T) /\ DOMAIN m = DOMAIN q  BY <1>1
<1>3. m = <<>> <=> DOMAIN m = {}  BY <1>2, ElementFacts
<1> QED  BY <1>1, <1>2, <1>3

(* Two sequences in a row.                                                    *)
LEMMA ConcatFacts ==
    ASSUME NEW S, NEW a \in Seq(S), NEW b \in Seq(S)
    PROVE  /\ a \o b \in Seq(S)
           /\ Len(a) \in Nat /\ DOMAIN a = 1 .. Len(a) /\ Len(b) \in Nat /\ DOMAIN b = 1 .. Len(b)
           /\ DOMAIN (a \o b) = 1 .. Len(a) + Len(b)
           /\ \A k \in DOMAIN a : (a \o b)[k] = a[k]
           /\ \A k \in DOMAIN b : (a \o b)[Len(a) + k] = b[k]
OBVIOUS

(* Where an element of two sequences in a row comes from.                     *)
LEMMA ConcatElements ==
    ASSUME NEW S, NEW a \in Seq(S), NEW b \in Seq(S)
    PROVE  /\ \A k \in DOMAIN a : k \in DOMAIN (a \o b) /\ (a \o b)[k] = a[k]
           /\ \A k \in DOMAIN b : Len(a) + k \in DOMAIN (a \o b) /\ (a \o b)[Len(a) + k] = b[k]
           /\ \A k \in DOMAIN (a \o b) :
                 \/ k \in DOMAIN a
                 \/ k > Len(a) /\ k - Len(a) \in DOMAIN b /\ (a \o b)[k] = b[k - Len(a)]
           /\ \A k \in DOMAIN a : k <= Len(a)
           /\ \A k \in DOMAIN b : k > 0
           /\ Len(a) \in Nat /\ DOMAIN (a \o b) \subseteq Int
<1>1. /\ Len(a) \in Nat /\ DOMAIN a = 1 .. Len(a) /\ Len(b) \in Nat /\ DOMAIN b = 1 .. Len(b)
      /\ DOMAIN (a \o b) = 1 .. Len(a) + Len(b)
      /\ \A k \in DOMAIN a : (a \o b)[k] = a[k]
      /\ \A k \in DOMAIN b : (a \o b)[Len(a) + k] = b[k]
  BY ConcatFacts
<1>2. /\ \A k \in DOMAIN a : k \in DOMAIN (a \o b)
      /\ \A k \in DOMAIN b : Len(a) + k \in DOMAIN (a \o b)
  BY <1>1
<1>3. ASSUME NEW k \in DOMAIN (a \o b), k \notin DOMAIN a
      PROVE  k > Len(a) /\ k - Len(a) \in DOMAIN b /\ (a \o b)[k] = b[k - Len(a)]
  <2>1. k > Len(a) /\ k - Len(a) \in DOMAIN b /\ Len(a) + (k - Len(a)) = k  BY <1>1, <1>3
  <2> QED  BY <1>1, <2>1
<1> QED  BY <1>1, <1>2, <1>3

(* Without its first element, or without a part in front, a sequence of       *)
(* updates stays in order.                                                    *)
LEMMA OrderedTail ==
    ASSUME NEW q \in Seq(Item), q # <<>>, NEW s, NEW v, Ordered(s, v, q)
    PROVE  Ordered(s, v, Tail(q))
<1>1. /\ Len(q) \in Nat /\ DOMAIN q = 1 .. Len(q) /\ DOMAIN Tail(q) = 1 .. Len(q) - 1
      /\ \A k \in DOMAIN Tail(q) : k + 1 \in DOMAIN q /\ Tail(q)[k] = q[k + 1]
  BY TailFacts
<1> SUFFICES ASSUME NEW j \in DOMAIN Tail(q), Tail(q)[j].time < v
             PROVE  \E k \in DOMAIN Tail(q) : k > j /\ Tail(q)[k].svc = s /\ Tail(q)[k].time >= v
  BY DEF Ordered
<1>2. j + 1 \in DOMAIN q /\ q[j + 1].time < v  BY <1>1
<1>3. PICK k \in DOMAIN q : k > j + 1 /\ q[k].svc = s /\ q[k].time >= v  BY <1>2 DEF Ordered
<1>4. k - 1 \in DOMAIN Tail(q) /\ k - 1 > j /\ (k - 1) + 1 = k  BY <1>1, <1>3
<1>5. Tail(q)[k - 1] = q[k]  BY <1>1, <1>4
<1> QED  BY <1>3, <1>4, <1>5

(* The updates that are left when the ones in front are dropped.              *)
LEMMA DropFront ==
    ASSUME NEW a \in Seq(Item), NEW b \in Seq(Item), NEW r, NEW s, NEW v
    PROVE  /\ Ordered(s, v, a \o b) => Ordered(s, v, b)
           /\ Reflected(r, s, v, a \o b) /\ (\A i \in DOMAIN a : a[i].svc # s) => Reflected(r, s, v, b)
<1> DEFINE c == a \o b
           n == Len(a)
<1>1. /\ \A k \in DOMAIN a : k \in DOMAIN c /\ c[k] = a[k]
      /\ \A k \in DOMAIN b : n + k \in DOMAIN c /\ c[n + k] = b[k]
      /\ \A k \in DOMAIN c : k \in DOMAIN a \/ (k > n /\ k - n \in DOMAIN b /\ c[k] = b[k - n])
      /\ \A k \in DOMAIN a : k <= n
      /\ n \in Nat /\ DOMAIN c \subseteq Int /\ \A k \in DOMAIN b : k > 0 /\ k \in Int
  BY ConcatElements, ElementFacts
<1> HIDE DEF c, n
<1>2. ASSUME Ordered(s, v, c), NEW j \in DOMAIN b, b[j].time < v
      PROVE  \E k \in DOMAIN b : k > j /\ b[k].svc = s /\ b[k].time >= v
  <2>1. n + j \in DOMAIN c /\ c[n + j].time < v  BY <1>1, <1>2
  <2>2. PICK k \in DOMAIN c : k > n + j /\ c[k].svc = s /\ c[k].time >= v  BY <1>2, <2>1 DEF Ordered
  <2>3. k \notin DOMAIN a  BY <1>1, <2>2
  <2>4. k - n \in DOMAIN b /\ c[k] = b[k - n] /\ k - n > j  BY <1>1, <2>2, <2>3
  <2> QED  BY <2>2, <2>4
<1>3. ASSUME Reflected(r, s, v, c), \A i \in DOMAIN a : a[i].svc # s  PROVE Reflected(r, s, v, b)
  <2> SUFFICES ASSUME NEW i \in DOMAIN r, ~(r[i] >= v)
               PROVE  \E j \in DOMAIN b : b[j].svc = s /\ b[j].time >= v
    BY DEF Reflected
  <2>1. PICK k \in DOMAIN c : c[k].svc = s /\ c[k].time >= v  BY <1>3 DEF Reflected
  <2>2. k \notin DOMAIN a  BY <1>1, <1>3, <2>1
  <2>3. k - n \in DOMAIN b /\ c[k] = b[k - n]  BY <1>1, <2>2
  <2> QED  BY <2>1, <2>3
<1> QED  BY <1>2, <1>3 DEF Ordered, c

(* Updates that join the others at the end: of v or later they disturb        *)
(* nothing, and those of s itself are the last word.                          *)
LEMMA JoinEnd ==
    ASSUME NEW a \in Seq(Item), NEW b \in Seq(Item), NEW r, NEW s, NEW v, \A j \in DOMAIN b : ~(b[j].time < v)
    PROVE  /\ Ordered(s, v, a) => Ordered(s, v, a \o b)
           /\ Reflected(r, s, v, a) => Reflected(r, s, v, a \o b)
           /\ b # <<>> /\ (\A j \in DOMAIN b : b[j].svc = s /\ b[j].time >= v)
                 => Ordered(s, v, a \o b) /\ Reflected(r, s, v, a \o b)
<1> DEFINE c == a \o b
           n == Len(a)
<1>1. /\ \A k \in DOMAIN a : k \in DOMAIN c /\ c[k] = a[k]
      /\ \A k \in DOMAIN b : n + k \in DOMAIN c /\ c[n + k] = b[k]
      /\ \A k \in DOMAIN c : k \in DOMAIN a \/ (k > n /\ k - n \in DOMAIN b /\ c[k] = b[k - n])
      /\ \A k \in DOMAIN a : k <= n /\ k \in Int
      /\ n \in Nat /\ DOMAIN c \subseteq Int /\ \A k \in DOMAIN b : k > 0 /\ k \in Int
  BY ConcatElements, ElementFacts
<1>0. b # <<>> => \E k \in DOMAIN b : TRUE  BY ElementFacts
<1> HIDE DEF c, n
<1>2. ASSUME Ordered(s, v, a)  PROVE Ordered(s, v, c)  BY <1>1, <1>2 DEF Ordered
<1>3. ASSUME Reflected(r, s, v, a)  PROVE Reflected(r, s, v, c)  BY <1>1, <1>3 DEF Reflected
<1>4. ASSUME b # <<>>, \A j \in DOMAIN b : b[j].svc = s /\ b[j].time >= v
      PROVE  Ordered(s, v, c) /\ Reflected(r, s, v, c)
  <2>1. PICK k \in DOMAIN b : TRUE  BY <1>0, <1>4
  <2>2. n + k \in DOMAIN c /\ c[n + k].svc = s /\ c[n + k].time >= v /\ \A j \in DOMAIN a : n + k > j
    BY <1>1, <1>4, <2>1
  <2>3. Ordered(s, v, c)
    <3>1. \A j \in DOMAIN c : c[j].time < v => j \in DOMAIN a  BY <1>1
    <3> QED  BY <2>2, <3>1 DEF Ordered
  <2>4. Reflected(r, s, v, c)  BY <2>2 DEF Reflected
  <2> QED  BY <2>3, <2>4
<1> QED  BY <1>2, <1>3, <1>4 DEF c

-----------------------------------------------------------------------------
(* Types *)

(* The parts of the type invariant that concern functions and sequences.      *)
LEMMA Types ==
    ASSUME TypeOK
    PROVE  /\ services \in [Services -> Seq(Entry)] /\ loaded \in [Services -> Seq(Entry)]
           /\ rows \in [Services -> Seq(Times \cup {NoTime})] /\ new \in Seq(Services)
           /\ upd \in Seq(Item) /\ batch \in Seq(Item)
           /\ pc \in [Threads -> {"idle", "new", "list", "known"}]
           /\ req \in [Threads -> Services \cup {NoService}]
           /\ last \in [Services -> Times \cup {-1}]
           /\ clock \in Int /\ clock \in Times /\ MaxTime \in Nat /\ Active \in Nat
BY RegistryAssumption DEF TypeOK, Times

(* What an entry and an update are.                                           *)
LEMMA RecordFacts ==
    /\ \A e \in Entry : e.time \in Times /\ e.active \in BOOLEAN
    /\ \A e \in Item : e.svc \in Services /\ e.time \in Times
    /\ \A x \in Times : \A a \in BOOLEAN :
          [time |-> x, active |-> a] \in Entry /\ ([time |-> x, active |-> a].active = a)
    /\ \A s \in Services : \A x \in Times : [svc |-> s, time |-> x] \in Item
    /\ \A x \in Times : x \in Int
    /\ \A x \in Times \cup {NoTime} : x \in Int /\ x >= -1
BY RegistryAssumption DEF Entry, Item, Times, NoTime

(* What an insert writes.                                                     *)
LEMMA RowTimeType == ASSUME TypeOK, NEW x \in RowTimes  PROVE x \in Times \cup {NoTime}
<1>1. 0 \in Times /\ clock \in Times  BY Types DEF Times
<1> QED  BY <1>1 DEF RowTimes

(* Initially the types are right, and no thread is inside heartBeat().        *)
LEMMA TypeInit == Init => TypeOK /\ Busy
<1> SUFFICES ASSUME Init PROVE TypeOK /\ Busy  OBVIOUS
<1>1. 0 \in Times /\ \A S : <<>> \in Seq(S)  BY RegistryAssumption, EmptyFacts DEF Times
<1>2. rows \in [Services -> Seq(Times \cup {NoTime})]
  <2>1. <<0>> \in Seq(Times \cup {NoTime})  BY <1>1
  <2> QED  BY <1>1, <2>1 DEF Init
<1>3. Empty \in [Services -> Seq(Entry)]  BY <1>1 DEF Empty
<1>4. services \in [Services -> Seq(Entry)] /\ all \subseteq Addrs
  <2>1. CASE /\ services = [s \in Services |-> [i \in DOMAIN rows[s] |-> [time |-> 0, active |-> TRUE]]]
             /\ all = {addr[s] : s \in {q \in Services : rows[q] # <<>>}}
    <3>1. ASSUME NEW s \in Services
          PROVE  [i \in DOMAIN rows[s] |-> [time |-> 0, active |-> TRUE]] \in Seq(Entry)
      <4>1. [time |-> 0, active |-> TRUE] \in Entry  BY <1>1, RecordFacts
      <4>2. [i \in DOMAIN rows[s] |-> [time |-> 0, active |-> TRUE]] \in [DOMAIN rows[s] -> Entry]
        BY <4>1
      <4> QED  BY <1>2, <4>2, MapFacts
    <3>2. addr \in [Services -> Addrs]  BY RegistryAssumption DEF Init
    <3> QED  BY <2>1, <3>1, <3>2
  <2>2. CASE services = Empty /\ all = {}  BY <1>3, <2>2
  <2> QED  BY <2>1, <2>2 DEF Init
<1>5. /\ last \in [Services -> Times \cup {-1}]
      /\ clock \in Times /\ beats \in 0 .. MaxBeat
  BY <1>1, RegistryAssumption DEF Init
<1>6. pc \in [Threads -> {"idle", "new", "list", "known"}] /\ req \in [Threads -> Services \cup {NoService}]
  BY DEF Init
<1>7. TypeOK  BY <1>1, <1>2, <1>3, <1>4, <1>5, <1>6 DEF Init, TypeOK
<1>8. Busy  BY DEF Init, Busy
<1> QED  BY <1>7, <1>8

(* No step of a thread or of the clock leaves the types.                      *)
LEMMA TypeThreads ==
    ASSUME TypeOK, Busy,
           Tick \/ \E t \in Threads : Beat(t) \/ \E s \in Services : HeartBeat(t, s)
    PROVE  TypeOK' /\ Busy'
<1>1. CASE Tick
  <2>1. clock' \in Times  BY <1>1, Types DEF Tick, Times
  <2> QED  BY <1>1, <2>1 DEF Tick, TypeOK, Busy, mgr, main, hist
<1>2. ASSUME NEW t \in Threads, NEW s \in Services, HeartBeat(t, s)  PROVE TypeOK' /\ Busy'
  <2>1. /\ pc' \in [Threads -> {"idle", "new", "list", "known"}]
        /\ req' \in [Threads -> Services \cup {NoService}] /\ Busy'
    BY <1>2, Types DEF HeartBeat, Busy
  <2>2. beats' \in 0 .. MaxBeat  BY <1>2, RegistryAssumption DEF HeartBeat, TypeOK
  <2> QED  BY <1>2, <2>1, <2>2 DEF HeartBeat, TypeOK, mgr, main, hist
<1>3. ASSUME NEW t \in Threads, AddNewService(t)  PROVE TypeOK' /\ Busy'
  <2>1. new' \in Seq(Services)  BY <1>3, Types, AppendFacts DEF AddNewService, Busy
  <2>2. pc' \in [Threads -> {"idle", "new", "list", "known"}] /\ Busy'
    BY <1>3, Types DEF AddNewService, Busy
  <2> QED  BY <1>3, <2>1, <2>2 DEF AddNewService, TypeOK, main, hist
<1>4. ASSUME NEW t \in Threads, Done(t)
      PROVE  /\ pc' \in [Threads -> {"idle", "new", "list", "known"}]
             /\ req' \in [Threads -> Services \cup {NoService}] /\ Busy'
  BY <1>4, Types DEF Done, Busy
<1>5. ASSUME NEW t \in Threads, ListNew(t)  PROVE TypeOK' /\ Busy'
  <2>1. req[t] \in Services  BY <1>5 DEF ListNew, Busy
  <2>2. services' \in [Services -> Seq(Entry)]
    <3>1. [time |-> clock, active |-> TRUE] \in Entry  BY Types, RecordFacts
    <3>2. Append(services[req[t]], [time |-> clock, active |-> TRUE]) \in Seq(Entry)
      BY <2>1, <3>1, Types, AppendFacts
    <3> QED  BY <1>5, <2>1, <3>2, Types DEF ListNew
  <2>3. reg' \subseteq Services  BY <1>5, <2>1 DEF ListNew, TypeOK
  <2> QED  BY <1>4, <1>5, <2>2, <2>3 DEF ListNew, TypeOK, main
<1>6. ASSUME NEW t \in Threads, Refresh(t)  PROVE TypeOK' /\ Busy'
  <2> DEFINE s == req[t]
             es == [i \in DOMAIN services[s] |-> [time |-> clock, active |-> TRUE]]
             is == [i \in DOMAIN services[s] |-> [svc |-> s, time |-> clock]]
  <2>1. s \in Services /\ services[s] \in Seq(Entry)  BY <1>6, Types DEF Refresh, Busy
  <2>2. es \in [DOMAIN services[s] -> Entry] /\ is \in [DOMAIN services[s] -> Item]
    BY <2>1, Types, RecordFacts
  <2>3. es \in Seq(Entry) /\ is \in Seq(Item)  BY <2>1, <2>2, MapFacts
  <2>4. /\ services' = [services EXCEPT ![s] = es] /\ upd' = upd \o is
        /\ last' = [last EXCEPT ![s] = IF services[s] = <<>> THEN @ ELSE clock]
    BY <1>6 DEF Refresh
  <2> HIDE DEF es, is
  <2>5. services' \in [Services -> Seq(Entry)] /\ upd' \in Seq(Item)
    BY <2>1, <2>3, <2>4, Types, ConcatFacts
  <2>6. last' \in [Services -> Times \cup {-1}]  BY <2>1, <2>4, Types
  <2> QED  BY <1>4, <1>6, <2>5, <2>6 DEF Refresh, TypeOK, main
<1> QED  BY <1>1, <1>2, <1>3, <1>5, <1>6 DEF Beat

(* No step of update() leaves the types.                                      *)
LEMMA TypeUpdate == ASSUME TypeOK, Busy, Update  PROVE TypeOK' /\ Busy'
<1>0. <<>> \in Seq(Item) /\ <<>> \in Seq(Services)  BY EmptyFacts
<1>a. UNCHANGED <<pc, req>> => Busy'  BY DEF Busy
<1>1. CASE FlushNew
  <2>1. batch' \in Seq(Item)
    <3> DEFINE b == [i \in DOMAIN new |-> [svc |-> new[i], time |-> clock]]
    <3>1. b \in [DOMAIN new -> Item]  BY Types, RecordFacts, ElementFacts
    <3> QED  BY <1>1, <3>1, Types, MapFacts DEF FlushNew
  <2> QED  BY <1>0, <1>a, <1>1, <2>1 DEF FlushNew, TypeOK, hist
<1>2. CASE InsertOne
  <2>1. /\ Head(batch) \in Item /\ Tail(batch) \in Seq(Item)  BY <1>2, Types, TailFacts DEF InsertOne
  <2>2. Head(batch).svc \in Services  BY <2>1, RecordFacts
  <2>3. PICK x \in RowTimes : rows' = [rows EXCEPT ![Head(batch).svc] = Append(@, x)]
    BY <1>2 DEF InsertOne
  <2>4. x \in Times \cup {NoTime}  BY RowTimeType
  <2>5. Append(rows[Head(batch).svc], x) \in Seq(Times \cup {NoTime})  BY <2>2, <2>4, Types, AppendFacts
  <2>6. rows' \in [Services -> Seq(Times \cup {NoTime})] /\ batch' \in Seq(Item)
    BY <1>2, <2>1, <2>2, <2>3, <2>5, Types DEF InsertOne
  <2>7. bare' \subseteq Services  BY <1>2, <2>2 DEF InsertOne, TypeOK
  <2> QED  BY <1>a, <1>2, <2>6, <2>7 DEF InsertOne, TypeOK, mgr
<1>3. CASE InsertFails \/ UpdateFails
  <2>1. lost' \subseteq Services
    <3>1. \A i \in DOMAIN batch : batch[i].svc \in Services  BY Types, ElementFacts, RecordFacts
    <3>2. lost' = lost \cup {batch[i].svc : i \in DOMAIN batch}  BY <1>3 DEF InsertFails, UpdateFails
    <3>3. lost \subseteq Services  BY DEF TypeOK
    <3> QED  BY <3>1, <3>2, <3>3
  <2> QED  BY <1>0, <1>a, <1>3, <2>1 DEF InsertFails, UpdateFails, TypeOK, mgr
<1>4. CASE NewDone  BY <1>0, <1>a, <1>4 DEF NewDone, TypeOK, hist
<1>5. CASE UpdateOne
  <2> DEFINE b == Head(batch)
  <2>1. /\ b \in Item /\ Tail(batch) \in Seq(Item)  BY <1>5, Types, TailFacts DEF UpdateOne
  <2>2. b.time \in Times  BY <2>1, RecordFacts
  <2> HIDE DEF b
  <2>3. ASSUME NEW s \in Services
        PROVE  [i \in DOMAIN rows[s] |-> IF addr[s] = addr[b.svc] THEN b.time ELSE rows[s][i]]
                  \in Seq(Times \cup {NoTime})
    <3>1. [i \in DOMAIN rows[s] |-> IF addr[s] = addr[b.svc] THEN b.time ELSE rows[s][i]]
             \in [DOMAIN rows[s] -> Times \cup {NoTime}]
      BY <2>2, Types, ElementFacts
    <3> QED  BY <3>1, Types, MapFacts
  <2>4. rows' \in [Services -> Seq(Times \cup {NoTime})] /\ batch' \in Seq(Item)
    BY <1>5, <2>1, <2>3 DEF UpdateOne, b
  <2>5. bare' \subseteq Services  BY <1>5 DEF UpdateOne, TypeOK
  <2> QED  BY <1>a, <1>5, <2>4, <2>5 DEF UpdateOne, TypeOK, mgr
<1>6. CASE UpdateDone \/ LoadNothing
  BY <1>a, <1>6 DEF UpdateDone, LoadNothing, TypeOK, mgr, hist
<1>7. CASE Load
  <2>1. ASSUME NEW s \in Services
        PROVE  [i \in DOMAIN rows[s] |-> [time |-> rows[s][i], active |-> ~(clock > rows[s][i] + Active)]]
                  \in Seq(Entry)
    <3> DEFINE m == [i \in DOMAIN rows[s] |-> [time |-> rows[s][i], active |-> ~(clock > rows[s][i] + Active)]]
    <3>1. m \in [DOMAIN rows[s] -> Entry]
      <4>1. \A i \in DOMAIN rows[s] : rows[s][i] \in Times \cup {NoTime}  BY Types, ElementFacts
      <4>2. \A i \in DOMAIN rows[s] : rows[s][i] # NoTime  BY <1>7 DEF Load, Parses
      <4> QED  BY <4>1, <4>2, RecordFacts
    <3>2. rows[s] \in Seq(Times \cup {NoTime})  BY Types
    <3> HIDE DEF m
    <3>3. m \in Seq(Entry)  BY <3>1, <3>2, MapFacts
    <3> QED  BY <3>3 DEF m
  <2>2. loaded' \in [Services -> Seq(Entry)]  BY <1>7, <2>1 DEF Load
  <2> QED  BY <1>a, <1>7, <2>2 DEF Load, TypeOK, mgr, hist
<1>8. CASE Swap  BY <1>a, <1>8 DEF Swap, TypeOK, hist
<1>9. CASE SwapAll
  <2>1. all' \subseteq Addrs
    <3>1. addr \in [Services -> Addrs]  BY RegistryAssumption DEF TypeOK
    <3> QED  BY <1>9, <3>1 DEF SwapAll
  <2>2. loaded' \in [Services -> Seq(Entry)]  BY <1>9, EmptyFacts DEF SwapAll, Empty
  <2> QED  BY <1>a, <1>9, <2>1, <2>2 DEF SwapAll, TypeOK, hist
<1> QED  BY <1>1, <1>2, <1>3, <1>4, <1>5, <1>6, <1>7, <1>8, <1>9 DEF Update

-----------------------------------------------------------------------------
(* What is known is listed *)

(* A service that is inserted has a row.                                      *)
LEMMA RowAdded ==
    ASSUME TypeOK, InsertOne, NEW s \in Services
    PROVE  Head(batch).svc = s \/ rows[s] # <<>> => rows'[s] # <<>>
<1>1. PICK x \in RowTimes : rows' = [rows EXCEPT ![Head(batch).svc] = Append(@, x)]
  BY DEF InsertOne
<1>2. rows[s] \in Seq(Times \cup {NoTime}) /\ x \in Times \cup {NoTime}  BY Types, RowTimeType
<1>3. Append(rows[s], x) # <<>>
  <2> DEFINE r == rows[s]
             S == Times \cup {NoTime}
  <2>1. r \in Seq(S) /\ x \in S  BY <1>2
  <2> HIDE DEF r, S
  <2>2. Append(r, x) # <<>>  BY <2>1, AppendFacts
  <2> QED  BY <2>2 DEF r
<1>4. CASE Head(batch).svc = s  BY <1>1, <1>3, <1>4, Types
<1>5. CASE Head(batch).svc # s  BY <1>1, <1>5, Types
<1> QED  BY <1>4, <1>5

(* The table never loses a row.                                               *)
LEMMA RowsStay ==
    ASSUME TypeOK, Next, NEW s \in Services, rows[s] # <<>>
    PROVE  rows'[s] # <<>>
<1>1. CASE InsertOne  BY <1>1, RowAdded
<1>2. CASE UpdateOne
  <2> DEFINE m == [i \in DOMAIN rows[s] |->
                     IF addr[s] = addr[Head(batch).svc] THEN Head(batch).time ELSE rows[s][i]]
  <2>1. Head(batch) \in Item  BY <1>2, Types, TailFacts DEF UpdateOne
  <2>2. Head(batch).time \in Times /\ \A i \in DOMAIN rows[s] : rows[s][i] \in Times \cup {NoTime}
    BY <2>1, RecordFacts, Types, ElementFacts
  <2>3. m \in [DOMAIN rows[s] -> Times \cup {NoTime}] /\ rows[s] \in Seq(Times \cup {NoTime})
    BY <2>2, Types
  <2>4. rows'[s] = m  BY <1>2 DEF UpdateOne
  <2> HIDE DEF m
  <2>5. m # <<>>  BY <2>3, MapFacts
  <2> QED  BY <2>4, <2>5
<1>3. CASE ~InsertOne /\ ~UpdateOne
  <2>1. rows' = rows
    BY <1>3 DEF Next, Update, Beat, Tick, HeartBeat, AddNewService, ListNew, Refresh, FlushNew,
                InsertFails, NewDone, UpdateFails, UpdateDone, LoadNothing, Load, Swap, SwapAll
  <2> QED  BY <2>1
<1> QED  BY <1>1, <1>2, <1>3

(* A heartbeat leaves the entries of all services, and none empty.            *)
LEMMA EntriesStay ==
    ASSUME TypeOK, Busy, NEW t \in Threads, ListNew(t) \/ Refresh(t), NEW s \in Services, services[s] # <<>>
    PROVE  services'[s] # <<>>
<1>0. req[t] \in Services  BY DEF ListNew, Refresh, Busy
<1>1. CASE ListNew(t)
  <2>1. [time |-> clock, active |-> TRUE] \in Entry  BY Types, RecordFacts
  <2>0. services[s] \in Seq(Entry)  BY Types
  <2>2. Append(services[s], [time |-> clock, active |-> TRUE]) # <<>>  BY <2>0, <2>1, AppendFacts
  <2> QED  BY <1>0, <1>1, <2>2, Types DEF ListNew
<1>2. CASE Refresh(t)
  <2> DEFINE m == [i \in DOMAIN services[s] |-> [time |-> clock, active |-> TRUE]]
  <2>1. m \in [DOMAIN services[s] -> Entry] /\ services[s] \in Seq(Entry)  BY Types, RecordFacts
  <2>2. services'[s] = m \/ services'[s] = services[s]  BY <1>0, <1>2, Types DEF Refresh
  <2> HIDE DEF m
  <2>3. m # <<>>  BY <2>1, MapFacts
  <2> QED  BY <2>2, <2>3
<1> QED  BY <1>1, <1>2

(* A step that leaves m_allService and what is loaded, and no list empty.     *)
LEMMA KnownKept ==
    ASSUME KnownInv, UNCHANGED <<addr, all, loaded>>,
           \A s \in Services : rows[s] # <<>> => rows'[s] # <<>>,
           \A s \in Services : services[s] # <<>> => services'[s] # <<>>,
           upc' \in {"swap", "swapAll"} => upc' = upc,
           \A t \in Threads : pc'[t] = "known" => addr[req'[t]] \in all
    PROVE  KnownInv'
<1>1. AllInTable'  BY DEF KnownInv, AllInTable
<1>2. AllLoaded' /\ LoadedInTable' /\ LoadedIsListed'
  BY DEF KnownInv, AllLoaded, LoadedInTable, LoadedIsListed
<1>3. KnownStays'  BY DEF KnownStays
<1>4. NamedIsListed'  BY DEF KnownInv, NamedIsListed, Alone
<1> QED  BY <1>1, <1>2, <1>3, <1>4 DEF KnownInv

(* What init() loads is in the table.                                         *)
LEMMA KnownInit == Init => KnownInv
<1> SUFFICES ASSUME Init PROVE KnownInv  OBVIOUS
<1>1. AllInTable  BY DEF Init, AllInTable
<1>2. AllLoaded /\ LoadedInTable /\ LoadedIsListed /\ KnownStays
  BY DEF Init, AllLoaded, LoadedInTable, LoadedIsListed, KnownStays
<1>3. NamedIsListed
  <2> SUFFICES ASSUME NEW s \in Services, Alone(s), addr[s] \in all  PROVE services[s] # <<>>
    BY DEF NamedIsListed
  <2>1. rows[s] # <<>>  BY <1>1 DEF AllInTable, Alone
  <2> DEFINE m == [i \in DOMAIN rows[s] |-> [time |-> 0, active |-> TRUE]]
  <2>2. rows[s] \in Seq(Times \cup {NoTime}) /\ m \in [DOMAIN rows[s] -> Entry]
    <3>1. 0 \in Times  BY RegistryAssumption DEF Times
    <3>2. [time |-> 0, active |-> TRUE] \in Entry  BY <3>1, RecordFacts
    <3>3. rows \in [Services -> Seq(Times \cup {NoTime})]  BY TypeInit, Types
    <3> QED  BY <3>2, <3>3
  <2>3. services[s] = m  BY DEF Init
  <2> HIDE DEF m
  <2>4. m # <<>>  BY <2>1, <2>2, MapFacts
  <2> QED  BY <2>3, <2>4
<1> QED  BY <1>1, <1>2, <1>3 DEF KnownInv

(* Every step keeps what is known listed.                                     *)
LEMMA KnownNext == ASSUME TypeOK, Busy, KnownInv, Next  PROVE KnownInv'
<1>0. \A s \in Services : rows[s] # <<>> => rows'[s] # <<>>  BY RowsStay
<1>a. UNCHANGED <<pc, req>> => \A t \in Threads : pc'[t] = "known" => addr[req'[t]] \in all
  BY DEF KnownInv, KnownStays
<1>1. CASE Tick  BY <1>0, <1>a, <1>1, KnownKept DEF Tick, mgr, main, hist
<1>2. ASSUME NEW t \in Threads, NEW s \in Services, HeartBeat(t, s)  PROVE KnownInv'
  <2>1. \A u \in Threads : pc'[u] = "known" => addr[req'[u]] \in all
    BY <1>2, Types DEF HeartBeat, KnownInv, KnownStays
  <2> QED  BY <1>0, <1>2, <2>1, KnownKept DEF HeartBeat, mgr, main, hist
<1>3. ASSUME NEW t \in Threads, AddNewService(t)  PROVE KnownInv'
  <2>1. \A u \in Threads : pc'[u] = "known" => addr[req'[u]] \in all
    BY <1>3, Types DEF AddNewService, KnownInv, KnownStays
  <2> QED  BY <1>0, <1>3, <2>1, KnownKept DEF AddNewService, main, hist
<1>4. ASSUME NEW t \in Threads, ListNew(t) \/ Refresh(t)  PROVE KnownInv'
  <2>1. \A u \in Threads : pc'[u] = "known" => addr[req'[u]] \in all
    BY <1>4, Types DEF ListNew, Refresh, Done, KnownInv, KnownStays
  <2>2. \A s \in Services : services[s] # <<>> => services'[s] # <<>>  BY <1>4, EntriesStay
  <2>3. UNCHANGED <<addr, all, loaded, upc>>  BY <1>4 DEF ListNew, Refresh, main
  <2> QED  BY <1>0, <2>1, <2>2, <2>3, KnownKept
<1>5. CASE FlushNew \/ InsertOne \/ InsertFails \/ NewDone \/ UpdateOne \/ UpdateFails \/ UpdateDone \/ LoadNothing
  <2>1. UNCHANGED <<addr, all, loaded, services, pc, req>>
    BY <1>5 DEF FlushNew, InsertOne, InsertFails, NewDone, UpdateOne, UpdateFails, UpdateDone,
                LoadNothing, mgr, hist
  <2>2. upc' \in {"swap", "swapAll"} => upc' = upc
    BY <1>5 DEF FlushNew, InsertOne, InsertFails, NewDone, UpdateOne, UpdateFails, UpdateDone, LoadNothing
  <2> QED  BY <1>0, <1>a, <2>1, <2>2, KnownKept
<1>6. CASE Load
  <2>1. UNCHANGED <<addr, all, services, rows, pc, req>> /\ upc' = "swap"  BY <1>6 DEF Load, mgr, hist
  <2>2. ASSUME NEW s \in Services, rows[s] # <<>>  PROVE loaded'[s] # <<>>
    <3>0. rows[s] \in Seq(Times \cup {NoTime})  BY Types
    <3>1. \E i \in DOMAIN rows[s] : TRUE  BY <2>2, <3>0, ElementFacts
    <3>2. DOMAIN loaded'[s] = DOMAIN rows[s]  BY <1>6 DEF Load
    <3> QED  BY <3>1, <3>2, EmptyFacts
  <2>3. AllLoaded'  BY <2>1, <2>2 DEF KnownInv, AllInTable, AllLoaded
  <2>4. ASSUME NEW s \in Services, rows[s] = <<>>  PROVE loaded'[s] = <<>>
    <3>1. loaded'[s] = [i \in DOMAIN rows[s] |->
                          [time |-> rows[s][i], active |-> ~(clock > rows[s][i] + Active)]]
      BY <1>6 DEF Load
    <3>2. DOMAIN loaded'[s] = {}  BY <2>4, <3>1, EmptyFacts
    <3> QED  BY <2>4, <3>1, <3>2, TypeUpdate, Types, ElementFacts
  <2>5. LoadedInTable'  BY <2>1, <2>4 DEF LoadedInTable
  <2> QED  BY <2>1, <2>3, <2>5 DEF KnownInv, AllInTable, LoadedIsListed, KnownStays, NamedIsListed, Alone
<1>7. CASE Swap
  <2>1. UNCHANGED <<addr, all, loaded, rows, pc, req>> /\ services' = loaded /\ upc = "swap" /\ upc' = "swapAll"
    BY <1>7 DEF Swap, hist
  <2>2. NamedIsListed'  BY <2>1 DEF KnownInv, AllLoaded, NamedIsListed, Alone
  <2> QED  BY <2>1, <2>2 DEF KnownInv, AllInTable, AllLoaded, LoadedInTable, LoadedIsListed, KnownStays
<1>8. CASE SwapAll
  <2>1. /\ UNCHANGED <<addr, services, rows, pc, req>> /\ upc = "swapAll" /\ upc' = "idle"
        /\ all' = {addr[s] : s \in {q \in Services : loaded[q] # <<>>}}
    BY <1>8 DEF SwapAll, hist
  <2>2. all \subseteq all'  BY <2>1 DEF KnownInv, AllLoaded
  <2>3. KnownStays'  BY <2>1, <2>2 DEF KnownInv, KnownStays
  <2>4. NamedIsListed'  BY <2>1 DEF KnownInv, LoadedIsListed, NamedIsListed, Alone
  <2>5. AllInTable'  BY <2>1 DEF KnownInv, AllInTable, LoadedInTable
  <2> QED  BY <2>1, <2>3, <2>4, <2>5 DEF KnownInv, AllLoaded, LoadedInTable, LoadedIsListed
<1> QED  BY <1>1, <1>2, <1>3, <1>4, <1>5, <1>6, <1>7, <1>8 DEF Next, Update, Beat

-----------------------------------------------------------------------------
(* What has registered is not forgotten *)

(* A service on its way to the table stays on it, or is lost with a batch.    *)
LEMMA StaysOnItsWay ==
    ASSUME TypeOK, Busy, Next, NEW s \in Services, OnItsWay(s)
    PROVE  OnItsWay(s)'
<1>0. rows[s] # <<>> => rows'[s] # <<>>  BY RowsStay
<1>1. CASE FlushNew
  <2>1. /\ batch' = [i \in DOMAIN new |-> [svc |-> new[i], time |-> clock]] /\ upc' = "new" /\ upc = "idle"
        /\ lost' = lost
    BY <1>1 DEF FlushNew, hist
  <2>2. \A i \in DOMAIN new : i \in DOMAIN batch' /\ batch'[i].svc = new[i]  BY <2>1
  <2> QED  BY <1>0, <2>1, <2>2 DEF OnItsWay
<1>2. CASE InsertOne
  <2>1. /\ upc = "new" /\ upc' = "new" /\ batch # <<>> /\ batch' = Tail(batch) /\ UNCHANGED <<new, lost>>
    BY <1>2 DEF InsertOne, mgr
  <2>2. CASE Head(batch).svc = s  BY <1>2, <2>2, RowAdded DEF OnItsWay
  <2>3. CASE Head(batch).svc # s
    <3>1. batch \in Seq(Item)  BY Types
    <3>2. /\ Head(batch) = batch[1] /\ Len(batch) \in Nat /\ DOMAIN batch = 1 .. Len(batch)
          /\ DOMAIN Tail(batch) = 1 .. Len(batch) - 1
          /\ \A k \in DOMAIN Tail(batch) : Tail(batch)[k] = batch[k + 1]
      BY <2>1, <3>1, TailFacts
    <3>3. ASSUME NEW i \in DOMAIN batch, batch[i].svc = s
          PROVE  \E k \in DOMAIN batch' : batch'[k].svc = s
      <4>1. i # 1  BY <2>3, <3>2, <3>3
      <4>2. i - 1 \in DOMAIN Tail(batch) /\ (i - 1) + 1 = i  BY <3>2, <4>1
      <4>3. Tail(batch)[i - 1] = batch[i]  BY <3>2, <4>2
      <4> QED  BY <2>1, <3>3, <4>2, <4>3
    <3> QED  BY <1>0, <2>1, <3>3 DEF OnItsWay
  <2> QED  BY <2>2, <2>3
<1>3. CASE InsertFails \/ UpdateFails
  <2>1. /\ lost' = lost \cup {batch[i].svc : i \in DOMAIN batch} /\ new' = new
    BY <1>3 DEF InsertFails, UpdateFails, mgr
  <2> QED  BY <1>0, <2>1 DEF OnItsWay
<1>4. CASE NewDone
  <2>1. batch = <<>> /\ UNCHANGED <<new, lost>>  BY <1>4 DEF NewDone, hist
  <2> QED  BY <1>0, <2>1, EmptyFacts DEF OnItsWay
<1>5. CASE UpdateOne \/ UpdateDone \/ LoadNothing \/ Load \/ Swap \/ SwapAll
  <2>1. upc # "new" /\ UNCHANGED <<new, lost>>
    BY <1>5 DEF UpdateOne, UpdateDone, LoadNothing, Load, Swap, SwapAll, mgr, hist
  <2> QED  BY <1>0, <2>1 DEF OnItsWay
<1>6. ASSUME NEW t \in Threads, AddNewService(t)  PROVE OnItsWay(s)'
  <2>0. req[t] \in Services  BY <1>6 DEF AddNewService, Busy
  <2>1. new' = Append(new, req[t]) /\ UNCHANGED <<upc, batch, lost>>  BY <1>6 DEF AddNewService, main, hist
  <2>2. \A i \in DOMAIN new : i \in DOMAIN new' /\ new'[i] = new[i]  BY <2>0, <2>1, Types, AppendFacts
  <2> QED  BY <1>0, <2>1, <2>2 DEF OnItsWay
<1>7. CASE Tick \/ \E t \in Threads : ListNew(t) \/ Refresh(t) \/ \E q \in Services : HeartBeat(t, q)
  <2>1. UNCHANGED <<new, upc, batch, lost>>
    BY <1>7 DEF Tick, ListNew, Refresh, HeartBeat, mgr, main, hist
  <2> QED  BY <1>0, <2>1 DEF OnItsWay
<1> QED  BY <1>1, <1>2, <1>3, <1>4, <1>5, <1>6, <1>7 DEF Next, Update, Beat

(* Nothing registers without being queued for the table.                      *)
LEMMA WayNext == ASSUME TypeOK, Busy, WayInv, Next  PROVE WayInv'
<1>1. \A s \in Services : OnItsWay(s) => OnItsWay(s)'  BY StaysOnItsWay
<1>2. \A s \in reg' : OnItsWay(s)
  <2>1. ASSUME NEW t \in Threads, ListNew(t)  PROVE \A s \in reg' : OnItsWay(s)
    BY <2>1 DEF ListNew, WayInv
  <2>2. CASE ~\E t \in Threads : ListNew(t)
    <3>1. reg' = reg
      BY <2>2 DEF Next, Update, Beat, Tick, HeartBeat, AddNewService, Refresh, FlushNew, InsertOne, UpdateOne,
                InsertFails, NewDone, UpdateFails, UpdateDone, LoadNothing, Load, Swap, SwapAll, hist
    <3> QED  BY <3>1 DEF WayInv
  <2> QED  BY <2>1, <2>2
<1>3. ASSUME NEW t \in Threads, pc'[t] = "list", NEW s \in Services, s = req'[t]  PROVE OnItsWay(s)'
  <2>1. CASE AddNewService(t)
    <3>1. new' = Append(new, req[t]) /\ req' = req /\ req[t] \in Services  BY <2>1 DEF AddNewService, Busy
    <3>2. Append(new, req[t])[Len(new) + 1] = req[t] /\ Len(new) + 1 \in DOMAIN Append(new, req[t])
      <4>1. /\ Len(new) \in Nat /\ DOMAIN Append(new, req[t]) = 1 .. Len(new) + 1
            /\ Append(new, req[t])[Len(new) + 1] = req[t]
        BY <3>1, Types, AppendFacts
      <4> QED  BY <4>1
    <3> QED  BY <1>3, <3>1, <3>2 DEF OnItsWay
  <2>2. CASE ~AddNewService(t)
    <3>1. pc[t] = "list" /\ req'[t] = req[t]
      <4>1. ASSUME NEW u \in Threads, AddNewService(u)  PROVE pc[t] = "list" /\ req'[t] = req[t]
        <5>1. u # t  BY <2>2, <4>1
        <5> QED  BY <1>3, <4>1, <5>1, Types DEF AddNewService
      <4>2. ASSUME NEW u \in Threads, ListNew(u) \/ Refresh(u)  PROVE pc[t] = "list" /\ req'[t] = req[t]
        BY <1>3, <4>2, Types DEF ListNew, Refresh, Done
      <4>3. ASSUME NEW u \in Threads, NEW q \in Services, HeartBeat(u, q)  PROVE pc[t] = "list" /\ req'[t] = req[t]
        BY <1>3, <4>3, Types DEF HeartBeat
      <4>4. CASE Tick \/ Update
        <5>1. UNCHANGED <<pc, req>>
          BY <4>4 DEF Tick, Update, FlushNew, InsertOne, UpdateOne, InsertFails, NewDone, UpdateFails,
                      UpdateDone, LoadNothing, Load, Swap, SwapAll
        <5> QED  BY <1>3, <5>1
      <4> QED  BY <4>1, <4>2, <4>3, <4>4 DEF Next, Beat
    <3>2. OnItsWay(s)  BY <1>3, <3>1 DEF WayInv
    <3> QED  BY <1>1, <3>2
  <2> QED  BY <2>1, <2>2
<1>4. reg' \subseteq Services  BY TypeThreads, TypeUpdate DEF Next, TypeOK
<1>5. \A s \in reg' : OnItsWay(s)'  BY <1>1, <1>2, <1>4
<1>6. ASSUME NEW t \in Threads, pc'[t] = "list"  PROVE OnItsWay(req[t])'
  <2>1. req'[t] \in Services  BY <1>6, TypeThreads, TypeUpdate DEF Next, Busy
  <2> QED  BY <1>3, <1>6, <2>1 DEF OnItsWay
<1> QED  BY <1>5, <1>6 DEF WayInv

-----------------------------------------------------------------------------
(* What is left out was silent *)

(* The updates that wait are updates.                                         *)
LEMMA WritingType == ASSUME TypeOK  PROVE Writing \in Seq(Item) /\ Writing \o upd \in Seq(Item)
<1>1. Writing \in Seq(Item)  BY Types, EmptyFacts DEF Writing
<1> QED  BY <1>1, Types, ConcatFacts

(* A sequence after an empty one.                                             *)
LEMMA AfterEmpty == ASSUME NEW S, NEW q \in Seq(S)  PROVE <<>> \o q = q
OBVIOUS

(* ... and an empty one after it.                                             *)
LEMMA EmptyAfter == ASSUME NEW S, NEW q \in Seq(S)  PROVE q \o <<>> = q
OBVIOUS

(* The first of two sequences in a row gives the first element.               *)
LEMMA TailConcat ==
    ASSUME NEW S, NEW a \in Seq(S), NEW b \in Seq(S), a # <<>>
    PROVE  /\ Tail(a) \o b = Tail(a \o b) /\ Head(a \o b) = Head(a) /\ a \o b # <<>>
OBVIOUS

(* The first of the updates is written into the rows of its address.          *)
LEMMA WriteFirst ==
    ASSUME NEW q \in Seq(Item), q # <<>>, NEW s, NEW v \in Int, NEW r, NEW m, DOMAIN m = DOMAIN r,
           Ordered(s, v, q),
           \/ \A i \in DOMAIN r : m[i] = Head(q).time
           \/ /\ Reflected(r, s, v, q) /\ Head(q).svc # s
              /\ \A i \in DOMAIN r : m[i] = r[i]
    PROVE  Reflected(m, s, v, Tail(q)) /\ Ordered(s, v, Tail(q))
<1>1. /\ Len(q) \in Nat /\ DOMAIN q = 1 .. Len(q) /\ DOMAIN Tail(q) = 1 .. Len(q) - 1
      /\ \A k \in DOMAIN Tail(q) : k + 1 \in DOMAIN q /\ Tail(q)[k] = q[k + 1]
      /\ 1 \in DOMAIN q /\ Head(q) = q[1] /\ Head(q) \in Item
  BY TailFacts
<1>2. Head(q).time \in Int  BY <1>1, RecordFacts
<1>3. ASSUME NEW k \in DOMAIN q, k # 1, q[k].svc = s, q[k].time >= v
      PROVE  \E j \in DOMAIN Tail(q) : Tail(q)[j].svc = s /\ Tail(q)[j].time >= v
  <2>1. k - 1 \in DOMAIN Tail(q) /\ (k - 1) + 1 = k  BY <1>1, <1>3
  <2>2. Tail(q)[k - 1] = q[k]  BY <1>1, <2>1
  <2> QED  BY <1>3, <2>1, <2>2
<1>4. ASSUME NEW i \in DOMAIN m, ~(m[i] >= v)
      PROVE  \E j \in DOMAIN Tail(q) : Tail(q)[j].svc = s /\ Tail(q)[j].time >= v
  <2>1. CASE m[i] = Head(q).time
    <3>1. q[1].time < v  BY <1>1, <1>2, <1>4, <2>1
    <3>2. PICK k \in DOMAIN q : k > 1 /\ q[k].svc = s /\ q[k].time >= v  BY <1>1, <3>1 DEF Ordered
    <3>3. k # 1  BY <1>1, <3>2
    <3> QED  BY <1>3, <3>2, <3>3
  <2>2. CASE m[i] # Head(q).time
    <3>1. m[i] = r[i] /\ Head(q).svc # s /\ Reflected(r, s, v, q)  BY <1>4, <2>2
    <3>2. PICK k \in DOMAIN q : q[k].svc = s /\ q[k].time >= v  BY <1>4, <3>1 DEF Reflected
    <3> QED  BY <1>1, <1>3, <3>1, <3>2
  <2> QED  BY <2>1, <2>2
<1> QED  BY <1>4, OrderedTail DEF Reflected

(* Initially nothing was refreshed.                                           *)
LEMMA SilentInit == Init => SilentInv
<1> SUFFICES ASSUME Init PROVE SilentInv  OBVIOUS
<1>1. Writing \o upd = <<>> /\ clock = 0
  <2>1. Writing = <<>> /\ upd = <<>>  BY DEF Init, Writing
  <2> QED  BY <2>1, EmptyFacts, AfterEmpty DEF Init
<1>2. \A s \in Services : last[s] = -1  BY DEF Init
<1>3. ASSUME NEW s \in Services  PROVE \A i \in DOMAIN rows[s] : rows[s][i] >= -1
  <2>1. rows[s] \in Seq(Times \cup {NoTime})  BY TypeInit, Types
  <2>2. \A i \in DOMAIN rows[s] : rows[s][i] \in Times \cup {NoTime}  BY <2>1, ElementFacts
  <2> QED  BY <2>2, RecordFacts
<1>4. LastReflected  BY <1>1, <1>2, <1>3, EmptyFacts DEF LastReflected, Reflected, Ordered
<1>5. InThePast  BY <1>1, <1>2 DEF InThePast
<1>6. InactiveIsSilent  BY DEF Init, InactiveIsSilent
<1> QED  BY <1>4, <1>5, <1>6 DEF SilentInv

(* Every step leaves each refresh in the rows or among the updates that wait. *)
LEMMA ReflectNext ==
    ASSUME TypeOK, Busy, SilentInv, Next
    PROVE  LastReflected' /\ InThePast'
<1>0. /\ TypeOK' /\ Writing \in Seq(Item) /\ upd \in Seq(Item) /\ Writing \o upd \in Seq(Item)
      /\ clock \in Int /\ \A s \in Services : last[s] \in Int
  <2>1. TypeOK'  BY TypeThreads, TypeUpdate DEF Next
  <2>2. \A s \in Services : last[s] \in Int
    <3>1. \A x \in Times \cup {-1} : x \in Int  BY RecordFacts
    <3> QED  BY <3>1, Types
  <2> QED  BY <2>1, <2>2, WritingType, Types
<1>a. ASSUME UNCHANGED <<rows, last, bare, lost, upd>>, Writing' = Writing, clock' >= clock, clock' \in Int
      PROVE  LastReflected' /\ InThePast'
  BY <1>0, <1>a DEF SilentInv, LastReflected, InThePast
<1>1. CASE Tick
  <2>1. clock' = clock + 1 /\ UNCHANGED <<rows, last, bare, lost, upd, upc, batch>>
    BY <1>1 DEF Tick, mgr, main, hist
  <2>2. Writing' = Writing  BY <2>1 DEF Writing
  <2> QED  BY <1>0, <1>a, <2>1, <2>2
<1>2. CASE \E t \in Threads : AddNewService(t) \/ ListNew(t) \/ \E s \in Services : HeartBeat(t, s)
  <2>1. UNCHANGED <<clock, rows, last, bare, lost, upd, upc, batch>>
    BY <1>2 DEF AddNewService, ListNew, HeartBeat, mgr, main, hist
  <2>2. Writing' = Writing  BY <2>1 DEF Writing
  <2> QED  BY <1>0, <1>a, <2>1, <2>2
<1>3. CASE FlushNew \/ UpdateDone \/ LoadNothing \/ Load \/ Swap \/ SwapAll
  <2>1. UNCHANGED <<clock, rows, last, bare, lost, upd>>
    BY <1>3 DEF FlushNew, UpdateDone, LoadNothing, Load, Swap, SwapAll, mgr, hist
  <2>2. Writing' = Writing
    BY <1>3 DEF FlushNew, UpdateDone, LoadNothing, Load, Swap, SwapAll, Writing
  <2> QED  BY <1>0, <1>a, <2>1, <2>2
<1>4. ASSUME NEW t \in Threads, Refresh(t)  PROVE LastReflected' /\ InThePast'
  <2> DEFINE x == req[t]
             is == [i \in DOMAIN services[x] |-> [svc |-> x, time |-> clock]]
  <2>1. /\ x \in Services /\ services[x] \in Seq(Entry) /\ upd' = upd \o is
        /\ last' = [last EXCEPT ![x] = IF services[x] = <<>> THEN last[x] ELSE clock]
        /\ UNCHANGED <<rows, clock, upc, batch, bare, lost>>
    BY <1>4, Types DEF Refresh, Busy, main
  <2>2. is \in [DOMAIN services[x] -> Item]  BY <2>1, Types, RecordFacts
  <2>3. \A i \in DOMAIN is : is[i].svc = x /\ is[i].time = clock  OBVIOUS
  <2> HIDE DEF is
  <2>4. is \in Seq(Item) /\ (is = <<>> <=> services[x] = <<>>)  BY <2>1, <2>2, MapFacts
  <2>5. Writing' = Writing /\ Writing' \o upd' = (Writing \o upd) \o is
    <3>1. Writing' = Writing  BY <2>1 DEF Writing
    <3>2. Writing \o (upd \o is) = (Writing \o upd) \o is  BY <1>0, <2>4
    <3> QED  BY <2>1, <3>1, <3>2
  <2>6. /\ last'[x] = (IF services[x] = <<>> THEN last[x] ELSE clock)
        /\ \A s \in Services \ {x} : last'[s] = last[s]
    BY <2>1, Types
  <2> HIDE DEF x
  <2>7. InThePast'  BY <1>0, <2>1, <2>6 DEF SilentInv, InThePast
  <2>8. ASSUME NEW s \in Services \ lost
        PROVE  /\ s \notin bare => Reflected(rows[s], s, last'[s], (Writing \o upd) \o is)
               /\ Ordered(s, last'[s], (Writing \o upd) \o is)
    <3>1. CASE s = x /\ is # <<>>
      <4>1. last'[s] = clock  BY <2>4, <2>6, <3>1
      <4>2. /\ \A j \in DOMAIN is : ~(is[j].time < clock)
            /\ \A j \in DOMAIN is : is[j].svc = s /\ is[j].time >= clock
        BY <1>0, <2>3, <3>1
      <4>3. /\ Reflected(rows[s], s, clock, (Writing \o upd) \o is)
            /\ Ordered(s, clock, (Writing \o upd) \o is)
        BY <1>0, <2>4, <3>1, <4>2, JoinEnd
      <4> QED  BY <4>1, <4>3
    <3>2. CASE s # x \/ is = <<>>
      <4>1. last'[s] = last[s]  BY <2>4, <2>6, <3>2
      <4>2. \A j \in DOMAIN is : ~(is[j].time < last[s])
        BY <1>0, <2>3 DEF SilentInv, InThePast
      <4>3. /\ s \notin bare => Reflected(rows[s], s, last[s], Writing \o upd)
            /\ Ordered(s, last[s], Writing \o upd)
        BY DEF SilentInv, LastReflected
      <4>4. /\ s \notin bare => Reflected(rows[s], s, last[s], (Writing \o upd) \o is)
            /\ Ordered(s, last[s], (Writing \o upd) \o is)
        BY <1>0, <2>4, <4>2, <4>3, JoinEnd
      <4> QED  BY <4>1, <4>4
    <3> QED  BY <3>1, <3>2
  <2>9. LastReflected'  BY <2>1, <2>5, <2>8 DEF LastReflected
  <2> QED  BY <2>7, <2>9
<1>5. CASE InsertOne
  <2> DEFINE x == Head(batch).svc
  <2>1. /\ upc = "new" /\ batch \in Seq(Item) /\ batch # <<>> /\ bare' = bare \cup {x}
        /\ UNCHANGED <<clock, upc, upd, last, lost>>
    BY <1>5, Types DEF InsertOne, mgr
  <2>2. x \in Services
    <3>1. Head(batch) \in Item  BY <2>1, TailFacts
    <3> QED  BY <3>1, RecordFacts
  <2>3. \A s \in Services \ {x} : rows'[s] = rows[s]  BY <1>5, <2>2, Types DEF InsertOne
  <2> HIDE DEF x
  <2>4. Writing' = Writing  BY <2>1 DEF Writing
  <2>5. LastReflected'  BY <2>1, <2>3, <2>4 DEF SilentInv, LastReflected
  <2> QED  BY <2>1, <2>5 DEF SilentInv, InThePast
<1>6. CASE InsertFails
  <2>1. lost \subseteq lost' /\ upc = "new" /\ UNCHANGED <<clock, rows, upc, upd, last, bare>>
    BY <1>6 DEF InsertFails, mgr
  <2>2. Writing' = Writing  BY <2>1 DEF Writing
  <2> QED  BY <2>1, <2>2 DEF SilentInv, LastReflected, InThePast
<1>7. CASE NewDone
  <2>1. upc = "new" /\ UNCHANGED <<clock, rows, last, bare, lost>>  BY <1>7 DEF NewDone, hist
  <2>2. Writing = <<>> /\ Writing \o upd = upd  BY <1>0, <2>1, AfterEmpty DEF Writing
  <2>3. CASE upc' = "idle" /\ UNCHANGED <<batch, upd>>
    <3>1. Writing' = Writing  BY <2>1, <2>3 DEF Writing
    <3> QED  BY <1>0, <1>a, <2>1, <2>3, <3>1
  <2>4. CASE upc' = "update" /\ batch' = upd /\ upd' = <<>>
    <3>1. Writing' = upd  BY <2>4 DEF Writing
    <3>2. Writing' \o upd' = Writing \o upd  BY <1>0, <2>2, <2>4, <3>1, EmptyAfter
    <3> QED  BY <2>1, <3>2 DEF SilentInv, LastReflected, InThePast
  <2> QED  BY <1>7, <2>3, <2>4 DEF NewDone
<1>8. CASE UpdateOne
  <2> DEFINE b == Head(batch)
  <2>1. /\ upc = "update" /\ batch # <<>> /\ batch' = Tail(batch) /\ UNCHANGED <<clock, upc, upd, last, lost>>
        /\ bare' = {s \in bare : addr[s] # addr[b.svc]}
        /\ rows' = [s \in Services |-> [i \in DOMAIN rows[s] |->
                      IF addr[s] = addr[b.svc] THEN b.time ELSE rows[s][i]]]
    BY <1>8 DEF UpdateOne, mgr
  <2>2. Writing = batch /\ Writing' = Tail(Writing)  BY <2>1 DEF Writing
  <2>3. /\ Writing' \o upd' = Tail(Writing \o upd) /\ Writing \o upd # <<>>
        /\ Head(Writing \o upd) = b
    BY <1>0, <2>1, <2>2, TailConcat
  <2>4. \A s \in Services :
          /\ DOMAIN rows'[s] = DOMAIN rows[s]
          /\ addr[s] = addr[b.svc] => \A i \in DOMAIN rows[s] : rows'[s][i] = b.time
          /\ addr[s] # addr[b.svc] => \A i \in DOMAIN rows[s] : rows'[s][i] = rows[s][i]
    BY <2>1
  <2> HIDE DEF b
  <2>5. ASSUME NEW s \in Services \ lost
        PROVE  /\ s \notin bare' => Reflected(rows'[s], s, last[s], Tail(Writing \o upd))
               /\ Ordered(s, last[s], Tail(Writing \o upd))
    <3> DEFINE q == Writing \o upd
               r == rows[s]
               m == rows'[s]
               v == last[s]
    <3>1. v \in Int /\ q \in Seq(Item) /\ q # <<>> /\ Head(q) = b /\ DOMAIN m = DOMAIN r
      BY <1>0, <2>3, <2>4
    <3>2. Ordered(s, v, q) /\ (s \notin bare => Reflected(r, s, v, q))
      BY DEF SilentInv, LastReflected
    <3>3. ASSUME s \notin bare'
          PROVE  \/ \A i \in DOMAIN r : m[i] = b.time
                 \/ /\ Reflected(r, s, v, q) /\ b.svc # s
                    /\ \A i \in DOMAIN r : m[i] = r[i]
      <4>1. CASE addr[s] = addr[b.svc]  BY <2>4, <4>1
      <4>2. CASE addr[s] # addr[b.svc]  BY <2>1, <2>4, <3>2, <3>3, <4>2
      <4> QED  BY <4>1, <4>2
    <3> HIDE DEF q, r, m, v
    <3>4. Ordered(s, v, Tail(q))  BY <3>1, <3>2, OrderedTail
    <3>5. s \notin bare' => Reflected(m, s, v, Tail(q))  BY <3>1, <3>2, <3>3, WriteFirst
    <3> QED  BY <3>4, <3>5 DEF q, r, m, v
  <2>6. LastReflected'  BY <2>1, <2>3, <2>5 DEF LastReflected
  <2> QED  BY <2>1, <2>6 DEF SilentInv, InThePast
<1>9. CASE UpdateFails
  <2>1. /\ upc = "update" /\ batch' = <<>> /\ UNCHANGED <<clock, rows, upc, upd, last, bare>>
        /\ lost' = lost \cup {batch[i].svc : i \in DOMAIN batch}
    BY <1>9 DEF UpdateFails, mgr
  <2>2. Writing = batch /\ Writing' = <<>> /\ Writing' \o upd' = upd  BY <1>0, <2>1, AfterEmpty DEF Writing
  <2>3. ASSUME NEW s \in Services \ lost'
        PROVE  s \in Services \ lost /\ \A i \in DOMAIN Writing : Writing[i].svc # s
    BY <2>1, <2>2
  <2>4. ASSUME NEW s \in Services \ lost'
        PROVE  (s \notin bare => Reflected(rows[s], s, last[s], upd)) /\ Ordered(s, last[s], upd)
    <3>1. /\ s \notin bare => Reflected(rows[s], s, last[s], Writing \o upd)
          /\ Ordered(s, last[s], Writing \o upd)
      BY <2>3, <2>4 DEF SilentInv, LastReflected
    <3> QED  BY <1>0, <2>3, <2>4, <3>1, DropFront
  <2>5. LastReflected'  BY <2>1, <2>2, <2>4 DEF LastReflected
  <2> QED  BY <2>1, <2>5 DEF SilentInv, InThePast
<1> QED  BY <1>1, <1>2, <1>3, <1>4, <1>5, <1>6, <1>7, <1>8, <1>9 DEF Next, Update, Beat

(* What is inactive after a load was silent, or its refresh waits: the rows   *)
(* of a service that is neither lost nor bare are as late as its last refresh *)
(* unless that is in m_updateServices, and no step before SwapAll takes it    *)
(* from there.                                                                *)
LEMMA InactiveNext ==
    ASSUME TypeOK, Busy, SilentInv, Next
    PROVE  InactiveIsSilent'
<1>0. clock \in Int /\ Active \in Int /\ upd \in Seq(Item) /\ \A s \in Services : last[s] \in Int
  <2>1. \A x \in Times \cup {-1} : x \in Int  BY RecordFacts
  <2> QED  BY <2>1, Types
<1>1. CASE Tick
  <2>1. clock' = clock + 1 /\ UNCHANGED <<services, loaded, upc, upd, last, bare, lost>>
    BY <1>1 DEF Tick, mgr, main, hist
  <2> QED  BY <1>0, <2>1 DEF SilentInv, InactiveIsSilent, SilentIn, Waits
<1>2. CASE \E t \in Threads : AddNewService(t) \/ \E s \in Services : HeartBeat(t, s)
  <2>1. UNCHANGED <<clock, services, loaded, upc, upd, last, bare, lost>>
    BY <1>2 DEF AddNewService, HeartBeat, mgr, main, hist
  <2> QED  BY <2>1 DEF SilentInv, InactiveIsSilent, SilentIn, Waits
<1>3. ASSUME NEW t \in Threads, ListNew(t)  PROVE InactiveIsSilent'
  <2>1. UNCHANGED <<clock, loaded, upc, upd, last, bare, lost>> /\ req[t] \in Services
    BY <1>3 DEF ListNew, main, Busy
  <2>2. ASSUME NEW s \in Services, NEW i \in DOMAIN services'[s], ~services'[s][i].active
        PROVE  i \in DOMAIN services[s] /\ ~services[s][i].active
    <3>1. CASE s # req[t]
      <4>1. services'[s] = services[s]  BY <1>3, <2>1, <3>1, Types DEF ListNew
      <4> QED  BY <2>2, <4>1
    <3>2. CASE s = req[t]
      <4> DEFINE e == [time |-> clock, active |-> TRUE]
      <4>1. e \in Entry /\ services[s] \in Seq(Entry) /\ e.active = TRUE  BY Types, RecordFacts
      <4>2. services'[s] = Append(services[s], e)  BY <1>3, <2>1, <3>2, Types DEF ListNew
      <4> HIDE DEF e
      <4>3. /\ Len(services[s]) \in Nat /\ DOMAIN services[s] = 1 .. Len(services[s])
            /\ DOMAIN services'[s] = 1 .. Len(services[s]) + 1
            /\ \A k \in DOMAIN services[s] : services'[s][k] = services[s][k]
            /\ services'[s][Len(services[s]) + 1] = e
        BY <4>1, <4>2, AppendFacts
      <4>4. i \in DOMAIN services[s] \/ i = Len(services[s]) + 1  BY <2>2, <4>3
      <4> QED  BY <2>2, <4>1, <4>3, <4>4
    <3> QED  BY <3>1, <3>2
  <2>3. \A s \in Services : Waits(s)' = Waits(s)  BY <2>1 DEF Waits
  <2> QED  BY <2>1, <2>2, <2>3 DEF SilentInv, InactiveIsSilent, SilentIn
<1>4. ASSUME NEW t \in Threads, Refresh(t)  PROVE InactiveIsSilent'
  <2>0. PICK x \in Services : x = req[t]  BY <1>4 DEF Refresh, Busy
  <2> DEFINE is == [j \in DOMAIN services[x] |-> [svc |-> x, time |-> clock]]
  <2>1. /\ services[x] \in Seq(Entry) /\ upd' = upd \o is
        /\ last' = [last EXCEPT ![x] = IF services[x] = <<>> THEN last[x] ELSE clock]
        /\ services' = [services EXCEPT ![x] =
                           [j \in DOMAIN services[x] |-> [time |-> clock, active |-> TRUE]]]
        /\ UNCHANGED <<clock, loaded, upc, bare, lost>>
    BY <1>4, <2>0, Types DEF Refresh, main
  <2>2. is \in [DOMAIN services[x] -> Item]  BY <2>1, Types, RecordFacts
  <2>3. \A j \in DOMAIN is : is[j].svc = x /\ is[j].time = clock  OBVIOUS
  <2> HIDE DEF is
  <2>4. is \in Seq(Item) /\ (is = <<>> <=> services[x] = <<>>)  BY <2>1, <2>2, MapFacts
  <2>5. /\ \A j \in DOMAIN upd : j \in DOMAIN upd' /\ upd'[j] = upd[j]
        /\ \A j \in DOMAIN is : Len(upd) + j \in DOMAIN upd' /\ upd'[Len(upd) + j] = is[j]
    BY <1>0, <2>1, <2>4, ConcatElements
  <2>6. /\ services[x] # <<>> => last'[x] = clock
        /\ services[x] = <<>> => last'[x] = last[x]
        /\ \A s \in Services \ {x} : last'[s] = last[s] /\ services'[s] = services[s]
        /\ services'[x] = [j \in DOMAIN services[x] |-> [time |-> clock, active |-> TRUE]]
    BY <2>1, Types
  <2>7. \A i \in DOMAIN services'[x] : services'[x][i].active  BY <2>6
  <2>8. ASSUME services[x] # <<>>  PROVE Waits(x)'
    <3>1. PICK j \in DOMAIN is : TRUE  BY <2>4, <2>8, ElementFacts
    <3>2. upd'[Len(upd) + j].svc = x /\ upd'[Len(upd) + j].time = clock  BY <2>3, <2>5, <3>1
    <3>3. last'[x] = clock /\ clock >= clock  BY <1>0, <2>6, <2>8
    <3> QED  BY <2>5, <3>1, <3>2, <3>3 DEF Waits
  <2>9. ASSUME NEW s \in Services, s # x \/ services[x] = <<>>, Waits(s)  PROVE Waits(s)'
    <3>1. last'[s] = last[s]  BY <2>6, <2>9
    <3> QED  BY <2>5, <2>9, <3>1 DEF Waits
  <2>10. ASSUME NEW s \in Services
         PROVE  \/ Waits(s)'
                \/ last'[s] = last[s] /\ (Waits(s) => Waits(s)')
    BY <2>6, <2>8, <2>9
  <2>11. \A s \in Services : \A q : SilentIn(q, s) => SilentIn(q, s)'
    BY <2>1, <2>10 DEF SilentIn
  <2>12. \A s \in Services : SilentIn(services[s], s) => SilentIn(services[s], s)'
    BY <2>6, <2>7, <2>11 DEF SilentIn
  <2>13. \A s \in Services : SilentIn(loaded[s], s) => SilentIn(loaded[s], s)'
    BY <2>1, <2>11 DEF SilentIn
  <2> QED  BY <2>1, <2>12, <2>13 DEF SilentInv, InactiveIsSilent, SilentIn
<1>5. CASE FlushNew \/ InsertOne \/ InsertFails \/ NewDone \/ UpdateOne \/ UpdateFails \/ UpdateDone \/ LoadNothing \/ SwapAll
  <2>1. upc' \notin {"swap", "swapAll"}
    BY <1>5 DEF FlushNew, InsertOne, InsertFails, NewDone, UpdateOne, UpdateFails, UpdateDone, LoadNothing, SwapAll
  <2> QED  BY <2>1 DEF InactiveIsSilent
<1>6. CASE Load
  <2>1. upc = "load" /\ upc' = "swap" /\ UNCHANGED <<clock, upd, last, bare, lost>>  BY <1>6 DEF Load, mgr, hist
  <2>2. Writing \o upd = upd
    <3>1. Writing = <<>>  BY <2>1 DEF Writing
    <3> QED  BY <1>0, <3>1, AfterEmpty
  <2>3. ASSUME NEW s \in Services \ (lost \cup bare), NEW i \in DOMAIN loaded'[s], ~loaded'[s][i].active
        PROVE  clock > last[s] + Active \/ Waits(s)
    <3>1. i \in DOMAIN rows[s] /\ loaded'[s][i].active = ~(clock > rows[s][i] + Active)
      BY <1>6, <2>3 DEF Load
    <3>2. rows[s][i] >= last[s] \/ Waits(s)
      BY <2>2, <3>1 DEF SilentInv, LastReflected, Reflected, Waits
    <3>3. clock > rows[s][i] + Active  BY <2>3, <3>1
    <3>4. rows[s][i] \in Int
      <4>1. rows[s] \in Seq(Times \cup {NoTime})  BY Types
      <4>2. rows[s][i] \in Times \cup {NoTime}  BY <3>1, <4>1, ElementFacts
      <4> QED  BY <4>2, RecordFacts
    <3> QED  BY <1>0, <3>2, <3>3, <3>4
  <2> QED  BY <2>1, <2>3 DEF InactiveIsSilent, SilentIn, Waits
<1>7. CASE Swap
  <2>1. /\ upc = "swap" /\ upc' = "swapAll" /\ services' = loaded
        /\ UNCHANGED <<clock, loaded, upd, last, bare, lost>>
    BY <1>7 DEF Swap, hist
  <2> QED  BY <2>1 DEF SilentInv, InactiveIsSilent, SilentIn, Waits
<1> QED  BY <1>1, <1>2, <1>3, <1>4, <1>5, <1>6, <1>7 DEF Next, Update, Beat

-----------------------------------------------------------------------------
(* The invariant holds in every reachable state, whatever heartbeats, steps   *)
(* of update() and failures of the database there are.                        *)
THEOREM Invariance == Spec => []IInv
<1>1. Init => IInv
  <2> SUFFICES ASSUME Init PROVE IInv  OBVIOUS
  <2>1. WayInv  BY DEF Init, WayInv
  <2> QED  BY <2>1, TypeInit, KnownInit, SilentInit DEF IInv
<1>2. IInv /\ [Next]_vars => IInv'
  <2> SUFFICES ASSUME IInv, [Next]_vars PROVE IInv'  OBVIOUS
  <2>1. CASE Next
    <3>1. TypeOK' /\ Busy'  BY <2>1, TypeThreads, TypeUpdate DEF IInv, Next
    <3>2. KnownInv' /\ WayInv'  BY <2>1, KnownNext, WayNext DEF IInv
    <3>3. SilentInv'  BY <2>1, ReflectNext, InactiveNext DEF IInv, SilentInv
    <3> QED  BY <3>1, <3>2, <3>3 DEF IInv
  <2>2. CASE UNCHANGED vars
    <3>1. UNCHANGED <<services, all, new, upd, rows, upc, batch, loaded, pc, req, addr, clock, beats,
                      timed, reg, last, bare, lost>>
      BY <2>2 DEF vars, mgr, main, hist
    <3>2. TypeOK' /\ Busy'  BY <3>1 DEF IInv, TypeOK, Busy
    <3>3. KnownInv'
      BY <3>1 DEF IInv, KnownInv, AllInTable, AllLoaded, LoadedInTable, LoadedIsListed, KnownStays,
                  NamedIsListed, Alone
    <3>4. WayInv'  BY <3>1 DEF IInv, WayInv, OnItsWay
    <3>5. Writing' = Writing  BY <3>1 DEF Writing
    <3>6. SilentInv'
      BY <3>1, <3>5 DEF IInv, SilentInv, LastReflected, InThePast, InactiveIsSilent, SilentIn, Waits
    <3> QED  BY <3>2, <3>3, <3>4, <3>6 DEF IInv
  <2> QED  BY <2>1, <2>2
<1> QED  BY <1>1, <1>2, PTL DEF Spec

(* The containers and the table fit together between any two steps of a load, *)
(* a flush and heartbeats, for any number of services and threads, and when   *)
(* statements fail.                                                           *)
THEOREM ContainersAgree == Spec => []TablesAgree
<1>1. IInv => TablesAgree
  <2> SUFFICES ASSUME IInv PROVE TablesAgree  OBVIOUS
  <2>1. KnownIsListed  BY DEF IInv, KnownInv, NamedIsListed, KnownStays, KnownIsListed
  <2>2. NotForgotten  BY DEF IInv, WayInv, OnItsWay, NotForgotten
  <2> QED  BY <2>1, <2>2 DEF IInv, TablesAgree
<1> QED  BY <1>1, Invariance, PTL

(* When a load leaves out a service, the last heartbeat that refreshed it is  *)
(* older than activeInterval or waits in m_updateServices for the next flush, *)
(* although two services may have one address and the rows are updated by     *)
(* address; unless a statement for the service has failed, or it has a row    *)
(* that no heartbeat was written to since it was inserted.                    *)
THEOREM LeftOutWasSilent == Spec => []LeftOutIsSilent
<1>1. IInv => LeftOutIsSilent
  <2> SUFFICES ASSUME IInv, upc = "swapAll", NEW s \in Services \ (lost \cup bare), services[s] # <<>>, Query(s) = {}
               PROVE  clock > last[s] + Active \/ Waits(s)
    BY DEF LeftOutIsSilent, Waits
  <2>1. services[s] \in Seq(Entry)  BY Types DEF IInv
  <2>a. DOMAIN services[s] # {}
    <3> DEFINE q == services[s]
    <3>1. q \in Seq(Entry) /\ q # <<>>  BY <2>1
    <3> HIDE DEF q
    <3>2. DOMAIN q # {}  BY <3>1, ElementFacts
    <3> QED  BY <3>2 DEF q
  <2>2. PICK i \in DOMAIN services[s] : TRUE  BY <2>a
  <2>3. ~services[s][i].active  BY <2>2 DEF Query
  <2> QED  BY <2>2, <2>3 DEF IInv, SilentInv, InactiveIsSilent, SilentIn
<1> QED  BY <1>1, Invariance, PTL
=============================================================================
