--------------------------- MODULE SlotPool_proofs ---------------------------
(* Theorems about the socket pool, for any number of threads, any pool size   *)
(* and any width of m_allocId.                                                *)
EXTENDS SlotPool, TLAPS

(* A thread inside the loop of getNewSocket() has tries left.                 *)
TriesLeft ==
    \A t \in Threads :
        /\ pc[t] \in InCall => tries[t] < MaxSocket
        /\ pc[t] \in {"out", "own", "push"} => tries[t] = 0

(* A slot that was never closed too early has one Connect command at most, in *)
(* the queue or about to be queued, and is in use until it is carried out.    *)
OneConnect ==
    /\ \A s \in Slots \ early : connects[s] > 0 =>
          /\ connects[s] = 1 /\ status[s] = "Used"
          /\ \A t \in Threads : pc[t] = "push" => hash(id[t]) # s
    /\ \A t \in Threads : (pc[t] = "push" /\ hash(id[t]) \notin early) =>
          /\ status[hash(id[t])] = "Used"
          /\ \A u \in Threads \ {t} : pc[u] = "push" => hash(id[u]) # hash(id[t])

(* The inductive invariant.  Exclusive alone is not inductive: connectSocket()*)
(* may store any status into a slot, so it must be known that the Connect     *)
(* commands on the way are for slots in use.                                  *)
IInv == TypeOK /\ TriesLeft /\ HashInRange /\ Exclusive /\ OneConnect

(* How many numbers of m_allocId a thread has taken and not given back (--i). *)
Fetched(t) == IF pc[t] \in {"check", "cas"} THEN tries[t] + 1 ELSE tries[t]

(* The threads that search, in a call that m_allocId has not overflowed in.   *)
Searching(t) == pc[t] \in InCall \cup {"null"} /\ ~wrapped[t]

(* A thread is about to look at slot s, or to take it.                        *)
LookedAt(s) == \E u \in Threads : pc[u] \in {"check", "cas"} /\ hash(id[u]) = s

(* What is said to be idle since the call began is idle.                      *)
IdleNow == \A t \in Threads : \A s \in idleSince[t] : status[s] = "Idle"

(* A thread gives up after m_maxSocket numbers.                               *)
GivesUpLate == \A t \in Threads : pc[t] = "null" => tries[t] = MaxSocket

(* While m_allocId is negative nobody has taken a number in a call that began *)
(* after the overflow.                                                        *)
NegativeIsNew ==
    allocId < 0 => \A t \in Threads : Searching(t) => pc[t] = "fetch" /\ tries[t] = 0

(* As many numbers as a thread has taken were given out in its call, the last *)
(* ones, and a slot that one of them stands for is no longer idle or is being *)
(* looked at: a thread that has looked at it in vain saw it taken.            *)
WindowSeen ==
    \A t \in Threads : Searching(t) =>
        \A v \in allocId - Fetched(t) + 1 .. allocId :
            hash(v) \in idleSince[t] => LookedAt(hash(v))

(* A number is folded only after an overflow.                                 *)
MaskWraps == \A t \in Threads : pc[t] = "mask" => wrapped[t]

SearchInv == IdleNow /\ MaskWraps /\ GivesUpLate /\ NegativeIsNew /\ WindowSeen

-----------------------------------------------------------------------------
(* Every number hashes to a slot: id % m_maxSocket is an index of m_slot.     *)
LEMMA HashIsSlot == ASSUME NEW n \in Int PROVE hash(n) \in Slots
  BY MaxSocketAssumption DEF hash, Slots

(* The increment keeps m_allocId in its width.                                *)
LEMMA IncType ==
  ASSUME NEW n \in (-MaxId - 1) .. MaxId
  PROVE  Inc(n) \in (-MaxId - 1) .. MaxId
  BY MaxIdAssumption DEF Inc

(* The mask makes any value of m_allocId non-negative and keeps its width.    *)
LEMMA FoldType ==
  ASSUME NEW n \in (-MaxId - 1) .. MaxId
  PROVE  Fold(n) \in (-MaxId - 1) .. MaxId /\ Fold(n) >= 0
  BY MaxIdAssumption DEF Fold

(* The state after the constructor satisfies the invariant.                   *)
LEMMA InitIInv == Init => IInv
<1> SUFFICES ASSUME Init PROVE IInv
  OBVIOUS
<1>1. TypeOK
  BY MaxSocketAssumption, MaxIdAssumption, MaxConnectsAssumption
  DEF Init, TypeOK, Slots, Status, InCall
<1>2. TriesLeft
  BY MaxSocketAssumption DEF Init, TriesLeft, InCall
<1>3. HashInRange /\ Exclusive /\ OneConnect
  BY DEF Init, HashInRange, Exclusive, OneConnect
<1> QED BY <1>1, <1>2, <1>3 DEF IInv

-----------------------------------------------------------------------------
(* A step that touches no slot, and gives none to a thread, keeps what is     *)
(* said of the slots.                                                         *)
LEMMA HoldersKept ==
    ASSUME Exclusive, OneConnect, UNCHANGED <<status, connects, early>>,
           \A u \in Threads : pc'[u] \in {"own", "push"} => pc'[u] = pc[u] /\ id'[u] = id[u]
    PROVE  Exclusive' /\ OneConnect'
<1>1. Exclusive'
  BY DEF Exclusive, hash
<1>2. OneConnect'
  BY DEF OneConnect, hash
<1> QED BY <1>1, <1>2

(* Entering getNewSocket() touches no slot.                                   *)
LEMMA EnterIInv == ASSUME IInv, NEW t \in Threads, Enter(t) PROVE IInv'
<1>1. TypeOK'
  BY DEF IInv, TypeOK, Enter, InCall
<1>2. TriesLeft'
  BY MaxSocketAssumption DEF IInv, TypeOK, TriesLeft, Enter, InCall
<1>3. HashInRange'
  BY DEF IInv, TypeOK, HashInRange, Enter
<1>4. Exclusive' /\ OneConnect'
  <2>1. \A u \in Threads : pc'[u] \in {"own", "push"} => pc'[u] = pc[u] /\ id'[u] = id[u]
    BY DEF IInv, TypeOK, Enter
  <2> QED BY <2>1, HoldersKept DEF IInv, Enter
<1> QED BY <1>1, <1>2, <1>3, <1>4 DEF IInv

(* Taking a number: a negative one is folded before it is hashed.             *)
LEMMA FetchAddIInv == ASSUME IInv, NEW t \in Threads, FetchAdd(t) PROVE IInv'
<1>0. allocId' \in (-MaxId - 1) .. MaxId
  BY IncType DEF IInv, TypeOK, FetchAdd
<1>1. TypeOK'
  BY <1>0 DEF IInv, TypeOK, FetchAdd, InCall
<1>2. TriesLeft'
  BY DEF IInv, TypeOK, TriesLeft, FetchAdd, InCall
<1>3. HashInRange'
  BY <1>0, MaxIdAssumption DEF IInv, TypeOK, HashInRange, FetchAdd
<1>4. Exclusive' /\ OneConnect'
  <2>1. \A u \in Threads : pc'[u] \in {"own", "push"} => pc'[u] = pc[u] /\ id'[u] = id[u]
    BY DEF IInv, TypeOK, FetchAdd
  <2> QED BY <2>1, HoldersKept DEF IInv, FetchAdd
<1> QED BY <1>1, <1>2, <1>3, <1>4 DEF IInv

(* Folding gives a number that can be hashed, whoever folded before.          *)
LEMMA FoldIdIInv == ASSUME IInv, NEW t \in Threads, FoldId(t) PROVE IInv'
<1>0. allocId' \in (-MaxId - 1) .. MaxId /\ allocId' >= 0
  BY FoldType DEF IInv, TypeOK, FoldId
<1>1. TypeOK'
  BY <1>0 DEF IInv, TypeOK, FoldId, InCall, history
<1>2. TriesLeft'
  BY DEF IInv, TypeOK, TriesLeft, FoldId, InCall
<1>3. HashInRange'
  BY <1>0 DEF IInv, TypeOK, HashInRange, FoldId
<1>4. Exclusive' /\ OneConnect'
  <2>1. \A u \in Threads : pc'[u] \in {"own", "push"} => pc'[u] = pc[u] /\ id'[u] = id[u]
    BY DEF IInv, TypeOK, FoldId
  <2> QED BY <2>1, HoldersKept DEF IInv, FoldId
<1> QED BY <1>1, <1>2, <1>3, <1>4 DEF IInv

(* Looking at a slot: the last try ends the loop.                             *)
LEMMA CheckIInv == ASSUME IInv, NEW t \in Threads, Check(t) PROVE IInv'
<1>0. tries[t] \in 0 .. MaxSocket - 1
  BY MaxSocketAssumption DEF IInv, TypeOK, TriesLeft, Check, InCall
<1>1. TypeOK'
  BY <1>0, MaxSocketAssumption, MaxIdAssumption DEF IInv, TypeOK, Check, InCall, history
<1>2. TriesLeft'
  BY <1>0, MaxSocketAssumption DEF IInv, TypeOK, TriesLeft, Check, InCall
<1>3. HashInRange'
  BY DEF IInv, TypeOK, HashInRange, Check
<1>4. Exclusive' /\ OneConnect'
  <2>1. \A u \in Threads : pc'[u] \in {"own", "push"} => pc'[u] = pc[u] /\ id'[u] = id[u]
    BY DEF IInv, TypeOK, Check
  <2> QED BY <2>1, HoldersKept DEF IInv, Check
<1> QED BY <1>1, <1>2, <1>3, <1>4 DEF IInv

(* The compare-and-swap: it succeeds on an idle slot only.  The slots owned   *)
(* so far are reserved and those with a command in use, so it is none of them.*)
LEMMA CasIInv == ASSUME IInv, NEW t \in Threads, Cas(t) PROVE IInv'
<1> DEFINE h == hash(id[t])
<1>0. h \in Slots /\ id[t] \in Int /\ \A u \in Threads : hash(id[u]) \in Slots
  BY HashIsSlot, MaxIdAssumption DEF IInv, TypeOK
<1>1. TypeOK'
  <2>1. /\ MaxSocket \in Nat /\ MaxId \in Nat /\ UNCHANGED <<allocId, connects, early>>
        /\ status' \in [Slots -> Status] /\ id' \in [Threads -> (-MaxId - 1) .. MaxId]
    BY <1>0, MaxSocketAssumption, MaxIdAssumption DEF IInv, TypeOK, Cas, Taken, Status
  <2>2. /\ pc' \in [Threads -> InCall \cup {"out", "null", "own", "push"}]
        /\ tries' \in [Threads -> 0 .. MaxSocket]
    BY <2>1 DEF IInv, TypeOK, Cas, Taken, InCall
  <2>3. idleSince' \in [Threads -> SUBSET Slots]
    BY DEF IInv, TypeOK, Cas, Taken, history
  <2>4. wrapped' \in [Threads -> BOOLEAN]
    BY DEF IInv, TypeOK, Cas, Taken, history
  <2> QED  BY <2>1, <2>2, <2>3, <2>4 DEF IInv, TypeOK
<1>2. TriesLeft'
  BY DEF IInv, TypeOK, TriesLeft, Cas, Taken, InCall
<1>3. HashInRange'
  BY DEF IInv, TypeOK, HashInRange, Cas, Taken
<1>4. Exclusive' /\ OneConnect'
  <2>1. CASE status[h] = "Idle"
    <3>1. /\ status' = [status EXCEPT ![h] = "Reserse"] /\ pc' = [pc EXCEPT ![t] = "own"]
          /\ id' = id /\ early' = early /\ connects' = connects
      BY <2>1 DEF Cas, Taken
    <3>4. status'[h] = "Reserse" /\ \A s \in Slots \ {h} : status'[s] = status[s]
      BY <3>1, <1>0 DEF IInv, TypeOK
    <3>5. pc'[t] = "own" /\ \A u \in Threads \ {t} : pc'[u] = pc[u]
      BY <3>1 DEF IInv, TypeOK
    <3>2. h \notin early => \A u \in Threads \ {t} : pc[u] = "own" => hash(id[u]) # h
      BY <2>1 DEF IInv, Exclusive
    <3>3. h \notin early => connects[h] = 0 /\ \A u \in Threads : pc[u] = "push" => hash(id[u]) # h
      BY <1>0, <2>1 DEF IInv, OneConnect, TypeOK
    <3>6. \A n : hash(n)' = hash(n)  BY DEF hash
    <3> HIDE DEF h
    <3>7. ASSUME NEW u \in Threads, pc'[u] = "own", hash(id[u]) \notin early
          PROVE  /\ status'[hash(id[u])] = "Reserse"
                 /\ \A v \in Threads \ {u} : pc'[v] = "own" => hash(id[v]) # hash(id[u])
      <4>1. CASE u = t  BY <3>2, <3>4, <3>5, <3>7, <4>1 DEF h
      <4>2. CASE u # t
        <5>1. /\ pc[u] = "own" /\ status[hash(id[u])] = "Reserse" /\ hash(id[u]) # h
              /\ \A v \in Threads \ {u} : pc[v] = "own" => hash(id[v]) # hash(id[u])
          BY <2>1, <3>5, <3>7, <4>2 DEF IInv, Exclusive
        <5> QED  BY <1>0, <3>4, <3>5, <5>1 DEF h
      <4> QED  BY <4>1, <4>2
    <3>8. Exclusive'  BY <3>1, <3>6, <3>7 DEF Exclusive
    <3>9. OneConnect'
      <4>1. \A u \in Threads : pc'[u] = "push" => pc[u] = "push"  BY <3>5
      <4>2. ASSUME NEW s \in Slots \ early, connects[s] > 0
            PROVE  /\ connects[s] = 1 /\ status'[s] = "Used"
                   /\ \A u \in Threads : pc'[u] = "push" => hash(id[u]) # s
        BY <3>3, <3>4, <4>1, <4>2 DEF IInv, OneConnect
      <4>3. ASSUME NEW u \in Threads, pc'[u] = "push", hash(id[u]) \notin early
            PROVE  /\ status'[hash(id[u])] = "Used"
                   /\ \A v \in Threads \ {u} : pc'[v] = "push" => hash(id[v]) # hash(id[u])
        <5>1. hash(id[u]) # h /\ pc[u] = "push"  BY <3>3, <4>1, <4>3
        <5> QED  BY <1>0, <3>4, <4>1, <4>3, <5>1 DEF IInv, OneConnect
      <4> QED  BY <3>1, <3>6, <4>2, <4>3 DEF OneConnect
    <3> QED BY <3>8, <3>9
  <2>2. CASE status[h] # "Idle"
    <3>1. /\ UNCHANGED <<status, connects, early>>
          /\ \A u \in Threads : pc'[u] \in {"own", "push"} => pc'[u] = pc[u] /\ id'[u] = id[u]
      BY <2>2 DEF IInv, TypeOK, Cas
    <3> QED BY <3>1, HoldersKept DEF IInv
  <2> QED BY <2>1, <2>2
<1> QED BY <1>1, <1>2, <1>3, <1>4 DEF IInv

(* What Publish and PublishConnect have in common: the slot is in use from    *)
(* now on and its thread no longer owns it; the others own other slots.       *)
LEMMA PublishKeeps ==
    ASSUME IInv, NEW t \in Threads, pc[t] = "own",
           status' = [status EXCEPT ![hash(id[t])] = "Used"], UNCHANGED <<connects, early>>,
           NEW next \in {"out", "push"}, pc' = [pc EXCEPT ![t] = next],
           next = "push" => id' = id, \A u \in Threads \ {t} : id'[u] = id[u]
    PROVE  Exclusive' /\ OneConnect'
<1> DEFINE h == hash(id[t])
<1>0. h \in Slots /\ \A u \in Threads : hash(id[u]) \in Slots
  BY HashIsSlot, MaxIdAssumption DEF IInv, TypeOK
<1>1. pc'[t] = next /\ \A u \in Threads \ {t} : pc'[u] = pc[u] /\ id'[u] = id[u]
  BY DEF IInv, TypeOK
<1>2. status'[h] = "Used" /\ \A s \in Slots \ {h} : status'[s] = status[s]
  BY <1>0 DEF IInv, TypeOK
<1>3. h \notin early => /\ connects[h] = 0
                        /\ \A u \in Threads : pc[u] = "push" => hash(id[u]) # h
  BY <1>0 DEF IInv, Exclusive, OneConnect, TypeOK
<1>4. \A n : hash(n)' = hash(n)  BY DEF hash
<1>5. Exclusive'
  <2>1. ASSUME NEW u \in Threads, pc'[u] = "own", hash(id'[u]) \notin early
        PROVE  /\ status'[hash(id'[u])] = "Reserse"
               /\ \A v \in Threads \ {u} : pc'[v] = "own" => hash(id'[v]) # hash(id'[u])
    <3>1. u # t /\ pc[u] = "own" /\ id'[u] = id[u]  BY <1>1, <2>1
    <3>2. /\ status[hash(id[u])] = "Reserse" /\ hash(id[u]) # h
          /\ \A v \in Threads \ {u} : pc[v] = "own" => hash(id[v]) # hash(id[u])
      BY <2>1, <3>1 DEF IInv, Exclusive
    <3> QED  BY <1>0, <1>1, <1>2, <3>1, <3>2
  <2> QED  BY <1>4, <2>1 DEF Exclusive
<1>6. OneConnect'
  <2> HIDE DEF h
  <2>1. \A u \in Threads \ {t} : pc'[u] = "push" => pc[u] = "push" /\ id'[u] = id[u]  BY <1>1
  <2>2. pc'[t] = "push" => hash(id'[t]) = h  BY <1>1 DEF h
  <2>3. ASSUME NEW s \in Slots \ early, connects[s] > 0
        PROVE  /\ connects[s] = 1 /\ status'[s] = "Used"
               /\ \A u \in Threads : pc'[u] = "push" => hash(id'[u]) # s
    <3>1. s # h  BY <1>3, <2>3
    <3>2. /\ connects[s] = 1 /\ status[s] = "Used"
          /\ \A u \in Threads : pc[u] = "push" => hash(id[u]) # s
      BY <2>3 DEF IInv, OneConnect
    <3> QED  BY <1>2, <2>1, <2>2, <3>1, <3>2
  <2>4. ASSUME NEW u \in Threads, pc'[u] = "push", hash(id'[u]) \notin early
        PROVE  /\ status'[hash(id'[u])] = "Used"
               /\ \A v \in Threads \ {u} : pc'[v] = "push" => hash(id'[v]) # hash(id'[u])
    <3>1. CASE u = t
      <4>1. hash(id'[u]) = h /\ h \notin early  BY <2>2, <2>4, <3>1
      <4> QED  BY <1>2, <1>3, <2>1, <3>1, <4>1
    <3>2. CASE u # t
      <4>1. pc[u] = "push" /\ id'[u] = id[u] /\ hash(id[u]) \notin early  BY <2>1, <2>4, <3>2
      <4>2. /\ status[hash(id[u])] = "Used"
            /\ \A v \in Threads \ {u} : pc[v] = "push" => hash(id[v]) # hash(id[u])
        BY <4>1 DEF IInv, OneConnect
      <4>3. hash(id[u]) # h  BY <4>1, <4>2 DEF IInv, Exclusive, h
      <4> QED  BY <1>0, <1>2, <2>1, <2>2, <4>1, <4>2, <4>3
    <3> QED  BY <3>1, <3>2
  <2> QED  BY <1>4, <2>3, <2>4 DEF OneConnect
<1> QED BY <1>5, <1>6

(* Publishing a slot ends its ownership.                                      *)
LEMMA PublishIInv == ASSUME IInv, NEW t \in Threads, Publish(t) PROVE IInv'
<1>0. hash(id[t]) \in Slots
  BY HashIsSlot, MaxIdAssumption DEF IInv, TypeOK
<1>1. TypeOK'
  BY <1>0, MaxIdAssumption DEF IInv, TypeOK, Publish, NotIdle, InCall, Status
<1>2. TriesLeft'
  BY DEF IInv, TypeOK, TriesLeft, Publish, InCall
<1>3. HashInRange'
  BY DEF IInv, TypeOK, HashInRange, Publish
<1>4. Exclusive' /\ OneConnect'
  <2>1. \A u \in Threads \ {t} : id'[u] = id[u]  BY DEF IInv, TypeOK, Publish
  <2> QED  BY <2>1, PublishKeeps DEF Publish
<1> QED BY <1>1, <1>2, <1>3, <1>4 DEF IInv

(* So does connect(), which has still to queue its command.                   *)
LEMMA PublishConnectIInv == ASSUME IInv, NEW t \in Threads, PublishConnect(t) PROVE IInv'
<1>0. hash(id[t]) \in Slots
  BY HashIsSlot, MaxIdAssumption DEF IInv, TypeOK
<1>1. TypeOK'
  BY <1>0 DEF IInv, TypeOK, PublishConnect, NotIdle, InCall, Status
<1>2. TriesLeft'
  BY DEF IInv, TypeOK, TriesLeft, PublishConnect, InCall
<1>3. HashInRange'
  BY DEF IInv, TypeOK, HashInRange, PublishConnect
<1>4. Exclusive' /\ OneConnect'
  BY PublishKeeps DEF PublishConnect
<1> QED BY <1>1, <1>2, <1>3, <1>4 DEF IInv

(* The command goes into the queue: it is the only one for its slot.          *)
LEMMA PushIInv == ASSUME IInv, NEW t \in Threads, Push(t) PROVE IInv'
<1> DEFINE h == hash(id[t])
<1>0. h \in Slots /\ connects[h] \in Nat
  BY HashIsSlot, MaxIdAssumption, MaxConnectsAssumption DEF IInv, TypeOK
<1>1. TypeOK'
  BY <1>0, MaxIdAssumption, MaxConnectsAssumption DEF IInv, TypeOK, Push, InCall, history
<1>2. TriesLeft'
  BY DEF IInv, TypeOK, TriesLeft, Push, InCall, history
<1>3. HashInRange'
  BY DEF IInv, TypeOK, HashInRange, Push
<1>4. /\ pc'[t] = "out" /\ \A u \in Threads \ {t} : pc'[u] = pc[u] /\ id'[u] = id[u]
      /\ connects'[h] = connects[h] + 1 /\ \A s \in Slots \ {h} : connects'[s] = connects[s]
      /\ status' = status /\ early' = early
  BY <1>0 DEF IInv, TypeOK, Push
<1>5. h \notin early => /\ connects[h] = 0 /\ status[h] = "Used"
                        /\ \A u \in Threads \ {t} : pc[u] = "push" => hash(id[u]) # h
  BY <1>0 DEF IInv, OneConnect, Push
<1>6. \A n : hash(n)' = hash(n)  BY DEF hash
<1> HIDE DEF h
<1>7. Exclusive'
  BY <1>4, <1>6 DEF IInv, Exclusive
<1>8. OneConnect'
  <2>1. ASSUME NEW s \in Slots \ early, connects'[s] > 0
        PROVE  /\ connects'[s] = 1 /\ status[s] = "Used"
               /\ \A u \in Threads : pc'[u] = "push" => hash(id'[u]) # s
    <3>1. CASE s = h  BY <1>4, <1>5, <2>1, <3>1
    <3>2. CASE s # h  BY <1>4, <2>1, <3>2 DEF IInv, OneConnect
    <3> QED  BY <3>1, <3>2
  <2>2. ASSUME NEW u \in Threads, pc'[u] = "push", hash(id'[u]) \notin early
        PROVE  /\ status[hash(id'[u])] = "Used"
               /\ \A v \in Threads \ {u} : pc'[v] = "push" => hash(id'[v]) # hash(id'[u])
    BY <1>4, <2>2 DEF IInv, OneConnect
  <2> QED  BY <1>4, <1>6, <2>1, <2>2 DEF OneConnect
<1> QED BY <1>1, <1>2, <1>3, <1>7, <1>8 DEF IInv

(* A call that fails owns nothing.                                            *)
LEMMA ReturnNullIInv == ASSUME IInv, NEW t \in Threads, ReturnNull(t) PROVE IInv'
<1>1. TypeOK'
  BY MaxSocketAssumption DEF IInv, TypeOK, ReturnNull, InCall
<1>2. TriesLeft'
  BY DEF IInv, TypeOK, TriesLeft, ReturnNull, InCall
<1>3. HashInRange'
  BY DEF IInv, TypeOK, HashInRange, ReturnNull
<1>4. Exclusive' /\ OneConnect'
  <2>1. \A u \in Threads : pc'[u] \in {"own", "push"} => pc'[u] = pc[u] /\ id'[u] = id[u]
    BY DEF IInv, TypeOK, ReturnNull
  <2> QED BY <2>1, HoldersKept DEF IInv, ReturnNull
<1> QED BY <1>1, <1>2, <1>3, <1>4 DEF IInv

(* forceClose() leaves a reserved slot alone, and marks a slot whose command  *)
(* is on its way.                                                             *)
LEMMA ReleaseIInv == ASSUME IInv, NEW s \in Slots, Release(s) PROVE IInv'
<1>1. TypeOK'
  BY DEF IInv, TypeOK, Release, Status, history
<1>2. TriesLeft' /\ HashInRange'
  BY DEF IInv, TriesLeft, HashInRange, Release
<1>3. /\ \A r \in Slots \ {s} : status'[r] = status[r]
      /\ status[s] = "Used" /\ pc' = pc /\ id' = id /\ connects' = connects
      /\ early \subseteq early' /\ (s \notin early' => ~OnTheWay(s))
  BY DEF IInv, TypeOK, Release
<1>4. \A u \in Threads : hash(id[u]) \in Slots
  BY HashIsSlot, MaxIdAssumption DEF IInv, TypeOK
<1>5. \A n : hash(n)' = hash(n)  BY DEF hash
<1>6. Exclusive'
  <2>1. ASSUME NEW u \in Threads, pc[u] = "own", hash(id[u]) \notin early'
        PROVE  /\ status'[hash(id[u])] = "Reserse"
               /\ \A v \in Threads \ {u} : pc[v] = "own" => hash(id[v]) # hash(id[u])
    <3>1. /\ status[hash(id[u])] = "Reserse"
          /\ \A v \in Threads \ {u} : pc[v] = "own" => hash(id[v]) # hash(id[u])
      BY <1>3, <2>1 DEF IInv, Exclusive
    <3> QED  BY <1>3, <1>4, <3>1
  <2> QED  BY <1>3, <1>5, <2>1 DEF Exclusive
<1>7. OneConnect'
  <2>1. ASSUME NEW r \in Slots \ early', connects[r] > 0
        PROVE  /\ connects[r] = 1 /\ status'[r] = "Used"
               /\ \A u \in Threads : pc[u] = "push" => hash(id[u]) # r
    <3>1. r # s  BY <1>3, <2>1 DEF OnTheWay
    <3> QED  BY <1>3, <2>1, <3>1 DEF IInv, OneConnect
  <2>2. ASSUME NEW u \in Threads, pc[u] = "push", hash(id[u]) \notin early'
        PROVE  /\ status'[hash(id[u])] = "Used"
               /\ \A v \in Threads \ {u} : pc[v] = "push" => hash(id[v]) # hash(id[u])
    <3>1. hash(id[u]) # s  BY <1>3, <2>2 DEF OnTheWay
    <3> QED  BY <1>3, <1>4, <2>2, <3>1 DEF IInv, OneConnect
  <2> QED  BY <1>3, <1>5, <2>1, <2>2 DEF OneConnect
<1> QED BY <1>1, <1>2, <1>6, <1>7 DEF IInv

(* connectSocket() stores the status untested: unless the slot was closed too *)
(* early the command is the only one and the slot in use, so nobody owns it.  *)
LEMMA ConnectSocketIInv == ASSUME IInv, NEW s \in Slots, ConnectSocket(s) PROVE IInv'
<1>1. TypeOK'
  <2>1. connects[s] - 1 \in 0 .. MaxConnects
    BY MaxConnectsAssumption DEF IInv, TypeOK, ConnectSocket
  <2>2. connects' \in [Slots -> 0 .. MaxConnects]
    BY <2>1 DEF IInv, TypeOK, ConnectSocket
  <2>3. status' \in [Slots -> Status] /\ idleSince' \in [Threads -> SUBSET Slots]
    BY DEF IInv, TypeOK, ConnectSocket, NotIdle, Status
  <2> QED  BY <2>2, <2>3 DEF IInv, TypeOK, ConnectSocket
<1>2. TriesLeft' /\ HashInRange'
  BY DEF IInv, TriesLeft, HashInRange, ConnectSocket
<1>3. /\ \A r \in Slots \ {s} : status'[r] = status[r] /\ connects'[r] = connects[r]
      /\ connects'[s] = connects[s] - 1 /\ connects[s] > 0
      /\ pc' = pc /\ id' = id /\ early' = early
  BY DEF IInv, TypeOK, ConnectSocket
<1>4. s \notin early => /\ connects[s] = 1 /\ status[s] = "Used"
                        /\ \A u \in Threads : pc[u] \in {"own", "push"} => hash(id[u]) # s
  BY <1>3 DEF IInv, Exclusive, OneConnect
<1>5. \A n : hash(n)' = hash(n)  BY DEF hash
<1>6. \A u \in Threads : hash(id[u]) \in Slots
  BY HashIsSlot, MaxIdAssumption DEF IInv, TypeOK
<1>7. Exclusive'
  <2>1. ASSUME NEW u \in Threads, pc[u] = "own", hash(id[u]) \notin early
        PROVE  /\ status'[hash(id[u])] = "Reserse"
               /\ \A v \in Threads \ {u} : pc[v] = "own" => hash(id[v]) # hash(id[u])
    BY <1>3, <1>4, <1>6, <2>1 DEF IInv, Exclusive
  <2> QED  BY <1>3, <1>5, <2>1 DEF Exclusive
<1>8. OneConnect'
  <2>1. ASSUME NEW r \in Slots \ early, connects'[r] > 0
        PROVE  /\ connects'[r] = 1 /\ status'[r] = "Used"
               /\ \A u \in Threads : pc[u] = "push" => hash(id[u]) # r
    <3>1. r # s  BY <1>3, <1>4, <2>1
    <3> QED  BY <1>3, <2>1, <3>1 DEF IInv, OneConnect
  <2>2. ASSUME NEW u \in Threads, pc[u] = "push", hash(id[u]) \notin early
        PROVE  /\ status'[hash(id[u])] = "Used"
               /\ \A v \in Threads \ {u} : pc[v] = "push" => hash(id[v]) # hash(id[u])
    <3>1. hash(id[u]) # s  BY <1>4, <2>2
    <3> QED  BY <1>3, <1>6, <2>2, <3>1 DEF IInv, OneConnect
  <2> QED  BY <1>3, <1>5, <2>1, <2>2 DEF OneConnect
<1> QED BY <1>1, <1>2, <1>7, <1>8 DEF IInv

(* Every step of the pool keeps the invariant.                                *)
LEMMA NextIInv == IInv /\ [Next]_vars => IInv'
<1> SUFFICES ASSUME IInv, [Next]_vars PROVE IInv'
  OBVIOUS
<1>1. ASSUME NEW t \in Threads,
             \/ Enter(t) \/ FetchAdd(t) \/ FoldId(t) \/ Check(t) \/ Cas(t)
             \/ Publish(t) \/ PublishConnect(t) \/ Push(t) \/ ReturnNull(t)
      PROVE  IInv'
  BY <1>1, EnterIInv, FetchAddIInv, FoldIdIInv, CheckIInv, CasIInv,
     PublishIInv, PublishConnectIInv, PushIInv, ReturnNullIInv
<1>2. ASSUME NEW s \in Slots, Release(s) \/ ConnectSocket(s) PROVE IInv'
  BY <1>2, ReleaseIInv, ConnectSocketIInv
<1>3. CASE UNCHANGED vars
  BY <1>3 DEF vars, history, IInv, TypeOK, TriesLeft, HashInRange, Exclusive, OneConnect, hash
<1> QED BY <1>1, <1>2, <1>3 DEF Next

(* The invariant holds in every reachable state.                              *)
THEOREM IInvHolds == Spec => []IInv
<1> QED BY InitIInv, NextIInv, PTL DEF Spec

(* Type correctness: m_allocId stays in its width, the loop counter in range. *)
THEOREM TypeCorrect == Spec => []TypeOK
<1>1. IInv => TypeOK
  BY DEF IInv
<1> QED BY <1>1, IInvHolds, PTL

(* No two threads are given the same slot, and nobody closes a slot that is   *)
(* being filled in, although connectSocket() stores the status untested, for  *)
(* any number of threads and any pool size; but for slots that were closed    *)
(* while their Connect command was on its way.                                *)
THEOREM ExclusiveHolds == Spec => []Exclusive
<1>1. IInv => Exclusive
  BY DEF IInv
<1> QED BY <1>1, IInvHolds, PTL

(* Whatever threads overflow m_allocId together, what is hashed is never      *)
(* negative.                                                                  *)
THEOREM HashInRangeHolds == Spec => []HashInRange
<1>1. IInv => HashInRange
  BY DEF IInv
<1> QED BY <1>1, IInvHolds, PTL

-----------------------------------------------------------------------------
(* The search for an idle slot *)

(* A number and its remainder.                                                *)
LEMMA ModUnique ==
    ASSUME NEW M \in Nat \ {0}, NEW q \in Int, NEW s \in 0 .. M - 1
    PROVE  (M * q + s) % M = s
OBVIOUS

(* The quotient and the remainder give the number back.                       *)
LEMMA DivMod ==
    ASSUME NEW M \in Nat \ {0}, NEW a \in Int
    PROVE  /\ a % M \in 0 .. M - 1 /\ (a \div M) \in Int
           /\ a = (M * (a \div M)) + (a % M)
OBVIOUS

(* m_maxSocket numbers in a row stand for all the slots.                      *)
LEMMA WindowCovers ==
    ASSUME NEW a \in Int, NEW s \in Slots
    PROVE  \E v \in a - MaxSocket + 1 .. a : hash(v) = s
<1> DEFINE q == a \div MaxSocket
           r == a % MaxSocket
<1>1. r \in 0 .. MaxSocket - 1 /\ q \in Int /\ a = (MaxSocket * q) + r /\ MaxSocket \in Nat \ {0}
  BY MaxSocketAssumption, DivMod
<1>2. s \in 0 .. MaxSocket - 1  BY DEF Slots
<1> HIDE DEF q, r
<1>3. CASE s <= r
  <2>1. a - r + s = (MaxSocket * q) + s  BY <1>1, <1>2
  <2>2. hash(a - r + s) = s  BY <1>1, <1>2, <2>1, ModUnique DEF hash
  <2>3. a - r + s \in a - MaxSocket + 1 .. a  BY <1>1, <1>2, <1>3
  <2> QED  BY <2>2, <2>3
<1>4. CASE s > r
  <2> DEFINE p == q - 1
  <2>0. MaxSocket * p = (MaxSocket * q) - MaxSocket /\ p \in Int  BY <1>1
  <2>1. a - r + s - MaxSocket = (MaxSocket * p) + s  BY <1>1, <1>2, <2>0
  <2> HIDE DEF p
  <2>2. hash(a - r + s - MaxSocket) = s  BY <1>1, <1>2, <2>0, <2>1, ModUnique DEF hash
  <2>3. a - r + s - MaxSocket \in a - MaxSocket + 1 .. a  BY <1>1, <1>2, <1>4
  <2> QED  BY <2>2, <2>3
<1> QED  BY <1>1, <1>2, <1>3, <1>4

(* What the invariant says of the numbers and the slots of a thread.          *)
LEMMA Locals ==
    ASSUME IInv
    PROVE  /\ MaxSocket \in Nat \ {0} /\ MaxId \in Nat /\ allocId \in Int
           /\ pc \in [Threads -> InCall \cup {"out", "null", "own", "push"}]
           /\ tries \in [Threads -> 0 .. MaxSocket] /\ id \in [Threads -> (-MaxId - 1) .. MaxId]
           /\ status \in [Slots -> Status] /\ idleSince \in [Threads -> SUBSET Slots]
           /\ \A t \in Threads : id[t] \in Int /\ hash(id[t]) \in Slots
                                   /\ tries[t] \in Int /\ Fetched(t) \in Int
<1>1. /\ MaxSocket \in Nat \ {0} /\ MaxId \in Nat
      /\ tries \in [Threads -> 0 .. MaxSocket] /\ id \in [Threads -> (-MaxId - 1) .. MaxId]
      /\ allocId \in Int
  BY MaxSocketAssumption, MaxIdAssumption DEF IInv, TypeOK
<1>2. \A t \in Threads : id[t] \in Int /\ tries[t] \in Int  BY <1>1
<1>3. \A t \in Threads : hash(id[t]) \in Slots  BY <1>2, HashIsSlot
<1>4. ASSUME NEW t \in Threads  PROVE Fetched(t) \in Int
  <2>1. tries[t] \in Int /\ tries[t] + 1 \in Int  BY <1>2
  <2> QED  BY <2>1 DEF Fetched
<1> QED  BY <1>1, <1>2, <1>3, <1>4 DEF IInv, TypeOK

(* Nobody searches yet.                                                       *)
LEMMA InitSearch == Init => SearchInv
BY DEF Init, SearchInv, IdleNow, MaskWraps, GivesUpLate, NegativeIsNew, WindowSeen, Searching, InCall

(* A new call has taken no number, and what it finds idle is idle.            *)
LEMMA EnterSearch == ASSUME IInv, SearchInv, NEW t \in Threads, Enter(t) PROVE SearchInv'
<1>1. /\ pc[t] = "out" /\ pc' = [pc EXCEPT ![t] = "fetch"] /\ tries[t] = 0
      /\ idleSince' = [idleSince EXCEPT ![t] = {s \in Slots : status[s] = "Idle"}]
      /\ UNCHANGED <<allocId, status, tries, id, wrapped>>
  BY DEF IInv, TriesLeft, Enter
<1>2. /\ pc'[t] = "fetch" /\ idleSince'[t] = {s \in Slots : status[s] = "Idle"}
      /\ \A u \in Threads \ {t} : pc'[u] = pc[u] /\ idleSince'[u] = idleSince[u]
  BY <1>1, Locals
<1>3. IdleNow'  BY <1>1, <1>2 DEF SearchInv, IdleNow
<1>4. GivesUpLate'  BY <1>1, <1>2 DEF SearchInv, GivesUpLate
<1>5. NegativeIsNew'
  BY <1>1, <1>2 DEF SearchInv, NegativeIsNew, Searching
<1>6. WindowSeen'
  <2>1. \A s : LookedAt(s) => LookedAt(s)'  BY <1>1, <1>2 DEF LookedAt
  <2>2. SUFFICES ASSUME NEW u \in Threads, Searching(u)',
                        NEW v \in allocId - Fetched(u)' + 1 .. allocId, hash(v) \in idleSince'[u]
        PROVE  LookedAt(hash(v))'
    BY <1>1 DEF WindowSeen, hash
  <2>3. CASE u = t
    <3>1. Fetched(u)' = 0  BY <1>1, <1>2, <2>3 DEF Fetched
    <3> QED  BY <2>2, <3>1, Locals
  <2>4. CASE u # t
    <3>1. Fetched(u)' = Fetched(u) /\ Searching(u) /\ hash(v) \in idleSince[u]
      BY <1>1, <1>2, <2>2, <2>4 DEF Fetched, Searching
    <3> QED  BY <2>1, <2>2, <3>1 DEF SearchInv, WindowSeen
  <2> QED  BY <2>3, <2>4
<1>7. MaskWraps'  BY <1>1, <1>2 DEF SearchInv, MaskWraps
<1> QED  BY <1>3, <1>4, <1>5, <1>6, <1>7 DEF SearchInv

(* A number is taken: the windows grow by it at most, and its thread is about *)
(* to look at the slot.  After an overflow nobody counts.                     *)
LEMMA FetchAddSearch == ASSUME IInv, SearchInv, NEW t \in Threads, FetchAdd(t) PROVE SearchInv'
<1>1. /\ pc[t] = "fetch" /\ allocId' = Inc(allocId) /\ allocId' \in Int
      /\ id' = [id EXCEPT ![t] = allocId']
      /\ pc' = [pc EXCEPT ![t] = IF allocId' < 0 THEN "mask" ELSE "check"]
      /\ UNCHANGED <<status, tries, idleSince>>
  BY Locals, MaxIdAssumption DEF FetchAdd, Inc
<1>2. \A u \in Threads : wrapped'[u] <=> wrapped[u] \/ (pc[u] \notin {"out", "own", "push"} /\ allocId' < 0)
  BY DEF FetchAdd
<1>3. /\ pc'[t] = (IF allocId' < 0 THEN "mask" ELSE "check") /\ id'[t] = allocId'
      /\ \A u \in Threads \ {t} : pc'[u] = pc[u] /\ id'[u] = id[u]
  BY <1>1, Locals
<1>4. IdleNow'  BY <1>1 DEF SearchInv, IdleNow
<1>5. GivesUpLate'  BY <1>1, <1>3 DEF SearchInv, GivesUpLate
<1>6. allocId' < 0 => \A u \in Threads : ~Searching(u)'
  BY <1>1, <1>2, <1>3 DEF Searching, InCall
<1>7. NegativeIsNew'  BY <1>6 DEF NegativeIsNew
<1>8. WindowSeen'
  <2>1. SUFFICES ASSUME NEW u \in Threads, Searching(u)',
                        NEW v \in allocId' - Fetched(u)' + 1 .. allocId', hash(v) \in idleSince[u]
        PROVE  LookedAt(hash(v))'
    BY <1>1 DEF WindowSeen, hash
  <2>2. allocId' >= 0 /\ allocId' = allocId + 1 /\ pc'[t] = "check"
    BY <1>1, <1>3, <1>6, <2>1, Locals DEF Inc
  <2>3. CASE v = allocId'  BY <1>3, <2>2, <2>3 DEF LookedAt, hash
  <2>4. CASE v # allocId'
    <3>1. Searching(u)
      BY <1>1, <1>2, <1>3, <2>1 DEF Searching, InCall
    <3>2. Fetched(u)' <= Fetched(u) + 1 /\ Fetched(u)' \in Int
      BY <1>1, <1>3, <2>2, Locals DEF Fetched
    <3>3. v \in allocId - Fetched(u) + 1 .. allocId  BY <2>1, <2>2, <2>4, <3>2, Locals
    <3>4. LookedAt(hash(v))  BY <2>1, <3>1, <3>3 DEF SearchInv, WindowSeen
    <3> QED  BY <1>1, <1>3, <3>4 DEF LookedAt, hash
  <2> QED  BY <2>3, <2>4
<1>9. MaskWraps'  BY <1>1, <1>2, <1>3 DEF SearchInv, MaskWraps
<1> QED  BY <1>4, <1>5, <1>7, <1>8, <1>9 DEF SearchInv

(* The fold moves m_allocId only while it is negative, when nobody has taken  *)
(* a number that counts.                                                      *)
LEMMA FoldIdSearch == ASSUME IInv, SearchInv, NEW t \in Threads, FoldId(t) PROVE SearchInv'
<1>1. /\ pc[t] = "mask" /\ allocId' = Fold(allocId) /\ allocId' \in Int /\ allocId' >= 0
      /\ id' = [id EXCEPT ![t] = allocId'] /\ pc' = [pc EXCEPT ![t] = "check"]
      /\ UNCHANGED <<status, tries, idleSince, wrapped>>
  BY MaxIdAssumption, FoldType DEF IInv, TypeOK, FoldId, history
<1>2. /\ pc'[t] = "check" /\ \A u \in Threads \ {t} : pc'[u] = pc[u] /\ id'[u] = id[u]
  BY <1>1, Locals
<1>3. IdleNow'  BY <1>1 DEF SearchInv, IdleNow
<1>4. GivesUpLate'  BY <1>1, <1>2 DEF SearchInv, GivesUpLate
<1>5. NegativeIsNew'  BY <1>1 DEF NegativeIsNew
<1>6. WindowSeen'
  <2>1. SUFFICES ASSUME NEW u \in Threads, Searching(u)',
                        NEW v \in allocId' - Fetched(u)' + 1 .. allocId', hash(v) \in idleSince[u]
        PROVE  LookedAt(hash(v))'
    BY <1>1 DEF WindowSeen, hash
  <2>2. u # t /\ Searching(u) /\ Fetched(u)' = Fetched(u)
    BY <1>1, <1>2, <2>1 DEF Searching, Fetched, SearchInv, MaskWraps
  <2>3. Fetched(u) > 0  BY <1>1, <2>1, <2>2, Locals
  <2>4. allocId' = allocId
    <3>1. ~(allocId < 0)  BY <2>2, <2>3 DEF SearchInv, NegativeIsNew, Fetched
    <3> QED  BY <1>1, <3>1 DEF Fold
  <2>5. LookedAt(hash(v))  BY <2>1, <2>2, <2>4 DEF SearchInv, WindowSeen
  <2> QED  BY <1>1, <1>2, <2>5 DEF LookedAt, hash
<1>7. MaskWraps'  BY <1>1, <1>2 DEF SearchInv, MaskWraps
<1> QED  BY <1>3, <1>4, <1>5, <1>6, <1>7 DEF SearchInv

(* A look at a slot in vain: the slot is not idle, so no window misses it.    *)
LEMMA CheckSearch == ASSUME IInv, SearchInv, NEW t \in Threads, Check(t) PROVE SearchInv'
<1> DEFINE h == hash(id[t])
<1>1. /\ pc[t] = "check" /\ UNCHANGED <<allocId, status, idleSince, wrapped>>
      /\ \/ /\ status[h] = "Idle" /\ pc' = [pc EXCEPT ![t] = "cas"] /\ tries' = tries /\ id' = id
         \/ /\ status[h] # "Idle" /\ tries' = [tries EXCEPT ![t] = tries[t] + 1]
            /\ id' = [id EXCEPT ![t] = 0]
            /\ pc' = [pc EXCEPT ![t] = IF tries'[t] < MaxSocket THEN "fetch" ELSE "null"]
  BY DEF Check, history
<1>2. /\ \/ pc'[t] = "cas" /\ tries'[t] = tries[t] /\ id'[t] = id[t]
         \/ /\ status[h] # "Idle" /\ tries'[t] = tries[t] + 1
            /\ pc'[t] = IF tries'[t] < MaxSocket THEN "fetch" ELSE "null"
      /\ \A u \in Threads \ {t} : pc'[u] = pc[u] /\ tries'[u] = tries[u] /\ id'[u] = id[u]
  BY <1>1, Locals
<1>3. tries[t] \in 0 .. MaxSocket - 1
  BY <1>1, Locals DEF IInv, TriesLeft, InCall
<1> HIDE DEF h
<1>4. IdleNow'  BY <1>1 DEF SearchInv, IdleNow
<1>5. GivesUpLate'  BY <1>2, <1>3, Locals DEF SearchInv, GivesUpLate
<1>6. \A u \in Threads : Searching(u)' => Searching(u) /\ Fetched(u)' = Fetched(u)
  BY <1>1, <1>2 DEF Searching, Fetched, InCall
<1>7. NegativeIsNew'  BY <1>1, <1>2, <1>6 DEF SearchInv, NegativeIsNew
<1>8. MaskWraps'  BY <1>1, <1>2 DEF SearchInv, MaskWraps
<1>9. WindowSeen'
  <2>1. SUFFICES ASSUME NEW u \in Threads, Searching(u)',
                        NEW v \in allocId - Fetched(u)' + 1 .. allocId, hash(v) \in idleSince[u]
        PROVE  LookedAt(hash(v))'
    BY <1>1 DEF WindowSeen, hash
  <2>2. LookedAt(hash(v)) /\ status[hash(v)] = "Idle"
    BY <1>6, <2>1 DEF SearchInv, WindowSeen, IdleNow
  <2>3. PICK w \in Threads : pc[w] \in {"check", "cas"} /\ hash(id[w]) = hash(v)
    BY <2>2 DEF LookedAt
  <2>4. pc'[w] \in {"check", "cas"} /\ id'[w] = id[w]  BY <1>2, <2>2, <2>3 DEF h
  <2> QED  BY <1>1, <2>3, <2>4 DEF LookedAt, hash
<1> QED  BY <1>4, <1>5, <1>7, <1>8, <1>9 DEF SearchInv

(* The compare-and-swap takes an idle slot, which is not idle since then; one *)
(* that fails saw a slot that is taken, and gives its try back.               *)
LEMMA CasSearch == ASSUME IInv, SearchInv, NEW t \in Threads, Cas(t) PROVE SearchInv'
<1> DEFINE h == hash(id[t])
<1>1. /\ pc[t] = "cas" /\ UNCHANGED allocId
      /\ \/ /\ status[h] = "Idle" /\ status' = [status EXCEPT ![h] = "Reserse"] /\ Taken(t, h)
            /\ id' = id
         \/ /\ status[h] # "Idle" /\ pc' = [pc EXCEPT ![t] = "fetch"] /\ id' = [id EXCEPT ![t] = 0]
            /\ UNCHANGED <<status, tries, idleSince, wrapped>>
  BY DEF Cas, Taken, history
<1>2. /\ pc'[t] \in {"own", "fetch"} /\ tries'[t] \in Int /\ tries'[t] <= tries[t]
      /\ pc'[t] = "fetch" => tries'[t] = tries[t] /\ (wrapped'[t] <=> wrapped[t])
      /\ \A u \in Threads \ {t} : /\ pc'[u] = pc[u] /\ id'[u] = id[u] /\ tries'[u] = tries[u]
                                   /\ (wrapped'[u] <=> wrapped[u])
      /\ \A s \in Slots \ {h} : status'[s] = status[s]
  BY <1>1, Locals DEF Taken, IInv, TypeOK
<1>3. \A u \in Threads : idleSince'[u] \subseteq idleSince[u] /\ h \notin idleSince'[u]
  BY <1>1, Locals DEF SearchInv, IdleNow, Taken
<1> HIDE DEF h
<1>4. IdleNow'  BY <1>2, <1>3, Locals DEF SearchInv, IdleNow
<1>5. GivesUpLate'  BY <1>1, <1>2, Locals DEF SearchInv, GivesUpLate
<1>6. \A u \in Threads : Searching(u)' => Searching(u) /\ Fetched(u)' <= Fetched(u) /\ Fetched(u)' \in Int
  BY <1>1, <1>2, Locals DEF Searching, Fetched, InCall
<1>7. NegativeIsNew'  BY <1>1, <1>2, <1>6, Locals DEF SearchInv, NegativeIsNew
<1>8. MaskWraps'  BY <1>1, <1>2 DEF SearchInv, MaskWraps
<1>9. WindowSeen'
  <2>1. SUFFICES ASSUME NEW u \in Threads, Searching(u)',
                        NEW v \in allocId - Fetched(u)' + 1 .. allocId, hash(v) \in idleSince'[u]
        PROVE  LookedAt(hash(v))'
    BY <1>1 DEF WindowSeen, hash
  <2>2. v \in allocId - Fetched(u) + 1 .. allocId /\ Searching(u) /\ hash(v) \in idleSince[u] /\ hash(v) # h
    <3>1. Searching(u) /\ Fetched(u)' <= Fetched(u) /\ Fetched(u)' \in Int /\ Fetched(u) \in Int /\ allocId \in Int
      BY <1>6, <2>1, Locals
    <3>2. hash(v) \in idleSince[u] /\ hash(v) # h  BY <1>3, <2>1
    <3> QED  BY <2>1, <3>1, <3>2
  <2>3. LookedAt(hash(v))  BY <2>2 DEF SearchInv, WindowSeen
  <2>4. PICK w \in Threads : pc[w] \in {"check", "cas"} /\ hash(id[w]) = hash(v)
    BY <2>3 DEF LookedAt
  <2>5. w # t  BY <2>2, <2>4 DEF h
  <2> QED  BY <1>1, <1>2, <2>4, <2>5 DEF LookedAt, hash
<1> QED  BY <1>4, <1>5, <1>7, <1>8, <1>9 DEF SearchInv

(* A step that takes no number and looks at no slot: searches that go on keep *)
(* their numbers, and whoever was about to look at a slot still is.           *)
LEMMA SearchKept ==
    ASSUME SearchInv, UNCHANGED allocId, IdleNow',
           \A u \in Threads : pc'[u] \in InCall \cup {"null"} =>
              /\ pc'[u] = pc[u] /\ tries'[u] = tries[u] /\ (wrapped'[u] <=> wrapped[u])
              /\ idleSince'[u] \subseteq idleSince[u],
           \A u \in Threads : pc[u] \in {"check", "cas"} => pc'[u] = pc[u] /\ id'[u] = id[u]
    PROVE  SearchInv'
<1>1. MaskWraps'  BY DEF SearchInv, MaskWraps, InCall
<1>2. GivesUpLate'  BY DEF SearchInv, GivesUpLate
<1>3. \A u \in Threads : Searching(u)' =>
         /\ Searching(u) /\ Fetched(u)' = Fetched(u) /\ pc'[u] = pc[u] /\ tries'[u] = tries[u]
         /\ idleSince'[u] \subseteq idleSince[u]
  BY DEF Searching, Fetched
<1>4. NegativeIsNew'  BY <1>3 DEF SearchInv, NegativeIsNew
<1>5. WindowSeen'
  <2>1. SUFFICES ASSUME NEW u \in Threads, Searching(u)',
                        NEW v \in allocId - Fetched(u)' + 1 .. allocId, hash(v) \in idleSince'[u]
        PROVE  LookedAt(hash(v))'
    BY DEF WindowSeen, hash
  <2>2. LookedAt(hash(v))  BY <1>3, <2>1 DEF SearchInv, WindowSeen
  <2> QED  BY <2>2 DEF LookedAt, hash
<1> QED  BY <1>1, <1>2, <1>4, <1>5 DEF SearchInv

(* The slot a thread publishes is in use and no longer counted as idle.       *)
LEMMA PublishSearch ==
    ASSUME IInv, SearchInv, NEW t \in Threads, Publish(t) \/ PublishConnect(t)
    PROVE  SearchInv'
<1> DEFINE h == hash(id[t])
<1>1. /\ pc[t] = "own" /\ pc'[t] \in {"out", "push"}
      /\ status' = [status EXCEPT ![h] = "Used"] /\ UNCHANGED <<allocId, tries, wrapped>>
      /\ \A u \in Threads : idleSince'[u] = idleSince[u] \ {h}
      /\ \A u \in Threads \ {t} : pc'[u] = pc[u] /\ id'[u] = id[u]
  BY Locals DEF Publish, PublishConnect, NotIdle
<1>2. IdleNow'  BY <1>1, Locals DEF SearchInv, IdleNow
<1> QED  BY <1>1, <1>2, SearchKept DEF InCall

(* Queueing a command, giving up, closing and connecting.  A slot that        *)
(* connectSocket() connects is no longer counted as idle.                     *)
LEMMA OtherSearch ==
    ASSUME IInv, SearchInv,
           \/ \E t \in Threads : Push(t) \/ ReturnNull(t)
           \/ \E s \in Slots : Release(s) \/ ConnectSocket(s)
    PROVE  SearchInv'
<1>1. ASSUME NEW t \in Threads, Push(t) \/ ReturnNull(t)  PROVE SearchInv'
  <2>1. /\ pc[t] \in {"push", "null"} /\ pc'[t] = "out" /\ UNCHANGED <<allocId, status>>
        /\ \A u \in Threads : idleSince'[u] \subseteq idleSince[u]
    BY <1>1, Locals DEF Push, ReturnNull, history
  <2>2. \A u \in Threads \ {t} : /\ pc'[u] = pc[u] /\ id'[u] = id[u] /\ tries'[u] = tries[u]
                                 /\ (wrapped'[u] <=> wrapped[u])
    BY <1>1, Locals DEF Push, ReturnNull, history, IInv, TypeOK
  <2>3. IdleNow'  BY <2>1, Locals DEF SearchInv, IdleNow
  <2> QED  BY <2>1, <2>2, <2>3, SearchKept DEF InCall
<1>2. ASSUME NEW s \in Slots, Release(s) \/ ConnectSocket(s)  PROVE SearchInv'
  <2>1. /\ UNCHANGED <<allocId, pc, tries, id, wrapped>>
        /\ \A u \in Threads : idleSince'[u] \subseteq idleSince[u]
    BY <1>2 DEF Release, ConnectSocket, NotIdle, history
  <2>2. ASSUME NEW u \in Threads, NEW r \in idleSince'[u]  PROVE status'[r] = "Idle"
    <3>1. r \in Slots /\ status[r] = "Idle"  BY <2>1, <2>2, Locals DEF SearchInv, IdleNow
    <3>2. CASE r # s  BY <1>2, <3>1, <3>2, Locals DEF Release, ConnectSocket
    <3>3. CASE r = s  BY <1>2, <2>2, <3>1, <3>3, Locals DEF Release, ConnectSocket, NotIdle
    <3> QED  BY <3>2, <3>3
  <2>3. IdleNow'  BY <2>2 DEF IdleNow
  <2> QED  BY <2>1, <2>3, SearchKept
<1> QED  BY <1>1, <1>2

(* In a call during which m_allocId does not overflow, getNewSocket() gives   *)
(* up only when each slot was found in use at some time of the call or another*)
(* thread is about to look at it, for any number of threads and any pool size:*)
(* m_maxSocket numbers in a row stand for all the slots.                      *)
THEOREM NullMeansTakenHolds == Spec => []NullMeansTaken
<1>1. IInv /\ SearchInv /\ [Next]_vars => SearchInv'
  <2> SUFFICES ASSUME IInv, SearchInv, [Next]_vars PROVE SearchInv'
    OBVIOUS
  <2>1. ASSUME NEW t \in Threads, Enter(t) \/ FetchAdd(t) \/ FoldId(t) \/ Check(t) \/ Cas(t)
        PROVE  SearchInv'
    BY <2>1, EnterSearch, FetchAddSearch, FoldIdSearch, CheckSearch, CasSearch
  <2>2. CASE UNCHANGED vars
    BY <2>2 DEF vars, history, SearchInv, IdleNow, MaskWraps, GivesUpLate, NegativeIsNew, WindowSeen,
                Searching, Fetched, LookedAt, hash
  <2> QED  BY <2>1, <2>2, PublishSearch, OtherSearch DEF Next
<1>2. IInv /\ SearchInv => NullMeansTaken
  <2> SUFFICES ASSUME IInv, SearchInv, NEW t \in Threads, pc[t] = "null", ~wrapped[t],
                      NEW s \in idleSince[t]
               PROVE  \E u \in Threads \ {t} : pc[u] \in {"check", "cas"} /\ hash(id[u]) = s
    BY DEF NullMeansTaken
  <2>1. Searching(t) /\ Fetched(t) = MaxSocket  BY DEF SearchInv, GivesUpLate, Searching, Fetched
  <2>2. s \in Slots /\ allocId \in Int  BY Locals
  <2>3. PICK v \in allocId - MaxSocket + 1 .. allocId : hash(v) = s  BY <2>2, WindowCovers
  <2>4. LookedAt(s)  BY <2>1, <2>3 DEF SearchInv, WindowSeen
  <2> QED  BY <2>4 DEF LookedAt
<1> QED  BY InitSearch, IInvHolds, <1>1, <1>2, PTL DEF Spec
=============================================================================
