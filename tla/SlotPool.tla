------------------------------ MODULE SlotPool ------------------------------
(* The socket pool of SocketLoop at the granularity of its atomic            *)
(* instructions.  Any thread runs getNewSocket() (connect, listen, and the   *)
(* net thread in handleAccept): it takes the next number of m_allocId with   *)
(* __sync_add_and_fetch, folds a negative one back with                      *)
(* __sync_and_and_fetch, looks at the slot the number hashes to and takes it *)
(* with __sync_bool_compare_and_swap.  The net thread gives slots back in    *)
(* forceClose(), and connectSocket(), which carries out a Connect command,   *)
(* stores the status of the slot that the command names whatever has become  *)
(* of the slot since.                                                        *)
(*                                                                           *)
(* An operator BadX is a faulty variant of X, the slip a change of the code  *)
(* could make; the specification does not use it.  It serves to see the      *)
(* property that guards against the slip fail.                               *)
EXTENDS Integers, FiniteSets

CONSTANTS
    Threads,    \* the threads that may be inside getNewSocket()
    MaxSocket,  \* m_maxSocket, the number of slots
    MaxId,      \* the largest value of m_allocId (0x7fffffff in the code)
    MaxConnects,  \* bound: Connect commands for one slot that are in m_queue
    MaxEarly    \* bound: closes of a slot whose Connect command is on its way

ASSUME MaxSocketAssumption == MaxSocket \in Nat \ {0}
ASSUME MaxIdAssumption == MaxId \in Nat
ASSUME MaxConnectsAssumption == MaxConnects \in Nat

VARIABLES
    allocId,    \* m_allocId
    status,     \* Socket::status of every slot, its three classes
    pc, tries, id,   \* where each thread is, its loop counter i, its local id
    connects,   \* how many Connect commands for a slot m_queue holds
    idleSince,  \* history: the slots that were idle ever since the call began
    wrapped,    \* history: m_allocId overflowed since the call began
    early       \* history: the slots that were closed between a connect() and
                \* its Connect command

history == <<idleSince, wrapped>>
vars == <<allocId, status, pc, tries, id, connects, history, early>>

Slots == 0 .. MaxSocket - 1

\* SocketStatus_Idle, SocketStatus_Reserse; "Used" stands for Listen,
\* Connecting and Connected, which the allocator does not tell apart.
Status == {"Idle", "Reserse", "Used"}

InCall == {"fetch", "mask", "check", "cas"}

TypeOK ==
    /\ allocId \in (-MaxId - 1) .. MaxId
    /\ status \in [Slots -> Status]
    /\ pc \in [Threads -> InCall \cup {"out", "null", "own", "push"}]
    /\ tries \in [Threads -> 0 .. MaxSocket]
    /\ id \in [Threads -> (-MaxId - 1) .. MaxId]
    /\ idleSince \in [Threads -> SUBSET Slots]
    /\ wrapped \in [Threads -> BOOLEAN]
    /\ connects \in [Slots -> 0 .. MaxConnects]
    /\ early \subseteq Slots

hash(n) == n % MaxSocket

\* ++m_allocId in two's complement.
Inc(n) == IF n = MaxId THEN -MaxId - 1 ELSE n + 1

\* m_allocId & 0x7fffffff
Fold(n) == IF n < 0 THEN n + MaxId + 1 ELSE n

\* The constructor has already taken slot 0 for the eventfd.
Init ==
    /\ allocId = 0
    /\ status = [s \in Slots |-> IF s = 0 THEN "Used" ELSE "Idle"]
    /\ pc = [t \in Threads |-> "out"]
    /\ tries = [t \in Threads |-> 0]
    /\ id = [t \in Threads |-> 0]
    /\ idleSince = [t \in Threads |-> {}]
    /\ wrapped = [t \in Threads |-> FALSE]
    /\ connects = [s \in Slots |-> 0]
    /\ early = {}

Enter(t) ==
    /\ pc[t] = "out"
    /\ pc' = [pc EXCEPT ![t] = "fetch"]
    /\ idleSince' = [idleSince EXCEPT ![t] = {s \in Slots : status[s] = "Idle"}]
    /\ UNCHANGED <<allocId, status, tries, id, connects, wrapped, early>>

\* id = __sync_add_and_fetch(&m_allocId, 1)
FetchAdd(t) ==
    /\ pc[t] = "fetch"
    /\ allocId' = Inc(allocId)
    /\ id' = [id EXCEPT ![t] = allocId']
    /\ pc' = [pc EXCEPT ![t] = IF allocId' < 0 THEN "mask" ELSE "check"]
    /\ wrapped' = [u \in Threads |-> wrapped[u] \/ (pc[u] \notin {"out", "own", "push"} /\ allocId' < 0)]
    /\ UNCHANGED <<status, tries, connects, idleSince, early>>

\* id = __sync_and_and_fetch(&m_allocId, 0x7fffffff)
BadFoldId(t) ==
    /\ pc[t] = "mask"
    /\ allocId' = Fold(allocId)
    /\ pc' = [pc EXCEPT ![t] = "check"]
    /\ UNCHANGED <<status, tries, id, connects, history, early>>
FoldId(t) ==
    /\ pc[t] = "mask"
    /\ allocId' = Fold(allocId)
    /\ id' = [id EXCEPT ![t] = allocId']
    /\ pc' = [pc EXCEPT ![t] = "check"]
    /\ UNCHANGED <<status, tries, connects, history, early>>

\* s->status != SocketStatus_Idle: continue, until i reaches m_maxSocket.  The
\* local id (0 when there is none) ends with the body of the loop.
BadCheck(t) ==
    /\ pc[t] = "check"
    /\ IF status[hash(id[t])] = "Idle"
       THEN /\ pc' = [pc EXCEPT ![t] = "cas"]
            /\ UNCHANGED <<tries, id>>
       ELSE /\ tries' = [tries EXCEPT ![t] = @ + 1]
            /\ id' = [id EXCEPT ![t] = 0]
            /\ pc' = [pc EXCEPT ![t] = IF tries'[t] + 1 >= MaxSocket THEN "null" ELSE "fetch"]
    /\ UNCHANGED <<allocId, status, connects, history, early>>
Check(t) ==
    /\ pc[t] = "check"
    /\ IF status[hash(id[t])] = "Idle"
       THEN /\ pc' = [pc EXCEPT ![t] = "cas"]
            /\ UNCHANGED <<tries, id>>
       ELSE /\ tries' = [tries EXCEPT ![t] = @ + 1]
            /\ id' = [id EXCEPT ![t] = 0]
            /\ pc' = [pc EXCEPT ![t] = IF tries'[t] < MaxSocket THEN "fetch" ELSE "null"]
    /\ UNCHANGED <<allocId, status, connects, history, early>>

\* From now on slot s has not been idle all the time.
NotIdle(s) == idleSince' = [u \in Threads |-> idleSince[u] \ {s}]

\* getNewSocket() returns slot s: its loop counter ends, and what is recorded of
\* the call.
Taken(t, s) ==
    /\ pc' = [pc EXCEPT ![t] = "own"]
    /\ tries' = [tries EXCEPT ![t] = 0]
    /\ idleSince' = [u \in Threads |-> IF u = t THEN {} ELSE idleSince[u] \ {s}]
    /\ wrapped' = [wrapped EXCEPT ![t] = FALSE]
    /\ UNCHANGED allocId

\* The compare-and-swap; a failed one gives its try back (--i).
BadCas(t) ==
    /\ pc[t] = "cas"
    /\ status' = [status EXCEPT ![hash(id[t])] = "Reserse"]
    /\ Taken(t, hash(id[t]))
    /\ UNCHANGED <<id, connects, early>>
Cas(t) ==
    /\ pc[t] = "cas"
    /\ IF status[hash(id[t])] = "Idle"
       THEN /\ status' = [status EXCEPT ![hash(id[t])] = "Reserse"]
            /\ Taken(t, hash(id[t]))
            /\ UNCHANGED id
       ELSE /\ pc' = [pc EXCEPT ![t] = "fetch"]
            /\ id' = [id EXCEPT ![t] = 0]
            /\ UNCHANGED <<allocId, status, tries, history>>
    /\ UNCHANGED <<connects, early>>

\* listen() and handleAccept() fill the slot in and store its status, whatever
\* it is by now.  The thread is done with the slot.
Publish(t) ==
    /\ pc[t] = "own"
    /\ status' = [status EXCEPT ![hash(id[t])] = "Used"]
    /\ NotIdle(hash(id[t]))
    /\ pc' = [pc EXCEPT ![t] = "out"]
    /\ id' = [id EXCEPT ![t] = 0]
    /\ UNCHANGED <<allocId, tries, connects, wrapped, early>>

\* connect() stores SocketStatus_Connecting ...
PublishConnect(t) ==
    /\ pc[t] = "own"
    /\ status' = [status EXCEPT ![hash(id[t])] = "Used"]
    /\ NotIdle(hash(id[t]))
    /\ pc' = [pc EXCEPT ![t] = "push"]
    /\ UNCHANGED <<allocId, tries, id, connects, wrapped, early>>

\* ... and then queues the command that is to connect it.
Push(t) ==
    /\ pc[t] = "push"
    /\ connects[hash(id[t])] < MaxConnects
    /\ connects' = [connects EXCEPT ![hash(id[t])] = @ + 1]
    /\ pc' = [pc EXCEPT ![t] = "out"]
    /\ id' = [id EXCEPT ![t] = 0]
    /\ UNCHANGED <<allocId, status, tries, history, early>>

\* connect and listen return -1, handleAccept closes the new fd.
ReturnNull(t) ==
    /\ pc[t] = "null"
    /\ pc' = [pc EXCEPT ![t] = "out"]
    /\ tries' = [tries EXCEPT ![t] = 0]
    /\ idleSince' = [idleSince EXCEPT ![t] = {}]
    /\ wrapped' = [wrapped EXCEPT ![t] = FALSE]
    /\ UNCHANGED <<allocId, status, id, connects, early>>

\* A Connect command for slot s is queued, or about to be.
OnTheWay(s) ==
    \/ connects[s] > 0
    \/ \E t \in Threads : pc[t] = "push" /\ hash(id[t]) = s

\* forceClose(): a reserved or idle slot is left alone.  Slot 0, the
\* notifier, is no connection and nobody holds its id.
Release(s) ==
    /\ s # 0
    /\ status[s] = "Used"
    /\ OnTheWay(s) => Cardinality(early) < MaxEarly
    /\ status' = [status EXCEPT ![s] = "Idle"]
    /\ early' = IF OnTheWay(s) THEN early \cup {s} ELSE early
    /\ UNCHANGED <<allocId, pc, tries, id, connects, history>>

\* connectSocket(): the command says which slot; its status is not looked at.
\* It becomes Connected or Connecting, or Idle when the connect fails.
ConnectSocket(s) ==
    /\ connects[s] > 0
    /\ connects' = [connects EXCEPT ![s] = @ - 1]
    /\ \/ /\ status' = [status EXCEPT ![s] = "Used"]
          /\ NotIdle(s)
       \/ /\ status' = [status EXCEPT ![s] = "Idle"]
          /\ UNCHANGED idleSince
    /\ UNCHANGED <<allocId, pc, tries, id, wrapped, early>>

Next ==
    \/ \E t \in Threads :
          \/ Enter(t) \/ FetchAdd(t) \/ FoldId(t) \/ Check(t)
          \/ Cas(t) \/ Publish(t) \/ PublishConnect(t) \/ Push(t) \/ ReturnNull(t)
    \/ \E s \in Slots : Release(s) \/ ConnectSocket(s)

Spec == Init /\ [][Next]_vars

-----------------------------------------------------------------------------
(* A slot a thread has taken is marked reserved, so nobody closes it or      *)
(* takes it again, and no two threads hold the same slot, whatever the       *)
(* interleaving of their loads and compare-and-swaps, across the overflow of *)
(* m_allocId and although connectSocket() stores the status untested.  It is *)
(* not so for a slot that was once closed while its Connect command was on   *)
(* its way: the command is then carried out on the slot's next user.         *)
Exclusive ==
    \A t \in Threads : (pc[t] = "own" /\ hash(id[t]) \notin early) =>
        /\ status[hash(id[t])] = "Reserse"
        /\ \A u \in Threads \ {t} : pc[u] = "own" => hash(id[u]) # hash(id[t])

(* getNewSocket() gives up only when the pool is really in use: a slot that  *)
(* was idle during the whole call is one another thread is about to look at. *)
(* (It is not so for a call during which m_allocId overflows: the threads    *)
(* that fold it together skip numbers.)                                      *)
NullMeansTaken ==
    \A t \in Threads : (pc[t] = "null" /\ ~wrapped[t]) =>
        \A s \in idleSince[t] :
            \E u \in Threads \ {t} : pc[u] \in {"check", "cas"} /\ hash(id[u]) = s

(* A number that reaches the hash is never negative, also when several       *)
(* threads overflow m_allocId before the first of them folds it.             *)
HashInRange ==
    \A t \in Threads : pc[t] \in {"check", "cas", "own", "push"} => id[t] >= 0
=============================================================================
