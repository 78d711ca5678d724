------------------------------ MODULE TimeList ------------------------------
(* TimeList: the keys that time out, in a list by the time they were added   *)
(* and a hash map that finds a key's place in it.  add() gets the time its   *)
(* caller has read before it waits for the mutex (ServiceProxy::doInvoke()   *)
(* does so in any thread), so entries may be added out of order, and         *)
(* timeout() stops at the first that is not due.                             *)
(*                                                                           *)
(* An operator BadX is a faulty variant of X that the specification does not *)
(* use: it serves to see the property that guards against the slip fail.     *)
EXTENDS Integers, Sequences

CONSTANTS
    Keys,
    Threads,    \* the threads that add keys
    Timeout,    \* m_timeout, set before the list is used
    MaxTime     \* bound: how far the clock runs

ASSUME TimeoutAssumption == Timeout \in Nat \ {0}
ASSUME MaxTimeAssumption == MaxTime \in Nat

VARIABLES
    list,       \* m_list: for each entry its key (mapIterator) and its time
    map,        \* the keys in m_map
    clock,      \* UtilTime::getNowMS()
    seen,       \* the time a thread that is about to add() has read
    due,        \* the time the net thread has read for timeout()
    delay,      \* history: the longest time between reading the clock and add()
    passed      \* history: the argument of the last timeout()

vars == <<list, map, clock, seen, due, delay, passed>>

None == -1
Times == 0 .. MaxTime

TypeOK ==
    /\ list \in Seq([key : Keys, time : Nat])
    /\ map \subseteq Keys
    /\ clock \in Times
    /\ seen \in [Threads -> Times \cup {None}]
    /\ due \in Times \cup {None}
    /\ delay \in Nat
    /\ passed \in Times \cup {None}

Init ==
    /\ list = <<>> /\ map = {}
    /\ clock = 0 /\ seen = [t \in Threads |-> None] /\ due = None
    /\ delay = 0 /\ passed = None

\* m_list.erase(it) of the i-th entry, and of the entry of a key.
EraseAt(l, i) == [j \in 1 .. Len(l) - 1 |-> IF j < i THEN l[j] ELSE l[j + 1]]
IndexOf(l, k) == CHOOSE i \in DOMAIN l : l[i].key = k
Erase(l, k) == EraseAt(l, IndexOf(l, k))

Tick ==
    /\ clock < MaxTime
    /\ clock' = clock + 1
    /\ UNCHANGED <<list, map, seen, due, delay, passed>>

ReadClock(t) ==
    /\ seen[t] = None
    /\ seen' = [seen EXCEPT ![t] = clock]
    /\ UNCHANGED <<list, map, clock, due, delay, passed>>

Longest(a, b) == IF a < b THEN b ELSE a

\* now + m_timeout
Deadline(t) == seen[t] + Timeout

BadAdd(t, k) ==
    /\ seen[t] # None
    /\ list' = Append(list, [key |-> k, time |-> Deadline(t)])
    /\ map' = map \cup {k}
    /\ seen' = [seen EXCEPT ![t] = None]
    /\ delay' = Longest(delay, clock - seen[t])
    /\ UNCHANGED <<clock, due, passed>>
\* add(key, now): the entry of a key that is there is moved to the end.
Add(t, k) ==
    /\ seen[t] # None
    /\ list' = Append(IF k \in map THEN Erase(list, k) ELSE list,
                      [key |-> k, time |-> Deadline(t)])
    /\ map' = map \cup {k}
    /\ seen' = [seen EXCEPT ![t] = None]
    /\ delay' = Longest(delay, clock - seen[t])
    /\ UNCHANGED <<clock, due, passed>>

\* del(key)
Del(k) ==
    /\ k \in map
    /\ list' = Erase(list, k)
    /\ map' = map \ {k}
    /\ UNCHANGED <<clock, seen, due, delay, passed>>

\* timeout(now): the net thread reads the clock, then takes the mutex ...
ReadDue ==
    /\ due = None
    /\ due' = clock
    /\ UNCHANGED <<list, map, clock, seen, delay, passed>>

\* ... and erases the n entries up to the first that is not due.
Due(n) ==
    /\ \A i \in 1 .. n : due >= list[i].time
    /\ n < Len(list) => due < list[n + 1].time
BadExpire(n) ==
    /\ due # None
    /\ \A i \in 1 .. n : due > list[i].time
    /\ n < Len(list) => due <= list[n + 1].time
    /\ list' = SubSeq(list, n + 1, Len(list))
    /\ map' = map \ {list[i].key : i \in 1 .. n}
    /\ passed' = due
    /\ due' = None
    /\ UNCHANGED <<clock, seen, delay>>
Expire(n) ==
    /\ due # None
    /\ Due(n)
    /\ list' = SubSeq(list, n + 1, Len(list))
    /\ map' = map \ {list[i].key : i \in 1 .. n}
    /\ passed' = due
    /\ due' = None
    /\ UNCHANGED <<clock, seen, delay>>

Next ==
    \/ Tick \/ ReadDue
    \/ \E t \in Threads : ReadClock(t) \/ \E k \in Keys : Add(t, k)
    \/ \E k \in Keys : Del(k)
    \/ \E n \in 0 .. Len(list) : Expire(n)

Spec == Init /\ [][Next]_vars

-----------------------------------------------------------------------------
(* Properties *)

(* m_map and m_list hold the same keys, each once: no iterator dangles and   *)
(* no key times out twice or without having been added.                      *)
MapIsList ==
    /\ map = {list[i].key : i \in DOMAIN list}
    /\ \A i, j \in DOMAIN list : list[i].key = list[j].key => i = j

(* The list is in order but for the time threads spend between reading the   *)
(* clock and add(): nobody waits behind an entry that is later by more.      *)
OrderedButForDelay ==
    \A i, j \in DOMAIN list : i < j => list[i].time <= list[j].time + delay

(* After timeout(now) nothing is left that was due at now, but for the same  *)
(* delay: so a timeout comes late, by at most that delay, and is not lost.   *)
LateByDelay ==
    \A i \in DOMAIN list : passed < list[i].time + delay
=============================================================================
