-------------------------------- MODULE Timer --------------------------------
(* Timer: callbacks in a multimap m_nodes ordered by expiry, found by id      *)
(* through m_search.  update() walks over m_nodes and calls the callbacks     *)
(* that are due, and a callback may add and delete timers under its feet.  A  *)
(* repeating node that has been called is in newNodes, in neither place where *)
(* delTimer() looks for it, until update() is over.                           *)
(*                                                                            *)
(* A callback does not delete the timer it was called for: update() would go  *)
(* on with the deleted node.                                                  *)
(*                                                                            *)
(* An operator BadX is a faulty variant of X that the                       *)
(* specification does not use: it serves to see the property that guards      *)
(* against the slip fail.                                                     *)
EXTENDS Integers, Sequences, FiniteSets, SequencesExt

CONSTANTS
    MaxId,       \* addTimer() is called so often
    Durations,   \* the periods that are asked for
    MaxTime      \* the clock stops there

Assumption ==
    MaxId \in Nat /\ MaxTime \in Nat \ {0} /\ Durations \subseteq Nat

VARIABLES
    now,       \* UtilTime::getNowMS()
    nextId,    \* m_id
    node,      \* the TimerNode of each id, while it is not deleted
    nodes,     \* m_nodes: pairs of key and id, in order
    search,    \* the keys of m_search
    newNodes,  \* the local variable of update()
    ms,        \* the argument of update()
    pc,        \* where update() is, if it is under way
    calls,     \* history: the ids called for by the last update(), in order
    stopped    \* history: ids for which delTimer() has returned true

vars == <<now, nextId, node, nodes, search, newNodes, ms, pc, calls, stopped>>

Ids == 0 .. MaxId - 1
Node == [expire : Nat, duration : Durations, repeat : BOOLEAN]
NoNode == [expire |-> 0, duration |-> 0, repeat |-> FALSE]
Live == {i \in Ids : node[i] # NoNode}

TypeOK ==
    /\ now \in 0 .. MaxTime /\ ms \in 0 .. MaxTime
    /\ nextId \in 0 .. MaxId
    /\ node \in [Ids -> Node \cup {NoNode}]
    /\ \A k \in DOMAIN nodes : nodes[k] \in Nat \X Live
    /\ \A k \in DOMAIN newNodes : newNodes[k] \in Nat \X Live
    /\ search \subseteq Live
    /\ pc \in {"out", "loop", "callback"}
    /\ \A k \in DOMAIN calls : calls[k] \in Ids
    /\ stopped \subseteq Ids

Init ==
    /\ now = 1 /\ ms = 0
    /\ nextId = 0
    /\ node = [i \in Ids |-> NoNode]
    /\ nodes = <<>> /\ search = {} /\ newNodes = <<>>
    /\ pc = "out"
    /\ calls = <<>> /\ stopped = {}

\* std::multimap::insert: behind the entries with the same key.
Insert(seq, e) ==
    LET n == CHOOSE n \in 0 .. Len(seq) :
                 /\ \A k \in 1 .. n : seq[k][1] <= e[1]
                 /\ n < Len(seq) => seq[n + 1][1] > e[1]
    IN  InsertAt(seq, n + 1, e)

\* addTimer(), from a callback or between two updates.
AddTimer(duration, repeat) ==
    /\ pc \in {"out", "callback"} /\ nextId < MaxId
    /\ nextId' = nextId + 1
    /\ node' = [node EXCEPT ![nextId] =
                   [expire |-> now + duration, duration |-> duration, repeat |-> repeat]]
    /\ nodes' = Insert(nodes, <<now + duration, nextId>>)
    /\ search' = search \cup {nextId}
    /\ UNCHANGED <<now, newNodes, ms, pc, calls, stopped>>

\* The id whose callback is running: the first entry of m_nodes.
Calling(i) == pc = "callback" /\ nodes[1][2] = i

\* delTimer() that finds the node under its key in m_nodes.  If it does not,
\* it returns false and changes nothing.
DelTimer(i) ==
    /\ pc \in {"out", "callback"} /\ ~Calling(i)
    /\ i \in search
    /\ \E k \in DOMAIN nodes : /\ nodes[k] = <<node[i].expire, i>>
                              /\ nodes' = RemoveAt(nodes, k)
    /\ search' = search \ {i}
    /\ node' = [node EXCEPT ![i] = NoNode]
    /\ stopped' = stopped \cup {i}
    /\ UNCHANGED <<now, nextId, newNodes, ms, pc, calls>>

-----------------------------------------------------------------------------
(* update(ms) *)

\* The caller has read the clock.
UpdateBegin ==
    /\ pc = "out"
    /\ ms' = now /\ pc' = "loop" /\ calls' = <<>>
    /\ UNCHANGED <<now, nextId, node, nodes, search, newNodes, stopped>>

Due == nodes # <<>> /\ ms >= node[nodes[1][2]].expire

\* node->cb(): what the callback does follows, until it returns.
CallBack ==
    /\ pc = "loop" /\ Due
    /\ pc' = "callback"
    /\ calls' = Append(calls, nodes[1][2])
    /\ UNCHANGED <<now, nextId, node, nodes, search, newNodes, ms, stopped>>

BadCallBackReturns ==
    /\ pc = "callback"
    /\ pc' = "loop"
    /\ nodes' = Tail(nodes)
    /\ LET i == nodes[1][2] IN
          /\ newNodes' = IF node[i].repeat THEN Append(newNodes, <<node[i].expire, i>>) ELSE newNodes
          /\ node' = [node EXCEPT ![i] = IF node[i].repeat THEN [@ EXCEPT !.expire = ms + node[i].duration] ELSE NoNode]
          /\ search' = IF node[i].repeat THEN search ELSE search \ {i}
    /\ UNCHANGED <<now, nextId, ms, calls, stopped>>
\* A repeating node waits in newNodes for its next turn, another is deleted.
CallBackReturns ==
    /\ pc = "callback"
    /\ pc' = "loop"
    /\ nodes' = Tail(nodes)
    /\ LET i == nodes[1][2]
           expire == ms + node[i].duration
       IN  /\ newNodes' = IF node[i].repeat THEN Append(newNodes, <<expire, i>>) ELSE newNodes
           /\ node' = [node EXCEPT ![i] = IF node[i].repeat THEN [@ EXCEPT !.expire = expire] ELSE NoNode]
           /\ search' = IF node[i].repeat THEN search ELSE search \ {i}
    /\ UNCHANGED <<now, nextId, ms, calls, stopped>>

\* m_nodes with the first n of newNodes back in it.
Merged[n \in 0 .. Len(newNodes)] ==
    IF n = 0 THEN nodes ELSE Insert(Merged[n - 1], newNodes[n])

\* Nothing more is due.
UpdateEnd ==
    /\ pc = "loop" /\ ~Due
    /\ pc' = "out"
    /\ nodes' = Merged[Len(newNodes)]
    /\ newNodes' = <<>>
    /\ UNCHANGED <<now, nextId, node, search, ms, calls, stopped>>

Tick ==
    /\ now < MaxTime
    /\ now' = now + 1
    /\ UNCHANGED <<nextId, node, nodes, search, newNodes, ms, pc, calls, stopped>>

Next ==
    \/ \E d \in Durations, repeat \in BOOLEAN : AddTimer(d, repeat)
    \/ \E i \in Ids : DelTimer(i)
    \/ UpdateBegin \/ CallBack \/ CallBackReturns \/ UpdateEnd \/ Tick

Spec == Init /\ [][Next]_vars

-----------------------------------------------------------------------------
(* Properties *)

(* Whatever callbacks add and delete, every timer that is not deleted is     *)
(* known to m_search and waits once, in m_nodes or in newNodes, under the    *)
(* key by which delTimer() looks for it.                                     *)
EachWaitsOnce ==
    LET all == nodes \o newNodes IN
    /\ search = Live
    /\ {all[k] : k \in DOMAIN all} = {<<node[i].expire, i>> : i \in Live}
    /\ Len(all) = Cardinality(Live)

(* update() calls a timer at most once, so that one with period 0 does not   *)
(* keep it busy for ever: newNodes is there for that.                        *)
OncePerUpdate == \A j, k \in DOMAIN calls : calls[j] = calls[k] => j = k

(* When update(ms) is over no timer that was due at ms is left, those that   *)
(* callbacks have added included, except one that repeats with period 0.     *)
NoneMissed ==
    pc = "loop" /\ ~Due =>
        \A i \in Live : node[i].expire > ms \/ (node[i].repeat /\ node[i].duration = 0)

(* Once delTimer() has returned true the callback is not called any more,    *)
(* not even by the update() that is under way.                               *)
StoppedIsQuiet ==
    pc = "callback" => Last(calls) \notin stopped
=============================================================================
