----------------------------- MODULE ProxyManager -----------------------------
(* ServiceProxyManager: threads get their proxies from stringToProxy() while  *)
(* the net thread goes over m_proxys in updateInNetLoop().  A new proxy is in *)
(* m_proxys before parseFromString() has filled it, because the mutex is not  *)
(* held while it parses (it may call the registry).                           *)
(*                                                                            *)
(* A service string gives the endpoints itself ("Echo@tcp -h ip -p port") or  *)
(* is a name to be located through the registry.                              *)
(*                                                                            *)
(* An operator BadX is a faulty variant of X that the specification does not  *)
(* use: it serves to see the property that guards against the slip fail.      *)
EXTENDS Integers, Sequences, FiniteSets, SequencesExt

CONSTANTS
    Threads,
    Strings,    \* the service strings that are asked for
    Descs,      \* the endpoint descriptions in each, as lists of words; the
                \* empty list for a name that is to be located
    ShortNames, \* the names that have fewer than three parts
    Ports,      \* the number in a word
    MaxProxy    \* how many proxies are constructed in all

Assumption == MaxProxy \in Nat /\ Descs \in [Strings -> Seq(Seq(STRING))]

Proxies == 1 .. MaxProxy
None == 0
NeedLocator(s) == Descs[s] = <<>>

VARIABLES
    proxys,   \* m_proxys
    lock,     \* the net thread holds m_mutex
    obj,      \* the ServiceProxy objects
    pc, want, got,   \* the threads: where, the string, the pointer
    npc, todo,       \* the net thread: where, the entries it still visits
    asked,    \* asynchronous queries to the registry, by proxy
    undef     \* the net thread used a deleted proxy

threadVars == <<pc, want, got>>
netVars == <<lock, npc, todo, undef>>
vars == <<proxys, obj, threadVars, netVars, asked>>

NoObj == [state |-> "none", str |-> "none", locator |-> "unset", eps |-> {}, parsed |-> 0,
          stray |-> FALSE]   \* stray: located before m_needLocator was set

TypeOK ==
    /\ proxys \in [Strings -> Proxies \cup {None}]
    /\ \A p \in Proxies :
          /\ obj[p].state \in {"none", "parsing", "ready", "deleted"}
          /\ obj[p].locator \in {"unset", "yes", "no"}
          /\ obj[p].state # "none" =>
                obj[p].str \in Strings /\ obj[p].parsed \in 0 .. Len(Descs[obj[p].str])
    /\ pc \in [Threads -> {"idle", "begin", "parse", "query", "fail", "erase", "has", "null"}]
    /\ want \in [Threads -> Strings \cup {"none"}]
    /\ got \in [Threads -> Proxies \cup {None}]
    /\ npc \in {"loop", "timeouts", "update", "undefined"}
    /\ lock \in BOOLEAN /\ (lock <=> npc \in {"timeouts", "update"})
    /\ todo \subseteq Strings /\ asked \subseteq Proxies /\ undef \in BOOLEAN

Init ==
    /\ proxys = [s \in Strings |-> None]
    /\ obj = [p \in Proxies |-> NoObj]
    /\ pc = [t \in Threads |-> "idle"] /\ want = [t \in Threads |-> "none"]
    /\ got = [t \in Threads |-> None]
    /\ lock = FALSE /\ npc = "loop" /\ todo = {} /\ undef = FALSE
    /\ asked = {}

-----------------------------------------------------------------------------
(* parseFromString(): one description *)

Options == {"-h", "-p", "-t", "-x"}     \* two characters, the first a dash
OptionsOf(d) == {j \in 2 .. Len(d) : j % 2 = 0}
ArgOf(d, opt) ==
    LET js == {j \in OptionsOf(d) : d[j] = opt} IN
    IF js = {} THEN "" ELSE d[Max(js) + 1]
PortOf(word) == IF word \in DOMAIN Ports THEN Ports[word] ELSE 0

\* An odd number of words, tcp, and pairs of an option and its argument that
\* give a host and a port.
Accepted(d) ==
    /\ Len(d) >= 3 /\ Len(d) % 2 = 1
    /\ d[1] = "tcp"
    /\ \A j \in OptionsOf(d) : d[j] \in Options
    /\ ArgOf(d, "-h") # "" /\ PortOf(ArgOf(d, "-p")) # 0
EndPointOf(d) == <<ArgOf(d, "-h"), PortOf(ArgOf(d, "-p"))>>

-----------------------------------------------------------------------------
(* stringToProxy(s), in thread t *)

\* The string is known, parsed or not.
Find(t, s) ==
    /\ pc[t] = "idle" /\ ~lock /\ proxys[s] # None
    /\ pc' = [pc EXCEPT ![t] = "has"]
    /\ want' = [want EXCEPT ![t] = s]
    /\ got' = [got EXCEPT ![t] = proxys[s]]
    /\ UNCHANGED <<proxys, obj, netVars, asked>>

NewProxy(p) == obj[p] = NoObj /\ \A q \in Proxies : obj[q] = NoObj => p <= q

\* The string is new: m_needLocator is not set by the constructor.
Insert(t, s) ==
    /\ pc[t] = "idle" /\ ~lock /\ proxys[s] = None
    /\ \E p \in Proxies :
          /\ NewProxy(p)
          /\ obj' = [obj EXCEPT ![p] = [NoObj EXCEPT !.state = "parsing", !.str = s]]
          /\ proxys' = [proxys EXCEPT ![s] = p]
          /\ got' = [got EXCEPT ![t] = p]
    /\ pc' = [pc EXCEPT ![t] = "begin"]
    /\ want' = [want EXCEPT ![t] = s]
    /\ UNCHANGED <<netVars, asked>>

ParseBegin(t) ==
    /\ pc[t] = "begin"
    /\ obj' = [obj EXCEPT ![got[t]].locator = IF NeedLocator(want[t]) THEN "yes" ELSE "no"]
    /\ pc' = [pc EXCEPT ![t] = IF NeedLocator(want[t]) THEN IF want[t] \in ShortNames THEN "fail" ELSE "query"
                               ELSE "parse"]
    /\ UNCHANGED <<proxys, want, got, netVars, asked>>

\* The next description; one that is not accepted ends the parse.
ParseOne(t) ==
    /\ pc[t] = "parse"
    /\ LET p == got[t]
           ds == Descs[want[t]]
           d == ds[obj[p].parsed + 1]
       IN  /\ obj[p].parsed < Len(ds)
           /\ obj' = [obj EXCEPT ![p].parsed = @ + 1,
                                 ![p].eps = IF Accepted(d) THEN @ \cup {EndPointOf(d)} ELSE @]
           /\ pc' = [pc EXCEPT ![t] = IF Accepted(d) THEN "parse" ELSE "fail"]
    /\ UNCHANGED <<proxys, want, got, netVars, asked>>

Parsed(t) ==
    /\ obj' = [obj EXCEPT ![got[t]].state = "ready"]
    /\ pc' = [pc EXCEPT ![t] = "has"]
    /\ UNCHANGED <<proxys, want, got, netVars, asked>>
ParseDone(t) ==
    /\ pc[t] = "parse" /\ obj[got[t]].parsed = Len(Descs[want[t]])
    /\ Parsed(t)

\* The registry is called; its error is logged, and the parse succeeds.  The
\* endpoints of located proxies are ServiceProxy's business.
Query(t) == pc[t] = "query" /\ Parsed(t)

\* delete proxy, and then, under the mutex again, erase it.
DeleteProxy(t) ==
    /\ pc[t] = "fail"
    /\ obj' = [obj EXCEPT ![got[t]].state = "deleted"]
    /\ pc' = [pc EXCEPT ![t] = "erase"]
    /\ UNCHANGED <<proxys, want, got, netVars, asked>>
BadEraseProxy(t) ==
    /\ pc[t] = "erase" /\ ~lock
    /\ pc' = [pc EXCEPT ![t] = "null"]
    /\ got' = [got EXCEPT ![t] = None]
    /\ UNCHANGED <<proxys, want, obj, netVars, asked>>
EraseProxy(t) ==
    /\ pc[t] = "erase" /\ ~lock
    /\ proxys' = [proxys EXCEPT ![want[t]] = None]
    /\ pc' = [pc EXCEPT ![t] = "null"]
    /\ got' = [got EXCEPT ![t] = None]
    /\ UNCHANGED <<want, obj, netVars, asked>>

\* The caller uses what it got, or does without, and asks again.
Again(t) ==
    /\ pc[t] \in {"has", "null"}
    /\ pc' = [pc EXCEPT ![t] = "idle"]
    /\ want' = [want EXCEPT ![t] = "none"]
    /\ got' = [got EXCEPT ![t] = None]
    /\ UNCHANGED <<proxys, obj, netVars, asked>>

-----------------------------------------------------------------------------
(* The net thread *)

Known == {s \in Strings : proxys[s] # None}

UpdateInNetLoop ==
    /\ npc = "loop"
    /\ lock' = TRUE /\ npc' = "timeouts" /\ todo' = Known
    /\ UNCHANGED <<proxys, obj, threadVars, asked, undef>>

\* What is done with a deleted proxy is not defined.
Touch(s) ==
    /\ todo' = todo \ {s}
    /\ undef' = (undef \/ obj[proxys[s]].state = "deleted")
    /\ npc' = IF undef' THEN "undefined" ELSE npc
    /\ lock' = (lock /\ ~undef')

DoTimeOut(s) ==
    /\ npc = "timeouts" /\ s \in todo
    /\ Touch(s)
    /\ UNCHANGED <<proxys, obj, threadVars, asked>>

\* After the update interval the proxies that need the locator ask it; one
\* whose m_needLocator is not set yet may hold any value.
UpdateDue ==
    /\ npc = "timeouts" /\ todo = {}
    /\ npc' = "update" /\ todo' = Known
    /\ UNCHANGED <<proxys, obj, threadVars, asked, lock, undef>>
DoAsyncUpdate(s) ==
    /\ npc = "update" /\ s \in todo
    /\ Touch(s)
    /\ LET p == proxys[s] IN
       \/ /\ obj[p].locator # "no" /\ asked' = asked \cup {p}
          /\ obj' = [obj EXCEPT ![p].stray = @ \/ obj[p].locator = "unset"]
       \/ obj[p].locator # "yes" /\ UNCHANGED <<obj, asked>>
    /\ UNCHANGED <<proxys, threadVars>>

UpdateDone ==
    /\ npc \in {"timeouts", "update"} /\ todo = {}
    /\ lock' = FALSE /\ npc' = "loop"
    /\ UNCHANGED <<proxys, obj, threadVars, asked, todo, undef>>

\* RegistryCallBack: updateEndPoints() with what the registry knows, which is
\* nothing for a proxy that has no names.
Located(p) ==
    /\ npc = "loop" /\ p \in asked
    /\ asked' = asked \ {p}
    /\ undef' = (obj[p].state = "deleted")
    /\ npc' = IF undef' THEN "undefined" ELSE npc
    /\ obj' = [obj EXCEPT ![p].eps = {}]
    /\ UNCHANGED <<proxys, threadVars, lock, todo>>

Next ==
    \/ \E t \in Threads, s \in Strings : Find(t, s) \/ Insert(t, s)
    \/ \E t \in Threads :
          \/ ParseBegin(t) \/ ParseOne(t) \/ ParseDone(t) \/ Query(t)
          \/ DeleteProxy(t) \/ EraseProxy(t) \/ Again(t)
    \/ UpdateInNetLoop \/ UpdateDue \/ UpdateDone
    \/ \E s \in Strings : DoTimeOut(s) \/ DoAsyncUpdate(s)
    \/ \E p \in Proxies : Located(p)

Spec == Init /\ [][Next]_vars

-----------------------------------------------------------------------------
(* Properties *)

(* However calls for the same string overlap, m_proxys holds every proxy     *)
(* that is not deleted, under its own string, and so one for each string; a  *)
(* deleted one is in it only until the thread that deleted it erases it.     *)
MapHoldsLive ==
    /\ \A p \in Proxies : obj[p].state \in {"parsing", "ready"} => proxys[obj[p].str] = p
    /\ \A s \in Strings :
          proxys[s] # None /\ obj[proxys[s]].state = "deleted" =>
              \E t \in Threads : pc[t] = "erase" /\ want[t] = s

(* A string that is in order gives every caller one and the same proxy,      *)
(* which is never deleted, also to one who gets it before it is parsed.      *)
GoodIsShared ==
    \A t \in Threads :
        pc[t] = "has" /\ want[t] \notin ShortNames
        /\ (\A i \in DOMAIN Descs[want[t]] : Accepted(Descs[want[t]][i])) =>
            got[t] = proxys[want[t]] /\ obj[got[t]].state # "deleted"

(* A proxy is ready when it has all the endpoints its string describes,      *)
(* unless the net thread had it located before m_needLocator was set.        *)
ReadyHasEndPoints ==
    \A p \in Proxies :
        obj[p].state = "ready" /\ ~NeedLocator(obj[p].str) /\ ~obj[p].stray =>
            LET ds == Descs[obj[p].str] IN
            /\ \A i \in DOMAIN ds : Accepted(ds[i])
            /\ obj[p].eps = {EndPointOf(ds[i]) : i \in DOMAIN ds}

(* stringToProxy() returns a service proxy, not a pointer to a deleted one.  *)
ReturnsProxy == \A t \in Threads : pc[t] = "has" => obj[got[t]].state # "deleted"

(* m_needLocator says whether a proxy needs to be located: only those that   *)
(* do are asked for at the registry.                                         *)
AsksIfNeeded == \A p \in asked : NeedLocator(obj[p].str)
=============================================================================
