--------------------------- MODULE Client_proofs ---------------------------
(* Proofs about the client side.  A ServiceProxy is proved about in           *)
(* ServiceProxy_proofs; here it is ServiceProxyManager, and the two together. *)
EXTENDS Client, ServiceProxy_proofs

-----------------------------------------------------------------------------
(* The manager.  A thread that has put a proxy into m_proxys fills it or     *)
(* takes it away again, and is the only one to do so.                        *)
Filling(t) == mpc[t] \in {"begin", "parse", "query", "fail"}
Owns(t) == Filling(t) \/ mpc[t] = "erase"

(* The endpoints that some string describes.                                 *)
Addresses == UNION {{M!EndPointOf(Descs[s][i]) : i \in DOMAIN Descs[s]} : s \in Strings}
Objects == [state : {"none", "parsing", "ready", "deleted"}, str : Strings \cup {"none"},
            locator : {"unset", "yes", "no"}, eps : SUBSET Addresses, parsed : Nat, stray : BOOLEAN]

ObjectsInv ==
    /\ obj \in [M!Proxies -> Objects]
    /\ \A s \in Strings : proxys[s] # M!None =>
          obj[proxys[s]].state # "none" /\ obj[proxys[s]].str = s

OwnersInv ==
    /\ \A t \in Threads : Owns(t) =>
          /\ want[t] \in Strings /\ got[t] \in M!Proxies
          /\ proxys[want[t]] = got[t] /\ obj[got[t]].str = want[t]
          /\ obj[got[t]].state = IF Filling(t) THEN "parsing" ELSE "deleted"
    /\ \A t, u \in Threads : Owns(t) /\ Owns(u) /\ got[t] = got[u] => t = u

(* A string that is in order, and how far the parse of one has come.         *)
InOrder(s) == s \notin ShortNames /\ \A i \in DOMAIN Descs[s] : M!Accepted(Descs[s][i])
ParsedTo(p, k) ==
    /\ \A i \in 1 .. k : M!Accepted(Descs[obj[p].str][i])
    /\ ~obj[p].stray => obj[p].eps = {M!EndPointOf(Descs[obj[p].str][i]) : i \in 1 .. k}
ParseInv ==
    \A t \in Threads :
        /\ mpc[t] = "begin" => obj[got[t]].parsed = 0 /\ obj[got[t]].eps = {}
        /\ mpc[t] = "parse" => ~M!NeedLocator(want[t]) /\ ParsedTo(got[t], obj[got[t]].parsed)
        /\ mpc[t] = "query" => M!NeedLocator(want[t])
        /\ mpc[t] \in {"fail", "erase"} => ~InOrder(want[t])

(* Only a proxy that needs the locator, or whose m_needLocator was not set   *)
(* yet, is located.                                                          *)
AskedInv ==
    /\ \A p \in M!Proxies : obj[p].locator = "yes" => M!NeedLocator(obj[p].str)
    /\ \A p \in asked : obj[p].state # "none" /\ (M!NeedLocator(obj[p].str) \/ obj[p].stray)

(* What the net thread goes over under the mutex is in m_proxys.             *)
TodoInv == mnpc \in {"timeouts", "update"} => mtodo \subseteq M!Known

(* What a caller has got.                                                    *)
HasInv == \A t \in Threads : mpc[t] = "has" => want[t] \in Strings /\ got[t] \in M!Proxies

Shared ==
    /\ M!TypeOK /\ ObjectsInv /\ OwnersInv /\ ParseInv /\ AskedInv /\ TodoInv /\ HasInv
    /\ M!MapHoldsLive /\ M!GoodIsShared /\ M!ReadyHasEndPoints

-----------------------------------------------------------------------------
(* Initially there is no proxy.                                              *)
LEMMA SharedInit == M!Init => Shared
<1> SUFFICES ASSUME M!Init  PROVE Shared  OBVIOUS
<1>1. M!TypeOK
  <2>1. \A p \in M!Proxies : obj[p].state = "none" /\ obj[p].locator = "unset"  BY DEF M!Init, M!NoObj
  <2> QED  BY <2>1 DEF M!Init, M!TypeOK
<1>2. ObjectsInv  BY ManagerAssumption DEF M!Assumption, M!Init, ObjectsInv, Objects, M!NoObj, M!Proxies
<1>3. OwnersInv /\ ParseInv /\ HasInv /\ TodoInv /\ M!GoodIsShared
  BY DEF M!Init, OwnersInv, Owns, Filling, ParseInv, HasInv, TodoInv, M!GoodIsShared
<1>4. AskedInv  BY DEF M!Init, AskedInv, M!NoObj
<1>5. M!MapHoldsLive /\ M!ReadyHasEndPoints  BY DEF M!Init, M!MapHoldsLive, M!ReadyHasEndPoints, M!NoObj
<1> QED  BY <1>1, <1>2, <1>3, <1>4, <1>5 DEF Shared

(* Find(): the string is known.                                              *)
LEMMA FindShared ==
    ASSUME Shared, NEW t \in Threads, NEW s \in Strings, M!Find(t, s)
    PROVE  Shared'
<1> USE DEF Shared
<1>0. UNCHANGED <<proxys, obj, mnpc, lock, mtodo, undef, asked>>  BY DEF M!Find, M!netVars
<1>1. proxys[s] \in M!Proxies  BY DEF M!Find, M!TypeOK
<1>2. \A u \in Threads : u # t => mpc'[u] = mpc[u] /\ want'[u] = want[u] /\ got'[u] = got[u]
  BY DEF M!Find, M!TypeOK
<1>3. mpc[t] = "idle" /\ mpc'[t] = "has" /\ want'[t] = s /\ got'[t] = proxys[s]
  BY DEF M!Find, M!TypeOK
<1>4. M!TypeOK'
  BY <1>0, <1>1 DEF M!Find, M!TypeOK
<1>5. ObjectsInv' /\ AskedInv' /\ TodoInv' /\ M!ReadyHasEndPoints'
  BY <1>0 DEF ObjectsInv, AskedInv, TodoInv, M!Known, M!ReadyHasEndPoints
<1>6. OwnersInv'  BY <1>0, <1>2, <1>3 DEF OwnersInv, Owns, Filling
<1>7. ParseInv'  BY <1>0, <1>2, <1>3 DEF ParseInv, ParsedTo
<1>8. HasInv'  BY <1>1, <1>2, <1>3 DEF HasInv
<1>9. M!MapHoldsLive'  BY <1>0, <1>2, <1>3 DEF M!MapHoldsLive
<1>10. M!GoodIsShared'
  <2>1. InOrder(s) => obj[proxys[s]].state # "deleted"
    BY <1>1 DEF M!MapHoldsLive, ParseInv, M!TypeOK, M!Proxies, M!None
  <2> QED  BY <1>0, <1>2, <1>3, <2>1 DEF M!GoodIsShared, InOrder
<1> QED  BY <1>4, <1>5, <1>6, <1>7, <1>8, <1>9, <1>10

(* Insert(): a new proxy, which is nobody else's.                            *)
LEMMA InsertShared ==
    ASSUME Shared, NEW t \in Threads, NEW s \in Strings, M!Insert(t, s)
    PROVE  Shared'
<1> USE DEF Shared
<1>0. UNCHANGED <<mnpc, lock, mtodo, undef, asked>>  BY DEF M!Insert, M!netVars
<1> DEFINE new == [M!NoObj EXCEPT !.state = "parsing", !.str = s]
<1>1. PICK p \in M!Proxies : /\ obj[p] = M!NoObj
                           /\ obj' = [obj EXCEPT ![p] = new]
                           /\ proxys' = [proxys EXCEPT ![s] = p]
                           /\ got' = [got EXCEPT ![t] = p]
  BY DEF M!Insert, M!NewProxy
<1>2. \A u \in Threads : u # t => mpc'[u] = mpc[u] /\ want'[u] = want[u] /\ got'[u] = got[u]
  BY <1>1 DEF M!Insert, M!TypeOK
<1>3. mpc[t] = "idle" /\ mpc'[t] = "begin" /\ want'[t] = s /\ got'[t] = p
  BY <1>1 DEF M!Insert, M!TypeOK
<1>4. /\ new \in Objects /\ new.state = "parsing" /\ new.str = s /\ new.locator = "unset"
      /\ new.eps = {} /\ new.parsed = 0 /\ ~new.stray
  BY DEF M!NoObj, Objects
<1>5. /\ obj' \in [M!Proxies -> Objects]
      /\ obj'[p] = new /\ \A q \in M!Proxies : q # p => obj'[q] = obj[q]
  BY <1>1, <1>4 DEF ObjectsInv
<1>6. /\ proxys[s] = M!None /\ proxys'[s] = p
      /\ \A r \in Strings : r # s => proxys'[r] = proxys[r]
  BY <1>1 DEF M!Insert, M!TypeOK
<1> HIDE DEF new
<1>7. obj[p].state = "none" /\ p # M!None  BY <1>1 DEF M!NoObj, M!Proxies, M!None
<1>8. \A r \in Strings : proxys[r] # p  BY <1>7 DEF ObjectsInv
<1>9. \A u \in Threads : Owns(u) => got[u] # p  BY <1>7 DEF OwnersInv
<1>10. p \notin asked  BY <1>7 DEF AskedInv
<1>11. M!TypeOK'
  <2>1. \A q \in M!Proxies :
          /\ obj'[q].state \in {"none", "parsing", "ready", "deleted"}
          /\ obj'[q].locator \in {"unset", "yes", "no"}
          /\ obj'[q].state # "none" =>
                obj'[q].str \in Strings /\ obj'[q].parsed \in 0 .. Len(Descs[obj'[q].str])
    <3>1. 0 \in 0 .. Len(Descs[s])  BY ManagerAssumption DEF M!Assumption
    <3> QED  BY <1>4, <1>5, <3>1 DEF M!TypeOK
  <2> QED  BY <1>0, <1>1, <2>1 DEF M!Insert, M!TypeOK
<1>12. ObjectsInv'  BY <1>4, <1>5, <1>6, <1>8 DEF ObjectsInv, M!TypeOK
<1>13. OwnersInv'
  <2>1. ~Owns(t) /\ Owns(t)' /\ Filling(t)'  BY <1>3 DEF Owns, Filling
  <2>2. \A u \in Threads : u # t =>
          /\ Owns(u)' <=> Owns(u)
          /\ Filling(u)' <=> Filling(u)
    BY <1>2 DEF Owns, Filling
  <2>3. \A u \in Threads : Owns(u) => want[u] # s  BY <1>6 DEF OwnersInv, M!Proxies, M!None
  <2> QED  BY <1>2, <1>3, <1>4, <1>5, <1>6, <1>9, <2>1, <2>2, <2>3 DEF OwnersInv
<1>14. ParseInv'
  <2>1. \A u \in Threads : u # t /\ mpc[u] \in {"begin", "parse"} => got[u] \in M!Proxies \ {p}
    BY <1>9 DEF OwnersInv, Owns, Filling
  <2>2. ASSUME NEW u \in Threads
        PROVE  /\ mpc'[u] = "begin" => obj'[got'[u]].parsed = 0 /\ obj'[got'[u]].eps = {}
               /\ mpc'[u] = "parse" => /\ ~M!NeedLocator(want'[u])
                                       /\ ParsedTo(got[u], obj[got[u]].parsed)'
               /\ mpc'[u] = "query" => M!NeedLocator(want'[u])
               /\ mpc'[u] \in {"fail", "erase"} => ~InOrder(want'[u])
    <3>1. CASE u = t  BY <1>3, <1>4, <1>5, <3>1
    <3>2. CASE u # t
      <4>1. mpc'[u] = mpc[u] /\ want'[u] = want[u] /\ got'[u] = got[u]  BY <1>2, <3>2
      <4>2. mpc[u] \in {"begin", "parse"} => obj'[got[u]] = obj[got[u]]  BY <1>5, <2>1, <3>2
      <4> QED  BY <4>1, <4>2 DEF ParseInv, ParsedTo
    <3> QED  BY <3>1, <3>2
  <2> QED  BY <2>2 DEF ParseInv
<1>15. AskedInv'  BY <1>0, <1>4, <1>5, <1>10 DEF AskedInv, M!TypeOK
<1>16. TodoInv'  BY <1>0, <1>6, <1>7 DEF TodoInv, M!Known
<1>17. HasInv'  BY <1>2, <1>3 DEF HasInv
<1>18. M!MapHoldsLive'
  <2>1. \A q \in M!Proxies : obj'[q].state \in {"parsing", "ready"} => proxys'[obj'[q].str] = q
    BY <1>4, <1>5, <1>6 DEF M!MapHoldsLive, M!TypeOK, M!Proxies, M!None
  <2>2. ASSUME NEW r \in Strings, proxys'[r] # M!None, obj'[proxys'[r]].state = "deleted"
        PROVE  \E u \in Threads : mpc'[u] = "erase" /\ want'[u] = r
    <3>1. r # s  BY <1>4, <1>5, <1>6, <2>2
    <3>2. proxys[r] \in M!Proxies \ {p}  BY <1>6, <1>8, <2>2, <3>1 DEF M!TypeOK
    <3>3. proxys'[r] = proxys[r] /\ obj[proxys[r]].state = "deleted"  BY <1>5, <1>6, <2>2, <3>1, <3>2
    <3>4. PICK u \in Threads : mpc[u] = "erase" /\ want[u] = r  BY <2>2, <3>3 DEF M!MapHoldsLive
    <3> QED  BY <1>2, <1>3, <3>4
  <2> QED  BY <2>1, <2>2 DEF M!MapHoldsLive
<1>19. M!GoodIsShared'
  <2>1. \A u \in Threads : mpc'[u] = "has" => u # t  BY <1>3
  <2>2. \A u \in Threads : mpc[u] = "has" => got[u] \in M!Proxies /\ want[u] \in Strings  BY DEF HasInv
  <2>3. \A u \in Threads : mpc[u] = "has" /\ got[u] = proxys[want[u]] => want[u] # s /\ got[u] # p
    BY <1>6, <1>8, <2>2 DEF M!Proxies, M!None
  <2> QED  BY <1>2, <1>5, <1>6, <2>1, <2>2, <2>3 DEF M!GoodIsShared
<1>20. M!ReadyHasEndPoints'  BY <1>4, <1>5 DEF M!ReadyHasEndPoints
<1> QED  BY <1>11, <1>12, <1>13, <1>14, <1>15, <1>16, <1>17, <1>18, <1>19, <1>20

(* What a thread that fills a proxy does to it concerns no one else: pc and  *)
(* the object change, nothing else, and the object keeps its string.         *)
Fills(t, p) ==
    /\ Filling(t) /\ p = got[t]
    /\ \E a : mpc' = [mpc EXCEPT ![t] = a]
    /\ \E o : obj' = [obj EXCEPT ![p] = o]
    /\ obj'[p] \in Objects /\ obj'[p].state # "none" /\ obj'[p].str = obj[p].str
    /\ obj'[p].parsed \in 0 .. Len(Descs[obj[p].str])
    /\ UNCHANGED <<proxys, want, got, M!netVars, asked>>

LEMMA FillFacts ==
    ASSUME Shared, NEW t \in Threads, NEW p, Fills(t, p)
    PROVE  /\ p \in M!Proxies /\ p = got[t] /\ want[t] \in Strings /\ obj[p].state = "parsing"
           /\ obj[p].str = want[t] /\ proxys[want[t]] = p /\ p # M!None
           /\ \A u \in Threads : u # t => mpc'[u] = mpc[u]
           /\ \A q \in M!Proxies : q # p => obj'[q] = obj[q]
           /\ \A u \in Threads : Owns(u) /\ u # t => got[u] # p
<1> USE DEF Shared
<1>1. Owns(t)  BY DEF Fills, Owns
<1>2. /\ p \in M!Proxies /\ p = got[t] /\ want[t] \in Strings /\ obj[p].state = "parsing"
      /\ obj[p].str = want[t] /\ proxys[want[t]] = p
  BY <1>1 DEF OwnersInv, Fills
<1>3. p # M!None  BY <1>2 DEF M!Proxies, M!None
<1>4. \A u \in Threads : u # t => mpc'[u] = mpc[u]  BY DEF Fills, M!TypeOK
<1>5. \A q \in M!Proxies : q # p => obj'[q] = obj[q]  BY <1>2 DEF Fills, ObjectsInv
<1>6. \A u \in Threads : Owns(u) /\ u # t => got[u] # p  BY <1>1, <1>2 DEF OwnersInv
<1> QED  BY <1>2, <1>3, <1>4, <1>5, <1>6

(* So of the invariant only what is about t and p is left to show.           *)
LEMMA FillShared ==
    ASSUME Shared, NEW t \in Threads, NEW p, Fills(t, p),
           mpc'[t] \in {"parse", "query", "fail", "erase", "has"},
           obj'[p].state = IF mpc'[t] = "erase" THEN "deleted"
                           ELSE IF mpc'[t] = "has" THEN "ready" ELSE "parsing",
           mpc'[t] = "parse" => ~M!NeedLocator(want[t]) /\ ParsedTo(p, obj[p].parsed)',
           mpc'[t] = "query" => M!NeedLocator(want[t]),
           mpc'[t] \in {"fail", "erase"} => ~InOrder(want[t]),
           obj'[p].locator = "yes" => M!NeedLocator(want[t]),
           p \in asked => M!NeedLocator(want[t]) \/ obj'[p].stray,
           mpc'[t] = "has" /\ ~M!NeedLocator(want[t]) /\ ~obj'[p].stray =>
               /\ \A i \in DOMAIN Descs[want[t]] : M!Accepted(Descs[want[t]][i])
               /\ obj'[p].eps = {M!EndPointOf(Descs[want[t]][i]) : i \in DOMAIN Descs[want[t]]}
    PROVE  Shared'
<1> USE DEF Shared
<1>0. UNCHANGED <<proxys, want, got, mnpc, lock, mtodo, undef, asked>>  BY DEF Fills, M!netVars
<1>1. /\ p \in M!Proxies /\ p = got[t] /\ want[t] \in Strings /\ obj[p].state = "parsing"
      /\ obj[p].str = want[t] /\ proxys[want[t]] = p /\ p # M!None
  BY FillFacts
<1>2. \A u \in Threads : u # t => mpc'[u] = mpc[u]  BY FillFacts
<1>3. \A q \in M!Proxies : q # p => obj'[q] = obj[q]  BY FillFacts
<1>4. \A u \in Threads : Owns(u) /\ u # t => got[u] # p  BY FillFacts
<1>5. obj'[p] \in Objects /\ obj'[p].str = want[t]  BY <1>1 DEF Fills
<1>6. obj' \in [M!Proxies -> Objects]  BY <1>1, <1>5 DEF Fills, ObjectsInv
<1>7. M!TypeOK'
  <2>1. \A q \in M!Proxies :
          /\ obj'[q].state \in {"none", "parsing", "ready", "deleted"}
          /\ obj'[q].locator \in {"unset", "yes", "no"}
          /\ obj'[q].state # "none" =>
                obj'[q].str \in Strings /\ obj'[q].parsed \in 0 .. Len(Descs[obj'[q].str])
    <3>1. \A o \in Objects : o.state \in {"none", "parsing", "ready", "deleted"}
                             /\ o.locator \in {"unset", "yes", "no"}
      BY DEF Objects
    <3>2. obj'[p].parsed \in 0 .. Len(Descs[obj'[p].str])  BY <1>1, <1>5 DEF Fills
    <3> QED  BY <1>1, <1>3, <1>5, <3>1, <3>2 DEF M!TypeOK
  <2>2. mpc' \in [Threads -> {"idle", "begin", "parse", "query", "fail", "erase", "has", "null"}]
    BY DEF Fills, M!TypeOK
  <2> QED  BY <1>0, <2>1, <2>2 DEF M!TypeOK
<1>8. ObjectsInv'  BY <1>0, <1>1, <1>3, <1>5, <1>6 DEF ObjectsInv, Fills, M!TypeOK
<1>9. OwnersInv'
  <2>1. \A u \in Threads : u # t => (Owns(u)' <=> Owns(u)) /\ (Filling(u)' <=> Filling(u))
    BY <1>2 DEF Owns, Filling
  <2>2. Owns(t)' => obj'[p].state = IF Filling(t)' THEN "parsing" ELSE "deleted"
    BY DEF Owns, Filling
  <2>3. ASSUME NEW u \in Threads, Owns(u)'
        PROVE  /\ want'[u] \in Strings /\ got'[u] \in M!Proxies
               /\ proxys'[want'[u]] = got'[u] /\ obj'[got'[u]].str = want'[u]
               /\ obj'[got'[u]].state = IF Filling(u)' THEN "parsing" ELSE "deleted"
    <3>1. CASE u = t  BY <1>0, <1>1, <1>5, <2>2, <2>3, <3>1
    <3>2. CASE u # t  BY <1>0, <1>3, <1>4, <2>1, <2>3, <3>2 DEF OwnersInv
    <3> QED  BY <3>1, <3>2
  <2>4. \A u, v \in Threads : Owns(u)' /\ Owns(v)' /\ got'[u] = got'[v] => u = v
    <3>1. \A u \in Threads : Owns(u)' => Owns(u) \/ u = t  BY <2>1
    <3>2. \A u \in Threads : Owns(u)' /\ u # t => got[u] # got[t]  BY <1>1, <1>4, <3>1
    <3> QED  BY <1>0, <3>1, <3>2 DEF OwnersInv
  <2> QED  BY <2>3, <2>4 DEF OwnersInv
<1>10. ParseInv'
  <2>1. \A u \in Threads : u # t /\ mpc[u] \in {"begin", "parse"} => got[u] \in M!Proxies \ {p}
    BY <1>4 DEF OwnersInv, Owns, Filling
  <2> SUFFICES ASSUME NEW u \in Threads
               PROVE  /\ mpc'[u] = "begin" => obj'[got[u]].parsed = 0 /\ obj'[got[u]].eps = {}
                      /\ mpc'[u] = "parse" => ~M!NeedLocator(want[u])
                                             /\ ParsedTo(got[u], obj[got[u]].parsed)'
                      /\ mpc'[u] = "query" => M!NeedLocator(want[u])
                      /\ mpc'[u] \in {"fail", "erase"} => ~InOrder(want[u])
    BY <1>0 DEF ParseInv, ParsedTo
  <2>2. CASE u = t  BY <1>0, <1>1, <2>2 DEF ParsedTo
  <2>3. CASE u # t
    <3>1. mpc'[u] = mpc[u]  BY <1>2, <2>3
    <3>2. CASE mpc[u] \in {"begin", "parse"}
      <4>1. obj'[got[u]] = obj[got[u]]  BY <1>3, <2>1, <2>3, <3>2
      <4> QED  BY <1>0, <3>1, <3>2, <4>1 DEF ParseInv, ParsedTo
    <3>3. CASE mpc[u] \notin {"begin", "parse"}  BY <3>1, <3>3 DEF ParseInv
    <3> QED  BY <3>2, <3>3
  <2> QED  BY <2>2, <2>3
<1>11. AskedInv'
  <2>1. obj'[p].state # "none"  BY DEF Fills
  <2> QED  BY <1>0, <1>1, <1>3, <1>5, <2>1 DEF AskedInv, M!TypeOK
<1>12. TodoInv' /\ HasInv'
  <2>1. TodoInv'  BY <1>0 DEF TodoInv, M!Known
  <2>2. HasInv'  BY <1>0, <1>1, <1>2 DEF HasInv
  <2> QED  BY <2>1, <2>2
<1>13. M!MapHoldsLive'
  <2>1. \A q \in M!Proxies : obj'[q].state \in {"parsing", "ready"} => proxys'[obj'[q].str] = q
    BY <1>0, <1>1, <1>3, <1>5 DEF M!MapHoldsLive
  <2>2. ASSUME NEW r \in Strings, proxys'[r] # M!None, obj'[proxys'[r]].state = "deleted"
        PROVE  \E u \in Threads : mpc'[u] = "erase" /\ want'[u] = r
    <3>1. CASE proxys[r] = p
      <4>1. r = want[t]  BY <1>1, <3>1 DEF ObjectsInv
      <4>2. mpc'[t] = "erase"  BY <1>0, <2>2, <3>1
      <4> QED  BY <1>0, <4>1, <4>2
    <3>2. CASE proxys[r] # p
      <4>1. proxys[r] \in M!Proxies  BY <1>0, <2>2 DEF M!TypeOK
      <4>2. PICK u \in Threads : mpc[u] = "erase" /\ want[u] = r
        BY <1>0, <1>3, <2>2, <3>2, <4>1 DEF M!MapHoldsLive
      <4>3. u # t  BY <4>2 DEF Fills, Filling
      <4> QED  BY <1>0, <1>2, <4>2, <4>3
    <3> QED  BY <3>1, <3>2
  <2> QED  BY <2>1, <2>2 DEF M!MapHoldsLive
<1>14. M!GoodIsShared'
  <2>1. ASSUME NEW u \in Threads, mpc'[u] = "has", InOrder(want[u])
        PROVE  got[u] = proxys[want[u]] /\ obj'[got[u]].state # "deleted"
    <3>1. CASE u = t  BY <1>1, <2>1, <3>1
    <3>2. CASE u # t
      <4>1. got[u] = proxys[want[u]] /\ obj[got[u]].state # "deleted"
            /\ got[u] \in M!Proxies /\ want[u] \in Strings
        BY <1>2, <2>1, <3>2 DEF M!GoodIsShared, InOrder, HasInv
      <4>2. CASE got[u] = p
        <5>1. want[u] = want[t]
          <6>1. proxys[want[u]] = p /\ p # M!None  BY <1>1, <4>1, <4>2
          <6>2. obj[p].str = want[u]  BY <4>1, <6>1 DEF ObjectsInv
          <6> QED  BY <1>1, <6>2
        <5>2. mpc'[t] # "erase"  BY <2>1, <5>1
        <5> QED  BY <4>1, <4>2, <5>2
      <4>3. CASE got[u] # p  BY <1>3, <4>1, <4>3
      <4> QED  BY <4>2, <4>3
    <3> QED  BY <3>1, <3>2
  <2> QED  BY <1>0, <2>1 DEF M!GoodIsShared, InOrder
<1>15. M!ReadyHasEndPoints'  BY <1>1, <1>3, <1>5 DEF M!ReadyHasEndPoints
<1> QED  BY <1>7, <1>8, <1>9, <1>10, <1>11, <1>12, <1>13, <1>14, <1>15

(* Each description of a string describes one of the addresses.              *)
LEMMA DescFacts ==
    ASSUME NEW s \in Strings
    PROVE  /\ Len(Descs[s]) \in Nat /\ DOMAIN Descs[s] = 1 .. Len(Descs[s])
           /\ M!NeedLocator(s) <=> Len(Descs[s]) = 0
           /\ \A i \in DOMAIN Descs[s] : M!EndPointOf(Descs[s][i]) \in Addresses
<1>1. Descs[s] \in Seq(Seq(STRING))  BY ManagerAssumption DEF M!Assumption
<1>2. M!NeedLocator(s) <=> Len(Descs[s]) = 0  BY <1>1 DEF M!NeedLocator
<1>3. \A i \in DOMAIN Descs[s] : M!EndPointOf(Descs[s][i]) \in Addresses  BY DEF Addresses
<1> QED  BY <1>1, <1>2, <1>3

(* parseFromString() begins.                                                 *)
LEMMA ParseBeginShared ==
    ASSUME Shared, NEW t \in Threads, M!ParseBegin(t)
    PROVE  Shared'
<1> USE DEF Shared
<1>0. PICK p : p = got[t]  OBVIOUS
<1> DEFINE o == [obj[p] EXCEPT !.locator = IF M!NeedLocator(want[t]) THEN "yes" ELSE "no"]
<1>1. p \in M!Proxies /\ obj[p].str = want[t] /\ want[t] \in Strings /\ obj[p].state = "parsing"
  BY <1>0 DEF M!ParseBegin, OwnersInv, Owns, Filling
<1>2. obj[p] \in Objects  BY <1>1 DEF ObjectsInv
<1>3. /\ o \in Objects /\ o.state = obj[p].state /\ o.str = obj[p].str /\ o.eps = obj[p].eps
      /\ o.parsed = obj[p].parsed /\ o.stray = obj[p].stray
      /\ o.locator = IF M!NeedLocator(want[t]) THEN "yes" ELSE "no"
  BY <1>2 DEF Objects
<1>4. obj' = [obj EXCEPT ![p] = o] /\ obj'[p] = o  BY <1>0, <1>1 DEF M!ParseBegin, ObjectsInv
<1>5. mpc'[t] = IF M!NeedLocator(want[t]) THEN IF want[t] \in ShortNames THEN "fail" ELSE "query"
               ELSE "parse"
  BY DEF M!ParseBegin, M!TypeOK
<1>6. o.parsed = 0 /\ o.eps = {}  BY <1>0, <1>3 DEF ParseInv, M!ParseBegin
<1> HIDE DEF o
<1>7. Fills(t, p)
  <2>1. 0 \in 0 .. Len(Descs[want[t]])  BY <1>1, DescFacts
  <2> QED  BY <1>0, <1>1, <1>3, <1>4, <1>6, <2>1 DEF M!ParseBegin, Fills, Filling
<1>8. ParsedTo(p, obj[p].parsed)'
  <2>1. obj'[p].parsed = 0 /\ obj'[p].eps = {}  BY <1>4, <1>6
  <2> QED  BY <2>1, <1>7 DEF ParsedTo, Fills
<1>9. p \in asked => M!NeedLocator(want[t]) \/ obj'[p].stray  BY <1>1, <1>3, <1>4 DEF AskedInv
<1>10. mpc'[t] = "fail" => ~InOrder(want[t])  BY <1>5 DEF InOrder
<1>11. /\ mpc'[t] \in {"parse", "query", "fail"} /\ obj'[p].state = "parsing"
       /\ mpc'[t] = "parse" => ~M!NeedLocator(want[t])
       /\ mpc'[t] = "query" => M!NeedLocator(want[t])
       /\ obj'[p].locator = "yes" => M!NeedLocator(want[t])
  BY <1>1, <1>3, <1>4, <1>5
<1> HIDE DEF Shared
<1> QED  BY <1>7, <1>8, <1>9, <1>10, <1>11, FillShared

(* One description: it adds its endpoint, or it ends the parse.              *)
LEMMA ParseOneShared ==
    ASSUME Shared, NEW t \in Threads, M!ParseOne(t)
    PROVE  Shared'
<1> USE DEF Shared
<1>0. PICK p : p = got[t]  OBVIOUS
<1> DEFINE k == obj[p].parsed
           ds == Descs[want[t]]
           d == ds[k + 1]
           es == IF M!Accepted(d) THEN obj[p].eps \cup {M!EndPointOf(d)} ELSE obj[p].eps
           o == [obj[p] EXCEPT !.parsed = k + 1, !.eps = es]
<1>1. p \in M!Proxies /\ obj[p].str = want[t] /\ want[t] \in Strings /\ obj[p].state = "parsing"
  BY <1>0 DEF M!ParseOne, OwnersInv, Owns, Filling
<1>2. obj[p] \in Objects /\ k \in Nat  BY <1>1 DEF ObjectsInv, Objects
<1>3. k + 1 \in DOMAIN ds /\ DOMAIN ds = 1 .. Len(ds) /\ Len(ds) \in Nat
  BY <1>0, <1>1, <1>2, DescFacts DEF M!ParseOne
<1>4. M!EndPointOf(d) \in Addresses  BY <1>1, <1>3, DescFacts
<1>5. /\ o \in Objects /\ o.state = obj[p].state /\ o.str = obj[p].str
      /\ o.eps = es
      /\ o.parsed = k + 1 /\ o.stray = obj[p].stray /\ o.locator = obj[p].locator
  <2>1. es \in SUBSET Addresses  BY <1>2, <1>4 DEF Objects
  <2>2. k + 1 \in Nat  BY <1>2
  <2> HIDE DEF es, k
  <2>3. o \in Objects  BY <1>2, <2>1, <2>2 DEF Objects
  <2>4. /\ o.state = obj[p].state /\ o.str = obj[p].str /\ o.eps = es /\ o.parsed = k + 1
        /\ o.locator = obj[p].locator
    BY <1>2 DEF Objects
  <2>5. o.stray = obj[p].stray  BY <1>2 DEF Objects
  <2> QED  BY <2>3, <2>4, <2>5
<1>6. obj' = [obj EXCEPT ![p] = o] /\ obj'[p] = o  BY <1>0, <1>1 DEF M!ParseOne, ObjectsInv
<1>7. mpc'[t] = IF M!Accepted(d) THEN "parse" ELSE "fail"  BY <1>0 DEF M!ParseOne, M!TypeOK
<1> HIDE DEF o
<1>8. Fills(t, p)
  <2>1. k + 1 \in 0 .. Len(ds)  BY <1>2, <1>3
  <2>2. \E a : mpc' = [mpc EXCEPT ![t] = a]  BY DEF M!ParseOne
  <2>3. UNCHANGED <<proxys, want, got, M!netVars, asked>> /\ Filling(t)  BY DEF M!ParseOne, Filling
  <2>4. \E a : obj' = [obj EXCEPT ![p] = a]  BY <1>6
  <2>5. /\ obj'[p] \in Objects /\ obj'[p].state # "none" /\ obj'[p].str = obj[p].str
        /\ obj'[p].parsed \in 0 .. Len(Descs[obj[p].str])
    BY <1>0, <1>1, <1>5, <1>6, <2>1
  <2> QED  BY <1>0, <2>2, <2>3, <2>4, <2>5 DEF Fills
<1>9. ~M!NeedLocator(want[t]) /\ ParsedTo(p, k)  BY <1>0 DEF ParseInv, M!ParseOne
<1>10. M!Accepted(d) => ParsedTo(p, obj[p].parsed)'
  <2> SUFFICES ASSUME M!Accepted(d)
               PROVE  /\ \A i \in 1 .. k + 1 : M!Accepted(ds[i])
                      /\ ~obj[p].stray => obj'[p].eps = {M!EndPointOf(ds[i]) : i \in 1 .. k + 1}
    <3>1. /\ obj'[p].parsed = k + 1 /\ Descs[obj'[p].str] = ds
          /\ obj'[p].stray = obj[p].stray
      BY <1>1, <1>5, <1>6
    <3> QED  BY <3>1 DEF ParsedTo
  <2>1. 1 .. k + 1 = 1 .. k \cup {k + 1}  BY <1>2
  <2>2. \A i \in 1 .. k + 1 : M!Accepted(ds[i])  BY <1>1, <1>9, <2>1 DEF ParsedTo
  <2>3. ASSUME ~obj[p].stray  PROVE obj'[p].eps = {M!EndPointOf(ds[i]) : i \in 1 .. k + 1}
    <3>1. obj[p].eps = {M!EndPointOf(ds[i]) : i \in 1 .. k}  BY <1>1, <1>9, <2>3 DEF ParsedTo
    <3>2. obj'[p].eps = obj[p].eps \cup {M!EndPointOf(ds[k + 1])}  BY <1>5, <1>6
    <3> QED  BY <2>1, <3>1, <3>2
  <2> QED  BY <2>2, <2>3
<1>11. obj'[p].locator = "yes" => M!NeedLocator(want[t])  BY <1>1, <1>5, <1>6 DEF AskedInv
<1>12. p \in asked => M!NeedLocator(want[t]) \/ obj'[p].stray  BY <1>1, <1>5, <1>6 DEF AskedInv
<1>13. ~M!Accepted(d) => ~InOrder(want[t])  BY <1>3 DEF InOrder
<1>14. /\ mpc'[t] \in {"parse", "fail"} /\ obj'[p].state = "parsing"
       /\ mpc'[t] = "parse" => ~M!NeedLocator(want[t]) /\ ParsedTo(p, obj[p].parsed)'
       /\ mpc'[t] = "fail" => ~InOrder(want[t])
  BY <1>1, <1>5, <1>6, <1>7, <1>9, <1>10, <1>13
<1> HIDE DEF Shared
<1> QED  BY <1>8, <1>11, <1>12, <1>14, FillShared

(* The parse is over, and the proxy ready.                                   *)
LEMMA ParsedShared ==
    ASSUME Shared, NEW t \in Threads, M!ParseDone(t) \/ M!Query(t)
    PROVE  Shared'
<1> USE DEF Shared
<1> DEFINE p == got[t]
           o == [obj[p] EXCEPT !.state = "ready"]
<1>0. M!Parsed(t) /\ Filling(t)  BY DEF M!ParseDone, M!Query, Filling
<1>1. p \in M!Proxies /\ obj[p].str = want[t] /\ want[t] \in Strings /\ obj[p].state = "parsing"
  BY <1>0 DEF OwnersInv, Owns
<1>2. obj[p] \in Objects  BY <1>1 DEF ObjectsInv
<1>3. /\ o \in Objects /\ o.state = "ready" /\ o.str = obj[p].str /\ o.eps = obj[p].eps
      /\ o.parsed = obj[p].parsed /\ o.stray = obj[p].stray /\ o.locator = obj[p].locator
  BY <1>2 DEF Objects
<1>4. obj' = [obj EXCEPT ![p] = o] /\ obj'[p] = o  BY <1>0, <1>1 DEF M!Parsed, ObjectsInv
<1>5. mpc'[t] = "has"  BY <1>0 DEF M!Parsed, M!TypeOK
<1> HIDE DEF o
<1>6. obj[p].parsed \in 0 .. Len(Descs[obj[p].str])  BY <1>1 DEF M!TypeOK
<1>7. Fills(t, p)
  <2>2. \E a : mpc' = [mpc EXCEPT ![t] = a]  BY <1>0 DEF M!Parsed
  <2>3. UNCHANGED <<proxys, want, got, M!netVars, asked>>  BY <1>0 DEF M!Parsed
  <2> QED  BY <1>0, <1>1, <1>3, <1>4, <1>6, <2>2, <2>3 DEF Fills
<1>8. obj'[p].locator = "yes" => M!NeedLocator(want[t])  BY <1>1, <1>3, <1>4 DEF AskedInv
<1>9. p \in asked => M!NeedLocator(want[t]) \/ obj'[p].stray  BY <1>1, <1>3, <1>4 DEF AskedInv
<1>10. ASSUME ~M!NeedLocator(want[t]), ~obj'[p].stray
       PROVE  /\ \A i \in DOMAIN Descs[want[t]] : M!Accepted(Descs[want[t]][i])
              /\ obj'[p].eps = {M!EndPointOf(Descs[want[t]][i]) : i \in DOMAIN Descs[want[t]]}
  <2>1. M!ParseDone(t)  BY <1>10 DEF M!Query, ParseInv
  <2>2. ParsedTo(p, obj[p].parsed) /\ obj[p].parsed = Len(Descs[want[t]])
    BY <2>1 DEF M!ParseDone, ParseInv
  <2>3. DOMAIN Descs[want[t]] = 1 .. obj[p].parsed  BY <1>1, <2>2, DescFacts
  <2> QED  BY <1>1, <1>3, <1>4, <1>10, <2>2, <2>3 DEF ParsedTo
<1> QED  BY <1>1, <1>3, <1>4, <1>5, <1>7, <1>8, <1>9, <1>10, FillShared

(* The parse has failed, and the proxy is deleted but still in m_proxys.     *)
LEMMA DeleteProxyShared ==
    ASSUME Shared, NEW t \in Threads, M!DeleteProxy(t)
    PROVE  Shared'
<1> USE DEF Shared
<1> DEFINE p == got[t]
           o == [obj[p] EXCEPT !.state = "deleted"]
<1>0. Filling(t) /\ ~InOrder(want[t])  BY DEF M!DeleteProxy, Filling, ParseInv
<1>1. p \in M!Proxies /\ obj[p].str = want[t] /\ want[t] \in Strings /\ obj[p].state = "parsing"
  BY <1>0 DEF OwnersInv, Owns
<1>2. obj[p] \in Objects  BY <1>1 DEF ObjectsInv
<1>3. /\ o \in Objects /\ o.state = "deleted" /\ o.str = obj[p].str /\ o.eps = obj[p].eps
      /\ o.parsed = obj[p].parsed /\ o.stray = obj[p].stray /\ o.locator = obj[p].locator
  BY <1>2 DEF Objects
<1>4. obj' = [obj EXCEPT ![p] = o] /\ obj'[p] = o  BY <1>1 DEF M!DeleteProxy, ObjectsInv
<1>5. mpc'[t] = "erase"  BY DEF M!DeleteProxy, M!TypeOK
<1> HIDE DEF o
<1>6. obj[p].parsed \in 0 .. Len(Descs[obj[p].str])  BY <1>1 DEF M!TypeOK
<1>7. Fills(t, p)
  <2>2. \E a : mpc' = [mpc EXCEPT ![t] = a]  BY DEF M!DeleteProxy
  <2>3. UNCHANGED <<proxys, want, got, M!netVars, asked>>  BY DEF M!DeleteProxy
  <2> QED  BY <1>0, <1>1, <1>3, <1>4, <1>6, <2>2, <2>3 DEF Fills
<1>8. obj'[p].locator = "yes" => M!NeedLocator(want[t])  BY <1>1, <1>3, <1>4 DEF AskedInv
<1>9. p \in asked => M!NeedLocator(want[t]) \/ obj'[p].stray  BY <1>1, <1>3, <1>4 DEF AskedInv
<1> QED  BY <1>0, <1>1, <1>3, <1>4, <1>5, <1>7, <1>8, <1>9, FillShared

(* EraseProxy(): the entry of the deleted proxy goes, and no other.          *)
LEMMA EraseProxyShared ==
    ASSUME Shared, NEW t \in Threads, M!EraseProxy(t)
    PROVE  Shared'
<1> USE DEF Shared
<1>0. UNCHANGED <<want, obj, mnpc, lock, mtodo, undef, asked>>  BY DEF M!EraseProxy, M!netVars
<1>1. /\ want[t] \in Strings /\ got[t] \in M!Proxies /\ proxys[want[t]] = got[t]
      /\ obj[got[t]].state = "deleted" /\ Owns(t) /\ ~InOrder(want[t])
  BY DEF M!EraseProxy, OwnersInv, Owns, Filling, ParseInv
<1>2. \A u \in Threads : u # t => mpc'[u] = mpc[u] /\ got'[u] = got[u]  BY DEF M!EraseProxy, M!TypeOK
<1>3. mpc'[t] = "null"  BY DEF M!EraseProxy, M!TypeOK
<1>4. /\ proxys'[want[t]] = M!None
      /\ \A r \in Strings : r # want[t] => proxys'[r] = proxys[r]
  BY <1>1 DEF M!EraseProxy, M!TypeOK
<1>5. M!TypeOK'
  <2>1. /\ proxys' \in [Strings -> M!Proxies \cup {M!None}] /\ got' \in [Threads -> M!Proxies \cup {M!None}]
        /\ mpc' \in [Threads -> {"idle", "begin", "parse", "query", "fail", "erase", "has", "null"}]
    BY DEF M!EraseProxy, M!TypeOK
  <2> QED  BY <1>0, <2>1 DEF M!TypeOK
<1>6. ObjectsInv'  BY <1>0, <1>4 DEF ObjectsInv
<1>7. \A u \in Threads : Owns(u) /\ u # t => want[u] # want[t]
  BY <1>1 DEF OwnersInv
<1>8. OwnersInv'
  <2>1. ~Owns(t)' /\ ~Filling(t)'  BY <1>3 DEF Owns, Filling
  <2>2. \A u \in Threads : u # t => (Owns(u)' <=> Owns(u)) /\ (Filling(u)' <=> Filling(u))
    BY <1>2 DEF Owns, Filling
  <2> QED  BY <1>0, <1>2, <1>4, <1>7, <2>1, <2>2 DEF OwnersInv
<1>9. ParseInv'  BY <1>0, <1>2, <1>3 DEF ParseInv, ParsedTo
<1>10. AskedInv'  BY <1>0 DEF AskedInv
<1>11. TodoInv'  BY <1>0 DEF M!EraseProxy, TodoInv, M!TypeOK
<1>12. HasInv'  BY <1>0, <1>2, <1>3 DEF HasInv
<1>13. M!MapHoldsLive'
  <2>1. ASSUME NEW q \in M!Proxies, obj[q].state \in {"parsing", "ready"}
        PROVE  proxys'[obj[q].str] = q
    <3>1. proxys[obj[q].str] = q /\ obj[q].str \in Strings  BY <2>1 DEF M!MapHoldsLive, M!TypeOK
    <3>2. obj[q].str # want[t]  BY <1>1, <2>1, <3>1
    <3> QED  BY <1>4, <3>1, <3>2
  <2>2. ASSUME NEW r \in Strings, proxys'[r] # M!None, obj[proxys'[r]].state = "deleted"
        PROVE  \E u \in Threads : mpc'[u] = "erase" /\ want[u] = r
    <3>1. r # want[t] /\ proxys'[r] = proxys[r]  BY <1>4, <2>2
    <3>2. PICK u \in Threads : mpc[u] = "erase" /\ want[u] = r  BY <2>2, <3>1 DEF M!MapHoldsLive
    <3> QED  BY <1>2, <3>1, <3>2
  <2> QED  BY <1>0, <2>1, <2>2 DEF M!MapHoldsLive
<1>14. M!GoodIsShared'
  <2>1. ASSUME NEW u \in Threads, mpc'[u] = "has", InOrder(want[u])
        PROVE  got'[u] = proxys'[want[u]] /\ obj[got'[u]].state # "deleted"
    <3>1. u # t  BY <1>3, <2>1
    <3>2. got[u] = proxys[want[u]] /\ obj[got[u]].state # "deleted" /\ want[u] \in Strings
      BY <1>2, <2>1, <3>1 DEF M!GoodIsShared, InOrder, HasInv
    <3>3. want[u] # want[t]  BY <1>1, <2>1
    <3> QED  BY <1>2, <1>4, <3>1, <3>2, <3>3
  <2> QED  BY <1>0, <2>1 DEF M!GoodIsShared, InOrder
<1>15. M!ReadyHasEndPoints'  BY <1>0 DEF M!ReadyHasEndPoints
<1> QED  BY <1>5, <1>6, <1>8, <1>9, <1>10, <1>11, <1>12, <1>13, <1>14, <1>15

(* Again(): the thread forgets what it got.                                  *)
LEMMA AgainShared ==
    ASSUME Shared, NEW t \in Threads, M!Again(t)
    PROVE  Shared'
<1> USE DEF Shared
<1>0. UNCHANGED <<proxys, obj, mnpc, lock, mtodo, undef, asked>>  BY DEF M!Again, M!netVars
<1>1. \A u \in Threads : u # t => mpc'[u] = mpc[u] /\ want'[u] = want[u] /\ got'[u] = got[u]
  BY DEF M!Again, M!TypeOK
<1>2. mpc'[t] = "idle" /\ mpc[t] \in {"has", "null"}  BY DEF M!Again, M!TypeOK
<1>3. M!TypeOK'  BY <1>0 DEF M!Again, M!TypeOK
<1>4. ObjectsInv' /\ AskedInv' /\ TodoInv' /\ M!ReadyHasEndPoints'
  BY <1>0 DEF ObjectsInv, AskedInv, TodoInv, M!Known, M!ReadyHasEndPoints
<1>5. OwnersInv'  BY <1>0, <1>1, <1>2 DEF OwnersInv, Owns, Filling
<1>6. ParseInv'  BY <1>0, <1>1, <1>2 DEF ParseInv, ParsedTo
<1>7. HasInv'  BY <1>1, <1>2 DEF HasInv
<1>8. M!MapHoldsLive'
  <2>1. \A u \in Threads : mpc[u] = "erase" => u # t  BY <1>2
  <2> QED  BY <1>0, <1>1, <2>1 DEF M!MapHoldsLive
<1>9. M!GoodIsShared'  BY <1>0, <1>1, <1>2 DEF M!GoodIsShared
<1> QED  BY <1>3, <1>4, <1>5, <1>6, <1>7, <1>8, <1>9

(* A step of the net thread leaves m_proxys and the threads alone, and of a  *)
(* proxy changes at most what a location in flight may change.               *)
LEMMA NetShared ==
    ASSUME Shared, UNCHANGED <<proxys, mpc, want, got>>, obj' \in [M!Proxies -> Objects],
           \A p \in M!Proxies :
              /\ obj'[p].state = obj[p].state /\ obj'[p].str = obj[p].str
              /\ obj'[p].locator = obj[p].locator /\ obj'[p].parsed = obj[p].parsed
              /\ obj[p].stray => obj'[p].stray
              /\ \/ obj'[p].eps = obj[p].eps
                 \/ obj'[p].eps = {} /\ (M!NeedLocator(obj[p].str) \/ obj[p].stray),
           AskedInv', TodoInv', asked' \subseteq M!Proxies, mtodo' \subseteq Strings, undef' \in BOOLEAN,
           mnpc' \in {"loop", "timeouts", "update", "undefined"}, lock' \in BOOLEAN,
           lock' <=> mnpc' \in {"timeouts", "update"}
    PROVE  Shared'
<1> USE DEF Shared
<1>1. M!TypeOK'  BY DEF M!TypeOK
<1>2. ObjectsInv'  BY DEF ObjectsInv, M!TypeOK, M!Proxies, M!None
<1>3. \A t \in Threads : (Owns(t)' <=> Owns(t)) /\ (Filling(t)' <=> Filling(t))
  BY DEF Owns, Filling
<1>4. OwnersInv'  BY <1>3 DEF OwnersInv
<1>5. ParseInv'
  <2>1. ASSUME NEW t \in Threads, mpc[t] = "begin"
        PROVE  obj'[got[t]].parsed = 0 /\ obj'[got[t]].eps = {}
    BY <2>1 DEF ParseInv, OwnersInv, Owns, Filling
  <2>2. ASSUME NEW t \in Threads, mpc[t] = "parse"
        PROVE  ParsedTo(got[t], obj[got[t]].parsed)'
    <3>1. got[t] \in M!Proxies /\ ~M!NeedLocator(obj[got[t]].str) /\ ParsedTo(got[t], obj[got[t]].parsed)
      BY <2>2 DEF ParseInv, OwnersInv, Owns, Filling
    <3> QED  BY <3>1 DEF ParsedTo
  <2> QED  BY <2>1, <2>2 DEF ParseInv
<1>6. HasInv'  BY DEF HasInv
<1>7. M!MapHoldsLive'
  <2>1. \A q \in M!Proxies : obj'[q].state \in {"parsing", "ready"} => proxys'[obj'[q].str] = q
    BY DEF M!MapHoldsLive
  <2>2. \A r \in Strings : proxys'[r] # M!None => obj'[proxys'[r]].state = obj[proxys[r]].state
    BY DEF M!TypeOK
  <2> QED  BY <2>1, <2>2 DEF M!MapHoldsLive
<1>8. M!GoodIsShared'
  <2>1. \A t \in Threads : mpc[t] = "has" => obj'[got[t]].state = obj[got[t]].state
    BY DEF HasInv
  <2> QED  BY <2>1 DEF M!GoodIsShared
<1>9. M!ReadyHasEndPoints'
  <2>1. ASSUME NEW p \in M!Proxies, obj'[p].state = "ready", ~M!NeedLocator(obj'[p].str), ~obj'[p].stray
        PROVE  /\ \A i \in DOMAIN Descs[obj'[p].str] : M!Accepted(Descs[obj'[p].str][i])
               /\ obj'[p].eps = {M!EndPointOf(Descs[obj'[p].str][i]) : i \in DOMAIN Descs[obj'[p].str]}
    <3>1. /\ obj[p].state = "ready" /\ obj'[p].str = obj[p].str /\ ~obj[p].stray
          /\ obj'[p].eps = obj[p].eps /\ ~M!NeedLocator(obj[p].str)
      BY <2>1
    <3>2. /\ \A i \in DOMAIN Descs[obj[p].str] : M!Accepted(Descs[obj[p].str][i])
          /\ obj[p].eps = {M!EndPointOf(Descs[obj[p].str][i]) : i \in DOMAIN Descs[obj[p].str]}
      <4>1. M!ReadyHasEndPoints  OBVIOUS
      <4> HIDE DEF Shared
      <4> QED  BY <3>1, <4>1 DEF M!ReadyHasEndPoints
    <3> HIDE DEF Shared
    <3> QED  BY <3>1, <3>2
  <2> QED  BY <2>1 DEF M!ReadyHasEndPoints
<1> QED  BY <1>1, <1>2, <1>4, <1>5, <1>6, <1>7, <1>8, <1>9

(* The net thread locks the mutex, goes on to the updates, and unlocks it.   *)
LEMMA UpdateShared ==
    ASSUME Shared, M!UpdateInNetLoop \/ M!UpdateDue \/ M!UpdateDone
    PROVE  Shared'
<1> USE DEF Shared
<1>1. UNCHANGED <<proxys, obj, mpc, want, got, asked, undef>>
  BY DEF M!UpdateInNetLoop, M!UpdateDue, M!UpdateDone, M!threadVars
<1>2. AskedInv'  BY <1>1 DEF AskedInv
<1>3. TodoInv'  BY <1>1 DEF M!UpdateInNetLoop, M!UpdateDue, M!UpdateDone, TodoInv, M!Known
<1>4. /\ mtodo' \subseteq Strings /\ mnpc' \in {"loop", "timeouts", "update"} /\ lock' \in BOOLEAN
      /\ lock' <=> mnpc' \in {"timeouts", "update"}
  BY DEF M!UpdateInNetLoop, M!UpdateDue, M!UpdateDone, M!Known, M!TypeOK
<1>5. obj' \in [M!Proxies -> Objects] /\ asked' \subseteq M!Proxies /\ undef' \in BOOLEAN
  BY <1>1 DEF ObjectsInv, M!TypeOK
<1> HIDE DEF Shared
<1> QED  BY <1>1, <1>2, <1>3, <1>4, <1>5, NetShared

(* What the net thread visits is in m_proxys, and so a proxy.                *)
LEMMA TouchFacts ==
    ASSUME Shared, NEW s \in mtodo, mnpc \in {"timeouts", "update"}, proxys' = proxys, M!Touch(s)
    PROVE  /\ proxys[s] \in M!Proxies /\ TodoInv' /\ mtodo' \subseteq Strings /\ undef' \in BOOLEAN
           /\ mnpc' \in {"loop", "timeouts", "update", "undefined"} /\ lock' \in BOOLEAN
           /\ lock' <=> mnpc' \in {"timeouts", "update"}
<1> USE DEF Shared
<1>1. proxys[s] \in M!Proxies  BY DEF TodoInv, M!Known, M!TypeOK
<1>2. mtodo' \subseteq Strings /\ TodoInv'  BY DEF M!Touch, M!TypeOK, TodoInv, M!Known
<1>3. undef' \in BOOLEAN  BY DEF M!Touch, M!TypeOK
<1>4. lock' = (lock /\ ~undef') /\ mnpc' = IF undef' THEN "undefined" ELSE mnpc  BY DEF M!Touch
<1>5. lock /\ lock \in BOOLEAN  BY DEF M!TypeOK
<1>6. CASE undef'  BY <1>1, <1>2, <1>3, <1>4, <1>5, <1>6
<1>7. CASE ~undef'  BY <1>1, <1>2, <1>3, <1>4, <1>5, <1>7
<1> QED  BY <1>6, <1>7

(* DoTimeOut(): the timeouts of one proxy.                                   *)
LEMMA DoTimeOutShared ==
    ASSUME Shared, NEW s \in Strings, M!DoTimeOut(s)
    PROVE  Shared'
<1> USE DEF Shared
<1>1. UNCHANGED <<proxys, obj, mpc, want, got, asked>>  BY DEF M!DoTimeOut, M!threadVars
<1>2. s \in mtodo /\ mnpc = "timeouts" /\ M!Touch(s)  BY DEF M!DoTimeOut
<1>3. AskedInv'  BY <1>1 DEF AskedInv
<1>4. obj' \in [M!Proxies -> Objects] /\ asked' \subseteq M!Proxies  BY <1>1 DEF ObjectsInv, M!TypeOK
<1> HIDE DEF Shared
<1> QED  BY <1>1, <1>2, <1>3, <1>4, NetShared, TouchFacts

(* DoAsyncUpdate(): the proxy may be asked for before it is parsed.          *)
LEMMA DoAsyncUpdateShared ==
    ASSUME Shared, NEW s \in Strings, M!DoAsyncUpdate(s)
    PROVE  Shared'
<1> USE DEF Shared
<1>1. UNCHANGED <<proxys, mpc, want, got>>  BY DEF M!DoAsyncUpdate, M!threadVars
<1>2. s \in mtodo /\ mnpc = "update" /\ M!Touch(s)  BY DEF M!DoAsyncUpdate
<1>3. PICK p : p = proxys[s]  OBVIOUS
<1>4. /\ p \in M!Proxies /\ obj[p].state # "none"
      /\ TodoInv' /\ mtodo' \subseteq Strings /\ undef' \in BOOLEAN
      /\ mnpc' \in {"loop", "timeouts", "update", "undefined"} /\ lock' \in BOOLEAN
      /\ lock' <=> mnpc' \in {"timeouts", "update"}
  <2>1. proxys[s] \in M!Proxies /\ proxys[s] # M!None /\ s \in Strings
    <3> HIDE DEF Shared
    <3>1. proxys[s] \in M!Proxies  BY <1>1, <1>2, TouchFacts
    <3> QED  BY <3>1 DEF M!Proxies, M!None
  <2>2. obj[p].state # "none"  BY <1>3, <2>1 DEF ObjectsInv
  <2> HIDE DEF Shared
  <2> QED  BY <1>1, <1>2, <1>3, <2>1, <2>2, TouchFacts
<1>5. CASE UNCHANGED <<obj, asked>>
  <2>1. AskedInv'  BY <1>5 DEF AskedInv
  <2>2. obj' \in [M!Proxies -> Objects] /\ asked' \subseteq M!Proxies  BY <1>5 DEF ObjectsInv, M!TypeOK
  <2> HIDE DEF Shared
  <2> QED  BY <1>1, <1>4, <1>5, <2>1, <2>2, NetShared
<1>6. CASE /\ obj[p].locator # "no" /\ asked' = asked \cup {p}
           /\ obj' = [obj EXCEPT ![p].stray = @ \/ obj[p].locator = "unset"]
  <2> DEFINE b == obj[p].stray \/ obj[p].locator = "unset"
             o == [obj[p] EXCEPT !.stray = b]
  <2>1. obj[p] \in Objects  BY <1>4 DEF ObjectsInv
  <2>2. b \in BOOLEAN  OBVIOUS
  <2>3. /\ o \in Objects /\ o.state = obj[p].state /\ o.str = obj[p].str /\ o.eps = obj[p].eps
        /\ o.parsed = obj[p].parsed /\ o.locator = obj[p].locator /\ o.stray = b
    <3> HIDE DEF b
    <3> QED  BY <2>1, <2>2 DEF Objects
  <2>4. obj' = [obj EXCEPT ![p] = o] /\ obj'[p] = o  BY <1>4, <1>6 DEF ObjectsInv
  <2> HIDE DEF o
  <2>5. \A q \in M!Proxies : q # p => obj'[q] = obj[q]  BY <2>4 DEF ObjectsInv
  <2>6. obj' \in [M!Proxies -> Objects] /\ asked' \subseteq M!Proxies
    BY <1>4, <1>6, <2>3, <2>4 DEF ObjectsInv, M!TypeOK
  <2>7. obj[p].locator \in {"unset", "yes", "no"}  BY <1>4 DEF M!TypeOK
  <2>8. M!NeedLocator(obj[p].str) \/ b  BY <1>4, <1>6, <2>7 DEF AskedInv
  <2>9. AskedInv'
    <3>1. \A q \in M!Proxies : obj'[q].locator = "yes" => M!NeedLocator(obj'[q].str)
      BY <2>3, <2>4, <2>5 DEF AskedInv
    <3>2. ASSUME NEW q \in asked'
          PROVE  obj'[q].state # "none" /\ (M!NeedLocator(obj'[q].str) \/ obj'[q].stray)
      <4>1. CASE q = p  BY <1>4, <2>3, <2>4, <2>8, <4>1
      <4>2. CASE q # p  BY <1>6, <2>5, <3>2, <4>2 DEF AskedInv, M!TypeOK
      <4> QED  BY <4>1, <4>2
    <3> QED  BY <3>1, <3>2 DEF AskedInv
  <2>10. \A q \in M!Proxies :
          /\ obj'[q].state = obj[q].state /\ obj'[q].str = obj[q].str /\ obj'[q].eps = obj[q].eps
          /\ obj'[q].locator = obj[q].locator /\ obj'[q].parsed = obj[q].parsed
          /\ obj[q].stray => obj'[q].stray
    BY <2>3, <2>4, <2>5
  <2> HIDE DEF Shared, b
  <2> QED  BY <1>1, <1>4, <2>6, <2>9, <2>10, NetShared
<1> QED  BY <1>3, <1>5, <1>6 DEF M!DoAsyncUpdate

(* Located(): what the registry says replaces the endpoints.                 *)
LEMMA LocatedShared ==
    ASSUME Shared, NEW p \in M!Proxies, M!Located(p)
    PROVE  Shared'
<1> USE DEF Shared
<1>1. UNCHANGED <<proxys, mpc, want, got, lock, mtodo>>  BY DEF M!Located, M!threadVars
<1>2. mnpc = "loop" /\ p \in asked /\ asked' = asked \ {p}  BY DEF M!Located
<1> DEFINE o == [obj[p] EXCEPT !.eps = {}]
<1>3. obj[p] \in Objects  BY DEF ObjectsInv
<1>4. /\ o \in Objects /\ o.state = obj[p].state /\ o.str = obj[p].str /\ o.eps = {}
      /\ o.parsed = obj[p].parsed /\ o.stray = obj[p].stray /\ o.locator = obj[p].locator
  BY <1>3 DEF Objects
<1>5. obj' = [obj EXCEPT ![p] = o] /\ obj'[p] = o  BY DEF M!Located, ObjectsInv
<1> HIDE DEF o
<1>6. \A q \in M!Proxies : q # p => obj'[q] = obj[q]  BY <1>5 DEF ObjectsInv
<1>7. obj' \in [M!Proxies -> Objects] /\ asked' \subseteq M!Proxies
  BY <1>2, <1>4, <1>5 DEF ObjectsInv, M!TypeOK
<1>8. \A q \in M!Proxies :
        /\ obj'[q].state = obj[q].state /\ obj'[q].str = obj[q].str
        /\ obj'[q].locator = obj[q].locator /\ obj'[q].parsed = obj[q].parsed
        /\ obj'[q].stray = obj[q].stray
  BY <1>4, <1>5, <1>6
<1>9. AskedInv'  BY <1>2, <1>8 DEF AskedInv, M!TypeOK
<1>10. \A q \in M!Proxies :
        \/ obj'[q].eps = obj[q].eps
        \/ obj'[q].eps = {} /\ (M!NeedLocator(obj[q].str) \/ obj[q].stray)
  BY <1>2, <1>4, <1>5, <1>6 DEF AskedInv
<1>11. /\ undef' \in BOOLEAN /\ mnpc' \in {"loop", "undefined"} /\ mtodo' \subseteq Strings
       /\ lock' \in BOOLEAN /\ (lock' <=> mnpc' \in {"timeouts", "update"}) /\ TodoInv'
  BY <1>1 DEF M!Located, M!TypeOK, TodoInv
<1> HIDE DEF Shared
<1> QED  BY <1>1, <1>7, <1>8, <1>9, <1>10, <1>11, NetShared

(* No step of a thread or of the net thread breaks the invariant.            *)
LEMMA SharedStep == Shared /\ [M!Next]_(M!vars) => Shared'
<1> SUFFICES ASSUME Shared, [M!Next]_(M!vars)  PROVE Shared'  OBVIOUS
<1>1. CASE UNCHANGED M!vars
  <2>1. UNCHANGED <<proxys, obj, mpc, want, got, lock, mnpc, mtodo, undef, asked>>
    BY <1>1 DEF M!vars, M!threadVars, M!netVars
  <2>2. M!TypeOK' /\ ObjectsInv' /\ AskedInv' /\ TodoInv' /\ HasInv'
    BY <2>1 DEF Shared, M!TypeOK, ObjectsInv, AskedInv, TodoInv, M!Known, HasInv
  <2>3. OwnersInv' /\ ParseInv'
    BY <2>1 DEF Shared, OwnersInv, Owns, Filling, ParseInv, ParsedTo
  <2>4. M!MapHoldsLive' /\ M!GoodIsShared' /\ M!ReadyHasEndPoints'
    BY <2>1 DEF Shared, M!MapHoldsLive, M!GoodIsShared, M!ReadyHasEndPoints
  <2> QED  BY <2>2, <2>3, <2>4 DEF Shared
<1>2. ASSUME NEW t \in Threads, NEW s \in Strings, M!Find(t, s) \/ M!Insert(t, s)  PROVE Shared'
  BY <1>2, FindShared, InsertShared
<1>3. ASSUME NEW t \in Threads,
             \/ M!ParseBegin(t) \/ M!ParseOne(t) \/ M!ParseDone(t) \/ M!Query(t)
             \/ M!DeleteProxy(t) \/ M!EraseProxy(t) \/ M!Again(t)
      PROVE  Shared'
  BY <1>3, ParseBeginShared, ParseOneShared, ParsedShared, DeleteProxyShared,
     EraseProxyShared, AgainShared
<1>4. CASE M!UpdateInNetLoop \/ M!UpdateDue \/ M!UpdateDone  BY <1>4, UpdateShared
<1>5. ASSUME NEW s \in Strings, M!DoTimeOut(s) \/ M!DoAsyncUpdate(s)  PROVE Shared'
  BY <1>5, DoTimeOutShared, DoAsyncUpdateShared
<1>6. ASSUME NEW p \in M!Proxies, M!Located(p)  PROVE Shared'  BY <1>6, LocatedShared
<1> QED  BY <1>1, <1>2, <1>3, <1>4, <1>5, <1>6 DEF M!Next

-----------------------------------------------------------------------------
(* The client *)

(* A step of the client is one of the proxy or one of the manager.           *)
LEMMA ClientStep == IInv /\ Shared /\ [ClientNext]_clientVars => IInv' /\ Shared'
<1> SUFFICES ASSUME IInv, Shared, [ClientNext]_clientVars  PROVE IInv' /\ Shared'  OBVIOUS
<1>1. [Next]_vars  BY DEF ClientNext, clientVars
<1>2. [M!Next]_(M!vars)
  BY DEF ClientNext, clientVars, managerVars, M!vars, M!threadVars, M!netVars
<1> QED  BY <1>1, <1>2, IInvStep, SharedStep

(* Whatever the strings are and however many threads ask for them: m_proxys  *)
(* holds every proxy that is not deleted, a string in order is given one     *)
(* proxy that is never deleted, and a proxy that is ready has its endpoints. *)
THEOREM ManagerShares == ClientSpec => []ManagerInv
<1>1. ClientInit => IInv /\ Shared  BY IInvInit, SharedInit DEF ClientInit
<1>2. IInv /\ Shared => ManagerInv  BY DEF IInv, Shared, ManagerInv
<1> QED  BY <1>1, <1>2, ClientStep, PTL DEF ClientSpec
=============================================================================
