------------------------------ MODULE Registry ------------------------------
(* The registry server: the threads of RegistryServiceImp take heartbeats    *)
(* and queries, the main loop runs ServiceManager::update(), which writes    *)
(* what is new to the database and loads the table from it from time to      *)
(* time.  ServiceManager has a mutex for each of its four containers, so     *)
(* every step between two of them may interleave with the others.            *)
(*                                                                           *)
(* An operator BadX is a faulty variant of X that the specification does not *)
(* use: it serves to see the property that guards against the slip fail.     *)
EXTENDS Integers, Sequences, FiniteSets

CONSTANTS
    Services,   \* the services that register, each with a key of its own
    Addrs,      \* the pairs of ip and port
    Places,     \* where the services are: two may have the same ip and port
    Threads,    \* the threads of RegistryServiceImp
    Active,     \* activeInterval
    DbFails,    \* a statement of the database may fail
    MaxTime, MaxBeat   \* bounds: how far the clock runs, heartbeats in all

ASSUME RegistryAssumption ==
    /\ Places \subseteq [Services -> Addrs]
    /\ Active \in Nat /\ MaxTime \in Nat /\ MaxBeat \in Nat
    /\ DbFails \in BOOLEAN

VARIABLES
    \* ServiceManager
    services,   \* m_services: the entries of a key, each a time and active
    all,        \* m_allService: the addresses of the last load
    new,        \* m_newServices
    upd,        \* m_updateServices: services and their times
    \* the database: one row per insert
    rows,       \* for each service the heart_beat_time of its rows
    timed,      \* a row that is inserted gets some time in that column
    \* the main loop in update()
    upc, batch, loaded,
    \* the threads in heartBeat()
    pc, req,
    \* the world and history
    addr,       \* ip and port of each service
    clock, beats,
    reg,        \* the services that have registered as new
    last,       \* when the entries of a service were refreshed last, or -1
    bare,       \* the services with a row that no heartbeat was written to
    lost        \* the services dropped from a batch after a failed statement

mgr == <<services, all, new, upd>>
main == <<upc, batch, loaded>>
hist == <<addr, timed, reg, last, bare, lost>>
vars == <<mgr, rows, main, pc, req, clock, beats, hist>>

Times == 0 .. MaxTime
Entry == [time : Times, active : BOOLEAN]
Item == [svc : Services, time : Times]
NoService == "none"
\* A column heart_beat_time that is NULL, or that the table does not have.
NoTime == -1

TypeOK ==
    /\ services \in [Services -> Seq(Entry)]
    /\ all \subseteq Addrs
    /\ new \in Seq(Services)
    /\ upd \in Seq(Item)
    /\ rows \in [Services -> Seq(Times \cup {NoTime})]
    /\ timed \in BOOLEAN
    /\ upc \in {"idle", "new", "update", "load", "swap", "swapAll"}
    /\ batch \in Seq(Item)
    /\ loaded \in [Services -> Seq(Entry)]
    /\ pc \in [Threads -> {"idle", "new", "list", "known"}]
    /\ req \in [Threads -> Services \cup {NoService}]
    /\ addr \in Places
    /\ clock \in Times /\ beats \in 0 .. MaxBeat
    /\ reg \subseteq Services
    /\ last \in [Services -> Times \cup {-1}]
    /\ bare \subseteq Services /\ lost \subseteq Services

Empty == [s \in Services |-> <<>>]

\* After init(): the table holds what an earlier run of the server has left
\* there, and loadFromDB() has loaded it, or has failed.
Init ==
    /\ addr \in Places
    /\ rows \in [Services -> {<<>>, <<0>>}]
    /\ \/ services = [s \in Services |->
                         [i \in DOMAIN rows[s] |-> [time |-> 0, active |-> TRUE]]]
          /\ all = {addr[s] : s \in {q \in Services : rows[q] # <<>>}}
       \/ DbFails /\ services = Empty /\ all = {}
    /\ new = <<>> /\ upd = <<>>
    /\ upc = "idle" /\ batch = <<>> /\ loaded = Empty
    /\ pc = [t \in Threads |-> "idle"] /\ req = [t \in Threads |-> NoService]
    /\ clock = 0 /\ beats = 0
    /\ last = [s \in Services |-> -1]
    /\ timed \in BOOLEAN
    /\ reg = {} /\ bare = {} /\ lost = {}

Tick ==
    /\ clock < MaxTime
    /\ clock' = clock + 1
    /\ UNCHANGED <<mgr, rows, main, pc, req, beats, hist>>

-----------------------------------------------------------------------------
(* heartBeat() *)

\* isNewService() by ip and port, under m_mutexAllService
HeartBeat(t, s) ==
    /\ pc[t] = "idle" /\ beats < MaxBeat
    /\ beats' = beats + 1
    /\ req' = [req EXCEPT ![t] = s]
    /\ pc' = [pc EXCEPT ![t] = IF addr[s] \in all THEN "known" ELSE "new"]
    /\ UNCHANGED <<mgr, rows, main, clock, hist>>

\* addNewService() under m_newMutex
AddNewService(t) ==
    /\ pc[t] = "new"
    /\ new' = Append(new, req[t])
    /\ pc' = [pc EXCEPT ![t] = "list"]
    /\ UNCHANGED <<services, all, upd, rows, main, req, clock, beats, hist>>

\* getService() under m_mutex, of which Query() answers the active entries: their
\* places in the list.
Query(s) == {i \in DOMAIN services[s] : services[s][i].active}

Done(t) ==
    /\ pc' = [pc EXCEPT ![t] = "idle"]
    /\ req' = [req EXCEPT ![t] = NoService]

\* m_services[key].push_back(ep) under m_mutex.  (The time in ep was read a
\* moment before; the clock stands for both readings.)
ListNew(t) ==
    /\ pc[t] = "list"
    /\ services' = [services EXCEPT ![req[t]] = Append(@, [time |-> clock, active |-> TRUE])]
    /\ reg' = reg \cup {req[t]}
    /\ Done(t)
    /\ UNCHANGED <<all, new, upd, rows, main, clock, beats, addr, timed, last, bare, lost>>

\* Under m_mutex every entry of the ip and port is refreshed and queued.
BadRefresh(t) ==
    /\ pc[t] = "known"
    /\ LET s == req[t] IN
          /\ services' = [services EXCEPT ![s] =
                             [i \in DOMAIN @ |-> [time |-> clock, active |-> TRUE]]]
          /\ upd' = upd \o [i \in DOMAIN services[s] |-> [svc |-> s, time |-> services[s][i].time]]
          /\ last' = [last EXCEPT ![s] = IF services[s] = <<>> THEN @ ELSE clock]
    /\ Done(t)
    /\ UNCHANGED <<all, new, rows, main, clock, beats, addr, timed, reg, bare, lost>>
Refresh(t) ==
    /\ pc[t] = "known"
    /\ LET s == req[t] IN
          /\ services' = [services EXCEPT ![s] =
                             [i \in DOMAIN @ |-> [time |-> clock, active |-> TRUE]]]
          /\ upd' = upd \o [i \in DOMAIN services[s] |-> [svc |-> s, time |-> clock]]
          /\ last' = [last EXCEPT ![s] = IF services[s] = <<>> THEN @ ELSE clock]
    /\ Done(t)
    /\ UNCHANGED <<all, new, rows, main, clock, beats, addr, timed, reg, bare, lost>>

-----------------------------------------------------------------------------
(* update(), in the main loop *)

\* flushNewServiceToDB(): the batch is swapped out under m_newMutex ...
FlushNew ==
    /\ upc = "idle"
    /\ batch' = [i \in DOMAIN new |-> [svc |-> new[i], time |-> clock]]
    /\ new' = <<>>
    /\ upc' = "new"
    /\ UNCHANGED <<services, all, upd, rows, loaded, pc, req, clock, beats, hist>>

\* ... and each service inserted.  The statement names no heart_beat_time, so
\* the row gets what the table has for it, of which the code says nothing: a
\* fixed time, the current one, or none.
RowTimes == IF timed THEN {0, clock} ELSE {NoTime}
InsertOne ==
    /\ upc = "new" /\ batch # <<>>
    /\ \E x \in RowTimes : rows' = [rows EXCEPT ![Head(batch).svc] = Append(@, x)]
    /\ bare' = bare \cup {Head(batch).svc}
    /\ batch' = Tail(batch)
    /\ UNCHANGED <<mgr, upc, loaded, pc, req, clock, beats, addr, timed, reg, last, lost>>

\* An exception ends the loop over the batch; the rest of it is gone.
InsertFails ==
    /\ DbFails /\ upc = "new" /\ batch # <<>>
    /\ lost' = lost \cup {batch[i].svc : i \in DOMAIN batch}
    /\ batch' = <<>>
    /\ UNCHANGED <<mgr, rows, upc, loaded, pc, req, clock, beats, addr, timed, reg, last, bare>>

\* Neither interval is over: update() returns; or flushUpdateServiceToDB().
\* (When an interval is over is left open.)
NewDone ==
    /\ upc = "new" /\ batch = <<>>
    /\ \/ upc' = "idle" /\ UNCHANGED <<batch, upd>>
       \/ upc' = "update" /\ batch' = upd /\ upd' = <<>>
    /\ UNCHANGED <<services, all, new, rows, loaded, pc, req, clock, beats, hist>>

\* UPDATE ... WHERE ip and port
UpdateOne ==
    /\ upc = "update" /\ batch # <<>>
    /\ LET b == Head(batch) IN
          rows' = [s \in Services |-> [i \in DOMAIN rows[s] |->
                     IF addr[s] = addr[b.svc] THEN b.time ELSE rows[s][i]]]
    /\ bare' = {s \in bare : addr[s] # addr[Head(batch).svc]}
    /\ batch' = Tail(batch)
    /\ UNCHANGED <<mgr, upc, loaded, pc, req, clock, beats, addr, timed, reg, last, lost>>

UpdateFails ==
    /\ DbFails /\ upc = "update" /\ batch # <<>>
    /\ lost' = lost \cup {batch[i].svc : i \in DOMAIN batch}
    /\ batch' = <<>>
    /\ UNCHANGED <<mgr, rows, upc, loaded, pc, req, clock, beats, addr, timed, reg, last, bare>>

UpdateDone ==
    /\ upc = "update" /\ batch = <<>>
    /\ upc' \in {"idle", "load"}
    /\ UNCHANGED <<mgr, rows, batch, loaded, pc, req, clock, beats, hist>>

\* parseTime() throws an exception for one row without a time.
Parses == \A s \in Services : \A i \in DOMAIN rows[s] : rows[s][i] # NoTime

\* loadFromDB(): an empty table, or an exception, leaves everything as it is.
LoadNothing ==
    /\ upc = "load"
    /\ rows = Empty \/ ~Parses \/ DbFails
    /\ upc' = "idle"
    /\ UNCHANGED <<mgr, rows, batch, loaded, pc, req, clock, beats, hist>>

Load ==
    /\ upc = "load" /\ rows # Empty /\ Parses
    /\ loaded' = [s \in Services |->
                    [i \in DOMAIN rows[s] |->
                       [time |-> rows[s][i], active |-> ~(clock > rows[s][i] + Active)]]]
    /\ upc' = "swap"
    /\ UNCHANGED <<mgr, rows, batch, pc, req, clock, beats, hist>>

\* m_services.swap() under m_mutex, then m_allService.swap() under its own.
BadSwap ==
    /\ upc = "swap"
    /\ all' = {addr[s] : s \in {q \in Services : loaded[q] # <<>>}}
    /\ upc' = "swapAll"
    /\ UNCHANGED <<services, new, upd, rows, batch, loaded, pc, req, clock, beats, hist>>
Swap ==
    /\ upc = "swap"
    /\ services' = loaded
    /\ upc' = "swapAll"
    /\ UNCHANGED <<all, new, upd, rows, batch, loaded, pc, req, clock, beats, hist>>

BadSwapAll ==
    /\ upc = "swapAll"
    /\ loaded' = Empty
    /\ upc' = "idle"
    /\ UNCHANGED <<services, all, new, upd, rows, batch, pc, req, clock, beats, hist>>
SwapAll ==
    /\ upc = "swapAll"
    /\ all' = {addr[s] : s \in {q \in Services : loaded[q] # <<>>}}
    /\ loaded' = Empty
    /\ upc' = "idle"
    /\ UNCHANGED <<services, new, upd, rows, batch, pc, req, clock, beats, hist>>

-----------------------------------------------------------------------------
Beat(t) == AddNewService(t) \/ ListNew(t) \/ Refresh(t)

Update ==
    \/ FlushNew \/ InsertOne \/ InsertFails \/ NewDone \/ UpdateOne \/ UpdateFails
    \/ UpdateDone \/ LoadNothing \/ Load \/ Swap \/ SwapAll

Next ==
    \/ Tick \/ Update
    \/ \E t \in Threads : Beat(t) \/ \E s \in Services : HeartBeat(t, s)

\* The threads and the main loop keep running, and the intervals of update()
\* are over time and again; a select of the database does not fail for ever.
Fairness ==
    /\ \A t \in Threads : WF_vars(Beat(t))
    /\ WF_vars(Update)
    /\ SF_vars(NewDone /\ upc' = "update")
    /\ SF_vars(UpdateDone /\ upc' = "load")
    /\ SF_vars(Load)

Spec == Init /\ [][Next]_vars
FairSpec == Spec /\ Fairness

-----------------------------------------------------------------------------
(* Properties *)

Alone(s) == \A q \in Services : addr[q] = addr[s] => q = s

(* A service whose address is in m_allService has its entry in m_services,   *)
(* at every moment of a load and of other heartbeats, when no other service  *)
(* has its address: a heartbeat that is not taken for new then refreshes an  *)
(* entry and is not dropped.                                                 *)
KnownIsListed ==
    \A s \in Services : Alone(s) =>
        /\ addr[s] \in all => services[s] # <<>>
        /\ \A t \in Threads : pc[t] = "known" /\ req[t] = s => services[s] # <<>>

(* A service that has registered is not forgotten, unless a statement has    *)
(* failed: it is in the table, in m_newServices, or in the batch that is     *)
(* being inserted.                                                           *)
NotForgotten ==
    \A s \in reg \ lost :
        \/ rows[s] # <<>>
        \/ \E i \in DOMAIN new : new[i] = s
        \/ upc = "new" /\ \E i \in DOMAIN batch : batch[i].svc = s

(* The containers and the table fit together between any two steps of a      *)
(* load, a flush, heartbeats and queries: what is known is listed, and what  *)
(* has registered is on its way to the table or in it.                       *)
TablesAgree == TypeOK /\ KnownIsListed /\ NotForgotten

(* A load may make Query() leave out a service that is alive, because its    *)
(* heartbeat came after the flush that preceded the load; but not for ever,  *)
(* and not because a heartbeat was lost or overwritten by an earlier one of  *)
(* another service at the same address.  When a load leaves out a service,   *)
(* the last heartbeat that refreshed it is older than activeInterval or      *)
(* waits for the next flush.  Two cases are excepted: a service for which a  *)
(* statement has failed, and one with a row that no heartbeat was written to *)
(* (the insert of a registering heartbeat leaves no time of its own there).  *)
LeftOutIsSilent ==
    upc = "swapAll" => \A s \in Services \ (lost \cup bare) :
        services[s] # <<>> /\ Query(s) = {} =>
            \/ clock > last[s] + Active
            \/ \E j \in DOMAIN upd : upd[j].svc = s /\ upd[j].time >= last[s]

(* Every service that registers gets into m_allService in the end, and is    *)
(* then not inserted again, unless a statement fails on the way or the table *)
(* gives inserted rows no time: then loadFromDB() fails on the first of them.*)
BecomesKnown ==
    \A s \in Services : (s \in reg /\ timed) ~> (addr[s] \in all \/ s \in lost)
=============================================================================
