-------------------------------- MODULE Util --------------------------------
(* The utilities: TimeList, Timer, MySqlConn, the packet stream and the log  *)
(* files.  They share no state, so their steps need not be interleaved: in a *)
(* behaviour one of them moves, and the others are in their initial states.  *)
EXTENDS TimeList

CONSTANTS
    TimerIds, Durations, TimerEnd,
    Joins, Configs, Handles,
    Capacity, MaxLen, Lens, MaxPackets, MaxConns,
    MaxFile, MaxSize, LineSizes, RollReopen, RollEnd, RollLines, MaxKill, RollFails,
    Period, DayReopen, Skew, DayEnd, DayLines, DayFails

VARIABLES
    part,       \* the one that moves
    now, nextId, node, nodes, search, newNodes, ms, pc, calls, stopped,
    mysql, bConnected, config, oss, lib, call, sent,
    buf, npc, conns, fin, payloads, wire, delivered,
    rfiles, open, size, ropenTime, move, line, rclock, written, rlines, kills, rfails,
    dfiles, fp, dopenTime, lastTime, dclock, dlines, dfails

timerVars == <<now, nextId, node, nodes, search, newNodes, ms, pc, calls, stopped>>
mysqlVars == <<mysql, bConnected, config, oss, lib, call, sent>>
streamVars == <<buf, npc, conns, fin, payloads, wire, delivered>>
rollVars == <<rfiles, open, size, ropenTime, move, line, rclock, written, rlines, kills, rfails>>
dayVars == <<dfiles, fp, dopenTime, lastTime, dclock, dlines, dfails>>
utilVars == <<part, vars, timerVars, mysqlVars, streamVars, rollVars, dayVars>>

T == INSTANCE Timer WITH MaxId <- TimerIds, MaxTime <- TimerEnd

M == INSTANCE MySqlConn

P == INSTANCE PacketStream WITH sent <- payloads

R == INSTANCE RollLog WITH
    Reopen <- RollReopen, MaxTime <- RollEnd, MaxLine <- RollLines, MaxFail <- RollFails,
    files <- rfiles, openTime <- ropenTime, clock <- rclock, lines <- rlines, fails <- rfails

D == INSTANCE DayLog WITH
    Reopen <- DayReopen, MaxTime <- DayEnd, MaxLine <- DayLines, MaxFail <- DayFails,
    files <- dfiles, openTime <- dopenTime, clock <- dclock, lines <- dlines, fails <- dfails

ASSUME UtilAssumption ==
    T!Assumption /\ M!Assumption /\ P!Assumption /\ R!Assumption /\ D!Assumption

Parts == {"TimeList", "Timer", "MySqlConn", "stream", "RollLog", "DayLog"}

PartsInit == Init /\ T!Init /\ M!Init /\ P!Init /\ R!Init /\ D!Init

UtilInit == part \in Parts /\ PartsInit

UtilNext ==
    /\ UNCHANGED part
    /\ \/ /\ part = "TimeList" /\ Next
          /\ UNCHANGED <<timerVars, mysqlVars, streamVars, rollVars, dayVars>>
       \/ /\ part = "Timer" /\ T!Next
          /\ UNCHANGED <<vars, mysqlVars, streamVars, rollVars, dayVars>>
       \/ /\ part = "MySqlConn" /\ M!Next
          /\ UNCHANGED <<vars, timerVars, streamVars, rollVars, dayVars>>
       \/ /\ part = "stream" /\ P!Next
          /\ UNCHANGED <<vars, timerVars, mysqlVars, rollVars, dayVars>>
       \/ /\ part = "RollLog" /\ R!Next
          /\ UNCHANGED <<vars, timerVars, mysqlVars, streamVars, dayVars>>
       \/ /\ part = "DayLog" /\ D!Next
          /\ UNCHANGED <<vars, timerVars, mysqlVars, streamVars, rollVars>>

UtilSpec == UtilInit /\ [][UtilNext]_utilVars

-----------------------------------------------------------------------------
(* The properties of the parts, see their modules, each where its part moves.*)

(* Timers, whatever their callbacks add and delete: one that is not deleted  *)
(* waits exactly once, update() calls each at most once and leaves none      *)
(* behind that was due, and one for which delTimer() has returned true is    *)
(* not called.                                                               *)
TimersFire == part = "Timer" =>
    /\ T!TypeOK /\ T!EachWaitsOnce /\ T!OncePerUpdate
    /\ T!NoneMissed /\ T!StoppedIsQuiet

(* MySqlConn: the server gets the statement the call meant, through a        *)
(* complete connection to the configured server, and however connect()       *)
(* fails, no MYSQL object is lost.                                           *)
StatementsArrive == part = "MySqlConn" =>
    M!TypeOK /\ M!SentAsMeant /\ M!SentWhereMeant /\ M!NoHandleLost

(* The packet stream: no byte is lost, repeated or moved, onPacket() gets the*)
(* packets as they were sent, in order, and handleRead() returns with no     *)
(* complete packet left in the buffer.                                       *)
PacketsArrive == part = "stream" =>
    P!TypeOK /\ P!NoByteLost /\ P!DeliveredAsSent /\ P!NothingLeft

(* The log files: the rolled ones hold the last lines written, without a gap *)
(* and none past m_maxSize by more than a line, only lines of the last file  *)
(* are given up, and every line of a DayLog is in the file of its own day.   *)
FilesKeepLines ==
    /\ part = "RollLog" => R!TypeOK /\ R!LastLines /\ R!SizeBounded /\ R!GivesUpLast
    /\ part = "DayLog" => D!TypeOK /\ D!InOwnFile
=============================================================================
