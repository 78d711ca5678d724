----------------------------- MODULE LogManager -----------------------------
(* LogManager: threads log their lines; while g_syncLog is true each writes  *)
(* its own, without a lock; later they push them on g_logList and the log    *)
(* thread writes them.  The main thread makes the switch while the others    *)
(* run, and finish() ends the log thread.                                    *)
(*                                                                           *)
(* Two threads in realDoLog() at a time race for g_logs and for the FILE     *)
(* behind it: a line that was in such a race is written or it is lost.       *)
(*                                                                           *)
(* An operator BadX is a faulty variant of X that the specification does not *)
(* use: it serves to see the property that guards against the slip fail.     *)
EXTENDS Naturals, Sequences, Functions

CONSTANTS
    Threads,    \* the threads that log
    MaxLine     \* bound: lines of each

Assumption == MaxLine \in Nat

VARIABLES
    sync, exit,     \* g_syncLog and g_logExit
    list,           \* g_logList
    pc,             \* where a thread is in doLog()
    n,              \* how many lines a thread has begun to log
    lpc, batch,     \* the log thread, and its allLogs
    mpc,            \* the main thread
    written,        \* the lines in the log, in their order
    raced           \* the lines that were in a race

log == <<sync, exit, list>>
thread == <<pc, n>>
vars == <<log, thread, lpc, batch, mpc, written, raced>>

Line == Threads \X (1 .. MaxLine)

TypeOK ==
    /\ sync \in BOOLEAN /\ exit \in BOOLEAN
    /\ list \in Seq(Line)
    /\ pc \in [Threads -> {"idle", "sync", "push"}]
    /\ n \in [Threads -> 0 .. MaxLine]
    /\ lpc \in {"off", "swap", "check", "write", "done"}
    /\ batch \in Seq(Line)
    /\ mpc \in {"start", "switched", "run", "join", "ended"}
    /\ written \in Seq(Line)
    /\ raced \subseteq Line

Init ==
    /\ sync = TRUE /\ exit = FALSE /\ list = <<>>
    /\ pc = [t \in Threads |-> "idle"] /\ n = [t \in Threads |-> 0]
    /\ lpc = "off" /\ batch = <<>> /\ mpc = "start"
    /\ written = <<>> /\ raced = {}

-----------------------------------------------------------------------------
(* doLog(), by the thread whose LogStream goes out of scope *)

Current(t) == <<t, n[t]>>

\* g_syncLog is read without the lock.
DoLog(t) ==
    /\ pc[t] = "idle" /\ n[t] < MaxLine
    /\ n' = [n EXCEPT ![t] = @ + 1]
    /\ pc' = [pc EXCEPT ![t] = IF sync THEN "sync" ELSE "push"]
    /\ UNCHANGED <<log, lpc, batch, mpc, written, raced>>

\* The lines that are in realDoLog() now.
InRealDoLog ==
    {Current(t) : t \in {u \in Threads : pc[u] = "sync"}}
        \cup (IF lpc = "write" THEN {Head(batch)} ELSE {})

\* realDoLog() of line l comes to its end.  After the log thread has deleted
\* the logs every line races with that.
Write(l) ==
    LET all == InRealDoLog IN
    /\ raced' = IF all # {l} \/ lpc = "done" THEN raced \cup all ELSE raced
    /\ \/ written' = Append(written, l)
       \/ l \in raced' /\ UNCHANGED written

RealDoLog(t) ==
    /\ pc[t] = "sync"
    /\ Write(Current(t))
    /\ pc' = [pc EXCEPT ![t] = "idle"]
    /\ UNCHANGED <<log, n, lpc, batch, mpc>>

Push(t) ==
    /\ pc[t] = "push"
    /\ list' = Append(list, Current(t))
    /\ pc' = [pc EXCEPT ![t] = "idle"]
    /\ UNCHANGED <<sync, exit, n, lpc, batch, mpc, written, raced>>

-----------------------------------------------------------------------------
(* logThreadEntry() *)

BadSwap ==
    /\ lpc = "swap"
    /\ batch' = list /\ list' = <<>>
    /\ lpc' = IF list = <<>> \/ exit THEN "check" ELSE "write"
    /\ UNCHANGED <<sync, exit, thread, mpc, written, raced>>
Swap ==
    /\ lpc = "swap"
    /\ batch' = list /\ list' = <<>>
    /\ lpc' = IF list = <<>> THEN "check" ELSE "write"
    /\ UNCHANGED <<sync, exit, thread, mpc, written, raced>>

\* Nothing to write: g_logExit, read without the lock, ends the thread.
BadCheckExit ==
    /\ lpc = "check"
    /\ lpc' = IF exit /\ list # <<>> THEN "done" ELSE "swap"
    /\ UNCHANGED <<log, thread, batch, mpc, written, raced>>
Check ==
    /\ lpc = "check"
    /\ lpc' = IF exit THEN "done" ELSE "swap"
    /\ UNCHANGED <<log, thread, batch, mpc, written, raced>>

WriteOne ==
    /\ lpc = "write"
    /\ Write(Head(batch))
    /\ batch' = Tail(batch)
    /\ lpc' = IF Tail(batch) = <<>> THEN "swap" ELSE "write"
    /\ UNCHANGED <<log, thread, mpc>>

LogThread == Swap \/ Check \/ WriteOne

-----------------------------------------------------------------------------
(* The main thread: StormServer::run() *)

SetLogSync ==
    /\ mpc = "start"
    /\ sync' = FALSE
    /\ mpc' = "switched"
    /\ UNCHANGED <<exit, list, thread, lpc, batch, written, raced>>

StartAsyncThread ==
    /\ mpc = "switched"
    /\ lpc' = "swap"
    /\ mpc' = "run"
    /\ UNCHANGED <<log, thread, batch, written, raced>>

\* finish(), with log_sync set (from "start") or not.
Finish ==
    /\ mpc \in {"start", "run"}
    /\ exit' = TRUE
    /\ mpc' = IF sync THEN "ended" ELSE "join"
    /\ UNCHANGED <<sync, list, thread, lpc, batch, written, raced>>

Join ==
    /\ mpc = "join" /\ lpc = "done"
    /\ mpc' = "ended"
    /\ UNCHANGED <<log, thread, lpc, batch, written, raced>>

Main == SetLogSync \/ StartAsyncThread \/ Join

Next ==
    \/ \E t \in Threads : DoLog(t) \/ RealDoLog(t) \/ Push(t)
    \/ LogThread \/ Main \/ Finish

\* The threads are scheduled; finish() need not be called.
Fairness ==
    /\ \A t \in Threads : WF_vars(RealDoLog(t) \/ Push(t))
    /\ WF_vars(LogThread) /\ WF_vars(Main)

Spec == Init /\ [][Next]_vars
FairSpec == Spec /\ Fairness

-----------------------------------------------------------------------------
(* Properties *)

(* The lines of a thread are written in the order in which it logged them,   *)
(* none twice, also across the switch from synchronous to asynchronous       *)
(* logging.                                                                  *)
InOrder ==
    \A i, j \in DOMAIN written :
        i < j /\ written[i][1] = written[j][1] => written[i][2] < written[j][2]

(* No line disappears: every line whose doLog() has returned is written, or  *)
(* it is with the log thread, or still in g_logList, or it was in a race.    *)
NoLineLost ==
    \A t \in Threads : \A k \in 1 .. n[t] :
        \/ <<t, k>> = Current(t) /\ pc[t] # "idle"
        \/ <<t, k>> \in Range(written) \cup Range(list) \cup raced
        \/ lpc = "write" /\ <<t, k>> \in Range(batch)

(* What threads log is written once, in the order of each thread, and is     *)
(* never lost on its way through g_logList and the log thread.               *)
LinesInv == TypeOK /\ InOrder /\ NoLineLost

(* finish() returns: the log thread it waits for ends, whatever is queued,   *)
(* once the threads have logged their last lines.                            *)
FinishReturns == (mpc = "join") ~> (mpc = "ended")

(* What is logged is written, as long as finish() is not called.             *)
LinesWritten ==
    \A t \in Threads : \A k \in 1 .. MaxLine :
        (n[t] = k) ~> (exit \/ <<t, k>> \in Range(written) \cup raced)

(* With finish() or without, a line that is queued gets written, unless it   *)
(* was pushed between the log thread's last swap, which found nothing, and   *)
(* its reading of g_logExit.                                                 *)
QueueWritten ==
    \A l \in Line :
        (l \in Range(list) /\ lpc \notin {"check", "done"}) ~> l \in Range(written) \cup raced

(* The log thread does its work to the end.  Every line is written if        *)
(* finish() is never called; if it is, every queued line that the log thread *)
(* does not miss as QueueWritten says; and the thread returns.               *)
LogThreadWorks == LinesWritten /\ QueueWritten /\ FinishReturns

(* A line that is queued when finish() is called is written: not so, see     *)
(* QueueWritten, if finish() comes between a swap and the reading.           *)
LastLineWritten ==
    \A l \in Line : (l \in Range(list) /\ mpc = "run") ~> l \in Range(written) \cup raced
=============================================================================
