------------------------------ MODULE MCServer ------------------------------
(* The server process for TLC: how it starts and ends (ServerLife) and its   *)
(* log thread (LogManager).  They share no variable: in a behaviour one of   *)
(* the two moves.                                                            *)
EXTENDS ServerLife

CONSTANTS Threads, MaxLine

VARIABLES part, sync, exit, list, tpc, n, lpc, batch, mpc, written, raced

logVars == <<sync, exit, list, tpc, n, lpc, batch, mpc, written, raced>>

L == INSTANCE LogManager WITH pc <- tpc

ASSUME LogAssumption == L!Assumption

MCInit == part \in {"life", "log"} /\ Init /\ L!Init

MCNext ==
    /\ UNCHANGED part
    /\ \/ part = "life" /\ Next /\ UNCHANGED logVars
       \/ part = "log" /\ L!Next /\ UNCHANGED vars

\* The fairness of both modules, of the steps that each can take in its part.
MCFairness ==
    /\ \A p \in Procs : /\ WF_vars(part = "life" /\ Main(p))
                        /\ WF_vars(part = "life" /\ Net(p))
    /\ \A t \in Threads : WF_logVars(part = "log" /\ (L!RealDoLog(t) \/ L!Push(t)))
    /\ WF_logVars(part = "log" /\ L!LogThread)
    /\ WF_logVars(part = "log" /\ L!Main)

MCSpec == MCInit /\ [][MCNext]_<<part, vars, logVars>> /\ MCFairness

-----------------------------------------------------------------------------
(* The properties of LogManager, see that module.                            *)

(* What threads log is written once, in the order of each thread, and is     *)
(* never lost on its way through g_logList and the log thread.               *)
LinesInv == L!LinesInv

(* Each line is written while finish() is not called; after that each queued *)
(* one, unless it was pushed between the log thread's last swap and its      *)
(* reading of g_logExit; and finish() returns.                               *)
LogThreadWorks == L!LogThreadWorks
=============================================================================
