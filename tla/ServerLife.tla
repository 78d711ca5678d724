----------------------------- MODULE ServerLife -----------------------------
(* How a StormServer starts and ends.  Processes started from the same       *)
(* directory share the pid file and the port: a new one sends SIGTERM to the *)
(* process that the pid file names, waits for the file to go, and starts.    *)
(* Within a process the main thread runs run(), the net thread netEntry(),   *)
(* and the signal handler may run between any two steps of them.             *)
(*                                                                           *)
(* An operator BadX is a faulty variant of X that the specification does not *)
(* use: it serves to see the property that guards against the slip fail.     *)
EXTENDS Naturals, FiniteSets

CONSTANTS
    Procs,          \* the processes (pids), each run once
    OtherUser,      \* those of another user: kill() fails with EPERM
    OneAtATime,     \* a process is started when the one before has come up
    MaxSignal       \* bound: signals that a user sends with kill

None == "none"   \* no process

ASSUME ServerAssumption ==
    /\ None \notin Procs /\ OtherUser \subseteq Procs
    /\ OneAtATime \in BOOLEAN /\ MaxSignal \in Nat

VARIABLES
    pc,         \* the main thread of a process, in run()
    stop,       \* it was started with the stop option
    net,        \* its net thread: off, the first or second loop, out
    running, netRunning,   \* its g_running and g_netRunning
    handler,    \* its signal handler is installed
    term,       \* history: a SIGTERM that its handler took, or none, or one
                \* that mainEntry() has undone since
    said,       \* what killOldProcess() printed last
    old,        \* the pid that killOldProcess() read
    pidFile,    \* the pid in the pid file, or None
    port,       \* the process that listens, or None
    signals

local == <<pc, stop, net, running, netRunning, handler, term, said, old>>
vars == <<local, pidFile, port, signals>>

Messages == {"nothing", "exiting", "exited", "permission not enough", "server not running"}

TypeOK ==
    /\ pc \in [Procs -> {"new", "read", "kill", "wait", "save", "handler", "init", "listen",
                         "enter", "loop", "service", "join", "remove", "exit", "gone"}]
    /\ stop \in [Procs -> BOOLEAN]
    /\ net \in [Procs -> {"off", "first", "second", "out"}]
    /\ running \in [Procs -> BOOLEAN] /\ netRunning \in [Procs -> BOOLEAN]
    /\ handler \in [Procs -> BOOLEAN]
    /\ term \in [Procs -> {"none", "taken", "undone"}]
    /\ said \in [Procs -> Messages]
    /\ old \in [Procs -> Procs \cup {None}]
    /\ pidFile \in Procs \cup {None}
    /\ port \in Procs \cup {None}
    /\ signals \in 0 .. MaxSignal

Init ==
    /\ pc = [p \in Procs |-> "new"] /\ stop = [p \in Procs |-> FALSE]
    /\ net = [p \in Procs |-> "off"]
    /\ running = [p \in Procs |-> FALSE] /\ netRunning = [p \in Procs |-> FALSE]
    /\ handler = [p \in Procs |-> FALSE] /\ term = [p \in Procs |-> "none"]
    /\ said = [p \in Procs |-> "nothing"] /\ old = [p \in Procs |-> None]
    /\ pidFile = None /\ port = None /\ signals = 0

Alive(p) == pc[p] \notin {"new", "gone"}
Down(p) == pc[p] \in {"service", "join", "remove", "exit", "gone"}
ComingUp(p) == pc[p] # "new" /\ pc[p] # "loop" /\ ~Down(p)

Goto(p, l) == pc' = [pc EXCEPT ![p] = l]

\* The process is no more, nor its threads and sockets.
Gone(p) ==
    /\ Goto(p, "gone")
    /\ net' = [net EXCEPT ![p] = "off"]
    /\ port' = IF port = p THEN None ELSE port

-----------------------------------------------------------------------------
(* run(): the old process *)

Start(p) ==
    /\ pc[p] = "new"
    /\ OneAtATime => \A q \in Procs : ~ComingUp(q)
    /\ Goto(p, "read")
    /\ \E b \in BOOLEAN : stop' = [stop EXCEPT ![p] = b]
    /\ UNCHANGED <<net, running, netRunning, handler, term, said, old, pidFile, port, signals>>

\* With -h COption::parse() ends the process, and parseConfig() throws if the
\* file, a key or a service in it is not as it should be.
StartFails(p) ==
    /\ pc[p] = "new"
    /\ Goto(p, "gone")
    /\ UNCHANGED <<stop, net, running, netRunning, handler, term, said, old, pidFile, port, signals>>

AfterKill(p) == Goto(p, IF stop[p] THEN "gone" ELSE "save")

\* killOldProcess() loads the pid file.
ReadPid(p) ==
    /\ pc[p] = "read"
    /\ old' = [old EXCEPT ![p] = pidFile]
    /\ IF pidFile = None THEN AfterKill(p) ELSE Goto(p, "kill")
    /\ UNCHANGED <<stop, net, running, netRunning, handler, term, said, pidFile, port, signals>>

\* What SIGTERM does to q: sighandler(), or by default its end.
Signalled(q) ==
    IF handler[q] THEN /\ running' = [running EXCEPT ![q] = FALSE]
                       /\ term' = [term EXCEPT ![q] = "taken"]
                       /\ UNCHANGED <<net, port>>
                  ELSE /\ UNCHANGED <<running, term>>
                       /\ net' = [net EXCEPT ![q] = "off"]
                       /\ port' = IF port = q THEN None ELSE port

Say(p, m) == said' = [said EXCEPT ![p] = m]

\* kill(pid, 15) and its three outcomes.  No process has the pid: ESRCH.  It
\* is another user's: EPERM.
KillWorks(p) ==
    /\ pc[p] = "kill" /\ Alive(old[p]) /\ (old[p] \in OtherUser <=> p \in OtherUser)
    /\ Signalled(old[p])
    /\ pc' = [pc EXCEPT ![p] = "wait",
                        ![old[p]] = IF handler[old[p]] THEN @ ELSE "gone"]
    /\ Say(p, "exiting")
    /\ UNCHANGED <<stop, netRunning, handler, old, pidFile, signals>>

KillNoProcess(p) ==
    /\ pc[p] = "kill" /\ ~Alive(old[p])
    /\ Say(p, "permission not enough")
    /\ AfterKill(p)
    /\ UNCHANGED <<stop, net, running, netRunning, handler, term, old, pidFile, port, signals>>

KillNotAllowed(p) ==
    /\ pc[p] = "kill" /\ Alive(old[p]) /\ ~(old[p] \in OtherUser <=> p \in OtherUser)
    /\ Say(p, "server not running")
    /\ pidFile' = None
    /\ AfterKill(p)
    /\ UNCHANGED <<stop, net, running, netRunning, handler, term, old, port, signals>>

Wait(p) ==
    /\ pc[p] = "wait" /\ pidFile = None
    /\ Say(p, "exited")
    /\ AfterKill(p)
    /\ UNCHANGED <<stop, net, running, netRunning, handler, term, old, pidFile, port, signals>>

-----------------------------------------------------------------------------
(* run(): coming up *)

SavePidFile(p) ==
    /\ pc[p] = "save"
    /\ pidFile' = p
    /\ Goto(p, "handler")
    /\ UNCHANGED <<stop, net, running, netRunning, handler, term, said, old, port, signals>>

\* signal(), then startNetThread()
InstallHandler(p) ==
    /\ pc[p] = "handler"
    /\ handler' = [handler EXCEPT ![p] = TRUE]
    /\ net' = [net EXCEPT ![p] = "first"]
    /\ Goto(p, "init")
    /\ UNCHANGED <<stop, running, netRunning, term, said, old, pidFile, port, signals>>

\* init() fails, or throws: run() returns -1.
InitFails(p) ==
    /\ pc[p] = "init"
    /\ Gone(p)
    /\ UNCHANGED <<stop, running, netRunning, handler, term, said, old, pidFile, signals>>

InitWorks(p) ==
    /\ pc[p] = "init"
    /\ netRunning' = [netRunning EXCEPT ![p] = TRUE]
    /\ Goto(p, "listen")
    /\ UNCHANGED <<stop, net, running, handler, term, said, old, pidFile, port, signals>>

\* startListener(): the port may be taken.  Then startService().
Listen(p) ==
    /\ pc[p] = "listen"
    /\ IF port = None THEN port' = p /\ Goto(p, "enter") /\ UNCHANGED net
                      ELSE Gone(p)
    /\ UNCHANGED <<stop, running, netRunning, handler, term, said, old, pidFile, signals>>

\* mainEntry()
MainEntry(p) ==
    /\ pc[p] = "enter"
    /\ running' = [running EXCEPT ![p] = TRUE]
    /\ term' = [term EXCEPT ![p] = IF @ = "taken" THEN "undone" ELSE @]
    /\ Goto(p, "loop")
    /\ UNCHANGED <<stop, net, netRunning, handler, said, old, pidFile, port, signals>>

-----------------------------------------------------------------------------
(* run(): going down *)

LeaveLoop(p) ==
    /\ pc[p] = "loop" /\ ~running[p]
    /\ Goto(p, "service")
    /\ UNCHANGED <<stop, net, running, netRunning, handler, term, said, old, pidFile, port, signals>>

\* What the application does in the main thread throws: mainLoop(), update()
\* of a service, mainLoopDestory() or destroy().  run() returns -1.
MainThrows(p) ==
    /\ pc[p] \in {"loop", "service"}
    /\ Gone(p)
    /\ UNCHANGED <<stop, running, netRunning, handler, term, said, old, pidFile, signals>>

\* terminateService(), and the first line of terminateNetThread()
BadTerminateNet(p) ==
    /\ pc[p] = "service"
    /\ Goto(p, "join")
    /\ UNCHANGED <<stop, net, running, netRunning, handler, term, said, old, pidFile, port, signals>>
TerminateNet(p) ==
    /\ pc[p] = "service"
    /\ netRunning' = [netRunning EXCEPT ![p] = FALSE]
    /\ Goto(p, "join")
    /\ UNCHANGED <<stop, net, running, handler, term, said, old, pidFile, port, signals>>

Join(p) ==
    /\ pc[p] = "join" /\ net[p] = "out"
    /\ Goto(p, "remove")
    /\ UNCHANGED <<stop, net, running, netRunning, handler, term, said, old, pidFile, port, signals>>

\* removePidFile() is the last thing that run() does; then the process ends.
RemovePidFile(p) ==
    /\ pc[p] = "remove"
    /\ pidFile' = None
    /\ Goto(p, "exit")
    /\ UNCHANGED <<stop, net, running, netRunning, handler, term, said, old, port, signals>>

BadExit(p) ==
    /\ pc[p] = "exit"
    /\ Gone(p)
    /\ pidFile' = None
    /\ UNCHANGED <<stop, running, netRunning, handler, term, said, old, signals>>
Exit(p) ==
    /\ pc[p] = "exit"
    /\ Gone(p)
    /\ UNCHANGED <<stop, running, netRunning, handler, term, said, old, pidFile, signals>>
-----------------------------------------------------------------------------
(* netEntry(): the loops look at g_netRunning once a round *)

NetFirst(p) ==
    /\ net[p] = "first" /\ netRunning[p]
    /\ net' = [net EXCEPT ![p] = "second"]
    /\ UNCHANGED <<pc, stop, running, netRunning, handler, term, said, old, pidFile, port, signals>>

NetSecond(p) ==
    /\ net[p] = "second" /\ ~netRunning[p]
    /\ net' = [net EXCEPT ![p] = "out"]
    /\ UNCHANGED <<pc, stop, running, netRunning, handler, term, said, old, pidFile, port, signals>>

-----------------------------------------------------------------------------
(* What a user does: kill, and kill -9 *)

Terminate(q) ==
    /\ Alive(q) /\ signals < MaxSignal
    /\ signals' = signals + 1
    /\ Signalled(q)
    /\ IF handler[q] THEN UNCHANGED pc ELSE Goto(q, "gone")
    /\ UNCHANGED <<stop, netRunning, handler, said, old, pidFile>>

Kill9(q) ==
    /\ Alive(q) /\ signals < MaxSignal
    /\ signals' = signals + 1
    /\ Gone(q)
    /\ UNCHANGED <<stop, running, netRunning, handler, term, said, old, pidFile>>

-----------------------------------------------------------------------------
Main(p) ==
    \/ ReadPid(p) \/ KillWorks(p) \/ KillNoProcess(p) \/ KillNotAllowed(p) \/ Wait(p)
    \/ SavePidFile(p) \/ InstallHandler(p) \/ InitFails(p) \/ InitWorks(p) \/ Listen(p)
    \/ MainEntry(p) \/ LeaveLoop(p) \/ TerminateNet(p) \/ Join(p) \/ RemovePidFile(p) \/ Exit(p)

Net(p) == NetFirst(p) \/ NetSecond(p)

Next ==
    \E p \in Procs :
        \/ Start(p) \/ StartFails(p) \/ Main(p) \/ MainThrows(p)
        \/ Net(p) \/ Terminate(p) \/ Kill9(p)

\* The threads of a process that runs are scheduled; nobody has to start a
\* process or to send a signal.
Fairness == \A p \in Procs : WF_vars(Main(p)) /\ WF_vars(Net(p))

Spec == Init /\ [][Next]_vars
FairSpec == Spec /\ Fairness

-----------------------------------------------------------------------------
(* Properties *)

(* While a server is in its main loop the pid file names it, so that the     *)
(* next start or stop finds it: whatever other processes started, stopped,   *)
(* failed or were killed before, when no two of them start at a time, and    *)
(* until one meets a server of another user (see NotRunningIsTrue).          *)
PidFileNamesServer ==
    (\A p \in Procs : said[p] # "server not running") =>
        \A p \in Procs : pc[p] = "loop" => pidFile = p

(* When killOldProcess() has printed "old server exited", the process it had *)
(* sent SIGTERM to has stopped serving: its loops and threads have ended.    *)
ExitedIsDown ==
    \A p \in Procs : said[p] = "exited" => pc[old[p]] \in {"exit", "gone"}

(* What processes can rely on when one replaces or stops another: the pid    *)
(* file names the server that runs, and one reported as exited is down.      *)
PidFileInv == TypeOK /\ PidFileNamesServer /\ ExitedIsDown

(* When killOldProcess() prints "server not running", it does not run.       *)
NotRunningIsTrue ==
    \A p \in Procs : said[p] = "server not running" => ~Alive(old[p])

(* When killOldProcess() prints "old server exiting ...", the old server     *)
(* does leave its main loop.                                                 *)
ExitingIsTrue ==
    \A q \in Procs : (\E p \in Procs : said[p] = "exiting" /\ old[p] = q) ~> Down(q)

(* A process whose handler has taken a SIGTERM ends, at whatever step of     *)
(* run() that was; but for two cases.  One that came before mainEntry() is   *)
(* undone there (g_running = true), and a net thread that is still in its    *)
(* first loop when terminateNetThread() clears g_netRunning is joined for    *)
(* ever (see NetThreadEnds).                                                 *)
Stops ==
    \A p \in Procs : (term[p] = "taken") ~>
        (pc[p] = "gone" \/ term[p] = "undone" \/ (pc[p] = "join" /\ net[p] = "first"))

(* SIGTERM stops a server.  From a process that replaces it, when processes  *)
(* are started one at a time, it ends the main loop as the message says; and *)
(* from there, or from a user at any moment, it ends the process, unless it  *)
(* came before mainEntry() or the net thread is stuck in its first loop.     *)
TermStops == ExitingIsTrue /\ Stops

(* killOldProcess() comes to an end: not so if the old process ends without  *)
(* removing the pid file.                                                    *)
WaitEnds == \A p \in Procs : pc[p] = "wait" ~> pc[p] # "wait"

(* terminateNetThread() ends the net thread.                                 *)
NetThreadEnds ==
    \A p \in Procs : (pc[p] = "join") ~> (net[p] \in {"out", "off"})
=============================================================================
