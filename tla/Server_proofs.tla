--------------------------- MODULE Server_proofs ----------------------------
(* Theorems about the server process, for any number of processes, users and *)
(* signals, and of threads and lines in its log.                             *)
EXTENDS MCServer, Sequences, TLAPS

-----------------------------------------------------------------------------
(* Start and stop *)

(* run() has saved the pid file and has not removed it: it may still be      *)
(* there.                                                                    *)
Saved == {"handler", "init", "listen", "enter", "loop", "service", "join", "remove"}
(* The process listens.                                                      *)
Listening == {"enter", "loop", "service", "join", "remove", "exit"}

(* A process that sends SIGTERM has read whom to send it to, and it has said *)
(* nothing before it comes to that.                                          *)
KnowsOld ==
    /\ \A p \in Procs : pc[p] \in {"kill", "wait"} => old[p] \in Procs
    /\ \A p \in Procs : pc[p] \in {"new", "read", "kill"} => said[p] = "nothing"
    /\ \A p \in Procs : pc[p] = "wait" => said[p] = "exiting"
    /\ \A p \in Procs : said[p] = "exited" => old[p] \in Procs

(* Processes come up one after the other.                                    *)
OneUp == \A p, q \in Procs : ComingUp(p) /\ ComingUp(q) => p = q

(* The port is that of the process that listens.                             *)
HasPort == \A p \in Procs : pc[p] \in Listening => port = p

(* The pid file names a process that has come to saving it.                  *)
NamesSaved == pidFile # None => pc[pidFile] \in Saved \cup {"exit", "gone"}

(* While a process kills the old one and waits, the pid file is that of the  *)
(* old one, which was up before, or is gone because the old one is down.     *)
WaitsForOld ==
    \A p \in Procs : pc[p] \in {"kill", "wait"} =>
        /\ pidFile \in {old[p], None}
        /\ pc[old[p]] \in {"loop", "service", "join", "remove", "exit", "gone"}
        /\ pidFile = None => pc[old[p]] \in {"exit", "gone"}

(* As long as no process met another user's server, the pid file names the   *)
(* process that has saved it until that removes it, and nobody is about to   *)
(* save it while there is such a process.                                    *)
NotMet == \A p \in Procs : said[p] # "server not running"
NamesHolder ==
    NotMet => /\ \A p \in Procs : pc[p] \in Saved => pidFile = p
              /\ \A p, q \in Procs : pc[p] = "save" => pc[q] \notin Saved

LifeInv == OneUp /\ NamesSaved /\ WaitsForOld /\ ExitedIsDown /\ NamesHolder

LifeIInv == TypeOK /\ KnowsOld /\ HasPort /\ (OneAtATime => LifeInv)

-----------------------------------------------------------------------------
(* A step of a process or of a user.                                         *)
Step(p) ==
    \/ Start(p) \/ StartFails(p) \/ Main(p) \/ MainThrows(p)
    \/ Net(p) \/ Terminate(p) \/ Kill9(p)

(* The first process finds nothing.                                          *)
LEMMA LifeStarts == Init => LifeIInv
<1> SUFFICES ASSUME Init  PROVE LifeIInv  OBVIOUS
<1>1. TypeOK  BY ServerAssumption DEF Init, TypeOK, Messages
<1>2. KnowsOld /\ HasPort /\ LifeInv
  BY DEF Init, KnowsOld, HasPort, LifeInv, OneUp, ComingUp, NamesSaved, WaitsForOld, ExitedIsDown,
         NamesHolder, Saved, Listening
<1> QED  BY <1>1, <1>2 DEF LifeIInv

(* Every step keeps the types.                                               *)
LEMMA TypesStep ==
    ASSUME TypeOK, KnowsOld, NEW p \in Procs, Step(p)
    PROVE  TypeOK'
<1>0. signals < MaxSignal /\ signals' = signals + 1 => signals' \in 0 .. MaxSignal
  BY ServerAssumption DEF TypeOK
<1> USE ServerAssumption DEF TypeOK, Goto, Gone, Messages, Say, AfterKill, Signalled
<1>1. CASE Start(p)
  <2>1. stop' \in [Procs -> BOOLEAN]  BY <1>1 DEF Start
  <2>2. pc' = [pc EXCEPT ![p] = "read"]  BY <1>1 DEF Start
  <2>3. UNCHANGED <<net, running, netRunning, handler, term, said, old, pidFile, port, signals>>
    BY <1>1 DEF Start
  <2> QED  BY <2>1, <2>2, <2>3
<1>2. CASE StartFails(p)  BY <1>2 DEF StartFails
<1>3. CASE ReadPid(p)  BY <1>3 DEF ReadPid
<1>4. CASE KillWorks(p)
  <2>1. old[p] \in Procs  BY <1>4 DEF KillWorks, KnowsOld
  <2>2. said' = [said EXCEPT ![p] = "exiting"]
    BY <1>4 DEF KillWorks
  <2>3. UNCHANGED <<stop, netRunning, handler, old, pidFile, signals>>  BY <1>4 DEF KillWorks
  <2>4. CASE handler[old[p]]
    <3>1. /\ running' = [running EXCEPT ![old[p]] = FALSE]
          /\ term' = [term EXCEPT ![old[p]] = "taken"]
          /\ UNCHANGED <<net, port>>
      BY <2>4, <1>4 DEF KillWorks
    <3>2. pc' = [pc EXCEPT ![p] = "wait", ![old[p]] = @]  BY <2>4, <1>4 DEF KillWorks
    <3> QED  BY <2>1, <2>2, <2>3, <3>1, <3>2
  <2>5. CASE ~handler[old[p]]
    <3>1. /\ net' = [net EXCEPT ![old[p]] = "off"]
          /\ port' = IF port = old[p] THEN None ELSE port
          /\ UNCHANGED <<running, term>>
      BY <2>5, <1>4 DEF KillWorks
    <3>2. pc' = [pc EXCEPT ![p] = "wait", ![old[p]] = "gone"]  BY <2>5, <1>4 DEF KillWorks
    <3> QED  BY <2>1, <2>2, <2>3, <3>1, <3>2
  <2> QED  BY <2>4, <2>5
<1>5. CASE KillNoProcess(p)  BY <1>5 DEF KillNoProcess
<1>6. CASE KillNotAllowed(p)  BY <1>6 DEF KillNotAllowed
<1>7. CASE Wait(p)  BY <1>7 DEF Wait
<1>8. CASE SavePidFile(p)  BY <1>8 DEF SavePidFile
<1>9. CASE InstallHandler(p)  BY <1>9 DEF InstallHandler
<1>10. CASE InitFails(p)  BY <1>10 DEF InitFails
<1>11. CASE InitWorks(p)  BY <1>11 DEF InitWorks
<1>12. CASE Listen(p)  BY <1>12 DEF Listen
<1>13. CASE MainEntry(p)  BY <1>13 DEF MainEntry
<1>14. CASE LeaveLoop(p)  BY <1>14 DEF LeaveLoop
<1>15. CASE MainThrows(p)  BY <1>15 DEF MainThrows
<1>16. CASE TerminateNet(p)  BY <1>16 DEF TerminateNet
<1>17. CASE Join(p)  BY <1>17 DEF Join
<1>18. CASE RemovePidFile(p)  BY <1>18 DEF RemovePidFile
<1>19. CASE Exit(p)  BY <1>19 DEF Exit
<1>20. CASE NetFirst(p)  BY <1>20 DEF NetFirst
<1>21. CASE NetSecond(p)  BY <1>21 DEF NetSecond
<1>22. CASE Terminate(p)
  <2>1. signals' \in 0 .. MaxSignal  BY <1>0, <1>22 DEF Terminate
  <2>2. CASE handler[p]  BY <2>1, <2>2, <1>22 DEF Terminate
  <2>3. CASE ~handler[p]  BY <2>1, <2>3, <1>22 DEF Terminate
  <2> QED  BY <2>2, <2>3
<1>23. CASE Kill9(p)  BY <1>0, <1>23 DEF Kill9
<1> QED
  BY <1>1, <1>2, <1>3, <1>4, <1>5, <1>6, <1>7, <1>8, <1>9, <1>10, <1>11, <1>12, <1>13,
     <1>14, <1>15, <1>16, <1>17, <1>18, <1>19, <1>20, <1>21, <1>22, <1>23 DEF Step, Main,
     Net

(* Steps that differ in the threads, signals and flags only: the process     *)
(* ends, goes on in run(), or stays where it is.                             *)
Ends(p) ==
    /\ pc' = [pc EXCEPT ![p] = "gone"]
    /\ port' = port \/ (port = p /\ port' = None)
    /\ UNCHANGED <<said, old, pidFile>>
GoesOn(p) ==
    /\ \E e \in {<<"handler", "init">>, <<"init", "listen">>, <<"enter", "loop">>,
                 <<"loop", "service">>, <<"service", "join">>, <<"join", "remove">>} :
          pc[p] = e[1] /\ pc' = [pc EXCEPT ![p] = e[2]]
    /\ UNCHANGED <<said, old, pidFile, port>>
Stays == UNCHANGED <<pc, said, old, pidFile, port>>
ListenWorks(p) ==
    /\ pc[p] = "listen" /\ port = None /\ port' = p
    /\ pc' = [pc EXCEPT ![p] = "enter"]
    /\ UNCHANGED <<said, old, pidFile>>

(* What a step is.                                                           *)
LEMMA Moves ==
    ASSUME NEW p \in Procs, Step(p)
    PROVE  \/ Ends(p) \/ GoesOn(p) \/ Stays \/ ListenWorks(p)
           \/ Start(p) \/ ReadPid(p) \/ KillWorks(p) \/ KillNoProcess(p) \/ KillNotAllowed(p)
           \/ Wait(p) \/ SavePidFile(p) \/ RemovePidFile(p)
<1>1. CASE StartFails(p) \/ InitFails(p) \/ MainThrows(p) \/ Exit(p) \/ Kill9(p)
  BY <1>1 DEF StartFails, InitFails, MainThrows, Exit, Kill9, Gone, Goto, Ends
<1>2. CASE Terminate(p)
  BY <1>2 DEF Terminate, Signalled, Goto, Ends, Stays
<1>3. CASE Listen(p)  BY <1>3 DEF Listen, Gone, Goto, Ends, ListenWorks
<1>4. CASE InstallHandler(p) \/ InitWorks(p) \/ MainEntry(p) \/ LeaveLoop(p) \/ TerminateNet(p) \/ Join(p)
  <2> DEFINE G(e) == pc[p] = e[1] /\ pc' = [pc EXCEPT ![p] = e[2]]
  <2>1. UNCHANGED <<said, old, pidFile, port>>
    BY <1>4 DEF InstallHandler, InitWorks, MainEntry, LeaveLoop, TerminateNet, Join
  <2>2. \/ G(<<"handler", "init">>) \/ G(<<"init", "listen">>) \/ G(<<"enter", "loop">>)
        \/ G(<<"loop", "service">>) \/ G(<<"service", "join">>) \/ G(<<"join", "remove">>)
    BY <1>4 DEF InstallHandler, InitWorks, MainEntry, LeaveLoop, TerminateNet, Join, Goto
  <2> HIDE DEF G
  <2>3. \E e \in {<<"handler", "init">>, <<"init", "listen">>, <<"enter", "loop">>,
                  <<"loop", "service">>, <<"service", "join">>, <<"join", "remove">>} : G(e)
    BY <2>2
  <2> QED  BY <2>1, <2>3 DEF GoesOn, G
<1>5. CASE Net(p)  BY <1>5 DEF Net, NetFirst, NetSecond, Stays
<1> QED  BY <1>1, <1>2, <1>3, <1>4, <1>5 DEF Step, Main

States == {"new", "read", "kill", "wait", "save", "handler", "init", "listen",
           "enter", "loop", "service", "join", "remove", "exit", "gone"}

(* The port is that of one process.                                          *)
LEMMA KnowsStep ==
    ASSUME TypeOK, KnowsOld, HasPort, NEW p \in Procs, Step(p)
    PROVE  KnowsOld' /\ HasPort'
<1>0. /\ pc \in [Procs -> States] /\ said \in [Procs -> Messages]
      /\ old \in [Procs -> Procs \cup {None}]
      /\ pidFile \in Procs \cup {None}
  BY DEF TypeOK, States
<1> USE ServerAssumption DEF KnowsOld, HasPort, Listening
<1>1. CASE Ends(p)  BY <1>0, <1>1 DEF Ends
<1>2. CASE GoesOn(p)  BY <1>0, <1>2 DEF GoesOn
<1>3. CASE Stays  BY <1>0, <1>3 DEF Stays
<1>4. CASE ListenWorks(p)  BY <1>0, <1>4 DEF ListenWorks
<1>5. CASE Start(p)  BY <1>0, <1>5 DEF Start, Goto
<1>6. CASE ReadPid(p)  BY <1>0, <1>6 DEF ReadPid, Goto, AfterKill
<1>7. CASE KillWorks(p)  BY <1>0, <1>7 DEF KillWorks, Say, Signalled
<1>8. CASE KillNoProcess(p)  BY <1>0, <1>8 DEF KillNoProcess, Say, AfterKill, Goto
<1>9. CASE KillNotAllowed(p)  BY <1>0, <1>9 DEF KillNotAllowed, Say, AfterKill, Goto
<1>10. CASE Wait(p)  BY <1>0, <1>10 DEF Wait, Say, AfterKill, Goto
<1>11. CASE SavePidFile(p)  BY <1>0, <1>11 DEF SavePidFile, Goto
<1>12. CASE RemovePidFile(p)  BY <1>0, <1>12 DEF RemovePidFile, Goto
<1> QED  BY <1>1, <1>2, <1>3, <1>4, <1>5, <1>6, <1>7, <1>8, <1>9, <1>10, <1>11, <1>12, Moves

(* Only one process is coming up.                                            *)
LEMMA OneUpStep ==
    ASSUME TypeOK, KnowsOld, HasPort, OneAtATime, LifeInv, NEW p \in Procs, Step(p)
    PROVE  OneUp'
<1>0. /\ pc \in [Procs -> States] /\ said \in [Procs -> Messages]
      /\ old \in [Procs -> Procs \cup {None}]
      /\ pidFile \in Procs \cup {None}
  BY DEF TypeOK, States
<1> USE ServerAssumption DEF LifeInv, OneUp, ComingUp, Down
<1>1. CASE Ends(p)  BY <1>0, <1>1 DEF Ends
<1>2. CASE GoesOn(p)  BY <1>0, <1>2 DEF GoesOn
<1>3. CASE Stays  BY <1>0, <1>3 DEF Stays
<1>4. CASE ListenWorks(p)  BY <1>0, <1>4 DEF ListenWorks
<1>5. CASE Start(p)  BY <1>0, <1>5 DEF Start, Goto
<1>6. CASE ReadPid(p)  BY <1>0, <1>6 DEF ReadPid, Goto, AfterKill
<1>7. CASE KillWorks(p)  BY <1>0, <1>7 DEF KillWorks, Say, Signalled
<1>8. CASE KillNoProcess(p)  BY <1>0, <1>8 DEF KillNoProcess, Say, AfterKill, Goto
<1>9. CASE KillNotAllowed(p)  BY <1>0, <1>9 DEF KillNotAllowed, Say, AfterKill, Goto
<1>10. CASE Wait(p)  BY <1>0, <1>10 DEF Wait, Say, AfterKill, Goto
<1>11. CASE SavePidFile(p)  BY <1>0, <1>11 DEF SavePidFile, Goto
<1>12. CASE RemovePidFile(p)  BY <1>0, <1>12 DEF RemovePidFile, Goto
<1> QED  BY <1>1, <1>2, <1>3, <1>4, <1>5, <1>6, <1>7, <1>8, <1>9, <1>10, <1>11, <1>12, Moves

(* Who is named has saved: SavePidFile() is the only one to write.           *)
LEMMA SavedStep ==
    ASSUME TypeOK, KnowsOld, HasPort, OneAtATime, LifeInv, NEW p \in Procs, Step(p)
    PROVE  NamesSaved'
<1>0. /\ pc \in [Procs -> States] /\ said \in [Procs -> Messages]
      /\ old \in [Procs -> Procs \cup {None}]
      /\ pidFile \in Procs \cup {None}
  BY DEF TypeOK, States
<1> USE ServerAssumption DEF KnowsOld, LifeInv, NamesSaved, Saved, OneUp, ComingUp, Down
<1>1. CASE Ends(p)  BY <1>0, <1>1 DEF Ends
<1>2. CASE GoesOn(p)  BY <1>0, <1>2 DEF GoesOn
<1>3. CASE Stays  BY <1>0, <1>3 DEF Stays
<1>4. CASE ListenWorks(p)  BY <1>0, <1>4 DEF ListenWorks
<1>5. CASE Start(p)  BY <1>0, <1>5 DEF Start, Goto
<1>6. CASE ReadPid(p)  BY <1>0, <1>6 DEF ReadPid, Goto, AfterKill
<1>7. CASE KillWorks(p)  BY <1>0, <1>7 DEF KillWorks, Say, Signalled
<1>8. CASE KillNoProcess(p)  BY <1>0, <1>8 DEF KillNoProcess, Say, AfterKill, Goto
<1>9. CASE KillNotAllowed(p)  BY <1>0, <1>9 DEF KillNotAllowed, Say, AfterKill, Goto
<1>10. CASE Wait(p)  BY <1>0, <1>10 DEF Wait, Say, AfterKill, Goto
<1>11. CASE SavePidFile(p)  BY <1>0, <1>11 DEF SavePidFile, Goto
<1>12. CASE RemovePidFile(p)  BY <1>0, <1>12 DEF RemovePidFile, Goto
<1> QED  BY <1>1, <1>2, <1>3, <1>4, <1>5, <1>6, <1>7, <1>8, <1>9, <1>10, <1>11, <1>12, Moves

(* While p waits only the old process can remove the file: it has the port.  *)
LEMMA WaitsStep ==
    ASSUME TypeOK, KnowsOld, HasPort, OneAtATime, LifeInv, NEW p \in Procs, Step(p)
    PROVE  WaitsForOld'
<1>0. /\ pc \in [Procs -> States] /\ said \in [Procs -> Messages]
      /\ old \in [Procs -> Procs \cup {None}]
      /\ pidFile \in Procs \cup {None}
  BY DEF TypeOK, States
<1> USE ServerAssumption DEF KnowsOld, HasPort, LifeInv, NamesSaved, WaitsForOld, Saved, OneUp, ComingUp, Down, Listening
<1>1. CASE Ends(p)  BY <1>0, <1>1 DEF Ends
<1>2. CASE GoesOn(p)  BY <1>0, <1>2 DEF GoesOn
<1>3. CASE Stays  BY <1>0, <1>3 DEF Stays
<1>4. CASE ListenWorks(p)  BY <1>0, <1>4 DEF ListenWorks
<1>5. CASE Start(p)  BY <1>0, <1>5 DEF Start, Goto
<1>6. CASE ReadPid(p)  BY <1>0, <1>6 DEF ReadPid, Goto, AfterKill
<1>7. CASE KillWorks(p)  BY <1>0, <1>7 DEF KillWorks, Say, Signalled
<1>8. CASE KillNoProcess(p)
  <2>1. pc[p] = "kill" /\ \E l \in {"gone", "save"} : pc' = [pc EXCEPT ![p] = l]
    BY <1>8 DEF KillNoProcess, AfterKill, Goto
  <2>2. \A q \in Procs : pc[q] \in {"kill", "wait"} => q = p  BY <2>1
  <2>3. \A q \in Procs : pc'[q] \notin {"kill", "wait"}  BY <1>0, <2>1, <2>2
  <2> QED  BY <2>3
<1>9. CASE KillNotAllowed(p)
  <2>1. pc[p] = "kill" /\ \E l \in {"gone", "save"} : pc' = [pc EXCEPT ![p] = l]
    BY <1>9 DEF KillNotAllowed, AfterKill, Goto
  <2>2. \A q \in Procs : pc[q] \in {"kill", "wait"} => q = p  BY <2>1
  <2>3. \A q \in Procs : pc'[q] \notin {"kill", "wait"}  BY <1>0, <2>1, <2>2
  <2> QED  BY <2>3
<1>10. CASE Wait(p)  BY <1>0, <1>10 DEF Wait, Say, AfterKill, Goto
<1>11. CASE SavePidFile(p)  BY <1>0, <1>11 DEF SavePidFile, Goto
<1>12. CASE RemovePidFile(p)  BY <1>0, <1>12 DEF RemovePidFile, Goto
<1> QED  BY <1>1, <1>2, <1>3, <1>4, <1>5, <1>6, <1>7, <1>8, <1>9, <1>10, <1>11, <1>12, Moves

(* wait ends when the file is gone, and then the old process is down.        *)
LEMMA ExitedStep ==
    ASSUME TypeOK, KnowsOld, HasPort, OneAtATime, LifeInv, NEW p \in Procs, Step(p)
    PROVE  ExitedIsDown'
<1>0. /\ pc \in [Procs -> States] /\ said \in [Procs -> Messages]
      /\ old \in [Procs -> Procs \cup {None}]
      /\ pidFile \in Procs \cup {None}
  BY DEF TypeOK, States
<1> USE ServerAssumption DEF KnowsOld, LifeInv, WaitsForOld, ExitedIsDown
<1>1. CASE Ends(p)  BY <1>0, <1>1 DEF Ends
<1>2. CASE GoesOn(p)  BY <1>0, <1>2 DEF GoesOn
<1>3. CASE Stays  BY <1>0, <1>3 DEF Stays
<1>4. CASE ListenWorks(p)  BY <1>0, <1>4 DEF ListenWorks
<1>5. CASE Start(p)  BY <1>0, <1>5 DEF Start, Goto
<1>6. CASE ReadPid(p)  BY <1>0, <1>6 DEF ReadPid, Goto, AfterKill
<1>7. CASE KillWorks(p)  BY <1>0, <1>7 DEF KillWorks, Say, Signalled
<1>8. CASE KillNoProcess(p)  BY <1>0, <1>8 DEF KillNoProcess, Say, AfterKill, Goto
<1>9. CASE KillNotAllowed(p)  BY <1>0, <1>9 DEF KillNotAllowed, Say, AfterKill, Goto
<1>10. CASE Wait(p)  BY <1>0, <1>10 DEF Wait, Say, AfterKill, Goto
<1>11. CASE SavePidFile(p)  BY <1>0, <1>11 DEF SavePidFile, Goto
<1>12. CASE RemovePidFile(p)  BY <1>0, <1>12 DEF RemovePidFile, Goto
<1> QED  BY <1>1, <1>2, <1>3, <1>4, <1>5, <1>6, <1>7, <1>8, <1>9, <1>10, <1>11, <1>12, Moves

(* Nobody saves while another holds the file, and its holder removes it.     *)
LEMMA HolderStep ==
    ASSUME TypeOK, KnowsOld, HasPort, OneAtATime, LifeInv, NEW p \in Procs, Step(p)
    PROVE  NamesHolder'
<1>0. /\ pc \in [Procs -> States] /\ said \in [Procs -> Messages]
      /\ old \in [Procs -> Procs \cup {None}]
      /\ pidFile \in Procs \cup {None}
  BY DEF TypeOK, States
<1>x. OneUp /\ NamesSaved /\ WaitsForOld /\ NamesHolder  BY DEF LifeInv
<1> SUFFICES ASSUME NotMet'
             PROVE  /\ \A q \in Procs : pc'[q] \in Saved => pidFile' = q
                    /\ \A q, r \in Procs : pc'[q] = "save" => pc'[r] \notin Saved
  BY DEF NamesHolder
<1>y. NotMet
  <2> USE <1>0 DEF NotMet, KnowsOld
  <2>1. CASE UNCHANGED said  BY <2>1
  <2>2. CASE pc[p] \in {"kill", "wait"} /\ \E m : Say(p, m)  BY <2>2 DEF Say
  <2> QED  BY <2>1, <2>2, Moves
        DEF Ends, GoesOn, Stays, ListenWorks, Start, ReadPid, KillWorks, KillNoProcess,
            KillNotAllowed, Wait, SavePidFile, RemovePidFile
<1>z. /\ \A q \in Procs : pc[q] \in Saved => pidFile = q
      /\ \A q, r \in Procs : pc[q] = "save" => pc[r] \notin Saved
  BY <1>x, <1>y DEF NamesHolder
<1> USE ServerAssumption DEF KnowsOld, NamesSaved, Saved, OneUp, ComingUp, Down, WaitsForOld, Alive
<1>1. CASE Ends(p)  BY <1>0, <1>x, <1>z, <1>1 DEF Ends
<1>2. CASE GoesOn(p)  BY <1>0, <1>x, <1>z, <1>2 DEF GoesOn
<1>3. CASE Stays  BY <1>0, <1>x, <1>z, <1>3 DEF Stays
<1>4. CASE ListenWorks(p)  BY <1>0, <1>x, <1>z, <1>4 DEF ListenWorks
<1>5. CASE Start(p)  BY <1>0, <1>x, <1>z, <1>5 DEF Start, Goto
<1>6. CASE ReadPid(p)  BY <1>0, <1>x, <1>z, <1>6 DEF ReadPid, Goto, AfterKill
<1>7. CASE KillWorks(p)  BY <1>0, <1>x, <1>z, <1>7 DEF KillWorks, Say, Signalled
<1>8. CASE KillNoProcess(p)
  <2>1. /\ pc[p] = "kill" /\ pidFile' = pidFile /\ pc[old[p]] \in {"new", "gone"} /\ old[p] \in Procs
        /\ \/ pc' = [pc EXCEPT ![p] = "gone"]
           \/ pc' = [pc EXCEPT ![p] = "save"]
    BY <1>0, <1>8 DEF KillNoProcess, AfterKill, Goto
  <2>2. \A q \in Procs : q # p => pc'[q] = pc[q]  BY <1>0, <2>1
  <2>3. pc'[p] \notin Saved  BY <1>0, <2>1
  <2>4. \A q \in Procs : pc[q] \notin Saved
    <3>1. pidFile \in {old[p], None}  BY <1>x, <2>1
    <3> QED  BY <1>z, <2>1, <3>1
  <2> QED  BY <1>z, <2>1, <2>2, <2>3, <2>4
<1>9. CASE KillNotAllowed(p)  BY <1>0, <1>9 DEF NotMet, KillNotAllowed, Say, AfterKill, Goto
<1>10. CASE Wait(p)  BY <1>0, <1>x, <1>z, <1>10 DEF Wait, Say, AfterKill, Goto
<1>11. CASE SavePidFile(p)  BY <1>0, <1>x, <1>z, <1>11 DEF SavePidFile, Goto
<1>12. CASE RemovePidFile(p)  BY <1>0, <1>x, <1>z, <1>12 DEF RemovePidFile, Goto
<1> QED  BY <1>1, <1>2, <1>3, <1>4, <1>5, <1>6, <1>7, <1>8, <1>9, <1>10, <1>11, <1>12, Moves

-----------------------------------------------------------------------------
(* Every step of every process keeps the invariant.                          *)
LEMMA LifeGoesOn == LifeIInv /\ [Next]_vars => LifeIInv'
<1> SUFFICES ASSUME LifeIInv, [Next]_vars  PROVE LifeIInv'  OBVIOUS
<1>1. ASSUME NEW p \in Procs, Step(p)
      PROVE  LifeIInv'
  <2>1. TypeOK'  BY <1>1, TypesStep DEF LifeIInv
  <2>2. KnowsOld' /\ HasPort'  BY <1>1, KnowsStep DEF LifeIInv
  <2>3. ASSUME OneAtATime  PROVE LifeInv'
    <3>1. LifeInv  BY <2>3 DEF LifeIInv
    <3>2. OneUp' /\ NamesSaved'  BY <1>1, <2>3, <3>1, OneUpStep, SavedStep DEF LifeIInv
    <3>3. WaitsForOld' /\ ExitedIsDown'  BY <1>1, <2>3, <3>1, WaitsStep, ExitedStep DEF LifeIInv
    <3>4. NamesHolder'  BY <1>1, <2>3, <3>1, HolderStep DEF LifeIInv
    <3> QED  BY <3>2, <3>3, <3>4 DEF LifeInv
  <2> QED  BY <2>1, <2>2, <2>3 DEF LifeIInv
<1>2. CASE UNCHANGED vars
  BY <1>2 DEF vars, local, LifeIInv, TypeOK, KnowsOld, HasPort, LifeInv, OneUp, ComingUp, Down,
              NamesSaved, WaitsForOld, ExitedIsDown, NamesHolder, NotMet
<1> QED  BY <1>1, <1>2 DEF Next, Step

-----------------------------------------------------------------------------
(* The log *)

(* Of two lines of a thread the one that comes first was logged first.       *)
Lt(l, m) == l[1] = m[1] => l[2] < m[2]
Rising(s) == \A i, j \in DOMAIN s : i < j => Lt(s[i], s[j])
Before(a, b) == \A i \in DOMAIN a : \A j \in DOMAIN b : Lt(a[i], b[j])

(* A line that is queued or written was begun before the one that its thread *)
(* logs now.                                                                 *)
Earlier(l, m, p) == l[2] <= m[l[1]] /\ (p[l[1]] # "idle" => l[2] < m[l[1]])
Begun(s, m, p) == \A i \in DOMAIN s : Earlier(s[i], m, p)
Logging == \A t \in Threads : tpc[t] # "idle" => n[t] > 0

(* The lines keep their order on the way through g_logList and allLogs.      *)
Order ==
    /\ Rising(written) /\ Rising(batch) /\ Rising(list)
    /\ Before(written, batch) /\ Before(written, list) /\ Before(batch, list)
    /\ Begun(written, n, tpc) /\ Begun(batch, n, tpc) /\ Begun(list, n, tpc)

(* Nothing is queued before the switch, and a thread that still writes by    *)
(* itself has nothing in the queue.                                          *)
NoneOf(t, s) == \A i \in DOMAIN s : s[i][1] # t
Switch ==
    /\ sync => lpc = "off" /\ list = <<>> /\ \A t \in Threads : tpc[t] # "push"
    /\ mpc \in {"switched", "run", "join"} => ~sync
    /\ mpc \in {"start", "switched"} => lpc = "off"
    /\ \A t \in Threads : tpc[t] = "sync" => NoneOf(t, list) /\ NoneOf(t, batch)

(* The log thread has lines exactly when it writes.                          *)
Batch == batch # <<>> <=> lpc = "write"

(* Where the lines are.                                                      *)
Kept ==
    \A t \in Threads : \A k \in 1 .. n[t] :
        \/ k = n[t] /\ tpc[t] # "idle"
        \/ <<t, k>> \in L!Range(written) \cup L!Range(batch) \cup L!Range(list) \cup raced

LogInv == L!TypeOK /\ Logging /\ Order /\ Switch /\ Batch /\ Kept

-----------------------------------------------------------------------------
(* Sequences of lines *)

(* What a sequence is after one more line.                                   *)
LEMMA AppendFacts ==
    ASSUME NEW S, NEW s \in Seq(S), NEW x \in S
    PROVE  /\ Append(s, x) \in Seq(S)
           /\ Len(s) \in Nat /\ DOMAIN s = 1 .. Len(s) /\ DOMAIN Append(s, x) = 1 .. Len(s) + 1
           /\ \A k \in DOMAIN s : Append(s, x)[k] = s[k]
           /\ Append(s, x)[Len(s) + 1] = x
OBVIOUS

(* What a sequence is without its first line.                                *)
LEMMA TailFacts ==
    ASSUME NEW S, NEW s \in Seq(S), s # <<>>
    PROVE  /\ Head(s) \in S /\ Tail(s) \in Seq(S) /\ 1 \in DOMAIN s /\ Head(s) = s[1]
           /\ Len(s) \in Nat /\ DOMAIN s = 1 .. Len(s) /\ DOMAIN Tail(s) = 1 .. Len(s) - 1
           /\ \A k \in DOMAIN Tail(s) : k + 1 \in DOMAIN s /\ Tail(s)[k] = s[k + 1]
OBVIOUS

(* The empty sequence has no line.                                           *)
LEMMA EmptyFacts == \A S : <<>> \in Seq(S) /\ DOMAIN <<>> = {} /\ L!Range(<<>>) = {}
BY DEF L!Range

(* Every line of a sequence is one.                                          *)
LEMMA ElementOf == ASSUME NEW S, NEW s \in Seq(S)  PROVE \A k \in DOMAIN s : s[k] \in S
OBVIOUS

(* At the end a line joins the others.                                       *)
LEMMA RangeAppend ==
    ASSUME NEW S, NEW s \in Seq(S), NEW x \in S
    PROVE  L!Range(Append(s, x)) = L!Range(s) \cup {x}
<1>1. /\ Len(s) \in Nat /\ DOMAIN s = 1 .. Len(s) /\ DOMAIN Append(s, x) = 1 .. Len(s) + 1
      /\ \A k \in DOMAIN s : Append(s, x)[k] = s[k]
      /\ Append(s, x)[Len(s) + 1] = x
  BY AppendFacts
<1>2. /\ \A k \in DOMAIN Append(s, x) : k \in DOMAIN s \/ k = Len(s) + 1
      /\ \A k \in DOMAIN s : k \in DOMAIN Append(s, x)
      /\ Len(s) + 1 \in DOMAIN Append(s, x)
  BY <1>1
<1> QED  BY <1>1, <1>2 DEF L!Range

(* The first line is the only one that Tail takes.                           *)
LEMMA RangeTail ==
    ASSUME NEW S, NEW s \in Seq(S), s # <<>>
    PROVE  L!Range(s) \subseteq L!Range(Tail(s)) \cup {Head(s)}
<1>1. /\ Head(s) = s[1] /\ Len(s) \in Nat /\ DOMAIN s = 1 .. Len(s)
      /\ DOMAIN Tail(s) = 1 .. Len(s) - 1
      /\ \A k \in DOMAIN Tail(s) : Tail(s)[k] = s[k + 1]
  BY TailFacts
<1> SUFFICES ASSUME NEW k \in DOMAIN s, k # 1  PROVE s[k] \in L!Range(Tail(s))
  BY <1>1 DEF L!Range
<1>2. k - 1 \in DOMAIN Tail(s) /\ (k - 1) + 1 = k  BY <1>1
<1>3. Tail(s)[k - 1] = s[k]  BY <1>1, <1>2
<1> QED  BY <1>2, <1>3 DEF L!Range

(* A line later than those of s goes to its end.                             *)
LEMMA RisingAppend ==
    ASSUME NEW s \in Seq(L!Line), NEW x \in L!Line, Rising(s), \A i \in DOMAIN s : Lt(s[i], x)
    PROVE  Rising(Append(s, x))
<1>1. /\ Len(s) \in Nat /\ DOMAIN s = 1 .. Len(s) /\ DOMAIN Append(s, x) = 1 .. Len(s) + 1
      /\ \A k \in DOMAIN s : Append(s, x)[k] = s[k]
      /\ Append(s, x)[Len(s) + 1] = x
  BY AppendFacts
<1> SUFFICES ASSUME NEW i \in DOMAIN Append(s, x), NEW j \in DOMAIN Append(s, x), i < j
             PROVE  Lt(Append(s, x)[i], Append(s, x)[j])
  BY DEF Rising
<1>2. i \in DOMAIN s /\ (j \in DOMAIN s \/ j = Len(s) + 1)  BY <1>1
<1> QED  BY <1>1, <1>2 DEF Rising

(* ... and comes after all that are before s.                                *)
LEMMA BeforeAppend ==
    ASSUME NEW a, NEW s \in Seq(L!Line), NEW x \in L!Line
    PROVE  /\ Before(a, s) /\ (\A i \in DOMAIN a : Lt(a[i], x)) => Before(a, Append(s, x))
           /\ Before(s, a) /\ (\A i \in DOMAIN a : Lt(x, a[i])) => Before(Append(s, x), a)
           /\ \A m, p : Begun(s, m, p) /\ Earlier(x, m, p) => Begun(Append(s, x), m, p)
           /\ \A t : NoneOf(t, s) /\ x[1] # t => NoneOf(t, Append(s, x))
<1>1. /\ Len(s) \in Nat /\ DOMAIN s = 1 .. Len(s) /\ DOMAIN Append(s, x) = 1 .. Len(s) + 1
      /\ \A k \in DOMAIN s : Append(s, x)[k] = s[k]
      /\ Append(s, x)[Len(s) + 1] = x
  BY AppendFacts
<1>2. \A k \in DOMAIN Append(s, x) : (k \in DOMAIN s /\ Append(s, x)[k] = s[k]) \/ Append(s, x)[k] = x
  BY <1>1
<1>3. Before(a, s) /\ (\A i \in DOMAIN a : Lt(a[i], x)) => Before(a, Append(s, x))
  BY <1>2 DEF Before
<1>4. Before(s, a) /\ (\A i \in DOMAIN a : Lt(x, a[i])) => Before(Append(s, x), a)
  BY <1>2 DEF Before
<1>5. \A m, p : Begun(s, m, p) /\ Earlier(x, m, p) => Begun(Append(s, x), m, p)
  BY <1>2 DEF Begun
<1>6. \A t : NoneOf(t, s) /\ x[1] # t => NoneOf(t, Append(s, x))  BY <1>2 DEF NoneOf
<1> QED  BY <1>3, <1>4, <1>5, <1>6

(* Without its first line a sequence stays in order, and that was the first. *)
LEMMA TailOrder ==
    ASSUME NEW s \in Seq(L!Line), s # <<>>
    PROVE  /\ Rising(s) => Rising(Tail(s)) /\ \A j \in DOMAIN Tail(s) : Lt(Head(s), Tail(s)[j])
           /\ \A a : Before(a, s) => Before(a, Tail(s)) /\ \A i \in DOMAIN a : Lt(a[i], Head(s))
           /\ \A a : Before(s, a) => Before(Tail(s), a) /\ \A i \in DOMAIN a : Lt(Head(s), a[i])
           /\ \A m, p : Begun(s, m, p) => Begun(Tail(s), m, p) /\ Earlier(Head(s), m, p)
           /\ \A t : NoneOf(t, s) => NoneOf(t, Tail(s)) /\ Head(s)[1] # t
<1> DEFINE r == Tail(s)
           h == Head(s)
<1>1. /\ 1 \in DOMAIN s /\ h = s[1] /\ DOMAIN r \subseteq Nat \ {0}
      /\ \A k \in DOMAIN r : k + 1 \in DOMAIN s /\ r[k] = s[k + 1]
  <2>1. /\ 1 \in DOMAIN s /\ h = s[1] /\ Len(s) \in Nat /\ DOMAIN r = 1 .. Len(s) - 1
        /\ \A k \in DOMAIN r : k + 1 \in DOMAIN s /\ r[k] = s[k + 1]
    BY TailFacts
  <2> QED  BY <2>1
<1> HIDE DEF r, h
<1>2. \A i, j \in DOMAIN r : i < j => i + 1 < j + 1  BY <1>1
<1>3. \A j \in DOMAIN r : 1 < j + 1  BY <1>1
<1>4. Rising(s) => Rising(r) /\ \A j \in DOMAIN r : Lt(h, r[j])  BY <1>1, <1>2, <1>3 DEF Rising
<1>5. \A a : Before(a, s) => Before(a, r) /\ \A i \in DOMAIN a : Lt(a[i], h)  BY <1>1 DEF Before
<1>6. \A a : Before(s, a) => Before(r, a) /\ \A i \in DOMAIN a : Lt(h, a[i])  BY <1>1 DEF Before
<1>7. \A m, p : Begun(s, m, p) => Begun(r, m, p) /\ Earlier(h, m, p)
  BY <1>1 DEF Begun
<1>8. \A t : NoneOf(t, s) => NoneOf(t, r) /\ h[1] # t  BY <1>1 DEF NoneOf
<1> QED  BY <1>4, <1>5, <1>6, <1>7, <1>8 DEF r, h

-----------------------------------------------------------------------------
(* What holds before any thread has logged.                                  *)
LEMMA LogStarts == L!Init => LogInv
<1> SUFFICES ASSUME L!Init  PROVE LogInv  OBVIOUS
<1>1. L!TypeOK
  <2>1. <<>> \in Seq(L!Line)  BY EmptyFacts
  <2>2. n \in [Threads -> 0 .. MaxLine]  BY LogAssumption DEF L!Assumption, L!Init
  <2>3. raced \subseteq L!Line  BY DEF L!Init
  <2> QED  BY <2>1, <2>2, <2>3 DEF L!Init, L!TypeOK
<1>2. Logging /\ Switch /\ Batch  BY EmptyFacts DEF L!Init, Logging, Switch, Batch, NoneOf
<1>3. Order  BY EmptyFacts DEF L!Init, Order, Rising, Before, Begun
<1>4. Kept  BY DEF L!Init, Kept
<1> QED  BY <1>1, <1>2, <1>3, <1>4 DEF LogInv

(* The lines in realDoLog() are lines, and the one that is written is later  *)
(* than what its thread wrote before.                                        *)
LEMMA CurrentFacts ==
    ASSUME LogInv, NEW t \in Threads, tpc[t] # "idle"
    PROVE  /\ L!Current(t) \in L!Line /\ L!Current(t) = <<t, n[t]>>
           /\ \A s \in Seq(L!Line) : Begun(s, n, tpc) => \A i \in DOMAIN s : Lt(s[i], L!Current(t))
<1>1. n[t] \in 1 .. MaxLine  BY LogAssumption DEF LogInv, L!TypeOK, Logging, L!Assumption
<1>2. L!Current(t) \in L!Line /\ L!Current(t) = <<t, n[t]>>  BY <1>1 DEF L!Current, L!Line
<1>3. ASSUME NEW s \in Seq(L!Line), Begun(s, n, tpc), NEW i \in DOMAIN s  PROVE Lt(s[i], L!Current(t))
  BY <1>2, <1>3 DEF Begun, Earlier, Lt
<1> QED  BY <1>2, <1>3

(* realDoLog() of a line: it is written, or it was in a race.                *)
LEMMA WriteFacts ==
    ASSUME LogInv, NEW l \in L!Line, l \in L!InRealDoLog, L!Write(l)
    PROVE  /\ raced \subseteq raced' /\ raced' \subseteq L!Line
           /\ \/ written' = Append(written, l)
              \/ written' = written /\ l \in raced'
<1>1. L!InRealDoLog \subseteq L!Line
  <2>1. \A t \in Threads : tpc[t] = "sync" => L!Current(t) \in L!Line  BY CurrentFacts
  <2>2. lpc = "write" => Head(batch) \in L!Line  BY TailFacts DEF LogInv, L!TypeOK, Batch
  <2> QED  BY <2>1, <2>2 DEF L!InRealDoLog
<1>2. raced \subseteq L!Line  BY DEF LogInv, L!TypeOK
<1> QED  BY <1>1, <1>2 DEF L!Write

(* doLog() looks at g_syncLog.                                               *)
LEMMA DoLogStep == ASSUME LogInv, NEW t \in Threads, L!DoLog(t)  PROVE LogInv'
<1>0. /\ n \in [Threads -> 0 .. MaxLine] /\ tpc \in [Threads -> {"idle", "sync", "push"}] /\ MaxLine \in Nat
      /\ written \in Seq(L!Line) /\ batch \in Seq(L!Line) /\ list \in Seq(L!Line)
  BY LogAssumption DEF LogInv, L!TypeOK, L!Assumption
<1>1. /\ tpc[t] = "idle" /\ n[t] + 1 \in 1 .. MaxLine
      /\ n' = [n EXCEPT ![t] = n[t] + 1]
      /\ tpc' = [tpc EXCEPT ![t] = IF sync THEN "sync" ELSE "push"]
      /\ UNCHANGED <<sync, exit, list, lpc, batch, mpc, written, raced>>
  BY <1>0 DEF L!DoLog, L!log
<1>2. L!TypeOK'  BY <1>0, <1>1 DEF LogInv, L!TypeOK
<1>3. Logging'  BY <1>0, <1>1 DEF LogInv, Logging
<1>4. Order'
  <2>1. ASSUME NEW l \in L!Line, Earlier(l, n, tpc)  PROVE Earlier(l, n', tpc')
    <3>1. l[1] \in Threads /\ l[2] \in Nat  BY <1>0 DEF L!Line
    <3>2. CASE l[1] = t  BY <1>0, <1>1, <2>1, <3>1, <3>2 DEF Earlier
    <3>3. CASE l[1] # t  BY <1>0, <1>1, <2>1, <3>1, <3>3 DEF Earlier
    <3> QED  BY <3>2, <3>3
  <2>2. ASSUME NEW s \in Seq(L!Line), Begun(s, n, tpc)  PROVE Begun(s, n', tpc')
    BY <2>1, <2>2, ElementOf DEF Begun
  <2>3. Begun(written, n', tpc') /\ Begun(batch, n', tpc') /\ Begun(list, n', tpc')
    BY <1>0, <2>2 DEF LogInv, Order
  <2> QED  BY <1>1, <2>3 DEF LogInv, Order
<1>5. Switch'
  <2>1. sync => batch = <<>> /\ list = <<>>  BY DEF LogInv, Switch, Batch
  <2> QED  BY <1>0, <1>1, <2>1, EmptyFacts DEF LogInv, Switch, NoneOf
<1>6. Batch'  BY <1>1 DEF LogInv, Batch
<1>7. Kept'
  <2>1. SUFFICES ASSUME NEW u \in Threads, NEW k \in 1 .. n'[u], ~(k = n'[u] /\ tpc'[u] # "idle")
        PROVE  <<u, k>> \in L!Range(written) \cup L!Range(batch) \cup L!Range(list) \cup raced
    BY <1>1 DEF Kept
  <2>2. k \in 1 .. n[u] /\ ~(k = n[u] /\ tpc[u] # "idle")  BY <1>0, <1>1, <2>1
  <2> QED  BY <2>2 DEF LogInv, Kept
<1> QED  BY <1>2, <1>3, <1>4, <1>5, <1>6, <1>7 DEF LogInv

(* realDoLog() writes a line directly.                                       *)
LEMMA RealDoLogStep == ASSUME LogInv, NEW t \in Threads, L!RealDoLog(t)  PROVE LogInv'
<1> DEFINE l == L!Current(t)
<1>0. /\ n \in [Threads -> 0 .. MaxLine] /\ tpc \in [Threads -> {"idle", "sync", "push"}] /\ MaxLine \in Nat
      /\ written \in Seq(L!Line) /\ batch \in Seq(L!Line) /\ list \in Seq(L!Line)
  BY LogAssumption DEF LogInv, L!TypeOK, L!Assumption
<1>1. /\ tpc[t] = "sync" /\ tpc' = [tpc EXCEPT ![t] = "idle"] /\ L!Write(l)
      /\ UNCHANGED <<sync, exit, list, n, lpc, batch, mpc>>
  BY DEF L!RealDoLog, L!log
<1>2. /\ l \in L!Line /\ l = <<t, n[t]>>
      /\ \A s \in Seq(L!Line) : Begun(s, n, tpc) => \A i \in DOMAIN s : Lt(s[i], l)
  BY <1>1, CurrentFacts
<1>3. /\ raced \subseteq raced' /\ raced' \subseteq L!Line
      /\ written' = Append(written, l) \/ (written' = written /\ l \in raced')
  <2>1. l \in L!InRealDoLog  BY <1>1 DEF L!InRealDoLog
  <2> QED  BY <1>1, <1>2, <2>1, WriteFacts
<1> HIDE DEF l
<1>4. L!TypeOK'
  <2>1. written' \in Seq(L!Line)
    <3>1. Append(written, l) \in Seq(L!Line)  BY <1>0, <1>2, AppendFacts
    <3> QED  BY <1>0, <1>3, <3>1
  <2> QED  BY <1>0, <1>1, <1>3, <2>1 DEF LogInv, L!TypeOK
<1>5. Logging'  BY <1>0, <1>1 DEF LogInv, Logging
<1>6. Order'
  <2>1. ASSUME NEW x \in L!Line, Earlier(x, n, tpc)  PROVE Earlier(x, n', tpc')
    <3>1. x[1] \in Threads /\ x[2] \in Nat  BY <1>0 DEF L!Line
    <3> QED  BY <1>0, <1>1, <2>1, <3>1 DEF Earlier
  <2>2. ASSUME NEW s \in Seq(L!Line), Begun(s, n, tpc)  PROVE Begun(s, n', tpc')
    BY <2>1, <2>2, ElementOf DEF Begun
  <2>3. Begun(written, n', tpc') /\ Begun(batch, n', tpc') /\ Begun(list, n', tpc')
    BY <1>0, <2>2 DEF LogInv, Order
  <2>4. Earlier(l, n', tpc')
    <3>1. l[1] = t /\ l[2] = n[t] /\ n'[t] = n[t] /\ tpc'[t] = "idle" /\ n[t] \in Nat  BY <1>0, <1>1, <1>2
    <3> QED  BY <3>1 DEF Earlier
  <2>5. /\ \A i \in DOMAIN batch : Lt(l, batch[i])
        /\ \A i \in DOMAIN list : Lt(l, list[i])
    BY <1>1, <1>2 DEF LogInv, Switch, NoneOf, Lt
  <2>6. CASE written' = Append(written, l)
    <3>1. Rising(written')  BY <1>0, <1>2, <2>6, RisingAppend DEF LogInv, Order
    <3>2. Before(written', batch) /\ Before(written', list)
      BY <1>0, <1>2, <2>5, <2>6, BeforeAppend DEF LogInv, Order
    <3>3. Begun(written', n', tpc')  BY <1>0, <1>2, <2>3, <2>4, <2>6, BeforeAppend
    <3> QED  BY <1>1, <2>3, <3>1, <3>2, <3>3 DEF LogInv, Order
  <2>7. CASE written' = written  BY <1>1, <2>3, <2>7 DEF LogInv, Order
  <2> QED  BY <1>3, <2>6, <2>7
<1>7. Switch'  BY <1>0, <1>1 DEF LogInv, Switch
<1>8. Batch'  BY <1>1 DEF LogInv, Batch
<1>9. Kept'
  <2>1. L!Range(written) \subseteq L!Range(written') /\ l \in L!Range(written') \cup raced'
    <3>0. l \in L!Line /\ written \in Seq(L!Line)  BY <1>0, <1>2
    <3>1. L!Range(Append(written, l)) = L!Range(written) \cup {l}  BY <3>0, RangeAppend
    <3> QED  BY <1>3, <3>1
  <2>2. SUFFICES ASSUME NEW u \in Threads, NEW k \in 1 .. n[u], ~(k = n[u] /\ tpc'[u] # "idle")
        PROVE  <<u, k>> \in L!Range(written') \cup L!Range(batch) \cup L!Range(list) \cup raced'
    BY <1>1 DEF Kept
  <2>3. CASE u = t /\ k = n[t]  BY <1>2, <2>1, <2>3
  <2>4. CASE ~(u = t /\ k = n[t])
    <3>1. ~(k = n[u] /\ tpc[u] # "idle")  BY <1>0, <1>1, <2>2, <2>4
    <3>2. <<u, k>> \in L!Range(written) \cup L!Range(batch) \cup L!Range(list) \cup raced  BY <3>1 DEF LogInv, Kept
    <3> QED  BY <1>3, <2>1, <3>2
  <2> QED  BY <2>3, <2>4
<1> QED  BY <1>4, <1>5, <1>6, <1>7, <1>8, <1>9 DEF LogInv

(* doLog() queues a line for the log thread.                                 *)
LEMMA PushStep == ASSUME LogInv, NEW t \in Threads, L!Push(t)  PROVE LogInv'
<1> DEFINE l == L!Current(t)
<1>0. /\ n \in [Threads -> 0 .. MaxLine] /\ tpc \in [Threads -> {"idle", "sync", "push"}] /\ MaxLine \in Nat
      /\ written \in Seq(L!Line) /\ batch \in Seq(L!Line) /\ list \in Seq(L!Line)
  BY LogAssumption DEF LogInv, L!TypeOK, L!Assumption
<1>1. /\ tpc[t] = "push" /\ tpc' = [tpc EXCEPT ![t] = "idle"] /\ list' = Append(list, l)
      /\ UNCHANGED <<sync, exit, n, lpc, batch, mpc, written, raced>>
  BY DEF L!Push
<1>2. /\ l \in L!Line /\ l = <<t, n[t]>>
      /\ \A s \in Seq(L!Line) : Begun(s, n, tpc) => \A i \in DOMAIN s : Lt(s[i], l)
  BY <1>1, CurrentFacts
<1> HIDE DEF l
<1>3. L!TypeOK'
  <2>1. list' \in Seq(L!Line)  BY <1>0, <1>1, <1>2, AppendFacts
  <2> QED  BY <1>0, <1>1, <2>1 DEF LogInv, L!TypeOK
<1>4. Logging'  BY <1>0, <1>1 DEF LogInv, Logging
<1>5. Order'
  <2>1. ASSUME NEW x \in L!Line, Earlier(x, n, tpc)  PROVE Earlier(x, n', tpc')
    <3>1. x[1] \in Threads /\ x[2] \in Nat  BY <1>0 DEF L!Line
    <3> QED  BY <1>0, <1>1, <2>1, <3>1 DEF Earlier
  <2>2. ASSUME NEW s \in Seq(L!Line), Begun(s, n, tpc)  PROVE Begun(s, n', tpc')
    BY <2>1, <2>2, ElementOf DEF Begun
  <2>3. Begun(written, n', tpc') /\ Begun(batch, n', tpc') /\ Begun(list, n', tpc')
    BY <1>0, <2>2 DEF LogInv, Order
  <2>4. Earlier(l, n', tpc')
    <3>1. l[1] = t /\ l[2] = n[t] /\ n'[t] = n[t] /\ tpc'[t] = "idle" /\ n[t] \in Nat  BY <1>0, <1>1, <1>2
    <3> QED  BY <3>1 DEF Earlier
  <2>5. Rising(list')  BY <1>0, <1>1, <1>2, RisingAppend DEF LogInv, Order
  <2>6. Before(written, list') /\ Before(batch, list')
    BY <1>0, <1>1, <1>2, BeforeAppend DEF LogInv, Order
  <2>7. Begun(list', n', tpc')  BY <1>0, <1>1, <1>2, <2>3, <2>4, BeforeAppend
  <2> QED  BY <1>1, <2>3, <2>5, <2>6, <2>7 DEF LogInv, Order
<1>6. Switch'
  <2>1. ASSUME NEW u \in Threads, tpc'[u] = "sync"  PROVE NoneOf(u, list') /\ NoneOf(u, batch')
    <3>1. u # t /\ tpc[u] = "sync"  BY <1>0, <1>1, <2>1
    <3>2. NoneOf(u, list) /\ NoneOf(u, batch) /\ l[1] # u  BY <1>2, <3>1 DEF LogInv, Switch
    <3> QED  BY <1>0, <1>1, <1>2, <3>2, BeforeAppend
  <2> QED  BY <1>0, <1>1, <2>1 DEF LogInv, Switch
<1>7. Batch'  BY <1>1 DEF LogInv, Batch
<1>8. Kept'
  <2>1. L!Range(list') = L!Range(list) \cup {l}
    <3>0. l \in L!Line /\ list \in Seq(L!Line)  BY <1>0, <1>2
    <3>1. L!Range(Append(list, l)) = L!Range(list) \cup {l}  BY <3>0, RangeAppend
    <3> QED  BY <1>1, <3>1
  <2>2. SUFFICES ASSUME NEW u \in Threads, NEW k \in 1 .. n[u], ~(k = n[u] /\ tpc'[u] # "idle")
        PROVE  <<u, k>> \in L!Range(written) \cup L!Range(batch) \cup L!Range(list') \cup raced
    BY <1>1 DEF Kept
  <2>3. CASE u = t /\ k = n[t]  BY <1>2, <2>1, <2>3
  <2>4. CASE ~(u = t /\ k = n[t])
    <3>1. ~(k = n[u] /\ tpc[u] # "idle")  BY <1>0, <1>1, <2>2, <2>4
    <3>2. <<u, k>> \in L!Range(written) \cup L!Range(batch) \cup L!Range(list) \cup raced  BY <3>1 DEF LogInv, Kept
    <3> QED  BY <2>1, <3>2
  <2> QED  BY <2>3, <2>4
<1> QED  BY <1>3, <1>4, <1>5, <1>6, <1>7, <1>8 DEF LogInv

(* swap(): the log thread takes the list when it has no lines.               *)
LEMMA SwapStep == ASSUME LogInv, L!Swap  PROVE LogInv'
<1>1. /\ lpc = "swap" /\ batch = <<>> /\ batch' = list /\ list' = <<>>
      /\ lpc' = (IF list = <<>> THEN "check" ELSE "write")
      /\ UNCHANGED <<sync, exit, tpc, n, mpc, written, raced>>
  BY DEF LogInv, Batch, L!Swap, L!thread
<1>2. DOMAIN <<>> = {} /\ L!Range(<<>>) = {} /\ <<>> \in Seq(L!Line)  BY EmptyFacts
<1>3. L!TypeOK' /\ Logging'  BY <1>1, <1>2 DEF LogInv, L!TypeOK, Logging
<1>4. Order'  BY <1>1, <1>2 DEF LogInv, Order, Rising, Before, Begun
<1>5. Switch' /\ Batch'  BY <1>1, <1>2 DEF LogInv, Switch, Batch, NoneOf
<1>6. Kept'  BY <1>1, <1>2 DEF LogInv, Kept
<1> QED  BY <1>3, <1>4, <1>5, <1>6 DEF LogInv

(* The log thread writes the first of its lines.                             *)
LEMMA WriteOneStep == ASSUME LogInv, L!WriteOne  PROVE LogInv'
<1> DEFINE l == Head(batch)
<1>0. written \in Seq(L!Line) /\ batch \in Seq(L!Line) /\ list \in Seq(L!Line)  BY DEF LogInv, L!TypeOK
<1>1. /\ lpc = "write" /\ batch # <<>> /\ L!Write(l) /\ batch' = Tail(batch)
      /\ lpc' = (IF Tail(batch) = <<>> THEN "swap" ELSE "write")
      /\ UNCHANGED <<sync, exit, list, tpc, n, mpc>>
  BY DEF LogInv, Batch, L!WriteOne, L!log, L!thread
<1>2. l \in L!Line /\ batch' \in Seq(L!Line)  BY <1>0, <1>1, TailFacts
<1>3. /\ raced \subseteq raced' /\ raced' \subseteq L!Line
      /\ written' = Append(written, l) \/ (written' = written /\ l \in raced')
  <2>1. l \in L!InRealDoLog  BY <1>1 DEF L!InRealDoLog
  <2> QED  BY <1>1, <1>2, <2>1, WriteFacts
<1>4. /\ Rising(batch') /\ Before(written, batch') /\ Before(batch', list) /\ Begun(batch', n, tpc)
      /\ \A j \in DOMAIN batch' : Lt(l, batch'[j])
      /\ \A i \in DOMAIN written : Lt(written[i], l)
      /\ \A i \in DOMAIN list : Lt(l, list[i])
      /\ Earlier(l, n, tpc)
      /\ \A t : NoneOf(t, batch) => NoneOf(t, batch')
  BY <1>0, <1>1, TailOrder DEF LogInv, Order
<1>5. L!Range(batch) \subseteq L!Range(batch') \cup {l}  BY <1>0, <1>1, RangeTail
<1> HIDE DEF l
<1>6. L!TypeOK' /\ Logging'
  <2>1. written' \in Seq(L!Line)
    <3>1. Append(written, l) \in Seq(L!Line)  BY <1>0, <1>2, AppendFacts
    <3> QED  BY <1>0, <1>3, <3>1
  <2> QED  BY <1>1, <1>2, <1>3, <2>1 DEF LogInv, L!TypeOK, Logging
<1>7. Order'
  <2>1. CASE written' = Append(written, l)
    <3>1. Rising(written')  BY <1>0, <1>2, <1>4, <2>1, RisingAppend DEF LogInv, Order
    <3>2. Before(written', batch') /\ Before(written', list) /\ Begun(written', n, tpc)
      BY <1>0, <1>2, <1>4, <2>1, BeforeAppend DEF LogInv, Order
    <3> QED  BY <1>1, <1>4, <3>1, <3>2 DEF LogInv, Order
  <2>2. CASE written' = written  BY <1>1, <1>4, <2>2 DEF LogInv, Order
  <2> QED  BY <1>3, <2>1, <2>2
<1>8. Switch' /\ Batch'  BY <1>1, <1>4 DEF LogInv, Switch, Batch
<1>9. Kept'
  <2>1. L!Range(written) \subseteq L!Range(written') /\ l \in L!Range(written') \cup raced'
    <3>1. L!Range(Append(written, l)) = L!Range(written) \cup {l}  BY <1>0, <1>2, RangeAppend
    <3> QED  BY <1>3, <3>1
  <2> QED  BY <1>1, <1>3, <1>5, <2>1 DEF LogInv, Kept
<1> QED  BY <1>6, <1>7, <1>8, <1>9 DEF LogInv

(* The other steps move the log thread and the main thread only.             *)
LEMMA OtherSteps == ASSUME LogInv, L!Check \/ L!Main \/ L!Finish \/ UNCHANGED L!vars  PROVE LogInv'
<1>1. /\ UNCHANGED <<list, tpc, n, batch, written, raced>>
      /\ sync' => sync /\ lpc' = "off"
      /\ lpc' = "write" <=> lpc = "write"
      /\ mpc' \in {"switched", "run", "join"} => ~sync'
      /\ mpc' \in {"start", "switched"} => lpc' = "off"
      /\ lpc' \in {"off", "swap", "check", "write", "done"}
      /\ mpc' \in {"start", "switched", "run", "join", "ended"}
      /\ sync' \in BOOLEAN /\ exit' \in BOOLEAN
  <2>0. /\ mpc \in {"switched", "run", "join"} => ~sync
        /\ mpc \in {"start", "switched"} => lpc = "off"
        /\ sync => lpc = "off"
        /\ lpc \in {"off", "swap", "check", "write", "done"}
        /\ mpc \in {"start", "switched", "run", "join", "ended"}
        /\ sync \in BOOLEAN /\ exit \in BOOLEAN
    BY DEF LogInv, L!TypeOK, Switch
  <2>1. CASE L!Check  BY <2>0, <2>1 DEF L!Check, L!log, L!thread
  <2>2. CASE L!SetLogSync  BY <2>0, <2>2 DEF L!SetLogSync, L!thread
  <2>3. CASE L!StartAsyncThread
    <3>1. lpc = "off"  BY <2>0, <2>3 DEF L!StartAsyncThread
    <3> QED  BY <2>0, <2>3, <3>1 DEF L!StartAsyncThread, L!log, L!thread
  <2>4. CASE L!Join  BY <2>0, <2>4 DEF L!Join, L!log, L!thread
  <2>5. CASE L!Finish  BY <2>0, <2>5 DEF L!Finish, L!thread
  <2>6. CASE UNCHANGED L!vars  BY <2>0, <2>6 DEF L!vars, L!log, L!thread
  <2> QED  BY <2>1, <2>2, <2>3, <2>4, <2>5, <2>6 DEF L!Main
<1>2. L!TypeOK' /\ Logging'  BY <1>1 DEF LogInv, L!TypeOK, Logging
<1>3. Order'  BY <1>1 DEF LogInv, Order
<1>4. Switch' /\ Batch'  BY <1>1 DEF LogInv, Switch, Batch
<1>5. Kept'  BY <1>1 DEF LogInv, Kept
<1> QED  BY <1>2, <1>3, <1>4, <1>5 DEF LogInv

(* Every step of every thread keeps the invariant.                           *)
LEMMA LogGoesOn == LogInv /\ [L!Next]_(L!vars) => LogInv'
BY DoLogStep, RealDoLogStep, PushStep, SwapStep, WriteOneStep, OtherSteps DEF L!Next, L!LogThread

-----------------------------------------------------------------------------
(* The server *)

(* A step of the server is one of a process's life or one of its log.        *)
LEMMA ServerStep ==
    LifeIInv /\ LogInv /\ [MCNext]_<<part, vars, logVars>> => LifeIInv' /\ LogInv'
<1> SUFFICES ASSUME LifeIInv, LogInv, [MCNext]_<<part, vars, logVars>>  PROVE LifeIInv' /\ LogInv'
  OBVIOUS
<1>1. [Next]_vars  BY DEF MCNext
<1>2. [L!Next]_(L!vars)  BY DEF MCNext, logVars, L!vars, L!log, L!thread
<1> QED  BY <1>1, <1>2, LifeGoesOn, LogGoesOn

(* Both inductive invariants hold in every state the server can reach.       *)
THEOREM Invariance == MCSpec => [](LifeIInv /\ LogInv)
<1>1. MCInit => LifeIInv /\ LogInv  BY LifeStarts, LogStarts DEF MCInit
<1> QED  BY <1>1, ServerStep, PTL DEF MCSpec

(* Every variable keeps its type, also when processes start at a time.       *)
THEOREM TypeCorrect == MCSpec => [](TypeOK /\ L!TypeOK)
<1>1. LifeIInv /\ LogInv => TypeOK /\ L!TypeOK  BY DEF LifeIInv, LogInv
<1> QED  BY <1>1, Invariance, PTL

(* If processes are started one after the other, the pid file names the      *)
(* server in its main loop until one meets another user's server, and a      *)
(* server that killOldProcess() reports as exited is down.                   *)
THEOREM PidFileIsRight == MCSpec => [](OneAtATime => PidFileInv)
<1>1. ASSUME LifeIInv, OneAtATime  PROVE PidFileInv
  <2>1. PidFileNamesServer
    BY <1>1 DEF LifeIInv, LifeInv, NamesHolder, NotMet, Saved, PidFileNamesServer
  <2> QED  BY <1>1, <2>1 DEF LifeIInv, LifeInv, PidFileInv
<1>2. LifeIInv => (OneAtATime => PidFileInv)  BY <1>1
<1> QED  BY <1>2, Invariance, PTL

(* Lines are written once and in the order of their threads, and none is     *)
(* lost but in a race, for any number of threads and lines.                  *)
THEOREM LinesArrive == MCSpec => []LinesInv
<1>1. ASSUME LogInv  PROVE LinesInv
  <2>1. L!InOrder  BY <1>1 DEF LogInv, Order, Rising, Lt, L!InOrder
  <2>2. L!NoLineLost
    <3> SUFFICES ASSUME NEW t \in Threads, NEW k \in 1 .. n[t]
                 PROVE  \/ <<t, k>> = L!Current(t) /\ tpc[t] # "idle"
                        \/ <<t, k>> \in L!Range(written) \cup L!Range(list) \cup raced
                        \/ lpc = "write" /\ <<t, k>> \in L!Range(batch)
      BY DEF L!NoLineLost
    <3>1. lpc # "write" => L!Range(batch) = {}  BY <1>1, EmptyFacts DEF LogInv, Batch
    <3>2. k = n[t] => <<t, k>> = L!Current(t)  BY DEF L!Current
    <3> QED  BY <1>1, <3>1, <3>2 DEF LogInv, Kept
  <2> QED  BY <1>1, <2>1, <2>2 DEF LogInv, LinesInv, L!LinesInv
<1>2. LogInv => LinesInv  BY <1>1
<1> QED  BY <1>2, Invariance, PTL
=============================================================================
