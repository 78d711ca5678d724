------------------------------- MODULE DayLog -------------------------------
(* A DayLog or HourLog: a file for every day, or every hour.  It is decided  *)
(* from the time of the line before whether the open file is still the one   *)
(* for the next line.  A line has the time its LogStream was made; threads   *)
(* hand their lines over some time later, so the times may go back.          *)
EXTENDS Integers, Sequences

CONSTANTS
    Period,     \* seconds of a day (DayLog) or of an hour (HourLog)
    Reopen,     \* FILE_REOPEN_INTERVAL
    Skew,       \* a line may be this much older than the clock
    MaxTime, MaxLine, MaxFail   \* bounds: seconds, lines, failed fopens

Assumption ==
    /\ Period \in Nat \ {0} /\ Reopen \in Nat /\ Skew \in Nat
    /\ MaxTime \in Nat /\ MaxLine \in Nat /\ MaxFail \in Nat

VARIABLES
    files,      \* the times of the lines in the file of each period
    fp,         \* m_fp: the period of the open file, or NULL
    openTime, lastTime,   \* m_openTime and m_lastTime
    clock, lines, fails

vars == <<files, fp, openTime, lastTime, clock, lines, fails>>

NULL == -1
Date(t) == t \div Period
Times == 0 .. MaxTime
Dates == 0 .. Date(MaxTime)

TypeOK ==
    /\ files \in [Dates -> Seq(Times)]
    /\ fp \in Dates \cup {NULL}
    /\ openTime \in Times /\ lastTime \in Times
    /\ clock \in Times /\ lines \in 0 .. MaxLine /\ fails \in 0 .. MaxFail

Init ==
    /\ files = [d \in Dates |-> <<>>]
    /\ fp = NULL /\ openTime = 0 /\ lastTime = 0
    /\ clock = 0 /\ lines = 0 /\ fails = 0

Tick ==
    /\ clock < MaxTime
    /\ clock' = clock + 1
    /\ UNCHANGED <<files, fp, openTime, lastTime, lines, fails>>

\* prepareLogFile() opens the file of the line's period.
MustOpen(t) == fp = NULL \/ Date(t) # Date(lastTime) \/ t - Reopen > openTime

AppendTo(t, d) ==
    /\ files' = [files EXCEPT ![d] = Append(@, t)]
    /\ fp' = d

OpenFails ==
    /\ fails < MaxFail
    /\ fails' = fails + 1
    /\ fp' = NULL
    /\ UNCHANGED files

WriteLog(t) ==
    /\ lines < MaxLine
    /\ lines' = lines + 1
    /\ \/ /\ MustOpen(t)
          /\ openTime' = t
          /\ \/ AppendTo(t, Date(t)) /\ UNCHANGED fails
             \/ OpenFails
       \/ /\ ~MustOpen(t)
          /\ AppendTo(t, fp)
          /\ UNCHANGED <<openTime, fails>>
    /\ lastTime' = t
    /\ UNCHANGED clock

\* The process ends and another one starts.
Restart ==
    /\ fp' = NULL /\ openTime' = 0 /\ lastTime' = 0
    /\ UNCHANGED <<files, clock, lines, fails>>

Next ==
    \/ Tick \/ Restart
    \/ \E t \in Times : t \in clock - Skew .. clock /\ WriteLog(t)

Spec == Init /\ [][Next]_vars

-----------------------------------------------------------------------------
(* Properties *)

(* Every line is in the file of its own day or hour, also when a line comes  *)
(* late over midnight, after a fopen() that failed, and after a restart.     *)
InOwnFile == \A d \in Dates : \A i \in DOMAIN files[d] : Date(files[d][i]) = d
=============================================================================
