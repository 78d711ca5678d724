------------------------------- MODULE RollLog -------------------------------
(* The files of a RollLog.  Lines are appended to file 0; once it has        *)
(* reached its size the files move up by one, the last is removed, and a new *)
(* file 0 is opened.  The process may be killed between any two of the       *)
(* renames, and a later process goes on with the files it finds.             *)
(*                                                                           *)
(* An operator BadX is a faulty variant of X that the specification does not *)
(* use: it serves to see the property that guards against the slip fail.     *)
EXTENDS Integers, Sequences, Flatten

CONSTANTS
    MaxFile, MaxSize,   \* m_maxFile and m_maxSize
    LineSizes,          \* the sizes of the lines that are logged
    Reopen,             \* FILE_REOPEN_INTERVAL
    MaxTime, MaxLine, MaxKill, MaxFail   \* bounds: seconds, lines, kills, failed fopens

\* With m_maxSize = 0, or m_maxFile = 0, prepareLogFile() calls itself for ever.
Assumption ==
    /\ MaxFile \in Nat \ {0} /\ MaxSize \in Nat \ {0} /\ Reopen \in Nat
    /\ LineSizes \subseteq Nat \ {0}
    /\ MaxTime \in Nat /\ MaxLine \in Nat /\ MaxKill \in Nat /\ MaxFail \in Nat

VARIABLES
    files,      \* file i holds files[i]; a file that is not there holds no line
    open,       \* m_fp is not NULL: file 0 is open
    size,       \* m_fileSize
    openTime,   \* m_openTime
    move,       \* the next step of the roll: -1 for none, else the file to move
    line,       \* the line that writeLog() is at during a roll
    clock,
    written,    \* all lines that were written, in their order
    lines, kills, fails

file == <<open, size, openTime>>
vars == <<files, file, move, line, clock, written, lines, kills, fails>>

Index == 0 .. MaxFile - 1
Line == [id : 1 .. MaxLine, size : LineSizes]
NoLine == [id |-> 0, size |-> 0]

FileSize(f) ==
    LET Sum[n \in 0 .. Len(f)] == IF n = 0 THEN 0 ELSE Sum[n - 1] + f[n].size
    IN  Sum[Len(f)]

TypeOK ==
    /\ files \in [Index -> Seq(Line)]
    /\ open \in BOOLEAN /\ size \in Nat /\ openTime \in 0 .. MaxTime
    /\ move \in Index \cup {-1}
    /\ line \in Line \cup {NoLine}
    /\ clock \in 0 .. MaxTime
    /\ written \in Seq(Line)
    /\ lines \in 0 .. MaxLine /\ kills \in 0 .. MaxKill /\ fails \in 0 .. MaxFail

Init ==
    /\ files = [i \in Index |-> <<>>]
    /\ open = FALSE /\ size = 0 /\ openTime = 0
    /\ move = -1 /\ line = NoLine
    /\ clock = 0 /\ written = <<>>
    /\ lines = 0 /\ kills = 0 /\ fails = 0

Tick ==
    /\ clock < MaxTime
    /\ clock' = clock + 1
    /\ UNCHANGED <<files, file, move, line, written, lines, kills, fails>>

-----------------------------------------------------------------------------
\* The roll begins with the last file.
RollFrom == MaxFile - 1

\* fwrite() to file 0, whose m_fileSize was sz.
Append0(l, sz) ==
    /\ files' = [files EXCEPT ![0] = Append(@, l)]
    /\ written' = Append(written, l)
    /\ size' = sz + l.size
    /\ open' = TRUE

\* prepareLogFile() with file 0 closed: fopen(), ftello(), and the line is
\* written or, the file being full, a roll begins.
BadOpenAndWrite(l) ==
    /\ openTime' = clock
    /\ LET sz == FileSize(files[0]) IN
          \/ sz = 0 /\ Append0(l, sz) /\ move' = -1 /\ line' = NoLine
          \/ sz > 0
                /\ move' = RollFrom /\ line' = l /\ open' = FALSE /\ size' = sz
                /\ UNCHANGED <<files, written>>
    /\ UNCHANGED fails
OpenAndWrite(l) ==
    /\ openTime' = clock
    /\ LET sz == FileSize(files[0]) IN
          \/ sz < MaxSize /\ Append0(l, sz) /\ move' = -1 /\ line' = NoLine
          \/ sz >= MaxSize
                /\ move' = RollFrom /\ line' = l /\ open' = FALSE /\ size' = sz
                /\ UNCHANGED <<files, written>>
    /\ UNCHANGED fails

\* fopen() fails: prepareLogFile() returns false and the line is not written.
OpenFails ==
    /\ fails < MaxFail
    /\ fails' = fails + 1
    /\ open' = FALSE /\ openTime' = clock /\ move' = -1 /\ line' = NoLine
    /\ UNCHANGED <<files, size, written>>

WriteOpen(l) ==
    /\ \/ size < MaxSize /\ Append0(l, size) /\ move' = -1 /\ line' = NoLine
       \/ size >= MaxSize
             /\ move' = RollFrom /\ line' = l /\ open' = FALSE
             /\ UNCHANGED <<files, size, written>>
    /\ UNCHANGED <<openTime, fails>>

NeedsOpen == ~open \/ clock - Reopen > openTime

WriteLog(n) ==
    /\ move = -1 /\ lines < MaxLine
    /\ lines' = lines + 1
    /\ LET l == [id |-> lines + 1, size |-> n] IN
          \/ NeedsOpen /\ (OpenAndWrite(l) \/ OpenFails)
          \/ ~NeedsOpen /\ WriteOpen(l)
    /\ UNCHANGED <<clock, kills>>

\* One step of the roll: the last file is removed, every other one moves up.
\* With file 0 out of the way prepareLogFile() is called again.
Moved ==
    IF move = MaxFile - 1 THEN [files EXCEPT ![move] = <<>>]
    ELSE IF files[move] = <<>> THEN files
    ELSE [files EXCEPT ![move + 1] = files[move], ![move] = <<>>]

Move ==
    /\ move > 0
    /\ files' = Moved
    /\ move' = move - 1
    /\ UNCHANGED <<file, line, clock, written, lines, kills, fails>>

\* The last step of the roll, and what the second prepareLogFile() does.
Rolled ==
    /\ move = 0
    /\ LET f == Moved IN
          \/ /\ files' = [f EXCEPT ![0] = <<line>>]
             /\ written' = Append(written, line)
             /\ size' = line.size /\ open' = TRUE
             /\ UNCHANGED fails
          \/ /\ fails < MaxFail /\ fails' = fails + 1
             /\ files' = f /\ open' = FALSE
             /\ UNCHANGED <<written, size>>
    /\ openTime' = clock /\ move' = -1 /\ line' = NoLine
    /\ UNCHANGED <<clock, lines, kills>>

\* The process is killed, or ends; the next one starts with m_fp = NULL.
Kill ==
    /\ kills < MaxKill
    /\ kills' = kills + 1
    /\ open' = FALSE /\ size' = 0 /\ openTime' = 0 /\ move' = -1 /\ line' = NoLine
    /\ UNCHANGED <<files, clock, written, lines, fails>>

Next == Tick \/ (\E n \in LineSizes : WriteLog(n)) \/ Move \/ Rolled \/ Kill

Spec == Init /\ [][Next]_vars

-----------------------------------------------------------------------------
(* Properties *)

Oldest2Newest == Flatten([k \in 1 .. MaxFile |-> files[MaxFile - k]])

(* Read from the oldest to file 0, the files hold the last lines that were   *)
(* written, in their order and without a gap: across the renames of a roll,  *)
(* kills between them, and fopen()s that fail.                               *)
LastLines ==
    \E k \in 0 .. Len(written) : Oldest2Newest = SubSeq(written, k + 1, Len(written))

(* No file grows past m_maxSize by more than the line that crossed it, also  *)
(* when m_fileSize was carried over from a file that another process wrote.  *)
SizeBounded ==
    \A i \in Index : \A n \in {FileSize(files[i])} :
        n = 0 \/ n - files[i][Len(files[i])].size < MaxSize

(* A line is given up only for m_maxFile full files, when no process was     *)
(* killed: whenever lines are missing and no roll is under way, every file   *)
(* but file 0 has reached m_maxSize.                                         *)
GivesUpLast ==
    kills = 0 /\ move = -1 /\ Len(Oldest2Newest) < Len(written) =>
        \A i \in Index \ {0} : FileSize(files[i]) >= MaxSize

(* logSize bounds the space of the log: all its files together, but for the  *)
(* line that crossed the bound.                                              *)
SpaceBounded ==
    FileSize(Oldest2Newest) < MaxSize + (CHOOSE n \in LineSizes : \A m \in LineSizes : n >= m)
=============================================================================
