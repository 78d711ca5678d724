--------------------------- MODULE MCStormService ---------------------------
(* Workloads of StormService for TLC.                                        *)
EXTENDS StormService, TLC

CONSTANTS i1, i2, w1, w2

Load(r, is, ws, a, p, rs, s) ==
    [run |-> r, ids |-> is, workers |-> ws, accepts |-> a, packets |-> p, replies |-> rs, stops |-> s]

\* The queue fills up, and the id is used again.
Busy == Load("Extra", {i1}, {w1}, 2, 3, {"answer"}, FALSE)
\* A connection is refused.
Refused == Load("Extra", {i1, i2}, {w1}, 2, 2, {"answer"}, FALSE)
\* Two workers share the queue and are stopped.
Stopped == Load("Extra", {i1}, {w1, w2}, 1, 2, {"bye"}, TRUE)
\* The service runs in the main loop, or in the net thread.
InMain == Load("Main", {i1}, {w1}, 2, 2, {"answer", "bye"}, TRUE)
InNet == Load("Net", {i1}, {}, 2, 3, {"none", "close", "answer", "bye"}, TRUE)

MCLoads == {Busy, Refused, Stopped, InMain, InNet}
StopLoads == {Stopped}
=============================================================================
