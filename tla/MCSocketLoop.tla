---------------------------- MODULE MCSocketLoop ----------------------------
(* Workloads of SocketLoop for TLC.  The pool has two slots besides the one   *)
(* of the eventfd, so that slots and descriptors are used again.              *)
EXTENDS SocketLoop, TLC

CONSTANTS t1, t2

Load(ts, fs, os, ls, b, n, c, a) ==
    [threads |-> ts, fds |-> fs, ops |-> os, lens |-> ls, births |-> b, sends |-> n, closes |-> c,
     arrivals |-> a]

\* Two threads that connect and close.
Client == Load({t1, t2}, {1, 2}, {"connect", "close"}, {2}, 3, 0, 1, 0)
\* One that connects and sends, also nothing.
Stream == Load({t1}, {1, 2}, {"connect", "send"}, {0, 2}, 2, 2, 0, 0)
\* One that listens, and sends to and closes what was accepted.
Server == Load({t1}, {1, 2, 3}, {"listen", "send", "close"}, {2}, 4, 1, 1, 3)

SafetyLoads == {Client, Stream, Server}
LiveLoads == {Load({t1, t2}, {1, 2}, {"connect", "close"}, {1}, 2, 0, 1, 0)}
ReuseLoads == {Load({t1, t2}, {1}, {"connect", "close"}, {1}, 2, 0, 1, 0)}

Symmetry == Permutations(Threads)
=============================================================================
