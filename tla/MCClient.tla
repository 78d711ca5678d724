------------------------------ MODULE MCClient ------------------------------
(* The client side for TLC. *)
EXTENDS Client, MCServiceProxy

\* A string with two endpoints in it, one whose second endpoint has no port,
\* a name, and a name that is too short.
MCStrings == {"direct", "broken", "app.server.service", "short"}
MCDescs ==
    [s \in MCStrings |->
        CASE s = "direct" -> << <<"tcp", "-h", "ip1", "-p", "1">>, <<"tcp", "-p", "2", "-h", "ip2", "-t", "9">> >>
          [] s = "broken" -> << <<"tcp", "-h", "ip1", "-p", "1">>, <<"tcp", "-h", "ip2">> >>
          [] OTHER -> <<>>]
MCPorts == [w \in {"1", "2"} |-> IF w = "1" THEN 1 ELSE 2]

Symmetry == Permutations(Reqs) \cup Permutations(EPs) \cup Permutations(Threads)
=============================================================================
