------------------------------- MODULE RpcCall -------------------------------
(* What a ServiceProxy promises of its calls: a call that is issued is over   *)
(* at most once, with one result that never changes after that, and a call    *)
(* succeeds only if the service has answered it.                              *)
CONSTANT Reqs

VARIABLES
    phase,      \* of each call: idle, open or over
    result,     \* its result, "none" while there is none
    answered    \* the calls the service has answered

vars == <<phase, result, answered>>

Results == {"Ok", "TimeOut", "Error", "NetError"}

Init ==
    /\ phase = [r \in Reqs |-> "idle"]
    /\ result = [r \in Reqs |-> "none"]
    /\ answered = {}

Issue(r) ==
    /\ phase[r] = "idle"
    /\ phase' = [phase EXCEPT ![r] = "open"]
    /\ UNCHANGED <<result, answered>>

\* The answer may come when the call is over already; it is not used then.
Answer(r) ==
    /\ phase[r] # "idle"
    /\ answered' = answered \cup {r}
    /\ UNCHANGED <<phase, result>>

Finish(r, st) ==
    /\ phase[r] = "open"
    /\ st = "Ok" => r \in answered
    /\ phase' = [phase EXCEPT ![r] = "over"]
    /\ result' = [result EXCEPT ![r] = st]
    /\ UNCHANGED answered

\* A one-way call is over without a result.
Forget(r) ==
    /\ phase[r] = "open"
    /\ phase' = [phase EXCEPT ![r] = "over"]
    /\ UNCHANGED <<result, answered>>

Next == \E r \in Reqs :
    Issue(r) \/ Answer(r) \/ Forget(r) \/ \E st \in Results : Finish(r, st)

Spec == Init /\ [][Next]_vars
==============================================================================
