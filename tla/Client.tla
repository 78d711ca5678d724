-------------------------------- MODULE Client --------------------------------
(* The client side: a ServiceProxy, or the ServiceProxyManager that makes     *)
(* them.  A proxy is used after the manager has handed it out, so the two do  *)
(* not take steps together: a behaviour is one of the one or of the other.    *)
EXTENDS ServiceProxy

CONSTANTS Threads, Strings, Descs, ShortNames, Ports, MaxProxy   \* as in ProxyManager

VARIABLES part, proxys, lock, obj, mpc, want, got, mnpc, mtodo, asked, undef
managerVars == <<proxys, lock, obj, mpc, want, got, mnpc, mtodo, asked, undef>>

M == INSTANCE ProxyManager WITH pc <- mpc, npc <- mnpc, todo <- mtodo

ASSUME ManagerAssumption == M!Assumption

ClientInit ==
    /\ Init /\ M!Init
    /\ part = "proxy" \/ (part = "manager" /\ setup = CHOOSE s \in Setups : TRUE)
ClientNext ==
    \/ part = "proxy" /\ Next /\ UNCHANGED <<part, managerVars>>
    \/ part = "manager" /\ M!Next /\ UNCHANGED <<part, vars>>
clientVars == <<part, vars, managerVars>>
ClientSpec == ClientInit /\ [][ClientNext]_clientVars

(* The manager and what it hands out: m_proxys holds every proxy that is not *)
(* deleted, under its own string; a string that is in order gives every      *)
(* caller one and the same proxy; and a proxy is ready when it has all the   *)
(* endpoints its string describes.                                           *)
ManagerInv == TypeOK /\ M!TypeOK /\ M!MapHoldsLive /\ M!GoodIsShared /\ M!ReadyHasEndPoints
=============================================================================
