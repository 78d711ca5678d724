--------------------------- MODULE MCServiceProxy ---------------------------
(* Setups of ServiceProxy for TLC.                                            *)
EXTENDS ServiceProxy, TLC

CONSTANTS e1, e2

\* One endpoint that is given, and every kind of call.
Given == [needLocator |-> FALSE, eps |-> {e1}, kinds |-> Kind \ {"Broadcast"}]
\* Endpoints that come and go through the registry.
Located == [needLocator |-> TRUE, eps |-> {e1, e2}, kinds |-> {"Sync"}]

\* Calls to all the endpoints while they come and go.
ToAll == [Located EXCEPT !.kinds = {"Broadcast"}]

SafetySetups == {Given, Located, ToAll}
LiveSetups == {[Given EXCEPT !.kinds = {"Sync", "Async"}],
               [Located EXCEPT !.eps = {e1}],
               [ToAll EXCEPT !.eps = {e1}]}
SyncSetups == {[Given EXCEPT !.kinds = {"Sync"}]}
=============================================================================
