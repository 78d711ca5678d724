----------------------------- MODULE MCRegistry -----------------------------
(* Registry for TLC: two services, each at an address of its own or both at   *)
(* the same one.                                                              *)
EXTENDS Registry

CONSTANTS s1, s2, a1, a2

Apart == [s \in Services |-> IF s = s1 THEN a1 ELSE a2]
Together == [s \in Services |-> a1]
MCPlaces == {Apart, Together}
=============================================================================
