----------------------------- MODULE MCSlotPool -----------------------------
(* Instances of SlotPool for TLC: m_allocId has few values, so that it       *)
(* overflows often.                                                          *)
EXTENDS SlotPool, TLC

Symmetry == Permutations(Threads)
=============================================================================
