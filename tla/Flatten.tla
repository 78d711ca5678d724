------------------------------ MODULE Flatten ------------------------------
(* Sequences one behind the other: FlattenSeq of SequencesExt, alone, so     *)
(* that what is proved about the modules that use it does not have all of    *)
(* the library among its definitions.                                        *)
EXTENDS Integers, Sequences

Flatten(ss) ==
    LET upto[n \in 0 .. Len(ss)] == IF n = 0 THEN <<>> ELSE upto[n - 1] \o ss[n]
    IN  upto[Len(ss)]
=============================================================================
