------------------------------- MODULE MCUtil -------------------------------
(* The utilities for TLC: those of Util, and the ones whose operators are    *)
(* recursive, CConfig and the helpers for texts and paths.                   *)
EXTENDS Util, TLC

VARIABLES cfg, stk, thrown, lines, text, path, tree

configVars == <<cfg, stk, thrown, lines>>

C == INSTANCE Config WITH Keys <- {"a", "b"}, Values <- {"1", "2"}, MaxLines <- 6

\* Bytes on each side of the limits that the code tests, and those with a
\* meaning of their own.
TextBytes == {10, 32, 34, 36, 37, 38, 43, 48, 57, 58, 61, 92, 97, 102, 120, 123, 125, 126, 127, 255}
\* Those of "${a}", which is met with up to two more of them around it.
VariableBytes == {36, 97, 123, 125}
E == INSTANCE Encode WITH
    Kinds <- {[bytes |-> TextBytes, len |-> 3], [bytes |-> VariableBytes, len |-> 6]}

F == INSTANCE Paths WITH
    Chars <- {"/", ".", "~", "a"}, MaxLen <- 5, Names <- {<<"a">>, <<"~">>}, MaxNodes <- 4

ASSUME TextsAssumption == C!Assumption /\ E!Assumption /\ F!Assumption

Num == [key |-> "k", value |-> "1", type |-> "DB_INT"]
Str == [key |-> "s", value |-> "x", type |-> "DB_STR"]
SomeJoins == {<<>>, <<Str>>, <<Num, Str>>}

MCInit ==
    /\ part \in Parts \cup {"Config", "Encode", "Paths"}
    /\ PartsInit /\ C!Init /\ E!Init /\ F!Init
    /\ part = "MySqlConn" \/ config = "c1"

MCNext ==
    \/ UtilNext /\ UNCHANGED <<configVars, text, path, tree>>
    \/ part = "Config" /\ C!Next /\ UNCHANGED <<utilVars, text, path, tree>>
    \/ part = "Encode" /\ E!Next /\ UNCHANGED <<utilVars, configVars, path, tree>>
    \/ part = "Paths" /\ F!Next /\ UNCHANGED <<utilVars, configVars, text>>

MCSpec == MCInit /\ [][MCNext]_<<utilVars, configVars, text, path, tree>>

-----------------------------------------------------------------------------
(* The properties of these parts, see their modules, each where its part     *)
(* moves.                                                                    *)

(* CConfig: m_vItem of each section lists its keys and subsections, each     *)
(* once, and what toString() writes is parsed to the same tree.              *)
TextIsTree == part = "Config" => C!TypeOK /\ C!ItemsAreAll /\ C!WrittenIsRead

(* Texts: what is encoded, escaped or joined is read back as it was, and     *)
(* cutting, trimming and replacing change nothing else.  Keys and values are *)
(* made of texts up to ParamsLen.                                            *)
ParamsLen == 3
TextsSurvive == part = "Encode" =>
    /\ E!TypeOK /\ E!DecodedIsEncoded /\ E!EscapesAreRead
    /\ Len(text) <= ParamsLen => E!ParamsSurvive
    /\ E!CutAtSeparators /\ E!RestIsKept

(* Paths: a path made absolute, or taken apart and put together, leads to    *)
(* the same place; directories are made down to it, and listed in full.      *)
PathsLead == part = "Paths" =>
    /\ F!TypeOK /\ F!AbsoluteLeadsThere /\ F!PartsMakePath
    /\ F!DirectoryIsMade /\ F!InDirectories /\ F!ListIsComplete

Symmetry == Permutations(Keys) \cup Permutations(Threads)
=============================================================================
