------------------------------- MODULE Config -------------------------------
(* CConfig: a tree of sections with keys and values, which parseString() adds *)
(* to line by line and toString() writes out again.  Several texts may be     *)
(* parsed into one CConfig, and a text that is refused half way leaves what   *)
(* its first lines have added.                                                *)
(*                                                                            *)
(* A line is what trim() and the tests on its first and last character make   *)
(* of it: <k>, </k>, k = v, something malformed, or nothing (blank, comment). *)
(*                                                                            *)
(* An operator BadX is a faulty variant of X that the specification does not  *)
(* use: it serves to see the property that guards against the slip fail.      *)
EXTENDS Integers, Sequences, FiniteSets, SequencesExt, Functions

CONSTANTS
    Keys, Values,
    MaxLines     \* so many lines are parsed in all

Assumption == MaxLines \in Nat

VARIABLES
    cfg,     \* the section at each path: m_vItem and m_mKeyValue
    stk,     \* the path of stk.top()
    thrown,  \* the parse was ended by an exception
    lines    \* how many lines were read

vars == <<cfg, stk, thrown, lines>>

Line == [t : {"begin", "end"}, k : Keys, v : {""}] \cup [t : {"pair"}, k : Keys, v : Values]
        \cup {[t |-> "malformed", k |-> "", v |-> ""], [t |-> "nothing", k |-> "", v |-> ""]}

NewSection == [items |-> <<>>, kv |-> <<>>]     \* a CConfig just constructed
NewConfig == [p \in {<<>>} |-> NewSection]
HasSub(c, p, k) == Append(p, k) \in DOMAIN c
HasKey(c, p, k) == k \in DOMAIN c[p].kv

TypeOK ==
    /\ <<>> \in DOMAIN cfg
    /\ \A p \in DOMAIN cfg : p \in Seq(Keys) /\ cfg[p].items \in Seq(Keys)
                             /\ DOMAIN cfg[p].kv \subseteq Keys
    /\ stk \in DOMAIN cfg
    /\ thrown \in BOOLEAN /\ lines \in 0 .. MaxLines

Init == cfg = NewConfig /\ stk = <<>> /\ thrown = FALSE /\ lines = 0

-----------------------------------------------------------------------------
(* parseString(): a state of it is a tree, the top of the stack and whether   *)
(* it has thrown.                                                             *)

Throw(s) == [s EXCEPT !.thrown = TRUE]

\* The section is entered; if it is new, it is listed in its parent.
Begin(s, k) ==
    LET p == s.stk IN
    IF HasKey(s.cfg, p, k) THEN Throw(s)
    ELSE [s EXCEPT !.stk = Append(p, k),
                   !.cfg = IF HasSub(@, p, k) THEN @
                           ELSE [@ EXCEPT ![p].items = Append(@, k)]
                                @@ [q \in {Append(p, k)} |-> NewSection]]

End(s, k) ==
    IF s.stk = <<>> \/ Last(s.stk) # k THEN Throw(s) ELSE [s EXCEPT !.stk = Front(@)]

\* A key given again takes the new value and keeps its place.
Pair(s, k, v) ==
    LET p == s.stk IN
    IF HasSub(s.cfg, p, k) THEN Throw(s)
    ELSE [s EXCEPT !.cfg[p] = [items |-> IF HasKey(s.cfg, p, k) THEN @.items ELSE Append(@.items, k),
                               kv |-> [j \in {k} |-> v] @@ @.kv]]

ParseLine(s, line) ==
    IF s.thrown THEN s
    ELSE CASE line.t = "begin" -> Begin(s, line.k)
           [] line.t = "end" -> End(s, line.k)
           [] line.t = "pair" -> Pair(s, line.k, line.v)
           [] line.t = "malformed" -> Throw(s)
           [] line.t = "nothing" -> s

ParseString(c, text) == FoldLeft(ParseLine, [cfg |-> c, stk |-> <<>>, thrown |-> FALSE], text)

-----------------------------------------------------------------------------
(* toString() and joinConfig() *)

BadToString(c) ==
    LET text[p \in DOMAIN c] ==
            FlattenSeq([i \in DOMAIN c[p].items |->
                LET k == c[p].items[i] IN
                IF HasKey(c, p, k) THEN << [t |-> "pair", k |-> k, v |-> c[p].kv[k]] >>
                ELSE << [t |-> "begin", k |-> k, v |-> ""] >> \o text[Append(p, k)]])
    IN  text[<<>>]
toString(c) ==
    LET text[p \in DOMAIN c] ==
            FlattenSeq([i \in DOMAIN c[p].items |->
                LET k == c[p].items[i] IN
                IF HasKey(c, p, k) THEN << [t |-> "pair", k |-> k, v |-> c[p].kv[k]] >>
                ELSE << [t |-> "begin", k |-> k, v |-> ""] >> \o text[Append(p, k)]
                     \o << [t |-> "end", k |-> k, v |-> ""] >>])
    IN  text[<<>>]

\* joinConfig(other) clears this config before it writes it out.
JoinConfig(other) == ParseString(NewConfig, toString(NewConfig) \o toString(other)).cfg

-----------------------------------------------------------------------------
ReadLine(line) ==
    /\ ~thrown /\ lines < MaxLines
    /\ LET s == ParseLine([cfg |-> cfg, stk |-> stk, thrown |-> thrown], line) IN
          cfg' = s.cfg /\ stk' = s.stk /\ thrown' = s.thrown
    /\ lines' = lines + 1

\* The text ends, with sections open or not, or an exception has ended it;
\* another one is parsed into the same CConfig.
ParseAgain ==
    /\ stk # <<>> \/ thrown
    /\ stk' = <<>> /\ thrown' = FALSE
    /\ UNCHANGED <<cfg, lines>>

\* joinConfig() with a config that was read from one line.
Join(line) ==
    /\ stk = <<>> /\ ~thrown /\ lines < MaxLines
    /\ cfg' = JoinConfig(ParseString(NewConfig, <<line>>).cfg)
    /\ lines' = lines + 1
    /\ UNCHANGED <<stk, thrown>>

Next == (\E line \in Line : ReadLine(line) \/ Join(line)) \/ ParseAgain
Spec == Init /\ [][Next]_vars

-----------------------------------------------------------------------------
(* Properties *)

(* m_vItem of each section lists its keys and its subsections, each once,    *)
(* and no name is both: toString() and getAllItem() rely on it, also after a *)
(* text that was refused half way.                                           *)
ItemsAreAll ==
    \A p \in DOMAIN cfg :
        LET subs == {k \in Keys : HasSub(cfg, p, k)}
            keys == DOMAIN cfg[p].kv
        IN  /\ subs \cap keys = {}
            /\ ToSet(cfg[p].items) = subs \cup keys
            /\ Len(cfg[p].items) = Cardinality(subs) + Cardinality(keys)

(* What toString() writes is parsed to the same tree in the same order, and  *)
(* parsed into the config it came from it changes nothing.                   *)
WrittenIsRead ==
    \A c \in {NewConfig, cfg} :
        ParseString(c, toString(cfg)) = [cfg |-> cfg, stk |-> <<>>, thrown |-> FALSE]
=============================================================================
