------------------------------ MODULE Strings -------------------------------
(* UtilString: the functions that cut, join and change strings.  A string is *)
(* a sequence of characters of any kind.                                     *)
EXTENDS Integers, Sequences, SequencesExt

\* What is left of s from position i on.
From(s, i) == SubSeq(s, i, Len(s))

\* find_first_of(sep) and find(t), 0 for npos
FindFirstOf(s, sep) == SelectInSeq(s, LAMBDA c : c \in sep)
Find(s, t) ==
    LET at == {i \in 1 .. Len(s) : IsPrefix(t, From(s, i))} IN
    IF at = {} THEN 0 ELSE CHOOSE i \in at : \A j \in at : i <= j

\* rfind(c), 0 for npos
Rfind(s, c) == SelectLastInSeq(s, LAMBDA d : d = c)

RECURSIVE splitString(_, _, _)
splitString(s, sep, strip) ==
    LET q == FindFirstOf(s, sep)
        piece == IF q = 0 THEN s ELSE SubSeq(s, 1, q - 1)
        pieces == IF strip /\ piece = <<>> THEN <<>> ELSE <<piece>>
    IN  IF q = 0 THEN pieces ELSE pieces \o splitString(From(s, q + 1), sep, strip)

joinString(v, sep) ==
    FoldLeft(LAMBDA r, x : (IF r = <<>> THEN r ELSE r \o sep) \o x, <<>>, v)

\* A piece without sep2 is a key with an empty value.
splitString2(s, sep1, sep2) ==
    LET v == splitString(s, sep1, TRUE) IN
    [i \in 1 .. Len(v) |->
        LET pos == FindFirstOf(v[i], sep2) IN
        IF pos = 0 THEN <<v[i], <<>>>> ELSE <<SubSeq(v[i], 1, pos - 1), From(v[i], pos + 1)>>]

joinString2(v, sep1, sep2) ==
    joinString([i \in 1 .. Len(v) |-> v[i][1] \o sep2 \o v[i][2]], sep1)

\* mResult[kv.first] = kv.second for each pair: the last one of a key counts.
AsMap(v) ==
    [k \in {v[i][1] : i \in DOMAIN v} |->
        v[SelectLastInSeq(v, LAMBDA kv : kv[1] = k)][2]]

trimLeft(s, space) ==
    LET i == SelectInSeq(s, LAMBDA c : c \notin space) IN
    IF i = 0 THEN <<>> ELSE From(s, i)

trimRight(s, space) == SubSeq(s, 1, SelectLastInSeq(s, LAMBDA c : c \notin space))

trim(s, space) == trimRight(trimLeft(s, space), space)

\* The occurrences are those that a search from the left finds one after the
\* other.
RECURSIVE replace(_, _, _)
replace(s, from, to) ==
    LET q == Find(s, from) IN
    IF from = <<>> \/ q = 0
    THEN s
    ELSE SubSeq(s, 1, q - 1) \o to \o replace(From(s, q + Len(from)), from, to)

\* What replaceVariable() sees in s, from the left: stretches of text, with
\* no key, and variables: a key between open, "${", and close, "}".
RECURSIVE Variables(_, _, _)
Variables(s, open, close) ==
    LET t1 == Find(s, open)
        t2 == IF t1 = 0 THEN 0 ELSE Find(From(s, t1), close) + t1 - 1
    IN  IF t2 < t1 \/ t1 = 0
        THEN <<[text |-> s, keys |-> {}]>>
        ELSE <<[text |-> SubSeq(s, 1, t1 - 1), keys |-> {}],
               [text |-> SubSeq(s, t1, t2), keys |-> {SubSeq(s, t1 + Len(open), t2 - 1)}]>>
             \o Variables(From(s, t2 + 1), open, close)

\* A variable that var does not define is treated as the mode says.
Throws == <<"throws">>
replaceVariable(s, var, mode, open, close) ==
    LET seen == Variables(s, open, close)
        Missed(p) == ~(p.keys \subseteq DOMAIN var)
        Value(p) == IF p.keys = {} \/ (Missed(p) /\ mode = "KEEP_VARIABLE") THEN p.text
                    ELSE IF Missed(p) THEN <<>> ELSE var[CHOOSE k \in p.keys : TRUE]
        missed == \E i \in DOMAIN seen : Missed(seen[i])
    IN  CASE missed /\ mode = "ALL_MATCH" -> Throws
          [] missed /\ mode = "EMPTY_RESULT" -> <<>>
          [] OTHER -> FlattenSeq([i \in DOMAIN seen |-> Value(seen[i])])
=============================================================================
