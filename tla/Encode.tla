------------------------------- MODULE Encode -------------------------------
(* UtilEncode, and the functions of UtilString on top of it: what one writes *)
(* the other reads.  Characters are bytes; char is signed, as on x86.        *)
(*                                                                           *)
(* An operator BadX is a faulty variant of X that the specification does not *)
(* use: it serves to see the property that guards against the slip fail.     *)
EXTENDS Strings, TLC

CONSTANTS
    Kinds       \* bounds: the texts of a kind are made of its bytes and no
                \* longer than its len

Assumption == \A k \in Kinds : k.bytes \subseteq 0 .. 255 /\ k.len \in Nat

VARIABLE text   \* the argument of the functions

TypeOK == \E k \in Kinds : Range(text) \subseteq k.bytes /\ Len(text) <= k.len

Init == text = <<>>

\* The texts, one byte at a time.
Input(k, b) ==
    /\ Range(text) \subseteq k.bytes /\ Len(text) < k.len
    /\ text' = Append(text, b)
Next == \E k \in Kinds : \E b \in k.bytes : Input(k, b)

\* The character constants of the code.
Backslash == 92
PercentSign == 37
Plus == 43
Space == 32
Hyphen == 45
Dot == 46
Underscore == 95
Tilde == 126
Zero == 48
Seven == 55
Nine == 57
UpperA == 65
UpperF == 70
UpperZ == 90
LowerA == 97
LowerF == 102
LowerX == 120
LowerZ == 122
Ampersand == 38
Equals == 61
Dollar == 36
Open == 123
Close == 125

Each(F(_), s) == FlattenSeq([i \in DOMAIN s |-> F(s[i])])

-----------------------------------------------------------------------------
(* Hexadecimal *)

hexcode(n) == IF n < 10 THEN Zero + n ELSE LowerA + n - 10
Hex2(b) == <<hexcode(b \div 16), hexcode(b % 16)>>
XDigits == Zero .. Nine \cup UpperA .. UpperF \cup LowerA .. LowerF
isxdigit(c) == c \in XDigits

HexValue(c) ==
    IF c >= LowerA THEN c - LowerA + 10 ELSE IF c >= UpperA THEN c - UpperA + 10 ELSE c - Zero

\* Of two digits.
BadGetHex(hi, lo) == 16 * HexValue(hi) + (IF lo >= LowerA THEN lo - LowerA ELSE HexValue(lo))
getHex(hi, lo) == 16 * HexValue(hi) + HexValue(lo)

toHex(s) == Each(Hex2, s)
fromHex(s) == [i \in 1 .. Len(s) \div 2 |-> getHex(s[2 * i - 1], s[2 * i])]

-----------------------------------------------------------------------------
(* The escapes of C *)

\* The letters after a backslash, for the bytes that have one.
Letters == {<<7, 97>>, <<8, 98>>, <<12, 102>>, <<10, 110>>, <<13, 114>>, <<9, 116>>, <<11, 118>>,
            <<92, 92>>, <<39, 39>>, <<34, 34>>}

Escaped(b) ==
    LET letter == {l \in Letters : l[1] = b} IN
    CASE letter # {} -> <<Backslash, (CHOOSE l \in letter : TRUE)[2]>>
      [] letter = {} /\ b \in 32 .. 126 \cup 128 .. 255 -> <<b>>
      [] OTHER -> <<Backslash, LowerX>> \o Hex2(b)

c_escape(s) == Each(Escaped, s)

\* How many characters of s from position i on are digits of a kind, at most
\* max, and the number they are to the base.
Digits(s, i, max, kind) ==
    LET run == {k \in 0 .. max : i + k - 1 <= Len(s) /\ \A j \in i .. i + k - 1 : s[j] \in kind}
    IN  CHOOSE k \in run : \A j \in run : j <= k
Number(s, i, k, base) ==
    FoldLeft(LAMBDA v, c : (v * base + HexValue(c)) % 256, 0, SubSeq(s, i, i + k - 1))

\* What one round of c_unescape() puts out for the head of s, and how many
\* characters it takes.  A third octal digit is taken if the number fits.
Unescaped(s) ==
    LET letter == {l \in Letters : l[2] = s[2]}
        octal == Zero .. Seven
        two == Digits(s, 2, 2, octal)
        oct == IF Number(s, 2, two, 8) <= 31 THEN Digits(s, 2, 3, octal) ELSE two
        hex == Digits(s, 3, 2, XDigits)
    IN  IF s[1] # Backslash \/ Len(s) = 1 THEN [out |-> <<s[1]>>, taken |-> 1]
        ELSE CASE letter # {} -> [out |-> <<(CHOOSE l \in letter : TRUE)[1]>>, taken |-> 2]
               [] s[2] \in octal -> [out |-> <<Number(s, 2, oct, 8)>>, taken |-> 1 + oct]
               [] s[2] = LowerX /\ hex > 0 -> [out |-> <<Number(s, 3, hex, 16)>>, taken |-> 2 + hex]
               [] s[2] = LowerX /\ hex = 0 -> [out |-> SubSeq(s, 1, 2), taken |-> 2]
               [] OTHER -> [out |-> <<s[2]>>, taken |-> 2]

RECURSIVE c_unescape(_)
c_unescape(s) ==
    IF s = <<>> THEN <<>>
    ELSE LET u == Unescaped(s) IN u.out \o c_unescape(From(s, u.taken + 1))

-----------------------------------------------------------------------------
(* URLs *)

Signed(b) == IF b > 127 THEN b - 256 ELSE b

\* The characters that urlencode() writes as they are.
Plain(b) ==
    LET c == Signed(b) IN
    ~ \/ c < Zero /\ c \notin {Hyphen, Dot}
      \/ c < UpperA /\ c > Nine
      \/ c > UpperZ /\ c < LowerA /\ c # Underscore
      \/ c > LowerZ

Percent(b) == <<PercentSign>> \o Hex2(b)

urlencode(s) ==
    LET E(b) == IF b = Space THEN <<Plus>> ELSE IF Plain(b) THEN <<b>> ELSE Percent(b)
    IN  Each(E, s)
rawurlencode(s) ==
    LET E(b) == IF Plain(b) \/ b = Tilde THEN <<b>> ELSE Percent(b) IN Each(E, s)

IsPercent(s) == s[1] = PercentSign /\ Len(s) >= 3 /\ isxdigit(s[2]) /\ isxdigit(s[3])

RECURSIVE rawurldecode(_)
rawurldecode(s) ==
    IF s = <<>> THEN <<>>
    ELSE IF IsPercent(s) THEN <<getHex(s[2], s[3])>> \o rawurldecode(From(s, 4))
    ELSE <<s[1]>> \o rawurldecode(Tail(s))

RECURSIVE urldecode(_)
urldecode(s) ==
    IF s = <<>> THEN <<>>
    ELSE IF IsPercent(s) THEN <<getHex(s[2], s[3])>> \o urldecode(From(s, 4))
    ELSE <<IF s[1] = Plus THEN Space ELSE s[1]>> \o urldecode(Tail(s))

\* A map is given as the sequence of its pairs, in the order of its keys.
joinURLParam(v) ==
    joinString2([i \in DOMAIN v |-> <<rawurlencode(v[i][1]), rawurlencode(v[i][2])>>],
                <<Ampersand>>, <<Equals>>)
splitURLParam(s) ==
    LET v == splitString2(s, {Ampersand}, {Equals})
    IN  AsMap([i \in DOMAIN v |-> <<rawurldecode(v[i][1]), rawurldecode(v[i][2])>>])

-----------------------------------------------------------------------------
(* Properties *)

(* What toHex(), c_escape(), urlencode() and rawurlencode() write, fromHex(),*)
(* c_unescape(), urldecode() and rawurldecode() read as the same text, for   *)
(* any bytes; urldecode() also reads what rawurlencode() writes.             *)
DecodedIsEncoded ==
    /\ fromHex(toHex(text)) = text
    /\ c_unescape(c_escape(text)) = text
    /\ urldecode(urlencode(text)) = text
    /\ rawurldecode(rawurlencode(text)) = text
    /\ urldecode(rawurlencode(text)) = text

(* c_unescape() reads the escapes of C that c_escape() does not write, too:  *)
(* one to three octal digits, of which the third belongs to the next text if *)
(* the number would not fit into a byte, and one or two hexadecimal digits;  *)
(* for each byte, before any text that does not go on with a digit of it.    *)
(* An escape that is cut off at the end is read as what is left of it.       *)
EscapesAreRead ==
    LET Octal(b) == <<Backslash>> \o
            CASE b < 8 -> <<Zero + b>>
              [] b \in 8 .. 63 -> <<Zero + (b \div 8), Zero + (b % 8)>>
              [] OTHER -> <<Zero + (b \div 64), Zero + ((b \div 8) % 8), Zero + (b % 8)>>
        Hex(b) == <<Backslash, LowerX>> \o (IF b < 16 THEN <<hexcode(b)>> ELSE Hex2(b))
        EndsAt(digits) == text = <<>> \/ text[1] \notin digits
        escaped == c_escape(text)
        Whole(i) == {m \in 0 .. Len(text) : Len(c_escape(SubSeq(text, 1, m))) <= i}
    IN  /\ Len(text) <= 1 => \A b \in 0 .. 255 :
             /\ b >= 32 \/ EndsAt(Zero .. Seven) =>
                   c_unescape(Octal(b) \o text) = <<b>> \o c_unescape(text)
             /\ b >= 16 \/ EndsAt(XDigits) =>
                   c_unescape(Hex(b) \o text) = <<b>> \o c_unescape(text)
        /\ \A i \in 1 .. Len(escaped) : \E m \in Whole(i) :
             /\ \A k \in Whole(i) : k <= m
             /\ c_unescape(SubSeq(escaped, 1, i)) \in
                   {SubSeq(text, 1, m) \o rest : rest \in
                       {<<>>, <<Backslash>>, <<Backslash, LowerX>>, <<HexValue(escaped[i])>>}}

(* What joinURLParam() writes for a map of one or two keys, splitURLParam()  *)
(* reads as the same map, whatever separators its keys and values hold.      *)
ParamsSurvive ==
    \A i, j, k \in 0 .. Len(text) : i <= j /\ j <= k =>
        LET one == <<SubSeq(text, 1, i), SubSeq(text, i + 1, j)>>
            two == <<SubSeq(text, j + 1, k), From(text, k + 1)>>
            v == IF one[1] = two[1] THEN <<one>> ELSE <<one, two>>
        IN  splitURLParam(joinURLParam(v)) = AsMap(v)

(* splitString() cuts at each separator and nowhere else: stripped, its      *)
(* pieces are the longest stretches without one, and joined they are cut in  *)
(* the same way again; not stripped, there is one more than separators.      *)
CutAtSeparators ==
    LET sep == {Ampersand, Equals}
        pieces == splitString(text, sep, TRUE)
        all == splitString(text, sep, FALSE)
        Keep(c) == c \notin sep
    IN  /\ FlattenSeq(pieces) = SelectSeq(text, Keep)
        /\ Len(pieces) = Len(SelectSeq([i \in DOMAIN text |->
                             Keep(text[i]) /\ (i = 1 \/ ~Keep(text[i - 1]))], LAMBDA b : b))
        /\ splitString(joinString(pieces, <<Ampersand>>), sep, TRUE) = pieces
        /\ Len(all) = Len(text) - Len(FlattenSeq(pieces)) + 1
        /\ SelectSeq(all, LAMBDA p : p # <<>>) = pieces

(* trim() takes away spaces at the ends and nothing else; replace() and      *)
(* replaceVariable() leave everything else as it was: a replacement can be   *)
(* taken back, and variables that stand for themselves, or are not known and *)
(* are kept, change nothing.  If no variable is unknown, to replace the one  *)
(* that is known is to replace its text.                                     *)
RestIsKept ==
    LET space == 9 .. 13 \cup {Space}
        amp == <<Ampersand>>
        marked == <<Plus, Ampersand>>
        a == <<LowerA>>
        open == <<Dollar, Open>>
        close == <<Close>>
        self == a :> (open \o a \o close)
    IN  /\ trim(text, space) = trimLeft(trimRight(text, space), space)
        /\ \E i, j \in 0 .. Len(text) :
             /\ text = SubSeq(text, 1, i) \o trim(text, space) \o From(text, Len(text) - j + 1)
             /\ \A k \in 1 .. i : text[k] \in space
             /\ \A k \in Len(text) - j + 1 .. Len(text) : text[k] \in space
        /\ replace(replace(text, amp, marked), marked, amp) = text
        /\ replaceVariable(text, <<>>, "KEEP_VARIABLE", open, close) = text
        /\ replaceVariable(text, self, "KEEP_VARIABLE", open, close) = text
        /\ replaceVariable(text, a :> amp, "ALL_MATCH", open, close) \in
              {replace(text, open \o a \o close, amp), Throws}
=============================================================================
