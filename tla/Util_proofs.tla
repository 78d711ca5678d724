---------------------------- MODULE Util_proofs ----------------------------
(* Proofs about the utilities: sequences one behind the other, then TimeList,*)
(* DayLog, MySqlConn, the packet stream, Timer and RollLog, each with its    *)
(* inductive invariant, and all of them together.                            *)
EXTENDS Util, Flatten, FiniteSetTheorems, FunctionTheorems, SequenceTheorems,
    WellFoundedInduction, TLAPS

(* The operators of the libraries, as the modules of the parts reach them.   *)
LEMMA SameFlatten ==
    ASSUME NEW ss
    PROVE  /\ M!Flatten(ss) = Flatten(ss)
           /\ P!Flatten(ss) = Flatten(ss)
           /\ R!Flatten(ss) = Flatten(ss)
BY Zenon DEF Flatten, M!Flatten, P!Flatten, R!Flatten

(* The cardinality of FiniteSets, by either name.                            *)
LEMMA SameCardinality == ASSUME NEW s PROVE T!Cardinality(s) = Cardinality(s)
BY Zenon DEF Cardinality, T!Cardinality

(* Induction over the natural numbers, for the sets of those that have a     *)
(* property.                                                                 *)
LEMMA Least ==
    ASSUME NEW U, U \subseteq Nat, U # {}
    PROVE  \E x \in U : \A y \in U : x <= y
<1> DEFINE Less == OpToRel(<,Nat)
<1>1. IsWellFoundedOn(Less, Nat)  BY NatLessThanWellFounded, Zenon
<1>2. \A x, y \in Nat : x < y => <<x, y>> \in Less  BY DEF OpToRel
<1> HIDE DEF Less
<1>3. PICK x \in U : \A y \in U : ~(<<y, x>> \in Less)  BY <1>1, WFMin, Zenon
<1>4. \A y \in U : ~(y < x)  BY <1>2, <1>3, Zenon
<1>5. \A y \in Nat : ~(y < x) => x <= y  BY <1>3
<1> QED  BY <1>3, <1>4, <1>5

(* A set that has 0, and n + 1 with n, has all natural numbers.              *)
LEMMA Induct ==
    ASSUME NEW S, 0 \in S, \A n \in Nat : n \in S => n + 1 \in S
    PROVE  Nat \subseteq S
<1> SUFFICES ASSUME Nat \ S # {}  PROVE FALSE  OBVIOUS
<1>1. PICK x \in Nat \ S : \A y \in Nat \ S : x <= y
  <2> DEFINE U == Nat \ S
  <2>1. U \subseteq Nat /\ U # {}  OBVIOUS
  <2> HIDE DEF U
  <2>2. \E x \in U : \A y \in U : x <= y  BY <2>1, Least, Zenon
  <2> QED  BY <2>2 DEF U
<1>2. x - 1 \in Nat /\ x - 1 \in S /\ (x - 1) + 1 = x  BY <1>1
<1> QED  BY <1>1, <1>2

(* f[i] is the first i sequences of ss, one behind the other: the recursion  *)
(* of Flatten.                                                                *)
Flattens(f, ss, n) ==
    f[0] = <<>> /\ \A i \in 1 .. n : f[i] = f[i - 1] \o ss[i]

(* There is such an f, by induction over n.                                  *)
LEMMA FlattensExists ==
    ASSUME NEW S, NEW ss \in Seq(Seq(S)), NEW n \in 0 .. Len(ss)
    PROVE  \E f \in [0 .. n -> Seq(S)] : Flattens(f, ss, n)
<1> DEFINE A == {k \in Nat : k <= Len(ss) => \E f \in [0 .. k -> Seq(S)] : Flattens(f, ss, k)}
<1>0. \A i \in 1 .. Len(ss) : ss[i] \in Seq(S)  OBVIOUS
<1>1. 0 \in A
  <2>1. <<>> \in Seq(S)  OBVIOUS
  <2>2. [i \in 0 .. 0 |-> <<>>] \in [0 .. 0 -> Seq(S)]  BY <2>1
  <2>3. Flattens([i \in 0 .. 0 |-> <<>>], ss, 0)  BY DEF Flattens
  <2> QED  BY <2>2, <2>3, Zenon
<1>2. ASSUME NEW k \in Nat, k \in A  PROVE k + 1 \in A
  <2> SUFFICES ASSUME k + 1 <= Len(ss)
               PROVE  \E f \in [0 .. k + 1 -> Seq(S)] : Flattens(f, ss, k + 1)
    OBVIOUS
  <2>1. PICK f \in [0 .. k -> Seq(S)] : Flattens(f, ss, k)  BY <1>2
  <2> DEFINE e == f[k] \o ss[k + 1]
             g == [i \in 0 .. k + 1 |-> IF i = k + 1 THEN e ELSE f[i]]
  <2>2. e \in Seq(S)
    <3>1. f[k] \in Seq(S) /\ ss[k + 1] \in Seq(S)  BY <1>0
    <3> QED  BY <3>1, ConcatProperties
  <2>3. g \in [0 .. k + 1 -> Seq(S)]
    <3> HIDE DEF e
    <3>1. \A i \in 0 .. k + 1 : i # k + 1 => i \in 0 .. k  OBVIOUS
    <3> QED  BY <2>2, <3>1
  <2>4. Flattens(g, ss, k + 1)
    <3>1. g[0] = <<>>  BY <2>1 DEF Flattens
    <3> HIDE DEF e
    <3>2. ASSUME NEW i \in 1 .. k + 1  PROVE g[i] = g[i - 1] \o ss[i]
      <4>1. i - 1 \in 0 .. k + 1 /\ i - 1 # k + 1 /\ g[i - 1] = f[i - 1]  BY <3>2
      <4>2. CASE i = k + 1
        <5>1. i - 1 = k  BY <4>2
        <5>2. g[i] = e  BY <4>2
        <5> QED  BY <4>1, <4>2, <5>1, <5>2, Zenon DEF e
      <4>3. CASE i # k + 1
        <5>1. i \in 1 .. k /\ g[i] = f[i]  BY <4>3
        <5> QED  BY <2>1, <4>1, <5>1, Zenon DEF Flattens
      <4> QED  BY <4>2, <4>3, Zenon
    <3> HIDE DEF g
    <3> QED  BY <3>1, <3>2, Zenon DEF Flattens
  <2> QED  BY <2>3, <2>4, Zenon
<1> HIDE DEF A
<1>3. Nat \subseteq A  BY <1>1, <1>2, Induct, Zenon
<1>4. n \in A /\ n <= Len(ss)  BY <1>3
<1> QED  BY <1>4 DEF A

(* Two of them agree as far as their sequences do.                           *)
Agree(ss, tt, n) == \A i \in 1 .. n : ss[i] = tt[i]
(* Flattening the same sequences gives the same.                             *)
LEMMA FlattensAgree ==
    ASSUME NEW n \in Nat, NEW f, NEW g, NEW ss, NEW tt,
           Flattens(f, ss, n), Flattens(g, tt, n), Agree(ss, tt, n)
    PROVE  f[n] = g[n]
<1> DEFINE A == {k \in Nat : k <= n => f[k] = g[k]}
<1>1. 0 \in A  BY DEF Flattens
<1>2. ASSUME NEW k \in Nat, k \in A  PROVE k + 1 \in A
  <2> SUFFICES ASSUME k + 1 <= n  PROVE f[k + 1] = g[k + 1]  OBVIOUS
  <2>1. f[k] = g[k]  BY <1>2
  <2>2. k + 1 \in 1 .. n /\ (k + 1) - 1 = k  OBVIOUS
  <2>3. f[k + 1] = f[k] \o ss[k + 1] /\ g[k + 1] = g[k] \o tt[k + 1]  BY <2>2, Zenon DEF Flattens
  <2>4. ss[k + 1] = tt[k + 1]  BY <2>2 DEF Agree
  <2> QED  BY <2>1, <2>3, <2>4
<1> HIDE DEF A
<1>3. n \in A  BY <1>1, <1>2, Induct
<1> QED  BY <1>3 DEF A

(* Flatten is what any such f ends with.                                     *)
LEMMA FlattenIs ==
    ASSUME NEW S, NEW ss \in Seq(Seq(S)),
           NEW f \in [0 .. Len(ss) -> Seq(S)], Flattens(f, ss, Len(ss))
    PROVE  Flatten(ss) = f[Len(ss)]
<1> DEFINE E(g) == [n \in 0 .. Len(ss) |-> IF n = 0 THEN <<>> ELSE g[n - 1] \o ss[n]]
           g == CHOOSE h : h = E(h)
<1>0. Len(ss) \in Nat  OBVIOUS
<1>1. Flatten(ss) = g[Len(ss)]  BY Zenon DEF Flatten
<1>2. f = E(f)
  <2>1. \A n \in 0 .. Len(ss) : n # 0 => n \in 1 .. Len(ss)  OBVIOUS
  <2> QED  BY <2>1 DEF Flattens
<1>3. \E h : h = E(h)  BY <1>2, Zenon
<1>4. g = E(g)  BY <1>3, Zenon
<1>5. Flattens(g, ss, Len(ss))
  <2>1. \A n \in 0 .. Len(ss) : E(g)[n] = IF n = 0 THEN <<>> ELSE g[n - 1] \o ss[n]  OBVIOUS
  <2> HIDE DEF g
  <2>2. \A n \in 0 .. Len(ss) : g[n] = E(g)[n]  BY <1>4, Zenon
  <2>3. 0 \in 0 .. Len(ss) /\ \A n \in 1 .. Len(ss) : n \in 0 .. Len(ss) /\ n # 0  BY <1>0
  <2> QED  BY <2>1, <2>2, <2>3, Zenon DEF Flattens
<1>6. Agree(ss, ss, Len(ss))  BY DEF Agree
<1> HIDE DEF g, Flattens, Agree
<1>7. f[Len(ss)] = g[Len(ss)]  BY <1>0, <1>5, <1>6, FlattensAgree
<1> QED  BY <1>1, <1>7

(* No sequences make the empty one.                                          *)
LEMMA FlattenEmpty == Flatten(<<>>) = <<>>
<1>1. <<>> \in Seq(Seq({})) /\ Len(<<>>) = 0  OBVIOUS
<1>2. PICK f \in [0 .. Len(<<>>) -> Seq({})] : Flattens(f, <<>>, Len(<<>>))
  <2>1. Len(<<>>) \in 0 .. Len(<<>>)  BY <1>1
  <2> QED  BY <1>1, <2>1, FlattensExists, Zenon
<1>3. Flatten(<<>>) = f[Len(<<>>)]  BY <1>1, <1>2, FlattenIs
<1> QED  BY <1>1, <1>2, <1>3 DEF Flattens

(* The type of Flatten.                                                      *)
LEMMA FlattenType ==
    ASSUME NEW S, NEW ss \in Seq(Seq(S))
    PROVE  Flatten(ss) \in Seq(S)
<1>1. Len(ss) \in 0 .. Len(ss)  OBVIOUS
<1>2. PICK f \in [0 .. Len(ss) -> Seq(S)] : Flattens(f, ss, Len(ss))
  BY <1>1, FlattensExists
<1>3. Flatten(ss) = f[Len(ss)]  BY <1>2, FlattenIs
<1> QED  BY <1>1, <1>3

(* A sequence more at the end.                                               *)
LEMMA FlattenAppend ==
    ASSUME NEW S, NEW ss \in Seq(Seq(S)), NEW s \in Seq(S)
    PROVE  Flatten(Append(ss, s)) = Flatten(ss) \o s
<1>0. PICK n \in Nat : n = Len(ss)  OBVIOUS
<1> DEFINE tt == Append(ss, s)
<1>1. tt \in Seq(Seq(S)) /\ Len(tt) = n + 1 /\ n \in Nat /\ tt[n + 1] = s
      /\ \A i \in 1 .. n : tt[i] = ss[i]
  BY <1>0, AppendProperties
<1> HIDE DEF tt
<1>2. PICK g \in [0 .. n + 1 -> Seq(S)] : Flattens(g, tt, n + 1)
  <2>1. n + 1 \in 0 .. Len(tt)  BY <1>1
  <2> QED  BY <1>1, <2>1, FlattensExists
<1>3. Flatten(tt) = g[n + 1]  BY <1>1, <1>2, FlattenIs, Zenon
<1>4. PICK f \in [0 .. n -> Seq(S)] : Flattens(f, ss, n)
  <2>1. n \in 0 .. Len(ss)  BY <1>0
  <2> QED  BY <2>1, FlattensExists
<1>5. Flatten(ss) = f[n]  BY <1>0, <1>4, FlattenIs
<1>6. g[n + 1] = g[n] \o s
  <2>1. n + 1 \in 1 .. n + 1 /\ (n + 1) - 1 = n  OBVIOUS
  <2>2. g[n + 1] = g[(n + 1) - 1] \o tt[n + 1]  BY <1>2, <2>1, Zenon DEF Flattens
  <2> QED  BY <1>1, <2>1, <2>2, Zenon
<1>7. f[n] = g[n]
  <2>1. Flattens(g, tt, n)
    <3>1. \A i \in 1 .. n : i \in 1 .. n + 1  OBVIOUS
    <3> QED  BY <1>2, <3>1, Zenon DEF Flattens
  <2>2. Agree(ss, tt, n)  BY <1>1 DEF Agree
  <2> HIDE DEF Flattens, Agree
  <2> QED  BY <1>4, <2>1, <2>2, FlattensAgree, Zenon
<1> QED  BY <1>3, <1>5, <1>6, <1>7 DEF tt

Assoc(a, b, c) == (a \o b) \o c = a \o (b \o c)
(* Concatenation is associative; named, so that a step can use it once.      *)
LEMMA Associates ==
    ASSUME NEW S, NEW a \in Seq(S), NEW b \in Seq(S), NEW c \in Seq(S)
    PROVE  Assoc(a, b, c)
BY DEF Assoc

(* Flattening two lists of sequences, by induction over the second.          *)
LEMMA FlattenConcat ==
    ASSUME NEW S, NEW ss \in Seq(Seq(S)), NEW tt \in Seq(Seq(S))
    PROVE  Flatten(ss \o tt) = Flatten(ss) \o Flatten(tt)
<1> DEFINE A == {k \in Nat : \A u \in Seq(Seq(S)) :
                    Len(u) = k => Flatten(ss \o u) = Flatten(ss) \o Flatten(u)}
<1>0. Flatten(ss) \in Seq(S)  BY FlattenType
<1>1. 0 \in A
  <2> SUFFICES ASSUME NEW u \in Seq(Seq(S)), Len(u) = 0
               PROVE  Flatten(ss \o u) = Flatten(ss) \o Flatten(u)
    OBVIOUS
  <2>1. u = <<>> /\ ss \o u = ss  OBVIOUS
  <2>2. Flatten(ss) \o <<>> = Flatten(ss)  BY <1>0, ConcatEmptySeq
  <2> QED  BY <2>1, <2>2, FlattenEmpty, Zenon
<1>2. ASSUME NEW k \in Nat, k \in A  PROVE k + 1 \in A
  <2> SUFFICES ASSUME NEW u \in Seq(Seq(S)), Len(u) = k + 1
               PROVE  Flatten(ss \o u) = Flatten(ss) \o Flatten(u)
    OBVIOUS
  <2>1. u # <<>>  OBVIOUS
  <2>2. PICK v \in Seq(Seq(S)), e \in Seq(S) : u = Append(v, e)
    BY <2>1, SequenceEmptyOrAppend, Zenon
  <2>3. Len(v) = k  BY <2>2
  <2>4. ss \o u = Append(ss \o v, e)  BY <2>2
  <2>5. ss \o v \in Seq(Seq(S))  OBVIOUS
  <2>6. Flatten(ss \o u) = Flatten(ss \o v) \o e  BY <2>4, <2>5, FlattenAppend, Zenon
  <2>7. Flatten(ss \o v) = Flatten(ss) \o Flatten(v)  BY <1>2, <2>3
  <2>8. Flatten(u) = Flatten(v) \o e  BY <2>2, FlattenAppend
  <2>9. Flatten(v) \in Seq(S)  BY FlattenType
  <2> DEFINE a == Flatten(ss)
             b == Flatten(v)
  <2> HIDE DEF a, b
  <2>10. a \in Seq(S) /\ b \in Seq(S)  BY <1>0, <2>9 DEF a, b
  <2>11. Assoc(a, b, e)  BY <2>2, <2>10, Associates
  <2> QED  BY <2>6, <2>7, <2>8, <2>11, Zenon DEF a, b, Assoc
<1> HIDE DEF A
<1>3. Nat \subseteq A  BY <1>1, <1>2, Induct, Zenon
<1>4. Len(tt) \in A  BY <1>3
<1> QED  BY <1>4 DEF A

(* A single sequence is itself.                                              *)
LEMMA FlattenOne ==
    ASSUME NEW S, NEW s \in Seq(S)
    PROVE  Flatten(<<s>>) = s
<1>1. <<>> \in Seq(Seq(S)) /\ Append(<<>>, s) = <<s>>  OBVIOUS
<1>2. Flatten(<<s>>) = Flatten(<<>>) \o s  BY <1>1, FlattenAppend, Zenon
<1>3. <<>> \o s = s  BY ConcatEmptySeq, Zenon
<1> QED  BY <1>2, <1>3, FlattenEmpty, Zenon

(* The first sequence, the others, and the last two of many.                 *)
LEMMA FlattenCons ==
    ASSUME NEW S, NEW ss \in Seq(Seq(S)), NEW s \in Seq(S)
    PROVE  Flatten(<<s>> \o ss) = s \o Flatten(ss)
<1>1. <<s>> \in Seq(Seq(S))  OBVIOUS
<1>2. Flatten(<<s>> \o ss) = Flatten(<<s>>) \o Flatten(ss)
  BY <1>1, FlattenConcat, Zenon
<1> QED  BY <1>2, FlattenOne, Zenon

(* The part of a sequence behind the m-th place, up to the n-th.             *)
IsPart(p, s, m, n) ==
    Len(p) = n - m /\ n - m \in Nat /\ \A i \in 1 .. n - m : p[i] = s[m + i]
(* What SubSeq takes.                                                        *)
LEMMA SubSeqIs ==
    ASSUME NEW S, NEW s \in Seq(S), NEW m \in Nat, NEW n \in Nat, m <= n, n <= Len(s)
    PROVE  SubSeq(s, m + 1, n) \in Seq(S) /\ IsPart(SubSeq(s, m + 1, n), s, m, n)
<1>1. PICK k \in Int : k = m + 1 /\ n \in Int  OBVIOUS
<1>2. \A i \in k .. n : s[i] \in S  BY <1>1
<1>3. /\ SubSeq(s, k, n) \in Seq(S)
      /\ Len(SubSeq(s, k, n)) = IF k <= n THEN n - k + 1 ELSE 0
      /\ \A i \in 1 .. n - k + 1 : SubSeq(s, k, n)[i] = s[k + i - 1]
  BY <1>1, <1>2, SubSeqProperties
<1>4. n - k + 1 = n - m /\ n - m \in Nat /\ (~(k <= n) => n - m = 0)  BY <1>1
<1>5. \A i \in 1 .. n - m : i \in 1 .. n - k + 1 /\ k + i - 1 = m + i  BY <1>1
<1>6. Len(SubSeq(s, k, n)) = n - m
  <2> DEFINE len == Len(SubSeq(s, k, n))
  <2>1. len = IF k <= n THEN n - k + 1 ELSE 0  BY <1>3
  <2> HIDE DEF len
  <2> QED  BY <1>4, <2>1 DEF len
<1>7. \A i \in 1 .. n - m : SubSeq(s, k, n)[i] = s[m + i]  BY <1>3, <1>5, Zenon
<1> QED  BY <1>1, <1>3, <1>4, <1>6, <1>7, Zenon DEF IsPart

-----------------------------------------------------------------------------
(* TimeList.                                                                 *)

(* The times are those of the past: what makes the order of the list follow  *)
(* from the order of the clock.                                              *)
Past ==
    /\ \A i \in DOMAIN list : list[i].time <= clock + Timeout
    /\ \A t \in Threads : seen[t] <= clock
    /\ due <= clock /\ passed <= clock

IInv == TypeOK /\ MapIsList /\ Past /\ OrderedButForDelay /\ LateByDelay

(* Where a key of m_map is in m_list.                                        *)
LEMMA IndexFound ==
    ASSUME TypeOK, MapIsList, NEW k \in map
    PROVE  /\ IndexOf(list, k) \in DOMAIN list
           /\ list[IndexOf(list, k)].key = k
<1>1. PICK i \in DOMAIN list : list[i].key = k  BY DEF MapIsList
<1> QED  BY <1>1 DEF IndexOf

(* The entries of a list are what the list is a list of.                    *)
LEMMA ElementOf == ASSUME NEW S, NEW l \in Seq(S)  PROVE \A i \in DOMAIN l : l[i] \in S
OBVIOUS

(* What m_list.erase() leaves: the other entries, in their order.            *)
LEMMA EraseAtFacts ==
    ASSUME NEW S, NEW l \in Seq(S), NEW i \in DOMAIN l
    PROVE  /\ EraseAt(l, i) \in Seq(S)
           /\ Len(EraseAt(l, i)) = Len(l) - 1
           /\ DOMAIN EraseAt(l, i) = 1 .. Len(l) - 1
           /\ \A j \in 1 .. Len(l) - 1 :
                 EraseAt(l, i)[j] = IF j < i THEN l[j] ELSE l[j + 1]
<1> DEFINE e == EraseAt(l, i)
           n == Len(l) - 1
<1>1. Len(l) \in Nat /\ DOMAIN l = 1 .. Len(l)  OBVIOUS
<1>2. n \in Nat  BY <1>1
<1>3. e = [j \in 1 .. n |-> IF j < i THEN l[j] ELSE l[j + 1]]  BY DEF EraseAt
<1>4. \A j \in 1 .. n : (IF j < i THEN l[j] ELSE l[j + 1]) \in S  BY <1>1, <1>2
<1>5. e \in Seq(S) /\ Len(e) = n  BY <1>2, <1>3, <1>4
<1> QED  BY <1>3, <1>5

(* What timeout() leaves: the entries from the n-th on.                      *)
LEMMA SuffixFacts ==
    ASSUME NEW S, NEW l \in Seq(S), NEW n \in 0 .. Len(l),
           NEW s, s = SubSeq(l, n + 1, Len(l))
    PROVE  /\ s \in Seq(S)
           /\ DOMAIN s = 1 .. Len(l) - n
           /\ \A i \in 1 .. Len(l) - n : s[i] = l[i + n] /\ l[i + n] \in S
<1>1. Len(l) \in Nat /\ n \in Nat  OBVIOUS
<1>2. \A i \in 1 .. Len(l) - n : i + n \in 1 .. Len(l)  BY <1>1
<1>3. \A i \in 1 .. Len(l) : l[i] \in S  OBVIOUS
<1> QED  BY <1>1, <1>2, <1>3

(* The keys of the list without the entry of k.                              *)
LEMMA ErasedKeys ==
    ASSUME TypeOK, MapIsList, NEW k \in map, NEW e, e = Erase(list, k)
    PROVE  /\ e \in Seq([key : Keys, time : Nat])
           /\ {e[i].key : i \in DOMAIN e} = map \ {k}
           /\ \A i, j \in DOMAIN e : e[i].key = e[j].key => i = j
           /\ \A i \in DOMAIN e : \E a \in DOMAIN list : e[i] = list[a]
           /\ \A i, j \in DOMAIN e : i < j =>
                 \E a, b \in DOMAIN list : a < b /\ e[i] = list[a] /\ e[j] = list[b]
<1> DEFINE x == IndexOf(list, k)
           n == Len(list) - 1
<1>1. x \in DOMAIN list /\ list[x].key = k  BY IndexFound
<1>2. Len(list) \in Nat /\ DOMAIN list = 1 .. Len(list)  BY DEF TypeOK
<1>3. /\ e \in Seq([key : Keys, time : Nat])
      /\ DOMAIN e = 1 .. n
      /\ \A j \in 1 .. n : e[j] = IF j < x THEN list[j] ELSE list[j + 1]
  BY <1>1, EraseAtFacts, Zenon DEF TypeOK, Erase
<1> HIDE DEF x
<1>4. \A i, j \in DOMAIN e : i < j =>
         \E a, b \in DOMAIN list : a < b /\ e[i] = list[a] /\ e[j] = list[b]
  <2> SUFFICES ASSUME NEW i \in DOMAIN e, NEW j \in DOMAIN e, i < j
               PROVE  \E a, b \in DOMAIN list : a < b /\ e[i] = list[a] /\ e[j] = list[b]
    OBVIOUS
  <2> DEFINE a == IF i < x THEN i ELSE i + 1
             b == IF j < x THEN j ELSE j + 1
  <2>1. a \in DOMAIN list /\ b \in DOMAIN list /\ a < b
    <3>1. PICK m \in Nat : m = Len(list) /\ n = m - 1  BY <1>2
    <3>2. i \in 1 .. m - 1 /\ j \in 1 .. m - 1 /\ x \in 1 .. m /\ DOMAIN list = 1 .. m
      BY <1>1, <1>2, <1>3, <3>1
    <3>3. a \in 1 .. m /\ b \in 1 .. m  BY <3>2
    <3>4. a < b  BY <3>2
    <3> QED  BY <3>2, <3>3, <3>4
  <2>2. e[i] = list[a] /\ e[j] = list[b]  BY <1>3, Zenon
  <2> QED  BY <2>1, <2>2
<1>5. \A i \in DOMAIN e : \E a \in DOMAIN list : a # x /\ e[i] = list[a]
  <2> TAKE i \in DOMAIN e
  <2> DEFINE a == IF i < x THEN i ELSE i + 1
  <2>1. a \in DOMAIN list /\ a # x /\ e[i] = list[a]  BY <1>1, <1>2, <1>3
  <2> QED  BY <2>1
<1>6. \A i, j \in DOMAIN e : e[i].key = e[j].key => i = j
  <2> SUFFICES ASSUME NEW i \in DOMAIN e, NEW j \in DOMAIN e, e[i].key = e[j].key, i < j
               PROVE  FALSE
    <3>1. DOMAIN e \subseteq Int  BY <1>2, <1>3
    <3> QED  BY <3>1
  <2> QED  BY <1>2, <1>4 DEF MapIsList
<1>7. {e[i].key : i \in DOMAIN e} = map \ {k}
  <2>1. ASSUME NEW i \in DOMAIN e  PROVE e[i].key \in map \ {k}
    BY <1>1, <1>5 DEF MapIsList
  <2>2. ASSUME NEW q \in map \ {k}  PROVE \E i \in DOMAIN e : e[i].key = q
    <3>1. PICK a \in DOMAIN list : list[a].key = q  BY DEF MapIsList
    <3>2. a # x  BY <1>1, <3>1
    <3> DEFINE i == IF a < x THEN a ELSE a - 1
    <3>3. i \in DOMAIN e /\ e[i] = list[a]  BY <1>1, <1>2, <1>3, <3>2
    <3> QED  BY <3>1, <3>3
  <2> QED  BY <2>1, <2>2
<1> QED  BY <1>3, <1>4, <1>5, <1>6, <1>7

-----------------------------------------------------------------------------
(* An empty list and map satisfy the invariant.                             *)
LEMMA InitIInv == Init => IInv
BY TimeoutAssumption, MaxTimeAssumption
DEF Init, IInv, TypeOK, MapIsList, Past, OrderedButForDelay, LateByDelay, None, Times

(* As time passes, only what is overdue changes, and nothing is read.       *)
LEMMA TickIInv == IInv /\ Tick => IInv'
<1> SUFFICES ASSUME IInv, Tick  PROVE IInv'  OBVIOUS
<1>1. clock \in Nat /\ clock' = clock + 1 /\ UNCHANGED <<list, map, seen, due, delay, passed>>
  BY MaxTimeAssumption DEF Tick, IInv, TypeOK, Times
<1>2. TypeOK'  BY <1>1, MaxTimeAssumption DEF Tick, IInv, TypeOK, Times
<1>3. Past'
  <2>1. \A i \in DOMAIN list : list[i].time \in Nat
    <3>1. \A i \in DOMAIN list : list[i] \in [key : Keys, time : Nat]
      BY ElementOf, Zenon DEF IInv, TypeOK
    <3> QED  BY <3>1
  <2>2. \A i \in DOMAIN list : list[i].time <= clock + 1 + Timeout
    BY <1>1, <2>1, TimeoutAssumption DEF IInv, Past
  <2>3. /\ \A t \in Threads : seen[t] <= clock + 1
        /\ due <= clock + 1 /\ passed <= clock + 1
    BY <1>1 DEF IInv, TypeOK, Past, Times, None
  <2> QED  BY <1>1, <2>2, <2>3 DEF Past
<1> QED  BY <1>1, <1>2, <1>3 DEF IInv, MapIsList, OrderedButForDelay, LateByDelay

(* A thread that reads the clock holds no value of the future.              *)
LEMMA ReadClockIInv == ASSUME NEW t \in Threads, IInv, ReadClock(t)  PROVE IInv'
BY TimeoutAssumption, MaxTimeAssumption
DEF ReadClock, IInv, TypeOK, MapIsList, Past, OrderedButForDelay, LateByDelay, None, Times

(* Neither does timeout() when it reads the clock.                          *)
LEMMA ReadDueIInv == IInv /\ ReadDue => IInv'
BY TimeoutAssumption, MaxTimeAssumption
DEF ReadDue, IInv, TypeOK, MapIsList, Past, OrderedButForDelay, LateByDelay, None, Times

(* del(): an erased entry leaves the others in order.                        *)
LEMMA DelIInv == ASSUME NEW k \in Keys, IInv, Del(k)  PROVE IInv'
<1> DEFINE e == Erase(list, k)
<1>1. k \in map /\ list' = e /\ map' = map \ {k}  BY DEF Del
<1>2. /\ e \in Seq([key : Keys, time : Nat])
      /\ {e[i].key : i \in DOMAIN e} = map \ {k}
      /\ \A i, j \in DOMAIN e : e[i].key = e[j].key => i = j
      /\ \A i \in DOMAIN e : \E a \in DOMAIN list : e[i] = list[a]
      /\ \A i, j \in DOMAIN e : i < j =>
            \E a, b \in DOMAIN list : a < b /\ e[i] = list[a] /\ e[j] = list[b]
  BY <1>1, ErasedKeys, Zenon DEF IInv
<1> HIDE DEF e
<1>3. TypeOK'  BY <1>1, <1>2 DEF Del, IInv, TypeOK
<1>4. MapIsList'  BY <1>1, <1>2 DEF MapIsList
<1>5. Past'  BY <1>1, <1>2 DEF Del, IInv, Past
<1>6. OrderedButForDelay'  BY <1>1, <1>2 DEF Del, IInv, OrderedButForDelay
<1>7. LateByDelay'  BY <1>1, <1>2 DEF Del, IInv, LateByDelay
<1> QED  BY <1>3, <1>4, <1>5, <1>6, <1>7 DEF IInv

(* add(): the list without the key, whose entry comes last with a time that  *)
(* is at most delay' short of every other one.                               *)
LEMMA AddIInv == ASSUME NEW t \in Threads, NEW k \in Keys, IInv, Add(t, k)  PROVE IInv'
<1> DEFINE e == IF k \in map THEN Erase(list, k) ELSE list
           new == [key |-> k, time |-> Deadline(t)]
           S == [key : Keys, time : Nat]
<1>1. list' = Append(e, new) /\ map' = map \cup {k}  BY DEF Add
<1>2. /\ e \in Seq(S)
      /\ {e[i].key : i \in DOMAIN e} = map \ {k}
      /\ \A i, j \in DOMAIN e : e[i].key = e[j].key => i = j
      /\ \A i \in DOMAIN e : \E a \in DOMAIN list : e[i] = list[a]
      /\ \A i, j \in DOMAIN e : i < j =>
            \E a, b \in DOMAIN list : a < b /\ e[i] = list[a] /\ e[j] = list[b]
  <2>1. CASE k \in map
    <3> DEFINE d == Erase(list, k)
    <3>1. /\ d \in Seq(S)
          /\ {d[i].key : i \in DOMAIN d} = map \ {k}
          /\ \A i, j \in DOMAIN d : d[i].key = d[j].key => i = j
          /\ \A i \in DOMAIN d : \E a \in DOMAIN list : d[i] = list[a]
          /\ \A i, j \in DOMAIN d : i < j =>
                \E a, b \in DOMAIN list : a < b /\ d[i] = list[a] /\ d[j] = list[b]
      BY <2>1, ErasedKeys, Zenon DEF IInv
    <3>2. e = d  BY <2>1
    <3> HIDE DEF d, e, S
    <3> QED  BY <3>1, <3>2
  <2>2. CASE k \notin map  BY <2>2 DEF IInv, TypeOK, MapIsList
  <2> QED  BY <2>1, <2>2, Zenon
<1>3. /\ clock \in Nat /\ seen[t] \in Nat /\ seen[t] <= clock
      /\ Timeout \in Nat /\ Timeout > 0 /\ Deadline(t) = seen[t] + Timeout
      /\ passed \in Int /\ passed <= clock
  BY TimeoutAssumption, MaxTimeAssumption DEF Add, IInv, TypeOK, Past, Times, None, Deadline
<1>4. /\ delay \in Nat /\ delay' \in Nat /\ delay <= delay' /\ clock - seen[t] <= delay'
  BY <1>3 DEF Add, Longest, IInv, TypeOK
<1>5. new \in S  BY <1>3
<1> HIDE DEF e, new, S
<1>6. /\ list' \in Seq(S)
      /\ Len(e) \in Nat /\ DOMAIN e = 1 .. Len(e)
      /\ DOMAIN list' = 1 .. Len(e) + 1
      /\ \A i \in 1 .. Len(e) : list'[i] = e[i] /\ e[i] \in S
      /\ list'[Len(e) + 1] = new
  BY <1>1, <1>2, <1>5
<1>7. UNCHANGED <<clock, due, passed>> /\ seen' = [seen EXCEPT ![t] = None]  BY DEF Add
<1>8. TypeOK'  BY <1>1, <1>4, <1>6, <1>7 DEF IInv, TypeOK, S
<1>9. MapIsList'
  <2>1. new.key = k  BY DEF new
  <2>2. ASSUME NEW i \in 1 .. Len(e)  PROVE e[i].key # k
    <3>1. i \in DOMAIN e  BY <1>6
    <3>2. e[i].key \in {e[j].key : j \in DOMAIN e}  BY <3>1, Zenon
    <3> QED  BY <1>2, <3>2
  <2>3. \A i, j \in DOMAIN list' : list'[i].key = list'[j].key => i = j
    BY <1>2, <1>6, <2>1, <2>2
  <2>4. {list'[i].key : i \in DOMAIN list'} = map \cup {k}
    <3>1. ASSUME NEW i \in DOMAIN list'  PROVE list'[i].key \in map \cup {k}
      BY <1>2, <1>6, <2>1
    <3>2. ASSUME NEW q \in map \cup {k}  PROVE \E i \in DOMAIN list' : list'[i].key = q
      <4>1. CASE q = k  BY <4>1, <1>6, <2>1
      <4>2. CASE q # k
        <5>1. PICK i \in DOMAIN e : e[i].key = q  BY <4>2, <1>2
        <5> QED  BY <5>1, <1>6
      <4> QED  BY <4>1, <4>2
    <3> QED  BY <3>1, <3>2
  <2> QED  BY <1>1, <2>3, <2>4, Zenon DEF MapIsList
<1>10. Past'
  <2>1. \A i \in DOMAIN list' : list'[i].time <= clock + Timeout
    <3>1. new.time <= clock + Timeout  BY <1>3 DEF new
    <3>2. \A i \in 1 .. Len(e) : e[i].time <= clock + Timeout
      BY <1>2, <1>6 DEF IInv, Past
    <3> QED  BY <1>6, <3>1, <3>2
  <2>2. \A u \in Threads : seen'[u] <= clock
    BY <1>3, <1>7 DEF IInv, TypeOK, Past, None
  <2> QED  BY <1>7, <2>1, <2>2 DEF IInv, Past
<1>11. OrderedButForDelay'
  <2> SUFFICES ASSUME NEW i \in DOMAIN list', NEW j \in DOMAIN list', i < j
               PROVE  list'[i].time <= list'[j].time + delay'
    BY DEF OrderedButForDelay
  <2>1. i \in 1 .. Len(e) /\ list'[i] = e[i] /\ e[i] \in S  BY <1>2, <1>6
  <2>2. CASE j \in 1 .. Len(e)
    <3>1. PICK a \in DOMAIN list, b \in DOMAIN list :
             a < b /\ e[i] = list[a] /\ e[j] = list[b]
      BY <1>2, <1>6, <2>1, <2>2
    <3>2. e[i].time <= e[j].time + delay  BY <3>1 DEF IInv, OrderedButForDelay
    <3>3. e[j] \in S /\ list'[j] = e[j]  BY <1>2, <1>6, <2>2
    <3> QED  BY <1>4, <2>1, <3>2, <3>3 DEF S
  <2>3. CASE j = Len(e) + 1
    <3>1. e[i].time <= clock + Timeout  BY <1>2, <1>6, <2>1 DEF IInv, Past
    <3>2. list'[j].time = seen[t] + Timeout  BY <1>3, <1>6, <2>3 DEF new
    <3> QED  BY <1>3, <1>4, <2>1, <3>1, <3>2 DEF S
  <2> QED  BY <1>6, <2>2, <2>3
<1>12. LateByDelay'
  <2> SUFFICES ASSUME NEW i \in DOMAIN list'
               PROVE  passed < list'[i].time + delay'
    BY <1>7 DEF LateByDelay
  <2>1. CASE i \in 1 .. Len(e)
    <3>1. passed < e[i].time + delay  BY <1>2, <1>6, <2>1 DEF IInv, LateByDelay
    <3>2. list'[i] = e[i] /\ e[i] \in S  BY <1>2, <1>6, <2>1
    <3> QED  BY <1>3, <1>4, <3>1, <3>2 DEF S
  <2>2. CASE i = Len(e) + 1
    <3>1. list'[i].time = seen[t] + Timeout  BY <1>3, <1>6, <2>2 DEF new
    <3> QED  BY <1>3, <1>4, <3>1
  <2> QED  BY <1>6, <2>1, <2>2
<1> QED  BY <1>8, <1>9, <1>10, <1>11, <1>12 DEF IInv

(* timeout(): the entries behind the first that is not due stay; each of     *)
(* them is later than that one, but for the delay.                           *)
LEMMA ExpireIInv == ASSUME NEW n \in 0 .. Len(list), IInv, Expire(n)  PROVE IInv'
<1> DEFINE S == [key : Keys, time : Nat]
           m == Len(list) - n
<1>1. Len(list) \in Nat /\ DOMAIN list = 1 .. Len(list) /\ n \in Nat /\ m \in Nat
  BY DEF IInv, TypeOK
<1>2. list' = SubSeq(list, n + 1, Len(list))  BY DEF Expire
<1>3. /\ list' \in Seq(S)
      /\ DOMAIN list' = 1 .. m
      /\ \A i \in 1 .. m : list'[i] = list[i + n] /\ list[i + n] \in S
  <2>1. list \in Seq(S)  BY DEF IInv, TypeOK
  <2> HIDE DEF S
  <2> QED  BY <1>2, <2>1, SuffixFacts
<1>4. \A i \in 1 .. m : i + n \in DOMAIN list  BY <1>1
<1>5. /\ map' = map \ {list[i].key : i \in 1 .. n}
      /\ passed' = due /\ due' = None
      /\ UNCHANGED <<clock, seen, delay>>
      /\ due # None /\ Due(n)
  BY DEF Expire
<1>6. due \in Nat /\ delay \in Nat /\ due <= clock /\ clock \in Nat
  BY <1>5, MaxTimeAssumption DEF IInv, TypeOK, Times, None, Past
<1>7. TypeOK'  BY <1>3, <1>5 DEF IInv, TypeOK
<1>8. MapIsList'
  <2>1. \A i, j \in DOMAIN list' : list'[i].key = list'[j].key => i = j
    <3> TAKE i, j \in DOMAIN list'
    <3>1. i + n \in DOMAIN list /\ j + n \in DOMAIN list /\ i \in Int /\ j \in Int
      BY <1>3, <1>4
    <3>2. list'[i] = list[i + n] /\ list'[j] = list[j + n]  BY <1>3, Zenon
    <3>3. list[i + n].key = list[j + n].key => i + n = j + n
      BY <3>1, Zenon DEF IInv, MapIsList
    <3> QED  BY <1>1, <3>1, <3>2, <3>3
  <2>2. ASSUME NEW i \in DOMAIN list'  PROVE list'[i].key \in map'
    <3>1. list'[i] = list[i + n] /\ i + n \in DOMAIN list /\ i + n > n  BY <1>1, <1>3, <1>4
    <3>2. \A j \in 1 .. n : list[j].key # list[i + n].key
      BY <1>1, <3>1 DEF IInv, MapIsList
    <3> QED  BY <1>5, <3>1, <3>2 DEF IInv, MapIsList
  <2>3. ASSUME NEW q \in map'  PROVE \E i \in DOMAIN list' : list'[i].key = q
    <3>1. PICK a \in DOMAIN list : list[a].key = q  BY <1>5 DEF IInv, MapIsList
    <3>2. a \notin 1 .. n  BY <1>5, <3>1
    <3>3. a - n \in 1 .. m /\ list'[a - n] = list[a]  BY <1>1, <1>3, <3>1, <3>2
    <3> QED  BY <1>3, <3>1, <3>3
  <2> QED  BY <2>1, <2>2, <2>3 DEF MapIsList
<1>9. Past'
  BY <1>3, <1>4, <1>5, <1>6 DEF IInv, Past, None
<1>10. OrderedButForDelay'
  <2> SUFFICES ASSUME NEW i \in DOMAIN list', NEW j \in DOMAIN list', i < j
               PROVE  list'[i].time <= list'[j].time + delay
    BY <1>5 DEF OrderedButForDelay
  <2>1. i + n \in DOMAIN list /\ j + n \in DOMAIN list /\ i + n < j + n
    BY <1>1, <1>3, <1>4
  <2> QED  BY <1>3, <2>1 DEF IInv, OrderedButForDelay
<1>11. LateByDelay'
  <2> SUFFICES ASSUME NEW i \in DOMAIN list'
               PROVE  due < list'[i].time + delay
    BY <1>5 DEF LateByDelay
  <2>1. i \in 1 .. m /\ list'[i] = list[i + n] /\ list[i + n] \in S /\ i + n \in DOMAIN list
    BY <1>3, <1>4
  <2>2. n + 1 \in DOMAIN list /\ list[n + 1] \in S
    <3>1. 1 \in 1 .. m  BY <1>1, <2>1
    <3> QED  BY <1>3, <1>4, <3>1
  <2>3. due < list[n + 1].time  BY <1>1, <1>5, <2>2 DEF Due
  <2>4. list[n + 1].time <= list[i + n].time + delay
    <3>1. CASE i = 1  BY <1>6, <2>1, <3>1
    <3>2. CASE i > 1
      <4>1. n + 1 < i + n  BY <1>1, <2>1, <3>2
      <4> QED  BY <2>1, <2>2, <4>1 DEF IInv, OrderedButForDelay
    <3> QED  BY <2>1, <3>1, <3>2
  <2> QED  BY <1>6, <2>1, <2>2, <2>3, <2>4
<1> QED  BY <1>7, <1>8, <1>9, <1>10, <1>11 DEF IInv

(* Every step of TimeList keeps the invariant.                              *)
LEMMA NextIInv == IInv /\ [Next]_vars => IInv'
<1> SUFFICES ASSUME IInv, [Next]_vars  PROVE IInv'  OBVIOUS
<1>1. CASE Tick  BY <1>1, TickIInv
<1>2. CASE ReadDue  BY <1>2, ReadDueIInv
<1>3. ASSUME NEW t \in Threads, ReadClock(t)  PROVE IInv'  BY <1>3, ReadClockIInv
<1>4. ASSUME NEW t \in Threads, NEW k \in Keys, Add(t, k)  PROVE IInv'  BY <1>4, AddIInv
<1>5. ASSUME NEW k \in Keys, Del(k)  PROVE IInv'  BY <1>5, DelIInv
<1>6. ASSUME NEW n \in 0 .. Len(list), Expire(n)  PROVE IInv'  BY <1>6, ExpireIInv
<1>7. CASE UNCHANGED vars
  BY <1>7 DEF vars, IInv, TypeOK, MapIsList, Past, OrderedButForDelay, LateByDelay
<1> QED  BY <1>1, <1>2, <1>3, <1>4, <1>5, <1>6, <1>7 DEF Next

(* The inductive invariant holds of every behaviour of TimeList.             *)
THEOREM IInvHolds == Spec => []IInv
<1>1. Init => IInv  BY InitIInv
<1>2. IInv /\ [Next]_vars => IInv'  BY NextIInv
<1> QED  BY <1>1, <1>2, PTL DEF Spec

(* m_map and m_list never disagree, so add() and del() never follow an       *)
(* iterator that dangles.                                                    *)
THEOREM MapIsListHolds == Spec => []MapIsList
<1>1. IInv => MapIsList  BY DEF IInv
<1> QED  BY IInvHolds, <1>1, PTL

(* The list is ordered but for the delay between reading the clock and       *)
(* add().                                                                    *)
THEOREM OrderedHolds == Spec => []OrderedButForDelay
<1>1. IInv => OrderedButForDelay  BY DEF IInv
<1> QED  BY IInvHolds, <1>1, PTL

(* timeout() leaves nothing behind that was due, but for the same delay.     *)
THEOREM LateByDelayHolds == Spec => []LateByDelay
<1>1. IInv => LateByDelay  BY DEF IInv
<1> QED  BY IInvHolds, <1>1, PTL

-----------------------------------------------------------------------------
(* DayLog and HourLog: the file that is open is the one of the period of the *)
(* last line.                                                                *)
DayInv == D!TypeOK /\ D!InOwnFile /\ (fp # D!NULL => fp = D!Date(lastTime))

(* A later time is not in an earlier period.                                 *)
LEMMA DivMonotone ==
    ASSUME NEW p \in Nat \ {0}, NEW a \in Nat, NEW b \in Nat, a <= b
    PROVE  a \div p \in 0 .. b \div p
<1>1. a \div p \in Nat /\ b \div p \in Nat  OBVIOUS
<1>2. a \div p <= b \div p  OBVIOUS
<1> QED  BY <1>1, <1>2

(* A time that the clock reaches is in one of the periods.                   *)
LEMMA DateType == ASSUME D!Assumption, NEW t \in D!Times PROVE D!Date(t) \in D!Dates
BY DivMonotone DEF D!Assumption, D!Date, D!Dates, D!Times

(* A line that is appended to the file of its own period keeps the files in  *)
(* order.                                                                    *)
LEMMA AppendDay ==
    ASSUME D!Assumption, DayInv, NEW t \in D!Times, NEW d, D!AppendTo(t, d), d = D!Date(t)
    PROVE  dfiles' \in [D!Dates -> Seq(D!Times)] /\ D!InOwnFile' /\ fp' = d /\ d \in D!Dates
<1>1. d \in D!Dates  BY DateType
<1>2. dfiles[d] \in Seq(D!Times)  BY <1>1 DEF DayInv, D!TypeOK
<1>3. Append(dfiles[d], t) \in Seq(D!Times)  BY <1>2
<1>4. dfiles' \in [D!Dates -> Seq(D!Times)]
  BY <1>1, <1>3 DEF D!AppendTo, DayInv, D!TypeOK
<1>5. ASSUME NEW e \in D!Dates, NEW i \in DOMAIN dfiles'[e]  PROVE D!Date(dfiles'[e][i]) = e
  <2>1. CASE e = d
    <3>1. dfiles'[e] = Append(dfiles[d], t)  BY <1>1, <2>1 DEF D!AppendTo, DayInv, D!TypeOK
    <3>2. CASE i = Len(dfiles[d]) + 1  BY <1>2, <2>1, <3>1, <3>2
    <3>3. CASE i # Len(dfiles[d]) + 1
      <4>1. i \in DOMAIN dfiles[d] /\ dfiles'[e][i] = dfiles[d][i]  BY <1>2, <1>5, <3>1, <3>3
      <4> QED  BY <1>1, <2>1, <4>1 DEF DayInv, D!InOwnFile
    <3> QED  BY <3>2, <3>3
  <2>2. CASE e # d
    <3>1. dfiles'[e] = dfiles[e]  BY <2>2 DEF D!AppendTo, DayInv, D!TypeOK
    <3> QED  BY <1>5, <3>1 DEF DayInv, D!InOwnFile
  <2> QED  BY <2>1, <2>2
<1> QED  BY <1>1, <1>4, <1>5 DEF D!AppendTo, D!InOwnFile

(* Every step of a DayLog keeps the invariant.                               *)
LEMMA DayStep ==
    ASSUME D!Assumption, DayInv, [D!Next]_(D!vars)  PROVE DayInv'
<1> USE DEF DayInv
<1>1. CASE UNCHANGED D!vars  BY <1>1 DEF D!vars, D!TypeOK, D!InOwnFile
<1>2. CASE D!Tick  BY <1>2 DEF D!Assumption, D!Tick, D!TypeOK, D!InOwnFile, D!Times
<1>3. CASE D!Restart
  <2>1. 0 \in D!Times  BY DEF D!Assumption, D!Times
  <2> QED  BY <1>3, <2>1 DEF D!Restart, D!TypeOK, D!InOwnFile
<1>4. ASSUME NEW t \in D!Times, D!WriteLog(t)  PROVE DayInv'
  <2>0. dlines' \in 0 .. DayLines /\ lastTime' = t /\ dclock' = dclock
    BY <1>4 DEF D!WriteLog, D!TypeOK, D!Assumption
  <2>1. CASE D!MustOpen(t) /\ D!AppendTo(t, D!Date(t)) /\ dopenTime' = t /\ UNCHANGED dfails
    BY <1>4, <2>0, <2>1, AppendDay DEF D!TypeOK
  <2>2. CASE D!OpenFails /\ dopenTime' = t
    BY <1>4, <2>0, <2>2 DEF D!OpenFails, D!TypeOK, D!InOwnFile, D!Assumption
  <2>3. CASE ~D!MustOpen(t) /\ D!AppendTo(t, fp) /\ UNCHANGED <<dopenTime, dfails>>
    <3>1. fp = D!Date(t)  BY <2>3 DEF D!MustOpen
    <3> QED  BY <1>4, <2>0, <2>3, <3>1, AppendDay DEF D!TypeOK
  <2> QED  BY <1>4, <2>1, <2>2, <2>3 DEF D!WriteLog
<1> QED  BY <1>1, <1>2, <1>3, <1>4 DEF D!Next

(* An empty DayLog has it.                                                   *)
LEMMA DayInit == D!Assumption /\ D!Init => DayInv
<1> SUFFICES ASSUME D!Assumption, D!Init  PROVE DayInv  OBVIOUS
<1>1. 0 \in D!Times  BY DEF D!Assumption, D!Times
<1> QED  BY <1>1 DEF D!Init, DayInv, D!TypeOK, D!InOwnFile, D!Assumption

-----------------------------------------------------------------------------
(* MySqlConn.                                                                *)

(* What statements are made of: the words of the code and those of SqlPairs, *)
(* in pieces, and clauses of pairs.                                          *)
Words == STRING \cup
    {",", "and", "from", "from where", "select", "select columns", "update", "where",
     "condition", "insert", "replace", "values", "delete where", "delete condition"}
Piece == {"text", "key", "raw", "escaped"} \X Words
ClauseT == [head : Words, sep : Words, pairs : Seq(M!Pair), form : {"key", "pair", "value"}]
LibT == [state : {"free", "init", "open", "ready"}, config : Configs \cup {"none"}]

(* The text of the first k pairs of a clause, and of the clauses before at   *)
(* and of done pairs of that one.                                            *)
PairsText(cl, k) == Flatten([i \in 1 .. k |-> M!Each(cl, i)])
Upto(cls, at, done) ==
    Flatten([c \in 1 .. at - 1 |-> M!ClauseText(cls[c], Len(cls[c].pairs))])
    \o M!ClauseText(cls[at], done)

(* What the call has written so far is in m_oss.                             *)
CallInv ==
    /\ call \in [op : M!Ops \cup {"none"}, clauses : Seq(ClauseT), at : Nat, done : Nat]
    /\ call.op # "none" => oss = Upto(call.clauses, call.at, call.done)

(* m_bConnected stands for a whole connection to the configured server.      *)
ConnInv ==
    /\ lib \in [Handles -> LibT]
    /\ M!NoHandleLost
    /\ bConnected => mysql # M!NoHandle /\ lib[mysql] = [state |-> "ready", config |-> config]

SqlInv == M!TypeOK /\ CallInv /\ ConnInv /\ M!SentAsMeant /\ M!SentWhereMeant

(* Two clauses are a list of clauses.                                        *)
LEMMA TwoClauses ==
    ASSUME NEW S, NEW a \in S, NEW b \in S, NEW c, c = <<a, b>>
    PROVE  c \in Seq(S) /\ 1 \in DOMAIN c
OBVIOUS

(* And so is one.                                                            *)
LEMMA OneClause ==
    ASSUME NEW S, NEW a \in S, NEW c, c = <<a>>
    PROVE  c \in Seq(S) /\ 1 \in DOMAIN c
OBVIOUS

(* What each call of MySqlConn puts together is a list of clauses.           *)
LEMMA ClausesType ==
    ASSUME M!Assumption, NEW op \in M!Ops, NEW columns \in Joins, NEW cond \in Joins
    PROVE  /\ M!Clauses(op, columns, cond) \in Seq(ClauseT)
           /\ 1 \in DOMAIN M!Clauses(op, columns, cond)
<1>0. /\ "," \in Words /\ "and" \in Words /\ "from" \in Words /\ "from where" \in Words
      /\ "select" \in Words /\ "select columns" \in Words /\ "update" \in Words
      /\ "where" \in Words /\ "condition" \in Words /\ "insert" \in Words
      /\ "replace" \in Words /\ "values" \in Words
      /\ "delete where" \in Words /\ "delete condition" \in Words
  BY DEF Words
<1>1. columns \in Seq(M!Pair) /\ cond \in Seq(M!Pair) /\ <<>> \in Seq(M!Pair)  BY DEF M!Assumption
<1>2. \A h, s \in Words, p \in Seq(M!Pair), f \in {"key", "pair", "value"} :
         M!Clause(h, s, p, f) \in ClauseT
  BY DEF M!Clause, ClauseT
<1> HIDE DEF ClauseT
<1>5. M!Clause(IF cond = <<>> THEN "from" ELSE "from where", "and", cond, "pair") \in ClauseT
  <2>1. CASE cond = <<>>  BY <1>0, <1>1, <1>2, <2>1, Zenon
  <2>2. CASE cond # <<>>  BY <1>0, <1>1, <1>2, <2>2, Zenon
  <2> QED  BY <2>1, <2>2, Zenon
<1>6. \A s \in Words :
         /\ M!Clause(s, ",", columns, "key") \in ClauseT /\ M!Clause(s, ",", columns, "value") \in ClauseT
         /\ M!Clause(s, ",", columns, "pair") \in ClauseT /\ M!Clause(s, "and", cond, "pair") \in ClauseT
         /\ M!Clause(s, ",", <<>>, "key") \in ClauseT /\ M!Clause(s, ",", <<>>, "pair") \in ClauseT
  BY <1>0, <1>1, <1>2, Zenon
<1> HIDE DEF M!Clause
<1>7. CASE op = "select"
  <2>1. PICK c : c = M!Clauses(op, columns, cond)  OBVIOUS
  <2>2. M!Clause("select", ",", columns, "key") \in ClauseT /\ M!Clause(IF cond = <<>> THEN "from" ELSE "from where", "and", cond, "pair") \in ClauseT  BY <1>0, <1>5, <1>6, Zenon
  <2>3. c = << M!Clause("select", ",", columns, "key"), M!Clause(IF cond = <<>> THEN "from" ELSE "from where", "and", cond, "pair") >>
    BY <1>7, <2>1, Zenon DEF M!Clauses
  <2> QED  BY <2>1, <2>2, <2>3, TwoClauses, Zenon
<1>8. CASE op = "selectText"
  <2>1. PICK c : c = M!Clauses(op, columns, cond)  OBVIOUS
  <2>2. M!Clause("select columns", ",", <<>>, "key") \in ClauseT /\ M!Clause(IF cond = <<>> THEN "from" ELSE "from where", "and", cond, "pair") \in ClauseT  BY <1>0, <1>5, <1>6, Zenon
  <2>3. c = << M!Clause("select columns", ",", <<>>, "key"), M!Clause(IF cond = <<>> THEN "from" ELSE "from where", "and", cond, "pair") >>
    BY <1>8, <2>1, Zenon DEF M!Clauses
  <2> QED  BY <2>1, <2>2, <2>3, TwoClauses, Zenon
<1>9. CASE op = "update"
  <2>1. PICK c : c = M!Clauses(op, columns, cond)  OBVIOUS
  <2>2. M!Clause("update", ",", columns, "pair") \in ClauseT /\ M!Clause("where", "and", cond, "pair") \in ClauseT  BY <1>0, <1>5, <1>6, Zenon
  <2>3. c = << M!Clause("update", ",", columns, "pair"), M!Clause("where", "and", cond, "pair") >>
    BY <1>9, <2>1, Zenon DEF M!Clauses
  <2> QED  BY <2>1, <2>2, <2>3, TwoClauses, Zenon
<1>10. CASE op = "updateText"
  <2>1. PICK c : c = M!Clauses(op, columns, cond)  OBVIOUS
  <2>2. M!Clause("update", ",", columns, "pair") \in ClauseT /\ M!Clause("condition", ",", <<>>, "pair") \in ClauseT  BY <1>0, <1>5, <1>6, Zenon
  <2>3. c = << M!Clause("update", ",", columns, "pair"), M!Clause("condition", ",", <<>>, "pair") >>
    BY <1>10, <2>1, Zenon DEF M!Clauses
  <2> QED  BY <2>1, <2>2, <2>3, TwoClauses, Zenon
<1>11. CASE op = "insert"
  <2>1. PICK c : c = M!Clauses(op, columns, cond)  OBVIOUS
  <2>2. M!Clause("insert", ",", columns, "key") \in ClauseT /\ M!Clause("values", ",", columns, "value") \in ClauseT  BY <1>0, <1>5, <1>6, Zenon
  <2>3. c = << M!Clause("insert", ",", columns, "key"), M!Clause("values", ",", columns, "value") >>
    BY <1>11, <2>1, Zenon DEF M!Clauses
  <2> QED  BY <2>1, <2>2, <2>3, TwoClauses, Zenon
<1>12. CASE op = "replace"
  <2>1. PICK c : c = M!Clauses(op, columns, cond)  OBVIOUS
  <2>2. M!Clause("replace", ",", columns, "key") \in ClauseT /\ M!Clause("values", ",", columns, "value") \in ClauseT  BY <1>0, <1>5, <1>6, Zenon
  <2>3. c = << M!Clause("replace", ",", columns, "key"), M!Clause("values", ",", columns, "value") >>
    BY <1>12, <2>1, Zenon DEF M!Clauses
  <2> QED  BY <2>1, <2>2, <2>3, TwoClauses, Zenon
<1>13. CASE op = "deleteFrom"
  <2>1. PICK c : c = M!Clauses(op, columns, cond)  OBVIOUS
  <2>2. M!Clause("delete where", "and", cond, "pair") \in ClauseT  BY <1>0, <1>5, <1>6, Zenon
  <2>3. c = << M!Clause("delete where", "and", cond, "pair") >>
    BY <1>13, <2>1, Zenon DEF M!Clauses
  <2> QED  BY <2>1, <2>2, <2>3, OneClause, Zenon
<1>14. CASE op = "deleteText"
  <2>1. PICK c : c = M!Clauses(op, columns, cond)  OBVIOUS
  <2>2. M!Clause("delete condition", ",", <<>>, "pair") \in ClauseT  BY <1>0, <1>5, <1>6, Zenon
  <2>3. c = << M!Clause("delete condition", ",", <<>>, "pair") >>
    BY <1>14, <2>1, Zenon DEF M!Clauses
  <2> QED  BY <2>1, <2>2, <2>3, OneClause, Zenon
<1> QED  BY <1>7, <1>8, <1>9, <1>10, <1>11, <1>12, <1>13, <1>14 DEF M!Ops

(* A constant text is a piece of a statement.                                *)
LEMMA TextType == \A s \in Words : M!Text(s) \in Seq(Piece)
BY DEF M!Text, Piece

(* So is a pair with its separator, in each of the forms.                    *)
LEMMA EachType ==
    ASSUME NEW cl \in ClauseT, NEW i \in 1 .. Len(cl.pairs)
    PROVE  M!Each(cl, i) \in Seq(Piece) /\ M!Written(cl.pairs[i], cl.form) \in Seq(Piece)
<1>1. cl.pairs[i] \in M!Pair /\ cl.sep \in Words  BY DEF ClauseT
<1>2. PICK p \in M!Pair : p = cl.pairs[i]  BY <1>1
<1>3. p.key \in Words /\ p.value \in Words  BY Zenon DEF M!Pair, Words
<1>4. M!Value(p) \in Seq(Piece)  BY <1>3 DEF M!Value, Piece
<1>5. << <<"key", p.key>> >> \in Seq(Piece)  BY <1>3 DEF Piece
<1>6. <<>> \in Seq(Piece)  OBVIOUS
<1>7. \A a, b \in Seq(Piece) : a \o b \in Seq(Piece)  OBVIOUS
<1>8. M!Written(p, cl.form) \in Seq(Piece)  BY <1>4, <1>5, <1>6, <1>7 DEF M!Written
<1>9. M!Text(cl.sep) \in Seq(Piece)  BY <1>1, TextType
<1> QED  BY <1>2, <1>6, <1>7, <1>8, <1>9 DEF M!Each

(* The pairs of a clause, one by one.                                        *)
LEMMA PairsSeq ==
    ASSUME NEW cl \in ClauseT, NEW k \in 0 .. Len(cl.pairs)
    PROVE  /\ [i \in 1 .. k |-> M!Each(cl, i)] \in Seq(Seq(Piece))
           /\ Len([i \in 1 .. k |-> M!Each(cl, i)]) = k
<1>1. \A i \in 1 .. k : i \in 1 .. Len(cl.pairs)  BY DEF ClauseT
<1>2. \A i \in 1 .. k : M!Each(cl, i) \in Seq(Piece)  BY <1>1, EachType
<1>3. k \in Nat  BY DEF ClauseT
<1> HIDE DEF M!Each
<1> QED  BY <1>2, <1>3

(* The text of a clause is its head and that of its pairs.                   *)
LEMMA ClauseTextIs ==
    ASSUME NEW cl, NEW k
    PROVE  M!ClauseText(cl, k) = M!Text(cl.head) \o PairsText(cl, k)
BY SameFlatten, Zenon DEF M!ClauseText, PairsText

(* The type of the text of a clause.                                         *)
LEMMA PairsType ==
    ASSUME NEW cl \in ClauseT, NEW k \in 0 .. Len(cl.pairs)
    PROVE  PairsText(cl, k) \in Seq(Piece) /\ M!ClauseText(cl, k) \in Seq(Piece)
<1>1. PairsText(cl, k) \in Seq(Piece)  BY PairsSeq, FlattenType, Zenon DEF PairsText
<1>2. M!Text(cl.head) \in Seq(Piece)  BY TextType DEF ClauseT
<1>3. M!ClauseText(cl, k) = M!Text(cl.head) \o PairsText(cl, k)  BY ClauseTextIs, Zenon
<1> QED  BY <1>1, <1>2, <1>3, ConcatProperties

(* Of a clause without pairs there is the head.                              *)
LEMMA NoPairs == ASSUME NEW cl \in ClauseT PROVE M!ClauseText(cl, 0) = M!Text(cl.head)
<1>1. [i \in 1 .. 0 |-> M!Each(cl, i)] = <<>>  OBVIOUS
<1>2. M!Text(cl.head) \in Seq(Piece)  BY TextType DEF ClauseT
<1>3. PairsText(cl, 0) = <<>>  BY <1>1, FlattenEmpty DEF PairsText
<1>4. M!ClauseText(cl, 0) = M!Text(cl.head) \o <<>>  BY <1>3, ClauseTextIs, Zenon
<1> QED  BY <1>2, <1>4, ConcatEmptySeq, Zenon

(* One pair more adds its text at the end.                                   *)
LEMMA MorePairs ==
    ASSUME NEW cl \in ClauseT, NEW k \in 0 .. Len(cl.pairs), k < Len(cl.pairs)
    PROVE  M!ClauseText(cl, k + 1) = M!ClauseText(cl, k) \o M!Each(cl, k + 1)
<1> DEFINE ss == [i \in 1 .. k |-> M!Each(cl, i)]
           tt == [i \in 1 .. k + 1 |-> M!Each(cl, i)]
<1>1. k \in Nat /\ k + 1 \in 0 .. Len(cl.pairs) /\ k + 1 \in 1 .. Len(cl.pairs)  BY DEF ClauseT
<1>2. M!Each(cl, k + 1) \in Seq(Piece)  BY <1>1, EachType
<1>3. ss \in Seq(Seq(Piece)) /\ Len(ss) = k /\ tt \in Seq(Seq(Piece)) /\ Len(tt) = k + 1
  BY <1>1, PairsSeq
<1>4. tt = Append(ss, M!Each(cl, k + 1))
  <2> HIDE DEF M!Each
  <2>1. Append(ss, M!Each(cl, k + 1)) \in Seq(Seq(Piece))  BY <1>2, <1>3
  <2>2. Len(Append(ss, M!Each(cl, k + 1))) = k + 1  BY <1>2, <1>3
  <2>3. \A i \in 1 .. k + 1 : tt[i] = Append(ss, M!Each(cl, k + 1))[i]  BY <1>1, <1>3
  <2> HIDE DEF tt
  <2> QED  BY <1>3, <2>1, <2>2, <2>3, SeqEqual
<1> HIDE DEF ss, tt
<1>5. Flatten(tt) = Flatten(ss) \o M!Each(cl, k + 1)  BY <1>2, <1>3, <1>4, FlattenAppend
<1>6. M!Text(cl.head) \in Seq(Piece)  BY TextType DEF ClauseT
<1>7. Flatten(ss) \in Seq(Piece)  BY <1>3, FlattenType
<1>8. Assoc(M!Text(cl.head), Flatten(ss), M!Each(cl, k + 1))  BY <1>2, <1>6, <1>7, Associates
<1>9. PairsText(cl, k) = Flatten(ss) /\ PairsText(cl, k + 1) = Flatten(tt)
  BY Zenon DEF PairsText, ss, tt
<1> QED  BY <1>5, <1>8, <1>9, ClauseTextIs, Zenon DEF Assoc

(* The texts of the first k clauses.                                         *)
Texts(cls, k) == [c \in 1 .. k |-> M!ClauseText(cls[c], Len(cls[c].pairs))]

(* The clauses of a list are clauses.                                        *)
LEMMA ClauseIn ==
    ASSUME NEW cls \in Seq(ClauseT), NEW c \in DOMAIN cls
    PROVE  cls[c] \in ClauseT /\ Len(cls[c].pairs) \in Nat
<1>1. cls[c] \in ClauseT  OBVIOUS
<1>2. cls[c].pairs \in Seq(M!Pair)  BY <1>1 DEF ClauseT
<1> QED  BY <1>1, <1>2

(* The texts of the first k clauses are as many texts.                       *)
LEMMA TextsType ==
    ASSUME NEW cls \in Seq(ClauseT), NEW k \in 0 .. Len(cls)
    PROVE  Texts(cls, k) \in Seq(Seq(Piece)) /\ Len(Texts(cls, k)) = k
<1>1. k \in Nat /\ \A c \in 1 .. k : c \in DOMAIN cls  OBVIOUS
<1>2. \A c \in 1 .. k : M!ClauseText(cls[c], Len(cls[c].pairs)) \in Seq(Piece)
  <2> TAKE c \in 1 .. k
  <2>1. PICK cl \in ClauseT : cl = cls[c]  BY <1>1, ClauseIn
  <2>2. Len(cl.pairs) \in 0 .. Len(cl.pairs)  BY <1>1, <2>1, ClauseIn
  <2> QED  BY <2>1, <2>2, PairsType
<1> HIDE DEF M!ClauseText
<1> QED  BY <1>1, <1>2 DEF Texts

(* The next clause adds its text.                                            *)
LEMMA TextsNext ==
    ASSUME NEW cls \in Seq(ClauseT), NEW k \in Nat, k + 1 \in DOMAIN cls
    PROVE  /\ Flatten(Texts(cls, k)) \in Seq(Piece)
           /\ Flatten(Texts(cls, k + 1))
                = Flatten(Texts(cls, k)) \o M!ClauseText(cls[k + 1], Len(cls[k + 1].pairs))
<1> DEFINE ss == Texts(cls, k)
           tt == Texts(cls, k + 1)
           e == M!ClauseText(cls[k + 1], Len(cls[k + 1].pairs))
<1>1. k \in 0 .. Len(cls) /\ k + 1 \in 0 .. Len(cls)  OBVIOUS
<1>2. ss \in Seq(Seq(Piece)) /\ Len(ss) = k /\ tt \in Seq(Seq(Piece)) /\ Len(tt) = k + 1
  BY <1>1, TextsType
<1>3. tt[k + 1] = e /\ \A i \in 1 .. k : tt[i] = ss[i]  BY DEF Texts
<1>4. e \in Seq(Piece)  BY <1>2, <1>3
<1> HIDE DEF ss, tt, e
<1>5. tt = Append(ss, e)
  <2>1. Append(ss, e) \in Seq(Seq(Piece)) /\ Len(Append(ss, e)) = k + 1  BY <1>2, <1>4
  <2>2. \A i \in 1 .. k + 1 : tt[i] = Append(ss, e)[i]  BY <1>2, <1>3
  <2> QED  BY <1>2, <2>1, <2>2, SeqEqual
<1>6. Flatten(tt) = Flatten(ss) \o e  BY <1>2, <1>4, <1>5, FlattenAppend
<1>7. Flatten(ss) \in Seq(Piece)  BY <1>2, FlattenType
<1> QED  BY <1>6, <1>7 DEF ss, tt, e

(* What is written when a call begins: the head of its first clause.         *)
LEMMA UptoStart ==
    ASSUME NEW cls \in Seq(ClauseT), 1 \in DOMAIN cls
    PROVE  Upto(cls, 1, 0) = M!Text(cls[1].head)
<1>1. Texts(cls, 0) = <<>>  BY DEF Texts
<1>2. PICK cl \in ClauseT : cl = cls[1]  BY ClauseIn
<1>3. M!Text(cl.head) \in Seq(Piece)  BY TextType DEF ClauseT
<1>4. Upto(cls, 1, 0) = Flatten(Texts(cls, 0)) \o M!ClauseText(cl, 0)  BY <1>2 DEF Upto, Texts
<1>5. <<>> \o M!Text(cl.head) = M!Text(cl.head)  BY <1>3, ConcatEmptySeq
<1> QED  BY <1>1, <1>2, <1>4, <1>5, FlattenEmpty, NoPairs, Zenon

(* The next pair of a clause, the head of the next clause, and the end.      *)
LEMMA UptoPair ==
    ASSUME NEW cls \in Seq(ClauseT), NEW at \in DOMAIN cls, NEW k \in Nat,
           k < Len(cls[at].pairs)
    PROVE  Upto(cls, at, k + 1) = Upto(cls, at, k) \o M!Each(cls[at], k + 1)
<1>1. PICK cl \in ClauseT : cl = cls[at]  BY ClauseIn
<1>2. k \in 0 .. Len(cl.pairs) /\ k + 1 \in 1 .. Len(cl.pairs)  BY <1>1, ClauseIn
<1>3. M!ClauseText(cl, k + 1) = M!ClauseText(cl, k) \o M!Each(cl, k + 1)  BY <1>1, <1>2, MorePairs, Zenon
<1>4. M!ClauseText(cl, k) \in Seq(Piece) /\ M!Each(cl, k + 1) \in Seq(Piece)
  BY <1>2, PairsType, EachType
<1> DEFINE f == Flatten(Texts(cls, at - 1))
<1>5. f \in Seq(Piece)
  <2>1. at - 1 \in 0 .. Len(cls)  OBVIOUS
  <2> QED  BY <2>1, TextsType, FlattenType
<1> HIDE DEF f
<1>6. Assoc(f, M!ClauseText(cl, k), M!Each(cl, k + 1))  BY <1>4, <1>5, Associates
<1>7. Upto(cls, at, k) = f \o M!ClauseText(cl, k) /\ Upto(cls, at, k + 1) = f \o M!ClauseText(cl, k + 1)
  BY <1>1, Zenon DEF Upto, Texts, f
<1> QED  BY <1>1, <1>3, <1>6, <1>7, Zenon DEF Assoc

(* A next clause begins with its head.                                       *)
LEMMA UptoClause ==
    ASSUME NEW cls \in Seq(ClauseT), NEW at \in DOMAIN cls, at + 1 \in DOMAIN cls
    PROVE  Upto(cls, at + 1, 0) = Upto(cls, at, Len(cls[at].pairs)) \o M!Text(cls[at + 1].head)
<1>1. PICK k \in Nat : k = at - 1  OBVIOUS
<1>2. k + 1 = at /\ at \in Nat /\ (at + 1) - 1 = at  BY <1>1
<1>3. Flatten(Texts(cls, at)) = Flatten(Texts(cls, k)) \o M!ClauseText(cls[at], Len(cls[at].pairs))
  BY <1>2, TextsNext, Zenon
<1>4. Upto(cls, at, Len(cls[at].pairs)) = Flatten(Texts(cls, at))
  BY <1>1, <1>3, Zenon DEF Upto, Texts
<1>5. PICK cl \in ClauseT : cl = cls[at + 1]  BY ClauseIn
<1>6. Upto(cls, at + 1, 0) = Flatten(Texts(cls, at)) \o M!ClauseText(cl, 0)
  BY <1>2, <1>5, Zenon DEF Upto, Texts
<1> QED  BY <1>4, <1>5, <1>6, NoPairs, Zenon

(* At the end of the last clause all that was meant is written.              *)
LEMMA UptoEnd ==
    ASSUME NEW cls \in Seq(ClauseT), Len(cls) \in DOMAIN cls
    PROVE  Upto(cls, Len(cls), Len(cls[Len(cls)].pairs)) = M!Meant(cls)
<1>1. PICK k \in Nat : k = Len(cls) - 1  OBVIOUS
<1>2. k + 1 = Len(cls) /\ DOMAIN cls = 1 .. k + 1  BY <1>1
<1>3. Flatten(Texts(cls, k + 1))
        = Flatten(Texts(cls, k)) \o M!ClauseText(cls[k + 1], Len(cls[k + 1].pairs))
  BY <1>2, TextsNext
<1>4. M!Meant(cls) = Flatten(Texts(cls, k + 1))  BY <1>2, SameFlatten, Zenon DEF M!Meant, Texts
<1> QED  BY <1>1, <1>2, <1>3, <1>4, Zenon DEF Upto, Texts

-----------------------------------------------------------------------------
(* The connection.                                                           *)
LEMMA DisconnectFacts ==
    ASSUME M!Assumption, M!TypeOK, ConnInv
    PROVE  /\ M!Disconnect.lib = [h \in Handles |-> M!NoLib]
           /\ M!Disconnect.mysql = M!NoHandle /\ M!Disconnect.bConnected = FALSE
<1>1. CASE mysql = M!NoHandle
  <2>1. \A h \in Handles : lib[h] = M!NoLib  BY <1>1 DEF ConnInv, M!NoHandleLost, M!Assumption, M!NoHandle
  <2>2. bConnected = FALSE  BY <1>1 DEF ConnInv, M!TypeOK
  <2> QED  BY <1>1, <2>1, <2>2 DEF M!Disconnect, ConnInv
<1>2. CASE mysql # M!NoHandle
  <2>1. \A h \in Handles : h # mysql => lib[h] = M!NoLib  BY DEF ConnInv, M!NoHandleLost
  <2> QED  BY <1>2, <2>1, Zenon DEF M!Disconnect, ConnInv
<1> QED  BY <1>1, <1>2, Zenon

(* connect(), as far as it comes, leaves no handle behind but m_mysql.       *)
LEMMA ConnectConn ==
    ASSUME M!Assumption, M!TypeOK, ConnInv, NEW state \in M!Progress, M!Connect(state), config' = config
    PROVE  /\ ConnInv' /\ mysql' \in Handles \cup {M!NoHandle} /\ bConnected' \in BOOLEAN
           /\ bConnected' = (state = "ready")
<1>1. PICK h \in Handles :
        /\ mysql' = IF state = "free" THEN M!NoHandle ELSE h
        /\ lib' = IF state = "free" THEN M!Disconnect.lib
                  ELSE [M!Disconnect.lib EXCEPT ![h] = [state |-> state, config |-> config]]
        /\ bConnected' = (state = "ready" \/ M!Disconnect.bConnected)
  BY Zenon DEF M!Connect
<1>2. h # M!NoHandle  BY DEF M!Assumption
<1>3. config \in Configs  BY DEF M!TypeOK
<1>4. /\ mysql' = IF state = "free" THEN M!NoHandle ELSE h
      /\ lib' = IF state = "free" THEN [g \in Handles |-> M!NoLib]
                ELSE [[g \in Handles |-> M!NoLib] EXCEPT ![h] = [state |-> state, config |-> config]]
      /\ bConnected' = (state = "ready")
  BY <1>1, DisconnectFacts, Zenon
<1> QED  BY <1>2, <1>3, <1>4, Zenon DEF ConnInv, M!NoHandleLost, LibT, M!NoLib, M!Progress

(* A connection that is used is a whole one.                                 *)
LEMMA ConnectedConn ==
    ASSUME M!Assumption, M!TypeOK, ConnInv, M!Connected \/ M!MakeConnection, config' = config
    PROVE  /\ ConnInv' /\ mysql' \in Handles \cup {M!NoHandle} /\ bConnected' = TRUE
<1>1. CASE M!Connected  BY <1>1 DEF M!Connected, M!TypeOK, ConnInv, M!NoHandleLost
<1>2. CASE M!MakeConnection
  <2>1. "ready" \in M!Progress  BY DEF M!Progress
  <2> QED  BY <1>2, <2>1, ConnectConn DEF M!MakeConnection
<1> QED  BY <1>1, <1>2, Zenon

(* A connection that failed is closed and its handle is free.                *)
LEMMA FailsConn ==
    ASSUME M!Assumption, M!TypeOK, ConnInv, M!ConnectionFails, config' = config
    PROVE  ConnInv' /\ mysql' \in Handles \cup {M!NoHandle} /\ bConnected' \in BOOLEAN /\ call' = M!NoCall
BY ConnectConn DEF M!ConnectionFails

-----------------------------------------------------------------------------
(* Each step preserves the invariant.                                        *)
LEMMA CallFacts ==
    ASSUME M!TypeOK, CallInv, call.op # "none"
    PROVE  /\ call.clauses \in Seq(ClauseT) /\ call.at \in DOMAIN call.clauses
           /\ M!Here \in ClauseT /\ M!Here = call.clauses[call.at]
           /\ call.done \in 0 .. Len(M!Here.pairs) /\ call.done \in Nat
           /\ oss = Upto(call.clauses, call.at, call.done)
<1>1. call.clauses \in Seq(ClauseT) /\ call.at \in DOMAIN call.clauses /\ call.done \in Nat
  BY DEF M!TypeOK, CallInv
<1> QED  BY <1>1, ClauseIn DEF M!TypeOK, CallInv, M!Here

(* A call begins with the text of its first clause.                          *)
LEMMA BeginSql ==
    ASSUME M!Assumption, SqlInv, NEW op \in M!Ops, NEW columns \in Joins, NEW cond \in Joins,
           M!Begin(op, columns, cond)
    PROVE  SqlInv'
<1> DEFINE cls == M!Clauses(op, columns, cond)
<1>1. cls \in Seq(ClauseT) /\ 1 \in DOMAIN cls  BY ClausesType
<1>2. call' = [op |-> op, clauses |-> cls, at |-> 1, done |-> 0] /\ oss' = M!Text(cls[1].head)
      /\ UNCHANGED <<mysql, bConnected, config, lib, sent>>
  BY DEF M!Begin
<1> HIDE DEF cls
<1>3. oss' = Upto(cls, 1, 0)  BY <1>1, <1>2, UptoStart
<1>4. CallInv'  BY <1>1, <1>2, <1>3 DEF CallInv
<1>5. M!TypeOK'
  <2>1. Len(cls[1].pairs) \in Nat  BY <1>1, ClauseIn
  <2> QED  BY <1>1, <1>2, <2>1 DEF SqlInv, M!TypeOK
<1> QED  BY <1>2, <1>4, <1>5 DEF SqlInv, ConnInv, M!NoHandleLost, M!SentAsMeant, M!SentWhereMeant

(* A pair that is added is the next one of the clause.                       *)
LEMMA AddPairSql == ASSUME M!Assumption, SqlInv, M!AddPair  PROVE SqlInv'
<1> USE DEF SqlInv
<1>1. call.op # "none" /\ call.done < Len(M!Here.pairs)  BY DEF M!AddPair, M!AtPair
<1>2. /\ oss' = (oss \o M!Sep) \o M!Written(M!ThisPair, M!Here.form)
      /\ call' = [call EXCEPT !.done = @ + 1] /\ UNCHANGED <<config, sent>>
  BY DEF M!AddPair
<1>3. ConnInv' /\ mysql' \in Handles \cup {M!NoHandle} /\ bConnected' \in BOOLEAN
  <2>1. CASE UNCHANGED <<mysql, bConnected, lib>>
    BY <1>2, <2>1 DEF ConnInv, M!NoHandleLost, M!TypeOK
  <2>2. CASE M!Connected \/ M!MakeConnection  BY <1>2, <2>2, ConnectedConn, Zenon
  <2> QED  BY <2>1, <2>2 DEF M!AddPair
<1>4. PICK cls \in Seq(ClauseT), at \in DOMAIN call.clauses, k \in Nat :
         cls = call.clauses /\ at = call.at /\ k = call.done
  BY <1>1, CallFacts
<1>5. at \in DOMAIN cls /\ k < Len(cls[at].pairs) /\ M!Here = cls[at] /\ oss = Upto(cls, at, k)
  BY <1>1, <1>4, CallFacts DEF M!Here
<1>6. oss' = Upto(cls, at, k + 1)
  <2>1. PICK cl \in ClauseT : cl = cls[at]  BY <1>5, ClauseIn
  <2>2. k + 1 \in 1 .. Len(cl.pairs) /\ (k + 1 > 1 <=> k # 0)  BY <1>5, <2>1, ClauseIn
  <2>3. M!Each(cl, k + 1) = M!Sep \o M!Written(M!ThisPair, M!Here.form)
    BY <1>4, <1>5, <2>1, <2>2, Zenon DEF M!Each, M!Sep, M!ThisPair
  <2>4. M!Written(M!ThisPair, M!Here.form) \in Seq(Piece)
    BY <1>4, <1>5, <2>1, <2>2, EachType, Zenon DEF M!ThisPair
  <2>5. M!Sep \in Seq(Piece)
    <3>1. <<>> \in Seq(Piece)  OBVIOUS
    <3>2. M!Text(cl.sep) \in Seq(Piece)  BY TextType DEF ClauseT
    <3> QED  BY <1>5, <2>1, <3>1, <3>2 DEF M!Sep
  <2>6. oss \in Seq(Piece)
    <3>1. at - 1 \in 0 .. Len(cls) /\ k \in 0 .. Len(cl.pairs)  BY <1>5, <2>1, <2>2
    <3>2. Flatten(Texts(cls, at - 1)) \in Seq(Piece)  BY <3>1, TextsType, FlattenType
    <3>3. M!ClauseText(cl, k) \in Seq(Piece)  BY <3>1, PairsType
    <3>4. oss = Flatten(Texts(cls, at - 1)) \o M!ClauseText(cl, k)
      BY <1>5, <2>1, Zenon DEF Upto, Texts
    <3> QED  BY <3>2, <3>3, <3>4, ConcatProperties
  <2>7. Assoc(oss, M!Sep, M!Written(M!ThisPair, M!Here.form))  BY <2>4, <2>5, <2>6, Associates
  <2>8. oss' = oss \o M!Each(cls[at], k + 1)  BY <1>2, <2>1, <2>3, <2>7, Zenon DEF Assoc
  <2> QED  BY <1>5, <2>8, UptoPair
<1>7. call' = [op |-> call.op, clauses |-> cls, at |-> at, done |-> k + 1]
  BY <1>2, <1>4, Zenon DEF CallInv
<1>8. CallInv'  BY <1>6, <1>7 DEF CallInv
<1>9. M!TypeOK'
  <2>1. Len(cls[at].pairs) \in Nat  BY <1>5, ClauseIn
  <2>2. /\ call'.op \in M!Ops \cup {"none"} /\ call'.clauses = cls /\ call'.at = at /\ call'.done = k + 1
    BY <1>7 DEF CallInv
  <2>3. at \in DOMAIN cls /\ k + 1 \in 0 .. Len(cls[at].pairs)  BY <1>5, <2>1
  <2>4. config' \in Configs  BY <1>2 DEF M!TypeOK
  <2>5. \A h \in Handles : lib'[h] \in LibT  BY <1>3 DEF ConnInv
  <2> QED  BY <1>3, <2>2, <2>3, <2>4, <2>5 DEF M!TypeOK, LibT
<1> QED  BY <1>2, <1>3, <1>8, <1>9 DEF M!SentAsMeant, M!SentWhereMeant

(* A call that ends, and what it has sent, if anything.                      *)
LEMMA EndSql ==
    ASSUME M!Assumption, SqlInv, ConnInv', call' = M!NoCall, config' \in Configs,
           mysql' \in Handles \cup {M!NoHandle}, bConnected' \in BOOLEAN,
           M!SentAsMeant', M!SentWhereMeant'
    PROVE  SqlInv'
<1>1. CallInv'
  <2>1. <<>> \in Seq(ClauseT)  OBVIOUS
  <2> QED  BY <2>1 DEF CallInv, M!NoCall
<1> QED  BY <1>1 DEF SqlInv, M!TypeOK, M!NoCall, ConnInv, LibT

(* escapeString() throws where there is no connection.                       *)
LEMMA EscapeThrowsSql == ASSUME M!Assumption, SqlInv, M!EscapeThrows  PROVE SqlInv'
<1>1. UNCHANGED <<config, sent>> /\ M!ConnectionFails  BY DEF M!EscapeThrows
<1> QED  BY <1>1, FailsConn, EndSql DEF SqlInv, M!TypeOK, M!SentAsMeant, M!SentWhereMeant

(* execute() throws where connecting fails.                                  *)
LEMMA ExecuteThrowsSql == ASSUME M!Assumption, SqlInv, M!ExecuteThrows  PROVE SqlInv'
<1>1. UNCHANGED <<config, sent>> /\ M!ConnectionFails  BY DEF M!ExecuteThrows
<1> QED  BY <1>1, FailsConn, EndSql DEF SqlInv, M!TypeOK, M!SentAsMeant, M!SentWhereMeant

(* execute() sends what was meant, through the connection it has made.       *)
LEMMA ExecuteSql == ASSUME M!Assumption, SqlInv, M!Execute  PROVE SqlInv'
<1> USE DEF SqlInv
<1>1. /\ M!AtEnd /\ (M!Connected \/ M!MakeConnection) /\ call' = M!NoCall /\ UNCHANGED <<config, oss>>
      /\ sent' = [text |-> oss, meant |-> M!Meant(call.clauses),
                  via |-> IF mysql' = M!NoHandle THEN M!NoLib ELSE lib'[mysql'], config |-> config]
  BY DEF M!Execute
<1>2. ConnInv' /\ mysql' \in Handles \cup {M!NoHandle} /\ bConnected' = TRUE  BY <1>1, ConnectedConn, Zenon
<1>3. mysql' # M!NoHandle /\ lib'[mysql'] = [state |-> "ready", config |-> config]
  BY <1>1, <1>2 DEF ConnInv
<1>4. oss = M!Meant(call.clauses)
  <2>1. call.op # "none" /\ call.at = Len(call.clauses) /\ call.done = Len(M!Here.pairs)
    BY <1>1 DEF M!AtEnd
  <2>2. PICK cls \in Seq(ClauseT) : cls = call.clauses  BY DEF CallInv
  <2>3. Len(cls) \in DOMAIN cls /\ oss = Upto(cls, Len(cls), Len(cls[Len(cls)].pairs))
    BY <2>1, <2>2, CallFacts DEF M!Here
  <2> QED  BY <2>2, <2>3, UptoEnd
<1>5. M!SentAsMeant' /\ M!SentWhereMeant'  BY <1>1, <1>3, <1>4 DEF M!SentAsMeant, M!SentWhereMeant
<1> QED  BY <1>1, <1>2, <1>5, EndSql DEF M!TypeOK

(* The next clause of a call.                                                *)
LEMMA NextClauseSql == ASSUME M!Assumption, SqlInv, M!NextClause  PROVE SqlInv'
<1> USE DEF SqlInv
<1>1. /\ call.op # "none" /\ call.at < Len(call.clauses) /\ call.done = Len(M!Here.pairs)
      /\ call' = [call EXCEPT !.at = @ + 1, !.done = 0]
      /\ oss' = oss \o M!Text(call.clauses[call.at + 1].head)
      /\ UNCHANGED <<mysql, bConnected, config, lib, sent>>
  BY DEF M!NextClause
<1>2. PICK cls \in Seq(ClauseT), at \in DOMAIN call.clauses : cls = call.clauses /\ at = call.at
  BY <1>1, CallFacts
<1>3. at + 1 \in DOMAIN cls /\ oss = Upto(cls, at, Len(cls[at].pairs))
  <2>1. at + 1 \in DOMAIN cls  BY <1>1, <1>2
  <2>2. oss = Upto(call.clauses, call.at, call.done) /\ call.done = Len(M!Here.pairs)
    BY <1>1, CallFacts
  <2> QED  BY <1>2, <2>1, <2>2, Zenon DEF M!Here
<1>4. oss' = Upto(cls, at + 1, 0)  BY <1>1, <1>2, <1>3, UptoClause, Zenon
<1>5. call' = [op |-> call.op, clauses |-> cls, at |-> at + 1, done |-> 0]
  BY <1>1, <1>2, Zenon DEF CallInv
<1>6. CallInv'  BY <1>3, <1>4, <1>5 DEF CallInv
<1>7. M!TypeOK'
  <2>1. Len(cls[at + 1].pairs) \in Nat  BY <1>3, ClauseIn
  <2> QED  BY <1>1, <1>3, <1>5, <2>1 DEF M!TypeOK
<1> QED  BY <1>1, <1>6, <1>7 DEF ConnInv, M!NoHandleLost, M!SentAsMeant, M!SentWhereMeant

(* setDBConfig() closes the connection to the old configuration.             *)
LEMMA SetConfigSql == ASSUME M!Assumption, SqlInv, NEW c \in Configs, M!SetConfig(c)  PROVE SqlInv'
<1> USE DEF SqlInv
<1>1. /\ call = M!NoCall /\ config' = c /\ UNCHANGED <<oss, call, sent>>
      /\ lib' = [h \in Handles |-> M!NoLib] /\ mysql' = M!NoHandle /\ bConnected' = FALSE
  BY DisconnectFacts, Zenon DEF M!SetConfig
<1>2. ConnInv'  BY <1>1 DEF ConnInv, M!NoHandleLost, LibT, M!NoLib
<1> QED  BY <1>1, <1>2, EndSql, Zenon DEF M!SentAsMeant, M!SentWhereMeant

(* The destructor closes the connection.                                     *)
LEMMA DestroySql == ASSUME M!Assumption, SqlInv, M!Destroy  PROVE SqlInv'
<1> USE DEF SqlInv
<1>1. /\ call = M!NoCall /\ UNCHANGED <<config, call, sent>>
      /\ lib' = [h \in Handles |-> M!NoLib] /\ mysql' = M!NoHandle /\ bConnected' = FALSE
  BY DisconnectFacts DEF M!Destroy
<1>2. ConnInv'  BY <1>1 DEF ConnInv, M!NoHandleLost, LibT, M!NoLib
<1> QED  BY <1>1, <1>2, EndSql, Zenon DEF M!TypeOK, M!SentAsMeant, M!SentWhereMeant

(* The steps of the other parts leave this one alone.                        *)
LEMMA SqlStep == ASSUME M!Assumption, SqlInv, [M!Next]_(M!vars)  PROVE SqlInv'
<1>1. CASE UNCHANGED M!vars
  BY <1>1 DEF M!vars, SqlInv, M!TypeOK, CallInv, ConnInv, M!NoHandleLost, M!SentAsMeant, M!SentWhereMeant
<1> QED  BY <1>1, BeginSql, AddPairSql, EscapeThrowsSql, NextClauseSql, ExecuteSql, ExecuteThrowsSql,
            SetConfigSql, DestroySql DEF M!Next

(* A new MySqlConn has the invariant.                                        *)
LEMMA SqlInit == ASSUME M!Assumption, M!Init  PROVE SqlInv
<1>1. lib = [h \in Handles |-> M!NoLib] /\ call = M!NoCall  BY DEF M!Init
<1>2. CallInv
  <2>1. <<>> \in Seq(ClauseT)  OBVIOUS
  <2> QED  BY <1>1, <2>1 DEF CallInv, M!NoCall
<1>3. ConnInv  BY <1>1 DEF M!Init, ConnInv, M!NoHandleLost, LibT, M!NoLib
<1> QED  BY <1>2, <1>3, Zenon DEF M!Init, SqlInv, M!TypeOK, M!NoCall, ConnInv, LibT, M!SentAsMeant, M!SentWhereMeant

-----------------------------------------------------------------------------
(* The packet stream.                                                        *)

(* A byte, and a buffer of bytes.                                            *)
B == Nat \X Nat \X Nat

Buffer(b) ==
    /\ b \in [data : Seq(B), head : Nat, tail : Nat]
    /\ b.head <= b.tail /\ b.tail <= Len(b.data) /\ Len(b.data) # 0

(* The payloads are those that Payload() makes, a closed connection leaves   *)
(* nothing in the buffer, and the bytes that are not delivered are in it or  *)
(* on their way, in their order: with that each step reads and removes what  *)
(* it should.                                                                *)
StreamInv ==
    /\ P!TypeOK /\ Buffer(buf)
    /\ wire \in Seq(B)
    /\ payloads \in Seq(Seq(B)) /\ delivered \in Seq(Seq(B))
    /\ \A p \in DOMAIN payloads : Len(payloads[p]) \in Lens /\ payloads[p] = P!Payload(conns, p, Len(payloads[p]))
    /\ npc = "closed" => buf.tail = 0
    /\ P!NoByteLost /\ P!DeliveredAsSent /\ P!NothingLeft

(* The four bytes of a length, put together again.                           *)
LEMMA LenIsRead ==
    ASSUME NEW n \in Nat, n \div P!Bit24 < 256
    PROVE  ((n \div P!Bit24) % 256) * P!Bit24 + ((n \div P!Bit16) % 256) * P!Bit16
              + ((n \div 256) % 256) * 256 + (n % 256) = n
<1> DEFINE a == n \div 256
           b == n \div P!Bit16
           c == n \div P!Bit24
<1>1. a \in Nat /\ n = a * 256 + (n % 256)  BY DEF P!Bit16, P!Bit24
<1>2. b \in Nat /\ b = a \div 256  BY DEF P!Bit16, P!Bit24
<1>3. c \in Nat /\ c = b \div 256  BY DEF P!Bit16, P!Bit24
<1>4. c % 256 = c  BY <1>3 DEF P!Bit24
<1> HIDE DEF a, b, c
<1>5. a = b * 256 + (a % 256)  BY <1>1, <1>2
<1>6. b = c * 256 + (b % 256)  BY <1>2, <1>3
<1>7. /\ a % 256 \in Int /\ b % 256 \in Int /\ n % 256 \in Int
  BY <1>1, <1>2
<1>8. PICK x, y, z \in Int : x = a % 256 /\ y = b % 256 /\ z = n % 256  BY <1>7
<1>9. c * P!Bit24 + y * P!Bit16 + x * 256 + z = n  BY <1>1, <1>2, <1>3, <1>5, <1>6, <1>8 DEF P!Bit16, P!Bit24
<1> QED  BY <1>4, <1>8, <1>9 DEF a, b, c

(* Four bytes are a sequence of that length.                                 *)
LEMMA FourBytes ==
    ASSUME NEW S, NEW a \in S, NEW b \in S, NEW c \in S, NEW d \in S
    PROVE  <<a, b, c, d>> \in Seq(S) /\ Len(<<a, b, c, d>>) = 4
OBVIOUS

(* A packet is as long as its payload and its header.                        *)
LEMMA EncodeType ==
    ASSUME NEW c \in Nat, NEW p \in Nat, NEW len \in Nat
    PROVE  /\ P!Payload(c, p, len) \in Seq(B) /\ Len(P!Payload(c, p, len)) = len
           /\ P!LenBytes(len + P!Header) \in Seq(B) /\ Len(P!LenBytes(len + P!Header)) = P!Header
           /\ P!Encode(c, p, len) \in Seq(B) /\ Len(P!Encode(c, p, len)) = len + P!Header
<1>1. P!Payload(c, p, len) \in Seq(B) /\ Len(P!Payload(c, p, len)) = len  BY DEF P!Payload, B
<1>2. \A v \in Nat : P!Byte(v) \in B  BY DEF P!Byte, B
<1>3. P!LenBytes(len + P!Header) \in Seq(B) /\ Len(P!LenBytes(len + P!Header)) = P!Header
  <2>1. PICK n \in Nat : n = len + P!Header  BY DEF P!Header
  <2>2. n \div P!Bit24 \in Nat /\ n \div P!Bit16 \in Nat /\ n \div 256 \in Nat  BY DEF P!Bit16, P!Bit24
  <2>3. PICK b1, b2, b3, b4 \in B :
           b1 = P!Byte(n \div P!Bit24) /\ b2 = P!Byte(n \div P!Bit16) /\ b3 = P!Byte(n \div 256) /\ b4 = P!Byte(n)
    BY <1>2, <2>2
  <2>4. P!LenBytes(n) = <<b1, b2, b3, b4>>  BY <2>3 DEF P!LenBytes
  <2> HIDE DEF B
  <2>5. <<b1, b2, b3, b4>> \in Seq(B) /\ Len(<<b1, b2, b3, b4>>) = 4
    BY FourBytes, Zenon
  <2> QED  BY <2>1, <2>4, <2>5, Zenon DEF P!Header
<1> DEFINE x == P!LenBytes(len + P!Header)
           y == P!Payload(c, p, len)
<1> HIDE DEF x, y, B
<1>4. x \in Seq(B) /\ y \in Seq(B) /\ Len(x) = P!Header /\ Len(y) = len  BY <1>1, <1>3 DEF x, y
<1>5. x \o y \in Seq(B) /\ Len(x \o y) = P!Header + len  BY <1>4, ConcatProperties, Zenon
<1>6. P!Encode(c, p, len) = x \o y /\ P!Header + len = len + P!Header  BY DEF P!Encode, P!Header, x, y
<1> QED  BY <1>4, <1>5, <1>6 DEF x, y

-----------------------------------------------------------------------------
(* The IoBuffer.                                                             *)
LEMMA ContentFacts ==
    ASSUME NEW b, Buffer(b)
    PROVE  /\ P!Content(b) \in Seq(B) /\ Len(P!Content(b)) = P!Size(b) /\ P!Size(b) \in Nat
           /\ \A i \in 1 .. P!Size(b) : P!Content(b)[i] = b.data[b.head + i]
<1> HIDE DEF B
<1>1. PICK d \in Seq(B), h, t \in Nat : d = b.data /\ h = b.head /\ t = b.tail /\ h <= t /\ t <= Len(d)
  BY DEF Buffer
<1>2. P!Content(b) = SubSeq(d, h + 1, t) /\ P!Size(b) = t - h  BY <1>1 DEF P!Content, P!Size
<1>3. /\ SubSeq(d, h + 1, t) \in Seq(B) /\ Len(SubSeq(d, h + 1, t)) = t - h /\ t - h \in Nat
      /\ \A i \in 1 .. t - h : SubSeq(d, h + 1, t)[i] = d[h + i]
  <2>1. d \in Seq(B) /\ h \in Nat /\ t \in Nat /\ h <= t /\ t <= Len(d)  BY <1>1
  <2>2. SubSeq(d, h + 1, t) \in Seq(B) /\ IsPart(SubSeq(d, h + 1, t), d, h, t)
    BY <2>1, SubSeqIs, Zenon
  <2> QED  BY <2>2, Zenon DEF IsPart
<1> QED  BY <1>1, <1>2, <1>3, Zenon

(* A buffer has a content if it has its bytes.                               *)
LEMMA ContentIs ==
    ASSUME NEW b, Buffer(b), NEW s \in Seq(B), Len(s) = P!Size(b),
           \A i \in 1 .. Len(s) : b.data[b.head + i] = s[i]
    PROVE  P!Content(b) = s
<1> HIDE DEF B
<1>1. P!Content(b) \in Seq(B) /\ Len(P!Content(b)) = Len(s)  BY ContentFacts
<1>2. \A i \in 1 .. Len(s) : P!Content(b)[i] = s[i]  BY ContentFacts
<1> QED  BY <1>1, <1>2, SeqEqual

(* doubleCapacity() keeps what the buffer holds, where it is.                *)
LEMMA Doubled ==
    ASSUME NEW b, Buffer(b)
    PROVE  LET c == P!doubleCapacity(b)
           IN  /\ Buffer(c) /\ P!Content(c) = P!Content(b)
               /\ c.head = b.head /\ c.tail = b.tail /\ Len(c.data) = 2 * Len(b.data)
<1> DEFINE c == P!doubleCapacity(b)
           j == [i \in 1 .. Len(b.data) |-> P!Junk]
<1>1. b.data \in Seq(B) /\ b.head \in Nat /\ b.tail \in Nat /\ Len(b.data) \in Nat  BY DEF Buffer
<1>2. P!Junk \in B  BY DEF P!Junk, B
<1> HIDE DEF B
<1>3. j \in Seq(B) /\ Len(j) = Len(b.data)  BY <1>1, <1>2
<1> HIDE DEF j
<1>4. c = [data |-> b.data \o j, head |-> b.head, tail |-> b.tail]  BY Zenon DEF P!doubleCapacity, j
<1>5. b.data \o j \in Seq(B) /\ Len(b.data \o j) = 2 * Len(b.data)
      /\ \A i \in 1 .. Len(b.data) : (b.data \o j)[i] = b.data[i]
  <2>1. PICK x \in Seq(B), y \in Seq(B) : x = b.data /\ y = j /\ Len(y) = Len(x) /\ Len(x) \in Nat
    BY <1>1, <1>3
  <2>2. x \o y \in Seq(B) /\ Len(x \o y) = Len(x) + Len(y)  BY <2>1, ConcatProperties, Zenon
  <2>3. \A i \in 1 .. Len(x) : (x \o y)[i] = x[i]
    <3> TAKE i \in 1 .. Len(x)
    <3>1. i \in 1 .. Len(x) + Len(y) /\ i <= Len(x)  BY <2>1
    <3> QED  BY <2>1, <3>1, ConcatProperties
  <2>4. Len(x) + Len(y) = 2 * Len(x)  BY <2>1
  <2> QED  BY <2>1, <2>2, <2>3, <2>4, Zenon
<1>6. Buffer(c) /\ P!Size(c) = P!Size(b)  BY <1>1, <1>4, <1>5 DEF Buffer, P!Size
<1>7. \A i \in 1 .. P!Size(b) : b.head + i \in 1 .. Len(b.data)  BY <1>1 DEF Buffer, P!Size
<1>8. \A i \in 1 .. P!Size(b) : c.data[c.head + i] = P!Content(b)[i]
  BY <1>4, <1>5, <1>7, ContentFacts
<1> HIDE DEF c
<1>9. P!Content(c) = P!Content(b)  BY <1>6, <1>8, ContentFacts, ContentIs
<1> QED  BY <1>4, <1>5, <1>6, <1>9 DEF c

(* What is read from the socket is at the end of the content.                *)
LEMMA Stored ==
    ASSUME NEW b, Buffer(b), NEW s \in Seq(B), Len(s) <= P!Remaining(b)
    PROVE  LET c == P!Store(b, s)
           IN  /\ Buffer(c) /\ P!Content(c) = P!Content(b) \o s
               /\ c.head = b.head /\ c.tail = b.tail + Len(s) /\ Len(c.data) = Len(b.data)
<1> DEFINE d == [i \in 1 .. Len(b.data) |->
                    IF i > b.tail /\ i <= b.tail + Len(s) THEN s[i - b.tail] ELSE b.data[i]]
           c == P!Store(b, s)
<1> HIDE DEF B
<1>1. b.data \in Seq(B) /\ b.head \in Nat /\ b.tail \in Nat /\ Len(b.data) \in Nat /\ Len(s) \in Nat
  BY DEF Buffer
<1>2. \A i \in 1 .. Len(b.data) :
         (IF i > b.tail /\ i <= b.tail + Len(s) THEN s[i - b.tail] ELSE b.data[i]) \in B
  <2> TAKE i \in 1 .. Len(b.data)
  <2>1. CASE i > b.tail /\ i <= b.tail + Len(s)
    <3>1. i - b.tail \in 1 .. Len(s)  BY <1>1, <2>1
    <3> QED  BY <2>1, <3>1
  <2>2. CASE ~(i > b.tail /\ i <= b.tail + Len(s))  BY <1>1, <2>2
  <2> QED  BY <2>1, <2>2
<1>3. d \in Seq(B) /\ Len(d) = Len(b.data)  BY <1>1, <1>2
<1>4. c = [data |-> d, head |-> b.head, tail |-> b.tail + Len(s)]  BY Zenon DEF P!Store
<1>10. \A i \in 1 .. Len(b.data) :
          d[i] = IF i > b.tail /\ i <= b.tail + Len(s) THEN s[i - b.tail] ELSE b.data[i]
  BY Zenon
<1> HIDE DEF d
<1>5. Buffer(c) /\ P!Size(c) = P!Size(b) + Len(s) /\ P!Size(b) = b.tail - b.head
  BY <1>1, <1>3, <1>4 DEF Buffer, P!Size, P!Remaining
<1>6. P!Content(b) \in Seq(B) /\ Len(P!Content(b)) = P!Size(b) /\ P!Size(b) \in Nat  BY ContentFacts
<1>7. P!Content(b) \o s \in Seq(B) /\ Len(P!Content(b) \o s) = P!Size(b) + Len(s)  BY <1>6, ConcatProperties, Zenon
<1>8. ASSUME NEW i \in 1 .. Len(P!Content(b) \o s)  PROVE c.data[c.head + i] = (P!Content(b) \o s)[i]
  <2>1. i \in 1 .. P!Size(b) + Len(s) /\ b.head + i \in 1 .. Len(b.data)
    <3>1. i \in 1 .. P!Size(b) + Len(s)  BY <1>7
    <3>2. b.tail + Len(s) <= Len(b.data) /\ b.head <= b.tail  BY <1>1 DEF Buffer, P!Remaining
    <3> QED  BY <1>1, <1>5, <3>1, <3>2
  <2>2. c.data[c.head + i] = d[b.head + i]  BY <1>4
  <2>3. CASE i <= P!Size(b)
    <3>1. (P!Content(b) \o s)[i] = b.data[b.head + i]
      BY <1>6, <2>1, <2>3, ContentFacts, ConcatProperties
    <3>2. ~(b.head + i > b.tail)  BY <1>1, <1>5, <2>1, <2>3
    <3>3. d[b.head + i] = b.data[b.head + i]  BY <1>10, <2>1, <3>2, Zenon
    <3> QED  BY <2>2, <3>1, <3>3, Zenon
  <2>4. CASE i > P!Size(b)
    <3>1. (P!Content(b) \o s)[i] = s[i - P!Size(b)]  BY <1>6, <2>1, <2>4, ConcatProperties
    <3>2. (b.head + i) - b.tail = i - P!Size(b) /\ b.head + i > b.tail /\ b.head + i <= b.tail + Len(s)
      <4>1. PICK z \in Nat : z = P!Size(b)  BY <1>6
      <4>2. i \in 1 .. z + Len(s) /\ i > z /\ z = b.tail - b.head  BY <1>5, <2>1, <2>4, <4>1
      <4> QED  BY <1>1, <4>1, <4>2
    <3>3. d[b.head + i] = s[(b.head + i) - b.tail]  BY <1>10, <2>1, <3>2, Zenon
    <3> QED  BY <2>2, <3>1, <3>2, <3>3, Zenon
  <2> QED  BY <1>6, <2>1, <2>3, <2>4
<1> HIDE DEF c
<1>9. P!Content(c) = P!Content(b) \o s  BY <1>5, <1>7, <1>8, ContentIs, Zenon
<1> QED  BY <1>3, <1>4, <1>5, <1>9 DEF c

(* Making room keeps the content.                                            *)
LEMMA WrittenN ==
    ASSUME NEW b, Buffer(b)
    PROVE  LET c == P!WriteN(b)
           IN  Buffer(c) /\ P!Content(c) = P!Content(b) /\ P!Size(c) = P!Size(b)
<1> DEFINE d == [i \in 1 .. Len(b.data) |-> IF i <= P!Size(b) THEN b.data[i + b.head] ELSE b.data[i]]
           c == P!WriteN(b)
<1> HIDE DEF B
<1>1. b.data \in Seq(B) /\ b.head \in Nat /\ b.tail \in Nat /\ Len(b.data) \in Nat
      /\ P!Size(b) = b.tail - b.head
  BY DEF Buffer, P!Size
<1>2. CASE b.tail = Len(b.data) /\ b.head # 0
  <2>1. \A i \in 1 .. Len(b.data) : (IF i <= P!Size(b) THEN b.data[i + b.head] ELSE b.data[i]) \in B
    <3> TAKE i \in 1 .. Len(b.data)
    <3>1. i <= P!Size(b) => i + b.head \in 1 .. Len(b.data)  BY <1>1, <1>2
    <3> QED  BY <1>1, <3>1
  <2>2. d \in Seq(B) /\ Len(d) = Len(b.data)  BY <1>1, <2>1
  <2>3. c = [data |-> d, head |-> 0, tail |-> P!Size(b)]  BY <1>2, Zenon DEF P!WriteN
  <2>4. Buffer(c) /\ P!Size(c) = P!Size(b)  BY <1>1, <2>2, <2>3 DEF Buffer, P!Size
  <2>5. \A i \in 1 .. P!Size(b) : c.data[c.head + i] = P!Content(b)[i]
    <3> TAKE i \in 1 .. P!Size(b)
    <3>1. i \in 1 .. Len(b.data) /\ c.head + i = i /\ i + b.head = b.head + i
      BY <1>1, <2>3 DEF Buffer
    <3>2. d[i] = b.data[b.head + i]  BY <3>1
    <3> QED  BY <2>3, <3>1, <3>2, ContentFacts
  <2> HIDE DEF c
  <2>6. P!Content(c) = P!Content(b)  BY <2>4, <2>5, ContentFacts, ContentIs
  <2> QED  BY <2>4, <2>6 DEF c
<1>3. CASE ~(b.tail = Len(b.data) /\ b.head # 0)  BY <1>3 DEF P!WriteN
<1> QED  BY <1>2, <1>3

(* Taking n bytes takes the first ones, and an empty buffer starts over.     *)
LEMMA ReadNFacts ==
    ASSUME NEW b, Buffer(b), NEW n \in 1 .. P!Size(b)
    PROVE  LET c == P!ReadN(b, n)
           IN  /\ Buffer(c) /\ P!Content(c) = SubSeq(P!Content(b), n + 1, P!Size(b))
               /\ c.head = c.tail => c.head = 0
<1> DEFINE c == P!ReadN(b, n)
           s == SubSeq(P!Content(b), n + 1, P!Size(b))
<1> HIDE DEF B
<1>1. b.data \in Seq(B) /\ b.head \in Nat /\ b.tail \in Nat /\ Len(b.data) \in Nat
      /\ P!Size(b) = b.tail - b.head /\ P!Size(b) \in Nat
  BY DEF Buffer, P!Size
<1>2. P!Content(b) \in Seq(B) /\ Len(P!Content(b)) = P!Size(b)  BY ContentFacts
<1>3. s \in Seq(B) /\ Len(s) = P!Size(b) - n /\ \A i \in 1 .. Len(s) : s[i] = P!Content(b)[n + i]
  <2>1. PICK t \in Seq(B) : t = P!Content(b) /\ Len(t) = P!Size(b)  BY <1>2
  <2>2. s = SubSeq(t, n + 1, Len(t))  BY <2>1
  <2> QED  BY <1>1, <2>1, <2>2
<1>4. CASE b.head + n = b.tail
  <2>1. c = [data |-> b.data, head |-> 0, tail |-> 0]  BY <1>4, Zenon DEF P!ReadN, Buffer
  <2>2. Buffer(c) /\ P!Size(c) = 0 /\ Len(s) = 0  BY <1>1, <1>3, <1>4, <2>1 DEF Buffer, P!Size
  <2> HIDE DEF c, s
  <2>3. \A i \in 1 .. Len(s) : c.data[c.head + i] = s[i]  BY <2>2
  <2>4. P!Content(c) = s  BY <1>3, <2>2, <2>3, ContentIs, Zenon
  <2> QED  BY <2>1, <2>2, <2>4 DEF c, s
<1>5. CASE b.head + n # b.tail
  <2>1. c = [data |-> b.data, head |-> b.head + n, tail |-> b.tail]  BY <1>5 DEF P!ReadN, Buffer
  <2>2. Buffer(c) /\ P!Size(c) = P!Size(b) - n  BY <1>1, <1>5, <2>1 DEF Buffer, P!Size
  <2> HIDE DEF c, s
  <2>3. \A i \in 1 .. Len(s) : c.data[c.head + i] = s[i]
    <3> TAKE i \in 1 .. Len(s)
    <3>1. PICK h, z \in Nat : h = b.head /\ z = P!Size(b)  BY <1>1
    <3>2. i \in 1 .. z - n /\ n \in 1 .. z  BY <1>3, <3>1
    <3>3. n + i \in 1 .. z /\ (h + n) + i = h + (n + i)  BY <3>2
    <3>4. P!Content(b)[n + i] = b.data[b.head + (n + i)]  BY <3>1, <3>3, ContentFacts, Zenon
    <3>5. c.data[c.head + i] = b.data[(b.head + n) + i]  BY <2>1
    <3> QED  BY <1>3, <3>1, <3>3, <3>4, <3>5, Zenon
  <2>4. P!Content(c) = s  BY <1>3, <2>2, <2>3, ContentIs, Zenon
  <2>5. c.head # c.tail  BY <1>5, <2>1
  <2> QED  BY <2>2, <2>4, <2>5, Zenon DEF c, s
<1> QED  BY <1>4, <1>5

-----------------------------------------------------------------------------
(* Parts of sequences.                                                       *)
LEMMA SuffixCons ==
    ASSUME NEW S, NEW ss \in Seq(S), NEW from \in 1 .. Len(ss)
    PROVE  /\ SubSeq(ss, from, Len(ss)) = <<ss[from]>> \o SubSeq(ss, from + 1, Len(ss))
           /\ SubSeq(ss, from + 1, Len(ss)) \in Seq(S)
<1>1. Len(ss) \in from .. Len(ss)  OBVIOUS
<1>2. SubSeq(ss, from, Len(ss)) = <<ss[from]>> \o SubSeq(ss, from + 1, Len(ss))
  BY <1>1, SubSeqRecursiveFirst, Zenon
<1>3. from + 1 \in Int /\ Len(ss) \in Int /\ \A i \in from + 1 .. Len(ss) : ss[i] \in S  OBVIOUS
<1>4. SubSeq(ss, from + 1, Len(ss)) \in Seq(S)  BY <1>3, SubSeqProperties, Zenon
<1> QED  BY <1>2, <1>4

(* A sequence is its two parts.                                              *)
LEMMA CutInTwo ==
    ASSUME NEW S, NEW w \in Seq(S), NEW n \in 0 .. Len(w)
    PROVE  /\ SubSeq(w, 1, n) \in Seq(S) /\ SubSeq(w, n + 1, Len(w)) \in Seq(S)
           /\ Len(SubSeq(w, 1, n)) = n
           /\ SubSeq(w, 1, n) \o SubSeq(w, n + 1, Len(w)) = w
<1>1. 1 \in 1 .. Len(w) + 1 /\ n \in 1 - 1 .. Len(w) /\ Len(w) \in n .. Len(w)  OBVIOUS
<1>2. SubSeq(w, 1, n) \o SubSeq(w, n + 1, Len(w)) = SubSeq(w, 1, Len(w))
  BY <1>1, ConcatAdjacentSubSeq, Zenon
<1>3. SubSeq(w, 1, Len(w)) = w  BY SubSeqFull, Zenon
<1>4. SubSeq(w, 1, n) \in Seq(S) /\ SubSeq(w, n + 1, Len(w)) \in Seq(S) /\ Len(SubSeq(w, 1, n)) = n
  OBVIOUS
<1> QED  BY <1>2, <1>3, <1>4, Zenon

(* The last of a sequence that has grown.                                    *)
LEMMA StreamSuffixAppend ==
    ASSUME NEW S, NEW ss \in Seq(S), NEW e \in S, NEW from \in 1 .. Len(ss) + 1
    PROVE  SubSeq(Append(ss, e), from, Len(ss) + 1) = Append(SubSeq(ss, from, Len(ss)), e)
<1> DEFINE n == Len(ss)
           u == Append(ss, e)
           t == SubSeq(ss, from, n)
<1>1. n \in Nat /\ from \in 1 .. n + 1 /\ u \in Seq(S) /\ Len(u) = n + 1 /\ u[n + 1] = e
  BY AppendProperties
<1>2. t \in Seq(S)
  <2>1. from \in Int /\ n \in Int /\ \A i \in from .. n : ss[i] \in S  OBVIOUS
  <2> QED  BY <2>1, SubSeqProperties, Zenon
<1>3. SubSeq(u, from, n) = t
  <2>1. CASE from = n + 1
    <3>1. from \in Int /\ n \in Int /\ n < from  BY <1>1, <2>1
    <3> HIDE DEF u, n
    <3>2. SubSeq(u, from, n) = <<>> /\ SubSeq(ss, from, n) = <<>>  BY <3>1, SubSeqEmpty, Zenon
    <3> QED  BY <3>2 DEF n
  <2>2. CASE from # n + 1
    <3>1. from \in 1 .. n /\ n \in 1 .. n  BY <1>1, <2>2
    <3>2. u = ss \o <<e>>  BY AppendIsConcat, Zenon
    <3>3. <<e>> \in Seq(S)  OBVIOUS
    <3>4. SubSeq(ss \o <<e>>, from, n) = t  BY <3>1, <3>3, SubSeqOfConcat1, Zenon
    <3> QED  BY <3>2, <3>4, Zenon
  <2> QED  BY <2>1, <2>2
<1> HIDE DEF u, n, t
<1>4. SubSeq(u, from, n + 1) = SubSeq(u, from, n) \o <<e>>
  <2>1. from \in 1 .. Len(u) /\ n + 1 \in from .. Len(u) /\ (n + 1) - 1 = n  BY <1>1
  <2>2. SubSeq(u, from, n + 1) = SubSeq(u, from, (n + 1) - 1) \o <<u[n + 1]>>
    BY <1>1, <2>1, SubSeqRecursiveSecond, Zenon
  <2> QED  BY <1>1, <2>1, <2>2, Zenon
<1>5. Append(t, e) = t \o <<e>>  BY <1>2, AppendIsConcat, Zenon
<1> QED  BY <1>3, <1>4, <1>5, Zenon DEF u, n, t

(* Two ways to cut a sequence: the beginnings agree, and what is behind the  *)
(* shorter one is the rest of the longer.                                    *)
LEMMA CutTwice ==
    ASSUME NEW S, NEW c \in Seq(S), NEW w \in Seq(S), NEW p \in Seq(S), NEW r \in Seq(S),
           c \o w = p \o r
    PROVE  /\ \A i \in Nat : 1 <= i /\ i <= Len(c) /\ i <= Len(p) => c[i] = p[i]
           /\ Len(p) <= Len(c) => /\ SubSeq(c, 1, Len(p)) = p
                                 /\ SubSeq(c, Len(p) + 1, Len(c)) \o w = r
<1> DEFINE l == Len(p)
           k == Len(c)
           q == SubSeq(c, l + 1, k)
<1>0. k \in Nat /\ l \in Nat  OBVIOUS
<1>1. PICK u \in Seq(S) : u = c \o w /\ u = p \o r  BY ConcatProperties, Zenon
<1>2. Len(u) = k + Len(w) /\ \A i \in 1 .. k + Len(w) : u[i] = IF i <= k THEN c[i] ELSE w[i - k]
  <2>1. /\ Len(c \o w) = k + Len(w)
        /\ \A i \in 1 .. k + Len(w) : (c \o w)[i] = IF i <= k THEN c[i] ELSE w[i - k]
    BY ConcatProperties, Zenon
  <2> QED  BY <1>1, <2>1, Zenon
<1>3. Len(u) = l + Len(r) /\ \A i \in 1 .. l + Len(r) : u[i] = IF i <= l THEN p[i] ELSE r[i - l]
  <2>1. /\ Len(p \o r) = l + Len(r)
        /\ \A i \in 1 .. l + Len(r) : (p \o r)[i] = IF i <= l THEN p[i] ELSE r[i - l]
    BY ConcatProperties, Zenon
  <2> QED  BY <1>1, <2>1, Zenon
<1>4. \A i \in Nat : 1 <= i /\ i <= k /\ i <= l => c[i] = p[i]
  <2> SUFFICES ASSUME NEW i \in Nat, 1 <= i, i <= k, i <= l  PROVE c[i] = p[i]  OBVIOUS
  <2>1. i \in 1 .. k + Len(w) /\ i \in 1 .. l + Len(r)  OBVIOUS
  <2> QED  BY <1>2, <1>3, <2>1
<1>5. ASSUME l <= k  PROVE SubSeq(c, 1, l) = p /\ q \o w = r
  <2>1. l \in 0 .. Len(c)  BY <1>0, <1>5
  <2>2. /\ SubSeq(c, 1, l) \in Seq(S) /\ q \in Seq(S) /\ Len(SubSeq(c, 1, l)) = l
        /\ SubSeq(c, 1, l) \o q = c
    BY <2>1, CutInTwo, Zenon
  <2>3. SubSeq(c, 1, l) = p
    <3>1. \A i \in 1 .. l : SubSeq(c, 1, l)[i] = p[i]
      <4> TAKE i \in 1 .. l
      <4>1. SubSeq(c, 1, l)[i] = c[i] /\ i \in Nat /\ 1 <= i /\ i <= k  BY <1>5
      <4> QED  BY <1>4, <4>1
    <3> QED  BY <2>2, <3>1, SeqEqual, Zenon
  <2> HIDE DEF q
  <2>4. p \o q = c  BY <2>2, <2>3, Zenon
  <2>5. (p \o q) \o w = p \o (q \o w)
    <3>1. Assoc(p, q, w)  BY <2>2, Associates
    <3> QED  BY <3>1, Zenon DEF Assoc
  <2>6. q \o w \in Seq(S)  BY <2>2, ConcatProperties, Zenon
  <2>7. p \o (q \o w) = p \o r  BY <1>1, <2>4, <2>5, Zenon
  <2>8. q \o w = r  BY <2>6, <2>7, ConcatSimplifications, Zenon
  <2> QED  BY <2>3, <2>8
<1> QED  BY <1>4, <1>5

-----------------------------------------------------------------------------
(* Each step preserves the invariant.                                        *)
(* What NoByteLost says of a content c, the bytes w on their way, and the    *)
(* packets es of which d are delivered.                                      *)
StreamKept(c, w, es, d) == c \o w = Flatten(SubSeq(es, d + 1, Len(es)))

(* The packets of a connection are encoded bytes.                            *)
LEMMA EncodedFacts ==
    ASSUME P!Assumption, StreamInv
    PROVE  /\ P!Encoded \in Seq(Seq(B)) /\ Len(P!Encoded) = Len(payloads)
           /\ \A p \in 1 .. Len(payloads) : /\ P!Encoded[p] = P!Encode(conns, p, Len(payloads[p]))
                                     /\ Len(payloads[p]) \in Lens /\ Len(payloads[p]) \in Nat
<1>1. payloads \in Seq(Seq(B)) /\ conns \in Nat /\ Len(payloads) \in Nat /\ DOMAIN payloads = 1 .. Len(payloads)
  BY DEF StreamInv, P!TypeOK, P!Assumption
<1>2. \A p \in 1 .. Len(payloads) : Len(payloads[p]) \in Lens /\ Len(payloads[p]) \in Nat
  BY <1>1, Zenon DEF StreamInv, P!Assumption
<1>3. \A p \in 1 .. Len(payloads) : P!Encode(conns, p, Len(payloads[p])) \in Seq(B)
  BY <1>1, <1>2, EncodeType
<1> HIDE DEF B
<1> QED  BY <1>1, <1>2, <1>3 DEF P!Encoded

(* NoByteLost, in the words of these lemmas.                                 *)
LEMMA LostIs ==
    ASSUME P!Assumption, StreamInv
    PROVE  npc # "closed" => StreamKept(P!Content(buf), wire, P!Encoded, Len(delivered))
<1>1. Len(P!Encoded) = Len(payloads)  BY EncodedFacts
<1> QED  BY <1>1, SameFlatten, Zenon DEF StreamInv, P!NoByteLost, StreamKept

(* A packet that is sent is a packet more at the end.                        *)
LEMMA PeerSendStream == ASSUME P!Assumption, StreamInv, NEW len \in Lens, P!PeerSend(len)  PROVE StreamInv'
<1> DEFINE n == Len(payloads)
           pay == P!Payload(conns, n + 1, len)
           enc == P!Encode(conns, n + 1, len)
<1> HIDE DEF B
<1>1. /\ ~fin /\ npc # "closed" /\ payloads' = Append(payloads, pay) /\ wire' = wire \o enc
      /\ UNCHANGED <<buf, npc, conns, fin, delivered>>
  BY DEF P!PeerSend
<1>2. n \in Nat /\ conns \in Nat /\ len \in Nat /\ n + 1 \in Nat
  BY DEF StreamInv, P!TypeOK, P!Assumption
<1>3. pay \in Seq(B) /\ Len(pay) = len /\ enc \in Seq(B)  BY <1>2, EncodeType, Zenon
<1> HIDE DEF pay, enc
<1>4. /\ payloads' \in Seq(Seq(B)) /\ Len(payloads') = n + 1 /\ payloads'[n + 1] = pay
      /\ \A p \in 1 .. n : payloads'[p] = payloads[p]
  BY <1>1, <1>3, AppendProperties DEF StreamInv
<1>5. wire' \in Seq(B)  BY <1>1, <1>3, ConcatProperties DEF StreamInv
<1>6. \A p \in DOMAIN payloads' :
         Len(payloads'[p]) \in Lens /\ payloads'[p] = P!Payload(conns', p, Len(payloads'[p]))
  <2> SUFFICES ASSUME NEW p \in 1 .. n + 1
               PROVE  Len(payloads'[p]) \in Lens /\ payloads'[p] = P!Payload(conns', p, Len(payloads'[p]))
    BY <1>4
  <2>1. CASE p = n + 1  BY <1>1, <1>3, <1>4, <2>1 DEF pay
  <2>2. CASE p # n + 1
    <3>1. p \in 1 .. n /\ p \in DOMAIN payloads  BY <1>2, <2>2 DEF StreamInv
    <3> QED  BY <1>1, <1>4, <3>1 DEF StreamInv
  <2> QED  BY <2>1, <2>2
<1>7. P!Encoded' = Append(P!Encoded, enc)
  <2>1. P!Encoded \in Seq(Seq(B)) /\ Len(P!Encoded) = n /\ \A p \in 1 .. n : P!Encoded[p] = P!Encode(conns, p, Len(payloads[p]))
    BY EncodedFacts
  <2>2. /\ Append(P!Encoded, enc) \in Seq(Seq(B)) /\ Len(Append(P!Encoded, enc)) = n + 1
        /\ Append(P!Encoded, enc)[n + 1] = enc /\ \A p \in 1 .. n : Append(P!Encoded, enc)[p] = P!Encoded[p]
    BY <1>3, <2>1, AppendProperties
  <2>3. P!Encoded' = [p \in 1 .. n + 1 |-> P!Encode(conns, p, Len(payloads'[p]))]
    BY <1>1, <1>4 DEF P!Encoded
  <2>4. \A p \in 1 .. n + 1 : P!Encode(conns, p, Len(payloads'[p])) = Append(P!Encoded, enc)[p]
    <3> TAKE p \in 1 .. n + 1
    <3>1. CASE p = n + 1  BY <1>3, <1>4, <2>2, <3>1 DEF enc
    <3>2. CASE p # n + 1
      <4>1. p \in 1 .. n  BY <1>2, <3>2
      <4> QED  BY <1>4, <2>1, <2>2, <4>1, Zenon
    <3> QED  BY <3>1, <3>2, Zenon
  <2>5. PICK a \in Seq(Seq(B)) : a = Append(P!Encoded, enc) /\ Len(a) = n + 1  BY <2>2, Zenon
  <2>6. P!Encoded' = [p \in 1 .. n + 1 |-> a[p]]  BY <2>3, <2>4, <2>5
  <2> DEFINE z == [p \in 1 .. n + 1 |-> a[p]]
  <2>7. z \in Seq(Seq(B)) /\ Len(z) = n + 1 /\ \A p \in 1 .. n + 1 : a[p] = z[p]
    <3>1. \A p \in 1 .. n + 1 : a[p] \in Seq(B)  BY <1>2, <2>5
    <3> QED  BY <1>2, <3>1
  <2> HIDE DEF z
  <2>8. a = z  BY <2>5, <2>7, SeqEqual, Zenon
  <2> QED  BY <2>5, <2>6, <2>8, Zenon DEF z
<1>8. StreamKept(P!Content(buf), wire \o enc, Append(P!Encoded, enc), Len(delivered))
  <2> DEFINE f == SubSeq(P!Encoded, Len(delivered) + 1, n)
             c == P!Content(buf)
  <2>0. Len(delivered) \in Nat /\ Len(delivered) <= n  BY DEF StreamInv, P!DeliveredAsSent
  <2>1. P!Encoded \in Seq(Seq(B)) /\ Len(P!Encoded) = n /\ Len(Append(P!Encoded, enc)) = n + 1
    BY <1>3, EncodedFacts, AppendProperties
  <2>2. SubSeq(Append(P!Encoded, enc), Len(delivered) + 1, n + 1) = Append(f, enc)
    <3>1. Len(delivered) + 1 \in 1 .. Len(P!Encoded) + 1  BY <1>2, <2>0, <2>1
    <3> QED  BY <1>3, <2>1, <3>1, StreamSuffixAppend, Zenon
  <2>3. f \in Seq(Seq(B))
    <3>1. Len(delivered) + 1 \in Int /\ n \in Int /\ \A i \in Len(delivered) + 1 .. n : P!Encoded[i] \in Seq(B)
      BY <1>2, <2>0, <2>1
    <3> QED  BY <3>1, SubSeqProperties
  <2>4. c \in Seq(B)  BY ContentFacts DEF StreamInv
  <2>5. c \o wire = Flatten(f)  BY <1>1, <2>1, LostIs, Zenon DEF StreamKept
  <2> HIDE DEF f, c, n
  <2>6. Flatten(Append(f, enc)) = Flatten(f) \o enc  BY <1>3, <2>3, FlattenAppend
  <2>7. Assoc(c, wire, enc)  BY <1>3, <2>4, Associates DEF StreamInv
  <2>8. c \o (wire \o enc) = Flatten(Append(f, enc))  BY <2>5, <2>6, <2>7, Zenon DEF Assoc
  <2> QED  BY <2>1, <2>2, <2>8, Zenon DEF StreamKept, c
<1>11. P!NoByteLost'
  <2>1. Len(Append(P!Encoded, enc)) = n + 1  BY <1>3, EncodedFacts, AppendProperties
  <2>2. Len(P!Encoded') = Len(payloads')  BY <1>4, <1>7, <2>1
  <2> QED  BY <1>1, <1>7, <1>8, <2>2, SameFlatten DEF StreamKept, P!NoByteLost
<1>9. P!DeliveredAsSent'
  <2>1. Len(delivered) \in Nat /\ Len(delivered) <= n /\ DOMAIN delivered = 1 .. Len(delivered)
    BY DEF StreamInv, P!DeliveredAsSent
  <2>2. \A p \in DOMAIN delivered : p \in 1 .. n /\ delivered[p] = payloads[p]
    BY <1>2, <2>1 DEF StreamInv, P!DeliveredAsSent
  <2> QED  BY <1>1, <1>2, <1>4, <2>1, <2>2 DEF P!DeliveredAsSent
<1>10. P!TypeOK' /\ Buffer(buf)' /\ delivered' \in Seq(Seq(B)) /\ P!NothingLeft'
  BY <1>1 DEF StreamInv, P!TypeOK, Buffer, P!NothingLeft
<1> QED  BY <1>1, <1>4, <1>5, <1>6, <1>9, <1>10, <1>11, Zenon DEF StreamInv

(* The bytes of a connection cut elsewhere are the same bytes.               *)
LEMMA ReadSomeStream == ASSUME P!Assumption, StreamInv, NEW n \in 1 .. Len(wire), P!ReadSome(n)  PROVE StreamInv'
<1> DEFINE b == IF P!Remaining(buf) = 0 THEN P!doubleCapacity(buf) ELSE buf
           x == SubSeq(wire, 1, n)
           y == SubSeq(wire, n + 1, Len(wire))
           c == P!Content(buf)
<1> HIDE DEF B
<1>1. /\ npc \in {"out", "read"} /\ n <= P!Remaining(b) /\ buf' = P!WriteN(P!Store(b, x)) /\ wire' = y
      /\ npc' = "read" /\ UNCHANGED <<conns, fin, payloads, delivered>>
  BY DEF P!ReadSome
<1>2. Buffer(buf) /\ wire \in Seq(B)  BY DEF StreamInv
<1>3. Buffer(b) /\ P!Content(b) = c /\ b.head = buf.head /\ b.tail = buf.tail
  <2>1. CASE P!Remaining(buf) = 0  BY <1>2, <2>1, Doubled
  <2>2. CASE P!Remaining(buf) # 0  BY <1>2, <2>2
  <2> QED  BY <2>1, <2>2
<1>4. x \in Seq(B) /\ y \in Seq(B) /\ Len(x) = n /\ x \o y = wire
  <2>1. n \in 0 .. Len(wire)  OBVIOUS
  <2> QED  BY <1>2, <2>1, CutInTwo, Zenon
<1> HIDE DEF b, x, y, c
<1>5. PICK d : d = P!Store(b, x)  OBVIOUS
<1>6. Buffer(d) /\ P!Content(d) = c \o x /\ d.head = b.head /\ d.tail = b.tail + n
  <2>1. Len(x) <= P!Remaining(b)  BY <1>1, <1>4
  <2> QED  BY <1>3, <1>4, <1>5, <2>1, Stored, Zenon
<1>7. Buffer(buf') /\ P!Content(buf') = c \o x /\ P!Size(buf') = P!Size(d)
  BY <1>1, <1>5, <1>6, WrittenN, Zenon
<1>8. P!Size(d) # 0
  <2>1. d.head \in Nat /\ d.tail \in Nat /\ b.head <= b.tail /\ b.head \in Nat /\ b.tail \in Nat
    BY <1>3, <1>6, Zenon DEF Buffer
  <2> QED  BY <1>6, <2>1 DEF P!Size
<1>9. P!TypeOK' /\ buf' \in [data : Seq(B), head : Nat, tail : Nat]
  BY <1>1, <1>7, <1>8 DEF Buffer, P!Size, P!TypeOK, StreamInv
<1>10. P!NoByteLost'
  <2>1. c \in Seq(B)  BY <1>2, ContentFacts DEF c
  <2>2. Assoc(c, x, y)  BY <1>4, <2>1, Associates
  <2>3. P!Content(buf') \o wire' = c \o wire  BY <1>1, <1>4, <1>7, <2>2, Zenon DEF Assoc
  <2>4. npc # "closed" /\ npc' # "closed"  BY <1>1
  <2>5. StreamKept(c, wire, P!Encoded, Len(delivered)) /\ Len(P!Encoded) = Len(payloads)
    BY <2>4, LostIs, EncodedFacts DEF c
  <2>6. c \o wire = Flatten(SubSeq(P!Encoded, Len(delivered) + 1, Len(payloads)))
    BY <2>5, Zenon DEF StreamKept
  <2>7. P!Encoded' = P!Encoded /\ delivered' = delivered /\ payloads' = payloads  BY <1>1 DEF P!Encoded
  <2>8. P!Content(buf') \o wire' = Flatten(SubSeq(P!Encoded, Len(delivered) + 1, Len(payloads)))
    BY <2>3, <2>6, Zenon
  <2> QED  BY <2>7, <2>8, SameFlatten DEF P!NoByteLost
<1> QED  BY <1>1, <1>4, <1>7, <1>9, <1>10 DEF StreamInv, P!DeliveredAsSent, P!NothingLeft

(* What the head of the buffer says of the next packet.                      *)
LEMMA NextPacket ==
    ASSUME P!Assumption, StreamInv, npc # "closed", P!Size(buf) >= P!Header
    PROVE  LET d == Len(delivered)
               len == Len(payloads[d + 1])
           IN  /\ d + 1 \in 1 .. Len(payloads) /\ len \in Nat
               /\ P!PacketLen(buf) = len + P!Header
               /\ P!Size(buf) >= P!PacketLen(buf) =>
                     /\ SubSeq(P!Content(buf), 1, len + P!Header) = P!Encode(conns, d + 1, len)
                     /\ StreamKept(SubSeq(P!Content(buf), len + P!Header + 1, P!Size(buf)), wire, P!Encoded, d + 1)
<1> DEFINE d == Len(delivered)
           n == Len(payloads)
           c == P!Content(buf)
           f == SubSeq(P!Encoded, d + 1, n)
           r == SubSeq(P!Encoded, (d + 1) + 1, n)
<1> HIDE DEF B
<1>1. d \in Nat /\ n \in Nat /\ d <= n  BY DEF StreamInv, P!DeliveredAsSent
<1>2. c \in Seq(B) /\ Len(c) = P!Size(buf) /\ P!Size(buf) \in Nat /\ wire \in Seq(B)
  BY ContentFacts DEF StreamInv
<1>3. c \o wire = Flatten(f) /\ Len(P!Encoded) = n
  BY LostIs, EncodedFacts, Zenon DEF StreamKept
<1>4. d + 1 \in 1 .. n
  <2> SUFFICES ASSUME d = n  PROVE FALSE  BY <1>1
  <2>1. d + 1 \in Int /\ n \in Int /\ n < d + 1  BY <1>1
  <2>2. f = <<>>  BY <2>1, SubSeqEmpty, Zenon
  <2>3. c \o wire = <<>>  BY <1>3, <2>2, FlattenEmpty, Zenon
  <2>4. c = <<>>  BY <1>2, <2>3, ConcatSimplifications, Zenon
  <2> QED  BY <1>2, <2>4 DEF P!Header
<1> DEFINE len == Len(payloads[d + 1])
           e == P!Encode(conns, d + 1, len)
<1>5. len \in Nat /\ len \in Lens /\ P!Encoded[d + 1] = e /\ P!Encoded \in Seq(Seq(B))
  BY <1>4, EncodedFacts
<1>6. conns \in Nat  BY DEF StreamInv, P!TypeOK, P!Assumption
<1>7. e \in Seq(B) /\ Len(e) = len + P!Header /\ P!LenBytes(len + P!Header) \in Seq(B)
      /\ Len(P!LenBytes(len + P!Header)) = P!Header /\ P!Payload(conns, d + 1, len) \in Seq(B)
  <2>1. PICK k \in Nat : k = d + 1  BY <1>1
  <2> HIDE DEF len
  <2> QED  BY <1>5, <1>6, <2>1, EncodeType DEF e
<1>8. f = <<e>> \o r /\ r \in Seq(Seq(B))
  BY <1>3, <1>4, <1>5, SuffixCons, Zenon
<1>9. Flatten(r) \in Seq(B)  BY <1>8, FlattenType, Zenon
<1> HIDE DEF f, r
<1>10. c \o wire = e \o Flatten(r)
  <2>1. Flatten(<<e>> \o r) = e \o Flatten(r)  BY <1>7, <1>8, FlattenCons, Zenon
  <2> QED  BY <1>3, <1>8, <2>1, Zenon
<1> HIDE DEF e, c
<1>11. \A i \in Nat : 1 <= i /\ i <= Len(c) /\ i <= Len(e) => c[i] = e[i]
  <2>1. c \in Seq(B) /\ wire \in Seq(B) /\ e \in Seq(B)  BY <1>2, <1>7
  <2> SUFFICES ASSUME NEW i \in Nat, 1 <= i, i <= Len(c), i <= Len(e)  PROVE c[i] = e[i]
    BY Zenon
  <2> QED  BY <1>9, <1>10, <2>1, CutTwice, Zenon
<1>12. \A i \in 1 .. 4 : c[i] = P!LenBytes(len + P!Header)[i]
  <2> TAKE i \in 1 .. 4
  <2>1. i \in Nat /\ 1 <= i /\ i <= Len(c) /\ i <= Len(e)
    BY <1>2, <1>5, <1>7 DEF P!Header
  <2>2. i \in 1 .. P!Header + Len(P!Payload(conns, d + 1, len)) /\ i <= P!Header  BY <1>7 DEF P!Header
  <2>3. e[i] = P!LenBytes(len + P!Header)[i]
    BY <1>7, <2>2, ConcatProperties DEF e, P!Encode
  <2> QED  BY <1>11, <2>1, <2>3
<1>13. P!PacketLen(buf) = len + P!Header
  <2>1. PICK m \in Nat : m = len + P!Header  BY <1>5 DEF P!Header
  <2>2. m \div P!Bit24 < 256  BY <1>5, <2>1 DEF P!Assumption
  <2>3. /\ c[1] = P!Byte(m \div P!Bit24) /\ c[2] = P!Byte(m \div P!Bit16)
        /\ c[3] = P!Byte(m \div 256) /\ c[4] = P!Byte(m)
    BY <1>12, <2>1 DEF P!LenBytes
  <2>4. P!PacketLen(buf) = c[1][3] * P!Bit24 + c[2][3] * P!Bit16 + c[3][3] * 256 + c[4][3]
    BY Zenon DEF P!PacketLen, c
  <2>5. /\ c[1][3] = (m \div P!Bit24) % 256 /\ c[2][3] = (m \div P!Bit16) % 256
        /\ c[3][3] = (m \div 256) % 256 /\ c[4][3] = m % 256
    BY <2>3 DEF P!Byte
  <2> QED  BY <2>1, <2>2, <2>4, <2>5, LenIsRead
<1>14. ASSUME P!Size(buf) >= P!PacketLen(buf)
       PROVE  /\ SubSeq(c, 1, len + P!Header) = e
              /\ StreamKept(SubSeq(c, len + P!Header + 1, P!Size(buf)), wire, P!Encoded, d + 1)
  <2>1. Len(e) <= Len(c)  BY <1>2, <1>5, <1>7, <1>13, <1>14 DEF P!Header
  <2>2. SubSeq(c, 1, Len(e)) = e /\ SubSeq(c, Len(e) + 1, Len(c)) \o wire = Flatten(r)
    BY <1>2, <1>7, <1>9, <1>10, <2>1, CutTwice, Zenon
  <2> QED  BY <1>2, <1>3, <1>7, <2>2, Zenon DEF StreamKept, r
<1> QED  BY <1>4, <1>5, <1>13, <1>14, Zenon DEF c, e

(* A packet is taken off the buffer as it was sent.                          *)
LEMMA ParseNormalStream == ASSUME P!Assumption, StreamInv, P!ParseNormal  PROVE StreamInv'
<1> DEFINE d == Len(delivered)
           len == Len(payloads[d + 1])
           c == P!Content(buf)
           p == SubSeq(c, P!Header + 1, P!PacketLen(buf))
<1> HIDE DEF B
<1>1. /\ npc = "parse" /\ P!Decode(buf) = "Normal" /\ delivered' = Append(delivered, p)
      /\ buf' = P!ReadN(buf, P!PacketLen(buf)) /\ UNCHANGED <<npc, conns, fin, payloads, wire>>
  BY DEF P!ParseNormal
<1>2. P!Size(buf) >= P!Header /\ P!Size(buf) >= P!PacketLen(buf)
  <2>1. ~(P!Size(buf) < P!Header) /\ ~(P!Size(buf) < P!PacketLen(buf))  BY <1>1 DEF P!Decode
  <2>2. P!Size(buf) \in Nat  BY ContentFacts DEF StreamInv
  <2>3. P!PacketLen(buf) \in Int
    <3>1. P!Size(buf) >= P!Header  BY <2>1, <2>2 DEF P!Header
    <3> QED  BY <1>1, <3>1, NextPacket DEF P!Header
  <2> QED  BY <2>1, <2>2, <2>3 DEF P!Header
<1>3. /\ d + 1 \in 1 .. Len(payloads) /\ len \in Nat /\ P!PacketLen(buf) = len + P!Header
      /\ SubSeq(c, 1, len + P!Header) = P!Encode(conns, d + 1, len)
      /\ StreamKept(SubSeq(c, len + P!Header + 1, P!Size(buf)), wire, P!Encoded, d + 1)
  BY <1>1, <1>2, NextPacket
<1>4. Buffer(buf) /\ c \in Seq(B) /\ Len(c) = P!Size(buf) /\ P!Size(buf) \in Nat
  BY ContentFacts DEF StreamInv
<1>5. d \in Nat /\ delivered \in Seq(Seq(B)) /\ conns \in Nat /\ DOMAIN delivered = 1 .. d
  BY DEF StreamInv, P!TypeOK, P!Assumption
<1>6. /\ P!Payload(conns, d + 1, len) \in Seq(B) /\ Len(P!Payload(conns, d + 1, len)) = len
      /\ P!LenBytes(len + P!Header) \in Seq(B) /\ Len(P!LenBytes(len + P!Header)) = P!Header
  <2>1. PICK k \in Nat : k = d + 1  BY <1>5
  <2> HIDE DEF len, d
  <2>2. /\ P!Payload(conns, k, len) \in Seq(B) /\ Len(P!Payload(conns, k, len)) = len
        /\ P!LenBytes(len + P!Header) \in Seq(B) /\ Len(P!LenBytes(len + P!Header)) = P!Header
    BY <1>3, <1>5, EncodeType, Zenon
  <2> QED  BY <2>1, <2>2, Zenon
<1>7. payloads[d + 1] = P!Payload(conns, d + 1, len) /\ d + 1 \in DOMAIN payloads
  BY <1>3 DEF StreamInv
<1> HIDE DEF c, len
<1>8. p = P!Payload(conns, d + 1, len)
  <2>1. p \in Seq(B) /\ Len(p) = len /\ \A i \in 1 .. len : p[i] = c[P!Header + i]
    <3>1. PICK m \in Nat : m = len + P!Header  BY <1>3 DEF P!Header
    <3>2. p = SubSeq(c, P!Header + 1, m) /\ m <= Len(c)  BY <1>2, <1>3, <1>4, <3>1
    <3> HIDE DEF p
    <3>3. P!Header + 1 \in Int /\ m \in Int /\ \A i \in P!Header + 1 .. m : c[i] \in B
      BY <1>4, <3>1, <3>2 DEF P!Header
    <3>4. /\ p \in Seq(B) /\ Len(p) = IF P!Header + 1 <= m THEN m - (P!Header + 1) + 1 ELSE 0
          /\ \A i \in 1 .. m - (P!Header + 1) + 1 : p[i] = c[P!Header + 1 + i - 1]
      <4>1. /\ SubSeq(c, P!Header + 1, m) \in Seq(B)
            /\ Len(SubSeq(c, P!Header + 1, m)) = IF P!Header + 1 <= m THEN m - (P!Header + 1) + 1 ELSE 0
            /\ \A i \in 1 .. m - (P!Header + 1) + 1 :
                  SubSeq(c, P!Header + 1, m)[i] = c[P!Header + 1 + i - 1]
        <5>1. SubSeq(c, P!Header + 1, m) \in Seq(B)  BY <3>3, SubSeqProperties, Zenon
        <5>2. Len(SubSeq(c, P!Header + 1, m)) = IF P!Header + 1 <= m THEN m - (P!Header + 1) + 1 ELSE 0
          BY <3>3, SubSeqProperties, Zenon
        <5>3. \A i \in 1 .. m - (P!Header + 1) + 1 :
                 SubSeq(c, P!Header + 1, m)[i] = c[P!Header + 1 + i - 1]
          <6> TAKE i \in 1 .. m - (P!Header + 1) + 1
          <6>1. P!Header + 1 + i - 1 = (P!Header + 1) + i - 1 /\ P!Header + 1 \in Nat  BY DEF P!Header
          <6> QED  BY <1>4, <3>1, <3>2, <3>3, <6>1
        <5> QED  BY <5>1, <5>2, <5>3, Zenon
      <4> QED  BY <3>2, <4>1, Zenon
    <3>5. m - (P!Header + 1) + 1 = len /\ (P!Header + 1 <= m \/ len = 0)  BY <1>3, <3>1 DEF P!Header
    <3>6. \A i \in 1 .. len : P!Header + 1 + i - 1 = P!Header + i  BY DEF P!Header
    <3> QED  BY <3>4, <3>5, <3>6
  <2>2. \A i \in 1 .. len + P!Header : SubSeq(c, 1, len + P!Header)[i] = c[i]
    <3>1. PICK m \in Nat : m = len + P!Header  BY <1>3 DEF P!Header
    <3>2. \A i \in 1 .. m : SubSeq(c, 1, m)[i] = c[i]  BY <1>2, <1>3, <1>4, <3>1
    <3> QED  BY <3>1, <3>2
  <2>3. \A i \in 1 .. len : c[P!Header + i] = P!Payload(conns, d + 1, len)[i]
    <3> TAKE i \in 1 .. len
    <3> DEFINE x == P!LenBytes(len + P!Header)
               y == P!Payload(conns, d + 1, len)
    <3>1. P!Header + i \in 1 .. len + P!Header  BY <1>3 DEF P!Header
    <3>2. c[P!Header + i] = (x \o y)[P!Header + i]  BY <1>3, <2>2, <3>1, Zenon DEF P!Encode
    <3>3. x \in Seq(B) /\ y \in Seq(B) /\ Len(x) = P!Header /\ Len(y) = len  BY <1>6
    <3> HIDE DEF x, y
    <3>4. P!Header + i \in 1 .. Len(x) + Len(y) /\ ~(P!Header + i <= Len(x)) /\ (P!Header + i) - Len(x) = i
      BY <1>3, <3>3 DEF P!Header
    <3>5. (x \o y)[P!Header + i] = y[i]  BY <3>3, <3>4, ConcatProperties
    <3> QED  BY <3>2, <3>5, Zenon DEF y
  <2>4. Len(p) = Len(P!Payload(conns, d + 1, len))  BY <1>6, <2>1, Zenon
  <2>5. \A i \in 1 .. Len(p) : p[i] = P!Payload(conns, d + 1, len)[i]  BY <2>1, <2>3, Zenon
  <2> HIDE DEF p, d
  <2> QED  BY <1>6, <2>1, <2>4, <2>5, SeqEqual, Zenon
<1> HIDE DEF p
<1>9. /\ delivered' \in Seq(Seq(B)) /\ Len(delivered') = d + 1 /\ delivered'[d + 1] = p
      /\ \A i \in 1 .. d : delivered'[i] = delivered[i]
  BY <1>1, <1>5, <1>6, <1>8, AppendProperties
<1>10. P!DeliveredAsSent'
  <2>1. \A i \in 1 .. d + 1 : delivered'[i] = payloads[i]
    <3> TAKE i \in 1 .. d + 1
    <3>1. CASE i = d + 1  BY <1>7, <1>8, <1>9, <3>1
    <3>2. CASE i # d + 1
      <4>1. i \in 1 .. d  BY <1>5, <3>2
      <4> QED  BY <1>5, <1>9, <4>1, Zenon DEF StreamInv, P!DeliveredAsSent
    <3> QED  BY <3>1, <3>2
  <2>2. DOMAIN delivered' = 1 .. d + 1  BY <1>9
  <2> QED  BY <1>1, <1>3, <1>9, <2>1, <2>2 DEF P!DeliveredAsSent
<1>11. /\ Buffer(buf') /\ P!Content(buf') = SubSeq(c, len + P!Header + 1, P!Size(buf))
       /\ buf'.head = buf'.tail => buf'.head = 0
  <2>1. PICK m \in 1 .. P!Size(buf) : m = P!PacketLen(buf)  BY <1>2, <1>3, <1>4 DEF P!Header
  <2>2. /\ Buffer(buf') /\ P!Content(buf') = SubSeq(c, m + 1, P!Size(buf))
        /\ buf'.head = buf'.tail => buf'.head = 0
    BY <1>1, <1>4, <2>1, ReadNFacts, Zenon DEF c
  <2> QED  BY <1>3, <2>1, <2>2
<1>12. P!NoByteLost'
  <2>1. P!Encoded' = P!Encoded /\ Len(P!Encoded) = Len(payloads)  BY <1>1, EncodedFacts DEF P!Encoded
  <2>2. StreamKept(P!Content(buf'), wire, P!Encoded, d + 1)  BY <1>3, <1>11, Zenon
  <2> QED  BY <1>1, <1>9, <2>1, <2>2, SameFlatten DEF StreamKept, P!NoByteLost
<1>13. P!TypeOK'  BY <1>1, <1>11 DEF StreamInv, P!TypeOK, Buffer
<1> QED  BY <1>1, <1>9, <1>10, <1>11, <1>12, <1>13 DEF StreamInv, P!NothingLeft

(* onClose() empties the buffer.                                             *)
LEMMA ClosedStream ==
    ASSUME P!Assumption, StreamInv, P!Closed, UNCHANGED <<conns, fin, payloads, wire, delivered>>
    PROVE  StreamInv'
<1> HIDE DEF B
<1>1. npc' = "closed" /\ buf' = [data |-> buf.data, head |-> 0, tail |-> 0]
  BY Zenon DEF P!Closed, StreamInv, Buffer
<1>2. Buffer(buf') /\ P!TypeOK'
  BY <1>1 DEF StreamInv, Buffer, P!TypeOK
<1> QED  BY <1>1, <1>2 DEF StreamInv, P!NoByteLost, P!DeliveredAsSent, P!NothingLeft

(* A packet that is not complete is waited for, one too long closes.         *)
LEMMA ParseLessStream == ASSUME P!Assumption, StreamInv, P!ParseLess  PROVE StreamInv'
<1> HIDE DEF B
<1>1. npc = "parse" /\ P!Decode(buf) = "Less" /\ npc' = "out"
      /\ UNCHANGED <<buf, conns, fin, payloads, wire, delivered>>
  BY DEF P!ParseLess
<1>2. P!NothingLeft'
  <2>1. P!Size(buf) < P!Header \/ P!Size(buf) < P!PacketLen(buf)  BY <1>1 DEF P!Decode
  <2>2. P!Size(buf) \in Nat  BY ContentFacts DEF StreamInv
  <2> QED  BY <1>1, <2>1, <2>2 DEF P!NothingLeft, P!Header
<1>3. P!NoByteLost'  BY <1>1 DEF StreamInv, P!NoByteLost, P!Encoded
<1> QED  BY <1>1, <1>2, <1>3 DEF StreamInv, P!TypeOK, Buffer, P!DeliveredAsSent

(* The next connection starts with nothing in the buffer.                    *)
LEMMA NextConnStream == ASSUME P!Assumption, StreamInv, P!NextConn  PROVE StreamInv'
<1> HIDE DEF B
<1>1. /\ npc = "closed" /\ conns < MaxConns /\ conns' = conns + 1 /\ npc' = "out" /\ fin' = FALSE
      /\ payloads' = <<>> /\ wire' = <<>> /\ delivered' = <<>> /\ UNCHANGED buf
  BY DEF P!NextConn
<1>2. buf.head = 0 /\ buf.tail = 0 /\ Buffer(buf)  BY <1>1 DEF StreamInv, Buffer, P!TypeOK
<1>3. P!TypeOK'
  <2>1. Len(buf.data) \in Nat  BY <1>2 DEF Buffer
  <2>2. conns \in Nat /\ conns >= 1 /\ MaxConns \in Nat  BY DEF StreamInv, P!TypeOK, P!Assumption
  <2>3. conns' \in 1 .. MaxConns  BY <1>1, <2>2
  <2>4. fin' \in BOOLEAN /\ npc' \in {"out", "read", "parse", "closed"}  BY <1>1, Zenon
  <2>5. buf'.head = 0 /\ buf'.tail = 0 /\ Len(buf'.data) \in Nat  BY <1>1, <1>2, <2>1
  <2>6. buf'.head \in 0 .. buf'.tail /\ buf'.tail \in 0 .. Len(buf'.data)  BY <2>5
  <2> QED  BY <2>3, <2>4, <2>5, <2>6, Zenon DEF P!TypeOK
<1>4. P!NothingLeft'
  <2>1. P!Size(buf) = 0  BY <1>2 DEF P!Size
  <2> QED  BY <1>1, <2>1 DEF P!NothingLeft, P!Header
<1>5. P!NoByteLost'
  <2>1. P!Content(buf') = <<>>
    <3>1. <<>> \in Seq(B) /\ Len(<<>>) = P!Size(buf)  BY <1>2 DEF P!Size
    <3>2. \A i \in 1 .. Len(<<>>) : buf.data[buf.head + i] = <<>>[i]  OBVIOUS
    <3>3. P!Content(buf) = <<>>  BY <1>2, <3>1, <3>2, ContentIs, Zenon
    <3> QED  BY <1>1, <3>3
  <2>2. SubSeq(P!Encoded', Len(delivered') + 1, Len(payloads')) = <<>>
    <3>1. Len(delivered') + 1 \in Int /\ Len(payloads') \in Int /\ Len(payloads') < Len(delivered') + 1
      BY <1>1
    <3> QED  BY <3>1, SubSeqEmpty
  <2>3. <<>> \o <<>> = <<>>  OBVIOUS
  <2> QED  BY <1>1, <2>1, <2>2, <2>3, FlattenEmpty, SameFlatten, Zenon DEF P!NoByteLost
<1>6. <<>> \in Seq(B) /\ <<>> \in Seq(Seq(B)) /\ DOMAIN <<>> = {} /\ Len(<<>>) = 0  OBVIOUS
<1>7. P!DeliveredAsSent'  BY <1>1, <1>6 DEF P!DeliveredAsSent
<1> QED  BY <1>1, <1>2, <1>3, <1>4, <1>5, <1>6, <1>7 DEF StreamInv

(* Every step of the stream keeps the invariant.                             *)
LEMMA StreamStep == ASSUME P!Assumption, StreamInv, [P!Next]_(P!vars)  PROVE StreamInv'
<1> HIDE DEF B
<1>1. CASE UNCHANGED P!vars
  BY <1>1, Zenon DEF P!vars, StreamInv, P!TypeOK, Buffer, P!NoByteLost, P!Encoded, P!DeliveredAsSent, P!NothingLeft
<1>2. CASE P!PeerClose
  BY <1>2, Zenon DEF P!PeerClose, StreamInv, P!TypeOK, Buffer, P!NoByteLost, P!Encoded, P!DeliveredAsSent, P!NothingLeft
<1>3. CASE P!ReadAgain
  BY <1>3, Zenon DEF P!ReadAgain, StreamInv, P!TypeOK, Buffer, P!NoByteLost, P!Encoded, P!DeliveredAsSent, P!NothingLeft
<1>4. CASE P!ReadEnd  BY <1>4, ClosedStream DEF P!ReadEnd
<1>5. CASE P!ParseError  BY <1>5, ClosedStream DEF P!ParseError
<1> QED  BY <1>1, <1>2, <1>3, <1>4, <1>5, PeerSendStream, ReadSomeStream, ParseNormalStream,
            ParseLessStream, NextConnStream DEF P!Next

(* A new handler has it.                                                     *)
LEMMA StreamInit == ASSUME P!Assumption, P!Init  PROVE StreamInv
<1> DEFINE j == [i \in 1 .. Capacity |-> P!Junk]
<1>1. P!Junk \in B  BY DEF P!Junk, B
<1> HIDE DEF B
<1>2. Capacity \in Nat \ {0}  BY DEF P!Assumption
<1>3. j \in Seq(B) /\ Len(j) = Capacity  BY <1>1, <1>2
<1> HIDE DEF j
<1>4. buf = [data |-> j, head |-> 0, tail |-> 0] /\ npc = "out" /\ conns = 1 /\ fin = FALSE
      /\ payloads = <<>> /\ wire = <<>> /\ delivered = <<>>
  BY DEF P!Init, P!Fresh, j
<1>5. Buffer(buf) /\ P!Size(buf) = 0  BY <1>2, <1>3, <1>4 DEF Buffer, P!Size
<1>6. P!NoByteLost
  <2>1. P!Content(buf) = <<>>
    <3>1. <<>> \in Seq(B) /\ Len(<<>>) = P!Size(buf)  BY <1>5
    <3>2. \A i \in 1 .. Len(<<>>) : buf.data[buf.head + i] = <<>>[i]  OBVIOUS
    <3> QED  BY <1>5, <3>1, <3>2, ContentIs, Zenon
  <2>2. SubSeq(P!Encoded, Len(delivered) + 1, Len(payloads)) = <<>>
    <3>1. Len(delivered) + 1 \in Int /\ Len(payloads) \in Int /\ Len(payloads) < Len(delivered) + 1
      BY <1>4
    <3> QED  BY <3>1, SubSeqEmpty
  <2>3. <<>> \o <<>> = <<>>  OBVIOUS
  <2> QED  BY <1>4, <2>1, <2>2, <2>3, FlattenEmpty, SameFlatten, Zenon DEF P!NoByteLost
<1>7. <<>> \in Seq(B) /\ <<>> \in Seq(Seq(B)) /\ DOMAIN <<>> = {} /\ Len(<<>>) = 0  OBVIOUS
<1>8. P!TypeOK
  <2>1. buf.head = 0 /\ buf.tail = 0 /\ buf.data = j  BY <1>4
  <2>2. conns \in 1 .. MaxConns  BY <1>4 DEF P!Assumption
  <2>3. fin \in BOOLEAN /\ npc \in {"out", "read", "parse", "closed"}  BY <1>4, Zenon
  <2>4. buf.head \in 0 .. buf.tail /\ buf.tail \in 0 .. Len(buf.data)  BY <1>2, <1>3, <2>1
  <2> QED  BY <2>1, <2>2, <2>3, <2>4, Zenon DEF P!TypeOK
<1> QED  BY <1>4, <1>5, <1>6, <1>7, <1>8 DEF StreamInv, P!DeliveredAsSent, P!NothingLeft, P!Header

-----------------------------------------------------------------------------
(* Timer.                                                                    *)

(* The entries of m_nodes and newNodes, and the lists that m_nodes may be:   *)
(* in the order of their times, no id twice.                                 *)
Entry == Nat \X T!Ids
Of(l) == {l[k] : k \in DOMAIN l}
Ordered(l) == \A j, k \in DOMAIN l : j <= k => l[j][1] <= l[k][1]
IdsOnce(l) == \A j, k \in DOMAIN l : l[j][2] = l[k][2] => j = k
Lists == {l \in Seq(Entry) : Ordered(l) /\ IdsOnce(l)}

(* An entry is a pair of a time and an id.                                   *)
LEMMA EntryIs ==
    /\ \A e \in Entry : e[1] \in Nat /\ e[2] \in T!Ids /\ e = <<e[1], e[2]>>
    /\ \A n \in Nat, i \in T!Ids : <<n, i>> \in Entry /\ <<n, i>>[1] = n /\ <<n, i>>[2] = i
BY DEF Entry

(* What RemoveAt and InsertAt leave.                                         *)
Without(t, s, i) ==
    /\ Len(t) = Len(s) - 1
    /\ \A j \in 1 .. Len(s) - 1 : t[j] = IF j < i THEN s[j] ELSE s[j + 1]

(* RemoveAt leaves the others in their order.                                *)
LEMMA RemoveAtIs ==
    ASSUME NEW S, NEW s \in Seq(S), NEW i \in 1 .. Len(s), NEW t, t = T!RemoveAt(s, i)
    PROVE  t \in Seq(S) /\ Without(t, s, i)
<1>1. PICK n \in Nat : n = Len(s)  OBVIOUS
<1>2. PICK a \in Seq(S) : a = SubSeq(s, 1, i - 1)
  <2>1. SubSeq(s, 1, i - 1) \in Seq(S)  OBVIOUS
  <2> QED  BY <2>1, Zenon
<1>3. PICK b \in Seq(S) : b = SubSeq(s, i + 1, n)
  <2>1. SubSeq(s, i + 1, n) \in Seq(S)  BY <1>1
  <2> QED  BY <2>1, Zenon
<1>4. Len(a) = i - 1 /\ \A j \in 1 .. i - 1 : a[j] = s[j]  BY <1>1, <1>2
<1>5. Len(b) = n - i /\ \A j \in 1 .. n - i : b[j] = s[j + i]  BY <1>1, <1>3
<1>6. t = a \o b  BY <1>1, <1>2, <1>3, Zenon DEF T!RemoveAt
<1>7. /\ t \in Seq(S) /\ Len(t) = Len(a) + Len(b)
      /\ \A j \in 1 .. Len(a) + Len(b) : t[j] = IF j <= Len(a) THEN a[j] ELSE b[j - Len(a)]
  BY <1>6, ConcatProperties
<1>8. Len(t) = n - 1  BY <1>1, <1>4, <1>5, <1>7
<1>9. ASSUME NEW j \in 1 .. n - 1  PROVE t[j] = IF j < i THEN s[j] ELSE s[j + 1]
  <2>1. t[j] = IF j <= i - 1 THEN a[j] ELSE b[j - (i - 1)]  BY <1>1, <1>4, <1>5, <1>7
  <2>2. CASE j < i  BY <1>4, <2>1, <2>2
  <2>3. CASE j >= i
    <3>1. j - (i - 1) \in 1 .. n - i /\ (j - (i - 1)) + i = j + 1  BY <1>1, <2>3
    <3>2. b[j - (i - 1)] = s[(j - (i - 1)) + i]  BY <1>5, <3>1, Zenon
    <3>3. ~(j <= i - 1) /\ ~(j < i)  BY <2>3
    <3> QED  BY <2>1, <3>1, <3>2, <3>3, Zenon
  <2> QED  BY <2>2, <2>3
<1> QED  BY <1>1, <1>7, <1>8, <1>9, Zenon DEF Without

Inserted(t, s, i, e) ==
    /\ Len(t) = Len(s) + 1
    /\ \A j \in 1 .. Len(s) + 1 : t[j] = IF j < i THEN s[j] ELSE IF j = i THEN e ELSE s[j - 1]

(* InsertAt puts one between the others.                                     *)
LEMMA InsertAtIs ==
    ASSUME NEW S, NEW s \in Seq(S), NEW i \in 1 .. Len(s) + 1, NEW e \in S, NEW t, t = T!InsertAt(s, i, e)
    PROVE  t \in Seq(S) /\ Inserted(t, s, i, e)
<1>1. PICK n \in Nat : n = Len(s)  OBVIOUS
<1>2. PICK a \in Seq(S) : a = SubSeq(s, 1, i - 1)
  <2>1. SubSeq(s, 1, i - 1) \in Seq(S)  OBVIOUS
  <2> QED  BY <2>1, Zenon
<1>3. PICK b \in Seq(S) : b = SubSeq(s, i, n)
  <2>1. SubSeq(s, i, n) \in Seq(S)  BY <1>1
  <2> QED  BY <2>1, Zenon
<1>4. Len(a) = i - 1 /\ \A j \in 1 .. i - 1 : a[j] = s[j]  BY <1>1, <1>2
<1>5. Len(b) = n + 1 - i /\ \A j \in 1 .. n + 1 - i : b[j] = s[j + i - 1]  BY <1>1, <1>3
<1>6. PICK m \in Seq(S) : m = a \o <<e>> /\ Len(m) = i /\ m[i] = e /\ \A j \in 1 .. i - 1 : m[j] = a[j]
  <2>1. Append(a, e) = a \o <<e>>  BY AppendIsConcat, Zenon
  <2>2. PICK m \in Seq(S) : m = Append(a, e)  BY AppendProperties, Zenon
  <2>3. Len(m) = Len(a) + 1 /\ m[Len(a) + 1] = e /\ \A j \in 1 .. Len(a) : m[j] = a[j]
    BY <2>2, AppendProperties
  <2>4. Len(m) = i /\ m[i] = e /\ \A j \in 1 .. i - 1 : m[j] = a[j]  BY <1>4, <2>3
  <2> QED  BY <2>1, <2>2, <2>4, Zenon
<1>7. t = m \o b  BY <1>1, <1>2, <1>3, <1>6, Zenon DEF T!InsertAt
<1>8. /\ t \in Seq(S) /\ Len(t) = Len(m) + Len(b)
      /\ \A j \in 1 .. Len(m) + Len(b) : t[j] = IF j <= Len(m) THEN m[j] ELSE b[j - Len(m)]
  BY <1>7, ConcatProperties
<1>9. Len(t) = n + 1  BY <1>1, <1>5, <1>6, <1>8
<1>10. ASSUME NEW j \in 1 .. n + 1
       PROVE  t[j] = IF j < i THEN s[j] ELSE IF j = i THEN e ELSE s[j - 1]
  <2>0. Len(m) = i /\ Len(b) = n + 1 - i /\ j \in 1 .. Len(m) + Len(b)  BY <1>1, <1>5, <1>6
  <2>1. t[j] = IF j <= i THEN m[j] ELSE b[j - i]  BY <1>8, <2>0
  <2>2. CASE j <= i  BY <1>4, <1>6, <2>1, <2>2
  <2>3. CASE j > i
    <3>1. j - i \in 1 .. n + 1 - i /\ (j - i) + i - 1 = j - 1  BY <1>1, <2>3
    <3> QED  BY <1>5, <2>1, <2>3, <3>1
  <2> QED  BY <2>2, <2>3
<1> QED  BY <1>1, <1>8, <1>9, <1>10, Zenon DEF Inserted

(* An entry goes behind those that are not later, before those that are.     *)
LEMMA UpperBound ==
    ASSUME NEW l \in Seq(Entry), NEW e \in Entry, NEW t, t = T!Insert(l, e)
    PROVE  \E n \in 0 .. Len(l) :
              /\ \A k \in 1 .. n : l[k][1] <= e[1]
              /\ n < Len(l) => l[n + 1][1] > e[1]
              /\ t = T!InsertAt(l, n + 1, e)
<1> DEFINE Q(n) == /\ \A k \in 1 .. n : l[k][1] <= e[1]
                   /\ n < Len(l) => l[n + 1][1] > e[1]
           m == CHOOSE n \in 0 .. Len(l) : Q(n)
<1>1. \E n \in 0 .. Len(l) : Q(n)
  <2> DEFINE Above == {k \in 1 .. Len(l) + 1 : k = Len(l) + 1 \/ l[k][1] > e[1]}
  <2>1. Above \subseteq Nat /\ Above # {}
    <3>1. Len(l) + 1 \in Above  OBVIOUS
    <3> QED  BY <3>1
  <2> HIDE DEF Above
  <2>2. PICK x \in Above : \A y \in Above : x <= y  BY <2>1, Least, Zenon
  <2> USE DEF Above
  <2>3. x - 1 \in 0 .. Len(l) /\ (x - 1) + 1 = x  BY <2>2
  <2>4. \A k \in 1 .. x - 1 : l[k][1] <= e[1]
    <3> TAKE k \in 1 .. x - 1
    <3>1. k \in 1 .. Len(l) /\ ~(x <= k)  BY <2>2
    <3>2. ~(k \in Above)  BY <2>2, <3>1
    <3>3. ~(l[k][1] > e[1]) /\ l[k] \in Entry  BY <3>1, <3>2
    <3> QED  BY <3>3, EntryIs
  <2>5. x - 1 < Len(l) => l[(x - 1) + 1][1] > e[1]  BY <2>2, <2>3
  <2> QED  BY <2>3, <2>4, <2>5
<1>2. m \in 0 .. Len(l) /\ Q(m)  BY <1>1
<1>3. t = T!InsertAt(l, m + 1, e)  BY Zenon DEF T!Insert
<1> HIDE DEF m
<1> QED  BY <1>2, <1>3, Zenon

(* Insert keeps a list in order and adds the entry, behind a first one that  *)
(* is not later.                                                             *)
LEMMA InsertIs ==
    ASSUME NEW l \in Lists, NEW e \in Entry, \A k \in DOMAIN l : l[k][2] # e[2],
           NEW t, t = T!Insert(l, e)
    PROVE  /\ t \in Lists /\ Of(t) = Of(l) \cup {e}
           /\ l # <<>> /\ l[1][1] <= e[1] => t # <<>> /\ t[1] = l[1]
<1> HIDE DEF Entry
<1>0. l \in Seq(Entry) /\ Len(l) \in Nat /\ DOMAIN l = 1 .. Len(l)  BY DEF Lists
<1>1. PICK n \in 0 .. Len(l) :
         /\ \A k \in 1 .. n : l[k][1] <= e[1]
         /\ n < Len(l) => l[n + 1][1] > e[1]
         /\ t = T!InsertAt(l, n + 1, e)
  BY <1>0, UpperBound, Zenon
<1>2. /\ t \in Seq(Entry) /\ Len(t) = Len(l) + 1 /\ DOMAIN t = 1 .. Len(l) + 1
      /\ \A j \in 1 .. Len(l) + 1 : t[j] = IF j < n + 1 THEN l[j] ELSE IF j = n + 1 THEN e ELSE l[j - 1]
  <2>1. PICK i \in 1 .. Len(l) + 1 : i = n + 1
    <3>1. n + 1 \in 1 .. Len(l) + 1  BY <1>0
    <3> QED  BY <3>1
  <2>2. l \in Seq(Entry) /\ t = T!InsertAt(l, i, e)  BY <1>0, <1>1, <2>1
  <2>3. t \in Seq(Entry) /\ Inserted(t, l, i, e)  BY <2>1, <2>2, InsertAtIs, Zenon
  <2> QED  BY <1>0, <2>1, <2>3 DEF Inserted
<1> DEFINE Old(j) == IF j < n + 1 THEN j ELSE j - 1
<1>3. \A j \in DOMAIN t : j # n + 1 => Old(j) \in DOMAIN l /\ t[j] = l[Old(j)]
  BY <1>0, <1>2
<1>4. \A k \in DOMAIN l : \E j \in DOMAIN t : t[j] = l[k]
  <2> TAKE k \in DOMAIN l
  <2>1. CASE k < n + 1
    <3>1. k \in DOMAIN t /\ t[k] = l[k]  BY <1>0, <1>2, <2>1
    <3> QED  BY <3>1
  <2>2. CASE k >= n + 1
    <3>1. k + 1 \in DOMAIN t /\ (k + 1) - 1 = k /\ t[k + 1] = l[(k + 1) - 1]  BY <1>0, <1>2, <2>2
    <3> QED  BY <3>1
  <2> QED  BY <1>0, <2>1, <2>2
<1>5. n + 1 \in DOMAIN t /\ t[n + 1] = e  BY <1>0, <1>2
<1>6. Of(t) = Of(l) \cup {e}
  <2> HIDE DEF Old
  <2>1. \A j \in DOMAIN t : t[j] \in Of(l) \cup {e}  BY <1>3, <1>5 DEF Of
  <2>2. \A x \in Of(l) \cup {e} : \E j \in DOMAIN t : t[j] = x  BY <1>4, <1>5 DEF Of
  <2>3. Of(t) \subseteq Of(l) \cup {e}  BY <2>1, Zenon DEF Of
  <2>4. ASSUME NEW x \in Of(l) \cup {e}  PROVE x \in Of(t)
    <3>1. PICK j \in DOMAIN t : t[j] = x  BY <2>2, Zenon
    <3> QED  BY <3>1, Zenon DEF Of
  <2> QED  BY <2>3, <2>4
<1>7. \A k \in DOMAIN l : l[k][1] \in Nat
  BY <1>0, EntryIs
<1>8. \A k \in DOMAIN l : k >= n + 1 => l[k][1] > e[1]
  <2> SUFFICES ASSUME NEW k \in DOMAIN l, k >= n + 1  PROVE l[k][1] > e[1]  OBVIOUS
  <2>1. n + 1 \in DOMAIN l /\ n < Len(l)  BY <1>0
  <2>2. l[n + 1][1] <= l[k][1] /\ l[n + 1][1] > e[1]  BY <1>1, <2>1 DEF Lists, Ordered
  <2> QED  BY <1>7, <2>1, <2>2, EntryIs
<1>9. Ordered(t)
  <2> SUFFICES ASSUME NEW j \in DOMAIN t, NEW k \in DOMAIN t, j <= k  PROVE t[j][1] <= t[k][1]
    BY DEF Ordered
  <2>0. e[1] \in Nat  BY EntryIs
  <2>1. CASE j = n + 1 /\ k = n + 1  BY <1>5, <2>0, <2>1
  <2>2. CASE j = n + 1 /\ k # n + 1
    <3>1. Old(k) \in DOMAIN l /\ Old(k) >= n + 1 /\ t[k] = l[Old(k)]  BY <1>0, <1>2, <1>3, <2>2
    <3>2. l[Old(k)][1] > e[1] /\ l[Old(k)][1] \in Nat  BY <1>7, <1>8, <3>1
    <3> QED  BY <1>5, <2>0, <2>2, <3>1, <3>2
  <2>3. CASE j # n + 1 /\ k = n + 1
    <3>1. j \in 1 .. n /\ t[j] = l[j]  BY <1>0, <1>2, <2>3
    <3>2. l[j][1] <= e[1]  BY <1>1, <3>1
    <3> QED  BY <1>5, <2>3, <3>1, <3>2
  <2>4. CASE j # n + 1 /\ k # n + 1
    <3>1. Old(j) \in DOMAIN l /\ Old(k) \in DOMAIN l /\ Old(j) <= Old(k)
          /\ t[j] = l[Old(j)] /\ t[k] = l[Old(k)]
      BY <1>0, <1>2, <1>3, <2>4
    <3> QED  BY <3>1 DEF Lists, Ordered
  <2> QED  BY <2>1, <2>2, <2>3, <2>4
<1>10. IdsOnce(t)
  <2> SUFFICES ASSUME NEW j \in DOMAIN t, NEW k \in DOMAIN t, t[j][2] = t[k][2]  PROVE j = k
    BY DEF IdsOnce
  <2>1. CASE j = n + 1 \/ k = n + 1  BY <1>3, <1>5, <2>1
  <2>2. CASE j # n + 1 /\ k # n + 1
    <3>1. Old(j) \in DOMAIN l /\ Old(k) \in DOMAIN l /\ t[j] = l[Old(j)] /\ t[k] = l[Old(k)]
      BY <1>3, <2>2
    <3>2. Old(j) = Old(k)  BY <3>1 DEF Lists, IdsOnce
    <3> QED  BY <1>0, <1>2, <2>2, <3>2
  <2> QED  BY <2>1, <2>2
<1>11. ASSUME l # <<>>, l[1][1] <= e[1]  PROVE t # <<>> /\ t[1] = l[1]
  <2>1. 1 \in DOMAIN l  BY <1>0, <1>11
  <2>2. n # 0
    <3> SUFFICES ASSUME n = 0  PROVE FALSE  OBVIOUS
    <3>1. l[1][1] > e[1]  BY <1>1, <1>0, <2>1
    <3> QED  BY <1>7, <1>11, <2>1, <3>1, EntryIs
  <2>3. 1 < n + 1 /\ 1 \in 1 .. Len(l) + 1  BY <1>0, <2>2
  <2> QED  BY <1>2, <2>3
<1> QED  BY <1>2, <1>6, <1>9, <1>10, <1>11 DEF Lists

(* The tail is the list without its first entry.                             *)
LEMMA TailIs ==
    ASSUME NEW S, NEW s \in Seq(S), s # <<>>
    PROVE  Tail(s) \in Seq(S) /\ Without(Tail(s), s, 1)
BY HeadTailProperties DEF Without

(* A list without an entry is a list, of the others.                         *)
LEMMA WithoutIs ==
    ASSUME NEW l \in Lists, NEW t \in Seq(Entry), NEW i \in DOMAIN l, Without(t, l, i)
    PROVE  /\ t \in Lists /\ Of(t) = Of(l) \ {l[i]}
           /\ i # 1 => t # <<>> /\ t[1] = l[1]
<1> HIDE DEF Entry
<1>0. l \in Seq(Entry) /\ Len(l) \in Nat /\ DOMAIN l = 1 .. Len(l)  BY DEF Lists
<1>1. /\ DOMAIN t = 1 .. Len(l) - 1
      /\ \A j \in 1 .. Len(l) - 1 : t[j] = IF j < i THEN l[j] ELSE l[j + 1]
  BY <1>0 DEF Without
<1> DEFINE Old(j) == IF j < i THEN j ELSE j + 1
<1>2. \A j \in DOMAIN t : Old(j) \in DOMAIN l /\ Old(j) # i /\ t[j] = l[Old(j)]
  BY <1>0, <1>1
<1>3. \A k \in DOMAIN l : k # i => \E j \in DOMAIN t : t[j] = l[k]
  <2> SUFFICES ASSUME NEW k \in DOMAIN l, k # i  PROVE \E j \in DOMAIN t : t[j] = l[k]  OBVIOUS
  <2>1. CASE k < i
    <3>1. k \in DOMAIN t /\ t[k] = l[k]  BY <1>0, <1>1, <2>1
    <3> QED  BY <3>1
  <2>2. CASE k > i
    <3>1. k - 1 \in DOMAIN t /\ ~(k - 1 < i) /\ (k - 1) + 1 = k  BY <1>0, <1>1, <2>2
    <3>2. t[k - 1] = l[k]  BY <1>1, <3>1
    <3> QED  BY <3>1, <3>2
  <2> QED  BY <1>0, <2>1, <2>2
<1>4. \A j, k \in DOMAIN l : l[j] = l[k] => j = k  BY DEF Lists, IdsOnce
<1>5. Of(t) = Of(l) \ {l[i]}
  <2> HIDE DEF Old
  <2>1. \A j \in DOMAIN t : t[j] \in Of(l) \ {l[i]}  BY <1>2, <1>4 DEF Of
  <2>2. \A x \in Of(l) \ {l[i]} : \E j \in DOMAIN t : t[j] = x  BY <1>3 DEF Of
  <2> QED  BY <2>1, <2>2 DEF Of
<1>6. Ordered(t)
  <2> SUFFICES ASSUME NEW j \in DOMAIN t, NEW k \in DOMAIN t, j <= k  PROVE t[j][1] <= t[k][1]
    BY DEF Ordered
  <2>1. Old(j) <= Old(k)  BY <1>0, <1>1
  <2> HIDE DEF Old
  <2> QED  BY <1>2, <2>1 DEF Lists, Ordered
<1>7. IdsOnce(t)
  <2> SUFFICES ASSUME NEW j \in DOMAIN t, NEW k \in DOMAIN t, t[j][2] = t[k][2]  PROVE j = k
    BY DEF IdsOnce
  <2>1. Old(j) = Old(k)  BY <1>2 DEF Lists, IdsOnce
  <2> QED  BY <1>0, <1>1, <2>1
<1>8. ASSUME i # 1  PROVE t # <<>> /\ t[1] = l[1]
  <2>1. 1 \in 1 .. Len(l) - 1 /\ 1 < i  BY <1>0, <1>8
  <2> QED  BY <1>1, <2>1
<1> QED  BY <1>5, <1>6, <1>7, <1>8 DEF Lists

(* An entry more at the end.                                                 *)
IsNew(e, l) == \A k \in DOMAIN l : l[k][2] # e[2]
Longer(t, l, e) ==
    /\ IdsOnce(t) /\ Of(t) = Of(l) \cup {e}
    /\ \A k \in DOMAIN t : t[k] = e \/ (k \in DOMAIN l /\ t[k] = l[k])

(* Append adds an entry that is new.                                         *)
LEMMA AppendOne ==
    ASSUME NEW l \in Seq(Entry), IdsOnce(l), NEW e \in Entry, IsNew(e, l)
    PROVE  Append(l, e) \in Seq(Entry) /\ Longer(Append(l, e), l, e)
<1> HIDE DEF Entry
<1> DEFINE t == Append(l, e)
<1>1. t \in Seq(Entry) /\ Len(t) = Len(l) + 1 /\ Len(l) \in Nat /\ t[Len(l) + 1] = e
      /\ DOMAIN l = 1 .. Len(l) /\ DOMAIN t = 1 .. Len(l) + 1
      /\ \A j \in 1 .. Len(l) : t[j] = l[j]
  BY AppendProperties DEF t
<1> HIDE DEF t
<1>2. \A k \in DOMAIN t : (k = Len(l) + 1 /\ t[k] = e) \/ (k \in DOMAIN l /\ t[k] = l[k])
  BY <1>1
<1>3. \A k \in DOMAIN l : k \in DOMAIN t /\ t[k] = l[k]  BY <1>1
<1>4. Len(l) + 1 \in DOMAIN t  BY <1>1
<1>5. Of(t) = Of(l) \cup {e}
  <2>1. \A j \in DOMAIN t : t[j] \in Of(l) \cup {e}  BY <1>2 DEF Of
  <2>2. \A x \in Of(l) \cup {e} : \E j \in DOMAIN t : t[j] = x  BY <1>1, <1>3, <1>4 DEF Of
  <2> QED  BY <2>1, <2>2, Zenon DEF Of
<1>6. IdsOnce(t)  BY <1>2 DEF IdsOnce, IsNew
<1> QED  BY <1>1, <1>2, <1>5, <1>6 DEF Longer, t

(* What the walk of update() over newNodes leaves in m_nodes.                *)
Merges(f, n) == f = [i \in 0 .. n |-> IF i = 0 THEN nodes ELSE T!Insert(f[i - 1], newNodes[i])]

(* There is such an f, by induction over n.                                  *)
LEMMA MergesExists ==
    ASSUME NEW n \in Nat
    PROVE  \E f : Merges(f, n)
<1> DEFINE A == {k \in Nat : \E f : Merges(f, k)}
<1>1. 0 \in A
  <2> DEFINE f == [i \in 0 .. 0 |-> nodes]
  <2>1. \A i \in 0 .. 0 : i = 0  OBVIOUS
  <2>2. f = [i \in 0 .. 0 |-> IF i = 0 THEN nodes ELSE T!Insert(f[i - 1], newNodes[i])]
    BY <2>1, Zenon
  <2> QED  BY <2>2, Zenon DEF Merges
<1>2. ASSUME NEW k \in Nat, k \in A  PROVE k + 1 \in A
  <2>1. PICK f : Merges(f, k)  BY <1>2
  <2> DEFINE e == T!Insert(f[k], newNodes[k + 1])
             G(i) == IF i = k + 1 THEN e ELSE f[i]
             g == [i \in 0 .. k + 1 |-> G(i)]
             F(i) == IF i = 0 THEN nodes ELSE T!Insert(g[i - 1], newNodes[i])
  <2>2. ASSUME NEW i \in 0 .. k + 1  PROVE g[i] = F(i)
    <3> HIDE DEF e
    <3>1. CASE i = k + 1
      <4>1. g[i] = e  BY <3>1
      <4>2. i - 1 \in 0 .. k + 1 /\ i - 1 # k + 1 /\ i - 1 = k /\ i # 0  BY <3>1
      <4>3. g[i - 1] = f[k]  BY <4>2
      <4> HIDE DEF g
      <4>4. F(i) = T!Insert(f[k], newNodes[k + 1])  BY <3>1, <4>2, <4>3
      <4> QED  BY <4>1, <4>4 DEF e
    <3>2. CASE i # k + 1
      <4>1. i \in 0 .. k /\ g[i] = f[i]  BY <3>2
      <4>2. i # 0 => i - 1 \in 0 .. k + 1 /\ i - 1 # k + 1  BY <4>1
      <4>3. i # 0 => g[i - 1] = f[i - 1]  BY <4>2
      <4>4. f[i] = IF i = 0 THEN nodes ELSE T!Insert(f[i - 1], newNodes[i])
        BY <2>1, <4>1, Zenon DEF Merges
      <4> HIDE DEF g
      <4> QED  BY <4>1, <4>3, <4>4
    <3> QED  BY <3>1, <3>2
  <2> HIDE DEF e
  <2>3. g = [i \in 0 .. k + 1 |-> F(i)]
    <3>1. \A i \in 0 .. k + 1 : G(i) = F(i)  BY <2>2
    <3> HIDE DEF F, G
    <3> QED  BY <3>1
  <2>4. Merges(g, k + 1)  BY <2>3, Zenon DEF Merges
  <2> HIDE DEF g
  <2>5. \E h : Merges(h, k + 1)  BY <2>4, Zenon
  <2> QED  BY <2>5
<1> HIDE DEF A
<1>3. n \in A  BY <1>1, <1>2, Induct
<1> QED  BY <1>3 DEF A

(* Merged is a list of the entries of both, by induction over newNodes.      *)
LEMMA MergedIs ==
    ASSUME nodes \in Lists, newNodes \in Seq(Entry), IdsOnce(newNodes),
           \A j \in DOMAIN nodes, k \in DOMAIN newNodes : nodes[j][2] # newNodes[k][2]
    PROVE  /\ T!Merged[Len(newNodes)] \in Lists
           /\ Of(T!Merged[Len(newNodes)]) = Of(nodes) \cup Of(newNodes)
<1> HIDE DEF Entry
<1>0. Len(newNodes) \in Nat /\ DOMAIN newNodes = 1 .. Len(newNodes)  OBVIOUS
<1>1. Merges(T!Merged, Len(newNodes))
  <2>1. \E f : Merges(f, Len(newNodes))  BY <1>0, MergesExists
  <2> QED  BY <2>1, Zenon DEF T!Merged, Merges
<1>2. \A i \in 0 .. Len(newNodes) :
         T!Merged[i] = IF i = 0 THEN nodes ELSE T!Insert(T!Merged[i - 1], newNodes[i])
  <2>1. PICK m : m = T!Merged  OBVIOUS
  <2>2. m = [i \in 0 .. Len(newNodes) |-> IF i = 0 THEN nodes ELSE T!Insert(m[i - 1], newNodes[i])]
    BY <1>1, <2>1, Zenon DEF Merges
  <2>3. \A i \in 0 .. Len(newNodes) : m[i] = IF i = 0 THEN nodes ELSE T!Insert(m[i - 1], newNodes[i])
    BY <2>2, Zenon
  <2> QED  BY <2>1, <2>3, Zenon
<1> DEFINE First(i) == {newNodes[k] : k \in 1 .. i}
           A == {i \in Nat : i <= Len(newNodes) =>
                    T!Merged[i] \in Lists /\ Of(T!Merged[i]) = Of(nodes) \cup First(i)}
<1>3. 0 \in A
  <2>1. T!Merged[0] = nodes  BY <1>0, <1>2
  <2>2. First(0) = {}  OBVIOUS
  <2> QED  BY <2>1, <2>2
<1>4. ASSUME NEW i \in Nat, i \in A  PROVE i + 1 \in A
  <2> SUFFICES ASSUME i + 1 <= Len(newNodes)
               PROVE  /\ T!Merged[i + 1] \in Lists
                      /\ Of(T!Merged[i + 1]) = Of(nodes) \cup First(i + 1)
    OBVIOUS
  <2>1. T!Merged[i] \in Lists /\ Of(T!Merged[i]) = Of(nodes) \cup First(i)  BY <1>0, <1>4
  <2>2. PICK l \in Lists : l = T!Merged[i]  BY <2>1
  <2>3. i + 1 \in DOMAIN newNodes /\ i + 1 \in 0 .. Len(newNodes) /\ i + 1 # 0 /\ (i + 1) - 1 = i
    BY <1>0
  <2>4. PICK e \in Entry : e = newNodes[i + 1]  BY <2>3
  <2>5. T!Merged[i + 1] = T!Insert(l, e)  BY <1>2, <2>2, <2>3, <2>4
  <2>6. \A k \in DOMAIN l : l[k][2] # e[2]
    <3> TAKE k \in DOMAIN l
    <3>1. l[k] \in Of(nodes) \cup First(i)  BY <2>1, <2>2, Zenon DEF Of
    <3>2. CASE l[k] \in Of(nodes)  BY <2>3, <2>4, <3>2 DEF Of
    <3>3. CASE l[k] \in First(i)
      <4>1. PICK j \in 1 .. i : l[k] = newNodes[j]  BY <3>3
      <4>2. j \in DOMAIN newNodes /\ j # i + 1  BY <1>0, <2>3
      <4> QED  BY <2>3, <2>4, <4>1, <4>2 DEF IdsOnce
    <3> QED  BY <3>1, <3>2, <3>3
  <2>7. T!Merged[i + 1] \in Lists /\ Of(T!Merged[i + 1]) = Of(l) \cup {e}
    BY <2>5, <2>6, InsertIs
  <2>8. First(i + 1) = First(i) \cup {newNodes[i + 1]}
    <3>1. 1 .. i + 1 = (1 .. i) \cup {i + 1}  OBVIOUS
    <3> QED  BY <3>1
  <2> QED  BY <2>1, <2>2, <2>4, <2>7, <2>8
<1> HIDE DEF A
<1>5. Len(newNodes) \in A  BY <1>0, <1>3, <1>4, Induct
<1>6. First(Len(newNodes)) = Of(newNodes)  BY <1>0 DEF Of
<1> QED  BY <1>5, <1>6 DEF A

(* The invariant of the timers.  Each that is not deleted waits once, and    *)
(* during update() those that it has called are not in m_nodes any more, but *)
(* for the one whose callback is running, which is the first.                *)
Waiting == {<<node[i].expire, i>> : i \in T!Live}
Types ==
    /\ now \in 1 .. TimerEnd /\ ms \in 0 .. TimerEnd
    /\ nextId \in 0 .. TimerIds
    /\ node \in [T!Ids -> T!Node \cup {T!NoNode}]
    /\ nodes \in Lists /\ newNodes \in Seq(Entry) /\ IdsOnce(newNodes)
    /\ pc \in {"out", "loop", "callback"}
    /\ calls \in Seq(T!Ids)
    /\ stopped \subseteq T!Ids
Waits ==
    /\ search = T!Live
    /\ \A j \in DOMAIN nodes, k \in DOMAIN newNodes : nodes[j][2] # newNodes[k][2]
    /\ Of(nodes) \cup Of(newNodes) = Waiting
Given ==
    /\ \A i \in T!Live \cup stopped : i < nextId
    /\ \A i \in T!Live : i \notin stopped
    /\ \A k \in DOMAIN calls : calls[k] < nextId
Called ==
    /\ \A k \in DOMAIN newNodes :
          /\ node[newNodes[k][2]].repeat
          /\ newNodes[k][1] = ms + node[newNodes[k][2]].duration
    /\ \A j \in DOMAIN nodes, k \in DOMAIN calls :
          nodes[j][2] = calls[k] => pc = "callback" /\ k = Len(calls) /\ j = 1
InCallback ==
    /\ nodes # <<>> /\ calls # <<>>
    /\ nodes[1][2] = calls[Len(calls)] /\ nodes[1][1] <= ms
TimerInv ==
    /\ Types /\ Waits /\ Given /\ T!OncePerUpdate
    /\ pc = "out" => newNodes = <<>>
    /\ pc # "out" => ms <= now /\ Called
    /\ pc = "callback" => InCallback

(* The fields of a TimerNode.                                                *)
LEMMA NodeIs ==
    ASSUME T!Assumption
    PROVE  \A n \in T!Node \cup {T!NoNode} : n.expire \in Nat /\ n.duration \in Nat /\ n.repeat \in BOOLEAN
<1>1. \A n \in T!Node : n.expire \in Nat /\ n.duration \in Nat /\ n.repeat \in BOOLEAN
  BY Zenon DEF T!Assumption, T!Node
<1>2. T!NoNode.expire = 0 /\ T!NoNode.duration = 0 /\ T!NoNode.repeat = FALSE  BY DEF T!NoNode
<1> TAKE n \in T!Node \cup {T!NoNode}
<1>3. CASE n \in T!Node  BY <1>1, <1>3
<1>4. CASE n = T!NoNode
  <2>1. n.expire = 0 /\ n.duration = 0  BY <1>2, <1>4, Zenon
  <2>2. n.repeat \in BOOLEAN  BY <1>2, <1>4, Zenon
  <2> QED  BY <2>1, <2>2
<1> QED  BY <1>3, <1>4

(* A timer that is not deleted is in one of the lists, and what is there is  *)
(* one.                                                                      *)
LEMMA TimerKept ==
    ASSUME T!Assumption, TimerInv
    PROVE  /\ \A i \in T!Live : <<node[i].expire, i>> \in Of(nodes) \cup Of(newNodes)
           /\ \A k \in DOMAIN nodes : /\ nodes[k][2] \in T!Live /\ nodes[k] \in Entry
                                     /\ nodes[k][1] = node[nodes[k][2]].expire
           /\ \A k \in DOMAIN newNodes : /\ newNodes[k][2] \in T!Live /\ newNodes[k] \in Entry
                                        /\ newNodes[k][1] = node[newNodes[k][2]].expire
<1>0. nodes \in Seq(Entry) /\ newNodes \in Seq(Entry)  BY DEF TimerInv, Types, Lists
<1>1. \A i \in T!Live : node[i].expire \in Nat /\ i \in T!Ids  BY NodeIs DEF TimerInv, Types, T!Live
<1>2. \A i \in T!Live : <<node[i].expire, i>>[1] = node[i].expire /\ <<node[i].expire, i>>[2] = i
  OBVIOUS
<1>3. \A e \in Of(nodes) \cup Of(newNodes) : e[2] \in T!Live /\ e[1] = node[e[2]].expire
  BY <1>2 DEF TimerInv, Waits, Waiting
<1> HIDE DEF Entry
<1>4. \A k \in DOMAIN nodes : nodes[k] \in Entry /\ nodes[k] \in Of(nodes)  BY <1>0 DEF Of
<1>5. \A k \in DOMAIN newNodes : newNodes[k] \in Entry /\ newNodes[k] \in Of(newNodes)  BY <1>0 DEF Of
<1>6. \A i \in T!Live : <<node[i].expire, i>> \in Of(nodes) \cup Of(newNodes)
  BY DEF TimerInv, Waits, Waiting
<1> QED  BY <1>3, <1>4, <1>5, <1>6

(* There are as many entries as timers: numbering the entries numbers them.  *)
LEMMA CountLive ==
    ASSUME T!Assumption, TimerInv
    PROVE  T!EachWaitsOnce
<1> DEFINE all == nodes \o newNodes
<1> HIDE DEF Entry
<1>0. nodes \in Seq(Entry) /\ newNodes \in Seq(Entry) /\ IdsOnce(nodes) /\ IdsOnce(newNodes)
  BY DEF TimerInv, Types, Lists
<1>1. /\ all \in Seq(Entry) /\ Len(all) = Len(nodes) + Len(newNodes)
      /\ \A j \in 1 .. Len(nodes) + Len(newNodes) :
            all[j] = IF j <= Len(nodes) THEN nodes[j] ELSE newNodes[j - Len(nodes)]
  BY <1>0, ConcatProperties
<1>2. PICK n \in Nat, m \in Nat : n = Len(nodes) /\ m = Len(newNodes)  BY <1>0
<1>3. DOMAIN nodes = 1 .. n /\ DOMAIN newNodes = 1 .. m /\ DOMAIN all = 1 .. n + m /\ Len(all) = n + m
  BY <1>0, <1>1, <1>2
<1> HIDE DEF all
<1>4. \A j \in 1 .. n + m :
         \/ j \in DOMAIN nodes /\ all[j] = nodes[j]
         \/ j > n /\ j - n \in DOMAIN newNodes /\ all[j] = newNodes[j - n]
  BY <1>1, <1>2, <1>3
<1>5. \A j \in DOMAIN nodes : j \in 1 .. n + m /\ all[j] = nodes[j]
  BY <1>1, <1>2, <1>3
<1>6. \A j \in DOMAIN newNodes : n + j \in 1 .. n + m /\ all[n + j] = newNodes[j]
  <2> TAKE j \in DOMAIN newNodes
  <2>1. n + j \in 1 .. n + m /\ ~(n + j <= n) /\ (n + j) - n = j  BY <1>2, <1>3
  <2>2. all[n + j] = newNodes[(n + j) - n]  BY <1>1, <1>2, <2>1
  <2> QED  BY <2>1, <2>2
<1>7. {all[k] : k \in DOMAIN all} = Waiting
  <2>1. \A k \in DOMAIN all : all[k] \in Of(nodes) \cup Of(newNodes)  BY <1>3, <1>4, Zenon DEF Of
  <2>2. \A e \in Of(nodes) \cup Of(newNodes) : \E k \in DOMAIN all : all[k] = e
    <3> TAKE e \in Of(nodes) \cup Of(newNodes)
    <3>1. CASE e \in Of(nodes)  BY <1>3, <1>5, <3>1 DEF Of
    <3>2. CASE e \in Of(newNodes)
      <4>1. PICK j \in DOMAIN newNodes : e = newNodes[j]  BY <3>2 DEF Of
      <4>2. n + j \in DOMAIN all /\ all[n + j] = e  BY <1>3, <1>6, <4>1
      <4> QED  BY <4>2
    <3> QED  BY <3>1, <3>2
  <2>3. {all[k] : k \in DOMAIN all} = Of(nodes) \cup Of(newNodes)  BY <2>1, <2>2
  <2> QED  BY <2>3 DEF TimerInv, Waits
<1>8. \A j, k \in 1 .. n + m : all[j][2] = all[k][2] => j = k
  <2> SUFFICES ASSUME NEW j \in 1 .. n + m, NEW k \in 1 .. n + m, all[j][2] = all[k][2]
               PROVE  j = k
    OBVIOUS
  <2>1. CASE j \in DOMAIN nodes /\ all[j] = nodes[j] /\ k \in DOMAIN nodes /\ all[k] = nodes[k]
    BY <1>0, <2>1 DEF IdsOnce
  <2>2. CASE /\ j > n /\ j - n \in DOMAIN newNodes /\ all[j] = newNodes[j - n]
             /\ k > n /\ k - n \in DOMAIN newNodes /\ all[k] = newNodes[k - n]
    <3>1. j - n = k - n  BY <1>0, <2>2 DEF IdsOnce
    <3> QED  BY <1>2, <3>1
  <2>3. \A a \in DOMAIN nodes, b \in DOMAIN newNodes : nodes[a][2] # newNodes[b][2]
    BY DEF TimerInv, Waits
  <2> QED  BY <1>4, <2>1, <2>2, <2>3
<1>9. \A k \in 1 .. n + m : all[k][2] \in T!Live
  BY <1>3, <1>4, TimerKept, Zenon
<1>10. \A i \in T!Live : \E k \in 1 .. n + m : all[k][2] = i
  <2> TAKE i \in T!Live
  <2>1. <<node[i].expire, i>> \in {all[k] : k \in DOMAIN all}  BY <1>7, Zenon DEF Waiting
  <2>2. PICK k \in DOMAIN all : all[k] = <<node[i].expire, i>>  BY <2>1
  <2> QED  BY <1>3, <2>2
<1>11. Cardinality(T!Live) = n + m
  <2> DEFINE f == [k \in 1 .. n + m |-> all[k][2]]
  <2>1. f \in [1 .. n + m -> T!Live]  BY <1>9
  <2>2. \A j, k \in 1 .. n + m : f[j] = f[k] => j = k  BY <1>8
  <2>3. \A i \in T!Live : \E k \in 1 .. n + m : f[k] = i  BY <1>10
  <2> HIDE DEF f
  <2>4. f \in Bijection(1 .. n + m, T!Live)
    BY <2>1, <2>2, <2>3, Fun_IsBij, Zenon
  <2>5. ExistsBijection(1 .. n + m, T!Live) /\ n + m \in Nat  BY <1>2, <2>4, Fun_ExistsBij
  <2> QED  BY <2>5, FS_CountingElements
<1>12. search = T!Live  BY DEF TimerInv, Waits
<1>13. Len(all) = T!Cardinality(T!Live)  BY <1>3, <1>11, SameCardinality, Zenon
<1>14. {all[k] : k \in DOMAIN all} = {<<node[i].expire, i>> : i \in T!Live}
  BY <1>7, Zenon DEF Waiting
<1> QED  BY <1>12, <1>13, <1>14, Zenon DEF T!EachWaitsOnce, all

(* The type invariant.                                                       *)
LEMMA TimerTypeOK ==
    ASSUME T!Assumption, TimerInv
    PROVE  T!TypeOK
<1>1. \A k \in DOMAIN nodes : nodes[k] \in Nat \X T!Live
  <2> TAKE k \in DOMAIN nodes
  <2>1. nodes[k][2] \in T!Live /\ nodes[k] \in Entry  BY TimerKept
  <2> QED  BY <2>1 DEF Entry
<1>2. \A k \in DOMAIN newNodes : newNodes[k] \in Nat \X T!Live
  <2> TAKE k \in DOMAIN newNodes
  <2>1. newNodes[k][2] \in T!Live /\ newNodes[k] \in Entry  BY TimerKept
  <2> QED  BY <2>1 DEF Entry
<1>3. \A k \in DOMAIN calls : calls[k] \in T!Ids  BY DEF TimerInv, Types
<1> QED  BY <1>1, <1>2, <1>3 DEF T!TypeOK, TimerInv, Types, Waits

(* A first entry that is not due means that none is, but those called at this*)
(* update; and the timer that is called is not deleted.                      *)
LEMMA Missed ==
    ASSUME T!Assumption, TimerInv
    PROVE  T!NoneMissed /\ T!StoppedIsQuiet
<1>1. ASSUME pc = "loop", ~T!Due, NEW i \in T!Live
      PROVE  node[i].expire > ms \/ (node[i].repeat /\ node[i].duration = 0)
  <2> HIDE DEF Entry
  <2>0. nodes \in Seq(Entry) /\ Ordered(nodes)  BY DEF TimerInv, Types, Lists
  <2>1. ms \in Nat /\ \A j \in T!Live : node[j] \in T!Node \cup {T!NoNode}
    BY DEF TimerInv, Types, T!Live, T!Assumption
  <2>2. CASE <<node[i].expire, i>> \in Of(nodes)
    <3>1. PICK k \in DOMAIN nodes : nodes[k] = <<node[i].expire, i>>  BY <2>2 DEF Of
    <3>2. 1 \in DOMAIN nodes /\ 1 <= k /\ nodes # <<>>  BY <2>0
    <3>3. nodes[1][1] <= nodes[k][1]  BY <2>0, <3>1, <3>2 DEF Ordered
    <3>4. nodes[1][1] = node[nodes[1][2]].expire /\ nodes[1][2] \in T!Live  BY <3>2, TimerKept
    <3>5. ~(ms >= node[nodes[1][2]].expire)  BY <1>1, <3>2 DEF T!Due
    <3>6. node[nodes[1][2]].expire \in Nat /\ node[i].expire \in Nat  BY <2>1, <3>4, NodeIs
    <3>7. nodes[k][1] = node[i].expire  BY <3>1
    <3> QED  BY <2>1, <3>3, <3>4, <3>5, <3>6, <3>7
  <2>3. CASE <<node[i].expire, i>> \in Of(newNodes)
    <3>1. PICK k \in DOMAIN newNodes : newNodes[k] = <<node[i].expire, i>>  BY <2>3 DEF Of
    <3>2. newNodes[k][1] = node[i].expire /\ newNodes[k][2] = i  BY <3>1
    <3>3. node[i].repeat /\ node[i].expire = ms + node[i].duration
      BY <1>1, <3>2 DEF TimerInv, Called
    <3>4. node[i].duration \in Nat  BY <2>1, NodeIs
    <3> QED  BY <2>1, <3>3, <3>4
  <2> QED  BY <2>2, <2>3, TimerKept
<1>2. ASSUME pc = "callback"  PROVE T!Last(calls) \notin stopped
  <2>1. nodes # <<>> /\ nodes[1][2] = calls[Len(calls)]  BY <1>2 DEF TimerInv, InCallback
  <2>2. 1 \in DOMAIN nodes
    <3>1. nodes \in Seq(Entry)  BY DEF TimerInv, Types, Lists
    <3> QED  BY <2>1, <3>1
  <2>3. nodes[1][2] \in T!Live  BY <2>2, TimerKept
  <2> QED  BY <2>1, <2>3 DEF T!Last, TimerInv, Given
<1> QED  BY <1>1, <1>2 DEF T!NoneMissed, T!StoppedIsQuiet

(* addTimer(), from a callback or between two updates.                       *)
LEMMA AddTimerStep ==
    ASSUME T!Assumption, TimerInv, NEW d \in Durations, NEW repeat \in BOOLEAN, T!AddTimer(d, repeat)
    PROVE  TimerInv'
<1> HIDE DEF Entry
<1> USE DEF TimerInv
<1> DEFINE e == <<now + d, nextId>>
           new == [expire |-> now + d, duration |-> d, repeat |-> repeat]
<1>0. /\ now \in Nat /\ now >= 1 /\ d \in Nat /\ nextId \in T!Ids /\ TimerIds \in Nat /\ TimerEnd \in Nat
      /\ node \in [T!Ids -> T!Node \cup {T!NoNode}]
  BY DEF T!AddTimer, Types, T!Assumption, T!Ids
<1>1. new \in T!Node /\ new # T!NoNode /\ new.expire = now + d
  <2>1. new \in T!Node /\ new.expire = now + d  BY <1>0 DEF T!Node
  <2>2. T!NoNode.expire = 0  BY DEF T!NoNode
  <2> QED  BY <1>0, <2>1, <2>2
<1>2. node' = [node EXCEPT ![nextId] = new]  BY DEF T!AddTimer
<1> HIDE DEF new
<1>3. /\ node' \in [T!Ids -> T!Node \cup {T!NoNode}] /\ node'[nextId] = new
      /\ \A i \in T!Ids : i # nextId => node'[i] = node[i]
  BY <1>0, <1>1, <1>2
<1>4. T!Live' = T!Live \cup {nextId} /\ nextId \notin T!Live /\ nextId \notin stopped
  <2>1. nextId \notin T!Live /\ nextId \notin stopped  BY <1>0 DEF Given, T!Ids
  <2> QED  BY <1>0, <1>1, <1>3, <2>1 DEF T!Live
<1>5. e \in Entry /\ e[1] = now + d /\ e[2] = nextId
  <2>1. now + d \in Nat  BY <1>0
  <2> QED  BY <1>0, <2>1, EntryIs
<1> HIDE DEF e
<1>6. nodes \in Lists /\ nodes \in Seq(Entry)  BY DEF Types, Lists
<1>7. \A k \in DOMAIN nodes : nodes[k][2] # e[2]  BY <1>4, <1>5, TimerKept
<1>8. nodes' = T!Insert(nodes, e)  BY DEF T!AddTimer, e
<1>9. /\ nodes' \in Lists /\ Of(nodes') = Of(nodes) \cup {e}
      /\ nodes # <<>> /\ nodes[1][1] <= e[1] => nodes' # <<>> /\ nodes'[1] = nodes[1]
  BY <1>5, <1>6, <1>7, <1>8, InsertIs
<1>10. Types'
  <2>1. nextId' \in 0 .. TimerIds  BY <1>0 DEF T!AddTimer, T!Ids
  <2> QED  BY <1>3, <1>9, <2>1 DEF T!AddTimer, Types
<1>11. \A j \in DOMAIN nodes' : nodes'[j] = e \/ \E k \in DOMAIN nodes : nodes'[j] = nodes[k]
  <2> TAKE j \in DOMAIN nodes'
  <2>1. nodes'[j] \in Of(nodes) \cup {e}  BY <1>9, Zenon DEF Of
  <2> QED  BY <2>1 DEF Of
<1>12. \A i \in T!Live : node'[i] = node[i] /\ i \in T!Live'  BY <1>3, <1>4 DEF T!Live
<1>13. Waits'
  <2>1. search' = T!Live'  BY <1>4 DEF T!AddTimer, Waits
  <2>2. newNodes' = newNodes  BY DEF T!AddTimer
  <2>3. \A j \in DOMAIN nodes', k \in DOMAIN newNodes : nodes'[j][2] # newNodes[k][2]
    <3> TAKE j \in DOMAIN nodes', k \in DOMAIN newNodes
    <3>1. CASE nodes'[j] = e  BY <1>4, <1>5, <3>1, TimerKept
    <3>2. CASE \E i \in DOMAIN nodes : nodes'[j] = nodes[i]  BY <3>2 DEF Waits
    <3> QED  BY <1>11, <3>1, <3>2
  <2>4. Waiting' = Waiting \cup {e}
    <3>1. e = <<node'[nextId].expire, nextId>>  BY <1>1, <1>3 DEF e
    <3> QED  BY <1>4, <1>12, <3>1 DEF Waiting
  <2>5. Of(nodes') \cup Of(newNodes) = Waiting'  BY <1>9, <2>4 DEF Waits
  <2> QED  BY <2>1, <2>2, <2>3, <2>5 DEF Waits
<1>14. Given'
  <2>0. stopped' = stopped /\ calls' = calls /\ nextId' = nextId + 1  BY DEF T!AddTimer
  <2>1. \A i \in T!Ids : i < nextId => i < nextId + 1  BY <1>0 DEF T!Ids
  <2>2. \A i \in T!Live' \cup stopped : i < nextId + 1
    <3> TAKE i \in T!Live' \cup stopped
    <3>1. CASE i = nextId  BY <1>0, <3>1 DEF T!Ids
    <3>2. CASE i # nextId
      <4>1. i \in T!Live \cup stopped /\ i \in T!Ids  BY <1>4, <3>2 DEF T!Live, Types
      <4> QED  BY <2>1, <4>1 DEF Given
    <3> QED  BY <3>1, <3>2
  <2>3. \A i \in T!Live' : i \notin stopped  BY <1>4 DEF Given
  <2>4. \A k \in DOMAIN calls : calls[k] < nextId + 1
    <3> TAKE k \in DOMAIN calls
    <3>1. calls[k] \in T!Ids /\ calls[k] < nextId  BY DEF Types, Given
    <3> QED  BY <2>1, <3>1
  <2> QED  BY <2>0, <2>2, <2>3, <2>4 DEF Given
<1>15. (pc = "callback" => InCallback)' /\ (pc = "callback" => nodes'[1] = nodes[1] /\ nodes' # <<>>)
  <2> SUFFICES ASSUME pc = "callback"  PROVE InCallback' /\ nodes'[1] = nodes[1] /\ nodes' # <<>>
    BY DEF T!AddTimer
  <2>1. InCallback /\ ms <= now /\ ms \in Nat  BY DEF Types
  <2>2. nodes[1][1] \in Nat
    <3>1. 1 \in DOMAIN nodes  BY <1>6, <2>1 DEF InCallback
    <3>2. nodes[1] \in Entry  BY <1>6, <3>1
    <3> QED  BY <3>2, EntryIs
  <2>3. nodes[1][1] <= e[1]  BY <1>0, <1>5, <2>1, <2>2 DEF InCallback
  <2>4. nodes'[1] = nodes[1] /\ nodes' # <<>>  BY <1>9, <2>1, <2>3 DEF InCallback
  <2> QED  BY <2>1, <2>4 DEF InCallback, T!AddTimer
<1>16. (pc # "out" => ms <= now /\ Called)'
  <2> SUFFICES ASSUME pc # "out"  PROVE Called'  BY DEF T!AddTimer
  <2>0. pc = "callback" /\ pc' = pc /\ calls' = calls /\ newNodes' = newNodes /\ ms' = ms
    BY DEF T!AddTimer
  <2>1. \A k \in DOMAIN newNodes : node'[newNodes[k][2]] = node[newNodes[k][2]]
    BY <1>12, TimerKept
  <2>2. ASSUME NEW j \in DOMAIN nodes', NEW k \in DOMAIN calls, nodes'[j][2] = calls[k]
        PROVE  k = Len(calls) /\ j = 1
    <3>1. nodes'[j] # e
      <4>1. calls[k] < nextId /\ calls[k] \in T!Ids  BY DEF Given, Types
      <4> QED  BY <1>0, <1>5, <2>2, <4>1 DEF T!Ids
    <3>2. PICK i \in DOMAIN nodes : nodes'[j] = nodes[i]  BY <1>11, <3>1
    <3>3. k = Len(calls) /\ i = 1  BY <2>0, <2>2, <3>2 DEF Called
    <3>4. nodes'[1][2] = nodes'[j][2] /\ 1 \in DOMAIN nodes' /\ IdsOnce(nodes')
      <4>1. 1 \in DOMAIN nodes'
        <5>1. nodes' \in Seq(Entry) /\ nodes' # <<>>  BY <1>9, <1>15, <2>0 DEF Lists
        <5> QED  BY <5>1
      <4> QED  BY <1>9, <1>15, <2>0, <3>2, <3>3, <4>1 DEF Lists
    <3> QED  BY <3>3, <3>4 DEF IdsOnce
  <2> QED  BY <2>0, <2>1, <2>2 DEF Called
<1> QED  BY <1>10, <1>13, <1>14, <1>15, <1>16 DEF T!AddTimer, T!OncePerUpdate

(* delTimer(), also of a timer that this update has called, or would have.   *)
LEMMA DelTimerStep ==
    ASSUME T!Assumption, TimerInv, NEW i \in T!Ids, T!DelTimer(i)
    PROVE  TimerInv'
<1> HIDE DEF Entry
<1> USE DEF TimerInv
<1>0. nodes \in Lists /\ nodes \in Seq(Entry) /\ node \in [T!Ids -> T!Node \cup {T!NoNode}]
  BY DEF Types, Lists
<1>1. PICK p \in DOMAIN nodes : nodes[p] = <<node[i].expire, i>> /\ nodes' = T!RemoveAt(nodes, p)
  BY DEF T!DelTimer
<1>2. i \in T!Live  BY DEF T!DelTimer, Waits
<1>3. /\ nodes' \in Lists /\ Of(nodes') = Of(nodes) \ {nodes[p]}
      /\ p # 1 => nodes' # <<>> /\ nodes'[1] = nodes[1]
  <2>1. p \in 1 .. Len(nodes)  BY <1>0
  <2>2. nodes' \in Seq(Entry) /\ Without(nodes', nodes, p)  BY <1>0, <1>1, <2>1, RemoveAtIs
  <2> QED  BY <1>0, <2>2, WithoutIs
<1>4. \A j \in T!Ids : node'[j] = IF j = i THEN T!NoNode ELSE node[j]
  BY <1>0 DEF T!DelTimer
<1>5. T!Live' = T!Live \ {i}  BY <1>4 DEF T!Live
<1>6. \A j \in DOMAIN nodes' : \E k \in DOMAIN nodes : k # p /\ nodes'[j] = nodes[k]
  <2> TAKE j \in DOMAIN nodes'
  <2>1. nodes'[j] \in Of(nodes) \ {nodes[p]}  BY <1>3, Zenon DEF Of
  <2> QED  BY <2>1 DEF Of
<1>7. \A j \in T!Live : j # i => node'[j] = node[j] /\ j \in T!Live'  BY <1>4, <1>5 DEF T!Live
<1>8. \A k \in DOMAIN newNodes : newNodes[k][2] # i
  BY <1>1 DEF Waits
<1>9. Types'
  <2>1. node' \in [T!Ids -> T!Node \cup {T!NoNode}]  BY <1>0 DEF T!DelTimer
  <2> QED  BY <1>3, <2>1 DEF T!DelTimer, Types
<1>10. Waits'
  <2>1. search' = T!Live' /\ newNodes' = newNodes  BY <1>5 DEF T!DelTimer, Waits
  <2>2. \A j \in DOMAIN nodes', k \in DOMAIN newNodes : nodes'[j][2] # newNodes[k][2]
    BY <1>6 DEF Waits
  <2>3. Waiting' = Waiting \ {nodes[p]}
    <3>1. \A x \in T!Live : x # i => <<node[x].expire, x>> # nodes[p]  BY <1>1
    <3> QED  BY <1>1, <1>5, <1>7, <3>1 DEF Waiting
  <2>4. nodes[p] \notin Of(newNodes)  BY <1>1, <1>8 DEF Of
  <2>5. Of(nodes') \cup Of(newNodes) = Waiting'  BY <1>3, <2>3, <2>4 DEF Waits
  <2> QED  BY <2>1, <2>2, <2>5 DEF Waits
<1>11. Given'
  <2>1. stopped' = stopped \cup {i} /\ calls' = calls /\ nextId' = nextId  BY DEF T!DelTimer
  <2> QED  BY <1>2, <1>5, <2>1 DEF Given
<1>12. pc = "callback" => p # 1  BY <1>1 DEF T!DelTimer, T!Calling
<1>13. (pc = "callback" => InCallback)'
  BY <1>3, <1>12 DEF InCallback, T!DelTimer
<1>14. (pc # "out" => ms <= now /\ Called)'
  <2> SUFFICES ASSUME pc # "out"  PROVE Called'  BY DEF T!DelTimer
  <2>0. pc = "callback" /\ pc' = pc /\ calls' = calls /\ newNodes' = newNodes /\ ms' = ms
    BY DEF T!DelTimer
  <2>1. \A k \in DOMAIN newNodes : node'[newNodes[k][2]] = node[newNodes[k][2]]
    BY <1>7, <1>8, TimerKept
  <2>2. ASSUME NEW j \in DOMAIN nodes', NEW k \in DOMAIN calls, nodes'[j][2] = calls[k]
        PROVE  k = Len(calls) /\ j = 1
    <3>1. PICK x \in DOMAIN nodes : nodes'[j] = nodes[x]  BY <1>6
    <3>2. k = Len(calls) /\ x = 1  BY <2>0, <2>2, <3>1 DEF Called
    <3>3. nodes'[1] = nodes'[j] /\ nodes' # <<>>  BY <1>3, <1>12, <2>0, <3>1, <3>2
    <3>4. 1 \in DOMAIN nodes' /\ IdsOnce(nodes')
      <4>1. nodes' \in Seq(Entry)  BY <1>3 DEF Lists
      <4> QED  BY <1>3, <3>3, <4>1 DEF Lists
    <3> QED  BY <3>2, <3>3, <3>4 DEF IdsOnce
  <2> QED  BY <2>0, <2>1, <2>2 DEF Called
<1> QED  BY <1>9, <1>10, <1>11, <1>13, <1>14 DEF T!DelTimer, T!OncePerUpdate

(* The first entry that is due is called.                                    *)
LEMMA CallBackStep ==
    ASSUME T!Assumption, TimerInv, T!CallBack
    PROVE  TimerInv'
<1> HIDE DEF Entry
<1> USE DEF TimerInv
<1> DEFINE i == nodes[1][2]
<1>0. nodes \in Seq(Entry) /\ nodes # <<>> /\ 1 \in DOMAIN nodes /\ calls \in Seq(T!Ids)
  BY DEF Types, Lists, T!CallBack, T!Due
<1>1. i \in T!Live /\ i \in T!Ids /\ nodes[1][1] = node[i].expire /\ i < nextId
  BY <1>0, TimerKept DEF T!Live, Given
<1>2. ms >= node[i].expire /\ pc = "loop"  BY DEF T!CallBack, T!Due
<1>3. /\ calls' \in Seq(T!Ids) /\ Len(calls') = Len(calls) + 1 /\ Len(calls) \in Nat
      /\ calls'[Len(calls) + 1] = i /\ calls' # <<>>
      /\ DOMAIN calls = 1 .. Len(calls) /\ DOMAIN calls' = 1 .. Len(calls) + 1
      /\ \A k \in 1 .. Len(calls) : calls'[k] = calls[k]
  BY <1>0, <1>1, AppendProperties DEF T!CallBack
<1> HIDE DEF i
<1>4. \A k \in DOMAIN calls' : \/ k = Len(calls') /\ calls'[k] = i
                               \/ k \in DOMAIN calls /\ calls'[k] = calls[k]
  BY <1>3
<1>5. \A j \in DOMAIN nodes, k \in DOMAIN calls : nodes[j][2] # calls[k]
  BY <1>2 DEF Called
<1>6. Types'  BY <1>3 DEF T!CallBack, Types
<1>7. Waits'  BY DEF T!CallBack, Waits, Waiting, T!Live
<1>8. Given'  BY <1>1, <1>4 DEF T!CallBack, Given, T!Live
<1>9. T!OncePerUpdate'
  BY <1>0, <1>4, <1>5 DEF T!OncePerUpdate, i
<1>10. (ms <= now /\ Called)'
  <2>1. \A j \in DOMAIN nodes, k \in DOMAIN calls' :
           nodes[j][2] = calls'[k] => k = Len(calls') /\ j = 1
    <3> SUFFICES ASSUME NEW j \in DOMAIN nodes, NEW k \in DOMAIN calls', nodes[j][2] = calls'[k]
                 PROVE  k = Len(calls') /\ j = 1
      OBVIOUS
    <3>1. k = Len(calls') /\ calls'[k] = i  BY <1>4, <1>5
    <3>2. IdsOnce(nodes)  BY DEF Types, Lists
    <3> QED  BY <1>0, <3>1, <3>2 DEF IdsOnce, i
  <2> QED  BY <1>2, <2>1 DEF T!CallBack, Called
<1>11. InCallback'
  BY <1>0, <1>1, <1>2, <1>3 DEF InCallback, T!CallBack, i
<1> QED  BY <1>2, <1>6, <1>7, <1>8, <1>9, <1>10, <1>11 DEF T!CallBack

(* Its callback returns: a timer that repeats goes to newNodes.              *)
LEMMA CallBackReturnsStep ==
    ASSUME T!Assumption, TimerInv, T!CallBackReturns
    PROVE  TimerInv'
<1> HIDE DEF Entry
<1> USE DEF TimerInv
<1> DEFINE i == nodes[1][2]
           e == <<ms + node[i].duration, i>>
<1>0. /\ pc = "callback" /\ nodes \in Lists /\ nodes \in Seq(Entry) /\ nodes # <<>> /\ 1 \in DOMAIN nodes
      /\ node \in [T!Ids -> T!Node \cup {T!NoNode}] /\ ms \in Nat /\ newNodes \in Seq(Entry)
  BY DEF Types, Lists, T!CallBackReturns, InCallback, T!Assumption
<1>1. i \in T!Live /\ i \in T!Ids /\ nodes[1][1] = node[i].expire /\ nodes[1] \in Entry
  BY <1>0, TimerKept DEF T!Live
<1>2. /\ nodes' \in Lists /\ Of(nodes') = Of(nodes) \ {nodes[1]} /\ Without(nodes', nodes, 1)
  <2>1. nodes' = Tail(nodes)  BY DEF T!CallBackReturns
  <2>2. nodes' \in Seq(Entry) /\ Without(nodes', nodes, 1)  BY <1>0, <2>1, TailIs
  <2> QED  BY <1>0, <2>2, WithoutIs
<1>3. node[i] \in T!Node /\ node[i] # T!NoNode /\ node[i].duration \in Nat
  BY <1>0, <1>1, NodeIs DEF T!Live
<1>4. e \in Entry /\ e[1] = ms + node[i].duration /\ e[2] = i
  <2>1. ms + node[i].duration \in Nat  BY <1>0, <1>3
  <2> HIDE DEF i
  <2> QED  BY <1>1, <2>1, EntryIs
<1> HIDE DEF i, e
<1>5. \A k \in DOMAIN newNodes : newNodes[k][2] # i  BY <1>0 DEF Waits, i
<1>6. \A j \in DOMAIN nodes' : \E k \in DOMAIN nodes : k # 1 /\ nodes'[j] = nodes[k]
  <2> TAKE j \in DOMAIN nodes'
  <2>1. nodes'[j] \in Of(nodes) \ {nodes[1]}  BY <1>2, Zenon DEF Of
  <2> QED  BY <2>1 DEF Of
<1>7. \A j \in DOMAIN nodes' : nodes'[j][2] # i
  <2> TAKE j \in DOMAIN nodes'
  <2>1. PICK k \in DOMAIN nodes : k # 1 /\ nodes'[j] = nodes[k]  BY <1>6
  <2>2. IdsOnce(nodes)  BY <1>0 DEF Lists
  <2> QED  BY <1>0, <2>1, <2>2 DEF IdsOnce, i
<1>8. \A j \in DOMAIN nodes', k \in DOMAIN calls : nodes'[j][2] # calls[k]
  BY <1>0, <1>6 DEF Called
<1>9. Waiting \ {nodes[1]} = {<<node[x].expire, x>> : x \in T!Live \ {i}}
  <2>1. nodes[1] = <<node[i].expire, i>>  BY <1>1, EntryIs DEF i
  <2>2. \A x \in T!Live : x # i => <<node[x].expire, x>> # nodes[1]  BY <2>1
  <2> QED  BY <1>1, <2>1, <2>2 DEF Waiting
<1>10. nodes[1] \notin Of(newNodes)  BY <1>5 DEF Of, i
<1>11. CASE node[i].repeat
  <2> DEFINE new == [node[i] EXCEPT !.expire = ms + node[i].duration]
  <2>1. new \in T!Node /\ new # T!NoNode /\ new.expire = ms + node[i].duration /\ new.repeat
        /\ new.duration = node[i].duration
    <3>1. /\ new \in T!Node /\ new.expire = ms + node[i].duration /\ new.repeat
          /\ new.duration = node[i].duration
      BY <1>0, <1>3, <1>11 DEF T!Node
    <3>2. ~T!NoNode.repeat  BY DEF T!NoNode
    <3> QED  BY <3>1, <3>2, Zenon
  <2>2. node' = [node EXCEPT ![i] = new]  BY <1>11 DEF T!CallBackReturns, i
  <2> HIDE DEF new
  <2>3. /\ node' \in [T!Ids -> T!Node \cup {T!NoNode}] /\ node'[i] = new
        /\ \A j \in T!Ids : j # i => node'[j] = node[j]
    BY <1>0, <1>1, <2>1, <2>2
  <2>4. T!Live' = T!Live  BY <1>1, <1>3, <2>1, <2>3 DEF T!Live
  <2>5. newNodes' = Append(newNodes, e)  BY <1>11 DEF T!CallBackReturns, i, e
  <2>6. /\ newNodes' \in Seq(Entry) /\ IdsOnce(newNodes') /\ Of(newNodes') = Of(newNodes) \cup {e}
        /\ \A k \in DOMAIN newNodes' : newNodes'[k] = e \/ (k \in DOMAIN newNodes /\ newNodes'[k] = newNodes[k])
    <3>1. IdsOnce(newNodes) /\ IsNew(e, newNodes)  BY <1>4, <1>5 DEF Types, IsNew
    <3>2. e \in Entry /\ newNodes \in Seq(Entry)  BY <1>0, <1>4
    <3>3. newNodes' \in Seq(Entry) /\ Longer(newNodes', newNodes, e)
      BY <2>5, <3>1, <3>2, AppendOne, Zenon
    <3> QED  BY <3>3 DEF Longer
  <2>7. Types'  BY <1>2, <2>3, <2>6 DEF T!CallBackReturns, Types
  <2>8. Waits'
    <3>1. search' = T!Live'  BY <1>11, <2>4 DEF T!CallBackReturns, Waits, i
    <3>2. \A j \in DOMAIN nodes', k \in DOMAIN newNodes' : nodes'[j][2] # newNodes'[k][2]
      BY <1>4, <1>6, <1>7, <2>6 DEF Waits
    <3>3. Waiting' = (Waiting \ {nodes[1]}) \cup {e}
      <4>1. e = <<node'[i].expire, i>>  BY <2>1, <2>3 DEF e
      <4>2. \A x \in T!Live \ {i} : node'[x] = node[x]  BY <2>3 DEF T!Live
      <4>3. Waiting' = {<<node'[x].expire, x>> : x \in T!Live}  BY <2>4 DEF Waiting
      <4>4. {<<node'[x].expire, x>> : x \in T!Live \ {i}} = {<<node[x].expire, x>> : x \in T!Live \ {i}}
        BY <4>2
      <4>5. Waiting' = {<<node'[x].expire, x>> : x \in T!Live \ {i}} \cup {e}
        BY <1>1, <4>1, <4>3
      <4> QED  BY <1>9, <4>4, <4>5
    <3>4. Of(nodes') \cup Of(newNodes') = Waiting'
      BY <1>2, <1>10, <2>6, <3>3 DEF Waits
    <3> QED  BY <3>1, <3>2, <3>4 DEF Waits
  <2>9. Given'  BY <2>4 DEF T!CallBackReturns, Given
  <2>10. (ms <= now /\ Called)'
    <3>1. ASSUME NEW k \in DOMAIN newNodes'
          PROVE  /\ node'[newNodes'[k][2]].repeat
                 /\ newNodes'[k][1] = ms + node'[newNodes'[k][2]].duration
      <4>1. CASE newNodes'[k] = e  BY <1>4, <2>1, <2>3, <4>1
      <4>2. CASE k \in DOMAIN newNodes /\ newNodes'[k] = newNodes[k]
        <5>1. newNodes[k][2] \in T!Ids /\ newNodes[k][2] # i  BY <1>5, <4>2, TimerKept DEF T!Live
        <5>2. node'[newNodes[k][2]] = node[newNodes[k][2]]  BY <2>3, <5>1
        <5> QED  BY <1>0, <4>2, <5>2 DEF Called
      <4> QED  BY <2>6, <4>1, <4>2
    <3>2. ms <= now /\ UNCHANGED <<ms, calls, now>>  BY <1>0 DEF T!CallBackReturns
    <3> QED  BY <1>8, <3>1, <3>2 DEF Called
  <2> QED  BY <2>7, <2>8, <2>9, <2>10 DEF T!CallBackReturns, T!OncePerUpdate
<1>12. CASE ~node[i].repeat
  <2>1. \A j \in T!Ids : node'[j] = IF j = i THEN T!NoNode ELSE node[j]
    BY <1>0, <1>12 DEF T!CallBackReturns, i
  <2>2. T!Live' = T!Live \ {i}  BY <2>1 DEF T!Live
  <2>3. newNodes' = newNodes  BY <1>12 DEF T!CallBackReturns, i
  <2>4. Types'
    <3>1. node' \in [T!Ids -> T!Node \cup {T!NoNode}]  BY <1>0, <1>12, Zenon DEF T!CallBackReturns, i
    <3> QED  BY <1>2, <2>3, <3>1 DEF T!CallBackReturns, Types
  <2>5. Waits'
    <3>1. search' = T!Live'  BY <1>12, <2>2 DEF T!CallBackReturns, Waits, i
    <3>2. \A j \in DOMAIN nodes', k \in DOMAIN newNodes : nodes'[j][2] # newNodes[k][2]
      BY <1>6 DEF Waits
    <3>3. Waiting' = Waiting \ {nodes[1]}
      <4>1. \A x \in T!Live \ {i} : node'[x] = node[x]  BY <2>1 DEF T!Live
      <4>2. {<<node'[x].expire, x>> : x \in T!Live \ {i}} = {<<node[x].expire, x>> : x \in T!Live \ {i}}
        BY <4>1
      <4>3. Waiting' = {<<node'[x].expire, x>> : x \in T!Live \ {i}}  BY <2>2 DEF Waiting
      <4> QED  BY <1>9, <4>2, <4>3
    <3>4. Of(nodes') \cup Of(newNodes) = Waiting'  BY <1>2, <1>10, <3>3 DEF Waits
    <3> QED  BY <2>3, <3>1, <3>2, <3>4 DEF Waits
  <2>6. Given'  BY <2>2 DEF T!CallBackReturns, Given
  <2>7. (ms <= now /\ Called)'
    <3>1. ASSUME NEW k \in DOMAIN newNodes
          PROVE  node'[newNodes[k][2]] = node[newNodes[k][2]]
      <4>1. newNodes[k][2] \in T!Ids /\ newNodes[k][2] # i  BY <1>5, TimerKept DEF T!Live
      <4> QED  BY <2>1, <4>1
    <3> QED  BY <1>0, <1>8, <2>3, <3>1 DEF T!CallBackReturns, Called
  <2> QED  BY <2>4, <2>5, <2>6, <2>7 DEF T!CallBackReturns, T!OncePerUpdate
<1> QED  BY <1>11, <1>12

(* newNodes go back to m_nodes.                                              *)
LEMMA UpdateEndStep ==
    ASSUME T!Assumption, TimerInv, T!UpdateEnd
    PROVE  TimerInv'
<1> HIDE DEF Entry
<1> USE DEF TimerInv
<1>1. nodes' \in Lists /\ Of(nodes') = Waiting
  <2>1. nodes' = T!Merged[Len(newNodes)]  BY DEF T!UpdateEnd
  <2>2. nodes \in Lists /\ newNodes \in Seq(Entry) /\ IdsOnce(newNodes)  BY DEF Types
  <2>3. \A j \in DOMAIN nodes, k \in DOMAIN newNodes : nodes[j][2] # newNodes[k][2]  BY DEF Waits
  <2> QED  BY <2>1, <2>2, <2>3, MergedIs, Zenon DEF Waits
<1>2. newNodes' = <<>> /\ newNodes' \in Seq(Entry) /\ IdsOnce(newNodes')
  BY DEF T!UpdateEnd, IdsOnce
<1>3. Types'  BY <1>1, <1>2 DEF T!UpdateEnd, Types
<1>4. Waits'
  <2>1. Of(newNodes') = {} /\ DOMAIN newNodes' = {}  BY <1>2 DEF Of
  <2>2. Waiting' = Waiting /\ T!Live' = T!Live  BY DEF T!UpdateEnd, Waiting, T!Live
  <2> QED  BY <1>1, <2>1, <2>2 DEF T!UpdateEnd, Waits
<1>5. Given'  BY DEF T!UpdateEnd, Given, T!Live
<1> QED  BY <1>2, <1>3, <1>4, <1>5 DEF T!UpdateEnd, T!OncePerUpdate

(* Every step of a Timer keeps the invariant.                                *)
LEMMA TimerStep ==
    ASSUME T!Assumption, TimerInv, [T!Next]_(T!vars)
    PROVE  TimerInv'
<1>1. CASE UNCHANGED T!vars
  BY <1>1 DEF T!vars, TimerInv, Types, Waits, Waiting, Given, Called, InCallback, T!OncePerUpdate, T!Live
<1>2. ASSUME NEW d \in Durations, NEW repeat \in BOOLEAN, T!AddTimer(d, repeat)  PROVE TimerInv'
  BY <1>2, AddTimerStep
<1>3. ASSUME NEW i \in T!Ids, T!DelTimer(i)  PROVE TimerInv'  BY <1>3, DelTimerStep
<1>4. CASE T!UpdateBegin
  <2> USE <1>4 DEF T!UpdateBegin, TimerInv
  <2>1. newNodes = <<>> /\ DOMAIN newNodes = {}  OBVIOUS
  <2>2. Types'
    <3>1. now \in 0 .. TimerEnd /\ <<>> \in Seq(T!Ids)  BY DEF Types, T!Assumption
    <3> QED  BY <3>1 DEF Types
  <2>3. Waits'  BY DEF Waits, Waiting, T!Live
  <2>4. Given' /\ T!OncePerUpdate'  BY DEF Given, T!Live, T!OncePerUpdate
  <2>5. (ms <= now /\ Called)'
    <3>1. now <= now  BY DEF Types, T!Assumption
    <3> QED  BY <2>1, <3>1 DEF Called
  <2> QED  BY <2>2, <2>3, <2>4, <2>5
<1>5. CASE T!CallBack  BY <1>5, CallBackStep
<1>6. CASE T!CallBackReturns  BY <1>6, CallBackReturnsStep
<1>7. CASE T!UpdateEnd  BY <1>7, UpdateEndStep
<1>8. CASE T!Tick
  <2> USE <1>8 DEF T!Tick, TimerInv
  <2>1. now' \in 1 .. TimerEnd  BY DEF Types, T!Assumption
  <2>2. pc # "out" => ms <= now'  BY DEF Types, T!Assumption
  <2>3. Types'  BY <2>1 DEF Types
  <2>4. Waits' /\ Given' /\ T!OncePerUpdate'  BY DEF Waits, Waiting, T!Live, Given, T!OncePerUpdate
  <2> QED  BY <2>2, <2>3, <2>4 DEF Called, InCallback
<1> QED  BY <1>1, <1>2, <1>3, <1>4, <1>5, <1>6, <1>7, <1>8 DEF T!Next

(* A new Timer has it.                                                       *)
LEMMA TimerInit == T!Assumption /\ T!Init => TimerInv
<1> SUFFICES ASSUME T!Assumption, T!Init  PROVE TimerInv  OBVIOUS
<1>1. \A i \in T!Ids : node[i] = T!NoNode  BY DEF T!Init
<1>2. T!Live = {}  BY <1>1 DEF T!Live
<1>3. <<>> \in Lists /\ <<>> \in Seq(Entry) /\ IdsOnce(<<>>) /\ <<>> \in Seq(T!Ids) /\ Of(<<>>) = {}
  BY DEF Lists, Ordered, IdsOnce, Of
<1>4. Types
  <2>1. node \in [T!Ids -> T!Node \cup {T!NoNode}]  BY DEF T!Init
  <2> QED  BY <1>3, <2>1 DEF Types, T!Init, T!Assumption
<1>5. Waits  BY <1>2, <1>3 DEF Waits, Waiting, T!Init
<1> QED  BY <1>2, <1>4, <1>5 DEF TimerInv, Given, T!OncePerUpdate, T!Init


-----------------------------------------------------------------------------
(* RollLog.                                                                  *)

(* The size of a file.                                                       *)
Sums(g, f, k) == g = [n \in 0 .. k |-> IF n = 0 THEN 0 ELSE g[n - 1] + f[n].size]

(* There is such a g, by induction over m.                                   *)
LEMMA SumsExists ==
    ASSUME NEW f, NEW m \in Nat
    PROVE  \E g : Sums(g, f, m)
<1> DEFINE A == {k \in Nat : \E g : Sums(g, f, k)}
<1>1. 0 \in A
  <2> DEFINE g == [i \in 0 .. 0 |-> 0]
  <2>1. \A i \in 0 .. 0 : i = 0  OBVIOUS
  <2>2. g = [i \in 0 .. 0 |-> IF i = 0 THEN 0 ELSE g[i - 1] + f[i].size]
    BY <2>1, Zenon
  <2> QED  BY <2>2, Zenon DEF Sums
<1>2. ASSUME NEW k \in Nat, k \in A  PROVE k + 1 \in A
  <2>1. PICK g : Sums(g, f, k)  BY <1>2
  <2> DEFINE e == g[k] + f[k + 1].size
             H(i) == IF i = k + 1 THEN e ELSE g[i]
             h == [i \in 0 .. k + 1 |-> H(i)]
             F(i) == IF i = 0 THEN 0 ELSE h[i - 1] + f[i].size
  <2>2. ASSUME NEW i \in 0 .. k + 1  PROVE h[i] = F(i)
    <3> HIDE DEF e
    <3>1. CASE i = k + 1
      <4>1. h[i] = e  BY <3>1
      <4>2. i - 1 \in 0 .. k + 1 /\ i - 1 # k + 1 /\ i - 1 = k /\ i # 0  BY <3>1
      <4>3. h[i - 1] = g[k]  BY <4>2
      <4> HIDE DEF h
      <4>4. F(i) = g[k] + f[k + 1].size  BY <3>1, <4>2, <4>3
      <4> QED  BY <4>1, <4>4 DEF e
    <3>2. CASE i # k + 1
      <4>1. i \in 0 .. k /\ h[i] = g[i]  BY <3>2
      <4>2. i # 0 => i - 1 \in 0 .. k + 1 /\ i - 1 # k + 1  BY <4>1
      <4>3. i # 0 => h[i - 1] = g[i - 1]  BY <4>2
      <4>4. g[i] = IF i = 0 THEN 0 ELSE g[i - 1] + f[i].size
        BY <2>1, <4>1, Zenon DEF Sums
      <4> HIDE DEF h
      <4> QED  BY <4>1, <4>3, <4>4
    <3> QED  BY <3>1, <3>2
  <2> HIDE DEF e
  <2>3. h = [i \in 0 .. k + 1 |-> F(i)]
    <3>1. \A i \in 0 .. k + 1 : H(i) = F(i)  BY <2>2
    <3> HIDE DEF F, H
    <3> QED  BY <3>1
  <2>4. Sums(h, f, k + 1)  BY <2>3, Zenon DEF Sums
  <2> HIDE DEF h
  <2>5. \E x : Sums(x, f, k + 1)  BY <2>4, Zenon
  <2> QED  BY <2>5
<1> HIDE DEF A
<1>3. m \in A  BY <1>1, <1>2, Induct
<1> QED  BY <1>3 DEF A

(* Its recursion, one step.                                                  *)
LEMMA SumsStep ==
    ASSUME NEW g, NEW f, NEW k \in Nat, Sums(g, f, k)
    PROVE  g[0] = 0 /\ \A i \in 0 .. k : i + 1 <= k => g[i + 1] = g[i] + f[i + 1].size
<1>1. \A i \in 0 .. k : g[i] = IF i = 0 THEN 0 ELSE g[i - 1] + f[i].size
  <2>1. \A i \in 0 .. k : [n \in 0 .. k |-> IF n = 0 THEN 0 ELSE g[n - 1] + f[n].size][i]
                             = IF i = 0 THEN 0 ELSE g[i - 1] + f[i].size
    BY Zenon
  <2> QED  BY <2>1, Zenon DEF Sums
<1>2. 0 \in 0 .. k  OBVIOUS
<1>3. ASSUME NEW i \in 0 .. k, i + 1 <= k  PROVE g[i + 1] = g[i] + f[i + 1].size
  <2>1. i + 1 \in 0 .. k /\ i + 1 # 0 /\ (i + 1) - 1 = i  BY <1>3
  <2>2. g[i + 1] = g[(i + 1) - 1] + f[i + 1].size  BY <1>1, <2>1
  <2> QED  BY <2>1, <2>2
<1> QED  BY <1>1, <1>2, <1>3

(* Lines of the same sizes have the same sum.                                *)
LEMMA SumsAgree ==
    ASSUME NEW g, NEW h, NEW f, NEW e, NEW k \in Nat, NEW m \in Nat, NEW n \in Nat, n <= k, n <= m,
           Sums(g, f, k), Sums(h, e, m), \A i \in 1 .. n : f[i].size = e[i].size
    PROVE  g[n] = h[n]
<1> DEFINE A == {i \in Nat : i <= n => g[i] = h[i]}
<1>0. /\ g[0] = 0 /\ \A i \in 0 .. k : i + 1 <= k => g[i + 1] = g[i] + f[i + 1].size
      /\ h[0] = 0 /\ \A i \in 0 .. m : i + 1 <= m => h[i + 1] = h[i] + e[i + 1].size
  BY SumsStep
<1>1. 0 \in A  BY <1>0
<1>2. ASSUME NEW i \in Nat, i \in A  PROVE i + 1 \in A
  <2> SUFFICES ASSUME i + 1 <= n  PROVE g[i + 1] = h[i + 1]  OBVIOUS
  <2>1. i \in 0 .. k /\ i \in 0 .. m /\ i + 1 <= k /\ i + 1 <= m /\ i + 1 \in 1 .. n  OBVIOUS
  <2>2. g[i] = h[i]  BY <1>2
  <2> QED  BY <1>0, <2>1, <2>2
<1> HIDE DEF A
<1>3. n \in A  BY <1>1, <1>2, Induct
<1> QED  BY <1>3 DEF A

(* FileSize is what any such g ends with.                                    *)
LEMMA FileSizeIs ==
    ASSUME NEW f
    PROVE  Len(f) \in Nat => \E g : Sums(g, f, Len(f)) /\ R!FileSize(f) = g[Len(f)]
<1> SUFFICES ASSUME Len(f) \in Nat
             PROVE  \E g : Sums(g, f, Len(f)) /\ R!FileSize(f) = g[Len(f)]
  OBVIOUS
<1> DEFINE g == CHOOSE g : g = [n \in 0 .. Len(f) |-> IF n = 0 THEN 0 ELSE g[n - 1] + f[n].size]
<1>1. \E x : Sums(x, f, Len(f))  BY SumsExists
<1>2. Sums(g, f, Len(f))  BY <1>1, Zenon DEF Sums
<1>3. R!FileSize(f) = g[Len(f)]  BY Zenon DEF R!FileSize
<1> QED  BY <1>2, <1>3, Zenon

(* An empty file has no size.                                                *)
LEMMA SizeEmpty == R!FileSize(<<>>) = 0
<1>1. Len(<<>>) = 0  OBVIOUS
<1>2. PICK g : Sums(g, <<>>, 0) /\ R!FileSize(<<>>) = g[0]
  <2>1. Len(<<>>) \in Nat  BY <1>1
  <2> QED  BY <1>1, <2>1, FileSizeIs
<1> QED  BY <1>2, SumsStep

(* A line more adds its size.                                                *)
LEMMA SizeAppend ==
    ASSUME NEW S, NEW f \in Seq(S), NEW l \in S
    PROVE  R!FileSize(Append(f, l)) = R!FileSize(f) + l.size
<1> DEFINE t == Append(f, l)
<1>1. PICK n \in Nat : n = Len(f)  OBVIOUS
<1>2. Len(t) = n + 1 /\ t[n + 1] = l /\ \A i \in 1 .. n : t[i] = f[i]  BY <1>1, AppendProperties
<1> HIDE DEF t
<1>3. PICK g : Sums(g, f, n) /\ R!FileSize(f) = g[n]  BY <1>1, FileSizeIs
<1>4. PICK h : Sums(h, t, n + 1) /\ R!FileSize(t) = h[n + 1]
  <2>1. Len(t) \in Nat  BY <1>2
  <2> QED  BY <1>2, <2>1, FileSizeIs
<1>5. g[n] = h[n]
  <2>1. PICK m \in Nat : m = n + 1  OBVIOUS
  <2>2. n <= n /\ n <= m /\ Sums(h, t, m) /\ \A i \in 1 .. n : f[i].size = t[i].size
    BY <1>2, <1>4, <2>1
  <2> QED  BY <1>3, <2>2, SumsAgree
<1>6. h[n + 1] = h[n] + t[n + 1].size
  <2>1. PICK m \in Nat : m = n + 1  OBVIOUS
  <2>2. \A i \in 0 .. m : i + 1 <= m => h[i + 1] = h[i] + t[i + 1].size  BY <1>4, <2>1, SumsStep
  <2> QED  BY <2>1, <2>2
<1> QED  BY <1>2, <1>3, <1>4, <1>5, <1>6 DEF t

(* The size of a file is a number.                                           *)
LEMMA SizeType ==
    ASSUME R!Assumption, NEW f \in Seq(R!Line)
    PROVE  R!FileSize(f) \in Nat
<1>1. PICK n \in Nat : n = Len(f)  OBVIOUS
<1>2. PICK g : Sums(g, f, n) /\ R!FileSize(f) = g[n]  BY <1>1, FileSizeIs
<1>3. g[0] = 0 /\ \A i \in 0 .. n : i + 1 <= n => g[i + 1] = g[i] + f[i + 1].size  BY <1>2, SumsStep
<1>4. \A i \in 1 .. n : f[i].size \in Nat
  <2>1. \A i \in 1 .. n : f[i] \in R!Line  BY <1>1
  <2>2. \A l \in R!Line : l.size \in Nat  BY Zenon DEF R!Line, R!Assumption
  <2> QED  BY <2>1, <2>2
<1> DEFINE A == {i \in Nat : i <= n => g[i] \in Nat}
<1>5. 0 \in A  BY <1>3
<1>6. ASSUME NEW i \in Nat, i \in A  PROVE i + 1 \in A
  <2> SUFFICES ASSUME i + 1 <= n  PROVE g[i + 1] \in Nat  OBVIOUS
  <2>1. i \in 0 .. n /\ i + 1 \in 1 .. n  OBVIOUS
  <2>2. g[i] \in Nat /\ f[i + 1].size \in Nat /\ g[i + 1] = g[i] + f[i + 1].size
    BY <1>3, <1>4, <1>6, <2>1
  <2> QED  BY <2>2
<1> HIDE DEF A
<1>7. n \in A  BY <1>5, <1>6, Induct
<1> QED  BY <1>2, <1>7 DEF A

-----------------------------------------------------------------------------
(* The last elements of a sequence.                                          *)
Suffix(s, t) == \E k \in 0 .. Len(t) : s = SubSeq(t, k + 1, Len(t))

(* Both grow by the same line.                                               *)
LEMMA RollSuffixAppend ==
    ASSUME NEW S, NEW s \in Seq(S), NEW t \in Seq(S), NEW x \in S, Suffix(s, t)
    PROVE  Suffix(Append(s, x), Append(t, x))
<1>1. PICK n \in Nat : n = Len(t)  OBVIOUS
<1>2. PICK k \in 0 .. n : s = SubSeq(t, k + 1, n)  BY <1>1 DEF Suffix
<1> DEFINE v == Append(t, x)
           w == SubSeq(v, k + 1, n + 1)
<1>3. v \in Seq(S) /\ Len(v) = n + 1 /\ v[n + 1] = x /\ \A i \in 1 .. n : v[i] = t[i]
  BY <1>1, AppendProperties
<1>4. Len(s) = n - k /\ \A i \in 1 .. n - k : s[i] = t[k + i]  BY <1>1, <1>2
<1> HIDE DEF v
<1>5. w \in Seq(S) /\ Len(w) = n + 1 - k /\ \A i \in 1 .. n + 1 - k : w[i] = v[k + i]
  BY <1>3
<1> HIDE DEF w
<1>6. Append(s, x) = w
  <2>0. PICK q \in Nat : q = Len(s) /\ q = n - k  BY <1>4
  <2>1. /\ Append(s, x) \in Seq(S) /\ Len(Append(s, x)) = n + 1 - k
        /\ \A i \in 1 .. n + 1 - k : Append(s, x)[i] = IF i = n + 1 - k THEN x ELSE s[i]
    <3>1. /\ Append(s, x) \in Seq(S) /\ Len(Append(s, x)) = Len(s) + 1 /\ Append(s, x)[Len(s) + 1] = x
          /\ \A i \in 1 .. Len(s) : Append(s, x)[i] = s[i]
      BY AppendProperties
    <3>2. q + 1 = n + 1 - k  BY <2>0
    <3>3. \A i \in 1 .. n + 1 - k : i # n + 1 - k => i \in 1 .. q  BY <2>0
    <3> QED  BY <2>0, <3>1, <3>2, <3>3
  <2>2. ASSUME NEW i \in 1 .. n + 1 - k  PROVE Append(s, x)[i] = w[i]
    <3>1. CASE i = n + 1 - k
      <4>1. k + i = n + 1  BY <3>1
      <4> QED  BY <1>3, <1>5, <2>1, <3>1, <4>1
    <3>2. CASE i # n + 1 - k
      <4>1. i \in 1 .. n - k /\ k + i \in 1 .. n  BY <3>2
      <4> QED  BY <1>3, <1>4, <1>5, <2>1, <3>2, <4>1
    <3> QED  BY <3>1, <3>2, Zenon
  <2> QED  BY <1>5, <2>1, <2>2, SeqEqual
<1>7. k \in 0 .. Len(v)  BY <1>3
<1> QED  BY <1>3, <1>6, <1>7, Zenon DEF Suffix, v, w

(* What is left when the front goes.                                         *)
LEMMA SuffixOf ==
    ASSUME NEW S, NEW d \in Seq(S), NEW s \in Seq(S), NEW t \in Seq(S), Suffix(d \o s, t)
    PROVE  Suffix(s, t)
<1>1. PICK n, m, p \in Nat : n = Len(t) /\ m = Len(d) /\ p = Len(s)  OBVIOUS
<1>2. PICK k \in 0 .. n : d \o s = SubSeq(t, k + 1, n)  BY <1>1 DEF Suffix
<1> DEFINE w == SubSeq(t, k + 1, n)
           v == SubSeq(t, k + m + 1, n)
<1>3. w \in Seq(S) /\ Len(w) = n - k /\ \A i \in 1 .. n - k : w[i] = t[k + i]  BY <1>1
<1> HIDE DEF w
<1>4. Len(w) = m + p /\ \A i \in 1 .. m + p : w[i] = IF i <= m THEN d[i] ELSE s[i - m]
  <2>1. w = d \o s  BY <1>1, <1>2 DEF w
  <2>2. /\ Len(d \o s) = Len(d) + Len(s)
        /\ \A i \in 1 .. Len(d) + Len(s) : (d \o s)[i] = IF i <= Len(d) THEN d[i] ELSE s[i - Len(d)]
    BY ConcatProperties, Zenon
  <2> QED  BY <1>1, <2>1, <2>2, Zenon
<1>5. k + m \in 0 .. n /\ p = n - (k + m)
  <2>1. n - k = m + p  BY <1>3, <1>4, Zenon
  <2> QED  BY <2>1
<1>6. v \in Seq(S) /\ Len(v) = p /\ \A i \in 1 .. p : v[i] = t[k + m + i]
  BY <1>1, <1>5
<1> HIDE DEF v
<1>7. \A i \in 1 .. p : s[i] = v[i]
  <2> TAKE i \in 1 .. p
  <2>1. m + i \in 1 .. m + p /\ ~(m + i <= m) /\ (m + i) - m = i /\ k + (m + i) = k + m + i  BY <1>5
  <2>2. w[m + i] = s[(m + i) - m]  BY <1>4, <2>1
  <2>3. w[m + i] = t[k + (m + i)]  BY <1>3, <1>4, <2>1
  <2>4. v[i] = t[k + m + i]  BY <1>6
  <2> QED  BY <2>1, <2>2, <2>3, <2>4, Zenon
<1>8. s = v  BY <1>1, <1>6, <1>7, SeqEqual
<1> QED  BY <1>1, <1>5, <1>8, Zenon DEF Suffix, v

-----------------------------------------------------------------------------
(* The files, one behind the other.                                          *)
LEMMA FlattenDrop ==
    ASSUME NEW S, NEW ss \in Seq(Seq(S)), NEW tt \in Seq(Seq(S)), Len(ss) = Len(tt), Len(ss) # 0,
           tt[1] = <<>>, \A i \in 2 .. Len(ss) : tt[i] = ss[i]
    PROVE  Flatten(ss) = ss[1] \o Flatten(tt)
<1>1. PICK n \in Nat \ {0} : n = Len(ss)  OBVIOUS
<1>2. PICK r \in Seq(Seq(S)) : r = SubSeq(ss, 2, n)
  <2>1. SubSeq(ss, 2, n) \in Seq(Seq(S))  BY <1>1
  <2> QED  BY <2>1, Zenon
<1>3. ss = <<ss[1]>> \o r
  <2>1. 1 \in 1 .. Len(ss) /\ n \in 1 .. Len(ss) /\ 1 + 1 = 2  BY <1>1
  <2>2. SubSeq(ss, 1, n) = <<ss[1]>> \o SubSeq(ss, 1 + 1, n)  BY <2>1, SubSeqRecursiveFirst, Zenon
  <2>3. SubSeq(ss, 1, n) = ss  BY <1>1, SubSeqFull, Zenon
  <2> QED  BY <1>2, <2>1, <2>2, <2>3, Zenon
<1>4. tt = <<tt[1]>> \o r
  <2>1. 1 \in 1 .. Len(tt) /\ n \in 1 .. Len(tt) /\ 1 + 1 = 2  BY <1>1
  <2>2. SubSeq(tt, 1, n) = <<tt[1]>> \o SubSeq(tt, 1 + 1, n)  BY <2>1, SubSeqRecursiveFirst, Zenon
  <2>3. SubSeq(tt, 1, n) = tt  BY <1>1, SubSeqFull, Zenon
  <2>4. SubSeq(tt, 2, n) = r
    <3>1. SubSeq(tt, 2, n) \in Seq(Seq(S)) /\ Len(SubSeq(tt, 2, n)) = n - 1
          /\ \A i \in 1 .. n - 1 : SubSeq(tt, 2, n)[i] = tt[i + 1]
      BY <1>1
    <3>2. Len(r) = n - 1 /\ \A i \in 1 .. n - 1 : r[i] = ss[i + 1]  BY <1>1, <1>2
    <3>3. \A i \in 1 .. n - 1 : tt[i + 1] = ss[i + 1]
      <4>1. \A i \in 1 .. n - 1 : i + 1 \in 2 .. Len(ss)  BY <1>1
      <4> QED  BY <4>1
    <3>4. \A i \in 1 .. n - 1 : SubSeq(tt, 2, n)[i] = r[i]  BY <3>1, <3>2, <3>3, Zenon
    <3> QED  BY <3>1, <3>2, <3>4, SeqEqual
  <2> QED  BY <2>1, <2>2, <2>3, <2>4, Zenon
<1>5. ss[1] \in Seq(S) /\ tt[1] \in Seq(S) /\ Flatten(r) \in Seq(S)
  <2>1. 1 \in 1 .. Len(ss)  BY <1>1
  <2> QED  BY <2>1, FlattenType
<1>6. Flatten(ss) = ss[1] \o Flatten(r)  BY <1>3, <1>5, FlattenCons, Zenon
<1>7. Flatten(tt) = <<>> \o Flatten(r)  BY <1>4, <1>5, FlattenCons, Zenon
<1>8. <<>> \o Flatten(r) = Flatten(r)  BY <1>5, ConcatEmptySeq, Zenon
<1> QED  BY <1>6, <1>7, <1>8

(* A sequence before two places, there, and behind them.                     *)
Before(s, p) == SubSeq(s, 1, p - 1)
Both(s, p) == <<s[p]>> \o <<s[p + 1]>>
Behind(s, p) == SubSeq(s, p + 2, Len(s))

IsSplit(S, s, n, p) ==
    /\ Before(s, p) \in Seq(S) /\ Len(Before(s, p)) = p - 1
    /\ \A i \in 1 .. p - 1 : Before(s, p)[i] = s[i]
    /\ Behind(s, p) \in Seq(S) /\ Len(Behind(s, p)) = n - (p + 1)
    /\ \A i \in 1 .. n - (p + 1) : Behind(s, p)[i] = s[p + 1 + i]
    /\ Both(s, p) \in Seq(S) /\ s[p] \in S /\ s[p + 1] \in S
    /\ s = Before(s, p) \o (Both(s, p) \o Behind(s, p))

(* Such parts make the sequence.                                             *)
LEMMA RollParts ==
    ASSUME NEW S, NEW s \in Seq(S), NEW n \in Nat, n = Len(s), NEW p \in 1 .. n - 1
    PROVE  IsSplit(S, s, n, p)
<1>1. Before(s, p) \in Seq(S) /\ Len(Before(s, p)) = p - 1 /\ \A i \in 1 .. p - 1 : Before(s, p)[i] = s[i]
  BY DEF Before
<1>2. /\ Behind(s, p) \in Seq(S) /\ Len(Behind(s, p)) = n - (p + 1)
      /\ \A i \in 1 .. n - (p + 1) : Behind(s, p)[i] = s[p + 1 + i]
  BY DEF Behind
<1>3. s[p] \in S /\ s[p + 1] \in S  OBVIOUS
<1>4. <<s[p]>> \in Seq(S) /\ <<s[p + 1]>> \in Seq(S)  BY <1>3
<1>5. Both(s, p) \in Seq(S)  BY <1>4, ConcatProperties, Zenon DEF Both
<1>6. /\ 1 \in 1 .. Len(s) + 1 /\ p - 1 \in 1 - 1 .. Len(s) /\ n \in p - 1 .. Len(s)
      /\ p \in 1 .. Len(s) /\ n \in p .. Len(s) /\ p + 1 \in 1 .. Len(s) /\ n \in p + 1 .. Len(s)
      /\ (p - 1) + 1 = p /\ (p + 1) + 1 = p + 2
  OBVIOUS
<1>7. SubSeq(s, 1, p - 1) \o SubSeq(s, p, n) = s
  <2>1. SubSeq(s, 1, p - 1) \o SubSeq(s, (p - 1) + 1, n) = SubSeq(s, 1, n)
    BY <1>6, ConcatAdjacentSubSeq, Zenon
  <2>2. SubSeq(s, 1, n) = s  BY SubSeqFull, Zenon
  <2> QED  BY <1>6, <2>1, <2>2, Zenon
<1>8. SubSeq(s, p, n) = <<s[p]>> \o SubSeq(s, p + 1, n)  BY <1>6, SubSeqRecursiveFirst, Zenon
<1>9. SubSeq(s, p + 1, n) = <<s[p + 1]>> \o Behind(s, p)
  <2>1. SubSeq(s, p + 1, n) = <<s[p + 1]>> \o SubSeq(s, (p + 1) + 1, n)
    BY <1>6, SubSeqRecursiveFirst, Zenon
  <2> QED  BY <1>6, <2>1, Zenon DEF Behind
<1>10. Both(s, p) \o Behind(s, p) = <<s[p]>> \o (<<s[p + 1]>> \o Behind(s, p))
  <2>1. Assoc(<<s[p]>>, <<s[p + 1]>>, Behind(s, p))  BY <1>2, <1>4, Associates, Zenon
  <2> QED  BY <2>1, Zenon DEF Assoc, Both
<1>11. s = Before(s, p) \o (Both(s, p) \o Behind(s, p))
  BY <1>7, <1>8, <1>9, <1>10, Zenon DEF Before
<1> QED  BY <1>1, <1>2, <1>3, <1>5, <1>11, Zenon DEF IsSplit

(* The places before and behind two places.                                  *)
LEMMA Elsewhere ==
    ASSUME NEW n \in Nat, NEW p \in 1 .. n - 1
    PROVE  /\ \A i \in 1 .. p - 1 : i \in 1 .. n /\ i # p /\ i # p + 1
           /\ \A i \in 1 .. n - (p + 1) : /\ p + 1 + i \in 1 .. n
                                          /\ p + 1 + i # p /\ p + 1 + i # p + 1
OBVIOUS

(* Two that change places, one of them empty.                                *)
LEMMA FlattenSwap ==
    ASSUME NEW S, NEW ss \in Seq(Seq(S)), NEW tt \in Seq(Seq(S)), Len(ss) = Len(tt),
           NEW p \in 1 .. Len(ss) - 1, ss[p] = <<>>, tt[p] = ss[p + 1], tt[p + 1] = <<>>,
           \A i \in 1 .. Len(ss) : i # p /\ i # p + 1 => tt[i] = ss[i]
    PROVE  Flatten(ss) = Flatten(tt)
<1>1. PICK n \in Nat : n = Len(ss) /\ n = Len(tt) /\ p \in 1 .. n - 1  OBVIOUS
<1> DEFINE X(s) == Before(s, p)
           Y(s) == Behind(s, p)
           Whole(s) == Both(s, p)
<1>2. ASSUME NEW s \in Seq(Seq(S)), n = Len(s)
      PROVE  /\ X(s) \in Seq(Seq(S)) /\ Len(X(s)) = p - 1 /\ \A i \in 1 .. p - 1 : X(s)[i] = s[i]
             /\ Y(s) \in Seq(Seq(S)) /\ Len(Y(s)) = n - (p + 1)
             /\ \A i \in 1 .. n - (p + 1) : Y(s)[i] = s[p + 1 + i]
             /\ Whole(s) \in Seq(Seq(S)) /\ s[p] \in Seq(S) /\ s[p + 1] \in Seq(S)
             /\ s = X(s) \o (Whole(s) \o Y(s))
  <2>1. IsSplit(Seq(S), s, n, p)  BY <1>1, <1>2, RollParts, Zenon
  <2> QED  BY <2>1, Zenon DEF IsSplit
<1> HIDE DEF X, Y
<1>3. X(ss) = X(tt)
  <2>0. \A i \in 1 .. p - 1 : tt[i] = ss[i]
    <3>1. \A i \in 1 .. p - 1 : i \in 1 .. Len(ss) /\ i # p /\ i # p + 1
      BY <1>1, Elsewhere, Zenon
    <3> QED  BY <3>1, Zenon
  <2>1. \A i \in 1 .. p - 1 : X(ss)[i] = ss[i] /\ X(tt)[i] = tt[i]  BY <1>1, <1>2, Zenon
  <2>2. X(ss) \in Seq(Seq(S)) /\ X(tt) \in Seq(Seq(S)) /\ Len(X(ss)) = p - 1 /\ Len(X(tt)) = p - 1
    BY <1>1, <1>2, Zenon
  <2>3. \A i \in 1 .. Len(X(ss)) : X(ss)[i] = X(tt)[i]  BY <2>0, <2>1, <2>2, Zenon
  <2> QED  BY <2>2, <2>3, SeqEqual, Zenon
<1>4. Y(ss) = Y(tt)
  <2>0. \A i \in 1 .. n - (p + 1) : tt[p + 1 + i] = ss[p + 1 + i]
    <3>1. \A i \in 1 .. n - (p + 1) : /\ p + 1 + i \in 1 .. Len(ss)
                                      /\ p + 1 + i # p /\ p + 1 + i # p + 1
      BY <1>1, Elsewhere, Zenon
    <3> QED  BY <3>1, Zenon
  <2>1. \A i \in 1 .. n - (p + 1) : Y(ss)[i] = ss[p + 1 + i] /\ Y(tt)[i] = tt[p + 1 + i]
    BY <1>1, <1>2, Zenon
  <2>2. /\ Y(ss) \in Seq(Seq(S)) /\ Y(tt) \in Seq(Seq(S))
        /\ Len(Y(ss)) = n - (p + 1) /\ Len(Y(tt)) = n - (p + 1)
    BY <1>1, <1>2, Zenon
  <2>3. \A i \in 1 .. n - (p + 1) : Y(ss)[i] = Y(tt)[i]  BY <2>0, <2>1, Zenon
  <2>4. \A i \in 1 .. Len(Y(ss)) : Y(ss)[i] = Y(tt)[i]  BY <2>2, <2>3, Zenon
  <2> QED  BY <2>2, <2>4, SeqEqual, Zenon
<1>5. Flatten(Whole(ss)) = Flatten(Whole(tt))
  <2>1. PICK b \in Seq(S) : b = ss[p + 1]  BY <1>1, <1>2, Zenon
  <2>2. <<>> \in Seq(S) /\ <<<<>>>> \in Seq(Seq(S)) /\ <<b>> \in Seq(Seq(S))  OBVIOUS
  <2>3. Whole(ss) = <<<<>>>> \o <<b>> /\ Whole(tt) = <<b>> \o <<<<>>>>  BY <2>1, Zenon DEF Both
  <2>4. Flatten(Whole(ss)) = <<>> \o Flatten(<<b>>)  BY <2>2, <2>3, FlattenCons, Zenon
  <2>5. Flatten(Whole(tt)) = b \o Flatten(<<<<>>>>)  BY <2>2, <2>3, FlattenCons, Zenon
  <2>6. Flatten(<<b>>) = b /\ Flatten(<<<<>>>>) = <<>>  BY <2>2, FlattenOne, Zenon
  <2>7. <<>> \o b = b /\ b \o <<>> = b  BY ConcatEmptySeq, Zenon
  <2> QED  BY <2>4, <2>5, <2>6, <2>7, Zenon
<1>6. ASSUME NEW s \in Seq(Seq(S)), Len(s) = n
      PROVE  Flatten(s) = Flatten(X(s)) \o (Flatten(Whole(s)) \o Flatten(Y(s)))
  <2>1. /\ X(s) \in Seq(Seq(S)) /\ Y(s) \in Seq(Seq(S)) /\ Whole(s) \in Seq(Seq(S))
        /\ s = X(s) \o (Whole(s) \o Y(s))
    BY <1>2, <1>6, Zenon
  <2>2. Whole(s) \o Y(s) \in Seq(Seq(S))  BY <2>1, ConcatProperties, Zenon
  <2>3. Flatten(Whole(s) \o Y(s)) = Flatten(Whole(s)) \o Flatten(Y(s))  BY <2>1, FlattenConcat, Zenon
  <2>4. Flatten(X(s) \o (Whole(s) \o Y(s))) = Flatten(X(s)) \o Flatten(Whole(s) \o Y(s))
    BY <2>1, <2>2, FlattenConcat, Zenon
  <2> QED  BY <2>1, <2>3, <2>4, Zenon
<1> QED  BY <1>1, <1>3, <1>4, <1>5, <1>6, Zenon

(* One that is longer, the last.                                             *)
IsFront(S, r, s, n) ==
    /\ r \in Seq(S) /\ Len(r) = n - 1 /\ s[n] \in S /\ s = Append(r, s[n])
    /\ \A i \in 1 .. n - 1 : r[i] = s[i]

(* The first n - 1 of a sequence.                                            *)
LEMMA FrontIs ==
    ASSUME NEW S, NEW s \in Seq(S), NEW n \in Nat, n # 0, n = Len(s), NEW r, r = SubSeq(s, 1, n - 1)
    PROVE  IsFront(S, r, s, n)
<1>1. r \in Seq(S) /\ Len(r) = n - 1 /\ \A i \in 1 .. n - 1 : r[i] = s[i]
  OBVIOUS
<1>2. s[n] \in S  OBVIOUS
<1>3. s = r \o <<s[n]>>
  <2>1. 1 \in 1 .. Len(s) /\ n \in 1 .. Len(s)  OBVIOUS
  <2>2. SubSeq(s, 1, n) = r \o <<s[n]>>  BY <2>1, SubSeqRecursiveSecond, Zenon
  <2>3. SubSeq(s, 1, n) = s  BY SubSeqFull, Zenon
  <2> QED  BY <2>2, <2>3
<1>4. Append(r, s[n]) = r \o <<s[n]>>  BY <1>1, <1>2, AppendIsConcat, Zenon
<1> QED  BY <1>1, <1>2, <1>3, <1>4 DEF IsFront

(* One that is longer, the last.                                             *)
LEMMA FlattenLonger ==
    ASSUME NEW S, NEW ss \in Seq(Seq(S)), NEW tt \in Seq(Seq(S)), Len(ss) = Len(tt), Len(ss) # 0,
           NEW x \in S, tt[Len(ss)] = Append(ss[Len(ss)], x),
           \A i \in 1 .. Len(ss) - 1 : tt[i] = ss[i]
    PROVE  Flatten(tt) = Append(Flatten(ss), x)
<1>0. Len(ss) \in Nat  BY LenProperties, Zenon
<1>1. PICK n \in Nat : n # 0 /\ n = Len(ss) /\ n = Len(tt)  BY <1>0, Zenon
<1>2. PICK r : r = SubSeq(ss, 1, n - 1)  BY Zenon
<1>3. PICK q : q = SubSeq(tt, 1, n - 1)  BY Zenon
<1>4. /\ r \in Seq(Seq(S)) /\ Len(r) = n - 1 /\ ss[n] \in Seq(S) /\ ss = Append(r, ss[n])
      /\ \A i \in 1 .. n - 1 : r[i] = ss[i]
  <2>1. IsFront(Seq(S), r, ss, n)  BY <1>1, <1>2, FrontIs, Zenon
  <2> QED  BY <2>1, Zenon DEF IsFront
<1>5. /\ q \in Seq(Seq(S)) /\ Len(q) = n - 1 /\ tt[n] \in Seq(S) /\ tt = Append(q, tt[n])
      /\ \A i \in 1 .. n - 1 : q[i] = tt[i]
  <2>1. IsFront(Seq(S), q, tt, n)  BY <1>1, <1>3, FrontIs, Zenon
  <2> QED  BY <2>1, Zenon DEF IsFront
<1>6. q = r
  <2>1. \A i \in 1 .. Len(q) : q[i] = r[i]  BY <1>1, <1>4, <1>5, Zenon
  <2>2. Len(q) = Len(r)  BY <1>4, <1>5, Zenon
  <2> QED  BY <1>4, <1>5, <2>1, <2>2, SeqEqual, Zenon
<1>7. PICK a \in Seq(S) : a = ss[n] /\ tt[n] = Append(a, x)  BY <1>1, <1>4, Zenon
<1>8. PICK u \in Seq(S) : u = Flatten(r)  BY <1>4, FlattenType
<1>9. Flatten(ss) = u \o a  BY <1>4, <1>7, <1>8, FlattenAppend, Zenon
<1>10. Flatten(tt) = u \o Append(a, x)  BY <1>4, <1>5, <1>6, <1>7, <1>8, FlattenAppend, Zenon
<1>11. Append(a, x) = a \o <<x>>  BY AppendIsConcat, Zenon
<1>12. <<x>> \in Seq(S) /\ u \o a \in Seq(S)  BY ConcatProperties
<1>13. Assoc(u, a, <<x>>)  BY <1>12, Associates, Zenon
<1>14. Append(u \o a, x) = (u \o a) \o <<x>>  BY <1>12, AppendIsConcat, Zenon
<1> QED  BY <1>9, <1>10, <1>11, <1>13, <1>14, Zenon DEF Assoc

(* Of empty ones.                                                            *)
LEMMA FlattenEmpties ==
    ASSUME NEW S, NEW ss \in Seq(Seq(S)), \A k \in 1 .. Len(ss) : ss[k] = <<>>
    PROVE  Flatten(ss) = <<>>
<1> DEFINE A == {n \in Nat : \A u \in Seq(Seq(S)) :
                    Len(u) = n /\ (\A k \in 1 .. n : u[k] = <<>>) => Flatten(u) = <<>>}
<1>1. 0 \in A
  <2>1. \A u \in Seq(Seq(S)) : Len(u) = 0 => u = <<>>  OBVIOUS
  <2> QED  BY <2>1, FlattenEmpty
<1>2. ASSUME NEW n \in Nat, n \in A  PROVE n + 1 \in A
  <2> SUFFICES ASSUME NEW u \in Seq(Seq(S)), Len(u) = n + 1, \A k \in 1 .. n + 1 : u[k] = <<>>
               PROVE  Flatten(u) = <<>>
    OBVIOUS
  <2>1. PICK m \in Nat : m = n + 1 /\ m # 0 /\ m = Len(u) /\ m - 1 = n  OBVIOUS
  <2>2. PICK r : r = SubSeq(u, 1, m - 1)  BY Zenon
  <2>3. IsFront(Seq(S), r, u, m)  BY <2>1, <2>2, FrontIs, Zenon
  <2>4. r \in Seq(Seq(S)) /\ Len(r) = n /\ u = Append(r, u[m]) /\ \A k \in 1 .. n : r[k] = u[k]
    BY <2>1, <2>3, Zenon DEF IsFront
  <2>5. u[m] = <<>> /\ \A k \in 1 .. n : r[k] = <<>>  BY <2>1, <2>4
  <2>6. Flatten(r) = <<>>  BY <1>2, <2>4, <2>5
  <2>7. <<>> \in Seq(S)  OBVIOUS
  <2>8. Flatten(Append(r, <<>>)) = Flatten(r) \o <<>>  BY <2>4, <2>7, FlattenAppend, Zenon
  <2>9. Flatten(r) \o <<>> = <<>>  BY <2>6
  <2> QED  BY <2>4, <2>5, <2>8, <2>9, Zenon
<1> HIDE DEF A
<1>3. Nat \subseteq A  BY <1>1, <1>2, Induct, Zenon
<1>4. Len(ss) \in A  BY <1>3
<1> QED  BY <1>4 DEF A

-----------------------------------------------------------------------------
(* The files of a RollLog.                                                   *)
Files == [R!Index -> Seq(R!Line)]
Slots(f) == [k \in 1 .. MaxFile |-> f[MaxFile - k]]
All(f) == Flatten(Slots(f))

(* The files, the oldest first.                                              *)
LEMMA SlotsIs ==
    ASSUME R!Assumption, NEW f \in Files
    PROVE  /\ Slots(f) \in Seq(Seq(R!Line)) /\ Len(Slots(f)) = MaxFile
           /\ \A k \in 1 .. MaxFile : Slots(f)[k] = f[MaxFile - k]
<1> HIDE DEF R!Line
<1>1. MaxFile \in Nat  BY DEF R!Assumption
<1>2. \A k \in 1 .. MaxFile : f[MaxFile - k] \in Seq(R!Line)
  <2>1. \A k \in 1 .. MaxFile : MaxFile - k \in R!Index  BY <1>1 DEF R!Index
  <2> QED  BY <2>1 DEF Files
<1> QED  BY <1>1, <1>2 DEF Slots

(* Their lines are a sequence of lines.                                      *)
LEMMA AllType ==
    ASSUME R!Assumption, NEW f \in Files
    PROVE  All(f) \in Seq(R!Line)
BY SlotsIs, FlattenType, Zenon DEF All

(* A line more in file 0.                                                    *)
LEMMA AllGrows ==
    ASSUME R!Assumption, NEW f \in Files, NEW g \in Files, NEW l \in R!Line,
           g[0] = Append(f[0], l), \A i \in R!Index : i # 0 => g[i] = f[i]
    PROVE  All(g) = Append(All(f), l)
<1> HIDE DEF R!Line
<1>1. PICK n \in Nat : n = MaxFile /\ n # 0  BY DEF R!Assumption
<1>2. PICK ss \in Seq(Seq(R!Line)) : ss = Slots(f) /\ Len(ss) = n /\ \A k \in 1 .. n : ss[k] = f[n - k]
  BY <1>1, SlotsIs
<1>3. PICK tt \in Seq(Seq(R!Line)) : tt = Slots(g) /\ Len(tt) = n /\ \A k \in 1 .. n : tt[k] = g[n - k]
  BY <1>1, SlotsIs
<1>4. tt[n] = Append(ss[n], l)
  <2>1. n \in 1 .. n /\ n - n = 0  BY <1>1
  <2> QED  BY <1>2, <1>3, <2>1, Zenon
<1>5. \A i \in 1 .. n - 1 : tt[i] = ss[i]
  <2>1. \A i \in 1 .. n - 1 : n - i \in R!Index /\ n - i # 0 /\ i \in 1 .. n  BY <1>1 DEF R!Index
  <2> QED  BY <1>2, <1>3, <2>1, Zenon
<1>6. Flatten(tt) = Append(Flatten(ss), l)
  <2>1. Len(ss) = Len(tt) /\ Len(ss) # 0 /\ tt[Len(ss)] = Append(ss[Len(ss)], l)
        /\ \A i \in 1 .. Len(ss) - 1 : tt[i] = ss[i]
    BY <1>1, <1>2, <1>3, <1>4, <1>5
  <2> QED  BY <2>1, FlattenLonger, Zenon
<1> QED  BY <1>2, <1>3, <1>6 DEF All

(* rename() of one file, where the next is not there.                        *)
LEMMA MovedIs ==
    ASSUME R!Assumption, rfiles \in Files, move \in R!Index,
           move < MaxFile - 1 => rfiles[move + 1] = <<>>
    PROVE  /\ R!Moved \in Files
           /\ R!Moved[move] = <<>>
           /\ \A i \in R!Index : i # move /\ i # move + 1 => R!Moved[i] = rfiles[i]
           /\ move < MaxFile - 1 => move + 1 \in R!Index /\ R!Moved[move + 1] = rfiles[move]
<1> HIDE DEF R!Line
<1>0. MaxFile \in Nat \ {0} /\ move \in Nat /\ 0 \in R!Index /\ <<>> \in Seq(R!Line)
  BY DEF R!Assumption, R!Index
<1>1. CASE move = MaxFile - 1
  <2>1. R!Moved = [rfiles EXCEPT ![move] = <<>>]  BY <1>1 DEF R!Moved
  <2> QED  BY <1>0, <1>1, <2>1 DEF Files
<1>2. CASE move < MaxFile - 1
  <2>0. move + 1 \in R!Index /\ move + 1 # move  BY <1>0, <1>2 DEF R!Index
  <2>1. CASE rfiles[move] = <<>>
    <3>1. R!Moved = rfiles  BY <1>0, <1>2, <2>1 DEF R!Moved
    <3> QED  BY <1>2, <2>0, <2>1, <3>1
  <2>2. CASE rfiles[move] # <<>>
    <3> DEFINE g == [rfiles EXCEPT ![move + 1] = rfiles[move]]
    <3>1. g \in Files /\ g[move + 1] = rfiles[move] /\ \A i \in R!Index : i # move + 1 => g[i] = rfiles[i]
      BY <2>0 DEF Files
    <3>2. R!Moved = [g EXCEPT ![move] = <<>>]  BY <1>0, <1>2, <2>2 DEF R!Moved
    <3> HIDE DEF g
    <3> QED  BY <1>0, <1>2, <2>0, <3>1, <3>2 DEF Files
  <2> QED  BY <2>1, <2>2
<1> QED  BY <1>0, <1>1, <1>2 DEF R!Index

(* A step of the roll gives up the last file, or nothing.                    *)
LEMMA AllMoved ==
    ASSUME R!Assumption, rfiles \in Files, move \in R!Index,
           move < MaxFile - 1 => rfiles[move + 1] = <<>>
    PROVE  /\ move < MaxFile - 1 => All(R!Moved) = All(rfiles)
           /\ move = MaxFile - 1 => All(rfiles) = rfiles[move] \o All(R!Moved)
<1> HIDE DEF R!Line
<1>0. PICK n \in Nat : n = MaxFile /\ n # 0 /\ move \in 0 .. n - 1  BY DEF R!Assumption, R!Index
<1>1. PICK g \in Files : /\ g = R!Moved /\ g[move] = <<>>
                         /\ \A i \in R!Index : i # move /\ i # move + 1 => g[i] = rfiles[i]
                         /\ move < n - 1 => move + 1 \in R!Index /\ g[move + 1] = rfiles[move]
  BY <1>0, MovedIs
<1>2. PICK ss \in Seq(Seq(R!Line)) : ss = Slots(rfiles) /\ Len(ss) = n /\ \A k \in 1 .. n : ss[k] = rfiles[n - k]
  BY <1>0, SlotsIs
<1>3. PICK tt \in Seq(Seq(R!Line)) : tt = Slots(g) /\ Len(tt) = n /\ \A k \in 1 .. n : tt[k] = g[n - k]
  BY <1>0, SlotsIs
<1>4. \A k \in 1 .. n : n - k \in R!Index /\ n - k \in Nat  BY <1>0 DEF R!Index
<1>5. ASSUME move < MaxFile - 1  PROVE Flatten(ss) = Flatten(tt)
  <2>1. PICK p \in 1 .. n - 1 : p = n - (move + 1)
    <3>1. n - (move + 1) \in 1 .. n - 1  BY <1>0, <1>5
    <3> QED  BY <3>1
  <2>2. p \in 1 .. n /\ p + 1 \in 1 .. n /\ n - p = move + 1 /\ n - (p + 1) = move  BY <1>0, <2>1
  <2>3. ss[p] = <<>> /\ ss[p + 1] = rfiles[move]  BY <1>2, <1>5, <2>2, Zenon
  <2>4. tt[p] = ss[p + 1] /\ tt[p + 1] = <<>>  BY <1>0, <1>1, <1>3, <1>5, <2>2, <2>3, Zenon
  <2>5. \A i \in 1 .. n : i # p /\ i # p + 1 => tt[i] = ss[i]
    <3>1. \A i \in 1 .. n : i # p /\ i # p + 1 => n - i # move /\ n - i # move + 1  BY <1>0, <2>1
    <3> QED  BY <1>1, <1>2, <1>3, <1>4, <3>1, Zenon
  <2>6. Len(ss) = Len(tt) /\ p \in 1 .. Len(ss) - 1
        /\ \A i \in 1 .. Len(ss) : i # p /\ i # p + 1 => tt[i] = ss[i]
    BY <1>2, <1>3, <2>5
  <2> QED  BY <2>3, <2>4, <2>6, FlattenSwap, Zenon
<1>6. ASSUME move = MaxFile - 1  PROVE Flatten(ss) = rfiles[move] \o Flatten(tt)
  <2>1. 1 \in 1 .. n /\ n - 1 = move  BY <1>0, <1>6
  <2>2. ss[1] = rfiles[move] /\ tt[1] = <<>>  BY <1>1, <1>2, <1>3, <2>1, Zenon
  <2>3. \A i \in 2 .. n : tt[i] = ss[i]
    <3>1. \A i \in 2 .. n : i \in 1 .. n /\ n - i # move /\ n - i # move + 1  BY <1>0, <2>1
    <3> QED  BY <1>1, <1>2, <1>3, <1>4, <3>1, Zenon
  <2>4. Len(ss) = Len(tt) /\ Len(ss) # 0 /\ \A i \in 2 .. Len(ss) : tt[i] = ss[i]
    BY <1>0, <1>2, <1>3, <2>3
  <2>5. Flatten(ss) = ss[1] \o Flatten(tt)  BY <2>2, <2>4, FlattenDrop, Zenon
  <2> QED  BY <2>2, <2>5
<1> QED  BY <1>1, <1>2, <1>3, <1>5, <1>6 DEF All

(* The files without the place that a roll has cleared, and without file 0   *)
(* when no roll is under way: those that a roll has filled, from the newest. *)
(* Nobody having been killed, they are full up to the first that is empty,   *)
(* and all of them are before a line is given up.                            *)
Full(f) == R!FileSize(f) >= MaxSize
Held(i) == IF i <= move THEN rfiles[i] ELSE rfiles[i + 1]
HeldIndex == 0 .. MaxFile - 2
Missing == Len(R!Oldest2Newest) < Len(written)
Bounded(f) == f = <<>> \/ R!FileSize(f) - f[Len(f)].size < MaxSize
NoneSkipped ==
    /\ \A i \in HeldIndex : Held(i) = <<>> \/ Full(Held(i))
    /\ \A i, j \in HeldIndex : i < j /\ Held(j) # <<>> => Held(i) # <<>>
    /\ Missing => \A i \in HeldIndex : Held(i) # <<>>
    /\ move >= 0 => Full(rfiles[0])
    /\ move = MaxFile - 1 /\ rfiles[move] # <<>> => \A i \in HeldIndex : Held(i) # <<>>
(* A roll, once under way, has cleared the place behind the next file it     *)
(* moves; m_fileSize is the size of the file that is open.                   *)
RollInv ==
    /\ R!TypeOK
    /\ Suffix(R!Oldest2Newest, written)
    /\ \A i \in R!Index : Bounded(rfiles[i])
    /\ open => move = -1 /\ size = R!FileSize(rfiles[0])
    /\ move >= 0 => line \in R!Line /\ (move < MaxFile - 1 => rfiles[move + 1] = <<>>)
    /\ kills = 0 => NoneSkipped

(* Oldest2Newest, in the words of these lemmas.                              *)
LEMMA OldestIs == R!Oldest2Newest = All(rfiles)
BY SameFlatten DEF R!Oldest2Newest, All, Slots

(* What the invariant says of the files.                                     *)
LEMMA RollShows ==
    ASSUME R!Assumption, RollInv
    PROVE  R!TypeOK /\ R!LastLines /\ R!SizeBounded /\ R!GivesUpLast
<1> HIDE DEF R!Line
<1>1. R!LastLines  BY DEF RollInv, Suffix, R!LastLines
<1>2. R!SizeBounded
  <2> SUFFICES ASSUME NEW i \in R!Index
               PROVE  R!FileSize(rfiles[i]) = 0 \/ R!FileSize(rfiles[i]) - rfiles[i][Len(rfiles[i])].size < MaxSize
    BY DEF R!SizeBounded
  <2>1. Bounded(rfiles[i])  BY DEF RollInv
  <2> QED  BY <2>1, SizeEmpty DEF Bounded
<1>3. R!GivesUpLast
  <2> SUFFICES ASSUME kills = 0, move = -1, Missing, NEW i \in R!Index \ {0}
               PROVE  R!FileSize(rfiles[i]) >= MaxSize
    BY DEF R!GivesUpLast, Missing
  <2>1. i - 1 \in HeldIndex /\ ~(i - 1 <= move) /\ (i - 1) + 1 = i  BY DEF R!Index, HeldIndex, R!Assumption
  <2>2. Held(i - 1) = rfiles[i]  BY <2>1 DEF Held
  <2> QED  BY <2>1, <2>2 DEF RollInv, NoneSkipped, Full
<1> QED  BY <1>1, <1>2, <1>3 DEF RollInv

(* A full file is not an empty one.                                          *)
LEMMA FullIs ==
    ASSUME R!Assumption, NEW f, Full(f)
    PROVE  f # <<>>
BY SizeEmpty DEF Full, R!Assumption

(* A line appended to file 0, which was not full.                            *)
LEMMA Append0Keeps ==
    ASSUME R!Assumption, RollInv, NEW l \in R!Line, move = -1, move' = -1, UNCHANGED kills,
           R!FileSize(rfiles[0]) < MaxSize, R!Append0(l, R!FileSize(rfiles[0]))
    PROVE  /\ rfiles' \in Files /\ written' \in Seq(R!Line)
           /\ size' \in Nat /\ size' = R!FileSize(rfiles'[0])
           /\ Suffix(R!Oldest2Newest, written)'
           /\ \A i \in R!Index : Bounded(rfiles'[i])
           /\ kills = 0 => NoneSkipped'
<1>0. \A x \in R!Line : x.size \in Nat  BY Zenon DEF R!Line, R!Assumption
<1> HIDE DEF R!Line
<1>1. 0 \in R!Index /\ rfiles \in Files /\ written \in Seq(R!Line) /\ rfiles[0] \in Seq(R!Line) /\ MaxSize \in Nat
  BY DEF RollInv, R!TypeOK, Files, R!Assumption, R!Index
<1>2. PICK a \in Seq(R!Line) : a = Append(rfiles[0], l)
  <2>1. Append(rfiles[0], l) \in Seq(R!Line)  BY <1>1
  <2> QED  BY <2>1, Zenon
<1>3. rfiles' \in Files /\ rfiles'[0] = a /\ \A i \in R!Index : i # 0 => rfiles'[i] = rfiles[i]
  BY <1>1, <1>2 DEF R!Append0, Files
<1>4. written' = Append(written, l) /\ written' \in Seq(R!Line) /\ Len(written') = Len(written) + 1
  BY <1>1 DEF R!Append0
<1>5. R!FileSize(rfiles[0]) \in Nat  BY <1>1, SizeType
<1>6. R!FileSize(a) = R!FileSize(rfiles[0]) + l.size  BY <1>1, <1>2, SizeAppend
<1>7. size' \in Nat /\ size' = R!FileSize(rfiles'[0])
  <2>1. l.size \in Nat /\ R!FileSize(rfiles[0]) + l.size \in Nat  BY <1>0, <1>5
  <2>2. size' = R!FileSize(rfiles[0]) + l.size  BY DEF R!Append0
  <2> QED  BY <1>3, <1>6, <2>1, <2>2
<1>8. All(rfiles') = Append(All(rfiles), l)  BY <1>1, <1>2, <1>3, AllGrows
<1>9. All(rfiles) \in Seq(R!Line) /\ Len(All(rfiles')) = Len(All(rfiles)) + 1
  BY <1>1, <1>8, AllType
<1>10. R!Oldest2Newest' = All(rfiles') /\ R!Oldest2Newest = All(rfiles)
  BY SameFlatten DEF R!Oldest2Newest, All, Slots
<1>11. Suffix(R!Oldest2Newest, written)'
  <2>1. Suffix(All(rfiles), written)  BY <1>10 DEF RollInv
  <2>2. Suffix(Append(All(rfiles), l), Append(written, l))  BY <1>1, <1>9, <2>1, RollSuffixAppend, Zenon
  <2>3. Suffix(R!Oldest2Newest', written')  BY <1>4, <1>8, <1>10, <2>2
  <2> QED  BY <2>3 DEF Suffix
<1>12. \A i \in R!Index : Bounded(rfiles'[i])
  <2> TAKE i \in R!Index
  <2>1. CASE i = 0
    <3>1. Len(a) = Len(rfiles[0]) + 1 /\ a[Len(a)] = l  BY <1>1, <1>2
    <3>2. R!FileSize(a) - a[Len(a)].size < MaxSize  BY <1>0, <1>1, <1>5, <1>6, <3>1
    <3> QED  BY <1>3, <2>1, <3>2 DEF Bounded
  <2>2. CASE i # 0  BY <1>3, <2>2 DEF RollInv
  <2> QED  BY <2>1, <2>2
<1>13. ASSUME kills = 0  PROVE NoneSkipped'
  <2>1. NoneSkipped  BY <1>13 DEF RollInv
  <2>2. \A i \in HeldIndex : Held(i)' = Held(i)
    <3>1. \A i \in HeldIndex : i + 1 \in R!Index /\ i + 1 # 0 /\ ~(i <= -1)  BY DEF HeldIndex, R!Index, R!Assumption
    <3> QED  BY <1>3, <3>1 DEF Held
  <2>3. Missing' => Missing
    <3>1. Len(written) \in Nat /\ Len(All(rfiles)) \in Nat  BY <1>1, <1>9
    <3> QED  BY <1>4, <1>9, <1>10, <3>1 DEF Missing
  <2>4. ~(move' >= 0) /\ move' # MaxFile - 1  BY DEF R!Assumption
  <2> QED  BY <2>1, <2>2, <2>3, <2>4 DEF NoneSkipped
<1> QED  BY <1>3, <1>4, <1>7, <1>11, <1>12, <1>13

(* A roll begins where every file but the first is as it should be.          *)
LEMMA RollBegins ==
    ASSUME R!Assumption, RollInv, kills = 0, move = -1, move' = R!RollFrom, UNCHANGED <<rfiles, written>>,
           Full(rfiles[0])
    PROVE  NoneSkipped'
<1> HIDE DEF R!Line
<1>0. PICK n \in Nat : n = MaxFile /\ n # 0 /\ move' = n - 1  BY DEF R!Assumption, R!RollFrom
<1>1. NoneSkipped  BY DEF RollInv
<1>2. \A i \in HeldIndex : Held(i) = rfiles[i + 1] /\ Held(i)' = rfiles[i]
  BY <1>0 DEF HeldIndex, Held
<1>3. \A i \in HeldIndex : i # 0 => i - 1 \in HeldIndex /\ Held(i)' = Held(i - 1)
  <2> SUFFICES ASSUME NEW i \in HeldIndex, i # 0  PROVE i - 1 \in HeldIndex /\ Held(i)' = Held(i - 1)
    OBVIOUS
  <2>1. i - 1 \in HeldIndex /\ (i - 1) + 1 = i  BY <1>0 DEF HeldIndex
  <2> QED  BY <1>2, <2>1
<1>4. 0 \in HeldIndex => Held(0)' = rfiles[0]  BY <1>2
<1>5. rfiles[0] # <<>>  BY FullIs
<1> HIDE DEF Held
<1>6. \A i \in HeldIndex : (Held(i) = <<>> \/ Full(Held(i)))'
  <2> SUFFICES ASSUME NEW i \in HeldIndex  PROVE Held(i)' = <<>> \/ Full(Held(i)')  BY DEF Full
  <2>1. CASE i = 0  BY <1>4, <2>1
  <2>2. CASE i # 0  BY <1>1, <1>3, <2>2 DEF NoneSkipped
  <2> QED  BY <2>1, <2>2
<1>7. \A i, j \in HeldIndex : i < j /\ Held(j)' # <<>> => Held(i)' # <<>>
  <2> SUFFICES ASSUME NEW i \in HeldIndex, NEW j \in HeldIndex, i < j, Held(j)' # <<>>
               PROVE  Held(i)' # <<>>
    OBVIOUS
  <2>1. CASE i = 0  BY <1>4, <1>5, <2>1
  <2>2. CASE i # 0
    <3>1. j # 0 /\ i - 1 < j - 1  BY <1>0, <2>2 DEF HeldIndex
    <3>2. i - 1 \in HeldIndex /\ j - 1 \in HeldIndex /\ Held(i)' = Held(i - 1) /\ Held(j)' = Held(j - 1)
      BY <1>3, <2>2, <3>1
    <3>3. Held(j - 1) # <<>>  BY <3>2
    <3>4. Held(i - 1) # <<>>  BY <1>1, <3>1, <3>2, <3>3 DEF NoneSkipped
    <3> QED  BY <3>2, <3>4
  <2> QED  BY <2>1, <2>2
<1>8. (\A i \in HeldIndex : Held(i) # <<>>) => \A i \in HeldIndex : Held(i)' # <<>>
  <2> SUFFICES ASSUME \A i \in HeldIndex : Held(i) # <<>>, NEW i \in HeldIndex  PROVE Held(i)' # <<>>
    OBVIOUS
  <2>1. CASE i = 0  BY <1>4, <1>5, <2>1
  <2>2. CASE i # 0  BY <1>3, <2>2
  <2> QED  BY <2>1, <2>2
<1>9. Missing' = Missing  BY DEF Missing, R!Oldest2Newest
<1>10. rfiles[n - 1] # <<>> => \A i \in HeldIndex : Held(i)' # <<>>
  <2> SUFFICES ASSUME rfiles[n - 1] # <<>>, HeldIndex # {}  PROVE \A i \in HeldIndex : Held(i) # <<>>
    BY <1>8
  <2>1. n - 2 \in HeldIndex /\ (n - 2) + 1 = n - 1 /\ \A i \in HeldIndex : i <= n - 2 /\ i \in Int
    BY <1>0 DEF HeldIndex
  <2>2. Held(n - 2) # <<>>  BY <1>2, <2>1
  <2>3. ASSUME NEW i \in HeldIndex  PROVE Held(i) # <<>>
    <3>1. i = n - 2 \/ i < n - 2  BY <2>1
    <3> QED  BY <1>1, <2>1, <2>2, <3>1 DEF NoneSkipped
  <2> QED  BY <2>3
<1>11. Missing' => \A i \in HeldIndex : Held(i)' # <<>>  BY <1>1, <1>8, <1>9 DEF NoneSkipped
<1>12. Full(rfiles[0])' /\ move' >= 0  BY <1>0 DEF Full
<1> QED  BY <1>0, <1>6, <1>7, <1>10, <1>11, <1>12 DEF NoneSkipped

(* A step of the roll moves no file to another place among those that are    *)
(* held.                                                                     *)
HeldAfter(f, m, i) == IF i <= m THEN f[i] ELSE f[i + 1]
(* A move leaves what is held where it is held.                              *)
LEMMA HeldMoved ==
    ASSUME R!Assumption, RollInv, move >= 0
    PROVE  \A i \in HeldIndex : HeldAfter(R!Moved, move - 1, i) = Held(i)
<1> HIDE DEF R!Line
<1>1. MaxFile \in Nat \ {0} /\ move \in R!Index /\ move \in Int /\ rfiles \in Files
      /\ (move < MaxFile - 1 => rfiles[move + 1] = <<>>)
  BY DEF RollInv, R!TypeOK, Files, R!Assumption, R!Index
<1> TAKE i \in HeldIndex
<1>2. /\ R!Moved[move] = <<>>
      /\ \A k \in R!Index : k # move /\ k # move + 1 => R!Moved[k] = rfiles[k]
      /\ move < MaxFile - 1 => R!Moved[move + 1] = rfiles[move]
  BY <1>1, MovedIs, Zenon
<1>3. CASE i < move
  <2>1. i <= move - 1 /\ i <= move /\ i \in R!Index /\ i # move /\ i # move + 1
    BY <1>1, <1>3 DEF HeldIndex, R!Index
  <2> QED  BY <1>2, <2>1 DEF HeldAfter, Held
<1>4. CASE i = move
  <2>1. ~(i <= move - 1) /\ i <= move /\ move < MaxFile - 1  BY <1>1, <1>4 DEF HeldIndex, R!Index
  <2> QED  BY <1>2, <1>4, <2>1 DEF HeldAfter, Held
<1>5. CASE i > move
  <2>1. ~(i <= move - 1) /\ ~(i <= move) /\ i + 1 \in R!Index /\ i + 1 # move /\ i + 1 # move + 1
    BY <1>1, <1>5 DEF HeldIndex, R!Index
  <2> QED  BY <1>2, <2>1 DEF HeldAfter, Held
<1> QED  BY <1>1, <1>3, <1>4, <1>5 DEF HeldIndex

(* What a step of the roll keeps.                                            *)
LEMMA MovedKeeps ==
    ASSUME R!Assumption, RollInv, move >= 0, NEW g \in Files, g = R!Moved
    PROVE  /\ Suffix(All(g), written) /\ All(g) \in Seq(R!Line) /\ Len(All(g)) <= Len(R!Oldest2Newest)
           /\ \A i \in R!Index : Bounded(g[i])
           /\ kills = 0 =>
                 /\ \A i \in HeldIndex : HeldAfter(g, move - 1, i) = Held(i)
                 /\ Len(All(g)) < Len(written) => \A i \in HeldIndex : Held(i) # <<>>
<1> HIDE DEF R!Line
<1>1. MaxFile \in Nat \ {0} /\ move \in R!Index /\ move \in Int /\ rfiles \in Files /\ written \in Seq(R!Line)
      /\ (move < MaxFile - 1 => rfiles[move + 1] = <<>>)
  BY DEF RollInv, R!TypeOK, Files, R!Assumption, R!Index
<1>2. /\ g[move] = <<>>
      /\ \A i \in R!Index : i # move /\ i # move + 1 => g[i] = rfiles[i]
      /\ move < MaxFile - 1 => move + 1 \in R!Index /\ g[move + 1] = rfiles[move]
  BY <1>1, MovedIs
<1>3. /\ move < MaxFile - 1 => All(g) = All(rfiles)
      /\ move = MaxFile - 1 => All(rfiles) = rfiles[move] \o All(g)
  BY <1>1, AllMoved
<1>4. All(g) \in Seq(R!Line) /\ All(rfiles) \in Seq(R!Line) /\ rfiles[move] \in Seq(R!Line)
  BY <1>1, AllType DEF Files
<1>5. move < MaxFile - 1 \/ move = MaxFile - 1  BY <1>1 DEF R!Index
<1>6. R!Oldest2Newest = All(rfiles) /\ Suffix(All(rfiles), written)  BY OldestIs DEF RollInv
<1>7. Suffix(All(g), written)
  <2>1. CASE move < MaxFile - 1  BY <1>3, <1>6, <2>1
  <2>2. CASE move = MaxFile - 1
    <3>1. Suffix(rfiles[move] \o All(g), written)  BY <1>3, <1>6, <2>2, Zenon
    <3> QED  BY <1>1, <1>4, <3>1, SuffixOf
  <2> QED  BY <1>5, <2>1, <2>2
<1>8. Len(All(g)) <= Len(All(rfiles))
  <2>1. CASE move < MaxFile - 1  BY <1>3, <1>4, <2>1
  <2>2. CASE move = MaxFile - 1
    <3>1. Len(All(rfiles)) = Len(rfiles[move]) + Len(All(g))  BY <1>3, <1>4, <2>2, ConcatProperties
    <3> QED  BY <1>4, <3>1
  <2> QED  BY <1>5, <2>1, <2>2
<1>9. \A i \in R!Index : Bounded(g[i])
  <2> TAKE i \in R!Index
  <2>1. CASE i = move  BY <1>2, <2>1 DEF Bounded
  <2>2. CASE i = move + 1
    <3>1. move < MaxFile - 1  BY <1>1, <2>2 DEF R!Index
    <3> QED  BY <1>1, <1>2, <2>2, <3>1 DEF RollInv
  <2>3. CASE i # move /\ i # move + 1  BY <1>2, <2>3 DEF RollInv
  <2> QED  BY <2>1, <2>2, <2>3
<1>10. ASSUME kills = 0  PROVE \A i \in HeldIndex : HeldAfter(g, move - 1, i) = Held(i)
  BY HeldMoved
<1>11. ASSUME kills = 0, Len(All(g)) < Len(written)  PROVE \A i \in HeldIndex : Held(i) # <<>>
  <2>1. NoneSkipped  BY <1>11 DEF RollInv
  <2>2. CASE All(g) = All(rfiles)  BY <1>6, <1>11, <2>1, <2>2 DEF NoneSkipped, Missing
  <2>3. CASE All(g) # All(rfiles)
    <3>1. move = MaxFile - 1 /\ All(rfiles) = rfiles[move] \o All(g)  BY <1>3, <1>5, <2>3
    <3>2. rfiles[move] # <<>>
      <4>1. <<>> \o All(g) = All(g)  BY <1>4, ConcatEmptySeq, Zenon
      <4> QED  BY <2>3, <3>1, <4>1, Zenon
    <3> QED  BY <2>1, <3>1, <3>2 DEF NoneSkipped
  <2> QED  BY <2>2, <2>3
<1> QED  BY <1>4, <1>6, <1>7, <1>8, <1>9, <1>10, <1>11

(* A step that changes no file and writes no line.                           *)
LEMMA NothingMoved ==
    ASSUME RollInv, UNCHANGED <<rfiles, written, move>>
    PROVE  /\ Suffix(R!Oldest2Newest, written)'
           /\ \A i \in R!Index : Bounded(rfiles'[i])
           /\ kills = 0 => NoneSkipped'
BY Zenon DEF RollInv, Suffix, R!Oldest2Newest, NoneSkipped, Held, Missing, Full

(* writeLog(), which may begin a roll.                                       *)
LEMMA WriteLogStep ==
    ASSUME R!Assumption, RollInv, NEW n \in LineSizes, R!WriteLog(n)
    PROVE  RollInv'
<1> DEFINE l == [id |-> rlines + 1, size |-> n]
<1>0. /\ move = -1 /\ rlines' \in 0 .. RollLines /\ UNCHANGED <<rclock, kills>>
      /\ rclock \in 0 .. RollEnd /\ kills \in 0 .. MaxKill /\ rfails \in 0 .. RollFails
      /\ size \in Nat /\ ropenTime \in 0 .. RollEnd /\ line \in R!Line \cup {R!NoLine} /\ open \in BOOLEAN
      /\ rfiles \in Files /\ written \in Seq(R!Line)
      /\ MaxSize \in Nat /\ MaxFile \in Nat \ {0} /\ RollFails \in Nat
  BY DEF R!WriteLog, RollInv, R!TypeOK, Files, R!Assumption
<1>1. l \in R!Line  BY <1>0 DEF R!WriteLog, R!Line, R!Assumption, RollInv, R!TypeOK
<1> HIDE DEF l, R!Line
<1>2. R!FileSize(rfiles[0]) \in Nat
  <2>1. rfiles[0] \in Seq(R!Line)  BY <1>0 DEF Files, R!Index
  <2> QED  BY <2>1, SizeType
<1>3. ASSUME UNCHANGED rfails, ropenTime' \in 0 .. RollEnd, move' = -1, line' = R!NoLine, R!FileSize(rfiles[0]) < MaxSize,
             R!Append0(l, R!FileSize(rfiles[0]))
      PROVE  RollInv'
  <2>1. /\ rfiles' \in Files /\ written' \in Seq(R!Line)
        /\ size' \in Nat /\ size' = R!FileSize(rfiles'[0])
        /\ Suffix(R!Oldest2Newest, written)'
        /\ \A i \in R!Index : Bounded(rfiles'[i])
        /\ kills = 0 => NoneSkipped'
    BY <1>0, <1>1, <1>3, Append0Keeps
  <2>2. open' = TRUE  BY <1>3 DEF R!Append0
  <2>3. R!TypeOK'  BY <1>0, <1>3, <2>1, <2>2 DEF R!TypeOK, Files
  <2>4. ~(move' >= 0)  BY <1>3
  <2>5. (\A i \in R!Index : Bounded(rfiles[i]))'  BY <2>1 DEF Bounded
  <2> QED  BY <1>0, <1>3, <2>1, <2>3, <2>4, <2>5 DEF RollInv
<1>4. ASSUME UNCHANGED <<rfails, rfiles, written>>, ropenTime' \in 0 .. RollEnd, move' = R!RollFrom, line' = l,
             open' = FALSE, size' \in Nat, Full(rfiles[0])
      PROVE  RollInv'
  <2>1. R!TypeOK'
    <3>1. move' \in R!Index  BY <1>0, <1>4 DEF R!RollFrom, R!Index
    <3> QED  BY <1>0, <1>1, <1>4, <3>1, Zenon DEF R!TypeOK, Files
  <2>2. kills = 0 => NoneSkipped'  BY <1>0, <1>4, RollBegins
  <2>3. ~(move' < MaxFile - 1)  BY <1>0, <1>4 DEF R!RollFrom
  <2>4. Suffix(R!Oldest2Newest, written)' /\ (\A i \in R!Index : Bounded(rfiles[i]))'
    BY <1>4, Zenon DEF RollInv, Suffix, R!Oldest2Newest, Bounded
  <2> QED  BY <1>0, <1>1, <1>4, <2>1, <2>2, <2>3, <2>4 DEF RollInv
<1>5. CASE R!OpenFails
  <2>1. UNCHANGED <<rfiles, written, move>> /\ open' = FALSE  BY <1>0, <1>5 DEF R!OpenFails
  <2>2. R!TypeOK'
    <3>1. rfails' \in 0 .. RollFails /\ ropenTime' \in 0 .. RollEnd  BY <1>0, <1>5 DEF R!OpenFails
    <3> QED  BY <1>0, <1>5, <2>1, <3>1, Zenon DEF R!OpenFails, R!TypeOK, Files
  <2>3. /\ Suffix(R!Oldest2Newest, written)'
        /\ \A i \in R!Index : Bounded(rfiles'[i])
        /\ kills = 0 => NoneSkipped'
    BY <2>1, NothingMoved
  <2>4. (\A i \in R!Index : Bounded(rfiles[i]))'  BY <2>3 DEF Bounded
  <2>5. ~(move' >= 0)  BY <1>0, <2>1
  <2> QED  BY <1>0, <2>1, <2>2, <2>3, <2>4, <2>5 DEF RollInv
<1>6. CASE R!OpenAndWrite(l)
  <2>1. UNCHANGED rfails /\ ropenTime' \in 0 .. RollEnd  BY <1>0, <1>6 DEF R!OpenAndWrite
  <2>2. CASE /\ R!FileSize(rfiles[0]) < MaxSize /\ R!Append0(l, R!FileSize(rfiles[0]))
             /\ move' = -1 /\ line' = R!NoLine
    BY <1>3, <2>1, <2>2
  <2>3. CASE /\ R!FileSize(rfiles[0]) >= MaxSize /\ move' = R!RollFrom /\ line' = l
             /\ open' = FALSE /\ size' = R!FileSize(rfiles[0]) /\ UNCHANGED <<rfiles, written>>
    BY <1>2, <1>4, <2>1, <2>3, Zenon DEF Full
  <2> QED  BY <1>6, <2>2, <2>3, Zenon DEF R!OpenAndWrite
<1>7. CASE R!WriteOpen(l) /\ open
  <2>0. size = R!FileSize(rfiles[0])  BY <1>7 DEF RollInv
  <2>1. UNCHANGED rfails /\ ropenTime' \in 0 .. RollEnd  BY <1>0, <1>7 DEF R!WriteOpen
  <2>2. CASE size < MaxSize /\ R!Append0(l, size) /\ move' = -1 /\ line' = R!NoLine
    BY <1>3, <2>0, <2>1, <2>2
  <2>3. CASE /\ size >= MaxSize /\ move' = R!RollFrom /\ line' = l
             /\ open' = FALSE /\ UNCHANGED <<rfiles, size, written>>
    BY <1>0, <1>4, <2>0, <2>1, <2>3, Zenon DEF Full
  <2> QED  BY <1>7, <2>2, <2>3, Zenon DEF R!WriteOpen
<1>8. R!OpenAndWrite(l) \/ R!OpenFails \/ (R!WriteOpen(l) /\ open)
  BY DEF R!WriteLog, R!NeedsOpen, l
<1> QED  BY <1>5, <1>6, <1>7, <1>8

(* A rename within a roll.                                                   *)
LEMMA MoveStep ==
    ASSUME R!Assumption, RollInv, R!Move
    PROVE  RollInv'
<1> HIDE DEF R!Line
<1>0. /\ move > 0 /\ move \in R!Index /\ move \in Nat /\ move' = move - 1 /\ MaxFile \in Nat \ {0}
      /\ rfiles' = R!Moved /\ rfiles \in Files
      /\ (move < MaxFile - 1 => rfiles[move + 1] = <<>>) /\ line \in R!Line
      /\ UNCHANGED <<open, size, ropenTime, line, rclock, written, rlines, kills, rfails>>
  BY DEF R!Move, RollInv, R!TypeOK, Files, R!Index, R!Assumption, R!file
<1>1. PICK g \in Files : g = R!Moved  BY <1>0, MovedIs
<1>2. /\ Suffix(All(g), written) /\ All(g) \in Seq(R!Line) /\ Len(All(g)) <= Len(R!Oldest2Newest)
      /\ \A i \in R!Index : Bounded(g[i])
      /\ kills = 0 =>
            /\ \A i \in HeldIndex : HeldAfter(g, move - 1, i) = Held(i)
            /\ Len(All(g)) < Len(written) => \A i \in HeldIndex : Held(i) # <<>>
  BY <1>0, <1>1, MovedKeeps
<1>3. R!Oldest2Newest' = All(g)  BY <1>0, <1>1, SameFlatten DEF R!Oldest2Newest, All, Slots
<1>4. R!TypeOK'
  <2>1. move' \in R!Index  BY <1>0 DEF R!Index
  <2> QED  BY <1>0, <1>1, <2>1 DEF RollInv, R!TypeOK, Files
<1>5. move' < MaxFile - 1 /\ rfiles'[move' + 1] = <<>>
  <2>1. move' + 1 = move /\ move' < MaxFile - 1  BY <1>0 DEF R!Index
  <2> QED  BY <1>0, <2>1, MovedIs
<1>6. ASSUME kills = 0  PROVE NoneSkipped'
  <2>1. NoneSkipped  BY <1>6 DEF RollInv
  <2>2. \A i \in HeldIndex : Held(i)' = Held(i)  BY <1>0, <1>1, <1>2, <1>6 DEF HeldAfter, Held
  <2>3. Missing' => \A i \in HeldIndex : Held(i) # <<>>  BY <1>0, <1>2, <1>3, <1>6 DEF Missing
  <2>4. rfiles'[0] = rfiles[0]
    <3>1. 0 \in R!Index /\ 0 # move /\ 0 # move + 1  BY <1>0 DEF R!Index
    <3> QED  BY <1>0, <3>1, MovedIs
  <2>5. Full(rfiles[0])'  BY <1>0, <2>1, <2>4 DEF NoneSkipped, Full
  <2>6. move' # MaxFile - 1  BY <1>0 DEF R!Index
  <2> HIDE DEF Held
  <2> QED  BY <2>1, <2>2, <2>3, <2>5, <2>6 DEF NoneSkipped, Full
<1>7. Suffix(R!Oldest2Newest, written)' /\ (\A i \in R!Index : Bounded(rfiles[i]))'
  BY <1>0, <1>1, <1>2, <1>3 DEF Suffix, Bounded
<1>8. ~open  BY <1>0 DEF RollInv, R!Index
<1> QED  BY <1>0, <1>4, <1>5, <1>6, <1>7, <1>8 DEF RollInv

(* The roll is over and file 0 is opened.                                    *)
LEMMA RolledStep ==
    ASSUME R!Assumption, RollInv, R!Rolled
    PROVE  RollInv'
<1>a. \A x \in R!Line : x.size \in Nat  BY Zenon DEF R!Line, R!Assumption
<1> HIDE DEF R!Line
<1>0. /\ move = 0 /\ 0 \in R!Index /\ move' = -1 /\ MaxFile \in Nat \ {0} /\ MaxSize \in Nat \ {0}
      /\ rfiles \in Files /\ written \in Seq(R!Line) /\ rclock \in 0 .. RollEnd
      /\ (move < MaxFile - 1 => rfiles[move + 1] = <<>>) /\ line \in R!Line
      /\ ropenTime' = rclock /\ line' = R!NoLine /\ UNCHANGED <<rclock, rlines, kills>>
      /\ rfails \in 0 .. RollFails /\ size \in Nat /\ kills \in 0 .. MaxKill /\ rlines \in 0 .. RollLines
      /\ RollFails \in Nat
  BY DEF R!Rolled, RollInv, R!TypeOK, Files, R!Index, R!Assumption
<1>1. PICK g \in Files : g = R!Moved  BY <1>0, MovedIs
<1>2. /\ Suffix(All(g), written) /\ All(g) \in Seq(R!Line) /\ Len(All(g)) <= Len(R!Oldest2Newest)
      /\ \A i \in R!Index : Bounded(g[i])
      /\ kills = 0 =>
            /\ \A i \in HeldIndex : HeldAfter(g, move - 1, i) = Held(i)
            /\ Len(All(g)) < Len(written) => \A i \in HeldIndex : Held(i) # <<>>
  BY <1>0, <1>1, MovedKeeps
<1>3. g[0] = <<>>  BY <1>0, <1>1, MovedIs
<1>4. ~(move' >= 0) /\ move' # MaxFile - 1  BY <1>0
<1>5. ASSUME kills = 0, \A i \in R!Index : i # 0 => rfiles'[i] = g[i],
             Missing' => Len(All(g)) < Len(written)
      PROVE  NoneSkipped'
  <2>1. NoneSkipped  BY <1>5 DEF RollInv
  <2>2. \A i \in HeldIndex : Held(i)' = Held(i)
    <3>1. \A i \in HeldIndex : i + 1 \in R!Index /\ i + 1 # 0 /\ ~(i <= -1) /\ ~(i <= move - 1)
      BY <1>0 DEF HeldIndex, R!Index
    <3>2. \A i \in HeldIndex : Held(i)' = g[i + 1] /\ HeldAfter(g, move - 1, i) = g[i + 1]
      BY <1>0, <1>5, <3>1 DEF Held, HeldAfter
    <3> QED  BY <1>2, <1>5, <3>2
  <2>3. Missing' => \A i \in HeldIndex : Held(i) # <<>>  BY <1>2, <1>5
  <2> HIDE DEF Held
  <2> QED  BY <1>4, <2>1, <2>2, <2>3 DEF NoneSkipped, Full
<1>6. CASE /\ rfiles' = [R!Moved EXCEPT ![0] = <<line>>]
           /\ written' = Append(written, line)
           /\ size' = line.size /\ open' = TRUE
           /\ UNCHANGED rfails
  <2>1. PICK o \in Seq(R!Line) : o = <<line>> /\ o = Append(<<>>, line) /\ Len(o) = 1 /\ o[1] = line
    <3>1. <<line>> \in Seq(R!Line) /\ <<line>> = Append(<<>>, line)  BY <1>0
    <3> QED  BY <3>1, Zenon
  <2>2. rfiles' \in Files /\ rfiles'[0] = o /\ \A i \in R!Index : i # 0 => rfiles'[i] = g[i]
    BY <1>0, <1>1, <1>6, <2>1 DEF Files
  <2>3. All(rfiles') = Append(All(g), line)
    <3>1. rfiles'[0] = Append(g[0], line)  BY <1>3, <2>1, <2>2
    <3> QED  BY <1>0, <2>2, <3>1, AllGrows, Zenon
  <2>4. R!Oldest2Newest' = All(rfiles')  BY SameFlatten DEF R!Oldest2Newest, All, Slots
  <2>5. /\ written' \in Seq(R!Line) /\ Len(written') = Len(written) + 1
        /\ Len(All(rfiles')) = Len(All(g)) + 1
    BY <1>0, <1>2, <1>6, <2>3
  <2>6. Suffix(R!Oldest2Newest, written)'
    <3>1. Suffix(Append(All(g), line), Append(written, line))  BY <1>0, <1>2, RollSuffixAppend, Zenon
    <3>2. Suffix(R!Oldest2Newest', written')  BY <1>6, <2>3, <2>4, <3>1
    <3> QED  BY <3>2 DEF Suffix
  <2>7. line.size \in Nat /\ R!FileSize(o) = line.size
    <3>1. <<>> \in Seq(R!Line)  OBVIOUS
    <3>2. R!FileSize(Append(<<>>, line)) = R!FileSize(<<>>) + line.size  BY <1>0, <3>1, SizeAppend, Zenon
    <3>3. line.size \in Nat  BY <1>a, <1>0
    <3> QED  BY <2>1, <3>2, <3>3, SizeEmpty
  <2>8. (\A i \in R!Index : Bounded(rfiles[i]))'
    <3> SUFFICES ASSUME NEW i \in R!Index  PROVE Bounded(rfiles'[i])  BY DEF Bounded
    <3>1. CASE i = 0
      <4>1. R!FileSize(o) - o[Len(o)].size < MaxSize  BY <1>0, <2>1, <2>7
      <4> QED  BY <2>2, <3>1, <4>1 DEF Bounded
    <3>2. CASE i # 0  BY <1>2, <2>2, <3>2
    <3> QED  BY <3>1, <3>2
  <2>9. kills = 0 => NoneSkipped'
    <3>1. Missing' => Len(All(g)) < Len(written)
      <4>1. Len(All(g)) \in Nat /\ Len(written) \in Nat  BY <1>0, <1>2
      <4> QED  BY <2>4, <2>5, <4>1 DEF Missing
    <3> QED  BY <1>5, <2>2, <3>1
  <2>10. R!TypeOK'  BY <1>0, <1>6, <2>2, <2>5, <2>7 DEF R!TypeOK, Files
  <2>11. size' = R!FileSize(rfiles'[0])  BY <1>6, <2>2, <2>7
  <2> QED  BY <1>0, <1>4, <2>6, <2>8, <2>9, <2>10, <2>11 DEF RollInv
<1>7. CASE /\ rfails < RollFails /\ rfails' = rfails + 1
           /\ rfiles' = R!Moved /\ open' = FALSE
           /\ UNCHANGED <<written, size>>
  <2>1. R!Oldest2Newest' = All(g)  BY <1>1, <1>7, SameFlatten DEF R!Oldest2Newest, All, Slots
  <2>2. Suffix(R!Oldest2Newest, written)' /\ (\A i \in R!Index : Bounded(rfiles[i]))'
    BY <1>1, <1>2, <1>7, <2>1 DEF Suffix, Bounded
  <2>3. kills = 0 => NoneSkipped'
    <3>1. Missing' => Len(All(g)) < Len(written)  BY <1>7, <2>1 DEF Missing
    <3> QED  BY <1>1, <1>5, <1>7, <3>1
  <2>4. R!TypeOK'
    <3>1. rfails' \in 0 .. RollFails  BY <1>0, <1>7
    <3>2. rfiles' \in Files /\ written' \in Seq(R!Line) /\ size' \in Nat /\ open' \in BOOLEAN
      BY <1>0, <1>1, <1>7, Zenon
    <3> QED  BY <1>0, <3>1, <3>2 DEF R!TypeOK, Files
  <2> QED  BY <1>0, <1>4, <1>7, <2>2, <2>3, <2>4 DEF RollInv
<1> QED  BY <1>6, <1>7, Zenon DEF R!Rolled

(* Every step of a RollLog keeps the invariant.                              *)
LEMMA RollStep ==
    ASSUME R!Assumption, RollInv, [R!Next]_(R!vars)
    PROVE  RollInv'
<1> HIDE DEF R!Line
<1>1. ASSUME UNCHANGED <<rfiles, open, size, ropenTime, move, line, written, rlines, kills, rfails>>,
             rclock' \in 0 .. RollEnd
      PROVE  RollInv'
  <2>1. R!TypeOK'  BY <1>1 DEF RollInv, R!TypeOK
  <2>2. (\A i \in R!Index : Bounded(rfiles[i]))' /\ Suffix(R!Oldest2Newest, written)'
        /\ (kills = 0 => NoneSkipped')
    BY <1>1, NothingMoved DEF Bounded
  <2> QED  BY <1>1, <2>1, <2>2 DEF RollInv
<1>2. CASE UNCHANGED R!vars  BY <1>1, <1>2 DEF R!vars, R!file, RollInv, R!TypeOK
<1>3. CASE R!Tick
  <2>1. rclock' \in 0 .. RollEnd  BY <1>3 DEF R!Tick, RollInv, R!TypeOK, R!Assumption
  <2> QED  BY <1>1, <1>3, <2>1 DEF R!Tick, R!file
<1>4. ASSUME NEW n \in LineSizes, R!WriteLog(n)  PROVE RollInv'  BY <1>4, WriteLogStep
<1>5. CASE R!Move  BY <1>5, MoveStep
<1>6. CASE R!Rolled  BY <1>6, RolledStep
<1>7. CASE R!Kill
  <2>1. R!TypeOK'
    <3>1. kills' \in 0 .. MaxKill  BY <1>7 DEF R!Kill, RollInv, R!TypeOK, R!Assumption
    <3>2. 0 \in 0 .. RollEnd  BY DEF R!Assumption
    <3>4. open' \in BOOLEAN  BY <1>7, Zenon DEF R!Kill
    <3>3. size' \in Nat /\ ropenTime' \in 0 .. RollEnd /\ move' = -1 /\ line' = R!NoLine
      BY <1>7, <3>2 DEF R!Kill
    <3> QED  BY <1>7, <3>1, <3>2, <3>3, <3>4 DEF R!Kill, RollInv, R!TypeOK
  <2>2. (\A i \in R!Index : Bounded(rfiles[i]))' /\ Suffix(R!Oldest2Newest, written)'
    BY <1>7, Zenon DEF R!Kill, RollInv, Bounded, Suffix, R!Oldest2Newest
  <2>3. ~(move' >= 0) /\ kills' # 0 /\ open' = FALSE  BY <1>7 DEF R!Kill, RollInv, R!TypeOK, R!Assumption
  <2> QED  BY <2>1, <2>2, <2>3 DEF RollInv
<1> QED  BY <1>2, <1>3, <1>4, <1>5, <1>6, <1>7 DEF R!Next

(* A RollLog without files has it.                                           *)
LEMMA RollInit == R!Assumption /\ R!Init => RollInv
<1> SUFFICES ASSUME R!Assumption, R!Init  PROVE RollInv  OBVIOUS
<1> HIDE DEF R!Line
<1>1. <<>> \in Seq(R!Line) /\ rfiles = [i \in R!Index |-> <<>>]  BY DEF R!Init
<1>2. rfiles \in Files /\ written = <<>> /\ \A i \in R!Index : rfiles[i] = <<>>
  BY <1>1 DEF Files, R!Init
<1>3. R!TypeOK
  <2>1. /\ 0 \in 0 .. RollEnd /\ 0 \in 0 .. RollLines /\ 0 \in 0 .. MaxKill /\ 0 \in 0 .. RollFails
    BY DEF R!Assumption
  <2>2. open \in BOOLEAN /\ written \in Seq(R!Line) /\ size \in Nat  BY <1>1, <1>2, Zenon DEF R!Init
  <2> QED  BY <1>2, <2>1, <2>2 DEF R!Init, R!TypeOK, Files
<1>4. R!Oldest2Newest = <<>>
  <2>1. PICK ss \in Seq(Seq(R!Line)) : /\ ss = Slots(rfiles) /\ Len(ss) = MaxFile
                                       /\ \A k \in 1 .. MaxFile : ss[k] = rfiles[MaxFile - k]
    BY <1>2, SlotsIs
  <2>2. \A k \in 1 .. MaxFile : MaxFile - k \in R!Index  BY DEF R!Index, R!Assumption
  <2>3. \A k \in 1 .. Len(ss) : ss[k] = <<>>  BY <1>2, <2>1, <2>2, Zenon
  <2>4. Flatten(ss) = <<>>  BY <2>3, FlattenEmpties
  <2> QED  BY <2>1, <2>4, OldestIs DEF All
<1>5. Suffix(R!Oldest2Newest, written)
  <2>1. <<>> = SubSeq(<<>>, 1, 0) /\ Len(<<>>) = 0  OBVIOUS
  <2> QED  BY <1>2, <1>4, <2>1 DEF Suffix
<1>6. \A i \in HeldIndex : Held(i) = <<>>
  <2>1. \A i \in HeldIndex : i + 1 \in R!Index /\ ~(i <= -1)  BY DEF HeldIndex, R!Index, R!Assumption
  <2> QED  BY <1>2, <2>1 DEF Held, R!Init
<1>7. NoneSkipped
  <2>1. ~Missing  BY <1>2, <1>4 DEF Missing
  <2>2. ~(move >= 0) /\ move # MaxFile - 1  BY DEF R!Init, R!Assumption
  <2> QED  BY <1>6, <2>1, <2>2 DEF NoneSkipped
<1>8. \A i \in R!Index : Bounded(rfiles[i])  BY <1>2 DEF Bounded
<1>9. ~open /\ ~(move >= 0)  BY DEF R!Init
<1> QED  BY <1>3, <1>5, <1>7, <1>8, <1>9 DEF RollInv

-----------------------------------------------------------------------------
(* The utilities together: what moves keeps its invariant, and nothing else  *)
(* moves.                                                                    *)
UtilInv ==
    /\ part = "Timer" => TimerInv
    /\ part = "MySqlConn" => SqlInv
    /\ part = "stream" => StreamInv
    /\ part = "RollLog" => RollInv
    /\ part = "DayLog" => DayInv

(* The first states, whichever of them moves.                                *)
LEMMA UtilInitInv == UtilInit => UtilInv
<1> SUFFICES ASSUME UtilInit  PROVE UtilInv  OBVIOUS
<1>1. T!Assumption /\ M!Assumption /\ P!Assumption /\ R!Assumption /\ D!Assumption
  BY UtilAssumption
<1>2. T!Init /\ M!Init /\ P!Init /\ R!Init /\ D!Init  BY DEF UtilInit, PartsInit
<1> QED
  BY <1>1, <1>2, TimerInit, SqlInit, StreamInit, RollInit, DayInit, Zenon DEF UtilInv

(* A step of one of them is a step of its module.                            *)
LEMMA PartStep ==
    ASSUME [UtilNext]_utilVars
    PROVE  /\ part' = part
           /\ part = "Timer" => [T!Next]_(T!vars)
           /\ part = "MySqlConn" => [M!Next]_(M!vars)
           /\ part = "stream" => [P!Next]_(P!vars)
           /\ part = "RollLog" => [R!Next]_(R!vars)
           /\ part = "DayLog" => [D!Next]_(D!vars)
<1>1. CASE UNCHANGED utilVars
  <2>1. UNCHANGED <<part, timerVars, mysqlVars, streamVars, rollVars, dayVars>>
    BY <1>1 DEF utilVars
  <2>2. UNCHANGED <<T!vars, M!vars, P!vars>>
    BY <2>1 DEF timerVars, mysqlVars, streamVars, T!vars, M!vars, P!vars
  <2>3. UNCHANGED <<R!vars, D!vars>>
    BY <2>1 DEF rollVars, dayVars, R!vars, R!file, D!vars
  <2> QED  BY <2>1, <2>2, <2>3
<1>2. CASE UtilNext
  <2>1. part' = part  BY <1>2 DEF UtilNext
  <2>2. part = "Timer" => T!Next  BY <1>2 DEF UtilNext
  <2>3. part = "MySqlConn" => M!Next  BY <1>2 DEF UtilNext
  <2>4. part = "stream" => P!Next  BY <1>2 DEF UtilNext
  <2>5. part = "RollLog" => R!Next  BY <1>2 DEF UtilNext
  <2>6. part = "DayLog" => D!Next  BY <1>2 DEF UtilNext
  <2> QED  BY <2>1, <2>2, <2>3, <2>4, <2>5, <2>6
<1> QED  BY <1>1, <1>2

(* Every step keeps the invariant of the part that moves.                    *)
LEMMA UtilStep == UtilInv /\ [UtilNext]_utilVars => UtilInv'
<1> SUFFICES ASSUME UtilInv, [UtilNext]_utilVars  PROVE UtilInv'  OBVIOUS
<1>1. T!Assumption /\ M!Assumption /\ P!Assumption /\ R!Assumption /\ D!Assumption
  BY UtilAssumption
<1>2. part' = part  BY PartStep
<1>3. part = "Timer" => TimerInv'  BY <1>1, PartStep, TimerStep, Zenon DEF UtilInv
<1>4. part = "MySqlConn" => SqlInv'  BY <1>1, PartStep, SqlStep, Zenon DEF UtilInv
<1>5. part = "stream" => StreamInv'  BY <1>1, PartStep, StreamStep, Zenon DEF UtilInv
<1>6. part = "RollLog" => RollInv'  BY <1>1, PartStep, RollStep, Zenon DEF UtilInv
<1>7. part = "DayLog" => DayInv'  BY <1>1, PartStep, DayStep, Zenon DEF UtilInv
<1> QED  BY <1>2, <1>3, <1>4, <1>5, <1>6, <1>7, Zenon DEF UtilInv

(* The inductive invariant of the utilities.                                 *)
THEOREM UtilInvariant == UtilSpec => []UtilInv
BY UtilInitInv, UtilStep, PTL DEF UtilSpec

(* UtilTimer, for any periods and any number of timers, whatever callbacks   *)
(* add and delete: a timer that is not deleted waits exactly once, update()  *)
(* calls each at most once and leaves none behind that was due, and one that *)
(* delTimer() has deleted is not called.                                     *)
THEOREM UtilTimersFire == UtilSpec => []TimersFire
<1>1. UtilInv => TimersFire
  <2> SUFFICES ASSUME TimerInv
               PROVE  /\ T!TypeOK /\ T!EachWaitsOnce /\ T!OncePerUpdate
                      /\ T!NoneMissed /\ T!StoppedIsQuiet
    BY Zenon DEF UtilInv, TimersFire
  <2>1. T!Assumption  BY UtilAssumption
  <2>2. T!OncePerUpdate  BY DEF TimerInv
  <2> QED  BY <2>1, <2>2, TimerTypeOK, CountLive, Missed, Zenon
<1> QED  BY <1>1, UtilInvariant, PTL

(* MySqlConn, for any SqlJoins and configurations: a statement is sent as    *)
(* the call meant it, through a whole connection to the configured server,   *)
(* and no MYSQL object is lost.                                              *)
THEOREM UtilStatementsArrive == UtilSpec => []StatementsArrive
<1>1. UtilInv => StatementsArrive  BY DEF UtilInv, StatementsArrive, SqlInv, ConnInv
<1> QED  BY <1>1, UtilInvariant, PTL

(* IoBuffer and the packet protocol, for any capacity, packet lengths of 32  *)
(* bits and any pieces the bytes come in: no byte is lost, onPacket() gets   *)
(* the packets as they were sent, and handleRead() leaves no complete one.   *)
THEOREM UtilPacketsArrive == UtilSpec => []PacketsArrive
<1>1. UtilInv => PacketsArrive  BY DEF UtilInv, PacketsArrive, StreamInv
<1> QED  BY <1>1, UtilInvariant, PTL

(* RollLog and DayLog, for any sizes and numbers of files, any lines and any *)
(* moment of a kill: the files hold the last lines that were written, in     *)
(* their order, none is past m_maxSize by more than its last line, and a     *)
(* line of a DayLog is in the file of its own day.                           *)
THEOREM UtilFilesKeepLines == UtilSpec => []FilesKeepLines
<1>1. UtilInv => FilesKeepLines
  <2>1. R!Assumption  BY UtilAssumption
  <2>2. RollInv => R!TypeOK /\ R!LastLines /\ R!SizeBounded /\ R!GivesUpLast
    BY <2>1, RollShows
  <2> QED  BY <2>2 DEF UtilInv, FilesKeepLines, DayInv
<1> QED  BY <1>1, UtilInvariant, PTL
=============================================================================
