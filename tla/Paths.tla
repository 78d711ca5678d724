-------------------------------- MODULE Paths -------------------------------
(* UtilFile: paths, and the directories that are made and listed by them.    *)
(* A path is a sequence of characters, a place in the file system the        *)
(* sequence of the names that lead to it from the root.                      *)
(*                                                                           *)
(* An operator BadX is a faulty variant of X that the specification does not *)
(* use: it serves to see the property that guards against the slip fail.     *)
EXTENDS Strings, FiniteSets

CONSTANTS
    Chars,      \* the characters of paths, with "/", "." and "~"
    MaxLen,     \* bound: the length of paths
    Names,      \* bound: the names of files and directories in the tree
    MaxNodes    \* bound: the size of the tree

Assumption == {"/", ".", "~"} \subseteq Chars /\ MaxLen \in Nat /\ MaxNodes \in Nat

VARIABLES
    path,       \* the argument of the functions
    tree        \* what there is in the file system: "dir" or "file"

vars == <<path, tree>>

Root == <<>>
Cwd == <<"/", "a">>          \* getCurrentDir()
Home == <<"/", "a", "a">>     \* getHomeDir()

TypeOK ==
    /\ path \in BoundedSeq(Chars, MaxLen)
    /\ \A l \in DOMAIN tree : tree[l] \in {"dir", "file"}

Init == path = <<>> /\ tree = [l \in {Root, <<<<"a">>>>} |-> "dir"]

-----------------------------------------------------------------------------
(* Names of paths *)

IsAbsolute(s) == s # <<>> /\ s[1] = "/"
IsHome(s) == s # <<>> /\ s[1] = "~" /\ (Len(s) = 1 \/ s[2] = "/")
Under(dir, s) == dir \o <<"/">> \o s

\* ".." at the beginning of a path is dropped.
BadUp(v) == IF v = <<>> THEN v ELSE <<>>
Up(v) == IF v = <<>> THEN v ELSE Front(v)

getSimplifiedPath(s) ==
    LET Step(vp, x) == CASE x = <<".", ".">> -> Up(vp)
                         [] x = <<".">> -> vp
                         [] OTHER -> Append(vp, x)
        names == FoldLeft(Step, <<>>, splitString(s, {"/"}, TRUE))
    IN  (IF IsAbsolute(s) THEN <<"/">> ELSE <<>>) \o joinString(names, <<"/">>)

getAbsolutePath(s, base) ==
    getSimplifiedPath(
        CASE IsAbsolute(s) -> s
          [] IsHome(s) -> Under(Home, Tail(s))
          [] OTHER -> Under(CASE IsAbsolute(base) -> base
                              [] IsHome(base) -> Under(Home, Tail(base))
                              [] base = <<>> -> Cwd
                              [] OTHER -> Under(Cwd, base), s))

\* Where the loops from the end stop: the last character that is not a slash,
\* and the last slash before it.
LastNot(s) == SelectLastInSeq(s, LAMBDA c : c # "/")
LastSlash(s) == Rfind(SubSeq(s, 1, LastNot(s)), "/")

getFileBasename(s) ==
    CASE s = <<>> -> <<>>
      [] s # <<>> /\ LastNot(s) = 0 -> <<"/">>
      [] OTHER -> SubSeq(s, LastSlash(s) + 1, LastNot(s))

getFileDirname(s) ==
    LET dir == LastNot(SubSeq(s, 1, LastSlash(s))) IN
    CASE s = <<>> \/ (LastNot(s) > 0 /\ LastSlash(s) = 0) -> <<".">>
      [] LastNot(s) > 0 /\ dir > 0 -> SubSeq(s, 1, dir)
      [] OTHER -> <<"/">>

\* rfind('/') is npos, larger than any position, in a path without a slash.
getFileExt(s, withDot) ==
    LET pos == Rfind(s, ".")
        pos1 == Rfind(s, "/")
    IN  IF pos = 0 \/ pos1 = 0 \/ pos < pos1 THEN <<>>
        ELSE From(s, IF withDot THEN pos ELSE pos + 1)

replaceFileExt(s, new, withDot) ==
    LET pos == Rfind(s, ".") IN
    IF pos = 0 \/ pos < Rfind(s, "/") THEN s
    ELSE SubSeq(s, 1, IF withDot THEN pos - 1 ELSE pos) \o new

-----------------------------------------------------------------------------
(* Directories *)

isDirectory(t, l) == l \in DOMAIN t /\ t[l] = "dir"

\* The place of an absolute path that is simplified.
Place(s) == splitString(s, {"/"}, TRUE)

\* mkdir() fails if the parent is not there; a directory may be there already.
makeDirectory(t, l) ==
    IF l \notin DOMAIN t /\ isDirectory(t, Front(l))
    THEN [ok |-> TRUE, tree |-> [m \in DOMAIN t \cup {l} |-> IF m = l THEN "dir" ELSE t[m]]]
    ELSE [ok |-> isDirectory(t, l), tree |-> t]

\* One makeDirectory() for each slash but the first, and one for the path; the
\* first that fails ends it.
makeDirectoryRecursive(t, s) ==
    LET l == Place(getAbsolutePath(s, <<>>))
        Step(r, i) == IF r.ok THEN makeDirectory(r.tree, SubSeq(l, 1, i)) ELSE r
    IN  IF l = Root THEN makeDirectory(t, l)
        ELSE FoldLeft(Step, [ok |-> TRUE, tree |-> t], [i \in 1 .. Len(l) |-> i])

\* The names in directory l; the order of scandir() is left open.
scanOneDirectory(t, l) ==
    SetToSeq({Last(m) : m \in {k \in DOMAIN t \ {Root} : Front(k) = l}})

RECURSIVE scanRecDirectory(_, _, _, _)
scanRecDirectory(t, l, prefix, withDir) ==
    LET v == scanOneDirectory(t, l)
        Entry(x) ==
            LET dir == isDirectory(t, Append(l, x)) IN
            (IF ~dir \/ withDir THEN <<Append(prefix, x)>> ELSE <<>>)
            \o (IF dir THEN scanRecDirectory(t, Append(l, x), Append(prefix, x), withDir) ELSE <<>>)
    IN  FlattenSeq([i \in DOMAIN v |-> Entry(v[i])])

listDirectory(t, l, recursive, withDir) ==
    IF recursive THEN scanRecDirectory(t, l, <<>>, withDir)
    ELSE SelectSeq([i \in DOMAIN scanOneDirectory(t, l) |-> <<scanOneDirectory(t, l)[i]>>],
                   LAMBDA p : withDir \/ ~isDirectory(t, l \o p))

-----------------------------------------------------------------------------
(* Steps: the paths, one character at a time, and what is done with them *)

Input(c) == Len(path) < MaxLen /\ path' = Append(path, c) /\ UNCHANGED tree

MakeDirectory ==
    LET t == makeDirectoryRecursive(tree, path).tree IN
    /\ t # tree
    /\ Cardinality(DOMAIN t) <= MaxNodes
    /\ \A l \in DOMAIN t : Range(l) \subseteq Names
    /\ tree' = t
    /\ path' = <<>>

\* saveToFile() and removeFile(); the latter takes an empty directory too.
SaveToFile(l) ==
    /\ l \notin DOMAIN tree /\ isDirectory(tree, Front(l))
    /\ Cardinality(DOMAIN tree) < MaxNodes
    /\ tree' = [m \in DOMAIN tree \cup {l} |-> IF m = l THEN "file" ELSE tree[m]]
    /\ path' = <<>>

RemoveFile(l) ==
    /\ l \notin {Root, Place(Cwd)}
    /\ ~\E m \in DOMAIN tree : IsStrictPrefix(l, m)
    /\ tree' = [m \in DOMAIN tree \ {l} |-> tree[m]]
    /\ path' = <<>>

Next ==
    \/ \E c \in Chars : Input(c)
    \/ MakeDirectory
    \/ \E l \in DOMAIN tree, x \in Names : SaveToFile(Append(l, x))
    \/ \E l \in DOMAIN tree : RemoveFile(l)

-----------------------------------------------------------------------------
(* Properties *)

\* Where one gets from place l along path s, name by name.
Walk(l, s) ==
    FoldLeft(LAMBDA m, x : CASE x = <<".">> -> m
                             [] x = <<".", ".">> -> IF m = Root THEN m ELSE Front(m)
                             [] OTHER -> Append(m, x),
             l, splitString(s, {"/"}, TRUE))

\* Where a user means s to begin, if relative ones begin at l.
Begin(s, l) == IF IsAbsolute(s) THEN Root ELSE IF IsHome(s) THEN Place(Home) ELSE l
Rest(s) == IF IsHome(s) THEN Tail(s) ELSE s

(* getAbsolutePath() gives the place that a walk along the base path and the *)
(* path leads to, and its result is the one name of that place: absolute,    *)
(* without ".", ".." and empty names.                                        *)
AbsoluteLeadsThere ==
    \A base \in {<<>>, <<"a">>, <<"/", "a">>, <<"~">>, <<".", ".">>} :
        LET from == Walk(Begin(base, Place(Cwd)), Rest(base))
            to == Walk(Begin(path, from), Rest(path))
        IN  getAbsolutePath(path, base) = <<"/">> \o joinString(to, <<"/">>)

(* The directory and the name of a path lead to where the path leads; what   *)
(* getFileExt() takes off a path with a slash, replaceFileExt() puts back.   *)
PartsMakePath ==
    /\ getSimplifiedPath(Under(getFileDirname(path), getFileBasename(path)))
         = getSimplifiedPath(path)
    /\ \A d \in BOOLEAN : Rfind(path, "/") > 0 =>
         replaceFileExt(path, getFileExt(path, d), d) = path

(* The same for a path without a slash: not so, getFileExt() finds no        *)
(* extension there.                                                          *)
ExtOfAnyPath ==
    \A d \in BOOLEAN : replaceFileExt(path, getFileExt(path, d), d) = path

(* makeDirectoryRecursive() makes the directory and those above it, nothing  *)
(* else, and fails only where a file is in the way.                          *)
DirectoryIsMade ==
    LET r == makeDirectoryRecursive(tree, path)
        above == Prefixes(Place(getAbsolutePath(path, <<>>)))
    IN  /\ r.ok <=> \A l \in above : l \in DOMAIN tree => tree[l] = "dir"
        /\ r.ok => DOMAIN r.tree = DOMAIN tree \cup above
        /\ DOMAIN r.tree \subseteq DOMAIN tree \cup above
        /\ \A l \in DOMAIN r.tree : r.tree[l] = IF l \in DOMAIN tree THEN tree[l] ELSE "dir"

(* The tree stays one: what is in it is in a directory.                      *)
InDirectories == \A l \in DOMAIN tree \ {Root} : isDirectory(tree, Front(l))

(* listDirectory() names each file below a directory once, and nothing else: *)
(* the directories too if they are asked for, one level or all.              *)
ListIsComplete ==
    \A l \in {m \in DOMAIN tree : tree[m] = "dir"} : \A rec, dirs \in BOOLEAN :
        LET v == listDirectory(tree, l, rec, dirs) IN
        /\ ToSet(v) = {From(m, Len(l) + 1) : m \in {k \in DOMAIN tree :
                          /\ IsStrictPrefix(l, k)
                          /\ dirs \/ tree[k] = "file"
                          /\ rec \/ Len(k) = Len(l) + 1}}
        /\ Cardinality(ToSet(v)) = Len(v)
=============================================================================
