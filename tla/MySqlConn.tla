------------------------------ MODULE MySqlConn ------------------------------
(* MySqlConn: a connection that is made when the first statement needs it,    *)
(* and statements that are put together piece by piece in the one stream      *)
(* m_oss.  A string value is escaped on the way, which needs the connection:  *)
(* so a statement may be given up by an exception half way, and the next call *)
(* finds what it left in m_oss, m_mysql and m_bConnected.                     *)
(*                                                                            *)
(* A statement is a sequence of clauses, each a head and a list of SqlPairs   *)
(* with a separator in between; brackets and blanks are left out.  The MySQL  *)
(* client library may fail in any call.                                       *)
(*                                                                            *)
(* An operator BadX is a faulty variant of X that the specification does not  *)
(* use: it serves to see the property that guards against the slip fail.      *)
EXTENDS Integers, Sequences, Flatten

CONSTANTS
    Joins,     \* the SqlJoins that are used: sequences of SqlPairs
    Configs,   \* the DBConfigs that are set
    Handles    \* the MYSQL objects of the client library, numbered

Ops == {"select", "selectText", "update", "updateText", "insert", "replace",
        "deleteFrom", "deleteText"}
Types == {"DB_INT", "DB_STR"}

NoHandle == 0

Pair == [key : STRING, value : STRING, type : Types]

Assumption ==
    /\ Joins \subseteq Seq(Pair)
    /\ Handles \subseteq Nat \ {NoHandle}

VARIABLES
    mysql,       \* m_mysql
    bConnected,  \* m_bConnected
    config,      \* m_config
    oss,         \* m_oss
    lib,         \* what the library knows of each handle
    call,        \* the call under way: its clauses, and how far it has come
    sent         \* history: the last statement given to the server

vars == <<mysql, bConnected, config, oss, lib, call, sent>>

Text(s) == << <<"text", s>> >>
NoCall == [op |-> "none", clauses |-> <<>>, at |-> 1, done |-> 0]
NoLib == [state |-> "free", config |-> "none"]

TypeOK ==
    /\ mysql \in Handles \cup {NoHandle}
    /\ bConnected \in BOOLEAN
    /\ config \in Configs
    /\ \A h \in Handles : /\ lib[h].state \in {"free", "init", "open", "ready"}
                          /\ lib[h].config \in Configs \cup {"none"}
    /\ call.op \in Ops \cup {"none"}
    /\ call.op # "none" => /\ call.at \in DOMAIN call.clauses
                           /\ call.done \in 0 .. Len(call.clauses[call.at].pairs)

Init ==
    /\ mysql = NoHandle /\ bConnected = FALSE /\ config \in Configs
    /\ oss = <<>>
    /\ lib = [h \in Handles |-> NoLib]
    /\ call = NoCall
    /\ sent = [text |-> <<>>, meant |-> <<>>, via |-> NoLib, config |-> "none"]

-----------------------------------------------------------------------------
(* What the calls put together *)

Clause(head, sep, pairs, form) == [head |-> head, sep |-> sep, pairs |-> pairs, form |-> form]

\* The overloads that take a text for the columns or the condition have it
\* in the head of a clause without pairs.
Clauses(op, columns, cond) ==
    LET from == Clause(IF cond = <<>> THEN "from" ELSE "from where", "and", cond, "pair")
        where == Clause("where", "and", cond, "pair")
        set == Clause("update", ",", columns, "pair")
    IN  CASE op = "select" -> << Clause("select", ",", columns, "key"), from >>
          [] op = "selectText" -> << Clause("select columns", ",", <<>>, "key"), from >>
          [] op = "update" -> << set, where >>
          [] op = "updateText" -> << set, Clause("condition", ",", <<>>, "pair") >>
          [] op \in {"insert", "replace"} ->
                << Clause(op, ",", columns, "key"), Clause("values", ",", columns, "value") >>
          [] op = "deleteFrom" -> << Clause("delete where", "and", cond, "pair") >>
          [] op = "deleteText" -> << Clause("delete condition", ",", <<>>, "pair") >>

Value(p) == << <<IF p.type = "DB_INT" THEN "raw" ELSE "escaped", p.value>> >>
Written(p, form) == (IF form = "value" THEN <<>> ELSE << <<"key", p.key>> >>)
                    \o (IF form = "key" THEN <<>> ELSE Value(p))

\* The statement a caller means: the pairs of each clause, separated.
Each(cl, i) == (IF i > 1 THEN Text(cl.sep) ELSE <<>>) \o Written(cl.pairs[i], cl.form)
ClauseText(cl, k) == Text(cl.head) \o Flatten([i \in 1 .. k |-> Each(cl, i)])
Meant(clauses) ==
    Flatten([c \in DOMAIN clauses |-> ClauseText(clauses[c], Len(clauses[c].pairs))])

-----------------------------------------------------------------------------
(* The connection *)

BadDisconnect ==
    [mysql |-> NoHandle, bConnected |-> bConnected,
     lib |-> IF mysql = NoHandle THEN lib ELSE [lib EXCEPT ![mysql] = NoLib]]
\* disconnect(), as the new values of m_mysql, m_bConnected and the library.
Disconnect ==
    IF mysql = NoHandle THEN [mysql |-> mysql, bConnected |-> bConnected, lib |-> lib]
    ELSE [mysql |-> NoHandle, bConnected |-> FALSE, lib |-> [lib EXCEPT ![mysql] = NoLib]]

\* How far connect() gets: mysql_init(), mysql_options() and
\* mysql_real_connect(), mysql_set_character_set().
Progress == {"free", "init", "open", "ready"}

\* connect() that gets as far as state; it throws unless that is "ready".
Connect(state) ==
    LET d == Disconnect IN
    \E h \in Handles :
        /\ d.lib[h] = NoLib /\ \A g \in Handles : d.lib[g] = NoLib => h <= g
        /\ mysql' = IF state = "free" THEN NoHandle ELSE h
        /\ lib' = IF state = "free" THEN d.lib
                  ELSE [d.lib EXCEPT ![h] = [state |-> state, config |-> config]]
        /\ bConnected' = (state = "ready" \/ d.bConnected)

\* The connection an escape() or execute() needs: connect() unless there is
\* one; an exception ends the call.
Connected == bConnected /\ UNCHANGED <<mysql, bConnected, lib>>
MakeConnection == ~bConnected /\ Connect("ready")
ConnectionFails ==
    /\ ~bConnected
    /\ \E state \in Progress \ {"ready"} : Connect(state)
    /\ call' = NoCall

-----------------------------------------------------------------------------
(* The calls *)

\* A call clears m_oss and writes the head of the first clause.
Begin(op, columns, cond) ==
    /\ call = NoCall
    /\ call' = [op |-> op, clauses |-> Clauses(op, columns, cond), at |-> 1, done |-> 0]
    /\ oss' = Text(Clauses(op, columns, cond)[1].head)
    /\ UNCHANGED <<mysql, bConnected, config, lib, sent>>

Here == call.clauses[call.at]
AtPair == call.op # "none" /\ call.done < Len(Here.pairs)
ThisPair == Here.pairs[call.done + 1]
Sep == IF call.done = 0 THEN <<>> ELSE Text(Here.sep)
Escapes == Here.form # "key" /\ ThisPair.type = "DB_STR"

\* The next pair of the clause: a string is escaped, which may connect.
AddPair ==
    /\ AtPair
    /\ IF Escapes THEN Connected \/ MakeConnection ELSE UNCHANGED <<mysql, bConnected, lib>>
    /\ oss' = oss \o Sep \o Written(ThisPair, Here.form)
    /\ call' = [call EXCEPT !.done = @ + 1]
    /\ UNCHANGED <<config, sent>>

\* escape() throws: the separator and the key have been written.
EscapeThrows ==
    /\ AtPair /\ Escapes
    /\ ConnectionFails
    /\ oss' = oss \o Sep \o (IF Here.form = "value" THEN <<>> ELSE << <<"key", ThisPair.key>> >>)
    /\ UNCHANGED <<config, sent>>

\* The next loop of the call, over the pairs of its next clause.
NextClause ==
    /\ call.op # "none" /\ call.at < Len(call.clauses) /\ call.done = Len(Here.pairs)
    /\ call' = [call EXCEPT !.at = @ + 1, !.done = 0]
    /\ oss' = oss \o Text(call.clauses[call.at + 1].head)
    /\ UNCHANGED <<mysql, bConnected, config, lib, sent>>

AtEnd == call.op # "none" /\ call.at = Len(call.clauses) /\ call.done = Len(Here.pairs)

\* execute(m_oss.str()): the server gets the statement; mysql_real_query() or
\* mysql_store_result() may then fail, which throws and changes nothing here.
Execute ==
    /\ AtEnd
    /\ Connected \/ MakeConnection
    /\ sent' = [text |-> oss, meant |-> Meant(call.clauses),
                via |-> IF mysql' = NoHandle THEN NoLib ELSE lib'[mysql'], config |-> config]
    /\ call' = NoCall
    /\ UNCHANGED <<config, oss>>

ExecuteThrows ==
    /\ AtEnd
    /\ ConnectionFails
    /\ UNCHANGED <<config, oss, sent>>

\* setConfig() disconnects; the next statement connects to the new server.
SetConfig(c) ==
    /\ call = NoCall
    /\ mysql' = Disconnect.mysql /\ bConnected' = Disconnect.bConnected /\ lib' = Disconnect.lib
    /\ config' = c
    /\ UNCHANGED <<oss, call, sent>>

\* The destructor disconnects; then another MySqlConn is constructed.
Destroy ==
    /\ call = NoCall
    /\ lib' = Disconnect.lib
    /\ mysql' = NoHandle /\ bConnected' = FALSE /\ oss' = <<>>
    /\ UNCHANGED <<config, call, sent>>

Next ==
    \/ \E op \in Ops, columns, cond \in Joins : Begin(op, columns, cond)
    \/ AddPair \/ EscapeThrows \/ NextClause \/ Execute \/ ExecuteThrows
    \/ \E c \in Configs : SetConfig(c)
    \/ Destroy

Spec == Init /\ [][Next]_vars

-----------------------------------------------------------------------------
(* Properties *)

(* The server gets the statement the call meant, with every string escaped   *)
(* and nothing left over from a call that an exception ended half way.       *)
SentAsMeant == sent.text = sent.meant

(* A statement is only sent through a connection that connect() completed,   *)
(* to the server configured now: not through what a failed connect() has     *)
(* left in m_mysql, and not through the connection of an earlier config.     *)
SentWhereMeant == sent.text # <<>> => sent.via = [state |-> "ready", config |-> sent.config]

(* However connect() fails, the library's objects are not lost: at most one  *)
(* exists, and m_mysql is it.                                                *)
NoHandleLost == \A h \in Handles : lib[h] # NoLib => mysql = h
=============================================================================
