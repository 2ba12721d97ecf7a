------------------------------ MODULE Program ------------------------------
(***************************************************************************)
(* A program that builds query terms: it calls the methods of Terms on the *)
(* objects it holds, in any order, over several connections whose default  *)
(* database it changes meanwhile (connection.cpp:87-89).                   *)
(***************************************************************************)
EXTENDS Terms, FiniteSets

CONSTANTS
    Conns,       \* connections
    Words,       \* strings the program passes: names of databases, tables, keys
    DefaultDbs,  \* names given as a default database, told apart from Words
    BareClasses, \* classes the program calls the default constructor of
    MaxHeld      \* bound: objects the program holds, for BoundedSpec

ASSUME ProgramAssumption ==
    /\ NoConn \notin Conns
    /\ Words \cap DefaultDbs = {}
    /\ BareClasses \subseteq Classes \ Literals

VARIABLES
    databases,  \* the default database of each connection
    held,       \* the objects built so far
    been        \* history: the default databases each connection has had

programVars == <<databases, held, been>>

ProgramInit ==
    /\ databases \in [Conns -> DefaultDbs]
    /\ held = {}
    /\ been = [c \in Conns |-> {databases[c]}]

\* What is at hand at any time: r() of a connection, literals, empty objects.
Given ==
    {r(c) : c \in Conns} \cup {RQL_String(w) : w \in Words} \cup {RQL_Number(1), RQL_Bool(TRUE)}
    \cup {Bare(c) : c \in BareClasses}

Objects(class) == {o \in Given \cup held : IsA(o, class)}

\* Objects with the methods about a database: only those of a Database do
\* without a connection, the others look into it (rql.cpp:121).
Connected == {o \in Objects("Top") : o.class = "Database" \/ o.conn # NoConn}

Hold(o) ==
    /\ held' = held \cup {o}
    /\ UNCHANGED <<databases, been>>

\* Mutant of UseDatabase: one default database for all connections.
UseForAll(c, d) ==
    /\ databases' = [x \in Conns |-> d]
    /\ been' = [been EXCEPT ![c] = @ \cup {d}]
    /\ UNCHANGED held

UseDatabase(c, d) ==
    /\ databases' = [databases EXCEPT ![c] = d]
    /\ been' = [been EXCEPT ![c] = @ \cup {d}]
    /\ UNCHANGED held

\* Constructors and the static methods of RQL_Ordering.
Make ==
    \/ \E w \in Words, o \in Objects("Datum") : Hold(RQL_Object(w, o))
    \/ \E o \in Objects("Datum") : Hold(RQL_Array(<<o>>))
    \/ \E s \in Objects("String") : Hold(asc(s)) \/ Hold(desc(s))

OnServer ==
    \E o \in Objects("Top") :
        \/ Hold(db_list(o))
        \/ \E s \in Objects("String") :
              Hold(db(o, s)) \/ Hold(db_create(o, s)) \/ Hold(db_drop(o, s))

\* The default database does not matter if o is a Database.
OnDatabase ==
    \E o \in Connected : LET d == databases[o.conn] IN
        \/ Hold(table_list(o, d))
        \/ \E s \in Objects("String") :
              Hold(table(o, s, d)) \/ Hold(table_create(o, s, d)) \/ Hold(table_drop(o, s, d))

OnSequence ==
    \E o \in Objects("Sequence") :
        \/ \E p \in Objects("Function") \cup Objects("Object") : Hold(filter(o, p))
        \/ \E p \in Objects("Ordering") : Hold(order_by(o, <<p>>))
        \/ \E n \in Objects("Number") : Hold(skip(o, n)) \/ Hold(limit(o, n))

OnSelection ==
    \/ \E o \in Objects("Stream_Selection"), d1, d2 \in Objects("Datum") : Hold(between(o, d1, d2))
    \/ \E o \in Objects("Stream_Selection") \cup Objects("Single_Selection") :
          \/ Hold(remove(o))
          \/ \E p \in Objects("Function") \cup Objects("Object") : Hold(update(o, p))

OnTable ==
    \E o \in Objects("Table") :
        \/ \E k \in Objects("String") \cup Objects("Number") : Hold(get(o, k))
        \/ \E p \in Objects("Object") \cup Objects("Sequence") : Hold(insert(o, p))

Build == Make \/ OnServer \/ OnDatabase \/ OnSequence \/ OnSelection \/ OnTable

ProgramNext == Build \/ \E c \in Conns, d \in DefaultDbs : UseDatabase(c, d)
ProgramSpec == ProgramInit /\ [][ProgramNext]_programVars

\* For TLC: the program holds at most MaxHeld objects.
BoundedNext ==
    \/ Cardinality(held) < MaxHeld /\ Build
    \/ \E c \in Conns, d \in DefaultDbs : UseDatabase(c, d)
BoundedSpec == ProgramInit /\ [][BoundedNext]_programVars

-----------------------------------------------------------------------------
(* An object of a class holds a term of one of the types listed; an empty   *)
(* term has no arguments.                                                   *)
ProgramTypeOK ==
    /\ databases \in [Conns -> DefaultDbs]
    /\ been \in [Conns -> SUBSET DefaultDbs]
    /\ \A o \in held :
          /\ o.class \in Classes
          /\ o.conn \in Conns \cup {NoConn}
          /\ o.term.type \in TermTypes
          /\ o.term.type \in {"none", "DATUM"} => o.term.args = <<>>

\* Every term that can be built has the arguments ql2.proto gives its type,
\* but for those that come from an empty object or from table_drop(), whose
\* class is not the type of its value (rql.hpp:60-373, rql.cpp:75-116): the
\* methods of a class are no more than the type of its terms allows.
MisfitsHaveCause == \A o \in held : FitsBut(o.term, {"none", "TABLE_DROP"})

\* A table is never looked for in a default database that its connection has
\* not had, however calls of use() and methods over several connections are
\* interleaved (rql.cpp:120-146, connection.cpp:87-89).
OwnDatabase ==
    \A o \in held :
        o.term.type \in {"TABLE", "TABLE_CREATE", "TABLE_DROP", "TABLE_LIST"} =>
            LET arg == o.term.args[1] IN
            arg.type = "DB" /\ o.conn # NoConn =>
                arg.args[1].datum.str \in Words \cup been[o.conn]

\* RQL_Object(key, value) takes any datum as its value and keeps it
\* (rql.hpp:81, ql2.proto:184-193).
ObjectKeepsValue ==
    \A o \in held : o.term.datum.kind = "R_OBJECT" => o.term.datum.val # NoDatum
=============================================================================
