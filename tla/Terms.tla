------------------------------- MODULE Terms -------------------------------
(***************************************************************************)
(* The objects of rql.hpp and what its methods build (rql.hpp, and         *)
(* rql.cpp:75-146), as operators: an object is its dynamic class, the      *)
(* protobuf Term it holds and the connection it points to.  A class is     *)
(* named as in rql.hpp without the prefix RQL_.                            *)
(***************************************************************************)
EXTENDS Integers, Sequences

CONSTANT NoConn   \* the null pointer in conn

(* The class hierarchy; that of rql.hpp is the type hierarchy of ql2.proto. *)

Literals == {"String", "Number", "Bool"}    \* the classes without a default constructor

Above ==
    LET datum     == {"Datum", "Top"}
        sequence  == {"Sequence", "Top"}
        selection == {"Stream_Selection", "Stream"} \cup sequence
    IN  [Top |-> {"Top"}, Datum |-> datum,
         String |-> {"String"} \cup datum, Number |-> {"Number"} \cup datum,
         Bool |-> {"Bool"} \cup datum, Null |-> {"Null"} \cup datum,
         Object |-> {"Object"} \cup datum,
         Single_Selection |-> {"Single_Selection", "Object"} \cup datum,
         Array |-> {"Array"} \cup datum \cup sequence,
         Sequence |-> sequence, Stream |-> {"Stream"} \cup sequence,
         Stream_Selection |-> selection, Table |-> {"Table"} \cup selection,
         Database |-> {"Database", "Top"}, Function |-> {"Function", "Top"},
         Ordering |-> {"Ordering", "Top"}, Pathspec |-> {"Pathspec", "Top"}]

Classes == DOMAIN Above

IsA(o, c) == c \in Above[o.class]

(* Terms *)

\* A Datum that was never set; what Term::datum() returns if there is none.
NoDatum == [kind |-> "none"]

Term(type, args) == [type |-> type, args |-> args, datum |-> NoDatum]
DatumTerm(d)     == [type |-> "DATUM", args |-> <<>>, datum |-> d]

Terms(objects) == [i \in 1 .. Len(objects) |-> objects[i].term]

(* Objects a program makes itself: no connection. *)

\* The default constructors leave the term empty, that of RQL_Null too.
Bare(class) == [class |-> class, term |-> Term("none", <<>>), conn |-> NoConn]

Datum(class, d) == [class |-> class, term |-> DatumTerm(d), conn |-> NoConn]

RQL_String(s)      == Datum("String", [kind |-> "R_STR", str |-> s])
RQL_Number(n)      == Datum("Number", [kind |-> "R_NUM", num |-> n])
RQL_Bool(b)        == Datum("Bool", [kind |-> "R_BOOL", bool |-> b])
RQL_Object(key, o) == Datum("Object", [kind |-> "R_OBJECT", key |-> key, val |-> o.term.datum])

\* Mutant of RQL_Array: the type of the term is not set.
RQL_ArrayUntyped(objects) ==
    [class |-> "Array", term |-> Term("none", Terms(objects)), conn |-> NoConn]

RQL_Array(objects) ==
    [class |-> "Array", term |-> Term("MAKE_ARRAY", Terms(objects)), conn |-> NoConn]

Ordering(type, s) ==
    [class |-> "Ordering", term |-> Term(type, <<s.term>>), conn |-> NoConn]
asc(s)  == Ordering("ASC", s)
desc(s) == Ordering("DESC", s)

(* Methods.  Each makes an object of the class it is declared to return,   *)
(* with the connection of the receiver o.                                  *)

Made(o, class, type, objects) ==
    [class |-> class, term |-> Term(type, Terms(objects)), conn |-> o.conn]

(* Methods of any object: the receiver gives the connection only.          *)

\* Mutant of r: the connection is not set.
rBare(c) == Bare("Top")

r(c) == [Bare("Top") EXCEPT !.conn = c]

db(o, s)        == Made(o, "Database", "DB", <<s>>)
db_list(o)      == Made(o, "Array", "DB_LIST", <<>>)
db_create(o, s) == Made(o, "Object", "DB_CREATE", <<s>>)
db_drop(o, s)   == Made(o, "Object", "DB_DROP", <<s>>)

\* These four are virtual: on a Database they are about that database, on any
\* other object about the default database of its connection at this moment.
Target(o, default) ==
    IF o.class = "Database" THEN o ELSE db(o, RQL_String(default))

table(o, s, default)        == Made(o, "Table", "TABLE", <<Target(o, default), s>>)
table_create(o, s, default) == Made(o, "Object", "TABLE_CREATE", <<Target(o, default), s>>)
table_drop(o, s, default)   == Made(o, "Array", "TABLE_DROP", <<Target(o, default), s>>)
table_list(o, default)      == Made(o, "Array", "TABLE_LIST", <<Target(o, default)>>)

(* In all others the receiver's term is the first argument.                *)

\* of a Sequence
filter(o, p)    == Made(o, "Sequence", "FILTER", <<o, p>>)

\* Mutant of order_by: the receiver's term is forgotten.
order_byBare(o, ps) == Made(o, "Sequence", "ORDERBY", ps)

order_by(o, ps) == Made(o, "Sequence", "ORDERBY", <<o>> \o ps)

\* Mutant of skip: the arguments are swapped.
skipSwapped(o, n) == Made(o, "Sequence", "SKIP", <<n, o>>)

skip(o, n)      == Made(o, "Sequence", "SKIP", <<o, n>>)
limit(o, n)     == Made(o, "Sequence", "LIMIT", <<o, n>>)

\* of a Stream_Selection; remove and update of a Single_Selection too
between(o, d1, d2) == Made(o, "Stream_Selection", "BETWEEN", <<o, d1, d2>>)
remove(o)          == Made(o, "Object", "DELETE", <<o>>)
update(o, p)       == Made(o, "Object", "UPDATE", <<o, p>>)

\* of a Table
get(o, k)    == Made(o, "Single_Selection", "GET", <<o, k>>)
insert(o, p) == Made(o, "Object", "INSERT", <<o, p>>)

-----------------------------------------------------------------------------
(* What the server makes of a term (ql2.proto:179-486).  Only the forms     *)
(* with a Database are given: the driver never leaves it out.              *)

DatumTypes == [R_STR |-> "String", R_NUM |-> "Number", R_BOOL |-> "Bool", R_OBJECT |-> "Object"]

Result ==
    [MAKE_ARRAY |-> "Array", DB |-> "Database", DB_LIST |-> "Array",
     DB_CREATE |-> "Object", DB_DROP |-> "Object",
     TABLE |-> "Table", TABLE_CREATE |-> "Object", TABLE_DROP |-> "Object",
     TABLE_LIST |-> "Array", FILTER |-> "Sequence", ORDERBY |-> "Sequence",
     SKIP |-> "Sequence", LIMIT |-> "Sequence", BETWEEN |-> "Stream_Selection",
     DELETE |-> "Object", UPDATE |-> "Object", GET |-> "Single_Selection",
     INSERT |-> "Object", ASC |-> "Ordering", DESC |-> "Ordering"]

TermTypes == {"none", "DATUM"} \cup DOMAIN Result

\* The types of the value of a term; none for an empty term.
TypesOfValue(t) ==
    CASE t.type = "none"  -> {}
      [] t.type = "DATUM" -> Above[DatumTypes[t.datum.kind]]
      [] OTHER            -> Above[Result[t.type]]

\* The types each of n arguments may have.
Signature(type, n) ==
    LET string    == {"String"}
        selection == {"Stream_Selection", "Single_Selection"}
        onTable   == <<{"Database"}, string>>
    IN  CASE type \in {"none", "DATUM", "DB_LIST"}                   -> <<>>
          [] type = "MAKE_ARRAY"                                     -> [i \in 1 .. n |-> {"Datum"}]
          [] type \in {"DB", "DB_CREATE", "DB_DROP", "ASC", "DESC"}  -> <<string>>
          [] type \in {"TABLE", "TABLE_CREATE", "TABLE_DROP"}        -> onTable
          [] type = "TABLE_LIST"      -> <<{"Database"}>>
          [] type = "FILTER"          -> <<{"Sequence"}, {"Function", "Object"}>>
          [] type = "ORDERBY"         -> [i \in 1 .. n |-> IF i = 1 THEN {"Sequence"}
                                                            ELSE {"String", "Ordering"}]
          [] type \in {"SKIP", "LIMIT"} -> <<{"Sequence"}, {"Number"}>>
          [] type = "BETWEEN"         -> <<{"Stream_Selection"}, {"Datum"}, {"Datum"}>>
          [] type = "DELETE"          -> <<selection>>
          [] type = "UPDATE"          -> <<selection, {"Function", "Object"}>>
          [] type = "GET"             -> <<{"Table"}, {"String", "Number"}>>
          [] type = "INSERT"          -> <<{"Table"}, {"Object", "Sequence"}>>

\* The i-th argument of t is one the signature allows.
ArgumentFits(t, i) ==
    TypesOfValue(t.args[i]) \cap Signature(t.type, Len(t.args))[i] # {}

\* t has the arguments its type needs, and those of the set S excepted they
\* are of the right types.
FitsBut(t, S) ==
    /\ Len(t.args) = Len(Signature(t.type, Len(t.args)))
    /\ \A i \in 1 .. Len(t.args) : t.args[i].type \in S \/ ArgumentFits(t, i)
Fits(t) == FitsBut(t, {})
=============================================================================
