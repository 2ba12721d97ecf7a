-------------------------------- MODULE Repl --------------------------------
(***************************************************************************)
(* The loop of example.cpp: it asks for a command and for what the command *)
(* needs, one line of standard input each, builds a query with the methods *)
(* of Terms and runs it.  Input can end at any question.                   *)
(***************************************************************************)
EXTENDS Terms

CONSTANTS
    Names,     \* what the user types where a name, key or value is asked for
    Conn,      \* the connection of the program
    SIZE_MAX   \* the largest size_t

ASSUME ReplAssumption ==
    /\ "" \notin Names
    /\ Conn # NoConn

\* At least what C++ asks of it.
ASSUME SizeAssumption == SIZE_MAX \in Nat /\ SIZE_MAX >= 65535

VARIABLES
    phase,     \* "start", "loop": about to look at eof, "ask", "run", "closed"
    command,   \* the variable action
    todo,      \* sets of questions to ask, one set after the other
    answers,   \* what ask() returned, for each question of the command
    given,     \* history: the questions a line of input answered
    eof,       \* cin.eof()
    database,  \* the default database of the connection
    query      \* the object that is run; r() outside run()

replVars == <<phase, command, todo, answers, given, eof, database, query>>

default_db == "test"

Numerals == {"-1", "0", "1", "2"}
Lines(q) == {""} \cup IF q \in {"count", "limit", "skip"} THEN Numerals ELSE Names

atoi(line) == CASE line = "-1" -> -1 [] line = "1" -> 1 [] line = "2" -> 2 [] OTHER -> 0

\* Mutant of Size: a count that keeps its sign.
SizeSigned(n) == RQL_Number(n)

\* The int is passed as a size_t, then converted to double; that a double cannot
\* hold every number next to 2^64 is left out.
Size(n) == RQL_Number(n % (SIZE_MAX + 1))

(* The questions of each command.  Questions in one expression are asked in *)
(* an order C++ does not fix, so they form one set.                         *)
Questions ==
    LET onTable(q) == <<{"db"}, {"table"}>> \o q
    IN  [use |-> <<{"name"}>>, db_create |-> <<{"name"}>>, db_drop |-> <<{"name"}>>,
         db_list |-> <<>>, table_list |-> <<{"db"}>>,
         table |-> onTable(<<>>), table_create |-> onTable(<<>>), table_drop |-> onTable(<<>>),
         insert |-> onTable(<<{"count"}>>),
         between |-> onTable(<<{"from", "until"}>>),
         filter |-> onTable(<<{"key", "value"}>>),
         get |-> onTable(<<{"id"}>>), remove |-> onTable(<<{"id"}>>),
         update |-> onTable(<<{"id", "key", "value"}>>),
         order_by |-> onTable(<<{"order"}>>),
         limit |-> onTable(<<{"order"}, {"limit"}>>),
         skip |-> onTable(<<{"order"}, {"skip"}>>)]

Commands == DOMAIN Questions

Question == {"name", "db", "table", "count", "key", "value", "key 2", "value 2", "from",
             "until", "id", "order", "limit", "skip"}

\* insert asks for a key and a value for each of n objects; bound: n <= 2.
Pairs(n) ==
    CASE n <= 0 -> <<>>
      [] n = 1  -> <<{"key", "value"}>>
      [] n = 2  -> <<{"key", "value"}, {"key 2", "value 2"}>>

ReplInit ==
    /\ phase = "start"
    /\ command = ""
    /\ todo = <<>>
    /\ answers = <<>>
    /\ given = {}
    /\ eof = FALSE
    /\ database = ""
    /\ query = r(Conn)

\* getline() at the end of input gives an empty line and sets eof, which a
\* last line without a newline does too.
Getline(line) ==
    /\ eof' \in {eof, TRUE}
    /\ eof => line = ""

\* main() up to the loop; of the four answers only the database matters later.
Start ==
    /\ phase = "start"
    /\ \E line \in Lines("db") :
          /\ Getline(line)
          /\ database' = IF line = "" THEN default_db ELSE line
    /\ phase' = "loop"
    /\ UNCHANGED <<command, todo, answers, given, query>>

\* Mutant of Quit: the loop is left by the command exit only, and an empty
\* command is read again and again.
QuitNever ==
    /\ phase = "loop"
    /\ eof
    /\ UNCHANGED replVars

\* while (!cin.eof())
Quit ==
    /\ phase = "loop"
    /\ eof
    /\ phase' = "closed"
    /\ UNCHANGED <<command, todo, answers, given, eof, database, query>>

\* An empty or unknown command is reported and nothing else happens.
ReadCommand ==
    /\ phase = "loop"
    /\ ~eof
    /\ \E line \in Commands \cup {"", "exit", "unknown"} :
          /\ Getline(line)
          /\ command' = IF line \in Commands THEN line ELSE ""
          /\ phase' = CASE line \in Commands -> "ask"
                        [] line = "exit"     -> "closed"
                        [] OTHER             -> "loop"
          /\ todo' = IF line \in Commands THEN Questions[line] ELSE <<>>
    /\ UNCHANGED <<answers, given, database, query>>

Ask ==
    /\ phase = "ask"
    /\ todo # <<>>
    /\ \E q \in Head(todo) : \E line \in Lines(q) :
          /\ Getline(line)
          /\ answers' = [x \in DOMAIN answers \cup {q} |-> IF x = q THEN line ELSE answers[x]]
          /\ given' = IF line = "" /\ eof' THEN given ELSE given \cup {q}
          /\ todo' = (IF Head(todo) = {q} THEN <<>> ELSE <<Head(todo) \ {q}>>) \o Tail(todo)
                     \o (IF q = "count" THEN Pairs(atoi(line)) ELSE <<>>)
    /\ UNCHANGED <<phase, command, database, query>>

(* What the commands build. *)

str(q) == RQL_String(answers[q])

\* Mutant of Base: an empty name is taken as it was typed.
BaseAsTyped == db(r(Conn), str("db"))

\* An empty name of a database means the default database.
Base == IF answers["db"] = "" THEN r(Conn) ELSE db(r(Conn), str("db"))
TheTable == table(Base, str("table"), database)
Pair(k, v) == RQL_Object(answers[k], str(v))
Ordered == order_by(TheTable, <<asc(str("order"))>>)

Query ==
    CASE command = "db_create"    -> db_create(r(Conn), str("name"))
      [] command = "db_drop"      -> db_drop(r(Conn), str("name"))
      [] command = "db_list"      -> db_list(r(Conn))
      [] command = "table"        -> TheTable
      [] command = "table_create" -> table_create(Base, str("table"), database)
      [] command = "table_drop"   -> table_drop(Base, str("table"), database)
      [] command = "table_list"   -> table_list(Base, database)
      [] command = "insert" /\ answers["count"] = "1" -> insert(TheTable, Pair("key", "value"))
      [] command = "insert" /\ answers["count"] = "2" ->
            insert(TheTable, RQL_Array(<<Pair("key", "value"), Pair("key 2", "value 2")>>))
      [] command = "between"      -> between(TheTable, str("from"), str("until"))
      [] command = "filter"       -> filter(TheTable, Pair("key", "value"))
      [] command = "get"          -> get(TheTable, str("id"))
      [] command = "remove"       -> remove(IF answers["id"] = "" THEN TheTable
                                            ELSE get(TheTable, str("id")))
      [] command = "update"       -> update(get(TheTable, str("id")), Pair("key", "value"))
      [] command = "order_by"     -> Ordered
      [] command = "limit"        -> limit(Ordered, Size(atoi(answers["limit"])))
      [] command = "skip"         -> skip(Ordered, Size(atoi(answers["skip"])))

Asked == phase = "ask" /\ todo = <<>>

\* The end of an iteration: its local variables are gone.
Again ==
    /\ phase' = "loop"
    /\ command' = ""
    /\ answers' = <<>>
    /\ given' = {}
    /\ query' = r(Conn)

Use ==
    /\ Asked
    /\ command = "use"
    /\ database' = answers["name"]
    /\ Again
    /\ UNCHANGED <<todo, eof>>

InsertNothing ==
    /\ Asked
    /\ command = "insert"
    /\ atoi(answers["count"]) <= 0
    /\ Again
    /\ UNCHANGED <<todo, eof, database>>

Run ==
    /\ Asked
    /\ command # "use"
    /\ command = "insert" => atoi(answers["count"]) > 0
    /\ query' = Query
    /\ phase' = "run"
    /\ UNCHANGED <<command, todo, answers, given, eof, database>>

\* run() returns, and the responses are printed, or throws a runtime_error,
\* which is caught and printed.
RunReturns ==
    /\ phase = "run"
    /\ Again
    /\ UNCHANGED <<todo, eof, database>>

ReplNext == Start \/ Quit \/ ReadCommand \/ Ask \/ Use \/ InsertNothing \/ Run \/ RunReturns

ReplSpec == ReplInit /\ [][ReplNext]_replVars

\* At the end of input no question waits for anybody, and run() ends.
FairReplSpec == ReplSpec /\ WF_replVars(eof /\ ReplNext)

-----------------------------------------------------------------------------
ReplTypeOK ==
    /\ phase \in {"start", "loop", "ask", "run", "closed"}
    /\ command \in Commands \cup {""}
    /\ todo \in Seq(SUBSET Question)
    /\ eof \in BOOLEAN
    /\ database \in Names \cup {default_db, ""}
    /\ given \subseteq DOMAIN answers
    /\ query.class \in Classes
    /\ query.conn = Conn

\* t fits, and so does what is below it; no query is deeper than five terms.
FitsOver(t, Below(_)) == Fits(t) /\ \A i \in 1 .. Len(t.args) : Below(t.args[i])
FitsAlone(t) == Fits(t) /\ t.args = <<>>
FitsTwo(t)   == FitsOver(t, FitsAlone)
FitsThree(t) == FitsOver(t, FitsTwo)
FitsFour(t)  == FitsOver(t, FitsThree)
FitsAll(t)   == FitsOver(t, FitsFour)

\* Every query the example runs is well typed down to
\* its last term, whatever is typed and wherever the input ends
\* (example.cpp:65-245, ql2.proto:179-486).
QueriesFit == phase = "run" => FitsAll(query.term)

\* The database of a query: the first argument, followed to its end.
Towards(t) == IF t.type = "DB" THEN t ELSE t.args[1]
DatabaseOf(t) == Towards(Towards(Towards(t))).args[1].datum.str

\* The query of a command that asks for a database is about the one typed, or
\* about the default the question showed when none was (example.cpp:77-245).
DatabaseMeant ==
    (phase = "run" /\ "db" \in DOMAIN answers) =>
        DatabaseOf(query.term) = IF answers["db"] = "" THEN database ELSE answers["db"]

\* A count typed for limit or skip reaches the query as that number, and a
\* negative one as a number too large to be any count, never as a small count
\* or a negative one (example.cpp:216,244, rql.hpp:158-182).
NumbersMeant ==
    (phase = "run" /\ command \in {"limit", "skip"}) =>
        LET n == query.term.args[2].datum.num
            k == atoi(answers[command])
        IN  IF k >= 0 THEN n = k ELSE 2 * n > SIZE_MAX

\* The program ends once its input has ended, in whatever question that
\* happens (example.cpp:41-262).
EndOfInputEnds == eof ~> phase = "closed"
=============================================================================
