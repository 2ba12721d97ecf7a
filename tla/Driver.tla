------------------------------- MODULE Driver -------------------------------
(***************************************************************************)
(* RQL::run (rql.cpp) on top of the connection, with a server that keeps a *)
(* cursor for every query it has answered with SUCCESS_PARTIAL.  One       *)
(* thread runs queries and may connect or close the connection between     *)
(* them, as the main loop of example.cpp does.                             *)
(***************************************************************************)
EXTENDS Connection

CONSTANTS
    Token,       \* the values rand() can return
    MaxRuns,     \* bound: calls of run()
    MaxBatches   \* bound: responses the server splits one answer into

Runs      == 1 .. MaxRuns    \* the term of the n-th run() is n
Parts     == 1 .. MaxBatches
NoTerm    == 0
Failures  == {"CLIENT_ERROR", "COMPILE_ERROR", "RUNTIME_ERROR"}
Types     == {"SUCCESS_ATOM", "SUCCESS_SEQUENCE", "SUCCESS_PARTIAL"} \cup Failures

\* The exception of check_response() for each type it does not let pass.
Exception == [CLIENT_ERROR  |-> "client_error_exception",
              COMPILE_ERROR |-> "compile_error_exception",
              RUNTIME_ERROR |-> "runtime_error_exception"]
Exceptions == {"connection_exception"} \cup {Exception[ty] : ty \in Failures}

StartQuery(t, n)  == [type |-> "START", token |-> t, term |-> n]
ContinueQuery(t)  == [type |-> "CONTINUE", token |-> t, term |-> NoTerm]
Answer(ty, t, n, i) == [type |-> ty, token |-> t, term |-> n, part |-> i]

ASSUME DriverAssumption ==
    /\ MaxRuns \in Nat
    /\ MaxBatches \in Nat \ {0}
    /\ Query = {StartQuery(t, n) : t \in Token, n \in Runs}
               \cup {ContinueQuery(t) : t \in Token}
    /\ Response = [type : Types, token : Token, term : Runs \cup {NoTerm}, part : Parts]

VARIABLES
    run,        \* how many times run() has been called
    phase,      \* how far run() has come; "idle" outside it
    token,      \* the token of the query object
    responses,  \* the vector run() is filling
    result,     \* how the last run() ended: "none", "ok" or the class it threw
    cursors,    \* the server's open cursors of this TCP connection
    orphans,    \* runs whose query was on its way when its TCP connection ended
    executed    \* history: how often the server has taken up the n-th run's query

runVars    == <<run, phase, token, responses, result>>
serverVars == <<cursors, orphans, executed>>
driverVars == <<vars, runVars, serverVars>>

\* A call of the connection goes on until pc is "idle" again; then outcome
\* says how it ended.
Returned == pc = "idle" /\ outcome = "ok"

DriverTypeOK ==
    /\ run \in 0 .. MaxRuns
    /\ phase \in {"idle", "connect", "write", "read", "more", "done"}
    /\ token \in Token
    /\ responses \in Seq(Response \cup {Garbled})
    /\ result \in {"none", "ok"} \cup Exceptions
    /\ cursors \subseteq [token : Token, term : Runs, next : Parts]
    /\ orphans \subseteq Runs
    /\ executed \in [Runs -> Nat]

\* The call of the connection that each phase of run() is in.
PhaseInv ==
    /\ phase \in {"idle", "connect"} => pc \in Connecting \cup {"idle"}
    /\ phase = "write" => pc \in {"send", "idle"}
    /\ phase = "read" => pc \in {"read_len", "read_blob", "idle"}
    /\ phase \in {"more", "done"} => pc = "idle"
    /\ phase = "read" /\ Returned => reply # NoMessage
    /\ phase # "idle" => run \in Runs

DriverInit ==
    /\ Init
    /\ run = 0
    /\ phase = "idle"
    /\ token \in Token
    /\ responses = <<>>
    /\ result = "none"
    /\ cursors = {}
    /\ orphans = {}
    /\ executed = [n \in Runs |-> 0]

-----------------------------------------------------------------------------
(* A query on its way to the server when the driver loses or leaves the TCP *)
(* connection may still get there.                                         *)

StartOf(n) == {Chunk("qblob", StartQuery(t, n)) : t \in Token}
Greeting == {MAGIC, AUTH}

\* Behind the rest of a greeting it is part of what the server takes for a query.
InFlight ==
    {n \in Runs : \E i \in 1 .. Len(c2s) :
        c2s[i] \in StartOf(n) /\ \A j \in 1 .. i - 1 : c2s[j] \notin Greeting}

Orphan ==
    /\ orphans' = orphans \cup (IF srv = "serving" /\ srv' # "serving" THEN InFlight ELSE {})
    /\ UNCHANGED <<cursors, executed>>

\* The server takes up such a query; nobody hears of its answer.
ServeOrphan(n) ==
    /\ n \in orphans
    /\ orphans' = orphans \ {n}
    /\ executed' = [executed EXCEPT ![n] = @ + 1]
    /\ UNCHANGED <<vars, runVars, cursors>>

-----------------------------------------------------------------------------
(* RQL::run() *)

\* conn->connect() is the first thing run() does.
Run ==
    /\ phase = "idle"
    /\ run < MaxRuns
    /\ Room
    /\ Connect \/ ConnectAgain
    /\ run' = run + 1
    /\ phase' = "connect"
    /\ responses' = <<>>
    /\ UNCHANGED <<token, result, serverVars>>

Start ==
    /\ phase = "connect"
    /\ Returned
    /\ \E t \in Token :
          /\ token' = t
          /\ WriteQuery(StartQuery(t, run))
    /\ phase' = "write"
    /\ UNCHANGED <<run, responses, result, serverVars>>

Read ==
    /\ phase = "write"
    /\ Returned
    /\ ReadResponse
    /\ phase' = "read"
    /\ UNCHANGED <<run, token, responses, result, serverVars>>

\* A Response that did not parse may show any type; the default is SUCCESS_ATOM.
\* Bound: it is taken for a batch only while fewer than MaxBatches are there.
TypesOf(r) ==
    IF r = Garbled
    THEN {ty \in Types : ty = "SUCCESS_PARTIAL" => Len(responses) < MaxBatches}
    ELSE {r.type}

\* Mutants of Push: only the first response is checked; a batch is taken for the
\* whole answer; a batch replaces the one before it; the length is returned, not
\* the response.
PushUnchecked ==
    /\ phase = "read"
    /\ Returned
    /\ \E ty \in TypesOf(reply) \ (IF responses = <<>> THEN Failures ELSE {}) :
          phase' = IF ty = "SUCCESS_PARTIAL" THEN "more" ELSE "done"
    /\ responses' = Append(responses, reply)
    /\ UNCHANGED <<vars, run, token, result, serverVars>>

PushOnce ==
    /\ phase = "read"
    /\ Returned
    /\ TypesOf(reply) \ Failures # {}
    /\ phase' = "done"
    /\ responses' = Append(responses, reply)
    /\ UNCHANGED <<vars, run, token, result, serverVars>>

PushOver ==
    /\ phase = "read"
    /\ Returned
    /\ \E ty \in TypesOf(reply) \ Failures :
          phase' = IF ty = "SUCCESS_PARTIAL" THEN "more" ELSE "done"
    /\ responses' = <<reply>>
    /\ UNCHANGED <<vars, run, token, result, serverVars>>

PushLength ==
    /\ phase = "read"
    /\ Returned
    /\ \E ty \in TypesOf(reply) \ Failures :
          phase' = IF ty = "SUCCESS_PARTIAL" THEN "more" ELSE "done"
    /\ responses' = Append(responses, length)
    /\ UNCHANGED <<vars, run, token, result, serverVars>>

\* check_response() lets the response pass and it joins the vector.
Push ==
    /\ phase = "read"
    /\ Returned
    /\ \E ty \in TypesOf(reply) \ Failures :
          phase' = IF ty = "SUCCESS_PARTIAL" THEN "more" ELSE "done"
    /\ responses' = Append(responses, reply)
    /\ UNCHANGED <<vars, run, token, result, serverVars>>

\* Mutant of Continue: the query is sent again as it was.
ContinueAsStart ==
    /\ phase = "more"
    /\ WriteQuery(StartQuery(token, run))
    /\ phase' = "write"
    /\ UNCHANGED <<run, token, responses, result, serverVars>>

\* The loop asks for the next batch with the same token and no term.
Continue ==
    /\ phase = "more"
    /\ WriteQuery(ContinueQuery(token))
    /\ phase' = "write"
    /\ UNCHANGED <<run, token, responses, result, serverVars>>

Return ==
    /\ phase = "done"
    /\ phase' = "idle"
    /\ result' = "ok"
    /\ UNCHANGED <<vars, run, token, responses, serverVars>>

\* Mutant of RunThrow: a query without an answer is sent once more.
RunRetry ==
    \/ /\ phase = "read" /\ pc = "idle" /\ outcome = "threw"
       /\ WriteQuery(StartQuery(token, run))
       /\ phase' = "write"
       /\ UNCHANGED <<run, token, responses, result, serverVars>>
    \/ /\ \/ /\ phase \in {"connect", "write"} /\ pc = "idle" /\ outcome = "threw"
             /\ result' = "connection_exception"
          \/ /\ phase = "read" /\ Returned
             /\ \E ty \in TypesOf(reply) \cap Failures : result' = Exception[ty]
       /\ phase' = "idle"
       /\ responses' = <<>>
       /\ UNCHANGED <<vars, run, token, serverVars>>

\* An exception of the connection, or the one check_response() throws.
RunThrow ==
    /\ \/ /\ phase \in {"connect", "write", "read"} /\ pc = "idle" /\ outcome = "threw"
          /\ result' = "connection_exception"
       \/ /\ phase = "read" /\ Returned
          /\ \E ty \in TypesOf(reply) \cap Failures : result' = Exception[ty]
    /\ phase' = "idle"
    /\ responses' = <<>>
    /\ UNCHANGED <<vars, run, token, serverVars>>

\* Between two runs the caller may use the connection itself.
Caller ==
    /\ phase = "idle"
    /\ ConnectAgain \/ (Room /\ Connect) \/ Close \/ CloseThrow
    /\ Orphan
    /\ UNCHANGED runVars

-----------------------------------------------------------------------------
(* The server's end of the protocol (ql2.proto:26-33, 48-51, 90-113). *)

Greet ==
    /\ Handshake
    /\ IF accepted' /\ ~accepted
       THEN /\ cursors' = {}
            /\ UNCHANGED <<orphans, executed>>
       ELSE UNCHANGED serverVars
    /\ UNCHANGED <<clientVars, runVars>>

Open(t) == {c \in cursors : c.token = t}

\* A START whose token has an open cursor is an error of the client.
ServeStart(t, n) ==
    /\ IF Open(t) # {}
       THEN /\ Serve(StartQuery(t, n), Answer("CLIENT_ERROR", t, n, 1))
            /\ UNCHANGED <<cursors, executed>>
       ELSE /\ \E ty \in Types \ {"CLIENT_ERROR"} :
                  /\ ty = "SUCCESS_PARTIAL" => MaxBatches > 1
                  /\ Serve(StartQuery(t, n), Answer(ty, t, n, 1))
                  /\ cursors' = IF ty = "SUCCESS_PARTIAL"
                                THEN cursors \cup {[token |-> t, term |-> n, next |-> 2]}
                                ELSE cursors
            /\ executed' = [executed EXCEPT ![n] = @ + 1]
    /\ UNCHANGED orphans

\* A CONTINUE gets the next batch, or an error if there is no such cursor.
ServeContinue(t) ==
    /\ \/ /\ Open(t) = {}
          /\ Serve(ContinueQuery(t), Answer("CLIENT_ERROR", t, NoTerm, 1))
          /\ UNCHANGED cursors
       \/ \E c \in Open(t), ty \in {"SUCCESS_PARTIAL", "SUCCESS_SEQUENCE", "RUNTIME_ERROR"} :
             /\ ty = "SUCCESS_PARTIAL" => c.next < MaxBatches
             /\ Serve(ContinueQuery(t), Answer(ty, t, c.term, c.next))
             /\ cursors' = IF ty = "SUCCESS_PARTIAL"
                           THEN (cursors \ {c}) \cup {[c EXCEPT !.next = @ + 1]}
                           ELSE cursors \ {c}
    /\ UNCHANGED <<orphans, executed>>

RethinkDB ==
    \/ Greet
    \/ /\ \E t \in Token : ServeContinue(t) \/ \E n \in Runs : ServeStart(t, n)
       /\ UNCHANGED <<clientVars, runVars>>

-----------------------------------------------------------------------------
Thread ==
    \/ Step /\ Orphan /\ UNCHANGED runVars
    \/ Start \/ Read \/ Push \/ Continue \/ Return \/ RunThrow

DriverNext ==
    \/ Thread
    \/ Run \/ Caller
    \/ RethinkDB
    \/ \E n \in Runs : ServeOrphan(n)
    \/ Break /\ Orphan /\ UNCHANGED runVars

DriverSpec == DriverInit /\ [][DriverNext]_driverVars
FairDriverSpec == DriverSpec /\ WF_driverVars(Thread) /\ WF_driverVars(RethinkDB)

-----------------------------------------------------------------------------
(* Safety *)

\* What run() returns is the whole answer of the server to the query of this
\* call, in order: every response but the last is a SUCCESS_PARTIAL batch and
\* the last one ends the answer (rql.cpp:27-52, ql2.proto:90-100).
ResultIsWholeAnswer ==
    (phase = "idle" /\ result = "ok" /\ responses # <<>>) =>
        /\ \A i \in 1 .. Len(responses) :
              /\ responses[i] # Garbled
              /\ responses[i].term = run
              /\ responses[i].part = i
              /\ responses[i].type \notin Failures
              /\ (responses[i].type = "SUCCESS_PARTIAL") <=> (i < Len(responses))
        /\ executed[run] = 1

\* The driver never makes the mistake the server answers with CLIENT_ERROR: a
\* CONTINUE for an unknown token or a START for a token still in use
\* (rql.cpp:38-50, ql2.proto:103-105).
NoClientError ==
    \A i \in 1 .. Len(s2c) :
        s2c[i].of \in Response => s2c[i].of.type # "CLIENT_ERROR"

\* Between two runs a live connection is at rest: no query is on its way to
\* the server, no response waits to be read, and the server holds no cursor
\* open, whether the last run returned or threw (rql.cpp:27-52).  The next
\* run() then reads the answer to its own query.
AtRestBetweenRuns ==
    (phase = "idle" /\ pc = "idle" /\ srv = "serving") =>
        /\ \A i \in 1 .. Len(c2s) : c2s[i].kind \notin {"qlen", "qblob"}
        /\ \A i \in 1 .. Len(s2c) : s2c[i].kind \notin {"rlen", "rblob"}
        /\ cursors = {}

\* The server takes up the query of a run() at most once, and never before the
\* call, whatever fails: nothing is sent again, and what a failed write left
\* in request_ has not been sent (connection.cpp:130-152, rql.cpp:27-52).
AtMostOnce ==
    \A n \in Runs : executed[n] <= IF n <= run THEN 1 ELSE 0

\* The length read_response() reads is that of a response: unless a call was
\* interrupted or a reply cut, the stream is never read between two frames,
\* where any four bytes are taken for a length and that much memory is asked
\* for (connection.cpp:102-106).
LengthIsTrue == pc = "read_blob" => length # NoMessage

\* The response run() takes for the answer has the token of its query
\* (ql2.proto:90, 115).
TokensMatch ==
    \A i \in 1 .. Len(responses) :
        responses[i] # Garbled => responses[i].token = token

\* A Response that cannot be parsed is reported, not returned
\* (connection.cpp:114-119).
NothingGarbledReturned ==
    \A i \in 1 .. Len(responses) : responses[i] # Garbled

-----------------------------------------------------------------------------
(* The service run() provides *)

Batch(r) == [of |-> r.term, part |-> r.part,
             last |-> r.type \in {"SUCCESS_ATOM", "SUCCESS_SEQUENCE"}]

Service == INSTANCE QueryService WITH
    MaxCalls <- MaxRuns,
    calls    <- run,
    state    <- IF phase = "idle" THEN result ELSE "busy",
    answer   <- IF phase = "idle" /\ result = "ok"
                THEN [i \in 1 .. Len(responses) |-> Batch(responses[i])]
                ELSE <<>>

\* When connections only drop, run() implements the service (rql.cpp:9-71): its
\* answer is whole, the class of its exception tells whether the server has
\* taken up the query, and no query is taken up twice, however late.
ImplementsService == Service!Spec

-----------------------------------------------------------------------------
(* Why AtMostOnce holds, whatever fails *)

\* What the driver has written and the server has not read.
Wire == c2s \o request_

Copies(n) == {i \in 1 .. Len(Wire) : Wire[i] \in StartOf(n)}

\* The query of a run is on the wire once, or an orphan, or has been taken up.
OnceInv ==
    /\ ~Alive => c2s = <<>>
    /\ \A n \in Runs :
        /\ \A i, j \in Copies(n) : i = j
        /\ Copies(n) # {} => n \notin orphans
        /\ Copies(n) # {} \/ n \in orphans => executed[n] = 0
        /\ executed[n] \in {0, 1}
        /\ n > run \/ (n = run /\ phase = "connect") =>
              Copies(n) = {} /\ n \notin orphans /\ executed[n] = 0

(* Why the other properties hold when connections only drop *)

OnlyDrops == Faults \subseteq {"drop"}

AllGreeting(s)  == \A i \in 1 .. Len(s) : s[i] \in Greeting
QueriesFirst(s) == \A i, j \in 1 .. Len(s) : i < j /\ s[i] \in Greeting => s[j] \in Greeting

\* What failed greetings and queries leave in request_ never gets a query
\* past a greeting: a connection that opens with a query is refused.
WireInv ==
    /\ pc = "await" => request_ = <<>>
    /\ ~established => QueriesFirst(request_)
    /\ established => \A i \in 1 .. Len(request_) : request_[i] \notin Greeting
    /\ srv \in {"magic", "auth"} => QueriesFirst(Wire)
    /\ srv = "serving" /\ ~established => AllGreeting(Wire) /\ cursors = {}
    /\ ~established => \A i \in 1 .. Len(s2c) : s2c[i].of = NoMessage
    /\ Holds(response_, SUCCESS) => s2c = <<>>

\* The next query of run(), the cursor it is about, and a right answer to it.
CurrentQuery == IF responses = <<>> THEN StartQuery(token, run) ELSE ContinueQuery(token)
Cursor(i)    == [token |-> token, term |-> run, next |-> i]
RightAnswer(r) ==
    /\ r \in Response
    /\ r.type # "CLIENT_ERROR"
    /\ r.term = run
    /\ r.part = Len(responses) + 1
    /\ executed[run] = 1
    /\ srv = "serving" =>
          cursors = IF r.type = "SUCCESS_PARTIAL" THEN {Cursor(r.part + 1)} ELSE {}

\* The query is on its way, or stuck behind the rest of an old greeting.
Asked ==
    \/ /\ Wire = QueryFrame(CurrentQuery)
       /\ cursors = IF responses = <<>> THEN {} ELSE {Cursor(Len(responses) + 1)}
    \/ c2s # <<>> /\ c2s[1] \in Greeting

Resting == phase \in {"idle", "connect", "more", "done"}
Asking  == phase = "write" \/ (phase = "read" /\ pc = "read_len")

\* run() goes on only with an accepted connection, and gives up only when the
\* server is gone and has nothing left to say.
ProgressInv ==
    /\ phase \in {"write", "read", "more", "done"} => established
    /\ phase = "connect" /\ Returned => established
    /\ phase \in {"write", "read"} /\ pc = "idle" =>
          \/ outcome = "ok"
          \/ outcome = "threw" /\ srv = "ended" /\ s2c = <<>>
    /\ phase = "read" \/ (phase = "write" /\ Returned) => request_ = <<>>

\* Driver and server take turns: nobody speaks, ...
RestInv ==
    established /\ Resting =>
        /\ s2c = <<>>
        /\ srv = "serving" =>
              /\ request_ = <<>>
              /\ AllGreeting(c2s)
              /\ phase = "more" => c2s = <<>>
              /\ cursors = IF phase = "more" THEN {Cursor(Len(responses) + 1)} ELSE {}

\* ... or the driver has asked or the server answered, ...
AskInv ==
    Asking =>
        \/ s2c = <<>> /\ (srv = "serving" => Asked)
        \/ Wire = <<>> /\ \E r \in Response : s2c = ResponseFrame(r) /\ RightAnswer(r)

\* ... or the driver reads the answer.
ReadInv ==
    /\ pc = "read_blob" =>
          /\ Wire = <<>>
          /\ RightAnswer(length)
          /\ s2c = <<Chunk("rblob", length)>> \/ (srv = "ended" /\ s2c = <<>>)
    /\ phase = "read" /\ Returned =>
          Wire = <<>> /\ s2c = <<>> /\ RightAnswer(reply)

TurnInv == ProgressInv /\ RestInv /\ AskInv /\ ReadInv

\* The vector holds the first batches of the answer to the query of this run.
AnswerInv ==
    /\ \A i \in 1 .. Len(responses) :
          /\ responses[i] \in Response
          /\ responses[i].term = run
          /\ responses[i].part = i
          /\ responses[i].type \notin Failures
          /\ i < Len(responses) => responses[i].type = "SUCCESS_PARTIAL"
    /\ responses # <<>> =>
          /\ executed[run] = 1
          /\ (responses[Len(responses)].type = "SUCCESS_PARTIAL")
                <=> phase \in {"write", "read", "more"}
    /\ phase = "connect" => responses = <<>>
    /\ phase \in {"more", "done"} \/ (phase = "idle" /\ result = "ok") => responses # <<>>

CallInv == WireInv /\ TurnInv /\ AnswerInv

-----------------------------------------------------------------------------
(* Liveness *)

\* The server has accepted the greeting and waits for the rest of a query that
\* the leftover of an earlier greeting announces.
Starved == srv = "serving" /\ c2s # <<>> /\ Head(c2s) \in Greeting

\* run() returns or throws (rql.cpp:9-53), unless the server is starved by what a
\* failed connect() left in request_ (connection.cpp:38-51): otherwise a query
\* is answered or its TCP connection ends, and an answer has finitely many
\* batches.  Should the connection of a starved server end, run() ends as well.
RunEnds == phase # "idle" ~> phase = "idle" \/ Starved

\* A run() that waits for a response gets one, or learns that the TCP connection
\* has ended: the server answers each query it is sent (connection.cpp:93-106,
\* ql2.proto:19-24).
QueryIsAnswered == phase = "read" ~> phase # "read"
=============================================================================
