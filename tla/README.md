# A verification project for the RethinkDB C++ driver

The repository is a small RethinkDB client driver: a class that keeps one TCP
connection to a server (`connection.cpp`), the function that sends a query and
collects its answer (`RQL::run` in `rql.cpp`), a hierarchy of classes that build
query terms (`rql.hpp`), and an interactive example (`example.cpp`).  Queries and
responses are protocol buffers: the repository holds the classes generated from
`ql2.proto` and the headers of the protocol buffer library.  This directory holds
TLA+ modules that model the parts with behaviour, the TLC configurations that
check them, and theorems checked by TLAPS.

## The system

| Part | State | Operations | Talks to |
| --- | --- | --- | --- |
| connection (`connection.cpp`, `connection.hpp`) | the socket, `connection_established`, the streambufs `request_` and `response_`, `database` | `connect`, `reconnect`, `close`, `is_connected`, `write_query`, `read_response`, `use`, `r` | the server, by blocking boost.asio calls |
| query execution (`rql.cpp:9-71`) | local to a call: the query with its token, the vector of responses | `RQL::run`, `check_response` | the connection |
| query terms (`rql.hpp`, `rql.cpp:75-146`) | a term tree and a shared pointer to a connection in each object | one builder per ReQL command | the connection (default database) |
| example (`example.cpp`) | a connection and the last responses | a command loop on standard input | terms, `run`, `close` |
| exceptions (`exception.hpp`) | none | four classes, one per way a call can fail | thrown by connection and `run` |
| generated message classes (`ql2.pb.h`, `ql2.pb.cc`) | per message: has-bits, members, the unknown fields, a cached size; per class: default instance, descriptor, reflection | accessors, `Clear`, `MergeFrom`, `CopyFrom`, `Swap`, `ByteSize`, serializing, parsing; registration, start and shutdown | terms, `write_query`, `read_response` |
| protocol buffer headers (`include/google/protobuf`) | per repeated field: the array and its sizes; a stream: position, limit, depth; a once flag; closures; scoped pointers | the wire format, `RepeatedField`, `RepeatedPtrField`, `GoogleOnceInit`, `NewCallback`, `scoped_ptr` | the generated classes |
| server (not in the repository) | per TCP connection: the stage of the handshake, open cursors | answers to the handshake, to START and to CONTINUE | `ql2.proto` states the protocol |

The driver is single-threaded and synchronous.  Its concurrency is that of a
client, a network and a server: between two socket calls of one operation the
server may read, answer, refuse or go away.  What makes it hard:

* the two streambufs and the flag `connection_established` outlive a TCP
  connection, so what one connection leaves behind meets the next one;
* every socket call can throw, in the middle of what an operation does, and
  nothing is undone when it does;
* requests and responses are matched by their order alone;
* an answer may come in batches, and the server keeps a cursor meanwhile;
* a query whose connection broke may have been executed or not;
* a message keeps what it once held: elements, messages and sizes are reused,
  accessors do not look whether a field is set, and a list of pointers moves its
  elements, its cleared objects and its free room about;
* descriptors are assigned by the first thread that asks, while others ask too.

What makes the parts correct:

* connection: `is_connected()` tells the truth about the TCP connection the
  socket has now; a failed `connect()` leaves a connection known to be down; the
  greeting opens every TCP connection, once; `connect()` ends.
* query execution: what `run()` returns is the whole answer to its own query, in
  order; the server never meets an unknown or reused token; between two runs
  nothing of an earlier run is left on a live connection; the server takes up a
  query at most once; `run()` ends.
* query terms: every term that can be built has the shape `ql2.proto` gives its
  type, names the database intended, and carries the connection it is run on.
* message classes: a message is a value: whatever it was used for before, in
  memory or on the wire, it has the fields that were set and nothing else.
* lists of pointers: every object has one owner, nothing is lost, elements keep
  their order, and what is kept for reuse is clear.

## Modules

| Module | Contents |
| --- | --- |
| `Network` | the socket, the two directions of the TCP stream and the server's side of the handshake and of a query: actions to be conjoined with what the driver does around them |
| `Connection` | the class `connection`; extends `Network` |
| `QueryService` | what a caller of `run()` may rely on: the abstract specification |
| `Driver` | `RQL::run`, its caller and a server with cursors; extends `Connection`, implements `QueryService` |
| `Terms` | the classes of `rql.hpp`, what each builder makes, and the type signatures of `ql2.proto`; operators only |
| `Program` | a program that calls the builders in any order; extends `Terms` |
| `Repl` | the command loop of `example.cpp`; extends `Terms` |
| `MessageValue` | what the message classes promise: a message is a value; the abstract specification |
| `Wire` | the wire format, written and read; operators only |
| `Messages` | the ten classes of `ql2.pb.cc`; extends `Wire`, implements `MessageValue` |
| `Primitives` | one number of any type, written, cut and read; extends `Wire` |
| `Repeated` | `RepeatedPtrField` |
| `RepeatedField` | the class `RepeatedField`: lists of numbers |
| `NumberLists` | reading a `RepeatedField` off the wire; extends `Wire` and `RepeatedField` |
| `Startup` | default instances, descriptors, the once flag and the shutdown |
| `Closures` | `NewCallback` and `NewPermanentCallback` |
| `ScopedPointers` | `scoped_ptr` and `scoped_array` |
| `MC_Connection`, `MC_Driver`, `MC_Program`, `MC_Protobuf` | instances for TLC |
| `Connection_proofs`, `Driver_proofs`, `Service_proofs`, `Program_proofs`, `Repl_proofs`, `Repeated_proofs`, `Numbers_proofs`, `Memory_proofs` | theorems and proofs |

### Network

The TCP stream is a sequence of chunks: one for each `request_stream.write` of
the driver (the magic number, the authorization key, the length of a query, the
query) and one for each thing the driver reads (the text of a handshake reply, a
newline, the NUL, the length of a response, the response).  `sock` is the
`socket_` member: closed, open without a peer (what a refused
`boost::asio::connect` leaves), or connected.  `srv` is the server's end of the
current TCP connection; `accepted` is history.

The server is external.  It reads the magic number and the key, accepts or
refuses, then answers queries in order.  Once it has accepted, any four bytes are the
length of a query to it (`ql2.proto:19-24`): a second magic number, which a failed
greeting leaves in `request_`, announces 0x723081e1 bytes, and the server waits for
them.  What comes behind it is part of that query and is never executed, so it stays
in `c2s` until the TCP connection ends; that a client might some day have sent as
many bytes is left out.  A server that closes such a connection instead is among the
choices of `drop`, which nothing forces.  The server's refusal may hold a newline
before the NUL (`NewlineReplies`); `ql2.proto:14-17` says only that it describes the
error.

`Faults` chooses what goes wrong:

* `drop` - the TCP connection ends at any moment;
* `cut` - a handshake reply may arrive in pieces, so that a drop can split it;
* `interrupt` - a socket call throws although the TCP connection is intact
  (interrupted system call, no buffer space, no memory for the reply); an
  interrupted read may have consumed bytes;
* `close` - the `close()` of the socket reports an error.

### Connection

`pc` is the socket operation the thread is about to do, and each action is the
code from there to the next one.

| Action | Code |
| --- | --- |
| `ConnectAgain`, `Connect` | `connect()` up to line 27 |
| `OpenSocket`, `OpenThrow` | resolve, `boost::asio::connect`, the greeting put in `request_` (32-48) |
| `WriteSome`, `WriteDone`, `WriteThrow` | `write` of the whole of `request_`, for the greeting (51) and for a query (146) |
| `ReadUntil`, `ReadUntilThrow` | `read_until` a NUL (54), which looks in `response_` first |
| `Judge` | `getline` and the comparison with SUCCESS (56-76) |
| `Close`, `CloseThrow` | `close()` (80-83) |
| `WriteQuery` | `write_query()` up to its `write` (130-142) |
| `ReadResponse`, `ReadLength`, `ReadBlob`, `ReadGarbage`, `ReadThrow` | `read_response()` (93-128) |

`ReadGarbage` is the case in which the four bytes taken as a length are not one:
any amount of what waits is read and the parse fails, which the code does not
notice.  Formatting of messages is left out.  `Spec` lets any call be made in any
order; `BoundedSpec` only adds that no call fills buffers that already hold
`MaxBuffer` chunks.

### Driver

`phase` says how far `run()` has come: `Run` is its `connect()`, `Start` the
START query with a token from `rand()`, `Read` the `read_response()`, `Push` the
check of the response and the `push_back`, `Continue` the CONTINUE query,
`Return` and `RunThrow` its two ends.  `result` is "ok" or the class of the
exception, for which `Exception` repeats the switch of `check_response()`.
Between two runs the caller may connect or close, as the loop of the example does
at its end.  The server opens a cursor when it answers with SUCCESS_PARTIAL,
closes it with the last batch or with a RUNTIME_ERROR, and answers CLIENT_ERROR
to a CONTINUE without a cursor and to a START whose token has one.  Queries on
the wire when their TCP connection ends become `orphans`, which the server may
still execute, at any later time, unless the rest of an old greeting was ahead of them.

### QueryService

The caller of `run()` sees the number of `calls`, the `state` of the last one
("busy", "ok" or the class of the exception) and the `answer` it returned;
`executed` counts how often the server has taken up the query of each call.
`Return` is a call that returns the whole answer to its own query, its batches in
order and the last one marked so; `ThrowServerError` one whose query was taken up
and refused; `ThrowConnection` one that throws a `connection_exception`, of which
nobody knows whether its query was taken up: `Execute(n)` may still happen at any
later time, but once for each `n`.

`Driver` implements it: `run` is `calls`, `result` (or "busy" while `phase` is not
"idle") is `state`, the vector of responses of a run that returned is `answer`,
and `executed` is the history of the server.

### Terms

An object is its dynamic class, its `Term` and the connection in `conn`.  A term
is its type, the terms of its arguments (`add_args` copies) and its datum; it is
never changed after it was built.  Each builder is an operator with the name it
has in the source; `Made` is what nearly all of them do: a new object of the
class they are declared to return, with a new term and the receiver's
connection.  `Target` is the virtual dispatch of `table()` and its three
relatives: on an `RQL_Database` they are about it, elsewhere about the default
database of the connection, read at that moment.  The overloads that take a
string or a double wrap it in an `RQL_String` or `RQL_Number` and are not told
apart from those.  `Signature` and `Result` are the signatures in the comments
of `ql2.proto`; the hierarchy of ReQL types and of the classes is one and the
same (`Above`).

### Program

`held` is the set of objects a program has built; `Given` what it can make from
nothing (r() of each connection, literals, default-constructed objects).  Each
action applies the builders of one class to any objects of that class and any
parameters of the declared classes; `UseDatabase` is `use()`, which
changes a default database.
`been` is history.  A method that would look into the null connection of its
receiver is not called.

### Repl

Each `Ask` answers one question with a line, the last line of the input, or
nothing because the input has ended; `given` tells the last two apart.
Questions within one C++ expression form a set, since their order is
unspecified.  `Query` is the object each command builds.  `Run` and `RunReturns`
are a `run()` that ends; what happens inside is `Driver`.  Of the four questions
before the loop only the default database matters afterwards.  A number typed for
`limit` or `skip` goes through `size_t` (`Size`), whose largest value is `SIZE_MAX`.

### Messages, MessageValue and Wire

The ten classes of `ql2.pb.cc` have the same member functions over different
fields.  `Schema` holds what differs, in the parts the generated code repeats it
in: the declarations, the constructor's defaults, the has-bits, the cases of the
parser, the order of the serializers, and the blocks of eight fields that
`ByteSize`, `MergeFrom` and `Clear` skip when none of their has-bits is set.  The
operators are the member functions over `Schema`: `Cleared`, `MergedFrom`,
`CopiedFrom`, `Sized` (which caches the sizes), `SerializeWithCachedSizes`, and
`MergePartialFromCodedStream` with one operator for each kind of field.  A list
keeps its cleared elements and reuses them, a message that is cleared stays
allocated, an enum value or a field the class does not know goes to the unknown
fields, and each length limits the stream until it is popped.

The actions are calls of a program on two messages of one class: `Set`, `Give`
(merge into what `mutable_` returns), `SetAllocated`, `Release`, `AddTo`, `ShortenList`,
`ClearField`, `ClearAll`, `Merge`, `Copy`, `Exchange` (the generated `Swap`),
`SerializeAsString`, `AppendToString`, `Parse`, and `Arrive`: bytes from a newer
program, with unknown fields, or nested as deep as the limit allows, or deeper.

`MessageValue` says what this amounts to: a message is a record of the scalars,
messages and lists that are set, and of what is unknown; each call changes that
value in one evident way, and parsing what was serialized gives the value that
was sent unless it is nested too deep.  `Value` is the refinement mapping.

`Wire` has the functions of `coded_stream.h`, `wire_format_lite.h` and its
`_inl.h` that write a tag, a number, a length to bytes, compute its size, and read
it from a stream with its position, limit, depth and last tag.  Words are `W32`
and `W64` bits wide and wrap.  A number on the wire is its digits of seven or eight
bits, lowest first: `Digit` is one of them and `Number` puts them together, as the
shifts and masks of the code do; `TwoTo` is the power of two.

`Primitives` writes one number as one type, loses
bytes of it or not, and reads it as any type with the same encoding.  Which numbers
is a parameter, `WrittenNumbers`: any integers that the type holds.

### Repeated

`RepeatedPtrField` with every member that changes it: `Add`, `RemoveLast`,
`Clear`, `MergeFrom`, `CopyFrom`, `Reserve`, `Swap`, `SwapElements`,
`AddAllocated` in its four cases, `ReleaseLast`, `AddCleared`, `ReleaseCleared`,
`ExtractSubrange`, `DeleteSubrange`, and the destructor (`Destroy`).  Objects are
fresh, in a slot, the caller's (`held`), or `freed`; `dirty` is the set of those
that are not clear.  `Make`, `Delete` and `Fill` are the caller's.  The checks that
the header leaves to its caller (an object handed over is his own, and a cleared
one is clear) are guards.

### RepeatedField and NumberLists

`RepeatedField` has the member functions that change a list: `Add`,
`AddAlreadyReserved`, `Set`, `SwapElements`, `Reserve`, `Truncate` (with `Clear` and
`RemoveLast`), `ExtractSubrange`, `MergeFrom`, assignment and `Swap`.  Room that was
never written is `Uninitialized`.  `meant` is history: the sequence a reader of the
calls expects.

`NumberLists` adds the three ways `wire_format_lite_inl.h` reads a list: one by one
while the expected tag follows (`ReadRow`), a row of fixed size taken from the array
without a look at its end (`ReadFixedRow`), and packed (`ReadPackedPrimitive`).  A
loop of the code is a function of the number of its turns: a turn after the last
changes nothing, and as many turns are taken as there can be (one for each byte that is
left, or for each place in the array).  `ListAssumption` says what a writer can write:
the numbers fit 32 bits, a field number fits its tag, and the length of a packed list
fits the 32 bits it is written in.

### Startup

The static initializer and `default_instance()` make and link the default
instances (`AddDesc`); `GetMetadata` and the message factory, under its lock, come
to `GoogleOnceInit`: `OnceInit` looks at the flag without a lock, `OnceInitImpl`
waits or begins, `AssignDesc` assigns class by class, `AssignDone` and `Return`
end it.  `at` is where a thread is.  `ShutdownFile` deletes instances and
reflections after `main()`.

### Closures and ScopedPointers

`NewCallback` and `NewPermanentCallback` for functions and methods of any number
of arguments, which do not matter: `Run` reads `needs_delete` before the call and
`ReturnFromRun` looks at it afterwards; between the two, other closures may be
made, run and deleted, in the memory of a deleted one too.  `ScopedPointers` has
`scoped_ptr` and `scoped_array`, with `Given` as what a caller may hand over.

### MC_Program and MC_Protobuf

The parts put together in each of them have no state in common; an instance at a
time is at work in each behaviour (`part`), and the others keep their first state.

## Runs

Passing runs:

| Run | Faults | Question |
| --- | --- | --- |
| `connection_clean` | drop, interrupt | `TypeOK`, `ConnectedIsAccepted`, `ThrowMeansDisconnected`, `ConnectEnds`: `connect()` returns or throws; and `IInv`, the invariant of the proofs |
| `connection_line` | drop, failing `close()`, replies without newline | `AcceptedIsConnected`: no accepted handshake is reported as refused |
| `driver_drop` | drop | `ImplementsService`: `run()` is the abstract service; `ResultIsWholeAnswer`, `NoClientError`, `AtRestBetweenRuns`, `LengthIsTrue`: the length `read_response()` takes is the response's; `RunEnds`: `run()` ends, unless the server is starved by the rest of an old greeting; and `CallInv`, the invariant of the proofs |
| `driver_faults` | all | `DriverTypeOK`; `AtMostOnce`: no query is taken up twice, or before its `run()`; and `OnceInv`, the invariant of its proof |
| `programs`, builders | | `ProgramTypeOK`; `MisfitsHaveCause`: terms fit their signatures, but for empty terms and `table_drop()`; `OwnDatabase`: no default database of another connection |
| `programs`, loop | end of input | `ReplTypeOK`; `QueriesFit`: queries fit to the last term; `DatabaseMeant`; `NumbersMeant`: a count reaches the query as typed, a negative one as a huge one; `EndOfInputEnds` |
| `protobuf`, messages | | `ImplementsValues`: messages are values; `UnsetIsDefault`: what is not set reads as the default, whatever was there; `SizeIsLength`: `ByteSize()` is the number of bytes then written, of messages in messages too |
| `protobuf`, numbers | lost bytes | `ReadsWhatWasWritten`; `CutIsNoticed` |
| `protobuf`, lists | cut messages | `RepeatedTypeOK`, `OneOwner`, `NothingLeaks`, `KeptAreClear`, `OrderIsKept` of pointers; `ListsAreAsMeant` of numbers, after calls and after reads |
| `protobuf`, start | | `MetadataReady`: nobody sees half of the descriptors; `SomeoneMoves`: no deadlock; `DeletedOnce` |
| `protobuf`, memory | | `LivesAsLongAsOwned` of closures; `OneOwnerEach` of scoped pointers |

Runs that show where the code departs from what the repository says of it:

| Run | What it shows |
| --- | --- |
| `connection_cut` | a SUCCESS whose NUL never arrived stays in `response_` and makes the next, refused handshake succeed (`ql2.proto:15-17`) |
| `driver_greeting` | the rest of a failed greeting is sent on the next TCP connection, which then carries the magic number twice (`ql2.proto:5-9`) |
| `driver_hang` | after a failed greeting the next `connect()` succeeds, the server takes the second magic number for a length and `run()` waits for a response for ever (`ql2.proto:19-24`) |
| `driver_match` | after an interrupted call `run()` returns the response to an earlier query (`ql2.proto:90`) |
| `driver_garbled` | bytes that are no Response are returned as one (`connection.cpp:118`) |
| `program_value` | an `RQL_Object` whose value is an `RQL_Array` holds an empty datum (`rql.hpp:86`) |

Departures seen while modelling for which no run is kept: an error reply with a
newline leaves its NUL in `response_`, and the next handshake is reported as
refused although the server accepts it (`connection.cpp:53-60`; the cause is that of
`connection_cut`; `connection_line` shows that it does not happen when no reply has a
newline and connections only drop or fail to close); `rand()` can give two queries
of one connection the same token, which `ql2.proto:26-27` calls unique
(both cases are explored by `driver_drop`); `table_drop()` returns an
`RQL_Array` although its value is an object (`ql2.proto:405`), the exception in
`MisfitsHaveCause`; `filter()` returns an `RQL_Sequence`, so `README.md:33`,
which removes filtered objects, does not compile; when the input ends at the
question for the id (`example.cpp:184`), `remove` deletes the whole table.

Bounds.  Two queries and one response suffice for `Connection`, which never looks
into either; `MaxBuffer` 6 holds the rest of two greetings or queries together
with a whole greeting, so that leftovers of two failed operations accumulate.
`Driver` has two runs (what one leaves, the next meets), up to two tokens (equal
or different), and answers of up to three batches when connections only drop (a
first, a middle and a last one; the loop of `run()` goes round twice), of up to
two under all faults.  A response that does not parse is taken for a batch only
while fewer than `MaxBatches` responses are there.

`Program` has two connections with two default databases, so that a database of
one could be taken for the other's, and chains of three builders, enough for any
object to be a receiver or a parameter of a term that is itself one.  `Repl` has
two names besides the empty line, inserts at most two objects, and its `size_t` has
16 bits, the least C++ allows.

In `protobuf` words have 16 and 24 bits instead of 32 and 64, which keeps the
arithmetic within TLC's integers and every boundary (sign, byte, seven bits, word)
apart; the recursion limit is 3 instead of 100, and messages nested 3 and 4 deep
arrive.  Messages get three calls on two objects, of each of the ten classes: one
leaves something behind, one clears or moves it, one meets it.  Two lists of
pointers share four objects, with a smallest array of 2 instead of 4, so that all
of elements, cleared objects and free room occur in one array; this part needs no
bound on calls.  Lists of numbers get three calls; a list of three is read with tags
of one, two and three bytes and cut anywhere.  There are three threads (one that
works, one in the factory, one that waits), three places for closures with three
running within each other, and two scoped pointers, two scoped arrays and two
objects of each kind.  Objects and elements are symmetric; the run checks no
liveness.

Each property of a passing run has a mutant of the code, kept next to the
definition it replaces, that violates it.

Fairness. Weak fairness of `Step` (a thread inside a call goes on: blocking
calls return once they can) and of `Server` (a server that has the next part of
a greeting or a whole query before it reads it and answers; in `Driver`,
`Thread` and `RethinkDB`). A server that waits for the rest of a query is not
asked to do anything. Nothing forces the caller to call or a connection to
break. There is no timeout in the code, so liveness does depend on the server.
It fails if the server is starved by what an earlier `connect()` left in
`request_` (`Starved`): `driver_hang` shows this, and `RunEnds` that it is the
only way for `run()` to hang when connections only drop. `RunEnds` is checked
without interrupted calls, because a stream that has lost its frame boundaries
can be read as batches for ever. `EndOfInputEnds` asks fairness of the steps
after the end of input only: they wait for nobody.

## Proofs

`Connection_proofs` proves, for all constants:

* `TypeCorrect` - `Spec => []TypeOK`;
* `ConnectedSound`, `ThrowSound` - `ConnectedIsAccepted` and
  `ThrowMeansDisconnected` under the assumption `Clean`: no cut replies, no
  failing `close()`.  `connection_cut` shows that the first is needed; a
  `close()` that fails leaves the flag set over a closed socket;
* `AcceptedSound` - `AcceptedIsConnected` under the assumption `OneLine`: no cut
  replies, no interrupted calls, and no newline in an error reply.  A reply with a
  newline leaves its NUL in `response_` for the next handshake.

`ConnectedIsAccepted` is not inductive: it says nothing of what is in the
buffers.  `IInv` adds that a verdict or newline on the wire or in `response_` is
followed by a NUL (`Terminated`), so that `read_until` takes whole replies; that
a SUCCESS on the wire belongs to the TCP connection the socket has; that one in
`response_` does too and is gone when `connect()` is over (`ResponseInv`); and
that `connection_established` is false while `connect()` works.  Its proof has
one lemma on sequences for each way a buffer changes (`SuffixHolds`,
`ConcatHolds`), one for what the server sends (`RepliesHold`), one for the
server's part of the invariant over a disjunction of network actions
(`NextIsNetNext`, `ServerInductive`), and one step per action for the rest.

`AcceptedIsConnected` needs another invariant, since a failing `close()` leaves the
flag wrong but not the verdict.  `RepliesInv` says that nothing is on the wire
before the server has judged, and never a newline; `VerdictInv` that `response_` is
empty unless `connect()` waits for the verdict, and that the verdict, wherever it
is, ends with a NUL and is a refusal only of a server that has ended the connection.
So `read_until` takes the whole reply, `getline` all of it, and nothing is left for
the next handshake.  The server's end cannot disturb it (`VerdictArrives`), and of
the driver's actions only `OpenSocket`, `ReadUntil` and `Judge` move a verdict.

`Driver_proofs` proves that the driver implements `Connection`
(`DriverImplementsConnection`), from a type invariant and `PhaseInv`, which ties
the phase of `run()` to the call of the connection it is in.
`DriverConnectedSound` and `DriverAcceptedSound` follow.

It also proves `AtMostOnce` under every fault (`OnceSound`).  The invariant, `OnceInv`,
follows the bytes: of the query of a `run()` there is at most one copy in `request_`
and on the wire together, none before the call, and while there is one, or while
the query is an orphan, the server has not taken it up.  `run()` writes its START
once; the bytes leave `request_` as they are sent, the wire when the server reads
them or the connection ends, and never come back.

`Service_proofs` proves the rest of what `run()` promises, under the assumption
`OnlyDrops`: TCP connections end, but no call is interrupted, no reply is cut and no
`close()` fails.  `driver_match` and `driver_garbled` show that it is needed.
`CallInv` says that driver and server take turns: of greeting, query and response
at most one is under way on a live connection, and it is the one that the program
counter of `run()` waits for, or the query is stuck behind the rest of an old greeting.  What failed writes left in `request_` has its queries
before its greetings (`QueriesFirst`), so a new connection that would carry an old
query opens with it and is refused.  From it follow
`ResultSound`, `NoClientErrorSound`, `RestSound`, `LengthSound` and, with
`AtMostOnce`, `DriverImplementsService`: every step of the driver, the server and
the network is a step of `QueryService` or leaves its variables unchanged.

`Program_proofs` proves `TermsFit`, that `MisfitsHaveCause` holds of every program
(`ProgramSpec`, without the bound).  The invariant, `GoodInv`, adds that the
class of an object is a type of its term's value unless the term is empty or a
`table_drop()`; since `Above` is transitive, an object then serves wherever the
declared class of a parameter lets it go (`Serves`).  One lemma per number of
arguments and one per action do the rest.

`OwnDatabase` is proved (`DatabaseSound`) from `OwnInv`, which says of every object
which databases its term may name.

`Repl_proofs` proves the four safety properties of the example for any names, any
connection and a `size_t` of any width C++ allows: `ReplTyped`, `QueriesAlwaysFit`,
`DatabaseAlwaysMeant` and `NumbersAlwaysMeant`; the numbers typed stay the four of
`Numerals`.  The last three speak of the state
in which a query runs, and are inductive with `AskInv`: while a command asks, the
questions still to come are exactly those it wants and has no answer to, and none
is asked twice; so in the end `Query` finds every answer it looks up.  The questions
are sequences of sets, of which `OneLess` takes one question away and `AskMore`
appends those of an insert.  A query is at most five terms deep; one lemma for each
kind of term (`TableFits`, `GetFits`, `OrderFits`, ...) says that it fits to its
last one, and `DatabaseFound` which database it names.  `QueryOfDatabase` to
`QueryOfChanges` go through the commands.

`Repeated_proofs` proves `RepeatedTypeOK`, `OneOwner`, `NothingLeaks` and
`KeptAreClear` for any number of fields and objects; together they are inductive.
Each call that moves objects exchanges a set of them between the array and one other
place; `ExchangeKeeps` shows once that this keeps all four parts, and
`NewArrayKeeps` that a rearranged array does.  What remains per call is that its
array is the one the lemma asks for.  `OrderSound` then proves the action property
`OrderIsKept` in the same way: `InOrder` says it of an array, and most calls leave
the elements a prefix of what they were (`PrefixInOrder`).

`Memory_proofs` proves `OneOwnerEach` of scoped pointers; `Sole` restates the
cardinality of the owners as their uniqueness, which the provers can use.  It also
proves `LivesAsLongAsOwned` of closures, to which `ClosureInv` adds that one frame at
most will delete a closure, and then nobody owns it.  Of `Startup` it proves
`MetadataReady`, `SomeoneMoves` and `DeletedOnce` for any number of threads, from
`OnceFlag` (one thread assigns, exactly while the flag says so, and what it has not
reached has no reflection) and `FactoryLock` (who holds the lock of the factory is
past waiting for it).

`Numbers_proofs` proves `ReadsWhatWasWritten` (`ReadingSound`) and `CutIsNoticed`
(`CutsSound`) for words of any width, every number and every pair of types, from
`WireAssumption` and `WrittenAssumption`.  What the functions of `Wire` compute for
every number is proved by induction over the number of digits.  The library's
induction theorems cannot be used, so it starts from the well-founded order of the
naturals: every non-empty set of them has a least element (`Least`), hence
`SetInduction`, hence `Recursion`, that a function defined by iteration exists and
satisfies its equation, which gives `TwoToIs` and the equation of `Number`.  On these
rest that the digits of a number make it again (`DigitsMakeNumber`), how long a varint
is and that it ends where it says (`VarintSizeIs`, `WriteVarintIs`), what is read from
a varint and from little-endian bytes, complete or cut (`ReadVarintIs`,
`ReadLittleEndianIs`), and that wrapping to a word and reading it as signed, or as a
zigzag number, gives the number back when the type holds it (`SignedIs`, `ZigZagIs`).
`NumbersSurvive` puts them together for every type: what `WriteNoTag` wrote has the
size `Size` announced, any type of the same encoding reads it to its last byte as the
number, and no shorter prefix of it can be read.  The invariant, `PrimitiveInv`, says
that the bytes are a prefix of what was written and that the stream is what reading
them gives.

It also proves `ListsAreAsMeant`, of the calls of `RepeatedField` (`ListsSound`) and
with the reads off the wire among them (`ListReadsSound`).  `IsList` says that an array
begins with a sequence, there is one lemma on it for each function (`GrownIs`,
`MergedIs`, `ExtractedIs`, ...), and `ListsInv`, `IsList` of every list, is inductive.
What a read does to a list (`ReadListIs`) needs `WireAssumption` and `ListAssumption`:

* `End` is where a number ends on the wire.  Ends grow (`EndIs`), and behind one of
  them lies the next number, or its tag and then the number, as far as the message goes
  (`SentAhead`, `TagAhead`).  So what holds of one number ahead in a stream holds of the
  next number of the list;
* a loop is at a number (`Reached`: the stream is at the end of k numbers, the list has
  been given these k) or it is over (`Ended`: the stream is not ok, and the next number
  would end behind the limit).  One lemma per loop says that a turn leads from the one
  to the other, or to a later number (`RowTurnIs`, `PackedTurnIs`, `ParserRowIs`,
  `ParserPackedIs`, `ParserEnds`), and `SetInduction` adds up the turns (`ReadRowIs`,
  `ReadFixedRowIs`, `ReadToLimitIs`, `ReadListIs`);
* `ReadFixedRow` heeds no limit, so its lemma needs that numbers of a fixed size are as
  far apart as `PerValueSize` says (`FixedEnds`): as many as it divides the rest of the
  message into do end before the limit.

The theorems of `Primitives`, `Repeated`, `RepeatedField`, `NumberLists`,
`ScopedPointers`, `Closures` and `Startup` are about those modules by themselves; TLC checks the same properties in
`MC_Protobuf`.

Only model-checked:

* liveness (`ConnectEnds`, `RunEnds`, `EndOfInputEnds`), which is out of the prover's
  reach;
* `Messages` with its refinement of `MessageValue`, `UnsetIsDefault` and `SizeIsLength`:
  its messages hold messages, so its functions are `RECURSIVE` operators over data of
  any depth, which the provers cannot expand.

## Not modelled

* In the generated code: reflection, descriptors and the names of enum values,
  whose bodies only look things up in tables of the library; `SpaceUsed`.
* In the vendored headers: everything that only declares code of a library the
  repository does not contain (descriptors, dynamic messages, extension sets, text
  format, zero-copy streams, the compiler); groups, which `ql2.proto` does not use;
  iterators and type traits, which keep no state; logging; the
  `Mutex` classes, which only forward.
* The extension sets of `Datum` and `Term`.  `ql2.proto` declares a range of extensions
  for each (lines 158 and 589); none is registered, and without one the sets stay empty
  and fields in the range are unknown fields.
* `MergeFrom` and `CopyFrom` of a list of pointers from itself (the loop of `MergeFrom`
  would never end), and `Add` of an element of the same `RepeatedField`, which `Reserve`
  may have moved: neither the driver nor the generated code calls them so.
* The rounding of a `size_t` to a `double` in `limit` and `skip`: numbers above 2^53
  are not told from their neighbours.
* The texts of exceptions, and which bytes a datum holds.
* Memory of the driver: `read_response()` leaks its buffer on every path that
  throws.
* Two threads on one connection: the code has no locks and claims no support.
* STOP queries and the term types the driver never builds.
* A destructor that reaches the scoped pointer it is called from.
* The project files and the umbrella header, which have no behaviour.

## Plan

Done: the driver, its network and server, the program that uses it and the example
(`Network`, `Connection`, `Driver`, `QueryService`, `Terms`, `Program`, `Repl`), the
message classes and the parts of the protocol buffer headers that have logic
(`Messages` to `ScopedPointers`), with their runs; and the theorems above.  Left, in
this order:

1. That every object reached from `r()` carries the connection.
2. Two connections in one program: a query whose argument was built on another
   connection than the one it is run on.
