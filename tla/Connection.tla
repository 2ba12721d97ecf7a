----------------------------- MODULE Connection -----------------------------
(***************************************************************************)
(* The class connection (connection.hpp, connection.cpp): connect,         *)
(* reconnect, close, write_query and read_response, used by one thread     *)
(* that calls them in any order.  A call is the sequence of its blocking   *)
(* socket operations; between two of them the network and the server act.  *)
(***************************************************************************)
EXTENDS Network

CONSTANTS
    Garbled,    \* a Response object ParseFromArray could not fill
    MaxBuffer   \* bound: chunks in the buffers and on the wire once a call has
                \* filled request_

ASSUME ConnectionAssumption ==
    /\ Garbled \notin Response \cup {NoMessage}
    /\ MaxBuffer \in Nat

VARIABLES
    established,  \* connection_established
    request_,     \* the streambuf that calls write to and the socket drains
    response_,    \* the streambuf that read_until fills and getline drains
    pc,           \* the socket operation the thread is about to do
    outcome,      \* how the last call ended: "none", "ok" or "threw"
    length,       \* response_length: whose length was read; NoMessage if none's
    reply         \* the Response the last read_response returned

clientVars == <<established, request_, response_, pc, outcome, length, reply>>
vars == <<netVars, clientVars>>

Connecting == {"dial", "greet", "await"}

TypeOK ==
    /\ NetTypeOK
    /\ established \in BOOLEAN
    /\ request_ \in Seq(ClientChunk)
    /\ response_ \in Seq(ServerChunk)
    /\ pc \in {"idle", "send", "read_len", "read_blob"} \cup Connecting
    /\ outcome \in {"none", "ok", "threw"}
    /\ length \in Response \cup {NoMessage}
    /\ reply \in Response \cup {NoMessage, Garbled}

Init ==
    /\ NetInit
    /\ established = FALSE
    /\ request_ = <<>>
    /\ response_ = <<>>
    /\ pc = "idle"
    /\ outcome = "none"
    /\ length = NoMessage
    /\ reply = NoMessage

is_connected == sock # "closed" /\ established

Holds(buffer, chunk) == \E i \in 1 .. Len(buffer) : buffer[i] = chunk

\* Mutants of AfterLine: the line is looked at and not taken from the buffer;
\* all but the last character is taken, whatever ends the line.
AfterPeek(buffer) == buffer
AfterAllButOne(buffer) == SubSeq(buffer, Len(buffer), Len(buffer))

\* What getline leaves in the buffer: everything after the first newline.
AfterLine(buffer) ==
    IF Holds(buffer, NL)
    THEN LET i == CHOOSE i \in 1 .. Len(buffer) :
                    buffer[i] = NL /\ \A j \in 1 .. i - 1 : buffer[j] # NL
         IN  SubSeq(buffer, i + 1, Len(buffer))
    ELSE <<>>

\* The call ends here.
Finish(how) == pc' = "idle" /\ outcome' = how

-----------------------------------------------------------------------------
(* connect() and reconnect() *)

ConnectAgain ==
    /\ pc = "idle"
    /\ is_connected
    /\ Finish("ok")
    /\ UNCHANGED <<netVars, established, request_, response_, length, reply>>

Connect ==
    /\ pc = "idle"
    /\ ~is_connected
    /\ pc' = "dial"
    /\ UNCHANGED <<netVars, established, request_, response_, outcome, length, reply>>

\* The host resolves and a TCP connection opens; the greeting is prepared.
OpenSocket ==
    /\ pc = "dial"
    /\ Dial
    /\ request_' = request_ \o <<MAGIC, AUTH>>
    /\ pc' = "greet"
    /\ UNCHANGED <<established, response_, outcome, length, reply>>

\* Either the resolver throws, or connect does once it has closed the socket.
OpenThrow ==
    /\ pc = "dial"
    /\ UNCHANGED netVars \/ \E s \in {"closed", "open"} : Hangup(s)
    /\ Finish("threw")
    /\ UNCHANGED <<established, request_, response_, length, reply>>

\* read_until wants a NUL in the buffer before it reads the socket.
ReadUntil ==
    /\ pc = "await"
    /\ ~Holds(response_, NUL)
    /\ s2c # <<>>
    /\ \E n \in (IF "cut" \in Faults THEN 1 .. Len(s2c) ELSE {Len(s2c)}) :
          /\ Receive(n)
          /\ response_' = response_ \o SubSeq(s2c, 1, n)
    /\ UNCHANGED <<established, request_, pc, outcome, length, reply>>

\* Mutant of ReadUntilThrow: a reply that ends early is waited for again.
ReadUntilAgain ==
    /\ pc = "await"
    /\ ~Holds(response_, NUL)
    /\ ReceiveMayFail
    /\ UNCHANGED vars

ReadUntilThrow ==
    /\ pc = "await"
    /\ ~Holds(response_, NUL)
    /\ ReceiveMayFail
    /\ Finish("threw")
    /\ UNCHANGED <<netVars, established, request_, response_, length, reply>>

\* Mutant of Judge: the flag is set before the reply is looked at.
JudgeLate ==
    /\ pc = "await"
    /\ Holds(response_, NUL)
    /\ established' = TRUE
    /\ Finish(IF response_[1] = SUCCESS THEN "ok" ELSE "threw")
    /\ response_' = AfterLine(response_)
    /\ UNCHANGED <<netVars, request_, length, reply>>

\* One line is taken from the buffer; it says whether the server accepted.
Judge ==
    /\ pc = "await"
    /\ Holds(response_, NUL)
    /\ established' = (response_[1] = SUCCESS)
    /\ Finish(IF response_[1] = SUCCESS THEN "ok" ELSE "threw")
    /\ response_' = AfterLine(response_)
    /\ UNCHANGED <<netVars, request_, length, reply>>

\* Mutant of Close: the flag is not reset.
CloseOnlySocket ==
    /\ pc = "idle"
    /\ Hangup("closed")
    /\ Finish("ok")
    /\ UNCHANGED <<established, request_, response_, length, reply>>

Close ==
    /\ pc = "idle"
    /\ Hangup("closed")
    /\ established' = FALSE
    /\ Finish("ok")
    /\ UNCHANGED <<request_, response_, length, reply>>

\* The socket is closed all the same, but the assignment is skipped.
CloseThrow ==
    /\ "close" \in Faults
    /\ pc = "idle"
    /\ sock # "closed"
    /\ Hangup("closed")
    /\ Finish("threw")
    /\ UNCHANGED <<established, request_, response_, length, reply>>

-----------------------------------------------------------------------------
(* write_query() and read_response() *)

WriteQuery(q) ==
    /\ pc = "idle"
    /\ request_' = request_ \o QueryFrame(q)
    /\ pc' = "send"
    /\ UNCHANGED <<netVars, established, response_, outcome, length, reply>>

\* write() of the whole buffer, for the greeting and for a query alike.
WriteSome ==
    /\ pc \in {"greet", "send"}
    /\ request_ # <<>>
    /\ Send(Head(request_))
    /\ request_' = Tail(request_)
    /\ UNCHANGED <<established, response_, pc, outcome, length, reply>>

WriteDone ==
    /\ request_ = <<>>
    /\ \/ pc = "greet" /\ pc' = "await" /\ UNCHANGED outcome
       \/ pc = "send" /\ Finish("ok")
    /\ UNCHANGED <<netVars, established, request_, response_, length, reply>>

\* What was not sent stays in the buffer.
WriteThrow ==
    /\ pc \in {"greet", "send"}
    /\ request_ # <<>>
    /\ SendMayFail
    /\ Finish("threw")
    /\ UNCHANGED <<netVars, established, request_, response_, length, reply>>

ReadResponse ==
    /\ pc = "idle"
    /\ pc' = "read_len"
    /\ UNCHANGED <<netVars, established, request_, response_, outcome, length, reply>>

\* Mutant of ReadLength: the bytes are kept as they are, not as a length.
ReadRawLength ==
    /\ pc = "read_len"
    /\ s2c # <<>>
    /\ Receive(1)
    /\ length' = s2c[1]
    /\ pc' = "read_blob"
    /\ UNCHANGED <<established, request_, response_, outcome, reply>>

\* Four bytes are a length, whatever chunk they belong to.
ReadLength ==
    /\ pc = "read_len"
    /\ s2c # <<>>
    /\ Receive(1)
    /\ length' = IF s2c[1].kind = "rlen" THEN s2c[1].of ELSE NoMessage
    /\ pc' = "read_blob"
    /\ UNCHANGED <<established, request_, response_, outcome, reply>>

ReadBlob ==
    /\ pc = "read_blob"
    /\ length # NoMessage
    /\ s2c # <<>>
    /\ Receive(1)
    /\ reply' = length
    /\ Finish("ok")
    /\ UNCHANGED <<established, request_, response_, length>>

\* The length was none: any number of bytes is read, and that they do not
\* parse is not noticed.
ReadGarbage ==
    /\ pc = "read_blob"
    /\ length = NoMessage
    /\ \E n \in 0 .. Len(s2c) : Receive(n)
    /\ reply' = Garbled
    /\ Finish("ok")
    /\ UNCHANGED <<established, request_, response_, length>>

\* Mutant of ReadThrow: a read that fails is tried again.
ReadAgain ==
    /\ pc \in {"read_len", "read_blob"}
    /\ ReceiveMayFail
    /\ UNCHANGED vars

\* An interrupted read may have consumed its bytes; no buffer can be had for
\* an absurd length.
ReadThrow ==
    /\ \/ /\ pc \in {"read_len", "read_blob"}
          /\ ReceiveMayFail
          /\ \/ UNCHANGED netVars
             \/ s2c # <<>> /\ Receive(1)
       \/ /\ pc = "read_blob"
          /\ length = NoMessage
          /\ UNCHANGED netVars
    /\ Finish("threw")
    /\ UNCHANGED <<established, request_, response_, length, reply>>

-----------------------------------------------------------------------------
(* The thread inside a call, the calls it may make, and the other end. *)

Step ==
    \/ OpenSocket \/ OpenThrow
    \/ WriteSome \/ WriteDone \/ WriteThrow
    \/ ReadUntil \/ ReadUntilThrow \/ Judge
    \/ ReadLength \/ ReadBlob \/ ReadGarbage \/ ReadThrow

\* The calls that fill request_, and the others.
Filling == Connect \/ \E q \in Query : WriteQuery(q)
Calling == ConnectAgain \/ Close \/ CloseThrow \/ ReadResponse

Server ==
    /\ Handshake \/ \E q \in Query, r \in Response : Serve(q, r)
    /\ UNCHANGED clientVars

Break == Drop /\ UNCHANGED clientVars

Next == Step \/ Filling \/ Calling \/ Server \/ Break

Spec == Init /\ [][Next]_vars

\* What TLC explores: no call fills a buffer that is full.
Room == Len(request_) + Len(response_) + Len(c2s) + Len(s2c) + 2 <= MaxBuffer

BoundedNext == Step \/ (Room /\ Filling) \/ Calling \/ Server \/ Break

BoundedSpec == Init /\ [][BoundedNext]_vars

\* A thread inside a call and a server with something to read keep going;
\* nobody has to call, and nothing has to break.
FairSpec == BoundedSpec /\ WF_vars(Step) /\ WF_vars(Server)

-----------------------------------------------------------------------------
(* Safety *)

\* is_connected() between two calls means that the server accepted the
\* handshake of the TCP connection the socket has now (connection.cpp:17-19,
\* 69-76): what an earlier connection left in response_ never decides.
ConnectedIsAccepted == pc = "idle" /\ is_connected => accepted

\* A connect() that throws leaves a connection that is_connected() denies
\* (connection.cpp:62-76), so that the next run() tries again.
ThrowMeansDisconnected ==
    [][(pc \in Connecting /\ pc' = "idle" /\ outcome' = "threw")
         => ~is_connected']_vars

\* The greeting opens every TCP connection, and no connection sees a second
\* one (ql2.proto:5-17): the server never waits for a magic number with
\* something else to read, and finds none later.
GreetingOpensConnection ==
    \A i \in 1 .. Len(c2s) : (c2s[i] = MAGIC) <=> (srv = "magic" /\ i = 1)

\* A server that accepted the handshake and is still there is not reported
\* as a refusal by the connect() that shook hands with it
\* (connection.cpp:53-76).
AcceptedIsConnected ==
    [][pc = "await" /\ pc' = "idle" /\ srv = "serving" => outcome' = "ok"]_vars

-----------------------------------------------------------------------------
(* Why ConnectedIsAccepted and ThrowMeansDisconnected hold when replies are *)
(* not cut and the close() of the socket reports no error.                 *)

Clean == Faults \cap {"cut", "close"} = {}

\* What follows a verdict or a newline ends in a NUL.
Terminated(buffer) ==
    \A i \in 1 .. Len(buffer) :
        buffer[i] \in {SUCCESS, NL} => \E j \in i + 1 .. Len(buffer) : buffer[j] = NUL

\* The server speaks once it is greeted, and accepts at most once.
ServerInv ==
    /\ srv # "none" => sock = "connected"
    /\ accepted => srv \in {"serving", "ended"}
    /\ srv \in {"none", "magic", "auth"} => s2c = <<>>
    /\ Terminated(s2c)
    /\ Holds(s2c, SUCCESS) => accepted
    /\ accepted => ~Holds(s2c, NL)

\* A SUCCESS is in response_ only until it is judged, and is of this connection.
ResponseInv ==
    /\ Terminated(response_)
    /\ Holds(response_, SUCCESS) =>
          pc = "await" /\ accepted /\ ~Holds(response_, NL)

EstablishedInv ==
    /\ established => accepted
    /\ pc \in Connecting => ~established

IInv == TypeOK /\ ServerInv /\ ResponseInv /\ EstablishedInv

-----------------------------------------------------------------------------
(* Liveness *)

\* connect() returns or throws (connection.cpp:25-78): there is no timeout,
\* but a server that reads answers every greeting, or the connection ends.
ConnectEnds == pc \in Connecting ~> pc = "idle"
=============================================================================
