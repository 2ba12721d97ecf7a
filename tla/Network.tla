------------------------------- MODULE Network -------------------------------
(***************************************************************************)
(* What the driver talks to: the boost.asio socket of one connection       *)
(* object, the TCP connection behind it and the server's end of it.        *)
(*                                                                         *)
(* None of this is code of the repository.  It is modelled from how        *)
(* connection.cpp uses the socket and from the protocol that ql2.proto     *)
(* states (lines 5-33).                                                    *)
(*                                                                         *)
(* A chunk is what one request_stream.write() of the driver puts in its    *)
(* buffer, or what one read() of the driver asks for; the text and the     *)
(* terminator of a handshake reply are chunks of their own.                *)
(***************************************************************************)
EXTENDS Integers, Sequences

CONSTANTS
    Query,          \* the Query protobufs a caller can pass to write_query
    Response,       \* the Response protobufs the server can send
    NoMessage,      \* the payload of a chunk that carries no protobuf
    Faults,         \* which of the faults below the environment commits
    NewlineReplies  \* whether an error reply ends in a newline before its NUL

\* "drop":      the peer or the network ends the TCP connection
\* "cut":       a reply reaches the driver in pieces, so a drop can split it
\* "interrupt": a socket call fails although the TCP connection is intact
\*              (interrupted system call, no buffer space, no memory)
\* "close":     the close() of the socket reports an error
FaultKinds == {"drop", "cut", "interrupt", "close"}

ASSUME NetworkAssumption ==
    /\ NoMessage \notin Query \cup Response
    /\ Faults \subseteq FaultKinds
    /\ NewlineReplies \in BOOLEAN

VARIABLES
    sock,      \* socket_: "closed", "open" (no peer), or "connected"
    c2s,       \* chunks on their way to the server
    s2c,       \* chunks the driver has not read from the socket
    srv,       \* the server's end: what it waits for, or "none" or "ended"
    accepted   \* history: the server accepted the handshake of this TCP connection

netVars == <<sock, c2s, s2c, srv, accepted>>

Chunk(kind, message) == [kind |-> kind, of |-> message]

MAGIC   == Chunk("magic", NoMessage)
AUTH    == Chunk("auth", NoMessage)
SUCCESS == Chunk("success", NoMessage)
ERROR   == Chunk("error", NoMessage)
NL      == Chunk("nl", NoMessage)
NUL     == Chunk("nul", NoMessage)

QueryFrame(q)    == <<Chunk("qlen", q), Chunk("qblob", q)>>
ResponseFrame(r) == <<Chunk("rlen", r), Chunk("rblob", r)>>

ClientChunk == {MAGIC, AUTH} \cup [kind : {"qlen", "qblob"}, of : Query]
ServerChunk == {SUCCESS, ERROR, NL, NUL} \cup [kind : {"rlen", "rblob"}, of : Response]

AcceptReply == <<SUCCESS, NUL>>
RejectReply == IF NewlineReplies THEN <<ERROR, NL, NUL>> ELSE <<ERROR, NUL>>

ServerStates == {"none", "magic", "auth", "serving", "ended"}

NetTypeOK ==
    /\ sock \in {"closed", "open", "connected"}
    /\ c2s \in Seq(ClientChunk)
    /\ s2c \in Seq(ServerChunk)
    /\ srv \in ServerStates
    /\ accepted \in BOOLEAN

NetInit ==
    /\ sock = "closed"
    /\ c2s = <<>>
    /\ s2c = <<>>
    /\ srv = "none"
    /\ accepted = FALSE

-----------------------------------------------------------------------------
(* The socket calls the driver makes, to be conjoined with what the driver *)
(* does around them.                                                       *)

Alive == srv \in {"magic", "auth", "serving"}

\* The socket leaves its TCP connection, if it has one, and is left in state s.
Hangup(s) ==
    /\ sock' = s
    /\ c2s' = <<>>
    /\ s2c' = <<>>
    /\ srv' = "none"
    /\ accepted' = FALSE

\* boost::asio::connect closes the socket and opens a new TCP connection.
Dial ==
    /\ sock' = "connected"
    /\ c2s' = <<>>
    /\ s2c' = <<>>
    /\ srv' = "magic"
    /\ accepted' = FALSE

\* A chunk goes out; once the other end is gone it is accepted and lost.
Send(chunk) ==
    /\ sock = "connected"
    /\ c2s' = IF Alive THEN Append(c2s, chunk) ELSE c2s
    /\ UNCHANGED <<sock, s2c, srv, accepted>>

\* A write throws: no peer, the peer is gone, or the call is interrupted.
SendMayFail ==
    \/ sock # "connected"
    \/ srv = "ended"
    \/ "interrupt" \in Faults

\* The first n chunks waiting at the socket are read.
Receive(n) ==
    /\ sock = "connected"
    /\ n <= Len(s2c)
    /\ s2c' = SubSeq(s2c, n + 1, Len(s2c))
    /\ UNCHANGED <<sock, c2s, srv, accepted>>

\* A read throws: no peer, end of stream, or the call is interrupted.
ReceiveMayFail ==
    \/ sock # "connected"
    \/ srv = "ended" /\ s2c = <<>>
    \/ "interrupt" \in Faults

-----------------------------------------------------------------------------
(* The server's end of the TCP connection. *)

\* The server gives up on this connection after the reply.
Reject ==
    /\ srv' = "ended"
    /\ s2c' = s2c \o RejectReply
    /\ c2s' = <<>>
    /\ UNCHANGED <<sock, accepted>>

TakeMagic ==
    /\ srv = "magic"
    /\ c2s # <<>>
    /\ Head(c2s) = MAGIC
    /\ srv' = "auth"
    /\ c2s' = Tail(c2s)
    /\ UNCHANGED <<sock, s2c, accepted>>

Accept ==
    /\ srv = "auth"
    /\ c2s # <<>>
    /\ Head(c2s) = AUTH
    /\ srv' = "serving"
    /\ accepted' = TRUE
    /\ c2s' = Tail(c2s)
    /\ s2c' = s2c \o AcceptReply
    /\ UNCHANGED sock

\* A wrong magic number, a wrong key, or a server that does not want to.
Refuse ==
    /\ srv \in {"magic", "auth"}
    /\ c2s # <<>>
    /\ Reject

\* The server reads one whole query and sends one response to it.  Any other four
\* bytes are a length to it too: the MAGIC of an old greeting announces a query of
\* 0x723081e1 bytes.  The server waits for these, longer than the driver will ever
\* send, and what comes behind the MAGIC stays in c2s.
Serve(q, r) ==
    /\ srv = "serving"
    /\ Len(c2s) >= 2
    /\ c2s[1] = Chunk("qlen", q)
    /\ c2s[2] = Chunk("qblob", q)
    /\ c2s' = SubSeq(c2s, 3, Len(c2s))
    /\ s2c' = s2c \o ResponseFrame(r)
    /\ UNCHANGED <<sock, srv, accepted>>

\* The TCP connection ends; of what was on its way to the driver a prefix arrives.
Drop ==
    /\ "drop" \in Faults
    /\ srv # "none"
    /\ \E n \in (IF "cut" \in Faults THEN 0 .. Len(s2c) ELSE {0, Len(s2c)}) :
          s2c' = SubSeq(s2c, 1, n)
    /\ srv' = "ended"
    /\ c2s' = <<>>
    /\ UNCHANGED <<sock, accepted>>

Handshake == TakeMagic \/ Accept \/ Refuse
=============================================================================
