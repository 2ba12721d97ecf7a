---------------------------- MODULE Service_proofs ----------------------------
(***************************************************************************)
(* When TCP connections only drop, run() implements QueryService: driver   *)
(* and server take turns, so what run() reads is always the answer to the  *)
(* query it has just written.                                              *)
(***************************************************************************)
EXTENDS Driver_proofs

-----------------------------------------------------------------------------
(* Greetings and frames *)

LEMMA Frames ==
    /\ \A q : Len(QueryFrame(q)) = 2 /\ QueryFrame(q) # <<>>
    /\ \A q : QueryFrame(q)[1] = Chunk("qlen", q) /\ QueryFrame(q)[2] = Chunk("qblob", q)
    /\ \A q : Chunk("qlen", q) \notin Greeting /\ Chunk("qblob", q) \notin Greeting
    /\ \A q, p : Chunk("qlen", q) = Chunk("qlen", p) => q = p
    /\ \A r : ResponseFrame(r)[1] = Chunk("rlen", r) /\ ResponseFrame(r) # <<>>
    /\ \A r : Chunk("rlen", r).kind = "rlen" /\ Chunk("rlen", r).of = r
    /\ \A c \in Greeting : c.kind # "qlen"
  BY DEF QueryFrame, ResponseFrame, Greeting, MAGIC, AUTH, Chunk

\* What is left of a response when its length has been read.
LEMMA RestOfFrame ==
    ASSUME NEW r
    PROVE  SubSeq(ResponseFrame(r), 2, Len(ResponseFrame(r))) = <<Chunk("rblob", r)>>
  <1> DEFINE f == ResponseFrame(r)
             c == Chunk("rblob", r)
             s == SubSeq(f, 2, Len(f))
             t == <<c>>
  <1>1. f \in Seq({Chunk("rlen", r), c}) /\ Len(f) = 2 /\ f[2] = c
    BY DEF ResponseFrame
  <1> HIDE DEF f, c
  <1>2. /\ s \in Seq({Chunk("rlen", r), c}) /\ t \in Seq({Chunk("rlen", r), c})
        /\ Len(s) = Len(t) /\ \A i \in 1 .. Len(s) : s[i] = t[i]
    BY <1>1, SubSeqProperties
  <1> HIDE DEF s, t
  <1>3. s = t
    BY <1>2, SeqEqual
  <1>4. QED BY <1>3 DEF s, t, f, c

\* A START is no CONTINUE, and says which run it is of.
LEMMA Queries ==
    /\ \A t, n, s : StartQuery(t, n) # ContinueQuery(s)
    /\ \A t, n, s, m : StartQuery(t, n) = StartQuery(s, m) => t = s /\ n = m
    /\ \A t, s : ContinueQuery(t) = ContinueQuery(s) => t = s
  BY DEF StartQuery, ContinueQuery

\* What is after the first k chunks of a wire on which queries come first.
LEMMA GreetingSuffix ==
    ASSUME NEW S, NEW s \in Seq(S), NEW t \in Seq(S), NEW k \in Nat,
           Len(t) = Len(s) - k, \A i \in 1 .. Len(t) : t[i] = s[i + k]
    PROVE  /\ QueriesFirst(s) => QueriesFirst(t)
           /\ AllGreeting(s) => AllGreeting(t)
           /\ QueriesFirst(s) /\ k > 0 /\ s # <<>> /\ s[1] \in Greeting => AllGreeting(t)
  <1>1. \A i \in 1 .. Len(t) : i + k \in 1 .. Len(s)
    OBVIOUS
  <1>2. QueriesFirst(s) => QueriesFirst(t)
    BY <1>1 DEF QueriesFirst
  <1>3. AllGreeting(s) => AllGreeting(t)
    BY <1>1 DEF AllGreeting
  <1>4. ASSUME QueriesFirst(s), k > 0, s # <<>>, s[1] \in Greeting,
               NEW i \in 1 .. Len(t)
        PROVE  t[i] \in Greeting
    BY <1>1, <1>4 DEF QueriesFirst
  <1>5. QED BY <1>2, <1>3, <1>4 DEF AllGreeting

\* A greeting may follow queries; after an accepted greeting there are only
\* greetings.
LEMMA GreetingLast ==
    ASSUME NEW S, NEW s \in Seq(S), QueriesFirst(s), MAGIC \in S, AUTH \in S
    PROVE  QueriesFirst(s \o <<MAGIC, AUTH>>)
  <1> DEFINE g == <<MAGIC, AUTH>>
             u == s \o g
  <1>1. g \in Seq(S) /\ Len(g) = 2 /\ g[1] \in Greeting /\ g[2] \in Greeting
    BY DEF Greeting
  <1> HIDE DEF g
  <1>2. /\ Len(u) = Len(s) + Len(g) /\ Len(s) \in Nat
        /\ \A i \in 1 .. Len(s) : u[i] = s[i]
        /\ \A i \in 1 .. Len(g) : u[Len(s) + i] = g[i]
    <2>1. g \in Seq(S)
      BY <1>1
    <2>2. QED BY <2>1, Concat
  <1> HIDE DEF u
  <1>3. u[Len(s) + 1] \in Greeting /\ u[Len(s) + 2] \in Greeting
    BY <1>1, <1>2
  <1>4. ASSUME NEW i \in 1 .. Len(u), NEW j \in 1 .. Len(u), i < j, u[i] \in Greeting
        PROVE  u[j] \in Greeting
    <2>1. j <= Len(s) \/ j = Len(s) + 1 \/ j = Len(s) + 2
      BY <1>1, <1>2
    <2>2. CASE j <= Len(s)
      BY <1>2, <1>4, <2>2 DEF QueriesFirst
    <2>3. QED BY <1>3, <2>1, <2>2
  <1>5. QueriesFirst(u)
    BY <1>4 DEF QueriesFirst
  <1>6. QED BY <1>5 DEF u, g

LEMMA NoGreeting ==
    /\ QueriesFirst(<<>>) /\ AllGreeting(<<>>)
    /\ \A s : (\A i \in 1 .. Len(s) : s[i] \notin Greeting) => QueriesFirst(s)
  BY DEF QueriesFirst, AllGreeting

\* The wire is empty when both halves are.
LEMMA EmptyWire ==
    ASSUME TypeOK
    PROVE  Wire = <<>> <=> (c2s = <<>> /\ request_ = <<>>)
  <1>1. /\ Wire \in Seq(ClientChunk) /\ c2s \in Seq(ClientChunk) /\ request_ \in Seq(ClientChunk)
        /\ Len(Wire) = Len(c2s) + Len(request_)
    BY WireChunks DEF TypeOK, NetTypeOK
  <1>2. \A s \in Seq(ClientChunk) : s = <<>> <=> Len(s) = 0
    OBVIOUS
  <1>3. QED BY <1>1, <1>2
\* A query alone on the wire, and all of it at the other end.
LEMMA WholeQuery ==
    ASSUME TypeOK, NEW q, Wire = QueryFrame(q), Len(c2s) >= 2
    PROVE  c2s = QueryFrame(q) /\ request_ = <<>>
  <1>1. c2s \in Seq(ClientChunk) /\ request_ \in Seq(ClientChunk)
    BY DEF TypeOK, NetTypeOK
  <1>2. Len(request_) = 0
    BY <1>1, WireChunks, Frames
  <1>3. request_ = <<>>
    BY <1>1, <1>2
  <1>4. Wire = c2s
    BY <1>1, <1>3, ConcatEmptySeq DEF Wire
  <1>5. QED BY <1>3, <1>4

\* What the server reads of the wire.
LEMMA WireFront ==
    ASSUME TypeOK, NEW k \in 0 .. Len(c2s), c2s' = SubSeq(c2s, k + 1, Len(c2s)),
           request_' = request_, TypeOK'
    PROVE  /\ Wire' \in Seq(ClientChunk)
           /\ Len(Wire') = Len(Wire) - k
           /\ \A i \in 1 .. Len(Wire') : Wire'[i] = Wire[i + k]
  <1> DEFINE d == SubSeq(c2s, k + 1, Len(c2s))
             w == d \o request_
  <1>1. c2s \in Seq(ClientChunk) /\ request_ \in Seq(ClientChunk)
    BY DEF TypeOK, NetTypeOK
  <1>2. /\ d \in Seq(ClientChunk) /\ Len(d) = Len(c2s) - k
        /\ \A i \in 1 .. Len(c2s) - k : d[i] = c2s[k + i]
    BY <1>1, Suffix
  <1>3. Wire' = w
    BY DEF Wire
  <1> HIDE DEF d
  <1>4. /\ w \in Seq(ClientChunk) /\ Len(w) = Len(d) + Len(request_)
        /\ Len(d) \in Nat /\ Len(request_) \in Nat
        /\ \A i \in 1 .. Len(d) : w[i] = d[i]
        /\ \A i \in 1 .. Len(request_) : w[Len(d) + i] = request_[i]
    <2>1. d \in Seq(ClientChunk)
      BY <1>2
    <2>2. QED BY <1>1, <2>1, Concat
  <1> HIDE DEF w
  <1>5. ASSUME NEW i \in 1 .. Len(w) PROVE w[i] = Wire[i + k]
    <2>1. CASE i <= Len(d)
      <3>1. i \in 1 .. Len(d) /\ i + k \in 1 .. Len(c2s) /\ i \in 1 .. Len(c2s) - k
        BY <1>2, <1>4, <2>1, WireChunks
      <3>2. QED BY <1>2, <1>4, <3>1, WireChunks
    <2>2. CASE i > Len(d)
      <3> DEFINE h == i - Len(d)
      <3>1. h \in 1 .. Len(request_) /\ i = Len(d) + h /\ i + k = Len(c2s) + h
        BY <1>2, <1>4, <2>2, WireChunks
      <3> HIDE DEF h
      <3>2. QED BY <1>4, <3>1, WireChunks
    <2>3. QED BY <1>4, <2>1, <2>2
  <1>6. QED BY <1>2, <1>3, <1>4, <1>5, WireChunks

-----------------------------------------------------------------------------
(* The inductive invariant, and where each call can be *)

DropInv == IInv /\ DriverInv /\ OnceInv /\ CallInv

LEMMA Where ==
    ASSUME DropInv
    PROVE  /\ pc \in Connecting => phase \in {"idle", "connect"} /\ ~established
           /\ pc = "send" => phase = "write"
           /\ pc \in {"read_len", "read_blob"} => phase = "read"
           /\ phase \in {"write", "read", "more", "done"} => established
           /\ established => sock = "connected" /\ srv \in {"serving", "ended"}
           /\ Holds(response_, SUCCESS) => pc = "await"
  <1> USE DEF DropInv, DriverInv, IInv, CallInv
  <1>1. /\ pc \in Connecting => phase \in {"idle", "connect"} /\ ~established
        /\ pc = "send" => phase = "write"
        /\ pc \in {"read_len", "read_blob"} => phase = "read"
    BY DEF PhaseInv, DriverTypeOK, Connecting, EstablishedInv
  <1>2. established => sock = "connected" /\ srv \in {"serving", "ended"}
    BY DEF EstablishedInv, ServerInv
  <1>3. QED BY <1>1, <1>2 DEF TurnInv, ProgressInv, ResponseInv

\* Under drops alone a reply is lost or arrives whole, and a call of the
\* socket fails only when the other end is gone.
LEMMA OnlyDropsMeans ==
    ASSUME OnlyDrops
    PROVE  /\ Clean
           /\ ~CloseThrow
           /\ SendMayFail <=> sock # "connected" \/ srv = "ended"
           /\ ReceiveMayFail <=> sock # "connected" \/ (srv = "ended" /\ s2c = <<>>)
           /\ ReadUntil => s2c' = SubSeq(s2c, Len(s2c) + 1, Len(s2c))
                           /\ response_' = response_ \o SubSeq(s2c, 1, Len(s2c))
           /\ Drop => \E n \in {0, Len(s2c)} : s2c' = SubSeq(s2c, 1, n)
  <1>1. "cut" \notin Faults /\ "close" \notin Faults /\ "interrupt" \notin Faults
    BY DEF OnlyDrops
  <1>2. QED BY <1>1 DEF Clean, CloseThrow, SendMayFail, ReceiveMayFail, ReadUntil, Receive, Drop

-----------------------------------------------------------------------------
(* WireInv: what is on the wire before and after a greeting *)

LEMMA WireQuiet ==
    ASSUME WireInv,
           UNCHANGED <<c2s, s2c, srv, request_, response_, established, cursors>>,
           pc' = "await" => pc = "await" \/ request_ = <<>>
    PROVE  WireInv'
  <1>1. Wire' = Wire
    BY DEF Wire
  <1>2. QED BY <1>1 DEF WireInv, QueriesFirst, AllGreeting, Holds

\* The steps of a call to connect() or close().
LEMMA WireConnect ==
    ASSUME OnlyDrops, DropInv, IInv', cursors' = cursors,
           OpenSocket \/ OpenThrow \/ ReadUntil \/ ReadUntilThrow \/ Judge \/ Close
    PROVE  WireInv'
  <1> USE OnlyDropsMeans, Where DEF WireInv, Finish, Connecting
  <1>0. WireInv /\ TypeOK /\ ResponseInv
    BY DEF DropInv, CallInv, IInv
  <1>1. CASE OpenSocket
    <2>1. QueriesFirst(request_) /\ request_ \in Seq(ClientChunk)
      BY <1>0, <1>1 DEF OpenSocket, TypeOK
    <2>2. QueriesFirst(request_')
      BY <1>1, <2>1, GreetingLast, ChunkTypes DEF OpenSocket
    <2>3. request_' \in Seq(ClientChunk) /\ c2s' = <<>>
      BY <1>1 DEF OpenSocket, Dial, IInv, TypeOK
    <2>4. Wire' = request_'
      BY <2>3, ConcatEmptySeq DEF Wire
    <2>5. UNCHANGED established /\ pc' = "greet" /\ srv' = "magic" /\ s2c' = <<>>
      BY <1>1 DEF OpenSocket, Dial
    <2>6. ~established'
      BY <1>1, <2>5 DEF OpenSocket
    <2>7. QED BY <2>2, <2>4, <2>5, <2>6
  <1>2. CASE OpenThrow
    <2>1. CASE UNCHANGED netVars
      BY <1>0, <1>2, <2>1, WireQuiet DEF OpenThrow, netVars
    <2>2. ASSUME NEW s \in {"closed", "open"}, Hangup(s) PROVE WireInv'
      BY <1>0, <1>2, <2>2 DEF OpenThrow, Hangup, QueriesFirst
    <2>3. QED BY <1>2, <2>1, <2>2 DEF OpenThrow
  <1>3. CASE ReadUntil
    <2>1. s2c' = <<>>
      BY <1>3
    <2>2. UNCHANGED <<c2s, srv, request_, established, pc>>
      BY <1>3 DEF ReadUntil, Receive
    <2>3. Wire' = Wire
      BY <2>2 DEF Wire
    <2>4. QED BY <1>0, <2>1, <2>2, <2>3 DEF QueriesFirst, AllGreeting
  <1>4. CASE ReadUntilThrow
    BY <1>0, <1>4, WireQuiet DEF ReadUntilThrow, netVars
  <1>5. CASE Judge
    <2>1. ~Holds(response_', SUCCESS)
      BY <1>5 DEF Judge, IInv, ResponseInv
    <2>2. request_ = <<>> /\ ~established /\ pc' = "idle"
      BY <1>0, <1>5 DEF Judge
    <2>3. UNCHANGED <<c2s, s2c, srv, request_>>
      BY <1>5 DEF Judge, netVars
    <2>4. Wire' = Wire
      BY <2>3 DEF Wire
    <2>5. QED BY <1>0, <2>1, <2>2, <2>3, <2>4, NoGreeting
              DEF QueriesFirst, AllGreeting
  <1>6. CASE Close
    <2>1. srv' = "none" /\ s2c' = <<>> /\ request_' = request_ /\ pc' = "idle" /\ ~established'
      BY <1>6 DEF Close, Hangup
    <2>2. QueriesFirst(request_)
      BY <1>0, NoGreeting
    <2>3. QED BY <2>1, <2>2 DEF QueriesFirst
  <1>7. QED BY <1>1, <1>2, <1>3, <1>4, <1>5, <1>6
\* The steps that write the buffer to the socket.
LEMMA WireSend ==
    ASSUME DropInv, cursors' = cursors, WriteSome \/ WriteDone \/ WriteThrow
    PROVE  WireInv'
  <1> USE Where DEF WireInv
  <1>0. WireInv /\ TypeOK /\ OnceInv
    BY DEF DropInv, CallInv, IInv
  <1>1. CASE WriteSome
    <2>1. UNCHANGED <<s2c, srv, established, response_, pc>> /\ pc # "await"
      BY <1>1 DEF WriteSome, Send
    <2>2. /\ request_' \in Seq(ClientChunk) /\ request_ \in Seq(ClientChunk)
          /\ Len(request_') = Len(request_) - 1
          /\ \A i \in 1 .. Len(request_') : request_'[i] = request_[i + 1]
      BY <1>0, <1>1, HeadTailProperties DEF WriteSome, TypeOK
    <2>3. QueriesFirst(request_) => QueriesFirst(request_')
      BY <2>2, GreetingSuffix
    <2>4. established => \A i \in 1 .. Len(request_') : request_'[i] \notin Greeting
      BY <1>0, <2>2
    <2>5. Alive => Wire' = Wire
      BY <1>0, <1>1, SendKeepsWire
    <2>6. QED BY <1>0, <2>1, <2>3, <2>4, <2>5 DEF Alive, QueriesFirst, AllGreeting
  <1>2. CASE WriteDone
    BY <1>0, <1>2, WireQuiet DEF WriteDone, netVars
  <1>3. CASE WriteThrow
    BY <1>0, <1>3, WireQuiet DEF WriteThrow, Finish, netVars
  <1>4. QED BY <1>1, <1>2, <1>3

\* The steps that read a response: the connection is established.
LEMMA WireRead ==
    ASSUME DropInv, UNCHANGED <<c2s, srv, request_, response_, established, cursors>>,
           pc \in {"read_len", "read_blob"}, pc' # "await"
    PROVE  WireInv'
  <1>1. established /\ ~Holds(response_, SUCCESS) /\ srv \in {"serving", "ended"}
    BY Where
  <1>2. QED BY <1>1 DEF DropInv, CallInv, WireInv, Holds

\* A query is put into the buffer of an established connection.
LEMMA WireQuery ==
    ASSUME DropInv, established, NEW q \in Query, WriteQuery(q), cursors' = cursors
    PROVE  WireInv'
  <1> DEFINE f == QueryFrame(q)
  <1>1. f \in Seq(ClientChunk) /\ Len(f) = 2 /\ f[1] \notin Greeting /\ f[2] \notin Greeting
    BY Frames, ChunkTypes
  <1>2. /\ request_' = request_ \o f /\ pc' # "await"
        /\ UNCHANGED <<s2c, srv, established, response_>>
    BY DEF WriteQuery, netVars
  <1> HIDE DEF f
  <1>3. srv \in {"serving", "ended"} /\ ~Holds(response_, SUCCESS)
    BY Where DEF WriteQuery
  <1>4. request_ \in Seq(ClientChunk) /\ \A i \in 1 .. Len(request_) : request_[i] \notin Greeting
    BY DEF DropInv, IInv, TypeOK, CallInv, WireInv
  <1>5. \A i \in 1 .. Len(request_') : request_'[i] \notin Greeting
    <2>1. /\ Len(request_') = Len(request_) + 2 /\ Len(request_) \in Nat
          /\ \A i \in 1 .. Len(request_) : request_'[i] = request_[i]
          /\ \A i \in 1 .. Len(f) : request_'[Len(request_) + i] = f[i]
      <3>1. f \in Seq(ClientChunk) /\ request_ \in Seq(ClientChunk)
        BY <1>1, <1>4
      <3>2. /\ Len(request_ \o f) = Len(request_) + Len(f) /\ Len(request_) \in Nat
            /\ \A i \in 1 .. Len(request_) : (request_ \o f)[i] = request_[i]
            /\ \A i \in 1 .. Len(f) : (request_ \o f)[Len(request_) + i] = f[i]
        BY <3>1, Concat
      <3>3. QED BY <1>1, <1>2, <3>2
    <2>2. ASSUME NEW i \in 1 .. Len(request_') PROVE request_'[i] \notin Greeting
      <3>1. i \in 1 .. Len(request_) \/ i = Len(request_) + 1 \/ i = Len(request_) + 2
        BY <2>1
      <3>2. QED BY <1>1, <1>4, <2>1, <3>1
    <2>3. QED BY <2>2
  <1>6. QED BY <1>2, <1>3, <1>5 DEF WireInv, Holds

\* The server meets a greeting or a query, or the TCP connection breaks.
LEMMA WireServer ==
    ASSUME OnlyDrops, DropInv, IInv', UNCHANGED clientVars,
           \/ Handshake /\ (accepted' /\ ~accepted => cursors' = {})
                        /\ (~(accepted' /\ ~accepted) => cursors' = cursors)
           \/ Drop /\ cursors' = cursors
           \/ \E q, r : Serve(q, r)
    PROVE  WireInv'
  <1> USE OnlyDropsMeans, Where DEF WireInv
  <1>0. /\ WireInv /\ TypeOK /\ ServerInv /\ TypeOK' /\ request_' = request_
        /\ UNCHANGED <<pc, established, response_>>
    BY DEF DropInv, CallInv, IInv, clientVars
  <1>1. CASE TakeMagic \/ Accept
    <2>1. /\ c2s \in Seq(ClientChunk) /\ c2s # <<>> /\ c2s' = Tail(c2s)
          /\ Head(c2s) = c2s[1] /\ Len(c2s) \in Nat /\ srv \in {"magic", "auth"}
      BY <1>0, <1>1 DEF TakeMagic, Accept, TypeOK, NetTypeOK
    <2>2. c2s' = SubSeq(c2s, 1 + 1, Len(c2s)) /\ 1 \in 0 .. Len(c2s)
      BY <2>1
    <2>3. /\ Wire' \in Seq(ClientChunk)
          /\ Len(Wire') = Len(Wire) - 1
          /\ \A i \in 1 .. Len(Wire') : Wire'[i] = Wire[i + 1]
      BY <1>0, <2>2, WireFront
    <2>4. Wire \in Seq(ClientChunk) /\ Wire # <<>> /\ Wire[1] = c2s[1]
      BY <1>0, <2>1, WireChunks, EmptyWire
    <2>5. /\ QueriesFirst(Wire) => QueriesFirst(Wire')
          /\ QueriesFirst(Wire) /\ Wire[1] \in Greeting => AllGreeting(Wire')
      BY <2>3, <2>4, GreetingSuffix
    <2>6. QueriesFirst(Wire) /\ ~established /\ ~accepted
      BY <1>0, <2>1 DEF ServerInv
    <2>7. CASE TakeMagic
      <3>1. srv' = "auth" /\ s2c' = s2c
        BY <2>7 DEF TakeMagic
      <3>2. QED BY <1>0, <2>5, <2>6, <3>1 DEF QueriesFirst
    <2>8. CASE Accept
      <3>1. srv' = "serving" /\ accepted' /\ s2c' = s2c \o AcceptReply /\ s2c = <<>>
        BY <1>0, <2>8 DEF Accept, ServerInv
      <3>2. AllGreeting(Wire')
        BY <2>1, <2>4, <2>5, <2>6, <2>8 DEF Accept, Greeting
      <3>3. cursors' = {}
        BY <2>6, <2>8, <3>1 DEF Accept, Handshake, Drop, Serve
      <3>4. s2c' = AcceptReply
        BY <3>1, ChunkTypes, ConcatEmptySeq
      <3>5. \A i \in 1 .. Len(s2c') : s2c'[i].of = NoMessage
        BY <3>4 DEF AcceptReply, SUCCESS, NUL, Chunk
      <3>6. ~Holds(response_, SUCCESS)
        BY <2>6 DEF DropInv, IInv, ResponseInv
      <3>7. QED BY <1>0, <2>6, <3>1, <3>2, <3>3, <3>5, <3>6 DEF QueriesFirst, AllGreeting, Holds
    <2>9. QED BY <1>1, <2>7, <2>8
  <1>2. CASE Refuse
    <2>1. srv' = "ended" /\ s2c' = s2c \o RejectReply /\ srv \in {"magic", "auth"}
      BY <1>2 DEF Refuse, Reject
    <2>2. s2c' = RejectReply /\ ~established /\ ~accepted
      BY <1>0, <2>1, ChunkTypes, ConcatEmptySeq DEF ServerInv
    <2>3. \A i \in 1 .. Len(s2c') : s2c'[i].of = NoMessage
      BY <2>2 DEF RejectReply, ERROR, NL, NUL, Chunk
    <2>4. ~Holds(response_, SUCCESS)
      BY <2>2 DEF DropInv, IInv, ResponseInv
    <2>5. QED BY <1>0, <2>1, <2>2, <2>3, <2>4 DEF QueriesFirst, Holds
  <1>3. CASE Drop
    <2>1. s2c' = <<>> \/ s2c' = s2c
      <3>1. PICK n \in {0, Len(s2c)} : s2c' = SubSeq(s2c, 1, n)
        BY <1>3 DEF Drop
      <3>2. s2c \in Seq(ServerChunk)
        BY <1>0 DEF TypeOK, NetTypeOK
      <3>3. QED BY <3>1, <3>2
    <2>2. srv' = "ended"
      BY <1>3 DEF Drop
    <2>3. QED BY <1>0, <2>1, <2>2 DEF QueriesFirst, Holds
  <1>4. ASSUME NEW q, NEW r, Serve(q, r) PROVE WireInv'
    <2>1. srv = "serving" /\ srv' = srv /\ c2s[1] = Chunk("qlen", q) /\ Len(c2s) >= 2
      BY <1>4 DEF Serve
    <2>2. Wire[1] \notin Greeting /\ 1 \in 1 .. Len(Wire)
      BY <1>0, <2>1, WireChunks, Frames
    <2>3. established
      BY <1>0, <2>1, <2>2 DEF AllGreeting
    <2>4. ~Holds(response_, SUCCESS) /\ pc # "await"
      BY <2>3 DEF DropInv, IInv, ResponseInv, EstablishedInv, Connecting
    <2>5. QED BY <1>0, <2>1, <2>3, <2>4 DEF Holds
  <1>5. QED BY <1>1, <1>2, <1>3, <1>4 DEF Handshake

-----------------------------------------------------------------------------
(* TurnInv and AnswerInv: the steps of each call *)

\* What the steps inside a call of the connection leave alone.
RunSame == UNCHANGED <<run, phase, token, responses, result, cursors, executed>>

LEMMA AnswerSame == AnswerInv /\ RunSame => AnswerInv'
  BY DEF AnswerInv, RunSame

\* connect(): nothing has been asked; once the server has accepted, nobody
\* speaks.
LEMMA TurnConnect ==
    ASSUME OnlyDrops, DropInv, IInv', RunSame, pc \in Connecting, Step
    PROVE  TurnInv'
  <1>0. /\ phase \in {"idle", "connect"} /\ phase' = phase /\ ~established
        /\ WireInv /\ TypeOK /\ DriverTypeOK
    BY Where DEF RunSame, DropInv, CallInv, IInv, DriverInv
  <1>1. ASSUME ~established', pc' # "read_blob", pc' = "idle" => outcome' = "threw"
        PROVE  TurnInv'
    BY <1>0, <1>1 DEF TurnInv, ProgressInv, RestInv, AskInv, ReadInv, Returned, Asking
  <1>2. CASE Judge
    <2>1. CASE response_[1] = SUCCESS
      <3>1. Holds(response_, SUCCESS)
        BY <1>0, <1>2, <2>1 DEF Judge, Holds, TypeOK
      <3>2. /\ s2c' = <<>> /\ request_' = <<>> /\ established' /\ pc' = "idle"
            /\ UNCHANGED <<c2s, srv>> /\ outcome' = "ok"
        BY <1>0, <1>2, <2>1, <3>1 DEF Judge, Finish, WireInv, netVars
      <3>3. srv = "serving" => AllGreeting(c2s) /\ cursors = {}
        <4>1. c2s \in Seq(ClientChunk) /\ request_ = <<>>
          BY <1>0, <1>2 DEF Judge, WireInv, TypeOK, NetTypeOK
        <4>2. Wire = c2s
          BY <4>1, ConcatEmptySeq DEF Wire
        <4>3. QED BY <1>0, <4>2 DEF WireInv
      <3>4. RestInv'
        BY <1>0, <3>2, <3>3 DEF RestInv, AllGreeting, RunSame
      <3>5. ProgressInv' /\ AskInv' /\ ReadInv'
        BY <1>0, <3>2 DEF ProgressInv, AskInv, ReadInv, Asking
      <3>6. QED BY <3>4, <3>5 DEF TurnInv
    <2>2. CASE response_[1] # SUCCESS
      BY <1>1, <1>2, <2>2 DEF Judge, Finish
    <2>3. QED BY <2>1, <2>2
  <1>3. CASE OpenSocket \/ OpenThrow \/ WriteSome \/ WriteDone \/ WriteThrow
    BY <1>0, <1>1, <1>3
    DEF OpenSocket, OpenThrow, WriteSome, WriteDone, WriteThrow, Finish, Connecting
  <1>4. CASE ReadUntil \/ ReadUntilThrow
    BY <1>0, <1>1, <1>4 DEF ReadUntil, ReadUntilThrow, Finish
  <1>5. QED
    BY <1>2, <1>3, <1>4
    DEF Step, Connecting, ReadLength, ReadBlob, ReadGarbage, ReadThrow

\* write_query(): what was asked stays asked while it moves to the server.
LEMMA TurnSend ==
    ASSUME OnlyDrops, DropInv, RunSame, pc = "send", WriteSome \/ WriteDone \/ WriteThrow
    PROVE  TurnInv'
  <1> USE OnlyDropsMeans, Where
  <1>0. /\ phase = "write" /\ phase' = "write" /\ established /\ TypeOK /\ OnceInv
        /\ AskInv /\ established' = established /\ pc' \in {"send", "idle"}
        /\ UNCHANGED <<s2c, srv>>
    BY DEF RunSame, DropInv, CallInv, IInv, TurnInv, WriteSome, WriteDone, WriteThrow,
           Finish, Send, netVars
  <1>1. \/ Wire' = Wire /\ (c2s # <<>> => c2s' # <<>> /\ c2s'[1] = c2s[1])
        \/ srv # "serving" /\ Wire # <<>>
    <2>1. CASE WriteSome
      <3>1. c2s \in Seq(ClientChunk) /\ (Alive => c2s' = Append(c2s, Head(request_)))
        BY <1>0, <2>1 DEF WriteSome, Send, TypeOK, NetTypeOK
      <3>2. Alive => Wire' = Wire
        BY <1>0, <2>1, SendKeepsWire
      <3>3. Wire # <<>>
        BY <1>0, <2>1, EmptyWire DEF WriteSome
      <3>4. QED BY <3>1, <3>2, <3>3 DEF Alive
    <2>2. CASE WriteDone \/ WriteThrow
      BY <2>2 DEF WriteDone, WriteThrow, netVars, Wire
    <2>3. QED BY <2>1, <2>2
  <1>2. AskInv'
    BY <1>0, <1>1 DEF AskInv, Asking, Asked, RightAnswer, CurrentQuery, Cursor, RunSame
  <1>3. ProgressInv'
    <2>1. CASE WriteSome
      BY <1>0, <2>1 DEF WriteSome, ProgressInv, Returned
    <2>2. CASE WriteDone
      BY <1>0, <2>2 DEF WriteDone, ProgressInv, Returned, Finish
    <2>3. CASE WriteThrow
      <3>1. srv = "ended" /\ Wire # <<>>
        BY <1>0, <2>3, EmptyWire DEF WriteThrow
      <3>2. s2c = <<>>
        BY <1>0, <3>1 DEF AskInv, Asking
      <3>3. QED BY <1>0, <2>3, <3>1, <3>2 DEF WriteThrow, Finish, ProgressInv, Returned
    <2>4. QED BY <2>1, <2>2, <2>3
  <1>4. RestInv' /\ ReadInv'
    BY <1>0 DEF RestInv, ReadInv, Resting
  <1>5. QED BY <1>2, <1>3, <1>4 DEF TurnInv
\* read_response(): what it reads is the answer, or the end of the connection.
LEMMA TurnRead ==
    ASSUME OnlyDrops, DropInv, RunSame, pc \in {"read_len", "read_blob"},
           ReadLength \/ ReadBlob \/ ReadGarbage \/ ReadThrow
    PROVE  TurnInv'
  <1> USE OnlyDropsMeans, Where
  <1>0. /\ phase = "read" /\ phase' = "read" /\ established /\ TypeOK
        /\ AskInv /\ ReadInv /\ request_ = <<>>
        /\ UNCHANGED <<c2s, srv, request_, established>> /\ Wire' = Wire
    BY DEF RunSame, DropInv, CallInv, IInv, TurnInv, ProgressInv, ReadLength, ReadBlob,
           ReadGarbage, ReadThrow, Receive, netVars, Wire
  <1>1. RestInv'
    BY <1>0 DEF RestInv, Resting
  <1>2. \A r : RightAnswer(r) => RightAnswer(r)'
    BY <1>0 DEF RightAnswer, Cursor, RunSame
  <1>3. \A r : RightAnswer(r) => r # NoMessage
    BY NetworkAssumption DEF RightAnswer
  <1>4. CASE ReadLength
    <2>1. PICK r \in Response : Wire = <<>> /\ s2c = ResponseFrame(r) /\ RightAnswer(r)
      BY <1>0, <1>4 DEF ReadLength, AskInv, Asking
    <2>2. length' = r
      BY <1>4, <2>1, Frames DEF ReadLength
    <2>3. s2c' = <<Chunk("rblob", r)>>
      <3>1. s2c' = SubSeq(s2c, 2, Len(s2c))
        BY <1>4 DEF ReadLength, Receive
      <3>2. QED BY <2>1, <3>1, RestOfFrame
    <2>4. pc' = "read_blob"
      BY <1>4 DEF ReadLength
    <2>5. ReadInv'
      BY <1>0, <1>2, <2>1, <2>2, <2>3, <2>4 DEF ReadInv, Returned
    <2>6. ProgressInv' /\ AskInv'
      BY <1>0, <2>4 DEF ProgressInv, AskInv, Asking
    <2>7. QED BY <1>1, <2>5, <2>6 DEF TurnInv
  <1>5. CASE ReadBlob
    <2>1. /\ pc = "read_blob" /\ s2c # <<>> /\ reply' = length /\ pc' = "idle" /\ outcome' = "ok"
          /\ s2c' = SubSeq(s2c, 2, Len(s2c))
      BY <1>5 DEF ReadBlob, Receive, Finish
    <2>2. Wire = <<>> /\ RightAnswer(length) /\ s2c = <<Chunk("rblob", length)>>
      BY <1>0, <2>1 DEF ReadInv
    <2>3. s2c' = <<>>
      BY <2>1, <2>2
    <2>4. ReadInv'
      BY <1>0, <1>2, <2>1, <2>2, <2>3 DEF ReadInv, Returned
    <2>5. ProgressInv' /\ AskInv'
      BY <1>0, <2>1 DEF ProgressInv, AskInv, Asking
    <2>6. QED BY <1>1, <2>4, <2>5 DEF TurnInv
  <1>6. CASE ReadGarbage
    BY <1>0, <1>3, <1>6 DEF ReadGarbage, ReadInv
  <1>7. CASE ReadThrow
    <2>1. ReceiveMayFail
      BY <1>0, <1>3, <1>7 DEF ReadThrow, ReadInv
    <2>2. srv = "ended" /\ s2c = <<>>
      BY <1>0, <2>1
    <2>3. pc' = "idle" /\ outcome' = "threw" /\ s2c' = s2c
      BY <1>7, <2>2 DEF ReadThrow, Finish, netVars
    <2>4. ProgressInv' /\ AskInv' /\ ReadInv'
      BY <1>0, <2>2, <2>3 DEF ProgressInv, AskInv, ReadInv, Asking, Returned
    <2>5. QED BY <1>1, <2>4 DEF TurnInv
  <1>8. QED BY <1>4, <1>5, <1>6, <1>7

-----------------------------------------------------------------------------
(* The steps of run() itself *)

\* The wire, the server and the buffers stay as they are.
Still == UNCHANGED <<c2s, s2c, srv, request_, established, cursors, executed>>

LEMMA RunCalled ==
    ASSUME DropInv, Run
    PROVE  TurnInv' /\ AnswerInv'
  <1> USE Where
  <1>0. /\ phase = "idle" /\ phase' = "connect" /\ responses' = <<>> /\ Still
        /\ TurnInv /\ AnswerInv
        /\ \/ established /\ pc' = "idle"
           \/ ~established /\ pc' = "dial"
    BY DEF Run, Connect, ConnectAgain, Finish, is_connected, Still, netVars, serverVars,
           DropInv, CallInv
  <1>1. RestInv'
    BY <1>0 DEF TurnInv, RestInv, Resting, Still, AllGreeting
  <1>2. ProgressInv' /\ AskInv' /\ ReadInv'
    BY <1>0 DEF ProgressInv, AskInv, ReadInv, Asking, Returned, Still
  <1>3. AnswerInv'
    BY <1>0 DEF AnswerInv
  <1>4. QED BY <1>1, <1>2, <1>3 DEF TurnInv

LEMMA QueryWritten ==
    ASSUME DropInv, NEW q \in Query, WriteQuery(q), phase' = "write", established, s2c = <<>>,
           UNCHANGED <<run, responses, result, serverVars>>,
           srv = "serving" =>
              /\ request_ = <<>> /\ AllGreeting(c2s)
              /\ c2s = <<>> => (q = CurrentQuery)' /\
                    (cursors = IF responses = <<>> THEN {} ELSE {Cursor(Len(responses) + 1)})'
    PROVE  TurnInv'
  <1>0. /\ pc' = "send" /\ UNCHANGED <<s2c, srv, c2s, established>>
        /\ request_' = request_ \o QueryFrame(q)
        /\ c2s \in Seq(ClientChunk)
        /\ QueryFrame(q) \in Seq(ClientChunk)
    BY ChunkTypes DEF WriteQuery, netVars, DropInv, IInv, TypeOK, NetTypeOK
  <1>1. ASSUME srv = "serving" PROVE Asked'
    <2>1. CASE c2s = <<>>
      <3>1. Wire' = QueryFrame(q)
        BY <1>0, <1>1, <2>1, ConcatEmptySeq DEF Wire
      <3>2. QED BY <1>1, <2>1, <3>1 DEF Asked
    <2>2. CASE c2s # <<>>
      <3>1. c2s[1] \in Greeting
        BY <1>0, <1>1, <2>2 DEF AllGreeting
      <3>2. QED BY <1>0, <2>2, <3>1 DEF Asked, Greeting
    <2>3. QED BY <2>1, <2>2
  <1>2. AskInv'
    BY <1>0, <1>1 DEF AskInv
  <1>3. ProgressInv' /\ RestInv' /\ ReadInv'
    BY <1>0 DEF ProgressInv, RestInv, ReadInv, Resting, Returned
  <1>4. QED BY <1>2, <1>3 DEF TurnInv
LEMMA QueryStarted ==
    ASSUME DropInv, Start
    PROVE  TurnInv' /\ AnswerInv'
  <1>1. PICK t \in Token : token' = t /\ WriteQuery(StartQuery(t, run))
    BY DEF Start
  <1>2. /\ phase = "connect" /\ Returned /\ phase' = "write" /\ run \in Runs
        /\ UNCHANGED <<run, responses, result, serverVars>>
        /\ TurnInv /\ AnswerInv
    BY DEF Start, DropInv, CallInv, DriverInv, PhaseInv
  <1>3. established /\ responses = <<>>
    BY <1>2 DEF TurnInv, ProgressInv, AnswerInv
  <1>4. /\ s2c = <<>>
        /\ srv = "serving" => request_ = <<>> /\ AllGreeting(c2s) /\ cursors = {}
    BY <1>2, <1>3 DEF TurnInv, RestInv, Resting
  <1>5. (StartQuery(t, run) = CurrentQuery)' /\ StartQuery(t, run)' = StartQuery(t, run)
    BY <1>1, <1>2, <1>3 DEF CurrentQuery, StartQuery
  <1>6. TurnInv'
    BY <1>1, <1>2, <1>3, <1>4, <1>5, QueryWritten, Protobufs DEF serverVars
  <1>7. AnswerInv'
    BY <1>2, <1>3 DEF AnswerInv
  <1>8. QED BY <1>6, <1>7

LEMMA QueryContinued ==
    ASSUME DropInv, Continue
    PROVE  TurnInv' /\ AnswerInv'
  <1>1. /\ phase = "more" /\ phase' = "write" /\ WriteQuery(ContinueQuery(token))
        /\ UNCHANGED <<run, token, responses, result, serverVars>>
        /\ TurnInv /\ AnswerInv /\ ContinueQuery(token) \in Query
    BY Protobufs DEF Continue, DropInv, CallInv, DriverInv, DriverTypeOK
  <1>2. established /\ responses # <<>>
    BY <1>1 DEF TurnInv, ProgressInv, AnswerInv
  <1>3. /\ s2c = <<>>
        /\ srv = "serving" =>
              /\ request_ = <<>> /\ AllGreeting(c2s)
              /\ cursors = {Cursor(Len(responses) + 1)}
    BY <1>1, <1>2 DEF TurnInv, RestInv, Resting
  <1>4. (ContinueQuery(token) = CurrentQuery)' /\ ContinueQuery(token)' = ContinueQuery(token)
    BY <1>1, <1>2 DEF CurrentQuery, ContinueQuery
  <1>5. cursors' = cursors /\ (Cursor(Len(responses) + 1))' = Cursor(Len(responses) + 1)
    BY <1>1 DEF serverVars, Cursor
  <1>6. TurnInv'
    BY <1>1, <1>2, <1>3, <1>4, <1>5, QueryWritten
  <1>7. AnswerInv'
    BY <1>1, <1>2 DEF AnswerInv, serverVars
  <1>8. QED BY <1>6, <1>7

LEMMA ReadBegun ==
    ASSUME DropInv, Read
    PROVE  TurnInv' /\ AnswerInv'
  <1>1. /\ phase = "write" /\ phase' = "read" /\ pc' = "read_len" /\ Returned
        /\ UNCHANGED <<run, token, responses, result>> /\ Still
        /\ TurnInv /\ AnswerInv
    BY DEF Read, ReadResponse, Still, netVars, serverVars, DropInv, CallInv
  <1>2. AskInv'
    BY <1>1 DEF TurnInv, AskInv, Asking, Asked, RightAnswer, Cursor, CurrentQuery,
                Wire, Still
  <1>3. ProgressInv' /\ RestInv' /\ ReadInv'
    BY <1>1 DEF TurnInv, ProgressInv, RestInv, Resting, ReadInv, Returned, Still
  <1>4. AnswerInv'
    BY <1>1 DEF AnswerInv, Still
  <1>5. QED BY <1>2, <1>3, <1>4 DEF TurnInv

\* The response run() has read is the next part of the answer.
LEMMA ReplyIsRight ==
    ASSUME DropInv, phase = "read", Returned
    PROVE  /\ Wire = <<>> /\ c2s = <<>> /\ request_ = <<>> /\ s2c = <<>>
           /\ RightAnswer(reply) /\ TypesOf(reply) = {reply.type}
           /\ established /\ pc = "idle"
           /\ reply.type \in Types \ {"CLIENT_ERROR"}
           /\ responses \in Seq(Response \cup {Garbled}) /\ reply \in Response
  <1>1. Wire = <<>> /\ s2c = <<>> /\ RightAnswer(reply) /\ established
    BY Where DEF DropInv, CallInv, TurnInv, ReadInv
  <1>2. c2s = <<>> /\ request_ = <<>>
    BY <1>1, EmptyWire DEF DropInv, IInv
  <1>3. reply \in Response /\ reply # Garbled
    BY <1>1, ConnectionAssumption DEF RightAnswer
  <1>4. reply.type \in Types \ {"CLIENT_ERROR"}
    BY <1>1, <1>3, DriverAssumption DEF RightAnswer
  <1>5. QED BY <1>1, <1>2, <1>3, <1>4
            DEF TypesOf, Returned, DropInv, DriverInv, DriverTypeOK

LEMMA ResponsePushed ==
    ASSUME DropInv, Push
    PROVE  TurnInv' /\ AnswerInv'
  <1>1. /\ phase = "read" /\ Returned /\ responses' = Append(responses, reply)
        /\ UNCHANGED <<vars, run, token, result, serverVars>>
        /\ AnswerInv
    BY DEF Push, DropInv, CallInv
  <1>2. /\ c2s = <<>> /\ request_ = <<>> /\ s2c = <<>> /\ RightAnswer(reply)
        /\ TypesOf(reply) = {reply.type} /\ established /\ pc = "idle"
        /\ responses \in Seq(Response \cup {Garbled}) /\ reply \in Response
    BY <1>1, ReplyIsRight
  <1>3. /\ reply.type \notin Failures
        /\ phase' = IF reply.type = "SUCCESS_PARTIAL" THEN "more" ELSE "done"
    BY <1>2 DEF Push
  <1>4. /\ Len(responses') = Len(responses) + 1 /\ Len(responses) \in Nat
        /\ \A i \in 1 .. Len(responses) : responses'[i] = responses[i]
        /\ responses'[Len(responses')] = reply
        /\ responses' # <<>>
    BY <1>1, <1>2
  <1>5. Still
    BY <1>1 DEF Still, vars, netVars, clientVars, serverVars
  <1>6. RestInv'
    <2>1. srv = "serving" =>
             cursors = IF reply.type = "SUCCESS_PARTIAL" THEN {Cursor(reply.part + 1)} ELSE {}
      BY <1>2 DEF RightAnswer
    <2>2. reply.part = Len(responses) + 1
      BY <1>2 DEF RightAnswer
    <2>3. \A i : Cursor(i)' = Cursor(i)
      BY <1>1 DEF Cursor
    <2>4. QED BY <1>2, <1>3, <1>4, <1>5, <2>1, <2>2, <2>3
              DEF RestInv, Still, AllGreeting
  <1>7. ProgressInv' /\ AskInv' /\ ReadInv'
    BY <1>1, <1>2, <1>3, <1>5
    DEF ProgressInv, AskInv, Asking, ReadInv, Returned, Still, vars, clientVars
  <1>8. AnswerInv'
    <2>1. /\ reply \in Response /\ reply.term = run /\ reply.part = Len(responses')
          /\ executed[run] = 1
      BY <1>2, <1>4 DEF RightAnswer
    <2>2. \A i \in 1 .. Len(responses) : responses[i].type = "SUCCESS_PARTIAL"
      BY <1>1, <1>4 DEF AnswerInv
    <2>3. \A i \in 1 .. Len(responses') : i \in 1 .. Len(responses) \/ i = Len(responses')
      BY <1>4
    <2>4. ASSUME NEW i \in 1 .. Len(responses')
          PROVE  /\ responses'[i] \in Response
                 /\ responses'[i].term = run
                 /\ responses'[i].part = i
                 /\ responses'[i].type \notin Failures
                 /\ i < Len(responses') => responses'[i].type = "SUCCESS_PARTIAL"
      BY <1>1, <1>3, <1>4, <2>1, <2>2, <2>3 DEF AnswerInv
    <2>5. QED BY <1>1, <1>3, <1>4, <1>5, <2>1, <2>4 DEF AnswerInv, Still
  <1>9. QED BY <1>6, <1>7, <1>8 DEF TurnInv

LEMMA RunReturned ==
    ASSUME DropInv, Return
    PROVE  TurnInv' /\ AnswerInv'
  <1>1. /\ phase = "done" /\ phase' = "idle" /\ established
        /\ UNCHANGED <<vars, run, token, responses, serverVars>> /\ TurnInv /\ AnswerInv
    BY Where DEF Return, DropInv, CallInv
  <1>2. Still /\ pc' = pc /\ pc = "idle"
    BY <1>1 DEF Still, vars, netVars, clientVars, serverVars, DropInv, DriverInv, PhaseInv
  <1>3. RestInv'
    BY <1>1, <1>2 DEF TurnInv, RestInv, Resting, Still, AllGreeting
  <1>4. ProgressInv' /\ AskInv' /\ ReadInv'
    BY <1>1, <1>2 DEF ProgressInv, AskInv, Asking, ReadInv
  <1>5. AnswerInv'
    BY <1>1, <1>2 DEF AnswerInv, Still
  <1>6. QED BY <1>3, <1>4, <1>5 DEF TurnInv

LEMMA RunThrown ==
    ASSUME DropInv, RunThrow
    PROVE  TurnInv' /\ AnswerInv'
  <1>1. /\ phase' = "idle" /\ responses' = <<>> /\ pc' = pc /\ pc = "idle" /\ Still
        /\ UNCHANGED <<run, token>> /\ TurnInv
    BY DEF RunThrow, Returned, DropInv, CallInv, vars, netVars, clientVars, serverVars, Still
  <1>2. result' # "ok"
    <2>1. \A ty \in Failures : Exception[ty] # "ok"
      BY DEF Failures, Exception
    <2>2. QED BY <2>1 DEF RunThrow
  <1>3. ASSUME outcome = "threw" PROVE RestInv'
    <2>1. phase \in {"connect", "write", "read"}
      BY <1>3 DEF RunThrow
    <2>2. CASE phase = "connect"
      BY <1>1, <2>2 DEF TurnInv, RestInv, Resting, Still, AllGreeting
    <2>3. CASE phase # "connect"
      <3>1. srv = "ended" /\ s2c = <<>>
        BY <1>1, <1>3, <2>1, <2>3 DEF TurnInv, ProgressInv
      <3>2. QED BY <1>1, <3>1 DEF RestInv, Still
    <2>4. QED BY <2>2, <2>3 DEF RestInv
  <1>4. ASSUME outcome # "threw" PROVE RestInv'
    <2>1. /\ phase = "read" /\ Returned
          /\ \E ty \in TypesOf(reply) \cap Failures : result' = Exception[ty]
      BY <1>4 DEF RunThrow
    <2>2. /\ c2s = <<>> /\ request_ = <<>> /\ s2c = <<>> /\ RightAnswer(reply)
          /\ TypesOf(reply) = {reply.type}
      BY <2>1, ReplyIsRight
    <2>3. reply.type # "SUCCESS_PARTIAL"
      BY <2>1, <2>2 DEF Failures
    <2>4. srv = "serving" => cursors = {}
      BY <2>2, <2>3 DEF RightAnswer
    <2>5. QED BY <1>1, <2>2, <2>4 DEF RestInv, Still, AllGreeting
  <1>5. RestInv'
    BY <1>3, <1>4
  <1>6. ProgressInv' /\ AskInv' /\ ReadInv'
    BY <1>1 DEF ProgressInv, AskInv, Asking, ReadInv
  <1>7. AnswerInv'
    BY <1>1, <1>2 DEF AnswerInv
  <1>8. QED BY <1>5, <1>6, <1>7 DEF TurnInv

-----------------------------------------------------------------------------
(* The steps of the caller, of the network and of the server *)

LEMMA CallerStep ==
    ASSUME DropInv, ConnectAgain \/ Connect \/ Close, phase = "idle",
           UNCHANGED <<runVars, cursors, executed>>
    PROVE  TurnInv' /\ AnswerInv'
  <1>1. TurnInv /\ AnswerInv /\ phase' = "idle" /\ RunSame
    BY DEF DropInv, CallInv, runVars, RunSame
  <1>2. pc' # "read_blob"
    BY DEF ConnectAgain, Connect, Close, Finish
  <1>3. RestInv'
    <2>1. CASE ConnectAgain \/ Connect
      <3>1. UNCHANGED <<c2s, s2c, srv, request_, established>>
        BY <2>1 DEF ConnectAgain, Connect, netVars
      <3>2. QED BY <1>1, <3>1 DEF TurnInv, RestInv, Resting, AllGreeting, RunSame
    <2>2. CASE Close
      BY <2>2 DEF Close, RestInv
    <2>3. QED BY <2>1, <2>2
  <1>4. ProgressInv' /\ AskInv' /\ ReadInv'
    BY <1>1, <1>2 DEF ProgressInv, AskInv, Asking, ReadInv
  <1>5. QED BY <1>1, <1>3, <1>4, AnswerSame DEF TurnInv

\* The end of the TCP connection finds nobody waiting for more than it.
LEMMA TurnEnded ==
    ASSUME DropInv, RunSame, UNCHANGED clientVars, srv' = "ended", c2s' = <<>>,
           s2c' = s2c \/ s2c' = <<>>
    PROVE  TurnInv'
  <1>1. /\ TurnInv /\ TypeOK /\ UNCHANGED <<pc, outcome, request_, established, length, reply>>
        /\ UNCHANGED <<run, phase, token, responses, cursors, executed>>
    BY DEF DropInv, CallInv, IInv, clientVars, RunSame
  <1>2. Wire = <<>> => Wire' = <<>>
    <2>1. ASSUME Wire = <<>> PROVE Wire' = <<>>
      <3>1. c2s = <<>> /\ request_ = <<>>
        BY <1>1, <2>1, EmptyWire
      <3>2. QED BY <1>1, <2>1, <3>1 DEF Wire
    <2>2. QED BY <2>1
  <1>3. \A r : RightAnswer(r) => RightAnswer(r)'
    BY <1>1 DEF RightAnswer
  <1>4. ProgressInv' /\ RestInv'
    BY <1>1 DEF TurnInv, ProgressInv, RestInv, Returned, Resting
  <1>5. AskInv'
    <2>1. CASE s2c' = <<>>
      BY <2>1 DEF AskInv
    <2>2. CASE s2c' = s2c
      BY <1>1, <1>2, <1>3, <2>2 DEF TurnInv, AskInv, Asking
    <2>3. QED BY <2>1, <2>2
  <1>6. ReadInv'
    BY <1>1, <1>2, <1>3 DEF TurnInv, ReadInv, Returned
  <1>7. QED BY <1>4, <1>5, <1>6 DEF TurnInv

\* A handshake goes on only while nothing has been asked.
LEMMA TurnHandshake ==
    ASSUME DropInv, Handshake, UNCHANGED <<clientVars, runVars>>
    PROVE  TurnInv'
  <1>1. ~established /\ phase \in {"idle", "connect"} /\ pc # "read_blob"
    BY Where DEF Handshake, TakeMagic, Accept, Refuse, DropInv, DriverInv, DriverTypeOK
  <1>2. /\ TurnInv /\ phase' = phase /\ pc' = pc /\ established' = established
        /\ outcome' = outcome
    BY DEF DropInv, CallInv, clientVars, runVars
  <1>3. QED
    BY <1>1, <1>2 DEF TurnInv, ProgressInv, RestInv, AskInv, Asking, ReadInv, Returned

\* The server reads a query: it is that of run(), all of it, and run() waits.
LEMMA ServedIsAsked ==
    ASSUME DropInv, NEW q, NEW r, Serve(q, r)
    PROVE  /\ established /\ Asking /\ s2c = <<>> /\ q = CurrentQuery
           /\ cursors = IF responses = <<>> THEN {} ELSE {Cursor(Len(responses) + 1)}
           /\ request_ = <<>> /\ c2s' = <<>>
           /\ pc # "read_blob" /\ ~(phase = "read" /\ Returned)
           /\ s2c' = ResponseFrame(r)
  <1>0. /\ TypeOK /\ WireInv /\ TurnInv /\ PhaseInv /\ DriverTypeOK
        /\ srv = "serving" /\ Len(c2s) >= 2
        /\ c2s[1] = Chunk("qlen", q) /\ c2s \in Seq(ClientChunk)
        /\ c2s' = SubSeq(c2s, 3, Len(c2s)) /\ s2c' = s2c \o ResponseFrame(r)
    BY DEF Serve, DropInv, CallInv, IInv, DriverInv, TypeOK, NetTypeOK
  <1>1. c2s[1] \notin Greeting /\ c2s # <<>>
    BY <1>0, Frames
  <1>2. established
    <2>1. Wire[1] = c2s[1] /\ 1 \in 1 .. Len(Wire)
      BY <1>0, WireChunks
    <2>2. QED BY <1>0, <1>1, <2>1 DEF WireInv, AllGreeting
  <1>3. Wire # <<>>
    BY <1>0, <1>1, EmptyWire
  <1>4. pc # "read_blob" /\ ~(phase = "read" /\ Returned)
    BY <1>0, <1>3 DEF TurnInv, ReadInv
  <1>5. Asking
    <2>1. ~Resting
      BY <1>0, <1>1, <1>2 DEF TurnInv, RestInv, AllGreeting
    <2>2. CASE phase = "write"
      BY <2>2 DEF Asking
    <2>3. CASE phase = "read"
      <3>1. pc \in {"read_len", "idle"}
        BY <1>0, <1>4, <2>3 DEF PhaseInv
      <3>2. pc # "idle"
        BY <1>0, <1>4, <2>3 DEF TurnInv, ProgressInv, Returned
      <3>3. QED BY <2>3, <3>1, <3>2 DEF Asking
    <2>4. QED BY <1>0, <2>1, <2>2, <2>3 DEF Resting, DriverTypeOK
  <1>6. /\ s2c = <<>> /\ Wire = QueryFrame(CurrentQuery)
        /\ cursors = IF responses = <<>> THEN {} ELSE {Cursor(Len(responses) + 1)}
    BY <1>0, <1>1, <1>3, <1>5 DEF TurnInv, AskInv, Asked
  <1>7. c2s = QueryFrame(CurrentQuery) /\ request_ = <<>>
    BY <1>0, <1>6, WholeQuery
  <1>8. q = CurrentQuery
    BY <1>0, <1>7, Frames
  <1>9. c2s' = <<>>
    BY <1>0, <1>7, Frames, SubSeqEmpty
  <1>10. s2c' = ResponseFrame(r)
    <2>1. \A f \in Seq({Chunk("rlen", r), Chunk("rblob", r)}) : <<>> \o f = f
      BY ConcatEmptySeq
    <2>2. ResponseFrame(r) \in Seq({Chunk("rlen", r), Chunk("rblob", r)})
      BY DEF ResponseFrame
    <2>3. QED BY <1>0, <1>6, <2>1, <2>2
  <1>11. QED BY <1>2, <1>4, <1>5, <1>6, <1>7, <1>8, <1>9, <1>10

LEMMA TurnServed ==
    ASSUME DropInv, NEW q, NEW r \in Response, Serve(q, r), RightAnswer(r)',
           UNCHANGED <<clientVars, runVars>>
    PROVE  TurnInv'
  <1>1. /\ established /\ Asking /\ request_ = <<>> /\ c2s' = <<>>
        /\ pc # "read_blob" /\ ~(phase = "read" /\ Returned)
        /\ s2c' = ResponseFrame(r) /\ srv = "serving" /\ srv' = "serving" /\ TurnInv
    BY ServedIsAsked DEF Serve, DropInv, CallInv
  <1>2. UNCHANGED <<phase, pc, outcome, established, request_, run, responses>>
    BY DEF clientVars, runVars
  <1>3. Wire' = <<>>
    BY <1>1, <1>2 DEF Wire
  <1>4. AskInv'
    BY <1>1, <1>3 DEF AskInv
  <1>5. RestInv'
    BY <1>1, <1>2 DEF RestInv, Resting, Asking
  <1>6. ProgressInv' /\ ReadInv'
    BY <1>1, <1>2 DEF TurnInv, ProgressInv, ReadInv, Returned
  <1>7. QED BY <1>4, <1>5, <1>6 DEF TurnInv

\* A START that is read is that of the current run(): its first answer is right.
LEMMA StartServed ==
    ASSUME DropInv, NEW t \in Token, NEW n \in Runs, ServeStart(t, n),
           UNCHANGED <<clientVars, runVars>>
    PROVE  TurnInv' /\ AnswerInv'
  <1>1. \E r : Serve(StartQuery(t, n), r)
    BY DEF ServeStart
  <1>2. /\ StartQuery(t, n) = CurrentQuery
        /\ cursors = IF responses = <<>> THEN {} ELSE {Cursor(Len(responses) + 1)}
    BY <1>1, ServedIsAsked
  <1>3. responses = <<>> /\ t = token /\ n = run /\ cursors = {}
    BY <1>2, Queries DEF CurrentQuery
  <1>4. PICK ty \in Types \ {"CLIENT_ERROR"} :
           /\ ty = "SUCCESS_PARTIAL" => MaxBatches > 1
           /\ Serve(StartQuery(t, n), Answer(ty, t, n, 1))
           /\ cursors' = IF ty = "SUCCESS_PARTIAL"
                         THEN cursors \cup {[token |-> t, term |-> n, next |-> 2]}
                         ELSE cursors
    BY <1>3 DEF ServeStart, Open
  <1>5. executed' = [executed EXCEPT ![n] = @ + 1]
    BY <1>3 DEF ServeStart, Open
  <1>6. executed[n] = 0 /\ executed \in [Runs -> Nat]
    <2>1. 2 \in 1 .. Len(Wire) /\ Wire[2] = Chunk("qblob", StartQuery(t, n))
      BY <1>4, WireChunks DEF Serve, DropInv, IInv, TypeOK, NetTypeOK
    <2>2. 2 \in Copies(n)
      BY <2>1, StartsDiffer DEF Copies
    <2>3. QED BY <2>2 DEF DropInv, OnceInv, DriverInv, DriverTypeOK
  <1>7. executed'[n] = 1
    BY <1>5, <1>6
  <1>8. UNCHANGED <<run, phase, token, responses, result>>
    BY DEF runVars
  <1> DEFINE r == Answer(ty, t, n, 1)
  <1>9. /\ r \in Response /\ r.type = ty /\ r.term = n /\ r.part = 1
    BY Protobufs DEF Answer
  <1> HIDE DEF r
  <1>10. RightAnswer(r)'
    <2>1. Len(responses) + 1 = 1
      BY <1>3
    <2>2. cursors' = IF ty = "SUCCESS_PARTIAL" THEN {Cursor(1 + 1)'} ELSE {}
      BY <1>3, <1>4, <1>8 DEF Cursor
    <2>3. r' = r
      BY DEF r, Answer
    <2>4. QED BY <1>3, <1>4, <1>7, <1>8, <1>9, <2>1, <2>2, <2>3 DEF RightAnswer
  <1>11. TurnInv'
    BY <1>4, <1>9, <1>10, TurnServed DEF r
  <1>12. AnswerInv'
    BY <1>3, <1>8 DEF AnswerInv, DropInv, CallInv
  <1>13. QED BY <1>11, <1>12

\* A CONTINUE that is read asks for the next batch of the current run().
LEMMA ContinueServed ==
    ASSUME DropInv, NEW t \in Token, ServeContinue(t), UNCHANGED <<clientVars, runVars>>
    PROVE  TurnInv' /\ AnswerInv'
  <1>1. \E r : Serve(ContinueQuery(t), r)
    BY DEF ServeContinue
  <1>2. /\ ContinueQuery(t) = CurrentQuery
        /\ cursors = IF responses = <<>> THEN {} ELSE {Cursor(Len(responses) + 1)}
    BY <1>1, ServedIsAsked
  <1>3. responses # <<>> /\ t = token /\ cursors = {Cursor(Len(responses) + 1)}
    BY <1>2, Queries DEF CurrentQuery
  <1>4. /\ executed[run] = 1 /\ AnswerInv /\ run \in Runs
        /\ UNCHANGED <<run, phase, token, responses, result, executed>>
        /\ cursors \subseteq [token : Token, term : Runs, next : Parts]
    <2>1. phase # "idle"
      BY <1>1, ServedIsAsked DEF Asking
    <2>2. QED BY <1>3, <2>1 DEF ServeContinue, DropInv, CallInv, AnswerInv, runVars,
                               DriverInv, DriverTypeOK, PhaseInv
  <1>5. PICK n \in Runs, i \in Parts : n = run /\ i = Len(responses) + 1
    BY <1>3, <1>4 DEF Cursor
  <1> DEFINE c == [token |-> t, term |-> n, next |-> i]
  <1>6. cursors = {c} /\ Open(t) = {c}
    BY <1>3, <1>5 DEF Cursor, Open
  <1>7. PICK ty \in {"SUCCESS_PARTIAL", "SUCCESS_SEQUENCE", "RUNTIME_ERROR"} :
           /\ Serve(ContinueQuery(t), Answer(ty, t, n, i))
           /\ cursors' = IF ty = "SUCCESS_PARTIAL"
                         THEN (cursors \ {c}) \cup {[c EXCEPT !.next = @ + 1]}
                         ELSE cursors \ {c}
    BY <1>6 DEF ServeContinue
  <1>8. cursors' = IF ty = "SUCCESS_PARTIAL"
                   THEN {[token |-> t, term |-> n, next |-> i + 1]} ELSE {}
    <2>1. [c EXCEPT !.next = @ + 1] = [token |-> t, term |-> n, next |-> i + 1]
      OBVIOUS
    <2> HIDE DEF c
    <2>2. QED BY <1>6, <1>7, <2>1
  <1> DEFINE r == Answer(ty, t, n, i)
  <1>9. r \in Response /\ r.type = ty /\ r.term = n /\ r.part = i
    BY Protobufs DEF Answer, Types, Failures
  <1> HIDE DEF r
  <1>10. RightAnswer(r)'
    <2>1. r' = r
      BY DEF r, Answer
    <2>2. QED BY <1>3, <1>4, <1>5, <1>8, <1>9, <2>1 DEF RightAnswer, Cursor
  <1>11. TurnInv'
    BY <1>7, <1>9, <1>10, TurnServed DEF r
  <1>12. AnswerInv'
    BY <1>4 DEF AnswerInv
  <1>13. QED BY <1>11, <1>12

\* The late query of another run disturbs nobody.
LEMMA OrphanServed ==
    ASSUME DropInv, NEW n \in Runs, ServeOrphan(n)
    PROVE  TurnInv' /\ AnswerInv'
  <1>1. /\ executed[n] = 0 /\ executed \in [Runs -> Nat]
        /\ executed' = [executed EXCEPT ![n] = @ + 1]
    BY DEF ServeOrphan, DropInv, OnceInv, DriverInv, DriverTypeOK
  <1>2. executed[run] = 1 => executed'[run] = 1
    BY <1>1
  <1>3. /\ UNCHANGED <<run, phase, token, responses, result, cursors>>
        /\ UNCHANGED <<c2s, s2c, srv, request_, established, pc, outcome, length, reply>>
        /\ TurnInv /\ AnswerInv
    BY DEF ServeOrphan, DropInv, CallInv, runVars, vars, netVars, clientVars
  <1>4. \A r : RightAnswer(r) => RightAnswer(r)'
    BY <1>2, <1>3 DEF RightAnswer, Cursor
  <1>5. Wire' = Wire /\ (Asked => Asked')
    BY <1>3 DEF Wire, Asked, CurrentQuery, Cursor
  <1>6. ProgressInv' /\ RestInv'
    BY <1>3 DEF TurnInv, ProgressInv, RestInv, Resting, Returned, AllGreeting, Cursor
  <1>7. AskInv' /\ ReadInv'
    BY <1>3, <1>4, <1>5 DEF TurnInv, AskInv, Asking, ReadInv, Returned
  <1>8. AnswerInv'
    BY <1>2, <1>3 DEF AnswerInv
  <1>9. QED BY <1>6, <1>7, <1>8 DEF TurnInv

-----------------------------------------------------------------------------
(* The inductive step *)

\* A step inside a call of the connection.
LEMMA StepKeeps ==
    ASSUME OnlyDrops, DropInv, IInv', Step, RunSame
    PROVE  CallInv'
  <1>1. cursors' = cursors /\ AnswerInv'
    BY AnswerSame DEF RunSame, DropInv, CallInv
  <1>2. CASE pc \in Connecting
    <2>1. TurnInv'
      BY <1>2, TurnConnect
    <2>2. WireInv'
      BY <1>1, <1>2, WireConnect, WireSend
      DEF Step, Connecting, ReadLength, ReadBlob, ReadGarbage, ReadThrow
    <2>3. QED BY <1>1, <2>1, <2>2 DEF CallInv
  <1>3. CASE pc = "send"
    <2>1. WriteSome \/ WriteDone \/ WriteThrow
      BY <1>3 DEF Step, OpenSocket, OpenThrow, ReadUntil, ReadUntilThrow, Judge,
                  ReadLength, ReadBlob, ReadGarbage, ReadThrow
    <2>2. QED BY <1>1, <1>3, <2>1, TurnSend, WireSend DEF CallInv
  <1>4. CASE pc \in {"read_len", "read_blob"}
    <2>1. ReadLength \/ ReadBlob \/ ReadGarbage \/ ReadThrow
      BY <1>4 DEF Step, OpenSocket, OpenThrow, ReadUntil, ReadUntilThrow, Judge,
                  WriteSome, WriteDone, WriteThrow
    <2>2. UNCHANGED <<c2s, srv, request_, response_, established>> /\ pc' # "await"
      BY <2>1 DEF ReadLength, ReadBlob, ReadGarbage, ReadThrow, Receive, Finish, netVars
    <2>3. QED BY <1>1, <1>4, <2>1, <2>2, TurnRead, WireRead DEF CallInv
  <1>5. pc \in Connecting \cup {"send", "read_len", "read_blob"}
    BY DEF Step, Connecting, OpenSocket, OpenThrow, WriteSome, WriteDone, WriteThrow,
           ReadUntil, ReadUntilThrow, Judge, ReadLength, ReadBlob, ReadGarbage, ReadThrow
  <1>6. QED BY <1>2, <1>3, <1>4, <1>5

\* A step of run() between two calls of the connection.
LEMMA RunKeeps ==
    ASSUME DropInv, Run \/ Start \/ Read \/ Push \/ Continue \/ Return \/ RunThrow
    PROVE  CallInv'
  <1>1. WireInv
    BY DEF DropInv, CallInv
  <1>2. CASE Run
    <2>1. WireInv'
      BY <1>1, <1>2, WireQuiet DEF Run, Connect, ConnectAgain, Finish, netVars, serverVars
    <2>2. QED BY <1>2, <2>1, RunCalled DEF CallInv
  <1>3. CASE Start
    <2>1. established /\ run \in Runs
      BY <1>3 DEF Start, DropInv, CallInv, TurnInv, ProgressInv, DriverInv, PhaseInv
    <2>2. PICK t \in Token : WriteQuery(StartQuery(t, run))
      BY <1>3 DEF Start
    <2>3. PICK q \in Query : q = StartQuery(t, run)
      BY <2>1, Protobufs
    <2>4. cursors' = cursors
      BY <1>3 DEF Start, serverVars
    <2>5. WireInv'
      BY <2>1, <2>2, <2>3, <2>4, WireQuery
    <2>6. QED BY <1>3, <2>5, QueryStarted DEF CallInv
  <1>4. CASE Continue
    <2>1. established /\ token \in Token
      BY <1>4, Where DEF Continue, DropInv, DriverInv, DriverTypeOK
    <2>2. PICK q \in Query : q = ContinueQuery(token)
      BY <2>1, Protobufs
    <2>3. WriteQuery(q) /\ cursors' = cursors
      BY <1>4, <2>2 DEF Continue, serverVars
    <2>4. WireInv'
      BY <2>1, <2>3, WireQuery
    <2>5. QED BY <1>4, <2>4, QueryContinued DEF CallInv
  <1>5. CASE Read
    <2>1. WireInv'
      BY <1>1, <1>5, WireQuiet DEF Read, ReadResponse, netVars, serverVars
    <2>2. QED BY <1>5, <2>1, ReadBegun DEF CallInv
  <1>6. CASE Push \/ Return \/ RunThrow
    <2>1. WireInv'
      BY <1>1, <1>6, WireQuiet DEF Push, Return, RunThrow, vars, netVars, clientVars, serverVars
    <2>2. QED BY <1>6, <2>1, ResponsePushed, RunReturned, RunThrown DEF CallInv
  <1>7. QED BY <1>2, <1>3, <1>4, <1>5, <1>6

\* A step of the server's end.
LEMMA ServerKeeps ==
    ASSUME OnlyDrops, DropInv, IInv', RethinkDB
    PROVE  CallInv'
  <1>1. UNCHANGED <<clientVars, runVars>>
    BY DEF RethinkDB, Greet
  <1>2. CASE Greet
    <2>1. /\ Handshake
          /\ UNCHANGED <<orphans, executed>>
          /\ (accepted' /\ ~accepted => cursors' = {})
          /\ (~(accepted' /\ ~accepted) => cursors' = cursors)
      BY <1>2 DEF Greet, serverVars
    <2>2. WireInv'
      BY <1>1, <2>1, WireServer
    <2>3. TurnInv'
      BY <1>1, <2>1, TurnHandshake
    <2>4. AnswerInv'
      BY <1>1, <2>1 DEF DropInv, CallInv, AnswerInv, runVars
    <2>5. QED BY <2>2, <2>3, <2>4 DEF CallInv
  <1>3. ASSUME NEW t \in Token, NEW n \in Runs, ServeStart(t, n) PROVE CallInv'
    <2>1. \E q, r : Serve(q, r)
      BY <1>3 DEF ServeStart
    <2>2. WireInv'
      BY <1>1, <2>1, WireServer
    <2>3. QED BY <1>1, <1>3, <2>2, StartServed DEF CallInv
  <1>4. ASSUME NEW t \in Token, ServeContinue(t) PROVE CallInv'
    <2>1. \E q, r : Serve(q, r)
      BY <1>4 DEF ServeContinue
    <2>2. WireInv'
      BY <1>1, <2>1, WireServer
    <2>3. QED BY <1>1, <1>4, <2>2, ContinueServed DEF CallInv
  <1>5. QED BY <1>2, <1>3, <1>4 DEF RethinkDB

\* The inductive invariant of the driver when connections only drop.
THEOREM DropInductive ==
    ASSUME OnlyDrops
    PROVE  DropInv /\ [DriverNext]_driverVars => DropInv'
  <1> SUFFICES ASSUME DropInv, [DriverNext]_driverVars PROVE DropInv'
    OBVIOUS
  <1>1. [Next]_vars /\ DriverInv'
    BY DriverStep DEF DropInv
  <1>2. IInv'
    BY <1>1, Inductive, OnlyDropsMeans DEF DropInv
  <1>3. OnceInv'
    BY OnceInductive DEF DropInv
  <1>4. CASE Step /\ Orphan /\ UNCHANGED runVars
    <2>1. RunSame
      BY <1>4 DEF Orphan, runVars, RunSame
    <2>2. QED BY <1>1, <1>2, <1>3, <1>4, <2>1, StepKeeps DEF DropInv
  <1>5. CASE Run \/ Start \/ Read \/ Push \/ Continue \/ Return \/ RunThrow
    BY <1>1, <1>2, <1>3, <1>5, RunKeeps DEF DropInv
  <1>6. CASE Caller
    <2>1. /\ phase = "idle" /\ (ConnectAgain \/ Connect \/ Close)
          /\ UNCHANGED <<runVars, cursors, executed>>
      BY <1>6, OnlyDropsMeans DEF Caller, Orphan
    <2>2. CASE ConnectAgain \/ Connect
      <3>1. WireInv'
        BY <2>1, <2>2, WireQuiet DEF ConnectAgain, Connect, Finish, netVars, DropInv, CallInv
      <3>2. QED BY <1>1, <1>2, <1>3, <2>1, <3>1, CallerStep DEF DropInv, CallInv
    <2>3. CASE Close
      <3>1. WireInv'
        BY <1>2, <2>1, <2>3, WireConnect
      <3>2. QED BY <1>1, <1>2, <1>3, <2>1, <3>1, CallerStep DEF DropInv, CallInv
    <2>4. QED BY <2>1, <2>2, <2>3
  <1>7. CASE RethinkDB
    BY <1>1, <1>2, <1>3, <1>7, ServerKeeps DEF DropInv
  <1>8. ASSUME NEW n \in Runs, ServeOrphan(n) PROVE DropInv'
    <2>1. WireInv'
      BY <1>8, WireQuiet DEF ServeOrphan, vars, netVars, clientVars, DropInv, CallInv
    <2>2. QED BY <1>1, <1>2, <1>3, <1>8, <2>1, OrphanServed DEF DropInv, CallInv
  <1>9. CASE Break /\ Orphan /\ UNCHANGED runVars
    <2>1. Drop /\ UNCHANGED clientVars /\ RunSame /\ cursors' = cursors
      BY <1>9 DEF Break, Orphan, runVars, RunSame
    <2>2. srv' = "ended" /\ c2s' = <<>> /\ (s2c' = s2c \/ s2c' = <<>>)
      <3>1. SubSeq(s2c, 1, Len(s2c)) = s2c /\ SubSeq(s2c, 1, 0) = <<>>
        BY SubSeqFull, SubSeqEmpty DEF DropInv, IInv, TypeOK, NetTypeOK
      <3>2. QED BY <2>1, <3>1, OnlyDropsMeans DEF Drop
    <2>3. WireInv'
      BY <1>2, <2>1, WireServer
    <2>4. QED BY <1>1, <1>2, <1>3, <2>1, <2>2, <2>3, TurnEnded, AnswerSame DEF DropInv, CallInv
  <1>10. CASE UNCHANGED driverVars
    <2>1. WireInv'
      BY <1>10, WireQuiet DEF driverVars, vars, netVars, clientVars, serverVars, DropInv, CallInv
    <2>2. Wire' = Wire
      BY <1>10 DEF driverVars, vars, netVars, clientVars, Wire
    <2>3. TurnInv'
      BY <1>10, <2>2
      DEF driverVars, vars, netVars, clientVars, serverVars, runVars, DropInv, CallInv,
          TurnInv, ProgressInv, RestInv, AskInv, ReadInv, RightAnswer, Asked, Asking, Resting,
          Returned, CurrentQuery, Cursor, AllGreeting
    <2>4. AnswerInv'
      BY <1>10, AnswerSame
      DEF driverVars, vars, serverVars, runVars, RunSame, DropInv, CallInv
    <2>5. QED BY <1>1, <1>2, <1>3, <2>1, <2>3, <2>4 DEF DropInv, CallInv
  <1>11. QED
    BY <1>4, <1>5, <1>6, <1>7, <1>8, <1>9, <1>10 DEF DriverNext, Thread

-----------------------------------------------------------------------------
(* What it gives *)

\* A chunk that carries no protobuf is not of a response.
LEMMA ServerChunksOf ==
    \A c \in ServerChunk : c.of = NoMessage => c.kind \notin {"rlen", "rblob"}
  BY NetworkAssumption DEF ServerChunk, SUCCESS, ERROR, NL, NUL, Chunk

LEMMA DropInit == DriverInit => DropInv
  <1> SUFFICES ASSUME DriverInit PROVE DropInv
    OBVIOUS
  <1>1. IInv /\ DriverInv
    BY DriverInitInv, InitInv
  <1>2. /\ c2s = <<>> /\ s2c = <<>> /\ request_ = <<>> /\ response_ = <<>>
        /\ ~established /\ srv = "none" /\ pc = "idle" /\ phase = "idle"
        /\ responses = <<>> /\ result = "none"
    BY DEF DriverInit, Init, NetInit
  <1>3. OnceInv
    BY OnceInit
  <1>4. WireInv
    BY <1>2 DEF WireInv, QueriesFirst, Holds
  <1>5. TurnInv
    BY <1>2 DEF TurnInv, ProgressInv, RestInv, AskInv, Asking, ReadInv
  <1>6. AnswerInv
    BY <1>2 DEF AnswerInv
  <1>7. QED BY <1>1, <1>3, <1>4, <1>5, <1>6 DEF DropInv, CallInv

\* What a run() has returned is whole.
LEMMA Whole ==
    ASSUME DropInv, phase \in {"done", "idle"}, responses # <<>>
    PROVE  /\ executed[run] = 1
           /\ Len(responses) \in Parts
           /\ \A i \in 1 .. Len(responses) :
                 /\ responses[i] # Garbled
                 /\ responses[i].term = run
                 /\ responses[i].part = i
                 /\ responses[i].type \in Types \ Failures
                 /\ (responses[i].type = "SUCCESS_PARTIAL") <=> (i < Len(responses))
  <1>1. AnswerInv /\ responses \in Seq(Response \cup {Garbled})
    BY DEF DropInv, CallInv, DriverInv, DriverTypeOK
  <1>2. Len(responses) \in 1 .. Len(responses)
    BY <1>1
  <1>3. \A r \in Response : r # Garbled /\ r.type \in Types /\ r.part \in Parts
    BY ConnectionAssumption, DriverAssumption
  <1>4. Len(responses) \in Parts
    BY <1>1, <1>2, <1>3 DEF AnswerInv
  <1>5. responses[Len(responses)].type # "SUCCESS_PARTIAL"
    BY <1>1 DEF AnswerInv
  <1>6. ASSUME NEW i \in 1 .. Len(responses)
        PROVE  (responses[i].type = "SUCCESS_PARTIAL") <=> (i < Len(responses))
    <2>1. i < Len(responses) \/ i = Len(responses)
      BY <1>1
    <2>2. QED BY <1>1, <1>5, <2>1 DEF AnswerInv
  <1>7. QED BY <1>1, <1>3, <1>4, <1>6 DEF AnswerInv

\* When connections only drop, driver and server take turns.
THEOREM TurnsTaken ==
    ASSUME OnlyDrops
    PROVE  DriverSpec => []CallInv
  <1>1. DropInv => CallInv
    BY DEF DropInv
  <1>2. DropInv /\ [DriverNext]_driverVars => DropInv'
    BY DropInductive
  <1>3. QED BY <1>1, <1>2, DropInit, PTL DEF DriverSpec

\* What run() returns is the whole answer to its query, for any number of
\* runs, tokens and batches.
THEOREM ResultSound ==
    ASSUME OnlyDrops
    PROVE  DriverSpec => []ResultIsWholeAnswer
  <1>1. DropInv => ResultIsWholeAnswer
    BY Whole DEF ResultIsWholeAnswer
  <1>2. DropInv /\ [DriverNext]_driverVars => DropInv'
    BY DropInductive
  <1>3. QED BY <1>1, <1>2, DropInit, PTL DEF DriverSpec

\* The server never has to answer CLIENT_ERROR.
THEOREM NoClientErrorSound ==
    ASSUME OnlyDrops
    PROVE  DriverSpec => []NoClientError
  <1>1. DropInv => NoClientError
    <2> SUFFICES ASSUME DropInv, NEW i \in 1 .. Len(s2c), s2c[i].of \in Response
                 PROVE  s2c[i].of.type # "CLIENT_ERROR"
      BY DEF NoClientError
    <2>1. TurnInv /\ WireInv /\ PhaseInv /\ DriverTypeOK /\ s2c # <<>>
      BY DEF DropInv, CallInv, DriverInv, IInv, TypeOK, NetTypeOK
    <2>2. established
      BY <2>1, NetworkAssumption DEF WireInv
    <2>3. ~Resting
      BY <2>1, <2>2 DEF TurnInv, RestInv
    <2>4. Asking \/ pc = "read_blob"
      BY <2>1, <2>3
      DEF Resting, Asking, PhaseInv, DriverTypeOK, TurnInv, ProgressInv, ReadInv, Returned
    <2>5. ASSUME NEW r \in Response, RightAnswer(r),
                 s2c = ResponseFrame(r) \/ s2c = <<Chunk("rblob", r)>>
          PROVE  s2c[i].of.type # "CLIENT_ERROR"
      <3>1. s2c[i].of = r
        BY <2>5 DEF ResponseFrame, Chunk
      <3>2. QED BY <2>5, <3>1 DEF RightAnswer
    <2>6. CASE Asking
      BY <2>1, <2>5, <2>6 DEF TurnInv, AskInv
    <2>7. CASE pc = "read_blob"
      <3>1. PICK r \in Response : r = length /\ RightAnswer(r)
        BY <2>1, <2>7 DEF TurnInv, ReadInv, RightAnswer
      <3>2. s2c = <<Chunk("rblob", r)>>
        BY <2>1, <2>7, <3>1 DEF TurnInv, ReadInv
      <3>3. QED BY <2>5, <3>1, <3>2
    <2>8. QED BY <2>4, <2>6, <2>7
  <1>2. DropInv /\ [DriverNext]_driverVars => DropInv'
    BY DropInductive
  <1>3. QED BY <1>1, <1>2, DropInit, PTL DEF DriverSpec

\* Between two runs the connection is at rest.
THEOREM RestSound ==
    ASSUME OnlyDrops
    PROVE  DriverSpec => []AtRestBetweenRuns
  <1>1. DropInv => AtRestBetweenRuns
    <2> SUFFICES ASSUME DropInv, phase = "idle", pc = "idle", srv = "serving"
                 PROVE  /\ \A i \in 1 .. Len(c2s) : c2s[i].kind \notin {"qlen", "qblob"}
                        /\ \A i \in 1 .. Len(s2c) : s2c[i].kind \notin {"rlen", "rblob"}
                        /\ cursors = {}
      BY DEF AtRestBetweenRuns
    <2>1. TurnInv /\ WireInv /\ TypeOK /\ \A c \in Greeting : c.kind \notin {"qlen", "qblob"}
      BY DEF DropInv, CallInv, IInv, Greeting, MAGIC, AUTH, Chunk
    <2>2. CASE established
      BY <2>1, <2>2 DEF TurnInv, RestInv, Resting, AllGreeting
    <2>3. CASE ~established
      <3>1. AllGreeting(Wire) /\ cursors = {}
        BY <2>1, <2>3 DEF WireInv
      <3>2. \A i \in 1 .. Len(c2s) : c2s[i] \in Greeting
        BY <2>1, <3>1, WireChunks DEF AllGreeting
      <3>3. \A i \in 1 .. Len(s2c) : s2c[i].kind \notin {"rlen", "rblob"}
        BY <2>1, <2>3, ServerChunksOf DEF WireInv, TypeOK, NetTypeOK
      <3>4. QED BY <2>1, <3>1, <3>2, <3>3
    <2>4. QED BY <2>2, <2>3
  <1>2. DropInv /\ [DriverNext]_driverVars => DropInv'
    BY DropInductive
  <1>3. QED BY <1>1, <1>2, DropInit, PTL DEF DriverSpec

\* The stream is never read between two frames.
THEOREM LengthSound ==
    ASSUME OnlyDrops
    PROVE  DriverSpec => []LengthIsTrue
  <1>1. DropInv => LengthIsTrue
    BY NetworkAssumption DEF LengthIsTrue, DropInv, CallInv, TurnInv, ReadInv, RightAnswer
  <1>2. DropInv /\ [DriverNext]_driverVars => DropInv'
    BY DropInductive
  <1>3. QED BY <1>1, <1>2, DropInit, PTL DEF DriverSpec

-----------------------------------------------------------------------------
(* run() implements QueryService *)

\* The values the variables of QueryService have in the driver.
ServiceState  == IF phase = "idle" THEN result ELSE "busy"
ServiceAnswer == IF phase = "idle" /\ result = "ok"
                 THEN [i \in 1 .. Len(responses) |-> Batch(responses[i])]
                 ELSE <<>>

\* A step that leaves the caller and the queries taken up alone is a stutter.
ServiceSame == UNCHANGED <<run, ServiceState, ServiceAnswer, executed>>

LEMMA SameIsStutter == ServiceSame => UNCHANGED Service!serviceVars
  BY DEF ServiceSame, ServiceState, ServiceAnswer, Service!serviceVars

LEMMA CallRefines ==
    ASSUME DropInv, Run
    PROVE  Service!Next
  <1>1. phase = "idle" /\ phase' = "connect" /\ run < MaxRuns /\ run' = run + 1
        /\ executed' = executed /\ result # "busy"
    BY DEF Run, serverVars, DropInv, DriverInv, DriverTypeOK, Exceptions, Failures, Exception
  <1>2. Service!Call
    BY <1>1 DEF Service!Call
  <1>3. QED BY <1>2 DEF Service!Next

LEMMA ReturnRefines ==
    ASSUME DropInv, Return
    PROVE  Service!Next
  <1>1. /\ phase = "done" /\ phase' = "idle" /\ result' = "ok"
        /\ UNCHANGED <<run, responses, executed>> /\ responses # <<>>
    BY DEF Return, serverVars, DropInv, CallInv, AnswerInv
  <1> DEFINE k == Len(responses)
  <1>2. /\ executed[run] = 1 /\ k \in 1 .. MaxBatches
        /\ \A i \in 1 .. k :
              /\ responses[i].term = run
              /\ responses[i].part = i
              /\ responses[i].type \in Types \ Failures
              /\ (responses[i].type = "SUCCESS_PARTIAL") <=> (i < k)
    BY <1>1, Whole DEF Parts
  <1>3. \A i \in 1 .. k : Batch(responses[i]) = [of |-> run, part |-> i, last |-> i = k]
    <2> SUFFICES ASSUME NEW i \in 1 .. k
                 PROVE  Batch(responses[i]) = [of |-> run, part |-> i, last |-> i = k]
      OBVIOUS
    <2>1. k \in Nat
      BY <1>2
    <2> HIDE DEF k
    <2>2. responses[i].type \in {"SUCCESS_ATOM", "SUCCESS_SEQUENCE"} <=> i = k
      BY <1>2, <2>1 DEF Types
    <2>3. QED BY <1>2, <2>2 DEF Batch
  <1>4. [i \in 1 .. k |-> Batch(responses[i])] = Service!WholeAnswer(run, k)
    <2> HIDE DEF k
    <2>1. QED BY <1>3 DEF Service!WholeAnswer
  <1>5. ServiceAnswer' = [i \in 1 .. k |-> Batch(responses[i])]
    BY <1>1 DEF ServiceAnswer, Batch
  <1>6. \E j \in 1 .. MaxBatches : ServiceAnswer' = Service!WholeAnswer(run, j)
    <2> HIDE DEF k
    <2>1. QED BY <1>2, <1>4, <1>5
  <1>7. Service!Return
    BY <1>1, <1>2, <1>6 DEF Service!Return, ServiceAnswer
  <1>8. QED BY <1>7 DEF Service!Next

LEMMA ThrowRefines ==
    ASSUME DropInv, RunThrow
    PROVE  Service!Next
  <1>1. phase # "idle" /\ phase' = "idle" /\ UNCHANGED <<run, executed>>
    BY DEF RunThrow, serverVars
  <1>2. CASE result' = "connection_exception"
    <2>1. Service!ThrowConnection
      BY <1>1, <1>2 DEF Service!ThrowConnection
    <2>2. QED BY <2>1 DEF Service!Next
  <1>3. CASE result' # "connection_exception"
    <2>1. /\ phase = "read" /\ Returned
          /\ \E ty \in TypesOf(reply) \cap Failures : result' = Exception[ty]
      BY <1>3 DEF RunThrow
    <2>2. /\ RightAnswer(reply) /\ TypesOf(reply) = {reply.type}
          /\ reply.type # "CLIENT_ERROR"
      BY <2>1, ReplyIsRight
    <2>3. result' \in {"runtime_error_exception", "compile_error_exception"}
      BY <2>1, <2>2 DEF Failures, Exception
    <2>4. executed[run] = 1
      BY <2>2 DEF RightAnswer
    <2>5. Service!ThrowServerError
      BY <1>1, <2>3, <2>4 DEF Service!ThrowServerError, Service!ServerErrors
    <2>6. QED BY <2>5 DEF Service!Next
  <1>4. QED BY <1>2, <1>3

\* Every step at the server's end that takes up a query, takes it up for the
\* first time, and of a run() that has been called.
LEMMA ExecuteRefines ==
    ASSUME DropInv, UNCHANGED runVars, NEW n \in Runs,
           executed' = [executed EXCEPT ![n] = @ + 1],
           Copies(n) # {} \/ n \in orphans
    PROVE  Service!Next
  <1>1. executed[n] = 0 /\ ~(n > run) /\ executed \in [Runs -> Nat] /\ run \in 0 .. MaxRuns
    BY DEF DropInv, OnceInv, DriverInv, DriverTypeOK
  <1>2. n \in 1 .. run
    BY <1>1, DriverAssumption DEF Runs
  <1>3. executed' = [executed EXCEPT ![n] = 1]
    BY <1>1
  <1>4. UNCHANGED <<run, phase, result, responses>>
    BY DEF runVars
  <1>5. Service!Execute(n)
    BY <1>1, <1>3, <1>4 DEF Service!Execute, Batch
  <1>6. QED BY <1>2, <1>5 DEF Service!Next

\* Every step of the driver is a step of the service, or none.
THEOREM ServiceStep ==
    DropInv /\ [DriverNext]_driverVars => [Service!Next]_Service!serviceVars
  <1> SUFFICES ASSUME DropInv, [DriverNext]_driverVars
               PROVE  Service!Next \/ ServiceSame
    BY SameIsStutter
  <1> USE DEF ServiceSame, ServiceState, ServiceAnswer, Batch
  <1>1. CASE UNCHANGED runVars /\ executed' = executed
    BY <1>1 DEF runVars
  <1>2. CASE Run \/ Return \/ RunThrow
    BY <1>2, CallRefines, ReturnRefines, ThrowRefines
  <1>3. CASE Start \/ Read \/ Push \/ Continue
    BY <1>3 DEF Start, Read, Push, Continue, serverVars
  <1>4. CASE Step /\ Orphan /\ UNCHANGED runVars
    BY <1>1, <1>4 DEF Orphan
  <1>5. CASE Caller
    BY <1>1, <1>5 DEF Caller, Orphan
  <1>6. CASE RethinkDB
    <2>1. UNCHANGED runVars
      BY <1>6 DEF RethinkDB, Greet
    <2>2. CASE Greet
      BY <1>1, <2>1, <2>2 DEF Greet, serverVars
    <2>3. ASSUME NEW t \in Token, NEW n \in Runs, ServeStart(t, n), executed' # executed
          PROVE  Service!Next
      <3>1. executed' = [executed EXCEPT ![n] = @ + 1] /\ \E r : Serve(StartQuery(t, n), r)
        BY <2>3 DEF ServeStart
      <3>2. 2 \in 1 .. Len(Wire) /\ Wire[2] = Chunk("qblob", StartQuery(t, n))
        BY <3>1, WireChunks DEF Serve, DropInv, IInv, TypeOK, NetTypeOK
      <3>3. 2 \in Copies(n)
        BY <3>2, StartsDiffer DEF Copies
      <3>4. QED BY <2>1, <3>1, <3>3, ExecuteRefines
    <2>4. ASSUME NEW t \in Token, ServeContinue(t) PROVE executed' = executed
      BY <2>4 DEF ServeContinue
    <2>5. QED BY <1>1, <1>6, <2>1, <2>2, <2>3, <2>4 DEF RethinkDB
  <1>7. ASSUME NEW n \in Runs, ServeOrphan(n) PROVE Service!Next
    BY <1>7, ExecuteRefines DEF ServeOrphan
  <1>8. CASE Break /\ Orphan /\ UNCHANGED runVars
    BY <1>1, <1>8 DEF Orphan
  <1>9. CASE UNCHANGED driverVars
    BY <1>1, <1>9 DEF driverVars, serverVars
  <1>10. QED
    BY <1>2, <1>3, <1>4, <1>5, <1>6, <1>7, <1>8, <1>9 DEF DriverNext, Thread

\* When connections only drop, run() is the service its caller is promised:
\* the answer it returns is whole, and each query is taken up at most once.
THEOREM DriverImplementsService ==
    ASSUME OnlyDrops
    PROVE  DriverSpec => ImplementsService
  <1>1. DriverInit => Service!Init
    BY DEF DriverInit, Service!Init, Runs
  <1>2. DropInv /\ [DriverNext]_driverVars => DropInv'
    BY DropInductive
  <1>3. QED
    BY <1>1, <1>2, DropInit, ServiceStep, PTL DEF DriverSpec, ImplementsService, Service!Spec
=============================================================================
