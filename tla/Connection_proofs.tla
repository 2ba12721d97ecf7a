-------------------------- MODULE Connection_proofs --------------------------
(***************************************************************************)
(* Theorems about Connection, for every set of queries and responses, and  *)
(* for every choice of faults that each theorem names.                     *)
(***************************************************************************)
EXTENDS Connection, SequenceTheorems, WellFoundedInduction, TLAPS

USE DEF Chunk

\* The chunks of a handshake reply are told apart from one another and from
\* those of a response.
LEMMA ChunksDiffer ==
    /\ SUCCESS # NUL /\ SUCCESS # ERROR /\ SUCCESS # NL
    /\ NL # NUL /\ NL # ERROR /\ ERROR # NUL
    /\ \A r : Chunk("rlen", r) \notin {SUCCESS, NL, NUL, ERROR}
    /\ \A r : Chunk("rblob", r) \notin {SUCCESS, NL, NUL, ERROR}
  BY DEF SUCCESS, ERROR, NL, NUL

\* Every chunk the driver and the server write is of the kind its direction
\* carries.
LEMMA ChunkTypes ==
    /\ MAGIC \in ClientChunk /\ AUTH \in ClientChunk
    /\ SUCCESS \in ServerChunk /\ ERROR \in ServerChunk
    /\ NL \in ServerChunk /\ NUL \in ServerChunk
    /\ \A q \in Query : QueryFrame(q) \in Seq(ClientChunk)
    /\ \A r \in Response : ResponseFrame(r) \in Seq(ServerChunk)
    /\ AcceptReply \in Seq(ServerChunk)
    /\ RejectReply \in Seq(ServerChunk)
    /\ \A c \in ServerChunk : c.kind = "rlen" => c.of \in Response
  <1>1. MAGIC \in ClientChunk /\ AUTH \in ClientChunk
    BY DEF ClientChunk
  <1>2. /\ SUCCESS \in ServerChunk /\ ERROR \in ServerChunk
        /\ NL \in ServerChunk /\ NUL \in ServerChunk
    BY DEF ServerChunk
  <1>3. ASSUME NEW q \in Query PROVE QueryFrame(q) \in Seq(ClientChunk)
    <2>1. Chunk("qlen", q) \in ClientChunk /\ Chunk("qblob", q) \in ClientChunk
      BY DEF ClientChunk
    <2>2. QED BY <2>1 DEF QueryFrame
  <1>4. ASSUME NEW r \in Response PROVE ResponseFrame(r) \in Seq(ServerChunk)
    <2>1. Chunk("rlen", r) \in ServerChunk /\ Chunk("rblob", r) \in ServerChunk
      BY DEF ServerChunk
    <2>2. QED BY <2>1 DEF ResponseFrame
  <1>5. AcceptReply \in Seq(ServerChunk) /\ RejectReply \in Seq(ServerChunk)
    BY <1>2 DEF AcceptReply, RejectReply
  <1>6. ASSUME NEW c \in ServerChunk, c.kind = "rlen" PROVE c.of \in Response
    BY <1>6 DEF ServerChunk, SUCCESS, ERROR, NL, NUL
  <1>7. QED BY <1>1, <1>2, <1>3, <1>4, <1>5, <1>6

\* A suffix of a sequence, of which every cut, read and getline leaves one.
LEMMA Suffix ==
    ASSUME NEW S, NEW s \in Seq(S), NEW n \in 0 .. Len(s)
    PROVE  /\ SubSeq(s, n + 1, Len(s)) \in Seq(S)
           /\ Len(SubSeq(s, n + 1, Len(s))) = Len(s) - n
           /\ \A i \in 1 .. Len(s) - n : SubSeq(s, n + 1, Len(s))[i] = s[n + i]
  OBVIOUS

LEMMA Prefix ==
    ASSUME NEW S, NEW s \in Seq(S), NEW n \in 0 .. Len(s)
    PROVE  /\ SubSeq(s, 1, n) \in Seq(S)
           /\ Len(SubSeq(s, 1, n)) = n
           /\ \A i \in 1 .. n : SubSeq(s, 1, n)[i] = s[i]
  OBVIOUS

\* A nonempty set of natural numbers has a least one.
LEMMA LeastNumber ==
    ASSUME NEW T, T \subseteq Nat, T # {}
    PROVE  \E x \in T : \A y \in T : x <= y
  <1> DEFINE R == {ss \in Nat \X Nat : ss[1] < ss[2]}
  <1>1. IsWellFoundedOn(R, Nat)
    BY NatLessThanWellFounded DEF OpToRel
  <1>2. PICK x \in T : \A y \in T : ~ (<<y, x>> \in R)
    <2> HIDE DEF R
    <2>1. QED BY <1>1, WFMin
  <1>3. \A a, b \in Nat : <<b, a>> \in R \/ a <= b
    OBVIOUS
  <1> HIDE DEF R
  <1>4. QED BY <1>2, <1>3

\* What getline leaves is a suffix of the buffer.
LEMMA AfterLineIsSuffix ==
    ASSUME NEW S, NEW buffer \in Seq(S)
    PROVE  \E n \in 0 .. Len(buffer) :
              /\ AfterLine(buffer) = SubSeq(buffer, n + 1, Len(buffer))
              /\ AfterLine(buffer) \in Seq(S)
              /\ ~Holds(buffer, NL) => AfterLine(buffer) = <<>>
  <1>1. CASE Holds(buffer, NL)
    <2> DEFINE First(i) == buffer[i] = NL /\ \A j \in 1 .. i - 1 : buffer[j] # NL
               at == CHOOSE i \in 1 .. Len(buffer) : First(i)
    <2>1. \E i \in 1 .. Len(buffer) : First(i)
      <3> DEFINE Places == {i \in 1 .. Len(buffer) : buffer[i] = NL}
      <3>1. Places # {} /\ Places \subseteq Nat
        BY <1>1 DEF Holds
      <3>2. PICK i \in Places : \A j \in Places : i <= j
        BY <3>1, LeastNumber
      <3>3. QED BY <3>2
    <2>2. at \in 1 .. Len(buffer)
      BY <2>1
    <2>3. AfterLine(buffer) = SubSeq(buffer, at + 1, Len(buffer))
      BY <1>1 DEF AfterLine
    <2> HIDE DEF at
    <2>4. AfterLine(buffer) \in Seq(S)
      BY <2>2, <2>3, Suffix
    <2>5. QED BY <1>1, <2>2, <2>3, <2>4
  <1>2. CASE ~Holds(buffer, NL)
    <2>1. AfterLine(buffer) = <<>>
      BY <1>2 DEF AfterLine
    <2>2. SubSeq(buffer, Len(buffer) + 1, Len(buffer)) = <<>>
      BY SubSeqEmpty
    <2>3. QED BY <2>1, <2>2
  <1>3. QED BY <1>1, <1>2

-----------------------------------------------------------------------------
(* Type correctness *)

\* What the server's end does keeps the wire well typed.
LEMMA ServerTypes ==
    ASSUME NetTypeOK,
           Handshake \/ \E q \in Query, r \in Response : Serve(q, r)
    PROVE  NetTypeOK'
  <1> USE DEF NetTypeOK, ServerStates
  <1>1. CASE TakeMagic
    BY <1>1 DEF TakeMagic
  <1>2. CASE Accept
    BY <1>2, ChunkTypes DEF Accept
  <1>3. CASE Refuse
    BY <1>3, ChunkTypes DEF Refuse, Reject
  <1>4. ASSUME NEW q \in Query, NEW r \in Response, Serve(q, r)
        PROVE  NetTypeOK'
    <2>1. SubSeq(c2s, 3, Len(c2s)) \in Seq(ClientChunk)
      BY <1>4, Suffix DEF Serve
    <2>2. s2c \o ResponseFrame(r) \in Seq(ServerChunk)
      BY ChunkTypes
    <2>3. QED BY <1>4, <2>1, <2>2 DEF Serve
  <1>5. QED BY <1>1, <1>2, <1>3, <1>4 DEF Handshake

\* So does what ends or opens a TCP connection.
LEMMA LinkTypes ==
    ASSUME NetTypeOK, Dial \/ Drop \/ \E s \in {"closed", "open"} : Hangup(s)
    PROVE  NetTypeOK'
  <1> USE DEF NetTypeOK, ServerStates
  <1>1. CASE Dial
    BY <1>1, EmptySeq DEF Dial
  <1>2. CASE Drop
    <2>1. PICK n \in 0 .. Len(s2c) : s2c' = SubSeq(s2c, 1, n)
      BY <1>2 DEF Drop
    <2>2. s2c' \in Seq(ServerChunk)
      BY <2>1, Prefix
    <2>3. QED BY <1>2, <2>2 DEF Drop
  <1>3. ASSUME NEW s \in {"closed", "open"}, Hangup(s) PROVE NetTypeOK'
    BY <1>3, EmptySeq DEF Hangup
  <1>4. QED BY <1>1, <1>2, <1>3

\* So does a read of any number of the chunks that wait.
LEMMA ReceiveTypes ==
    ASSUME NetTypeOK, NEW n \in Nat, Receive(n)
    PROVE  NetTypeOK'
  <1>1. s2c' \in Seq(ServerChunk)
    BY Suffix DEF Receive, NetTypeOK
  <1>2. QED BY <1>1 DEF Receive, NetTypeOK

\* No step of the driver, the server or the network leaves the types.
THEOREM TypeInductive == TypeOK /\ [Next]_vars => TypeOK'
  <1> SUFFICES ASSUME TypeOK, [Next]_vars PROVE TypeOK'
    OBVIOUS
  <1> USE DEF TypeOK, Connecting, clientVars, Finish
  <1>1. CASE OpenSocket
    <2>1. request_' \in Seq(ClientChunk)
      BY <1>1, ChunkTypes DEF OpenSocket
    <2>2. QED BY <1>1, <2>1, LinkTypes DEF OpenSocket
  <1>2. CASE OpenThrow
    BY <1>2, LinkTypes DEF OpenThrow, netVars, NetTypeOK
  <1>3. CASE WriteSome
    BY <1>3 DEF WriteSome, Send, NetTypeOK
  <1>4. CASE WriteDone
    BY <1>4 DEF WriteDone, netVars, NetTypeOK
  <1>5. CASE WriteThrow
    BY <1>5 DEF WriteThrow, netVars, NetTypeOK
  <1>6. CASE ReadUntil
    <2>1. PICK n \in 1 .. Len(s2c) :
              Receive(n) /\ response_' = response_ \o SubSeq(s2c, 1, n)
      <3>1. Len(s2c) \in 1 .. Len(s2c)
        BY <1>6, EmptySeq, LenProperties DEF ReadUntil, NetTypeOK
      <3>2. QED BY <1>6, <3>1 DEF ReadUntil
    <2>2. SubSeq(s2c, 1, n) \in Seq(ServerChunk)
      BY <2>1, Prefix DEF NetTypeOK
    <2>3. NetTypeOK'
      BY <2>1, ReceiveTypes
    <2>4. QED BY <1>6, <2>1, <2>2, <2>3 DEF ReadUntil
  <1>7. CASE ReadUntilThrow
    BY <1>7 DEF ReadUntilThrow, netVars, NetTypeOK
  <1>8. CASE Judge
    <2>1. AfterLine(response_) \in Seq(ServerChunk)
      BY AfterLineIsSuffix
    <2>2. QED BY <1>8, <2>1 DEF Judge, netVars, NetTypeOK
  <1>9. CASE ReadLength
    <2>1. s2c[1] \in ServerChunk
      BY <1>9 DEF ReadLength, NetTypeOK
    <2>2. length' \in Response \cup {NoMessage}
      BY <1>9, <2>1, ChunkTypes DEF ReadLength
    <2>3. NetTypeOK'
      BY <1>9, ReceiveTypes DEF ReadLength
    <2>4. QED BY <1>9, <2>2, <2>3 DEF ReadLength
  <1>10. CASE ReadBlob
    BY <1>10, ReceiveTypes DEF ReadBlob
  <1>11. CASE ReadGarbage
    <2>1. NetTypeOK'
      BY <1>11, ReceiveTypes DEF ReadGarbage, NetTypeOK
    <2>2. QED BY <1>11, <2>1 DEF ReadGarbage
  <1>12. CASE ReadThrow
    <2>1. NetTypeOK'
      BY <1>12, ReceiveTypes DEF ReadThrow, netVars, NetTypeOK
    <2>2. QED BY <1>12, <2>1 DEF ReadThrow
  <1>13. CASE ConnectAgain
    BY <1>13 DEF ConnectAgain, netVars, NetTypeOK
  <1>14. CASE Connect
    BY <1>14 DEF Connect, netVars, NetTypeOK
  <1>15. CASE Close
    BY <1>15, LinkTypes DEF Close
  <1>16. CASE CloseThrow
    BY <1>16, LinkTypes DEF CloseThrow
  <1>17. ASSUME NEW q \in Query, WriteQuery(q) PROVE TypeOK'
    <2>1. request_' \in Seq(ClientChunk)
      BY <1>17, ChunkTypes DEF WriteQuery
    <2>2. QED BY <1>17, <2>1 DEF WriteQuery, netVars, NetTypeOK
  <1>18. CASE ReadResponse
    BY <1>18 DEF ReadResponse, netVars, NetTypeOK
  <1>19. CASE Server
    BY <1>19, ServerTypes DEF Server
  <1>20. CASE Break
    BY <1>20, LinkTypes DEF Break
  <1>21. CASE UNCHANGED vars
    BY <1>21 DEF vars, netVars, NetTypeOK
  <1>22. QED
    BY <1>1, <1>2, <1>3, <1>4, <1>5, <1>6, <1>7, <1>8, <1>9, <1>10, <1>11,
       <1>12, <1>13, <1>14, <1>15, <1>16, <1>17, <1>18, <1>19, <1>20, <1>21
    DEF Next, Step, Filling, Calling

\* Every state of a connection is well typed, whatever the faults.
THEOREM TypeCorrect == Spec => []TypeOK
  <1>1. Init => TypeOK
    BY EmptySeq DEF Init, NetInit, TypeOK, NetTypeOK, ServerStates
  <1>2. QED BY <1>1, TypeInductive, PTL DEF Spec

-----------------------------------------------------------------------------
(* What a suffix and a concatenation hold *)

LEMMA SuffixHolds ==
    ASSUME NEW S, NEW s \in Seq(S), NEW n \in 0 .. Len(s)
    PROVE  /\ Terminated(s) => Terminated(SubSeq(s, n + 1, Len(s)))
           /\ \A c : Holds(SubSeq(s, n + 1, Len(s)), c) => Holds(s, c)
  <1> DEFINE t == SubSeq(s, n + 1, Len(s))
  <1>1. /\ Len(t) = Len(s) - n
        /\ \A i \in 1 .. Len(s) - n : t[i] = s[n + i]
    BY Suffix
  <1> HIDE DEF t
  <1>2. ASSUME Terminated(s), NEW i \in 1 .. Len(t), t[i] \in {SUCCESS, NL}
        PROVE  \E j \in i + 1 .. Len(t) : t[j] = NUL
    <2>1. s[n + i] \in {SUCCESS, NL} /\ n + i \in 1 .. Len(s)
      BY <1>1, <1>2
    <2>2. PICK j \in n + i + 1 .. Len(s) : s[j] = NUL
      BY <1>2, <2>1 DEF Terminated
    <2>3. j - n \in i + 1 .. Len(t) /\ t[j - n] = NUL
      BY <1>1, <2>2
    <2>4. QED BY <2>3
  <1>3. ASSUME NEW c, Holds(t, c) PROVE Holds(s, c)
    <2>1. PICK i \in 1 .. Len(t) : t[i] = c
      BY <1>3 DEF Holds
    <2>2. n + i \in 1 .. Len(s) /\ s[n + i] = c
      BY <1>1, <2>1
    <2>3. QED BY <2>2 DEF Holds
  <1>4. Terminated(s) => Terminated(t)
    BY <1>2 DEF Terminated
  <1>5. QED BY <1>3, <1>4 DEF t

LEMMA ConcatHolds ==
    ASSUME NEW S, NEW s \in Seq(S), NEW t \in Seq(S)
    PROVE  /\ Terminated(s) /\ Terminated(t) => Terminated(s \o t)
           /\ \A c : Holds(s \o t, c) <=> Holds(s, c) \/ Holds(t, c)
  <1>1. /\ Len(s \o t) = Len(s) + Len(t)
        /\ \A i \in 1 .. Len(s) : (s \o t)[i] = s[i]
        /\ \A i \in 1 .. Len(t) : (s \o t)[Len(s) + i] = t[i]
    BY ConcatProperties
  <1>2. ASSUME Terminated(s), Terminated(t),
               NEW i \in 1 .. Len(s \o t), (s \o t)[i] \in {SUCCESS, NL}
        PROVE  \E j \in i + 1 .. Len(s \o t) : (s \o t)[j] = NUL
    <2>1. CASE i <= Len(s)
      <3>0. i \in 1 .. Len(s) /\ s[i] \in {SUCCESS, NL}
        BY <1>1, <1>2, <2>1
      <3>1. PICK j \in i + 1 .. Len(s) : s[j] = NUL
        BY <1>2, <3>0 DEF Terminated
      <3>2. j \in i + 1 .. Len(s \o t) /\ (s \o t)[j] = NUL
        BY <1>1, <3>1
      <3>3. QED BY <3>2
    <2>2. CASE i > Len(s)
      <3>1. i - Len(s) \in 1 .. Len(t) /\ t[i - Len(s)] \in {SUCCESS, NL}
        BY <1>1, <1>2, <2>2
      <3>2. PICK j \in i - Len(s) + 1 .. Len(t) : t[j] = NUL
        BY <1>2, <3>1 DEF Terminated
      <3>3. /\ Len(s) + j \in i + 1 .. Len(s \o t)
            /\ (s \o t)[Len(s) + j] = NUL
        BY <1>1, <3>1, <3>2
      <3>4. QED BY <3>3
    <2>3. QED BY <2>1, <2>2
  <1>3. ASSUME NEW c PROVE Holds(s \o t, c) <=> Holds(s, c) \/ Holds(t, c)
    <2>1. ASSUME Holds(s, c) PROVE Holds(s \o t, c)
      <3>1. PICK i \in 1 .. Len(s) : s[i] = c
        BY <2>1 DEF Holds
      <3>2. QED BY <1>1, <3>1 DEF Holds
    <2>2. ASSUME Holds(t, c) PROVE Holds(s \o t, c)
      <3>1. PICK i \in 1 .. Len(t) : t[i] = c
        BY <2>2 DEF Holds
      <3>2. Len(s) + i \in 1 .. Len(s \o t) /\ (s \o t)[Len(s) + i] = c
        BY <1>1, <3>1
      <3>3. QED BY <3>2 DEF Holds
    <2>3. ASSUME Holds(s \o t, c) PROVE Holds(s, c) \/ Holds(t, c)
      <3>1. PICK i \in 1 .. Len(s \o t) : (s \o t)[i] = c
        BY <2>3 DEF Holds
      <3>2. CASE i <= Len(s)
        BY <1>1, <3>1, <3>2 DEF Holds
      <3>3. CASE i > Len(s)
        <4>1. i - Len(s) \in 1 .. Len(t) /\ t[i - Len(s)] = c
          BY <1>1, <3>1, <3>3
        <4>2. QED BY <4>1 DEF Holds
      <3>4. QED BY <3>2, <3>3
    <2>4. QED BY <2>1, <2>2, <2>3
  <1>4. QED BY <1>2, <1>3 DEF Terminated

\* What the server sends is terminated; only an accepting reply holds SUCCESS
\* and only a refusing one a newline.
LEMMA RepliesHold ==
    /\ Terminated(<<>>) /\ \A c : ~Holds(<<>>, c)
    /\ Terminated(AcceptReply) /\ ~Holds(AcceptReply, NL)
    /\ Terminated(RejectReply) /\ ~Holds(RejectReply, SUCCESS)
    /\ \A r : /\ Terminated(ResponseFrame(r))
              /\ ~Holds(ResponseFrame(r), SUCCESS) /\ ~Holds(ResponseFrame(r), NL)
  <1>1. Terminated(<<>>) /\ \A c : ~Holds(<<>>, c)
    BY DEF Terminated, Holds
  <1>2. Terminated(AcceptReply) /\ ~Holds(AcceptReply, NL)
    BY ChunksDiffer DEF Terminated, Holds, AcceptReply
  <1>3. Terminated(RejectReply) /\ ~Holds(RejectReply, SUCCESS)
    BY ChunksDiffer DEF Terminated, Holds, RejectReply
  <1>4. ASSUME NEW r
        PROVE  /\ Terminated(ResponseFrame(r))
               /\ ~Holds(ResponseFrame(r), SUCCESS) /\ ~Holds(ResponseFrame(r), NL)
    BY ChunksDiffer DEF Terminated, Holds, ResponseFrame
  <1>5. QED BY <1>1, <1>2, <1>3, <1>4

-----------------------------------------------------------------------------
(* The inductive invariant *)

\* What a step of the whole system may do to the socket and to the server.
NetNext ==
    \/ UNCHANGED netVars
    \/ Dial
    \/ \E s \in {"closed", "open"} : Hangup(s)
    \/ \E c : Send(c)
    \/ \E n \in Nat : Receive(n)
    \/ TakeMagic \/ Accept \/ Refuse \/ Drop
    \/ \E q \in Query, r \in Response : Serve(q, r)

LEMMA NextIsNetNext == TypeOK /\ [Next]_vars => NetNext
  <1> SUFFICES ASSUME TypeOK, [Next]_vars PROVE NetNext
    OBVIOUS
  <1> USE DEF NetNext
  <1>1. CASE Step
    <2>1. CASE ReadUntil
      BY <2>1 DEF ReadUntil, TypeOK, NetTypeOK
    <2>2. CASE ReadGarbage
      BY <2>2 DEF ReadGarbage, TypeOK, NetTypeOK
    <2>3. CASE OpenSocket \/ OpenThrow \/ WriteSome \/ WriteDone \/ WriteThrow
      BY <2>3 DEF OpenSocket, OpenThrow, WriteSome, WriteDone, WriteThrow
    <2>4. CASE ReadUntilThrow \/ Judge \/ ReadLength \/ ReadBlob \/ ReadThrow
      BY <2>4 DEF ReadUntilThrow, Judge, ReadLength, ReadBlob, ReadThrow
    <2>5. QED BY <1>1, <2>1, <2>2, <2>3, <2>4 DEF Step
  <1>2. CASE Filling
    BY <1>2 DEF Filling, Connect, WriteQuery
  <1>3. CASE Calling
    BY <1>3 DEF Calling, ConnectAgain, Close, CloseThrow, ReadResponse
  <1>4. CASE Server
    BY <1>4 DEF Server, Handshake
  <1>5. CASE Break
    BY <1>5 DEF Break
  <1>6. CASE UNCHANGED vars
    BY <1>6 DEF vars
  <1>7. QED BY <1>1, <1>2, <1>3, <1>4, <1>5, <1>6 DEF Next

\* The server's part of the invariant: what it has said is whole and true of
\* this TCP connection.
LEMMA ServerInductive == Clean /\ TypeOK /\ ServerInv /\ NetNext => ServerInv'
  <1> SUFFICES ASSUME Clean, TypeOK, ServerInv, NetNext PROVE ServerInv'
    OBVIOUS
  <1> USE DEF ServerInv, TypeOK, NetTypeOK
  <1>1. CASE UNCHANGED netVars
    BY <1>1 DEF netVars, Terminated, Holds
  <1>2. CASE Dial \/ \E s \in {"closed", "open"} : Hangup(s)
    BY <1>2, RepliesHold DEF Dial, Hangup
  <1>3. ASSUME NEW c, Send(c) PROVE ServerInv'
    BY <1>3 DEF Send, Terminated, Holds
  <1>4. ASSUME NEW n \in Nat, Receive(n) PROVE ServerInv'
    <2>1. n \in 0 .. Len(s2c) /\ s2c' = SubSeq(s2c, n + 1, Len(s2c))
      BY <1>4 DEF Receive
    <2>2. /\ Terminated(s2c) => Terminated(SubSeq(s2c, n + 1, Len(s2c)))
          /\ \A c : Holds(SubSeq(s2c, n + 1, Len(s2c)), c) => Holds(s2c, c)
      BY <2>1, SuffixHolds
    <2>3. s2c = <<>> => s2c' = <<>>
      BY <2>1
    <2>4. QED BY <1>4, <2>1, <2>2, <2>3 DEF Receive
  <1>5. CASE TakeMagic
    BY <1>5 DEF TakeMagic, Terminated, Holds
  <1>6. CASE Accept
    <2>1. s2c = <<>> /\ s2c' = s2c \o AcceptReply
      BY <1>6 DEF Accept
    <2>2. s2c' = AcceptReply
      BY <2>1, ChunkTypes, ConcatEmptySeq
    <2>3. QED BY <1>6, <2>2, RepliesHold DEF Accept
  <1>7. CASE Refuse
    <2>1. s2c' = RejectReply
      <3>1. s2c = <<>> /\ s2c' = s2c \o RejectReply
        BY <1>7 DEF Refuse, Reject
      <3>2. QED BY <3>1, ChunkTypes, ConcatEmptySeq
    <2>2. QED BY <1>7, <2>1, RepliesHold DEF Refuse, Reject
  <1>8. CASE Drop
    <2>1. s2c' = <<>> \/ s2c' = s2c
      <3>1. PICK n \in {0, Len(s2c)} : s2c' = SubSeq(s2c, 1, n)
        BY <1>8 DEF Drop, Clean
      <3>2. QED BY <3>1
    <2>2. QED BY <1>8, <2>1, RepliesHold DEF Drop, Terminated, Holds
  <1>9. ASSUME NEW q \in Query, NEW r \in Response, Serve(q, r) PROVE ServerInv'
    <2>1. /\ Terminated(s2c) => Terminated(s2c')
          /\ Holds(s2c', SUCCESS) => Holds(s2c, SUCCESS)
          /\ Holds(s2c', NL) => Holds(s2c, NL)
      BY <1>9, ConcatHolds, ChunkTypes, RepliesHold DEF Serve
    <2>2. QED BY <1>9, <2>1 DEF Serve
  <1>10. QED
    BY <1>1, <1>2, <1>3, <1>4, <1>5, <1>6, <1>7, <1>8, <1>9 DEF NetNext

\* A step that is not part of connect() leaves the other two parts alone.
LEMMA QuietStep ==
    ASSUME ResponseInv, EstablishedInv, pc \notin Connecting,
           UNCHANGED <<established, response_, accepted>>, pc' \notin Connecting
    PROVE  ResponseInv' /\ EstablishedInv'
  BY DEF ResponseInv, EstablishedInv, Terminated, Holds, Connecting

\* If no reply is cut and no close() fails, every step keeps IInv.
THEOREM Inductive == Clean /\ IInv /\ [Next]_vars => IInv'
  <1> SUFFICES ASSUME Clean, IInv, [Next]_vars PROVE IInv'
    OBVIOUS
  <1> USE DEF IInv
  <1>1. TypeOK' /\ ServerInv'
    BY TypeInductive, NextIsNetNext, ServerInductive
  <1>2. ResponseInv' /\ EstablishedInv'
    <2> USE DEF ResponseInv, EstablishedInv, Connecting, Finish
    <2>1. CASE OpenSocket
      BY <2>1 DEF OpenSocket, Dial, Terminated, Holds
    <2>2. CASE OpenThrow
      BY <2>2 DEF OpenThrow, Hangup, netVars, Terminated, Holds
    <2>3. CASE WriteSome
      BY <2>3 DEF WriteSome, Send, Terminated, Holds
    <2>4. CASE WriteDone
      BY <2>4 DEF WriteDone, netVars, Terminated, Holds
    <2>5. CASE WriteThrow
      BY <2>5 DEF WriteThrow, netVars, Terminated, Holds
    <2>6. CASE ReadUntil
      <3>1. response_' = response_ \o s2c
        BY <2>6, SubSeqFull DEF ReadUntil, Clean, TypeOK, NetTypeOK
      <3>2. /\ Terminated(response_')
            /\ \A c : Holds(response_', c) <=> Holds(response_, c) \/ Holds(s2c, c)
        BY <3>1, ConcatHolds DEF TypeOK, NetTypeOK, ServerInv
      <3>3. ~Holds(response_, NL)
        BY <2>6 DEF ReadUntil, Terminated, Holds, TypeOK
      <3>4. QED BY <2>6, <3>2, <3>3 DEF ReadUntil, Receive, ServerInv
    <2>7. CASE ReadUntilThrow
      <3>1. ~Holds(response_, SUCCESS)
        BY <2>7 DEF ReadUntilThrow, Terminated, Holds, TypeOK
      <3>2. QED BY <2>7, <3>1 DEF ReadUntilThrow, netVars, Terminated, Holds
    <2>8. CASE Judge
      <3>1. PICK n \in 0 .. Len(response_) :
                /\ response_' = SubSeq(response_, n + 1, Len(response_))
                /\ ~Holds(response_, NL) => response_' = <<>>
        BY <2>8, AfterLineIsSuffix DEF Judge, TypeOK
      <3> DEFINE rest == SubSeq(response_, n + 1, Len(response_))
      <3>2. /\ Terminated(response_) => Terminated(rest)
            /\ Holds(rest, SUCCESS) => Holds(response_, SUCCESS)
        BY SuffixHolds DEF TypeOK
      <3>3. Terminated(rest) /\ ~Holds(rest, SUCCESS)
        BY <3>1, <3>2, RepliesHold
      <3>4. established' => accepted'
        <4>1. response_[1] = SUCCESS => Holds(response_, SUCCESS)
          BY <2>8 DEF Judge, Holds, TypeOK
        <4>2. QED BY <2>8, <4>1 DEF Judge, netVars
      <3>5. QED BY <2>8, <3>1, <3>3, <3>4 DEF Judge
    <2>9. CASE ReadLength \/ ReadBlob \/ ReadGarbage \/ ReadThrow
      <3>1. UNCHANGED <<established, response_, accepted>>
        BY <2>9 DEF ReadLength, ReadBlob, ReadGarbage, ReadThrow, Receive, netVars
      <3>2. pc \notin Connecting /\ pc' \notin Connecting
        BY <2>9 DEF ReadLength, ReadBlob, ReadGarbage, ReadThrow
      <3>3. QED BY <3>1, <3>2, QuietStep
    <2>10. CASE ConnectAgain
      BY <2>10, QuietStep DEF ConnectAgain, netVars
    <2>11. CASE Connect
      <3>1. ~established
        BY <2>11 DEF Connect, is_connected, ServerInv
      <3>2. QED BY <2>11, <3>1 DEF Connect, netVars, Terminated, Holds
    <2>12. CASE Close
      BY <2>12 DEF Close, Hangup, Terminated, Holds
    <2>13. CASE CloseThrow
      BY <2>13 DEF CloseThrow, Clean
    <2>14. ASSUME NEW q \in Query, WriteQuery(q) PROVE ResponseInv' /\ EstablishedInv'
      BY <2>14, QuietStep DEF WriteQuery, netVars
    <2>15. CASE ReadResponse
      BY <2>15, QuietStep DEF ReadResponse, netVars
    <2>16. CASE Server \/ Break
      <3>1. accepted => accepted'
        BY <2>16 DEF Server, Break, Handshake, TakeMagic, Accept, Refuse, Reject,
                     Serve, Drop
      <3>2. UNCHANGED <<established, response_, pc>>
        BY <2>16 DEF Server, Break, clientVars
      <3>3. QED BY <3>1, <3>2 DEF Terminated, Holds
    <2>17. CASE UNCHANGED vars
      BY <2>17 DEF vars, netVars, clientVars, Terminated, Holds
    <2>18. QED
      BY <2>1, <2>2, <2>3, <2>4, <2>5, <2>6, <2>7, <2>8, <2>9, <2>10, <2>11,
         <2>12, <2>13, <2>14, <2>15, <2>16, <2>17
      DEF Next, Step, Filling, Calling
  <1>3. QED BY <1>1, <1>2

LEMMA InitInv == Init => IInv
  <1> SUFFICES ASSUME Init PROVE IInv
    OBVIOUS
  <1>1. TypeOK
    BY EmptySeq DEF Init, NetInit, TypeOK, NetTypeOK, ServerStates
  <1>2. ServerInv /\ ResponseInv /\ EstablishedInv
    BY RepliesHold
    DEF Init, NetInit, ServerInv, ResponseInv, EstablishedInv, Connecting
  <1>3. QED BY <1>1, <1>2 DEF IInv

\* Unless a reply can arrive in part or the close() of the socket can fail, the
\* inductive invariant holds: whom the server has accepted, and whose verdict is
\* in which buffer.
THEOREM InvariantSound ==
    ASSUME Clean
    PROVE  Spec => []IInv
  <1>1. IInv /\ [Next]_vars => IInv'
    BY Clean, Inductive
  <1>2. QED BY <1>1, InitInv, PTL DEF Spec

\* Unless a reply can arrive in part or the close() of the socket can fail,
\* is_connected() between two calls means that the server has accepted the
\* TCP connection the socket has now, whatever else fails.
THEOREM ConnectedSound ==
    ASSUME Clean
    PROVE  Spec => []ConnectedIsAccepted
  <1>1. IInv => ConnectedIsAccepted
    BY DEF IInv, EstablishedInv, ConnectedIsAccepted, is_connected
  <1>2. IInv /\ [Next]_vars => IInv'
    BY Clean, Inductive
  <1>3. QED BY <1>1, <1>2, InitInv, PTL DEF Spec

\* Under the same condition a connect() that throws leaves a connection that
\* is_connected() denies.
THEOREM ThrowSound ==
    ASSUME Clean
    PROVE  Spec => ThrowMeansDisconnected
  <1> DEFINE Throws == pc \in Connecting /\ pc' = "idle" /\ outcome' = "threw"
  <1>1. IInv /\ [Next]_vars => [Throws => ~is_connected']_vars
    <2> SUFFICES ASSUME IInv, Next, Throws PROVE ~established'
      BY DEF is_connected
    <2>1. ~established
      BY DEF IInv, EstablishedInv
    <2>2. CASE Step
      BY <2>1, <2>2
      DEF Step, Connecting, Finish, OpenSocket, OpenThrow, WriteSome, WriteDone,
          WriteThrow, ReadUntil, ReadUntilThrow, Judge, ReadLength, ReadBlob,
          ReadGarbage, ReadThrow
    <2>3. CASE Filling \/ Calling
      BY <2>3 DEF Filling, Calling, Connecting, Connect, WriteQuery, ConnectAgain,
                  Close, CloseThrow, ReadResponse
    <2>4. CASE Server \/ Break
      BY <2>1, <2>4 DEF Server, Break, clientVars
    <2>5. QED BY <2>2, <2>3, <2>4 DEF Next
  <1>2. IInv /\ [Next]_vars => IInv'
    BY Clean, Inductive
  <1>3. QED BY <1>1, <1>2, InitInv, PTL DEF Spec, ThrowMeansDisconnected

-----------------------------------------------------------------------------
(* Why AcceptedIsConnected holds when replies come whole and on one line,   *)
(* and the calls of the socket are not interrupted.                         *)

OneLine == Faults \cap {"cut", "interrupt"} = {} /\ ~NewlineReplies

\* A verdict that can be judged, and that is a refusal only of a server that
\* has ended the connection.
Verdict(buffer) == Holds(buffer, NUL) /\ (buffer[1] = SUCCESS \/ srv = "ended")

\* While connect() waits for the verdict it is on the wire or in response_; no
\* verdict is in response_ at any other time.
RepliesInv ==
    /\ srv # "none" => sock = "connected"
    /\ srv \in {"none", "magic", "auth"} => s2c = <<>>
    /\ ~Holds(s2c, NL)

VerdictInv ==
    /\ ~Holds(response_, NL)
    /\ pc # "await" => response_ = <<>>
    /\ response_ # <<>> => Verdict(response_)
    /\ pc \in {"greet", "await"} /\ response_ = <<>> =>
          Verdict(s2c) \/ (s2c = <<>> /\ srv # "serving")

LEMMA PlainReplies ==
    ASSUME OneLine
    PROVE  /\ Holds(AcceptReply, NUL) /\ AcceptReply[1] = SUCCESS /\ ~Holds(AcceptReply, NL)
           /\ Holds(RejectReply, NUL) /\ ~Holds(RejectReply, NL)
  BY ChunksDiffer DEF OneLine, Holds, AcceptReply, RejectReply

\* What the server does to the wire, and what the driver sees of it.
LEMMA RepliesInductive ==
    ASSUME OneLine, TypeOK, RepliesInv, NetNext
    PROVE  RepliesInv'
  <1> USE DEF RepliesInv, TypeOK, NetTypeOK
  <1>1. CASE UNCHANGED netVars
    BY <1>1 DEF netVars, Holds
  <1>2. CASE Dial \/ \E s \in {"closed", "open"} : Hangup(s)
    BY <1>2, RepliesHold DEF Dial, Hangup
  <1>3. ASSUME NEW c, Send(c) PROVE RepliesInv'
    BY <1>3 DEF Send, Holds
  <1>4. ASSUME NEW n \in Nat, Receive(n) PROVE RepliesInv'
    <2>1. n \in 0 .. Len(s2c) /\ s2c' = SubSeq(s2c, n + 1, Len(s2c))
      BY <1>4 DEF Receive
    <2>2. Holds(s2c', NL) => Holds(s2c, NL)
      BY <2>1, SuffixHolds
    <2>3. s2c = <<>> => s2c' = <<>>
      BY <2>1
    <2>4. QED BY <1>4, <2>2, <2>3 DEF Receive
  <1>5. CASE TakeMagic
    BY <1>5 DEF TakeMagic, Holds
  <1>6. CASE Accept
    <2>1. s2c' = AcceptReply
      BY <1>6, ChunkTypes, ConcatEmptySeq DEF Accept
    <2>2. QED BY <1>6, <2>1, PlainReplies DEF Accept
  <1>7. CASE Refuse
    <2>1. s2c' = RejectReply
      BY <1>7, ChunkTypes, ConcatEmptySeq DEF Refuse, Reject
    <2>2. QED BY <1>7, <2>1, PlainReplies DEF Refuse, Reject
  <1>8. CASE Drop
    <2>1. s2c' = <<>> \/ s2c' = s2c
      <3>1. PICK n \in {0, Len(s2c)} : s2c' = SubSeq(s2c, 1, n)
        BY <1>8 DEF Drop, OneLine
      <3>2. QED BY <3>1
    <2>2. QED BY <1>8, <2>1, RepliesHold DEF Drop, Holds
  <1>9. ASSUME NEW q \in Query, NEW r \in Response, Serve(q, r) PROVE RepliesInv'
    <2>1. Holds(s2c', NL) => Holds(s2c, NL)
      BY <1>9, ConcatHolds, ChunkTypes, RepliesHold DEF Serve
    <2>2. QED BY <1>9, <2>1 DEF Serve
  <1>10. QED
    BY <1>1, <1>2, <1>3, <1>4, <1>5, <1>6, <1>7, <1>8, <1>9 DEF NetNext

\* A verdict on the wire stays whole, and one that was not there comes whole.
LEMMA VerdictArrives ==
    ASSUME OneLine, TypeOK, RepliesInv, VerdictInv, Server \/ Break
    PROVE  VerdictInv'
  <1> USE DEF TypeOK, NetTypeOK
  <1>1. UNCHANGED <<response_, pc>>
    BY DEF Server, Break, clientVars
  <1>2. srv = "ended" => srv' = "ended"
    BY DEF Server, Break, Handshake, TakeMagic, Accept, Refuse, Serve, Drop
  <1>3. \/ Verdict(s2c)' \/ (s2c' = <<>> /\ srv' # "serving")
        \/ ~ (Verdict(s2c) \/ (s2c = <<>> /\ srv # "serving"))
    <2>1. CASE TakeMagic
      BY <2>1 DEF TakeMagic, RepliesInv
    <2>2. CASE Accept
      <3>1. s2c' = AcceptReply
        BY <2>2, ChunkTypes, ConcatEmptySeq DEF Accept, RepliesInv
      <3>2. QED BY <3>1, PlainReplies DEF Verdict
    <2>3. CASE Refuse
      <3>1. s2c' = RejectReply /\ srv' = "ended"
        BY <2>3, ChunkTypes, ConcatEmptySeq DEF Refuse, Reject, RepliesInv
      <3>2. QED BY <3>1, PlainReplies DEF Verdict
    <2>4. CASE Drop
      <3>1. s2c' = <<>> \/ s2c' = s2c
        <4>1. PICK n \in {0, Len(s2c)} : s2c' = SubSeq(s2c, 1, n)
          BY <2>4 DEF Drop, OneLine
        <4>2. QED BY <4>1
      <3>2. srv' = "ended"
        BY <2>4 DEF Drop
      <3>3. QED BY <3>1, <3>2 DEF Verdict, Holds
    <2>5. ASSUME NEW q \in Query, NEW r \in Response, Serve(q, r), Verdict(s2c)
          PROVE  Verdict(s2c)'
      <3>1. s2c' = s2c \o ResponseFrame(r) /\ srv' = srv
        BY <2>5 DEF Serve
      <3>2. Holds(s2c', NUL)
        BY <2>5, <3>1, ConcatHolds, ChunkTypes DEF Verdict
      <3>3. 1 \in 1 .. Len(s2c)
        BY <2>5 DEF Verdict, Holds
      <3>4. s2c'[1] = s2c[1]
        BY <3>1, <3>3, ChunkTypes, ConcatProperties
      <3>5. QED BY <2>5, <3>1, <3>2, <3>4 DEF Verdict
    <2>6. QED
      BY <2>1, <2>2, <2>3, <2>4, <2>5 DEF Server, Break, Handshake, Serve
  <1>4. Verdict(response_) => Verdict(response_)'
    BY <1>1, <1>2 DEF Verdict, Holds
  <1>5. QED BY <1>1, <1>3, <1>4 DEF VerdictInv, Holds

\* A call that does not touch response_ outside of the greeting.
LEMMA VerdictStays ==
    ASSUME VerdictInv, pc # "await", response_' = response_,
           pc' \notin {"greet", "await"}
    PROVE  VerdictInv'
  BY DEF VerdictInv, Holds

\* If replies come whole and on one line, and no call of the socket is
\* interrupted, every step keeps the verdict where connect() will find it.
THEOREM VerdictInductive ==
    ASSUME OneLine, TypeOK, RepliesInv, VerdictInv, [Next]_vars
    PROVE  VerdictInv'
  <1> USE DEF Finish
  <1>1. CASE OpenSocket
    <2>1. response_' = <<>> /\ s2c' = <<>> /\ srv' = "magic" /\ pc' = "greet"
      BY <1>1 DEF OpenSocket, Dial, VerdictInv
    <2>2. QED BY <2>1, RepliesHold DEF VerdictInv
  <1>2. CASE WriteSome \/ WriteDone
    <2>1. UNCHANGED <<response_, s2c, srv>>
      BY <1>2 DEF WriteSome, WriteDone, Send, netVars
    <2>2. \/ pc' = pc
          \/ pc = "greet" /\ pc' = "await"
          \/ pc = "send" /\ pc' = "idle"
      BY <1>2 DEF WriteSome, WriteDone
    <2>3. QED BY <2>1, <2>2 DEF VerdictInv, Verdict, Holds
  <1>3. CASE ReadUntil
    <2>1. response_ = <<>> /\ s2c # <<>> /\ pc = "await"
      BY <1>3 DEF ReadUntil, VerdictInv, Verdict
    <2>2. response_' = s2c
      <3>1. response_' = response_ \o SubSeq(s2c, 1, Len(s2c))
        BY <1>3 DEF ReadUntil, OneLine
      <3>2. SubSeq(s2c, 1, Len(s2c)) = s2c
        BY SubSeqFull DEF TypeOK, NetTypeOK
      <3>3. QED BY <2>1, <3>1, <3>2, ConcatEmptySeq DEF TypeOK, NetTypeOK
    <2>3. Verdict(s2c)
      BY <2>1 DEF VerdictInv
    <2>4. UNCHANGED <<srv, pc>>
      BY <1>3 DEF ReadUntil, Receive
    <2>5. QED BY <2>1, <2>2, <2>3, <2>4 DEF VerdictInv, Verdict, Holds, RepliesInv
  <1>4. CASE ReadUntilThrow
    <2>1. response_' = <<>>
      BY <1>4 DEF ReadUntilThrow, VerdictInv, Verdict
    <2>2. QED BY <1>4, <2>1, RepliesHold DEF ReadUntilThrow, VerdictInv
  <1>5. CASE Judge
    <2>1. response_' = <<>>
      BY <1>5, AfterLineIsSuffix DEF Judge, VerdictInv, TypeOK
    <2>2. QED BY <1>5, <2>1, RepliesHold DEF Judge, VerdictInv
  <1>6. CASE OpenThrow \/ WriteThrow
    BY <1>6, VerdictStays DEF OpenThrow, WriteThrow
  <1>7. CASE ReadLength \/ ReadBlob \/ ReadGarbage \/ ReadThrow
    BY <1>7, VerdictStays DEF ReadLength, ReadBlob, ReadGarbage, ReadThrow
  <1>8. CASE Filling
    BY <1>8, VerdictStays DEF Filling, Connect, WriteQuery
  <1>9. CASE Calling
    BY <1>9, VerdictStays DEF Calling, ConnectAgain, Close, CloseThrow, ReadResponse
  <1>10. CASE Server \/ Break
    BY <1>10, VerdictArrives
  <1>11. CASE UNCHANGED vars
    BY <1>11 DEF vars, netVars, clientVars, VerdictInv, Verdict, Holds
  <1>12. QED
    BY <1>1, <1>2, <1>3, <1>4, <1>5, <1>6, <1>7, <1>8, <1>9, <1>10, <1>11
    DEF Next, Step

\* If replies come whole, an error reply is one line, and no call of the socket
\* is interrupted, then whatever earlier handshakes left in the buffers, however
\* often connections drop and close() fails, connect() does not report a refusal
\* when it shook hands with a server that has accepted and is still there.
THEOREM AcceptedSound ==
    ASSUME OneLine
    PROVE  Spec => AcceptedIsConnected
  <1> DEFINE LineInv == TypeOK /\ RepliesInv /\ VerdictInv
             NoRefusal == pc = "await" /\ pc' = "idle" /\ srv = "serving" => outcome' = "ok"
  <1>1. Init => LineInv
    <2> SUFFICES ASSUME Init PROVE RepliesInv /\ VerdictInv
      BY InitInv DEF IInv
    <2>1. QED BY RepliesHold DEF Init, NetInit, RepliesInv, VerdictInv
  <1>2. LineInv /\ [Next]_vars => LineInv'
    BY OneLine, TypeInductive, NextIsNetNext, RepliesInductive, VerdictInductive
  <1>3. LineInv /\ [Next]_vars => [NoRefusal]_vars
    <2> SUFFICES ASSUME LineInv, Next, pc = "await", pc' = "idle", srv = "serving"
                 PROVE  outcome' = "ok"
      OBVIOUS
    <2>1. CASE Judge
      <3>1. response_ # <<>>
        BY <2>1 DEF Judge, Holds
      <3>2. response_[1] = SUCCESS
        BY <3>1 DEF VerdictInv, Verdict
      <3>3. QED BY <2>1, <3>2 DEF Judge, Finish
    <2>2. CASE ReadUntilThrow
      BY <2>2 DEF ReadUntilThrow, ReceiveMayFail, OneLine, RepliesInv
    <2>3. CASE Step /\ ~Judge /\ ~ReadUntilThrow
      BY <2>3 DEF Step, OpenSocket, OpenThrow, WriteSome, WriteDone, WriteThrow,
                  ReadUntil, ReadLength, ReadBlob, ReadGarbage, ReadThrow
    <2>4. CASE Filling \/ Calling
      BY <2>4 DEF Filling, Calling, Connect, WriteQuery, ConnectAgain, Close,
                  CloseThrow, ReadResponse
    <2>5. CASE Server \/ Break
      BY <2>5 DEF Server, Break, clientVars
    <2>6. QED BY <2>1, <2>2, <2>3, <2>4, <2>5 DEF Next
  <1>4. QED BY <1>1, <1>2, <1>3, PTL DEF Spec, AcceptedIsConnected
=============================================================================
