---------------------------- MODULE Driver_proofs ----------------------------
(***************************************************************************)
(* A run() uses its connection only through the calls that Connection      *)
(* models, so what is proved of Connection holds of the driver; and of the *)
(* query of a run() there is one copy at most, wherever it is.             *)
(***************************************************************************)
EXTENDS Driver, Connection_proofs

\* The queries of run() and the answers of the server are protobufs that the
\* connection carries.
LEMMA Protobufs ==
    /\ \A t \in Token, n \in Runs : StartQuery(t, n) \in Query
    /\ \A t \in Token : ContinueQuery(t) \in Query
    /\ \A ty \in Types, t \in Token, n \in Runs \cup {NoTerm}, i \in Parts :
          Answer(ty, t, n, i) \in Response
    /\ 1 \in Parts
  BY DriverAssumption DEF Answer, Parts

\* Every step of the server's end is one that Connection allows it, and its
\* cursors and counters stay well typed.
LEMMA RethinkDBStep ==
    ASSUME DriverTypeOK, RethinkDB
    PROVE  Server /\ DriverTypeOK'
  <1> USE DEF DriverTypeOK, runVars
  <1>1. CASE Greet
    <2>1. Server
      BY <1>1 DEF Greet, Server
    <2>2. DriverTypeOK'
      BY <1>1 DEF Greet, serverVars
    <2>3. QED BY <2>1, <2>2
  <1>2. ASSUME NEW t \in Token, NEW n \in Runs, ServeStart(t, n),
               UNCHANGED <<clientVars, runVars>>
        PROVE  Server /\ DriverTypeOK'
    <2>1. \E ty \in Types : Serve(StartQuery(t, n), Answer(ty, t, n, 1))
      BY <1>2 DEF ServeStart, Types, Failures
    <2>2. Server
      BY <1>2, <2>1, Protobufs DEF Server
    <2>3. cursors' \subseteq [token : Token, term : Runs, next : Parts]
      BY <1>2, DriverAssumption DEF ServeStart, Parts
    <2>4. executed' \in [Runs -> Nat] /\ orphans' = orphans
      BY <1>2 DEF ServeStart
    <2>5. QED BY <1>2, <2>2, <2>3, <2>4
  <1>3. ASSUME NEW t \in Token, ServeContinue(t), UNCHANGED <<clientVars, runVars>>
        PROVE  Server /\ DriverTypeOK'
    <2>1. CASE Serve(ContinueQuery(t), Answer("CLIENT_ERROR", t, NoTerm, 1))
               /\ UNCHANGED cursors
      <3>1. Server
        BY <1>3, <2>1, Protobufs DEF Server, Types, Failures
      <3>2. QED BY <1>3, <2>1, <3>1 DEF ServeContinue
    <2>2. ASSUME NEW c \in Open(t),
                 NEW ty \in {"SUCCESS_PARTIAL", "SUCCESS_SEQUENCE", "RUNTIME_ERROR"},
                 ty = "SUCCESS_PARTIAL" => c.next < MaxBatches,
                 Serve(ContinueQuery(t), Answer(ty, t, c.term, c.next)),
                 cursors' = IF ty = "SUCCESS_PARTIAL"
                            THEN (cursors \ {c}) \cup {[c EXCEPT !.next = @ + 1]}
                            ELSE cursors \ {c}
          PROVE  Server /\ DriverTypeOK'
      <3>1. c \in [token : Token, term : Runs, next : Parts]
        BY <2>2 DEF Open
      <3>2. Server
        BY <1>3, <2>2, <3>1, Protobufs DEF Server, Types, Failures
      <3>3. ty = "SUCCESS_PARTIAL" =>
               [c EXCEPT !.next = @ + 1] \in [token : Token, term : Runs, next : Parts]
        BY <2>2, <3>1, DriverAssumption DEF Parts
      <3>4. cursors' \subseteq [token : Token, term : Runs, next : Parts]
        BY <2>2, <3>3
      <3>5. QED BY <1>3, <3>2, <3>4 DEF ServeContinue
    <2>3. QED BY <1>3, <2>1, <2>2 DEF ServeContinue
  <1>4. QED BY <1>1, <1>2, <1>3 DEF RethinkDB

\* A query that was on its way may become an orphan; nothing else changes at
\* the server.
LEMMA OrphanTypes ==
    ASSUME DriverTypeOK, Orphan, UNCHANGED runVars
    PROVE  DriverTypeOK'
  BY DEF DriverTypeOK, Orphan, InFlight, runVars

DriverInv == TypeOK /\ DriverTypeOK /\ PhaseInv

\* A step of the thread inside a call of the connection leaves run() in the
\* phase that made the call.
LEMMA StepPhase ==
    ASSUME DriverInv, Step, UNCHANGED runVars
    PROVE  PhaseInv'
  <1> USE DEF DriverInv, PhaseInv, DriverTypeOK, runVars, Returned, Connecting, Finish
  <1>1. CASE OpenSocket \/ OpenThrow
    BY <1>1 DEF OpenSocket, OpenThrow
  <1>2. CASE WriteSome \/ WriteDone \/ WriteThrow
    BY <1>2 DEF WriteSome, WriteDone, WriteThrow
  <1>3. CASE ReadUntil \/ ReadUntilThrow \/ Judge
    BY <1>3 DEF ReadUntil, ReadUntilThrow, Judge
  <1>4. CASE ReadLength \/ ReadBlob \/ ReadGarbage \/ ReadThrow
    BY <1>4, ConnectionAssumption
    DEF ReadLength, ReadBlob, ReadGarbage, ReadThrow
  <1>5. QED BY <1>1, <1>2, <1>3, <1>4 DEF Step

\* Every step of the driver is a step of its connection, or leaves the
\* connection alone.
THEOREM DriverStep ==
    DriverInv /\ [DriverNext]_driverVars => [Next]_vars /\ DriverInv'
  <1> SUFFICES ASSUME DriverInv, [DriverNext]_driverVars
               PROVE  [Next]_vars /\ DriverTypeOK' /\ PhaseInv'
    BY TypeInductive DEF DriverInv
  <1> USE DEF DriverInv, PhaseInv, Returned, Connecting, Finish
  <1>1. CASE Step /\ Orphan /\ UNCHANGED runVars
    BY <1>1, OrphanTypes, StepPhase DEF Next
  <1>2. CASE Run
    <2>1. Connect \/ ConnectAgain
      BY <1>2 DEF Run
    <2>2. [Next]_vars
      BY <2>1 DEF Next, Filling, Calling
    <2>3. DriverTypeOK'
      BY <1>2, EmptySeq, DriverAssumption DEF Run, DriverTypeOK, serverVars
    <2>4. PhaseInv'
      BY <1>2, <2>1, <2>3, DriverAssumption
      DEF Run, Connect, ConnectAgain, DriverTypeOK, Runs
    <2>5. QED BY <2>2, <2>3, <2>4
  <1>3. CASE Start
    <2>1. PICK t \in Token : token' = t /\ WriteQuery(StartQuery(t, run))
      BY <1>3 DEF Start
    <2>2. run \in Runs
      BY <1>3 DEF Start
    <2>3. [Next]_vars
      BY <2>1, <2>2, Protobufs DEF Next, Filling
    <2>4. DriverTypeOK'
      BY <1>3, <2>1 DEF Start, DriverTypeOK, serverVars
    <2>5. PhaseInv'
      BY <1>3, <2>1 DEF Start, WriteQuery
    <2>6. QED BY <2>3, <2>4, <2>5
  <1>4. CASE Read
    <2>1. [Next]_vars
      BY <1>4 DEF Read, Next, Calling
    <2>2. DriverTypeOK'
      BY <1>4 DEF Read, DriverTypeOK, serverVars
    <2>3. PhaseInv'
      BY <1>4 DEF Read, ReadResponse
    <2>4. QED BY <2>1, <2>2, <2>3
  <1>5. CASE Push
    <2>1. reply \in Response \cup {Garbled}
      BY <1>5 DEF Push, TypeOK
    <2>2. DriverTypeOK'
      BY <1>5, <2>1 DEF Push, DriverTypeOK, serverVars
    <2>3. PhaseInv'
      BY <1>5 DEF Push, vars, clientVars
    <2>4. QED BY <1>5, <2>2, <2>3 DEF Push
  <1>6. CASE Continue
    <2>1. [Next]_vars
      BY <1>6, Protobufs DEF Continue, Next, Filling, DriverTypeOK
    <2>2. DriverTypeOK'
      BY <1>6 DEF Continue, DriverTypeOK, serverVars
    <2>3. PhaseInv'
      BY <1>6 DEF Continue, WriteQuery
    <2>4. QED BY <2>1, <2>2, <2>3
  <1>7. CASE Return
    <2>1. DriverTypeOK'
      BY <1>7 DEF Return, DriverTypeOK, serverVars
    <2>2. PhaseInv'
      BY <1>7 DEF Return, vars, clientVars
    <2>3. QED BY <1>7, <2>1, <2>2 DEF Return
  <1>8. CASE RunThrow
    <2>1. result' \in Exceptions
      BY <1>8 DEF RunThrow, Exceptions
    <2>2. DriverTypeOK'
      BY <1>8, <2>1, EmptySeq DEF RunThrow, DriverTypeOK, serverVars
    <2>3. PhaseInv'
      BY <1>8 DEF RunThrow, vars, clientVars
    <2>4. QED BY <1>8, <2>2, <2>3 DEF RunThrow
  <1>9. CASE Caller
    <2>1. [Next]_vars
      BY <1>9 DEF Caller, Next, Filling, Calling
    <2>2. DriverTypeOK'
      BY <1>9, OrphanTypes DEF Caller
    <2>3. PhaseInv'
      BY <1>9 DEF Caller, runVars, ConnectAgain, Connect, Close, CloseThrow
    <2>4. QED BY <2>1, <2>2, <2>3
  <1>10. CASE RethinkDB
    <2>1. Server /\ DriverTypeOK'
      BY <1>10, RethinkDBStep
    <2>2. UNCHANGED <<clientVars, runVars>>
      BY <1>10 DEF RethinkDB, Greet
    <2>3. PhaseInv'
      BY <2>2 DEF clientVars, runVars
    <2>4. QED BY <2>1, <2>3 DEF Next
  <1>11. ASSUME NEW n \in Runs, ServeOrphan(n)
         PROVE  [Next]_vars /\ DriverTypeOK' /\ PhaseInv'
    <2>1. DriverTypeOK'
      BY <1>11 DEF ServeOrphan, DriverTypeOK, runVars
    <2>2. PhaseInv'
      BY <1>11 DEF ServeOrphan, vars, clientVars, runVars
    <2>3. QED BY <1>11, <2>1, <2>2 DEF ServeOrphan
  <1>12. CASE Break /\ Orphan /\ UNCHANGED runVars
    <2>1. PhaseInv'
      BY <1>12 DEF Break, clientVars, runVars
    <2>2. QED BY <1>12, <2>1, OrphanTypes DEF Next
  <1>13. CASE UNCHANGED driverVars
    <2>1. DriverTypeOK'
      BY <1>13 DEF driverVars, runVars, serverVars, DriverTypeOK
    <2>2. PhaseInv'
      BY <1>13 DEF driverVars, vars, clientVars, runVars
    <2>3. QED BY <1>13, <2>1, <2>2 DEF driverVars
  <1>14. QED
    BY <1>1, <1>2, <1>3, <1>4, <1>5, <1>6, <1>7, <1>8, <1>9, <1>10, <1>11,
       <1>12, <1>13 DEF DriverNext, Thread

LEMMA DriverInitInv == DriverInit => Init /\ DriverInv
  <1> SUFFICES ASSUME DriverInit PROVE Init /\ DriverTypeOK /\ PhaseInv
    BY InitInv DEF DriverInit, DriverInv, IInv
  <1>1. DriverTypeOK
    BY EmptySeq, DriverAssumption DEF DriverInit, DriverTypeOK
  <1>2. PhaseInv
    BY DEF DriverInit, Init, PhaseInv, Returned, Connecting
  <1>3. QED BY <1>1, <1>2 DEF DriverInit

\* The state of run(), of the connection under it and of the server's cursors
\* stays well typed.
THEOREM DriverTypeCorrect == DriverSpec => []DriverTypeOK
  <1>1. DriverInv => DriverTypeOK
    BY DEF DriverInv
  <1>2. QED BY <1>1, DriverInitInv, DriverStep, PTL DEF DriverSpec

\* run() and its caller use the connection as Connection says: the driver
\* implements Connection.
THEOREM DriverImplementsConnection == DriverSpec => Spec
  BY DriverInitInv, DriverStep, PTL DEF DriverSpec, Spec

\* So is_connected() is never true of a TCP connection the server has not
\* accepted, however runs, connects and closes alternate.
THEOREM DriverConnectedSound ==
    ASSUME Clean
    PROVE  DriverSpec => []ConnectedIsAccepted
  BY ConnectedSound, DriverImplementsConnection

\* Under the condition of AcceptedSound no run() reports a refusal by a server
\* that has accepted the TCP connection it opened.
THEOREM DriverAcceptedSound ==
    ASSUME OneLine
    PROVE  DriverSpec => AcceptedIsConnected
  BY AcceptedSound, DriverImplementsConnection

-----------------------------------------------------------------------------
(***************************************************************************)
(* Whatever fails, the server takes up the query of a run() at most once:  *)
(* the bytes of a query are written once, leave the wire when the server   *)
(* reads them or the TCP connection ends, and never come back to it.       *)
(***************************************************************************)

\* What the driver writes besides the query of a START is the START of no run.
LEMMA StartsDiffer ==
    /\ \A n : MAGIC \notin StartOf(n) /\ AUTH \notin StartOf(n)
    /\ \A n, q : Chunk("qlen", q) \notin StartOf(n)
    /\ \A n, t : Chunk("qblob", ContinueQuery(t)) \notin StartOf(n)
    /\ \A n, m, c : c \in StartOf(n) /\ c \in StartOf(m) => n = m
    /\ \A n, t : t \in Token => Chunk("qblob", StartQuery(t, n)) \in StartOf(n)
  <1> USE DEF StartOf, Chunk
  <1>1. \A n : MAGIC \notin StartOf(n) /\ AUTH \notin StartOf(n)
    BY DEF MAGIC, AUTH
  <1>2. \A n, q : Chunk("qlen", q) \notin StartOf(n)
    OBVIOUS
  <1>3. \A n, t : Chunk("qblob", ContinueQuery(t)) \notin StartOf(n)
    BY DEF StartQuery, ContinueQuery
  <1>4. ASSUME NEW n, NEW m, NEW c, c \in StartOf(n), c \in StartOf(m)
        PROVE  n = m
    <2>1. c.of.term = n /\ c.of.term = m
      BY <1>4 DEF StartQuery
    <2>2. QED BY <2>1
  <1>5. \A n, t : t \in Token => Chunk("qblob", StartQuery(t, n)) \in StartOf(n)
    OBVIOUS
  <1>6. QED BY <1>1, <1>2, <1>3, <1>4, <1>5

\* What two sequences read as one hold.
LEMMA Concat ==
    ASSUME NEW S, NEW s \in Seq(S), NEW t \in Seq(S)
    PROVE  /\ s \o t \in Seq(S)
           /\ Len(s) \in Nat /\ Len(t) \in Nat
           /\ Len(s \o t) = Len(s) + Len(t)
           /\ \A i \in 1 .. Len(s) : (s \o t)[i] = s[i]
           /\ \A i \in 1 .. Len(t) : (s \o t)[Len(s) + i] = t[i]
  BY ConcatProperties

\* The first loses k elements and the second is extended: every element comes
\* from k places further back or is new.
Moved(c, r, k, T) == SubSeq(c, k + 1, Len(c)) \o (r \o T)
FromBack(c, r, k, T) ==
    \A i \in 1 .. Len(Moved(c, r, k, T)) :
        \/ /\ i + k \in 1 .. Len(c \o r)
           /\ Moved(c, r, k, T)[i] = (c \o r)[i + k]
        \/ \E j \in 1 .. Len(T) : Moved(c, r, k, T)[i] = T[j]

LEMMA TrimExtend ==
    ASSUME NEW S, NEW c \in Seq(S), NEW r \in Seq(S), NEW T \in Seq(S),
           NEW k \in 0 .. Len(c)
    PROVE  FromBack(c, r, k, T)
  <1> DEFINE d == SubSeq(c, k + 1, Len(c))
             e == r \o T
             u == d \o e
             cr == c \o r
             Goal(i) == \/ i + k \in 1 .. Len(cr) /\ u[i] = cr[i + k]
                        \/ \E j \in 1 .. Len(T) : u[i] = T[j]
  <1> SUFFICES ASSUME NEW i \in 1 .. Len(u) PROVE Goal(i)
    BY DEF FromBack, Moved
  <1>1. d \in Seq(S) /\ Len(d) = Len(c) - k /\ \A j \in 1 .. Len(c) - k : d[j] = c[k + j]
    BY Suffix
  <1>2. /\ e \in Seq(S) /\ Len(e) = Len(r) + Len(T)
        /\ \A j \in 1 .. Len(r) : e[j] = r[j]
        /\ \A j \in 1 .. Len(T) : e[Len(r) + j] = T[j]
    BY Concat
  <1>3. /\ Len(cr) = Len(c) + Len(r)
        /\ \A j \in 1 .. Len(c) : cr[j] = c[j]
        /\ \A j \in 1 .. Len(r) : cr[Len(c) + j] = r[j]
    BY Concat
  <1> HIDE DEF d, e
  <1>4. /\ Len(u) = Len(d) + Len(e) /\ Len(d) \in Nat /\ Len(e) \in Nat
        /\ \A j \in 1 .. Len(d) : u[j] = d[j]
        /\ \A j \in 1 .. Len(e) : u[Len(d) + j] = e[j]
    <2>1. d \in Seq(S) /\ e \in Seq(S)
      BY <1>1, <1>2
    <2>2. QED BY <2>1, Concat
  <1>5. i \in 1 .. Len(u)
    BY DEF d, e
  <1> HIDE DEF u, cr
  <1>6. Len(c) \in Nat /\ Len(r) \in Nat /\ Len(T) \in Nat
    OBVIOUS
  <1>7. CASE i <= Len(d)
    <2>1. i \in 1 .. Len(c) - k /\ i \in 1 .. Len(d) /\ i + k \in 1 .. Len(c) /\ k + i = i + k
      BY <1>1, <1>4, <1>5, <1>6, <1>7
    <2>2. u[i] = c[i + k]
      BY <1>1, <1>4, <2>1
    <2>3. i + k \in 1 .. Len(cr)
      BY <1>3, <1>6, <2>1
    <2>4. u[i] = cr[i + k]
      BY <1>3, <2>1, <2>2
    <2>5. QED BY <2>3, <2>4
  <1>8. CASE i > Len(d)
    <2> DEFINE h == i - Len(d)
    <2>1. h \in 1 .. Len(e) /\ i = Len(d) + h
      BY <1>1, <1>2, <1>4, <1>5, <1>6, <1>8
    <2>2. u[i] = e[h]
      BY <1>4, <2>1
    <2>3. CASE h <= Len(r)
      <3>1. h \in 1 .. Len(r) /\ i + k = Len(c) + h
        BY <1>1, <1>6, <2>1, <2>3
      <3> HIDE DEF h
      <3>2. u[i] = cr[i + k]
        BY <1>2, <1>3, <2>2, <3>1
      <3>3. i + k \in 1 .. Len(cr)
        BY <1>3, <1>6, <3>1
      <3>4. QED BY <3>2, <3>3
    <2>4. CASE h > Len(r)
      <3>1. h - Len(r) \in 1 .. Len(T) /\ h = Len(r) + (h - Len(r))
        BY <1>2, <1>6, <2>1, <2>4
      <3>2. u[i] = T[h - Len(r)]
        BY <1>2, <2>2, <3>1
      <3>3. QED BY <3>1, <3>2
    <2>5. h \in Nat
      BY <1>4, <2>1
    <2> HIDE DEF h, Goal
    <2>6. QED BY <1>6, <2>3, <2>4, <2>5
  <1>9. i \in Nat /\ Len(d) \in Nat
    BY <1>4
  <1> HIDE DEF Goal
  <1>10. QED BY <1>7, <1>8, <1>9

\* The chunks on the wire.
LEMMA WireChunks ==
    ASSUME TypeOK
    PROVE  /\ Wire \in Seq(ClientChunk)
           /\ Len(c2s) \in Nat /\ Len(request_) \in Nat
           /\ Len(Wire) = Len(c2s) + Len(request_)
           /\ \A i \in 1 .. Len(c2s) : Wire[i] = c2s[i]
           /\ \A i \in 1 .. Len(request_) : Wire[Len(c2s) + i] = request_[i]
  BY Concat DEF TypeOK, NetTypeOK, Wire

\* A step moves every query on the wire by k chunks or takes it off the wire.
Shifted(k) == \A n \in Runs : \A i \in Copies(n)' : i + k \in Copies(n)

\* The other end reads or loses the first k chunks, while the driver adds some
\* that start no query.
LEMMA Shift ==
    ASSUME TypeOK, NEW k \in 0 .. Len(c2s), NEW T \in Seq(ClientChunk),
           c2s' = SubSeq(c2s, k + 1, Len(c2s)),
           request_' = request_ \o T,
           \A n \in Runs : \A i \in 1 .. Len(T) : T[i] \notin StartOf(n)
    PROVE  Shifted(k)
  <1> SUFFICES ASSUME NEW n \in Runs, NEW i \in Copies(n)'
               PROVE  i + k \in Copies(n)
    BY DEF Shifted
  <1>1. Wire' = Moved(c2s, request_, k, T)
    BY DEF Wire, Moved
  <1>2. i \in 1 .. Len(Wire') /\ Wire'[i] \in StartOf(n)
    BY DEF Copies, StartOf
  <1>3. FromBack(c2s, request_, k, T)
    BY TrimExtend DEF TypeOK, NetTypeOK
  <1>4. \/ i + k \in 1 .. Len(Wire) /\ Wire'[i] = Wire[i + k]
        \/ \E j \in 1 .. Len(T) : Wire'[i] = T[j]
    BY <1>1, <1>2, <1>3 DEF FromBack, Wire
  <1>5. QED BY <1>2, <1>4 DEF Copies

\* Nothing is written, and the other end leaves the wire alone, or the TCP
\* connection ends or begins and takes what was on its way.
LEMMA ShiftNone == UNCHANGED <<c2s, request_>> => Shifted(0)
  BY DEF Shifted, Copies, Wire

LEMMA ShiftAll ==
    ASSUME TypeOK, c2s' = <<>>, NEW T \in Seq(ClientChunk), request_' = request_ \o T,
           \A n \in Runs : \A i \in 1 .. Len(T) : T[i] \notin StartOf(n)
    PROVE  Shifted(Len(c2s))
  <1>1. Len(c2s) \in 0 .. Len(c2s)
    BY DEF TypeOK, NetTypeOK
  <1>2. c2s' = SubSeq(c2s, Len(c2s) + 1, Len(c2s))
    BY <1>1, SubSeqEmpty
  <1>3. QED BY <1>1, <1>2, Shift

LEMMA ShiftEnded ==
    ASSUME TypeOK, c2s' = <<>>, request_' = request_
    PROVE  Shifted(Len(c2s))
  <1>1. request_' = request_ \o <<>> /\ <<>> \in Seq(ClientChunk)
    BY ConcatEmptySeq, EmptySeq DEF TypeOK
  <1>2. \A n \in Runs : \A i \in 1 .. Len(<<>>) : <<>>[i] \notin StartOf(n)
    OBVIOUS
  <1>3. QED BY <1>1, <1>2, ShiftAll

\* A write moves a chunk from the buffer to the other half of the wire.
LEMMA SendKeepsWire ==
    ASSUME TypeOK, WriteSome, Alive
    PROVE  Wire' = Wire
  <1> DEFINE h == Head(request_)
             t == Tail(request_)
  <1>1. /\ request_ \in Seq(ClientChunk) /\ c2s \in Seq(ClientChunk)
        /\ request_ # <<>> /\ request_' = t /\ c2s' = Append(c2s, h)
    BY DEF WriteSome, Send, TypeOK, NetTypeOK
  <1>2. h \in ClientChunk /\ t \in Seq(ClientChunk)
    BY <1>1
  <1>3. request_ = <<h>> \o t
    BY <1>1
  <1>4. Append(c2s, h) = c2s \o <<h>>
    BY <1>1, <1>2, AppendIsConcat
  <1> HIDE DEF h, t
  <1>5. (c2s \o <<h>>) \o t = c2s \o (<<h>> \o t)
    BY <1>1, <1>2, ConcatAssociative
  <1>6. QED BY <1>1, <1>3, <1>4, <1>5 DEF Wire

LEMMA ShiftSend ==
    ASSUME TypeOK, OnceInv, WriteSome
    PROVE  \E k \in {0, 1} : Shifted(k)
  <1>1. /\ request_ \in Seq(ClientChunk) /\ c2s \in Seq(ClientChunk)
        /\ request_ # <<>> /\ request_' = Tail(request_)
    BY DEF WriteSome, TypeOK, NetTypeOK
  <1>2. /\ Tail(request_) \in Seq(ClientChunk)
        /\ Len(Tail(request_)) = Len(request_) - 1
        /\ \A i \in 1 .. Len(Tail(request_)) : Tail(request_)[i] = request_[i + 1]
        /\ Head(request_) = request_[1]
    BY <1>1, HeadTailProperties
  <1>3. CASE Alive
    <2>2. Wire' = Wire
      BY <1>3, SendKeepsWire
    <2>3. Shifted(0)
      <3>1. \A n : Copies(n)' = Copies(n)
        BY <2>2 DEF Copies, StartOf
      <3>2. \A n : Copies(n) \subseteq Int
        BY DEF Copies
      <3>3. QED BY <3>1, <3>2 DEF Shifted
    <2>4. QED BY <2>3
  <1>4. CASE ~Alive
    <2>1. c2s = <<>> /\ c2s' = <<>>
      BY <1>4 DEF OnceInv, WriteSome, Send
    <2>2. Wire = request_ /\ Wire' = Tail(request_)
      BY <1>1, <1>2, <2>1, ConcatEmptySeq DEF Wire
    <2>3. ASSUME NEW n \in Runs, NEW i \in Copies(n)' PROVE i + 1 \in Copies(n)
      <3>1. i \in 1 .. Len(Wire') /\ Wire'[i] \in StartOf(n)
        BY DEF Copies, StartOf
      <3>2. i + 1 \in 1 .. Len(Wire) /\ Wire[i + 1] \in StartOf(n)
        BY <1>1, <1>2, <2>2, <3>1
      <3>3. QED BY <3>2 DEF Copies
    <2>4. Shifted(1)
      BY <2>3 DEF Shifted
    <2>5. QED BY <2>4
  <1>5. QED BY <1>3, <1>4
\* A run whose query is still to be written was such a run before.
NotYet ==
    \A n \in Runs : n > run' \/ (n = run' /\ phase' = "connect")
                       => n > run \/ (n = run /\ phase = "connect")

\* So every run keeps its place: its query was never written, or is on the
\* wire once, or an orphan, or taken up.
LEMMA OnceKept ==
    ASSUME TypeOK, OnceInv, ~Alive' => c2s' = <<>>, NEW k \in Nat, Shifted(k),
           executed' = executed,
           orphans' \subseteq orphans \cup InFlight,
           k < Len(c2s) => orphans' = orphans,
           NotYet
    PROVE  OnceInv'
  <1> SUFFICES ASSUME NEW n \in Runs
               PROVE  /\ \A i, j \in Copies(n)' : i = j
                      /\ Copies(n)' # {} => n \notin orphans'
                      /\ Copies(n)' # {} \/ n \in orphans' => executed[n] = 0
                      /\ executed[n] \in {0, 1}
                      /\ n > run' \/ (n = run' /\ phase' = "connect") =>
                            Copies(n)' = {} /\ n \notin orphans' /\ executed[n] = 0
    BY DEF OnceInv
  <1>1. \A i \in Copies(n)' : i + k \in Copies(n)
    BY DEF Shifted
  <1>2. Copies(n) \subseteq Nat /\ Copies(n)' \subseteq Nat
    BY DEF Copies
  <1>3. \A i, j \in Copies(n)' : i = j
    BY <1>1, <1>2 DEF OnceInv
  <1>4. n \in InFlight => \E i \in Copies(n) : i <= Len(c2s)
    <2> SUFFICES ASSUME n \in InFlight PROVE \E i \in Copies(n) : i <= Len(c2s)
      OBVIOUS
    <2>1. PICK i \in 1 .. Len(c2s) : c2s[i] \in StartOf(n)
      BY DEF InFlight
    <2>2. i \in 1 .. Len(Wire) /\ Wire[i] = c2s[i]
      BY WireChunks DEF TypeOK, NetTypeOK
    <2>3. QED BY <2>1, <2>2 DEF Copies
  <1>5. Copies(n)' # {} => n \notin orphans'
    <2> SUFFICES ASSUME NEW i \in Copies(n)', n \in orphans' PROVE FALSE
      OBVIOUS
    <2>1. i + k \in Copies(n) /\ n \notin orphans
      BY <1>1 DEF OnceInv
    <2>2. n \in InFlight /\ k >= Len(c2s)
      BY <2>1, WireChunks
    <2>3. PICK j \in Copies(n) : j <= Len(c2s)
      BY <1>4, <2>2
    <2>4. j = i + k
      BY <2>1 DEF OnceInv
    <2>5. i \in 1 .. Len(Wire')
      BY DEF Copies
    <2>6. QED BY <2>2, <2>3, <2>4, <2>5, WireChunks
  <1>6. Copies(n)' # {} \/ n \in orphans' => executed[n] = 0
    BY <1>1, <1>4 DEF OnceInv
  <1>7. n > run' \/ (n = run' /\ phase' = "connect") =>
            Copies(n)' = {} /\ n \notin orphans' /\ executed[n] = 0
    BY <1>1, <1>4 DEF OnceInv, NotYet
  <1>8. QED BY <1>3, <1>5, <1>6, <1>7 DEF OnceInv
LEMMA OnceQuiet ==
    ASSUME TypeOK, OnceInv, UNCHANGED <<c2s, request_, srv, orphans, executed>>, NotYet
    PROVE  OnceInv'
  <1>1. ~Alive' => c2s' = <<>>
    BY DEF OnceInv, Alive
  <1>2. QED BY <1>1, ShiftNone, OnceKept

LEMMA OnceEnded ==
    ASSUME TypeOK, OnceInv, c2s' = <<>>, UNCHANGED <<request_, executed>>,
           orphans' \subseteq orphans \cup InFlight, NotYet
    PROVE  OnceInv'
  <1>1. Len(c2s) \in Nat
    BY DEF TypeOK, NetTypeOK
  <1>2. QED BY <1>1, ShiftEnded, OnceKept

LEMMA OrphanOf ==
    ASSUME Orphan
    PROVE  /\ orphans' \subseteq orphans \cup InFlight
           /\ srv' = srv => orphans' = orphans
           /\ executed' = executed
  BY DEF Orphan

LEMMA RunVarsNotYet == UNCHANGED runVars => NotYet
  BY DEF runVars, NotYet

\* A step of the thread inside a call of the connection.
LEMMA OnceCall ==
    ASSUME TypeOK, OnceInv, Step, Orphan, UNCHANGED runVars
    PROVE  OnceInv'
  <1> USE OrphanOf, RunVarsNotYet
  <1>1. CASE OpenSocket
    <2> DEFINE greeting == <<MAGIC, AUTH>>
    <2>1. c2s' = <<>> /\ request_' = request_ \o greeting
      BY <1>1 DEF OpenSocket, Dial
    <2>2. /\ greeting \in Seq(ClientChunk)
          /\ \A n \in Runs : \A i \in 1 .. Len(greeting) : greeting[i] \notin StartOf(n)
      BY ChunkTypes, StartsDiffer
    <2> HIDE DEF greeting
    <2>3. Shifted(Len(c2s)) /\ Len(c2s) \in Nat
      BY <2>1, <2>2, ShiftAll, WireChunks
    <2>4. QED BY <2>1, <2>3, OnceKept
  <1>2. CASE OpenThrow
    <2>1. CASE UNCHANGED netVars
      BY <1>2, <2>1, OnceQuiet DEF OpenThrow, netVars
    <2>2. ASSUME NEW s \in {"closed", "open"}, Hangup(s) PROVE OnceInv'
      BY <1>2, <2>2, OnceEnded DEF OpenThrow, Hangup
    <2>3. QED BY <1>2, <2>1, <2>2 DEF OpenThrow
  <1>3. CASE WriteSome
    <2>1. PICK k \in {0, 1} : Shifted(k)
      BY <1>3, ShiftSend
    <2>2. orphans' = orphans /\ srv' = srv
      BY <1>3 DEF WriteSome, Send
    <2>3. ~Alive' => c2s' = <<>>
      BY <1>3, <2>2 DEF WriteSome, Send, OnceInv, Alive
    <2>4. k \in Nat
      OBVIOUS
    <2>5. QED BY <2>1, <2>2, <2>3, <2>4, OnceKept
  <1>4. CASE WriteDone \/ WriteThrow \/ ReadUntil \/ ReadUntilThrow \/ Judge
    <2>1. UNCHANGED <<c2s, request_, srv>>
      BY <1>4 DEF WriteDone, WriteThrow, ReadUntil, ReadUntilThrow, Judge, Receive, netVars
    <2>2. QED BY <2>1, OnceQuiet
  <1>5. CASE ReadLength \/ ReadBlob \/ ReadGarbage \/ ReadThrow
    <2>1. UNCHANGED <<c2s, request_, srv>>
      BY <1>5 DEF ReadLength, ReadBlob, ReadGarbage, ReadThrow, Receive, netVars
    <2>2. QED BY <2>1, OnceQuiet
  <1>6. QED BY <1>1, <1>2, <1>3, <1>4, <1>5 DEF Step
\* What the server reads, or loses with the TCP connection, it loses from the
\* front of the wire.
LEMMA ShiftFront ==
    ASSUME TypeOK, NEW k \in 0 .. Len(c2s), c2s' = SubSeq(c2s, k + 1, Len(c2s)),
           request_' = request_
    PROVE  Shifted(k)
  <1>1. request_' = request_ \o <<>> /\ <<>> \in Seq(ClientChunk)
    BY ConcatEmptySeq, EmptySeq DEF TypeOK
  <1>2. \A n \in Runs : \A i \in 1 .. Len(<<>>) : <<>>[i] \notin StartOf(n)
    OBVIOUS
  <1>3. QED BY <1>1, <1>2, Shift

\* The server reads the greeting or a query that is no START, or gives up.
LEMMA OnceServer ==
    ASSUME TypeOK, OnceInv, UNCHANGED <<clientVars, runVars, orphans, executed>>,
           \/ Handshake
           \/ \E q, r : Serve(q, r)
    PROVE  OnceInv'
  <1>1. NotYet /\ request_' = request_
    BY RunVarsNotYet DEF clientVars
  <1>2. CASE Refuse
    BY <1>1, <1>2, OnceEnded DEF Refuse, Reject
  <1>3. CASE TakeMagic \/ Accept
    <2>1. /\ c2s \in Seq(ClientChunk) /\ c2s # <<>> /\ c2s' = Tail(c2s)
          /\ Alive' /\ Len(c2s) \in Nat
      BY <1>3 DEF TakeMagic, Accept, Alive, TypeOK, NetTypeOK
    <2>2. c2s' = SubSeq(c2s, 2, Len(c2s)) /\ 1 \in 0 .. Len(c2s)
      BY <2>1
    <2>3. Shifted(1)
      BY <1>1, <2>2, ShiftFront
    <2>4. QED BY <1>1, <2>1, <2>3, OnceKept
  <1>4. ASSUME NEW q, NEW r, Serve(q, r) PROVE OnceInv'
    <2>1. 2 \in 0 .. Len(c2s) /\ c2s' = SubSeq(c2s, 3, Len(c2s)) /\ Alive'
      BY <1>4 DEF Serve, Alive, TypeOK, NetTypeOK
    <2>2. Shifted(2)
      BY <1>1, <2>1, ShiftFront
    <2>3. QED BY <1>1, <2>1, <2>2, OnceKept
  <1>5. QED BY <1>2, <1>3, <1>4 DEF Handshake

\* The server takes up the query of a run that it finds on the wire: there is
\* no other copy of it.
LEMMA OnceStart ==
    ASSUME TypeOK, DriverTypeOK, OnceInv, UNCHANGED <<clientVars, runVars, orphans>>,
           NEW t \in Token, NEW n \in Runs, NEW r, Serve(StartQuery(t, n), r),
           executed' = [executed EXCEPT ![n] = @ + 1]
    PROVE  OnceInv'
  <1>1. /\ 2 \in 0 .. Len(c2s) /\ c2s' = SubSeq(c2s, 3, Len(c2s)) /\ Alive'
        /\ request_' = request_ /\ NotYet
    BY RunVarsNotYet DEF Serve, Alive, TypeOK, NetTypeOK, clientVars
  <1>2. Shifted(2)
    BY <1>1, ShiftFront
  <1>3. 2 \in Copies(n)
    <2>1. 2 \in 1 .. Len(Wire) /\ Wire[2] = Chunk("qblob", StartQuery(t, n))
      BY <1>1, WireChunks DEF Serve
    <2>2. QED BY <2>1, StartsDiffer DEF Copies
  <1>4. /\ n \notin orphans /\ executed[n] = 0
        /\ ~(n > run) /\ ~(n = run /\ phase = "connect")
    BY <1>3 DEF OnceInv
  <1>5. \A m \in Runs : Copies(m)' # {} => Copies(m) # {} /\ m # n
    <2> SUFFICES ASSUME NEW m \in Runs, NEW i \in Copies(m)'
                 PROVE  Copies(m) # {} /\ m # n
      OBVIOUS
    <2>1. i + 2 \in Copies(m)
      BY <1>2 DEF Shifted
    <2>2. i \in 1 .. Len(Wire')
      BY DEF Copies
    <2>3. m # n
      BY <1>3, <2>1, <2>2 DEF OnceInv
    <2>4. QED BY <2>1, <2>3
  <1>6. \A m \in Runs : \A i, j \in Copies(m)' : i = j
    <2> SUFFICES ASSUME NEW m \in Runs, NEW i \in Copies(m)', NEW j \in Copies(m)'
                 PROVE  i = j
      OBVIOUS
    <2>1. i + 2 = j + 2
      BY <1>2 DEF Shifted, OnceInv
    <2>2. i \in Int /\ j \in Int
      BY DEF Copies
    <2>3. QED BY <2>1, <2>2
  <1>7. /\ executed'[n] = 1 /\ \A m \in Runs : m # n => executed'[m] = executed[m]
    BY <1>4 DEF DriverTypeOK
  <1>8. UNCHANGED <<run, phase, orphans>>
    BY DEF runVars
  <1>9. QED BY <1>1, <1>4, <1>5, <1>6, <1>7, <1>8 DEF OnceInv
\* What the driver writes goes to the end of the wire.
LEMMA WireExtends ==
    ASSUME TypeOK, NEW f \in Seq(ClientChunk), c2s' = c2s, request_' = request_ \o f
    PROVE  Wire' = Wire \o f
  <1>1. c2s \in Seq(ClientChunk) /\ request_ \in Seq(ClientChunk)
    BY DEF TypeOK, NetTypeOK
  <1>2. (c2s \o request_) \o f = c2s \o (request_ \o f)
    BY <1>1, ConcatAssociative
  <1>3. QED BY <1>2 DEF Wire

\* run() writes its query: the only copy, as no earlier step wrote one.
LEMMA OnceWritten ==
    ASSUME TypeOK, DriverInv, OnceInv, Start
    PROVE  OnceInv'
  <1>1. PICK t \in Token : WriteQuery(StartQuery(t, run))
    BY DEF Start
  <1>2. /\ run \in Runs /\ phase = "connect" /\ phase' = "write" /\ run' = run
        /\ UNCHANGED <<c2s, srv, orphans, executed>>
    BY <1>1 DEF Start, DriverInv, PhaseInv, WriteQuery, serverVars, netVars
  <1> DEFINE f == QueryFrame(StartQuery(t, run))
  <1>3. /\ f \in Seq(ClientChunk) /\ Len(f) = 2
        /\ \A n : f[1] \notin StartOf(n)
        /\ \A n : f[2] \in StartOf(n) => n = run
    BY <1>2, ChunkTypes, Protobufs, StartsDiffer DEF QueryFrame
  <1>4. request_' = request_ \o f
    BY <1>1 DEF WriteQuery
  <1> HIDE DEF f
  <1>5. Wire' = Wire \o f
    BY <1>2, <1>3, <1>4, WireExtends
  <1>6. /\ Len(Wire') = Len(Wire) + 2 /\ Len(Wire) \in Nat
        /\ \A i \in 1 .. Len(Wire) : Wire'[i] = Wire[i]
        /\ Wire'[Len(Wire) + 1] = f[1] /\ Wire'[Len(Wire) + 2] = f[2]
    <2>1. Wire \in Seq(ClientChunk) /\ f \in Seq(ClientChunk)
      BY <1>3, WireChunks
    <2>2. /\ Len(Wire \o f) = Len(Wire) + Len(f) /\ Len(Wire) \in Nat
          /\ \A i \in 1 .. Len(Wire) : (Wire \o f)[i] = Wire[i]
          /\ \A i \in 1 .. Len(f) : (Wire \o f)[Len(Wire) + i] = f[i]
      BY <2>1, Concat
    <2>3. QED BY <1>3, <1>5, <2>2
  <1>7. \A n \in Runs : \A i \in Copies(n)' :
           i \in Copies(n) \/ (n = run /\ i = Len(Wire) + 2)
    <2> SUFFICES ASSUME NEW n \in Runs, NEW i \in 1 .. Len(Wire'), Wire'[i] \in StartOf(n)
                 PROVE  i \in Copies(n) \/ (n = run /\ i = Len(Wire) + 2)
      BY DEF Copies, StartOf
    <2>1. i \in 1 .. Len(Wire) \/ i = Len(Wire) + 1 \/ i = Len(Wire) + 2
      BY <1>6
    <2>2. QED BY <1>3, <1>6, <2>1 DEF Copies
  <1>8. Copies(run) = {} /\ run \notin orphans /\ executed[run] = 0
    BY <1>2 DEF OnceInv
  <1>9. \A n \in Runs : n > run => n # run
    BY <1>2 DEF Runs
  <1>10. ~Alive' => c2s' = <<>>
    BY <1>2 DEF OnceInv, Alive
  <1> SUFFICES ASSUME NEW n \in Runs
               PROVE  /\ \A i, j \in Copies(n)' : i = j
                      /\ Copies(n)' # {} => n \notin orphans
                      /\ Copies(n)' # {} \/ n \in orphans => executed[n] = 0
                      /\ executed[n] \in {0, 1}
                      /\ n > run => Copies(n)' = {} /\ n \notin orphans /\ executed[n] = 0
    BY <1>2, <1>10 DEF OnceInv
  <1>11. CASE n = run
    BY <1>2, <1>7, <1>8, <1>9, <1>11
  <1>12. CASE n # run
    BY <1>7, <1>12 DEF OnceInv
  <1>13. QED BY <1>11, <1>12

\* The inductive step of AtMostOnce.
THEOREM OnceInductive == DriverInv /\ OnceInv /\ [DriverNext]_driverVars => OnceInv'
  <1> SUFFICES ASSUME DriverInv, OnceInv, [DriverNext]_driverVars PROVE OnceInv'
    OBVIOUS
  <1> USE OrphanOf, RunVarsNotYet DEF DriverInv
  <1>1. CASE Step /\ Orphan /\ UNCHANGED runVars
    BY <1>1, OnceCall
  <1>2. CASE Run
    <2>1. NotYet
      BY <1>2 DEF Run, NotYet, DriverTypeOK, Runs
    <2>2. QED BY <1>2, <2>1, OnceQuiet DEF Run, Connect, ConnectAgain, netVars, serverVars
  <1>3. CASE Start
    BY <1>3, OnceWritten
  <1>4. CASE Read \/ Push \/ Return \/ RunThrow
    <2>1. NotYet
      BY <1>4 DEF Read, Push, Return, RunThrow, NotYet
    <2>2. QED BY <1>4, <2>1, OnceQuiet
              DEF Read, Push, Return, RunThrow, ReadResponse, vars, netVars, clientVars, serverVars
  <1>5. CASE Continue
    <2> DEFINE f == QueryFrame(ContinueQuery(token))
    <2>1. f \in Seq(ClientChunk) /\ \A n \in Runs : \A i \in 1 .. Len(f) : f[i] \notin StartOf(n)
      <3>1. ContinueQuery(token) \in Query
        BY Protobufs DEF DriverTypeOK
      <3>2. QED BY <3>1, ChunkTypes, StartsDiffer DEF QueryFrame
    <2>2. request_' = request_ \o f /\ UNCHANGED <<c2s, srv, orphans, executed>> /\ NotYet
      BY <1>5 DEF Continue, WriteQuery, netVars, serverVars, NotYet
    <2> HIDE DEF f
    <2>3. 0 \in 0 .. Len(c2s) /\ c2s' = SubSeq(c2s, 0 + 1, Len(c2s))
      BY <2>2, SubSeqFull DEF TypeOK, NetTypeOK
    <2>4. Shifted(0)
      BY <2>1, <2>2, <2>3, Shift
    <2>5. ~Alive' => c2s' = <<>>
      BY <2>2 DEF OnceInv, Alive
    <2>6. QED BY <2>2, <2>4, <2>5, OnceKept
  <1>6. CASE Caller
    <2>1. UNCHANGED <<request_, executed>> /\ NotYet
      BY <1>6 DEF Caller, Connect, ConnectAgain, Close, CloseThrow
    <2>2. CASE ConnectAgain \/ Connect
      BY <1>6, <2>1, <2>2, OnceQuiet DEF Caller, ConnectAgain, Connect, netVars
    <2>3. CASE Close \/ CloseThrow
      BY <1>6, <2>1, <2>3, OnceEnded DEF Caller, Close, CloseThrow, Hangup
    <2>4. QED BY <1>6, <2>2, <2>3 DEF Caller
  <1>7. CASE Greet /\ UNCHANGED <<clientVars, runVars>>
    <2>1. UNCHANGED <<orphans, executed>>
      BY <1>7 DEF Greet, serverVars
    <2>2. QED BY <1>7, <2>1, OnceServer DEF Greet
  <1>8. ASSUME NEW t \in Token, NEW n \in Runs, ServeStart(t, n), UNCHANGED <<clientVars, runVars>>
        PROVE  OnceInv'
    <2>1. orphans' = orphans /\ \E r : Serve(StartQuery(t, n), r)
      BY <1>8 DEF ServeStart
    <2>2. executed' = executed \/ executed' = [executed EXCEPT ![n] = @ + 1]
      BY <1>8 DEF ServeStart
    <2>3. QED BY <1>8, <2>1, <2>2, OnceServer, OnceStart
  <1>9. ASSUME NEW t \in Token, ServeContinue(t), UNCHANGED <<clientVars, runVars>>
        PROVE  OnceInv'
    BY <1>9, OnceServer DEF ServeContinue
  <1>10. ASSUME NEW n \in Runs, ServeOrphan(n) PROVE OnceInv'
    <2>1. /\ Copies(n) = {} /\ executed[n] = 0
          /\ ~(n > run) /\ ~(n = run /\ phase = "connect")
      BY <1>10 DEF ServeOrphan, OnceInv
    <2>2. /\ orphans' = orphans \ {n}
          /\ executed'[n] = 1 /\ \A m \in Runs : m # n => executed'[m] = executed[m]
      BY <1>10, <2>1 DEF ServeOrphan, DriverTypeOK
    <2>3. UNCHANGED <<c2s, request_, srv, run, phase>>
      BY <1>10 DEF ServeOrphan, vars, netVars, clientVars, runVars
    <2>4. \A m \in Runs : Copies(m)' = Copies(m)
      BY <2>3 DEF Copies, Wire, StartOf
    <2>5. QED BY <2>1, <2>2, <2>3, <2>4 DEF OnceInv, Alive
  <1>11. CASE Break /\ Orphan /\ UNCHANGED runVars
    BY <1>11, OnceEnded DEF Break, Drop, clientVars
  <1>12. CASE UNCHANGED driverVars
    BY <1>12, OnceQuiet DEF driverVars, vars, netVars, clientVars, serverVars, runVars
  <1>13. QED
    BY <1>1, <1>2, <1>3, <1>4, <1>5, <1>6, <1>7, <1>8, <1>9, <1>10, <1>11, <1>12
    DEF DriverNext, Thread, RethinkDB, Greet

LEMMA OnceInit == DriverInit => OnceInv
  <1> SUFFICES ASSUME DriverInit PROVE OnceInv
    OBVIOUS
  <1>1. c2s = <<>> /\ request_ = <<>> /\ orphans = {} /\ \A n \in Runs : executed[n] = 0
    BY DEF DriverInit, Init, NetInit
  <1>2. \A n : Copies(n) = {}
    BY <1>1 DEF Copies, Wire
  <1>3. QED BY <1>1, <1>2 DEF OnceInv

\* Whatever fails, the query of a run() is on the wire once, or an orphan, or
\* has been taken up.
THEOREM WhereQueriesAre == DriverSpec => []OnceInv
  BY OnceInit, DriverInitInv, DriverStep, OnceInductive, PTL DEF DriverSpec

\* The server takes up the query of a run() at most once and not before the
\* call, whatever fails, for any number of runs, tokens and batches.
THEOREM OnceSound == DriverSpec => []AtMostOnce
  <1>1. DriverInv /\ OnceInv => AtMostOnce
    BY DEF OnceInv, AtMostOnce, DriverInv, DriverTypeOK, Runs
  <1>2. QED
    BY <1>1, OnceInit, DriverInitInv, DriverStep, OnceInductive, PTL DEF DriverSpec
=============================================================================
