----------------------------- MODULE Primitives -----------------------------
(***************************************************************************)
(* A number is written as one type and read as another one that shares its *)
(* encoding, as happens between programs with different versions of a      *)
(* .proto file; on the way the last of its bytes may be lost.              *)
(***************************************************************************)
EXTENDS Wire

CONSTANT WrittenNumbers   \* the numbers that are written, where the type holds them

ASSUME WrittenAssumption == WrittenNumbers \subseteq Int

VARIABLES
    writer, reader,   \* the types
    number,           \* what is written
    bytes,            \* what it is written to
    stream            \* what is read from them, when it has been read
pvars == <<writer, reader, number, bytes, stream>>

Signed32 == {"int32", "sint32", "sfixed32"}
Signed64 == {"int64", "sint64", "sfixed64"}

\* The numbers a type holds, from lowest(t) to highest(t).
WidthOf(t) == IF t \in {"int64", "uint64", "sint64"} \cup Fixed64Types THEN W64 ELSE W32
IsSigned(t) == t \in Signed32 \cup Signed64 \cup {"enum"}
lowest(t) == IF IsSigned(t) THEN -TwoTo[WidthOf(t) - 1] ELSE 0
highest(t) == TwoTo[IF IsSigned(t) THEN WidthOf(t) - 1 ELSE WidthOf(t)] - 1
Holds(t, n) == lowest(t) <= n /\ n <= highest(t)

SharedEncodings ==
    {{"int32", "int64", "uint32", "uint64", "enum"}, {"sint32", "sint64"},
     {"fixed32", "sfixed32"}, {"fixed64", "sfixed64"}, {"float"}, {"double"}}

Unread == Input(<<>>)

PrimitiveInit ==
    /\ \E types \in SharedEncodings : writer \in types /\ reader \in types
    /\ number \in {n \in WrittenNumbers : Holds(writer, n)}
    /\ bytes = <<>>
    /\ stream = Unread

WriteNumber ==
    /\ bytes = <<>>
    /\ bytes' = WriteNoTag(writer, number)
    /\ UNCHANGED <<writer, reader, number, stream>>

LoseByte ==
    /\ bytes # <<>> /\ stream = Unread
    /\ bytes' = Front(bytes)
    /\ UNCHANGED <<writer, reader, number, stream>>

ReadNumber ==
    /\ bytes # <<>> /\ stream = Unread
    /\ stream' = ReadPrimitive(reader, Input(bytes))
    /\ UNCHANGED <<writer, reader, number, bytes>>

PrimitiveNext == WriteNumber \/ LoseByte \/ ReadNumber
PrimitiveSpec == PrimitiveInit /\ [][PrimitiveNext]_pvars

-----------------------------------------------------------------------------
(***************************************************************************)
(* A type that can hold a number reads what another type of the same       *)
(* encoding wrote: negative numbers are extended to 64 bits when they are  *)
(* written, whatever their type, and cut to 32 when they are read.         *)
(***************************************************************************)
ReadsWhatWasWritten ==
    stream # Unread /\ bytes = WriteNoTag(writer, number) =>
        /\ stream.ok /\ BytesUntilLimit(stream) = 0
        /\ Holds(reader, number) => stream.value = number

(***************************************************************************)
(* A number of which bytes are missing is not read as another number: the  *)
(* read fails, and every caller returns at once.                           *)
(***************************************************************************)
CutIsNoticed ==
    stream # Unread => (stream.ok <=> Len(bytes) = Size(writer, number))
=============================================================================
