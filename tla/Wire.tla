-------------------------------- MODULE Wire --------------------------------
(***************************************************************************)
(* The wire format of protocol buffers, as the inline functions of         *)
(* coded_stream.h, wire_format_lite.h and wire_format_lite_inl.h write it  *)
(* to a sequence of bytes and read it back from one.  Words are W32 and    *)
(* W64 bits wide.  A float or double is the unsigned word with its bits.   *)
(***************************************************************************)
EXTENDS Integers, SequencesExt

CONSTANTS
    W32, W64,        \* the widths of uint32 and uint64
    RecursionLimit   \* CodedInputStream::default_recursion_limit_

ASSUME WireAssumption ==
    /\ W32 \in Nat /\ W64 \in Nat /\ RecursionLimit \in Nat
    /\ W32 % 8 = 0 /\ W64 % 8 = 0
    /\ 8 < W32 /\ W32 < W64

\* 2^n, seven doublings at a time where there are as many.
TwoTo[n \in Nat] ==
    IF n >= 7 THEN 128 * TwoTo[n - 7] ELSE IF n > 0 THEN 2 * TwoTo[n - 1] ELSE 1

Unsigned(n, w) == n % TwoTo[w]
Signed(n, w) == IF n < TwoTo[w - 1] THEN n ELSE n - TwoTo[w]

\* A number in digits of so many bits, the lowest first: the i-th of its
\* digits, and the number that has these digits.
Digit(n, bits, i) == (n \div TwoTo[bits * (i - 1)]) % TwoTo[bits]
Number(digits, bits) ==
    LET last[k \in 0 .. Len(digits)] ==
            IF k = 0 THEN 0
            ELSE digits[Len(digits) + 1 - k] + TwoTo[bits] * last[k - 1]
    IN  last[Len(digits)]

WIRETYPE_VARINT == 0
WIRETYPE_FIXED64 == 1
WIRETYPE_LENGTH_DELIMITED == 2
WIRETYPE_END_GROUP == 4
WIRETYPE_FIXED32 == 5

Fixed32Types == {"fixed32", "sfixed32", "float"}
Fixed64Types == {"fixed64", "sfixed64", "double"}
VarintTypes == {"int32", "int64", "uint32", "uint64", "sint32", "sint64", "bool", "enum"}
PrimitiveTypes == Fixed32Types \cup Fixed64Types \cup VarintTypes

WireTypeForFieldType(type) ==
    CASE type \in VarintTypes  -> WIRETYPE_VARINT
      [] type \in Fixed64Types -> WIRETYPE_FIXED64
      [] type \in Fixed32Types -> WIRETYPE_FIXED32
      [] OTHER                 -> WIRETYPE_LENGTH_DELIMITED

MakeTag(field_number, wire_type) == field_number * 8 + wire_type
GetTagWireType(tag) == tag % 8
GetTagFieldNumber(tag) == tag \div 8

\* (n << 1) ^ (n >> 31), and back.
ZigZagEncode(n) == IF n >= 0 THEN 2 * n ELSE (-2) * n - 1
ZigZagDecode(n) == IF n % 2 = 0 THEN n \div 2 ELSE (-1) * (n \div 2) - 1

-----------------------------------------------------------------------------
(* Sizes, computed before anything is written *)

\* The most bytes a varint takes: 10 for 64 bits.
MaxVarintBytes == (W64 + 6) \div 7

\* Seven bits to a byte.
VarintSize(n) ==
    CHOOSE k \in 1 .. MaxVarintBytes : n < TwoTo[7 * k] /\ (k = 1 \/ TwoTo[7 * (k - 1)] <= n)

VarintSize32SignExtended(n) == IF n < 0 THEN MaxVarintBytes ELSE VarintSize(n)

\* Mutant of Size: the size of an int32 is that of its 32 bits.
SizeTruncated(type, value) ==
    CASE type \in {"int32", "enum"}     -> VarintSize(Unsigned(value, W32))
      [] type = "int64"                 -> VarintSize(Unsigned(value, W64))
      [] type \in {"uint32", "uint64"}  -> VarintSize(value)
      [] type \in {"sint32", "sint64"}  -> VarintSize(ZigZagEncode(value))
      [] type \in Fixed32Types          -> W32 \div 8
      [] type \in Fixed64Types          -> W64 \div 8
      [] type = "bool"                  -> 1

Size(type, value) ==
    CASE type \in {"int32", "enum"}     -> VarintSize32SignExtended(value)
      [] type = "int64"                 -> VarintSize(Unsigned(value, W64))
      [] type \in {"uint32", "uint64"}  -> VarintSize(value)
      [] type \in {"sint32", "sint64"}  -> VarintSize(ZigZagEncode(value))
      [] type \in Fixed32Types          -> W32 \div 8
      [] type \in Fixed64Types          -> W64 \div 8
      [] type = "bool"                  -> 1

LengthDelimitedSize(length) == VarintSize(length) + length

-----------------------------------------------------------------------------
(* Writing *)

\* Seven bits to a byte, the lowest first, the top bit set in all but the last.
WriteVarint(n) ==
    LET size == VarintSize(n)
    IN  [i \in 1 .. size |-> Digit(n, 7, i) + IF i < size THEN 128 ELSE 0]

\* A negative int32 is written as a 64 bit integer.
WriteVarint32SignExtended(n) == WriteVarint(IF n < 0 THEN Unsigned(n, W64) ELSE n)

WriteLittleEndian(n, w) == [i \in 1 .. w \div 8 |-> Digit(n, 8, i)]

WriteTag(field_number, wire_type) == WriteVarint(MakeTag(field_number, wire_type))

WriteNoTag(type, value) ==
    CASE type \in {"int32", "enum"}    -> WriteVarint32SignExtended(value)
      [] type = "int64"                -> WriteVarint(Unsigned(value, W64))
      [] type \in {"uint32", "uint64"} -> WriteVarint(value)
      [] type \in {"sint32", "sint64"} -> WriteVarint(ZigZagEncode(value))
      [] type \in Fixed32Types         -> WriteLittleEndian(Unsigned(value, W32), W32)
      [] type \in Fixed64Types         -> WriteLittleEndian(Unsigned(value, W64), W64)
      [] type = "bool"                 -> WriteVarint(IF value THEN 1 ELSE 0)

Write(field_number, type, value) ==
    WriteTag(field_number, WireTypeForFieldType(type)) \o WriteNoTag(type, value)

\* A string, or a message whose bytes and cached size are given.
WriteDelimited(field_number, size, bytes) ==
    WriteTag(field_number, WIRETYPE_LENGTH_DELIMITED) \o WriteVarint(size) \o bytes

-----------------------------------------------------------------------------
(***************************************************************************)
(* Reading.  A CodedInputStream over a flat array: how many bytes have     *)
(* been read, the position of current_limit_, and the value of the last    *)
(* read.  ok is FALSE once something could not be read; the callers return *)
(* at once then.                                                           *)
(***************************************************************************)

Input(bytes) ==
    [buffer |-> bytes, position |-> 0, limit |-> Len(bytes), last_tag |-> 0,
     legitimate_message_end |-> FALSE, recursion_depth |-> 0, ok |-> TRUE, value |-> 0]

BytesUntilLimit(in) == in.limit - in.position
Ahead(in) == SubSeq(in.buffer, in.position + 1, in.limit)

Failed(in) == [in EXCEPT !.ok = FALSE]
Got(in, n, value) == [in EXCEPT !.position = @ + n, !.value = value]

\* Where a varint ahead may end; nowhere if it is cut off or too long.
VarintEnds(in) == {i \in 1 .. MaxVarintBytes : i <= BytesUntilLimit(in) /\ Ahead(in)[i] < 128}

VarintValue(bytes) == Number([i \in DOMAIN bytes |-> bytes[i] % 128], 7)

\* ReadVarint32 drops the bits above 32 and takes up to ten bytes all the same.
ReadVarint(in, w) ==
    LET read(n) == Got(in, n, Unsigned(VarintValue(SubSeq(Ahead(in), 1, n)), w))
    IN  IF VarintEnds(in) = {} THEN Failed(in) ELSE read(Min(VarintEnds(in)))

ReadLittleEndian(in, w) ==
    LET n == w \div 8
    IN  IF BytesUntilLimit(in) < n THEN Failed(in)
        ELSE Got(in, n, Number(SubSeq(Ahead(in), 1, n), 8))

ReadBytes(in, n) ==
    IF ~in.ok \/ n > BytesUntilLimit(in) THEN Failed(in)
    ELSE Got(in, n, SubSeq(Ahead(in), 1, n))
ReadPrefixed(length) == ReadBytes(length, length.value)
ReadString(in) == ReadPrefixed(ReadVarint(in, W32))

As(type, n) ==
    CASE type \in {"int32", "enum", "sfixed32"} -> Signed(n, W32)
      [] type \in {"int64", "sfixed64"}         -> Signed(n, W64)
      [] type \in {"sint32", "sint64"}          -> ZigZagDecode(n)
      [] type = "bool"                          -> n # 0
      [] OTHER                                  -> n

Width(type) == IF type \in {"int64", "uint64", "sint64"} THEN W64 ELSE W32

ReadRaw(type, in) ==
    CASE type \in VarintTypes  -> ReadVarint(in, Width(type))
      [] type \in Fixed32Types -> ReadLittleEndian(in, W32)
      [] type \in Fixed64Types -> ReadLittleEndian(in, W64)
Interpreted(type, raw) == IF raw.ok THEN [raw EXCEPT !.value = As(type, @)] ELSE raw

\* Mutant of ReadPrimitive: a zigzag number is read as it stands.
ReadPrimitivePlain(type, in) ==
    LET plain == [sint32 |-> "int32", sint64 |-> "int64"]
    IN  Interpreted(IF type \in DOMAIN plain THEN plain[type] ELSE type, ReadRaw(type, in))

ReadPrimitive(type, in) == Interpreted(type, ReadRaw(type, in))

\* The next tag, or 0 at the end, where a message may end, and for no tag.
Tagged(read) == [read EXCEPT !.last_tag = IF read.ok THEN read.value ELSE 0, !.ok = TRUE]
ReadTag(in) ==
    IF BytesUntilLimit(in) = 0
    THEN [in EXCEPT !.last_tag = 0, !.legitimate_message_end = TRUE]
    ELSE Tagged(ReadVarint(in, W32))

IncrementRecursionDepth(in) ==
    [in EXCEPT !.recursion_depth = @ + 1, !.ok = in.recursion_depth + 1 <= RecursionLimit]

DecrementRecursionDepth(in) ==
    [in EXCEPT !.recursion_depth = IF @ > 0 THEN @ - 1 ELSE @]

\* The shortest limit of those pushed is enforced.
PushLimit(in, byte_limit) ==
    [in EXCEPT !.limit = IF in.position + byte_limit < @ THEN in.position + byte_limit ELSE @]

PopLimit(in, limit) == [in EXCEPT !.limit = limit, !.legitimate_message_end = FALSE]
=============================================================================
