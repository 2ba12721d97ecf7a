------------------------------ MODULE Messages ------------------------------
(***************************************************************************)
(* The message classes generated from ql2.proto (ql2.pb.h, ql2.pb.cc): how *)
(* they store their fields and how they are cleared, merged, swapped,      *)
(* serialized and parsed.                                                  *)
(*                                                                         *)
(* A message is its has-bits, a cell for each field, its unknown fields    *)
(* and its cached size.  What distinguishes the classes is in the tables   *)
(* of Schema; the member functions follow them.  The extension sets of     *)
(* Datum and Term are left out: no extension is registered, so they stay   *)
(* empty and what arrives in their range is unknown.                       *)
(***************************************************************************)
EXTENDS Wire, FiniteSets, TLC

CONSTANTS
    NULL,       \* a pointer to nothing, or of a string to kEmptyString
    Objects,    \* the messages the program has, all of one class
    Roots,      \* the classes they are taken from
    MaxSteps    \* bound: the calls the program makes

-----------------------------------------------------------------------------
(***************************************************************************)
(* The classes, each in the six parts that its code repeats the fields     *)
(* in: the declarations, the constructor's defaults, the has-bits of the   *)
(* accessors, the cases of the parser, the order of the serializers, and   *)
(* the fields that ByteSize, MergeFrom and Clear look at only if a has-bit *)
(* of their block of eight is set.                                         *)
(***************************************************************************)
Scalar(type) == [kind |-> "scalar", type |-> type]
String     == [kind |-> "string"]
Message(c) == [kind |-> "message", class |-> c]
List(c)    == [kind |-> "list", class |-> c]

VersionDummy_Fields == <<>>
VersionDummy_Defaults == <<>>
VersionDummy_HasBits == <<>>
VersionDummy_Cases == <<>>
VersionDummy_Order == <<>>
VersionDummy_Blocks == <<>>

Query_AssocPair_Fields == [key |-> String, val |-> Message("Term")]
Query_AssocPair_Defaults == <<>>
Query_AssocPair_HasBits == [key |-> 0, val |-> 1]
Query_AssocPair_Cases == 1 :> "key" @@ 2 :> "val"
Query_AssocPair_Order == <<<<1, "key">>, <<2, "val">>>>
Query_AssocPair_Blocks == <<{"key", "val"}>>

Query_QueryType == 1 .. 3
Query_Fields ==
    [type |-> Scalar("enum"), query |-> Message("Term"), token |-> Scalar("int64"),
     OBSOLETE_noreply |-> Scalar("bool"), global_optargs |-> List("Query_AssocPair")]
Query_Defaults == [type |-> 1, token |-> 0, OBSOLETE_noreply |-> FALSE]
Query_HasBits == [type |-> 0, query |-> 1, token |-> 2, OBSOLETE_noreply |-> 3]
Query_Cases ==
    1 :> "type" @@ 2 :> "query" @@ 3 :> "token" @@ 4 :> "OBSOLETE_noreply" @@
    6 :> "global_optargs"
Query_Order ==
    <<<<1, "type">>, <<2, "query">>, <<3, "token">>, <<4, "OBSOLETE_noreply">>,
      <<6, "global_optargs">>>>
Query_Blocks == <<{"type", "query", "token", "OBSOLETE_noreply"}>>

Frame_FrameType == 1 .. 2
Frame_Fields == [type |-> Scalar("enum"), pos |-> Scalar("int64"), opt |-> String]
Frame_Defaults == [type |-> 1, pos |-> 0]
Frame_HasBits == [type |-> 0, pos |-> 1, opt |-> 2]
Frame_Cases == 1 :> "type" @@ 2 :> "pos" @@ 3 :> "opt"
Frame_Order == <<<<1, "type">>, <<2, "pos">>, <<3, "opt">>>>
Frame_Blocks == <<{"type", "pos", "opt"}>>

Backtrace_Fields == [frames |-> List("Frame")]
Backtrace_Defaults == <<>>
Backtrace_HasBits == <<>>
Backtrace_Cases == 1 :> "frames"
Backtrace_Order == <<<<1, "frames">>>>
Backtrace_Blocks == <<>>

Response_ResponseType == 1 .. 3 \cup 16 .. 18
Response_Fields ==
    [type |-> Scalar("enum"), token |-> Scalar("int64"),
     response |-> List("Datum"), backtrace |-> Message("Backtrace")]
Response_Defaults == [type |-> 1, token |-> 0]
Response_HasBits == [type |-> 0, token |-> 1, backtrace |-> 3]
Response_Cases == 1 :> "type" @@ 2 :> "token" @@ 3 :> "response" @@ 4 :> "backtrace"
Response_Order == <<<<1, "type">>, <<2, "token">>, <<3, "response">>, <<4, "backtrace">>>>
Response_Blocks == <<{"type", "token", "backtrace"}>>

Datum_AssocPair_Fields == [key |-> String, val |-> Message("Datum")]
Datum_AssocPair_Defaults == <<>>
Datum_AssocPair_HasBits == [key |-> 0, val |-> 1]
Datum_AssocPair_Cases == 1 :> "key" @@ 2 :> "val"
Datum_AssocPair_Order == <<<<1, "key">>, <<2, "val">>>>
Datum_AssocPair_Blocks == <<{"key", "val"}>>

Datum_DatumType == 1 .. 6
Datum_Fields ==
    [type |-> Scalar("enum"), r_bool |-> Scalar("bool"),
     r_num |-> Scalar("double"), r_str |-> String,
     r_array |-> List("Datum"), r_object |-> List("Datum_AssocPair")]
Datum_Defaults == [type |-> 1, r_bool |-> FALSE, r_num |-> 0]
Datum_HasBits == [type |-> 0, r_bool |-> 1, r_num |-> 2, r_str |-> 3]
Datum_Cases ==
    1 :> "type" @@ 2 :> "r_bool" @@ 3 :> "r_num" @@ 4 :> "r_str" @@
    5 :> "r_array" @@ 6 :> "r_object"
Datum_Order ==
    <<<<1, "type">>, <<2, "r_bool">>, <<3, "r_num">>, <<4, "r_str">>,
      <<5, "r_array">>, <<6, "r_object">>>>
Datum_Blocks == <<{"type", "r_bool", "r_num", "r_str"}>>

Term_AssocPair_Fields == [key |-> String, val |-> Message("Term")]
Term_AssocPair_Defaults == <<>>
Term_AssocPair_HasBits == [key |-> 0, val |-> 1]
Term_AssocPair_Cases == 1 :> "key" @@ 2 :> "val"
Term_AssocPair_Order == <<<<1, "key">>, <<2, "val">>>>
Term_AssocPair_Blocks == <<{"key", "val"}>>

Term_TermType == 1 .. 3 \cup 10 .. 62 \cup 64 .. 137
Term_Fields ==
    [type |-> Scalar("enum"), datum |-> Message("Datum"),
     args |-> List("Term"), optargs |-> List("Term_AssocPair")]
Term_Defaults == [type |-> 1]
Term_HasBits == [type |-> 0, datum |-> 1]
Term_Cases == 1 :> "type" @@ 2 :> "datum" @@ 3 :> "args" @@ 4 :> "optargs"
Term_Order == <<<<1, "type">>, <<2, "datum">>, <<3, "args">>, <<4, "optargs">>>>
Term_Blocks == <<{"type", "datum"}>>

Class(fields, defaults, has_bits, cases, order, blocks, valid) ==
    [fields |-> fields, defaults |-> defaults, has_bits |-> has_bits,
     cases |-> cases, order |-> order, blocks |-> blocks, valid |-> valid]

Schema ==
    [VersionDummy |->
        Class(VersionDummy_Fields, VersionDummy_Defaults, VersionDummy_HasBits,
              VersionDummy_Cases, VersionDummy_Order, VersionDummy_Blocks, {}),
     Query_AssocPair |->
        Class(Query_AssocPair_Fields, Query_AssocPair_Defaults, Query_AssocPair_HasBits,
              Query_AssocPair_Cases, Query_AssocPair_Order, Query_AssocPair_Blocks, {}),
     Query |->
        Class(Query_Fields, Query_Defaults, Query_HasBits,
              Query_Cases, Query_Order, Query_Blocks, Query_QueryType),
     Frame |->
        Class(Frame_Fields, Frame_Defaults, Frame_HasBits,
              Frame_Cases, Frame_Order, Frame_Blocks, Frame_FrameType),
     Backtrace |->
        Class(Backtrace_Fields, Backtrace_Defaults, Backtrace_HasBits,
              Backtrace_Cases, Backtrace_Order, Backtrace_Blocks, {}),
     Response |->
        Class(Response_Fields, Response_Defaults, Response_HasBits,
              Response_Cases, Response_Order, Response_Blocks, Response_ResponseType),
     Datum_AssocPair |->
        Class(Datum_AssocPair_Fields, Datum_AssocPair_Defaults, Datum_AssocPair_HasBits,
              Datum_AssocPair_Cases, Datum_AssocPair_Order, Datum_AssocPair_Blocks, {}),
     Datum |->
        Class(Datum_Fields, Datum_Defaults, Datum_HasBits,
              Datum_Cases, Datum_Order, Datum_Blocks, Datum_DatumType),
     Term_AssocPair |->
        Class(Term_AssocPair_Fields, Term_AssocPair_Defaults, Term_AssocPair_HasBits,
              Term_AssocPair_Cases, Term_AssocPair_Order, Term_AssocPair_Blocks, {}),
     Term |->
        Class(Term_Fields, Term_Defaults, Term_HasBits,
              Term_Cases, Term_Order, Term_Blocks, Term_TermType)]

Fields(m) == DOMAIN Schema[m.class].fields
FieldOf(m, f) == Schema[m.class].fields[f]
Default(m, f) == Schema[m.class].defaults[f]
Kind(m, f) == FieldOf(m, f).kind
Lists(m) == {f \in Fields(m) : Kind(m, f) = "list"}

ASSUME MessagesAssumption == Roots \subseteq DOMAIN Schema

-----------------------------------------------------------------------------
(* Construction, accessors *)

\* RepeatedPtrField: the messages it has allocated, of which the first size
\* are its elements; the others are cleared and wait to be used again.
NoElements == [allocated |-> <<>>, size |-> 0]

New(c) ==
    LET fields == Schema[c].fields
        initial(f) == CASE fields[f].kind = "scalar" -> Schema[c].defaults[f]
                        [] fields[f].kind = "list"   -> NoElements
                        [] OTHER                     -> NULL
    IN  [class |-> c, has_bits |-> {}, unknown |-> <<>>, cached_size |-> 0,
         cells |-> [f \in DOMAIN fields |-> initial(f)]]

has(m, f) == Schema[m.class].has_bits[f] \in m.has_bits
set_has(m, f) == [m EXCEPT !.has_bits = @ \cup {Schema[m.class].has_bits[f]}]
clear_has(m, f) == [m EXCEPT !.has_bits = @ \ {Schema[m.class].has_bits[f]}]

\* What the accessor f() returns; of a message, the default instance if none.
get(m, f) ==
    CASE m.cells[f] # NULL        -> m.cells[f]
      [] Kind(m, f) = "string"    -> <<>>
      [] Kind(m, f) = "message"   -> New(FieldOf(m, f).class)

set(m, f, v) == [set_has(m, f) EXCEPT !.cells[f] = v]
mutable(m, f) == set(m, f, get(m, f))

\* Add() takes a cleared element if there is one.
Extended(l, c) ==
    [allocated |-> IF l.size < Len(l.allocated) THEN l.allocated ELSE Append(l.allocated, New(c)),
     size      |-> l.size + 1]
SetLast(l, m) == [l EXCEPT !.allocated[l.size] = m]

-----------------------------------------------------------------------------
(* Clear, MergeFrom and CopyFrom, as what they make of a message *)

\* if (_has_bits_[0 / 32] & (0xffu << (0 % 32)))
Looked(m) ==
    LET blocks == Schema[m.class].blocks
    IN  UNION {blocks[k] : k \in {i \in DOMAIN blocks : \E b \in m.has_bits : b \div 8 = i - 1}}

RECURSIVE Cleared(_)

\* Mutant of ClearList: the elements are cleared when they are used again.
ClearListLazy(l) == [l EXCEPT !.size = 0]

ClearList(l) ==
    [allocated |-> [i \in DOMAIN l.allocated |->
                       IF i <= l.size THEN Cleared(l.allocated[i]) ELSE l.allocated[i]],
     size      |-> 0]

Shortened(l) == [allocated |-> [l.allocated EXCEPT ![l.size] = Cleared(@)], size |-> l.size - 1]

\* clear_f() without its bit: a string and a message keep what they allocated.
ClearCell(m, f) ==
    CASE Kind(m, f) = "scalar" -> Default(m, f)
      [] Kind(m, f) = "list"   -> ClearList(m.cells[f])
      [] m.cells[f] = NULL     -> NULL
      [] Kind(m, f) = "string" -> <<>>
      [] OTHER                 -> Cleared(m.cells[f])

clear(m, f) ==
    IF Kind(m, f) = "list" THEN [m EXCEPT !.cells[f] = ClearCell(m, f)]
    ELSE [clear_has(m, f) EXCEPT !.cells[f] = ClearCell(m, f)]

\* A scalar is reset if its block is looked at, the others if they are set.
Cleared(m) ==
    LET reset == {f \in Looked(m) : Kind(m, f) = "scalar" \/ has(m, f)}
    IN  [m EXCEPT !.cells = [f \in Fields(m) |->
                                IF f \in Lists(m) \cup reset THEN ClearCell(m, f)
                                ELSE m.cells[f]],
                  !.has_bits = {},
                  !.unknown = <<>>]

RECURSIVE MergedFrom(_, _)

\* TypeHandler::Merge(other.Get(i), Add()) for every element of the other.
MergeList(l, other, c) ==
    LET size == l.size + other.size
        added(i) == IF i <= Len(l.allocated) THEN l.allocated[i] ELSE New(c)
    IN  [allocated |-> [i \in 1 .. Max({size, Len(l.allocated)}) |->
                           IF i \in l.size + 1 .. size
                           THEN MergedFrom(added(i), other.allocated[i - l.size])
                           ELSE l.allocated[i]],
         size      |-> size]

\* Mutant of MergeCell: a message that is there already is overwritten.
MergeCellOver(m, from, f) ==
    IF Kind(m, f) = "list" THEN MergeList(m.cells[f], from.cells[f], FieldOf(m, f).class)
    ELSE get(from, f)

MergeCell(m, from, f) ==
    CASE Kind(m, f) = "list"    -> MergeList(m.cells[f], from.cells[f], FieldOf(m, f).class)
      [] Kind(m, f) = "message" -> MergedFrom(get(m, f), get(from, f))
      [] OTHER                  -> get(from, f)

\* The lists, and the fields that are set in the other.
MergedFrom(m, from) ==
    LET merged == Lists(m) \cup {f \in Looked(from) : has(from, f)}
    IN  [m EXCEPT !.cells = [f \in Fields(m) |-> IF f \in merged THEN MergeCell(m, from, f)
                                                 ELSE m.cells[f]],
                  !.has_bits = @ \cup from.has_bits,
                  !.unknown = @ \o from.unknown]

CopiedFrom(m, from) == MergedFrom(Cleared(m), from)

-----------------------------------------------------------------------------
(***************************************************************************)
(* ByteSize, which also leaves the size of every message in it, and the    *)
(* serializers, which write those sizes before the messages.  An unknown   *)
(* field is <<number, wire type, the bytes after its tag>>.                *)
(***************************************************************************)

RECURSIVE Sized(_)

SizedCell(m, f) ==
    CASE Kind(m, f) = "message" /\ has(m, f) -> Sized(m.cells[f])
      [] Kind(m, f) = "list" ->
            LET l == m.cells[f]
            IN  [l EXCEPT !.allocated = [i \in DOMAIN l.allocated |->
                    IF i <= l.size THEN Sized(l.allocated[i]) ELSE l.allocated[i]]]
      [] OTHER -> m.cells[f]

\* A tag takes one byte: no field has a number above 15.
FieldSize(m, f) ==
    CASE Kind(m, f) = "scalar"  -> 1 + Size(FieldOf(m, f).type, m.cells[f])
      [] Kind(m, f) = "string"  -> 1 + LengthDelimitedSize(Len(get(m, f)))
      [] Kind(m, f) = "message" -> 1 + LengthDelimitedSize(m.cells[f].cached_size)
      [] Kind(m, f) = "list"    ->
            FoldFunction(+, 0, [i \in 1 .. m.cells[f].size |->
                1 + LengthDelimitedSize(m.cells[f].allocated[i].cached_size)])

Written(m) == Lists(m) \cup {f \in Looked(m) \ Lists(m) : has(m, f)}

UnknownFieldsSize(m) ==
    FoldFunction(+, 0, [i \in DOMAIN m.unknown |->
        VarintSize(MakeTag(m.unknown[i][1], m.unknown[i][2])) + Len(m.unknown[i][3])])

\* Mutant of Sized: the unknown fields are not counted.
SizedKnown(m) ==
    LET inner == [m EXCEPT !.cells = [f \in Fields(m) |-> SizedCell(m, f)]]
    IN  [inner EXCEPT !.cached_size =
            FoldFunction(+, 0, [f \in Written(inner) |-> FieldSize(inner, f)])]

Sized(m) ==
    LET inner == [m EXCEPT !.cells = [f \in Fields(m) |-> SizedCell(m, f)]]
    IN  [inner EXCEPT !.cached_size =
            FoldFunction(+, 0, [f \in Written(inner) |-> FieldSize(inner, f)])
              + UnknownFieldsSize(inner)]

ByteSize(m) == Sized(m).cached_size

RECURSIVE SerializeWithCachedSizes(_)

WriteMessage(number, m) ==
    WriteDelimited(number, m.cached_size, SerializeWithCachedSizes(m))

WriteField(m, number, f) ==
    CASE Kind(m, f) = "list" ->
            FlattenSeq([i \in 1 .. m.cells[f].size |->
                            WriteMessage(number, m.cells[f].allocated[i])])
      [] Kind(m, f) # "list" /\ ~has(m, f) -> <<>>
      [] Kind(m, f) = "scalar" /\ has(m, f) -> Write(number, FieldOf(m, f).type, m.cells[f])
      [] Kind(m, f) = "string" /\ has(m, f) ->
            WriteDelimited(number, Len(get(m, f)), get(m, f))
      [] Kind(m, f) = "message" /\ has(m, f) -> WriteMessage(number, m.cells[f])

SerializeUnknownFields(m) ==
    FlattenSeq([i \in DOMAIN m.unknown |->
                    WriteTag(m.unknown[i][1], m.unknown[i][2]) \o m.unknown[i][3]])

SerializeWithCachedSizes(m) ==
    LET order == Schema[m.class].order
    IN  FlattenSeq([i \in DOMAIN order |-> WriteField(m, order[i][1], order[i][2])])
          \o SerializeUnknownFields(m)

-----------------------------------------------------------------------------
(***************************************************************************)
(* MergePartialFromCodedStream.  ExpectTag and its goto only save the      *)
(* switch a round.  The classes have no groups, and no message read here   *)
(* has one.                                                                *)
(***************************************************************************)

Result(m, in) == [message |-> m, in |-> in]

WireTypeOf(m, f) ==
    IF Kind(m, f) = "scalar" THEN WireTypeForFieldType(FieldOf(m, f).type)
    ELSE WIRETYPE_LENGTH_DELIMITED

AddUnknown(m, number, wire_type, bytes) ==
    [m EXCEPT !.unknown = Append(@, <<number, wire_type, bytes>>)]

\* WireFormat::SkipField: the field is kept as an unknown one.
Skip(in) ==
    CASE GetTagWireType(in.last_tag) = WIRETYPE_VARINT           -> ReadVarint(in, W64)
      [] GetTagWireType(in.last_tag) = WIRETYPE_FIXED64          -> ReadLittleEndian(in, W64)
      [] GetTagWireType(in.last_tag) = WIRETYPE_LENGTH_DELIMITED -> ReadString(in)
      [] GetTagWireType(in.last_tag) = WIRETYPE_FIXED32          -> ReadLittleEndian(in, W32)
Payload(wire_type, value) ==
    CASE wire_type = WIRETYPE_VARINT           -> WriteVarint(value)
      [] wire_type = WIRETYPE_FIXED64          -> WriteLittleEndian(value, W64)
      [] wire_type = WIRETYPE_LENGTH_DELIMITED -> WriteVarint(Len(value)) \o value
      [] wire_type = WIRETYPE_FIXED32          -> WriteLittleEndian(value, W32)
Skipped(m, read) ==
    LET wire_type == GetTagWireType(read.last_tag)
    IN  Result(IF read.ok THEN AddUnknown(m, GetTagFieldNumber(read.last_tag), wire_type,
                                          Payload(wire_type, read.value))
               ELSE m, read)
SkipField(m, in) == Skipped(m, Skip(in))

\* A number that is no enumerator is kept as an unknown field.
KeepScalar(m, f, read) ==
    CASE ~read.ok -> Result(m, read)
      [] read.ok /\ FieldOf(m, f).type = "enum" /\ read.value \notin Schema[m.class].valid ->
            Result(AddUnknown(m, GetTagFieldNumber(read.last_tag), WIRETYPE_VARINT,
                              WriteVarint(Unsigned(read.value, W64))), read)
      [] OTHER -> Result(set(m, f, read.value), read)

KeepString(m, f, read) ==
    Result(IF read.ok THEN set(m, f, read.value) ELSE mutable(m, f), read)

RECURSIVE MergePartialFromCodedStream(_, _)

\* A message of a given length, not more than RecursionLimit deep.
CloseMessage(body, limit) ==
    Result(body.message,
           IF body.in.ok /\ body.in.legitimate_message_end
           THEN DecrementRecursionDepth(PopLimit(body.in, limit))
           ELSE Failed(body.in))
ReadBody(m, in) ==
    IF in.ok
    THEN CloseMessage(MergePartialFromCodedStream(m, PushLimit(in, in.value)), in.limit)
    ELSE Result(m, in)
Deeper(m, length) ==
    IF length.ok THEN ReadBody(m, IncrementRecursionDepth(length)) ELSE Result(m, length)
ReadMessage(m, in) == Deeper(m, ReadVarint(in, W32))

KeepMessage(m, f, read) == Result(set(m, f, read.message), read.in)
KeepElement(m, f, more, read) ==
    Result([m EXCEPT !.cells[f] = SetLast(more, read.message)], read.in)
ReadElement(m, f, more, in) ==
    KeepElement(m, f, more, ReadMessage(more.allocated[more.size], in))

ReadField(m, f, in) ==
    CASE Kind(m, f) = "scalar"  -> KeepScalar(m, f, ReadPrimitive(FieldOf(m, f).type, in))
      [] Kind(m, f) = "string"  -> KeepString(m, f, ReadString(in))
      [] Kind(m, f) = "message" -> KeepMessage(m, f, ReadMessage(get(m, f), in))
      [] Kind(m, f) = "list"    -> ReadElement(m, f, Extended(m.cells[f], FieldOf(m, f).class), in)

\* The case of the switch that takes the tag just read; none if it is unknown.
CasesFor(m, tag) ==
    {n \in DOMAIN Schema[m.class].cases :
        /\ n = GetTagFieldNumber(tag)
        /\ WireTypeOf(m, Schema[m.class].cases[n]) = GetTagWireType(tag)}

Proceed(step) ==
    IF step.in.ok THEN MergePartialFromCodedStream(step.message, step.in) ELSE step
Switch(m, in) ==
    CASE in.last_tag = 0 -> Result(m, in)
      [] in.last_tag # 0 /\ CasesFor(m, in.last_tag) # {} ->
            Proceed(ReadField(m, Schema[m.class].cases[GetTagFieldNumber(in.last_tag)], in))
      [] OTHER -> IF GetTagWireType(in.last_tag) = WIRETYPE_END_GROUP THEN Result(m, in)
                  ELSE Proceed(SkipField(m, in))
MergePartialFromCodedStream(m, in) == Switch(m, ReadTag(in))

\* Clears the message first.  TRUE if all was read.
ParseFromArray(m, bytes) == MergePartialFromCodedStream(Cleared(m), Input(bytes))
Parsed(result) == result.in.ok /\ result.in.legitimate_message_end

-----------------------------------------------------------------------------
(***************************************************************************)
(* What a program does with two messages of a class and with a string of   *)
(* bytes that it serializes to and parses from.                            *)
(***************************************************************************)

VARIABLES
    class,     \* of the messages
    object,    \* the messages
    wire,      \* the bytes last written, or received
    parsed,    \* what the last ParseFromArray returned
    calls,     \* how many calls were made
    value,     \* history: the values of the messages, and
    sent       \* of the message in wire
mvars == <<class, object, wire, parsed, calls, value, sent>>

SampleScalar(d, valid) ==
    CASE d.type = "enum"   -> Max(valid)
      [] d.type = "int64"  -> -1
      [] d.type = "double" -> 2^(W64 - 2)
      [] d.type = "bool"   -> TRUE

\* A message whose fields are all set, with messages in them up to a depth.
RECURSIVE Full(_, _)
Full(c, depth) ==
    LET fields == Schema[c].fields
        inner(f) == Full(fields[f].class, depth - 1)
        filled == {f \in DOMAIN fields : fields[f].kind \in {"scalar", "string"} \/ depth > 0}
        full(f) == CASE fields[f].kind = "scalar"  -> SampleScalar(fields[f], Schema[c].valid)
                     [] fields[f].kind = "string"  -> <<65>>
                     [] fields[f].kind = "message" -> inner(f)
                     [] fields[f].kind = "list"    -> [allocated |-> <<inner(f)>>, size |-> 1]
    IN  [New(c) EXCEPT
            !.cells = [f \in DOMAIN fields |-> IF f \in filled THEN full(f) ELSE @[f]],
            !.has_bits = {Schema[c].has_bits[f] : f \in filled \cap DOMAIN Schema[c].has_bits}]

\* Of a peer with a newer ql2.proto: a new enumerator, new fields, one of another type.
Newer(c) ==
    LET full == Full(c, 1)
        typed == IF "type" \in Fields(full) THEN set(full, "type", 2000) ELSE full
    IN  [typed EXCEPT !.unknown = <<<<100, WIRETYPE_VARINT, <<5>>>>,
                                    <<7, WIRETYPE_LENGTH_DELIMITED, <<1, 66>>>>,
                                    <<1, WIRETYPE_FIXED32, WriteLittleEndian(7, W32)>>>>]

\* What the messages start as, and what comes from other programs.
Samples == [c \in Roots |-> {New(c), Full(c, 1)}]
Arrivals == [c \in Roots |-> {Newer(c), Full(c, RecursionLimit), Full(c, RecursionLimit + 1)}]

ScalarValues(c, d) ==
    CASE d.type = "enum"   -> {Min(Schema[c].valid), Max(Schema[c].valid)}
      [] d.type = "int64"  -> {0, -1, 2^(W64 - 1) - 1}
      [] d.type = "double" -> {0}
      [] d.type = "bool"   -> {FALSE}

FieldsOf(c, kind) == {f \in DOMAIN Schema[c].fields : Schema[c].fields[f].kind = kind}
ClassOf(c, f) == Schema[c].fields[f].class

\* What is assigned to fields, merged into their messages, added to their lists.
Assignments == [c \in Roots |->
    UNION {{<<f, v>> : v \in ScalarValues(c, Schema[c].fields[f])} : f \in FieldsOf(c, "scalar")}
      \cup FieldsOf(c, "string") \X {<<>>, <<66, 67>>}]
Parts(c, kind) ==
    UNION {{<<f, New(ClassOf(c, f))>>, <<f, Full(ClassOf(c, f), 0)>>} : f \in FieldsOf(c, kind)}
MessageParts == [c \in Roots |-> Parts(c, "message")]
ListParts == [c \in Roots |-> Parts(c, "list")]

-----------------------------------------------------------------------------
(* The value a message stands for, whatever cells and bits it is kept in. *)

RECURSIVE Value(_)
Value(m) ==
    LET present(kind) == {f \in FieldsOf(m.class, kind) : has(m, f)}
    IN  [scalars  |-> [f \in present("scalar") \cup present("string") |-> get(m, f)],
         messages |-> [f \in present("message") |-> Value(get(m, f))],
         lists    |-> [f \in Lists(m) |-> [i \in 1 .. m.cells[f].size |->
                                               Value(m.cells[f].allocated[i])]],
         unknown  |-> m.unknown]

\* What an older program makes of a value: the new enumerator is unknown to it.
Understood(c, v) ==
    IF "type" \notin DOMAIN v.scalars \/ v.scalars["type"] \in Schema[c].valid THEN v
    ELSE [v EXCEPT !.scalars = [f \in DOMAIN @ \ {"type"} |-> @[f]],
                   !.unknown = <<<<1, WIRETYPE_VARINT, WriteVarint(v.scalars["type"])>>>> \o @]

InitialValues == [c \in Roots |-> {Value(m) : m \in Samples[c]}]
MessageValues == [c \in Roots |-> {<<a[1], Value(a[2])>> : a \in MessageParts[c]}]
ListValues == [c \in Roots |-> {<<a[1], Value(a[2])>> : a \in ListParts[c]}]
ArrivingValues == [c \in Roots |-> {Understood(c, Value(m)) : m \in Arrivals[c]}]

Abstract == INSTANCE MessageValue WITH
    Initial <- InitialValues, Assigned <- Assignments, Given <- MessageValues,
    Added <- ListValues, Arriving <- ArrivingValues

-----------------------------------------------------------------------------
(* The calls *)

MessageInit ==
    /\ class \in Roots
    /\ object \in [Objects -> Samples[class]]
    /\ wire = <<>>
    /\ parsed = TRUE
    /\ calls = 0
    /\ value = [o \in Objects |-> Value(object[o])]
    /\ sent = Value(New(class))

Call ==
    /\ calls < MaxSteps
    /\ calls' = calls + 1
    /\ UNCHANGED class

Become(o, m) ==
    /\ Call
    /\ object' = [object EXCEPT ![o] = m]
    /\ UNCHANGED <<wire, parsed, sent>>

Set(o) == \E a \in Assignments[class] : Become(o, set(object[o], a[1], a[2]))

\* mutable_f()->MergeFrom(...)
Give(o) ==
    \E a \in MessageParts[class] :
        Become(o, set(object[o], a[1], MergedFrom(get(object[o], a[1]), a[2])))

\* set_allocated_f(...), and release_f() or set_allocated_f(NULL)
SetAllocated(o) ==
    \E a \in MessageParts[class] : Become(o, set(object[o], a[1], a[2]))
Release(o) ==
    \E f \in FieldsOf(class, "string") \cup FieldsOf(class, "message") :
        Become(o, [clear_has(object[o], f) EXCEPT !.cells[f] = NULL])

\* add_f()->MergeFrom(...)
AddTo(o) ==
    \E a \in ListParts[class] :
        LET more == Extended(object[o].cells[a[1]], ClassOf(class, a[1]))
        IN  Become(o, [object[o] EXCEPT !.cells[a[1]] =
                          SetLast(more, MergedFrom(more.allocated[more.size], a[2]))])

ShortenList(o) ==
    \E f \in Lists(object[o]) :
        /\ object[o].cells[f].size > 0
        /\ Become(o, [object[o] EXCEPT !.cells[f] = Shortened(@)])

ClearField(o) == \E f \in Fields(object[o]) : Become(o, clear(object[o], f))
ClearAll(o) == Become(o, Cleared(object[o]))
Merge(o, p) == Become(o, MergedFrom(object[o], object[p]))
Copy(o, p) == Become(o, CopiedFrom(object[o], object[p]))

\* Swap exchanges every member.
Exchange(o, p) ==
    /\ Call
    /\ object' = [object EXCEPT ![o] = object[p], ![p] = object[o]]
    /\ UNCHANGED <<wire, parsed, sent>>

\* SerializeAsString and AppendToString: the sizes, then the bytes.
SerializeAsString(o) ==
    LET sized == Sized(object[o])
    IN  /\ Call
        /\ object' = [object EXCEPT ![o] = sized]
        /\ wire' = SerializeWithCachedSizes(sized)
        /\ sent' = Value(object[o])
        /\ UNCHANGED parsed

AppendToString(o) ==
    LET sized == Sized(object[o])
    IN  /\ Call
        /\ object' = [object EXCEPT ![o] = sized]
        /\ wire' = wire \o SerializeWithCachedSizes(sized)
        /\ sent' = Abstract!Merged(sent, Value(object[o]))
        /\ UNCHANGED parsed

\* A message from another program.
Arrive ==
    \E m \in Arrivals[class] :
        /\ Call
        /\ wire' = SerializeWithCachedSizes(Sized(m))
        /\ sent' = Understood(class, Value(m))
        /\ UNCHANGED <<object, parsed>>

Parse(o) ==
    LET result == ParseFromArray(object[o], wire)
    IN  /\ Call
        /\ object' = [object EXCEPT ![o] = result.message]
        /\ parsed' = Parsed(result)
        /\ UNCHANGED <<wire, sent>>

MessageCall ==
    \/ \E o \in Objects :
          \/ Set(o) \/ Give(o) \/ SetAllocated(o) \/ Release(o) \/ AddTo(o)
          \/ ShortenList(o) \/ ClearField(o) \/ ClearAll(o)
          \/ SerializeAsString(o) \/ AppendToString(o) \/ Parse(o)
          \/ \E p \in Objects \ {o} : Merge(o, p) \/ Copy(o, p) \/ Exchange(o, p)
    \/ Arrive

MessageNext == MessageCall /\ value' = [o \in Objects |-> Value(object'[o])]

MessageSpec == MessageInit /\ [][MessageNext]_mvars

-----------------------------------------------------------------------------
(* Properties *)

(***************************************************************************)
(* Whatever the accessors, Clear, MergeFrom, Swap, the serializers and the *)
(* parser do with has-bits, kept messages and cached sizes, a message      *)
(* behaves as the value of MessageValue: what is parsed is what was        *)
(* serialized, in one piece or appended, and what is unknown is passed on. *)
(***************************************************************************)
ImplementsValues == Abstract!Spec

(***************************************************************************)
(* The generated accessors return a cell without a look at its has-bit,    *)
(* and add_f() hands out a kept element as it is.  So a field that is not  *)
(* set must read as its default, and an element kept for later must be     *)
(* empty, at every depth.                                                  *)
(***************************************************************************)
RECURSIVE ReadsDefault(_)
ReadsDefault(m) ==
    /\ \A f \in Fields(m) :
          CASE Kind(m, f) = "scalar" -> has(m, f) \/ m.cells[f] = Default(m, f)
            [] Kind(m, f) = "string" -> has(m, f) \/ get(m, f) = <<>>
            [] Kind(m, f) = "message" ->
                  \/ m.cells[f] = NULL
                  \/ /\ ReadsDefault(m.cells[f])
                     /\ has(m, f) \/ Value(m.cells[f]) = Value(New(FieldOf(m, f).class))
            [] Kind(m, f) = "list" ->
                  \A i \in DOMAIN m.cells[f].allocated :
                      LET e == m.cells[f].allocated[i]
                      IN  /\ ReadsDefault(e)
                          /\ i <= m.cells[f].size \/ Value(e) = Value(New(FieldOf(m, f).class))
UnsetIsDefault == \A o \in Objects : ReadsDefault(object[o])

(***************************************************************************)
(* The size that ByteSize computes before a message is serialized is the   *)
(* number of bytes the serializer writes; SerializeAsString allots exactly *)
(* that much, and a length prefix is trusted by the parser.                *)
(***************************************************************************)
SizeIsLength ==
    \A o \in Objects :
        LET sized == Sized(object[o])
        IN  sized.cached_size = Len(SerializeWithCachedSizes(sized))
=============================================================================
