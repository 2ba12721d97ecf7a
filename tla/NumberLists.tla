----------------------------- MODULE NumberLists -----------------------------
(***************************************************************************)
(* How wire_format_lite_inl.h reads a list of numbers into a RepeatedField,*)
(* where it goes over a row of numbers without asking the stream for each  *)
(* of them.                                                                *)
(***************************************************************************)
EXTENDS Wire, RepeatedField

CONSTANTS
    Sent,            \* the list of numbers that is read from the wire
    FieldNumbers     \* of the fields it is read for

\* Tags of three bytes and more are left to ReadTag.
ExpectTag(in, tag) ==
    /\ tag < TwoTo[14]
    /\ BytesUntilLimit(in) >= VarintSize(tag)
    /\ SubSeq(Ahead(in), 1, VarintSize(tag)) = WriteVarint(tag)

\* A loop is its turns, from what there is at the start: the list and the
\* stream.  A turn after the last one changes nothing.
AtStart(f, in) == [list |-> f, in |-> in]

\* One number of a row, with its tag.
RowTurn(s, tag, type) ==
    LET one == ReadPrimitive(type, [s.in EXCEPT !.position = @ + VarintSize(tag)])
    IN  IF ~s.in.ok \/ ~ExpectTag(s.in, tag) THEN s
        ELSE [list |-> IF one.ok THEN AddedAlreadyReserved(s.list, one.value) ELSE s.list,
              in |-> one]

\* At most room numbers.
ReadRow(f, in, tag, type, room) ==
    LET after[k \in 0 .. room] ==
            IF k = 0 THEN AtStart(f, in) ELSE RowTurn(after[k - 1], tag, type)
    IN  after[room]

\* Mutant of PerValueSize: the tag is forgotten.
PerValueSizeUntagged(tag, width) == width

PerValueSize(tag, width) == VarintSize(tag) + width

\* Numbers of a fixed size are read from the array, where no limit is heeded.
ReadFixedRow(f, in, tag, type, room) ==
    LET width == (IF type \in Fixed32Types THEN W32 ELSE W64) \div 8
        available == Min({room, BytesUntilLimit(in) \div PerValueSize(tag, width)})
        row == ReadRow(f, [in EXCEPT !.limit = Len(in.buffer)], tag, type, available)
    IN  [row EXCEPT !.in.limit = in.limit]

ReadRepeatedPrimitive(f, in, tag, type) ==
    LET one == ReadPrimitive(type, in)
        longer == AddedNumber(f, one.value)
        room == Capacity(longer) - longer.size
    IN  IF ~one.ok THEN [list |-> f, in |-> one]
        ELSE IF type \in VarintTypes THEN ReadRow(longer, one, tag, type, room)
        ELSE ReadFixedRow(longer, one, tag, type, room)

PackedTurn(s, type) ==
    LET one == ReadPrimitive(type, s.in)
    IN  IF ~s.in.ok \/ BytesUntilLimit(s.in) <= 0 THEN s
        ELSE [list |-> IF one.ok THEN AddedNumber(s.list, one.value) ELSE s.list, in |-> one]

\* A number takes a byte at least.
ReadToLimit(f, in, type) ==
    LET after[k \in 0 .. BytesUntilLimit(in)] ==
            IF k = 0 THEN AtStart(f, in) ELSE PackedTurn(after[k - 1], type)
    IN  after[BytesUntilLimit(in)]

ReadPackedPrimitive(f, in, type) ==
    LET length == ReadVarint(in, W32)
        all == ReadToLimit(f, PushLimit(length, length.value), type)
    IN  IF ~length.ok THEN [list |-> f, in |-> length]
        ELSE IF ~all.in.ok THEN all
        ELSE [all EXCEPT !.in = PopLimit(@, in.limit)]

PlainTag(field_number, type) == MakeTag(field_number, WireTypeForFieldType(type))

\* The parser of a message with nothing but the list: one call for each tag
\* that is read.  The stream is not ok when it returns.
ParserTurn(s, field_number, type) ==
    LET tagged == ReadTag(s.in)
        plain == PlainTag(field_number, type)
    IN  IF ~s.in.ok THEN s
        ELSE IF tagged.last_tag = 0 THEN AtStart(s.list, Failed(tagged))
        ELSE IF tagged.last_tag = plain
        THEN ReadRepeatedPrimitive(s.list, tagged, plain, type)
        ELSE ReadPackedPrimitive(s.list, tagged, type)

ReadList(f, in, field_number, type) ==
    LET turns == BytesUntilLimit(in) + 1
        after[k \in 0 .. turns] ==
            IF k = 0 THEN AtStart(f, in) ELSE ParserTurn(after[k - 1], field_number, type)
    IN  after[turns].list

ListTypes == {"uint32", "fixed32", "fixed64"}

\* The first k numbers on the wire, a row or packed.
Item(field_number, type, packed, i) ==
    IF packed THEN WriteNoTag(type, Sent[i]) ELSE Write(field_number, type, Sent[i])
Bytes(field_number, type, packed, k) ==
    LET first[i \in 0 .. Len(Sent)] ==
            IF i = 0 THEN <<>> ELSE first[i - 1] \o Item(field_number, type, packed, i)
    IN  first[k]
PackedSize(field_number, type) == Len(Bytes(field_number, type, TRUE, Len(Sent)))
Header(field_number, type, packed) ==
    IF packed THEN WriteDelimited(field_number, PackedSize(field_number, type), <<>>) ELSE <<>>
OnWire(field_number, type, packed, k) ==
    Header(field_number, type, packed) \o Bytes(field_number, type, packed, k)
All(field_number, type, packed) == OnWire(field_number, type, packed, Len(Sent))

\* Every type has room for the numbers, a tag for the field number, and the
\* length of a message fits into 32 bits.
ASSUME ListAssumption ==
    /\ Sent \in Seq(0 .. TwoTo[W32] - 1)
    /\ FieldNumbers \subseteq 1 .. TwoTo[W32 - 3] - 1
    /\ \A field_number \in FieldNumbers, type \in ListTypes :
          PackedSize(field_number, type) < TwoTo[W32]

\* What is read ends at limit; in memory the rest may follow.
Read(l, field_number, type, packed, limit) ==
    LET in == [Input(All(field_number, type, packed)) EXCEPT !.limit = limit]
        whole == {k \in 1 .. Len(Sent) : Len(OnWire(field_number, type, packed, k)) <= limit}
    IN  Becomes(l, ReadList(field[l], in, field_number, type),
                meant[l] \o SubSeq(Sent, 1, Cardinality(whole)))

NumberListsNext ==
    \/ RepeatedFieldNext
    \/ \E field_number \in FieldNumbers, type \in ListTypes, packed \in BOOLEAN :
          \E limit \in 0 .. Len(All(field_number, type, packed)), l \in NumberList :
             Read(l, field_number, type, packed, limit)

NumberListsSpec == RepeatedFieldInit /\ [][NumberListsNext]_lvars
=============================================================================
