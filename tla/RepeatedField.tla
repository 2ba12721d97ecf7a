---------------------------- MODULE RepeatedField ----------------------------
(***************************************************************************)
(* Lists of numbers: the class RepeatedField of repeated_field.h, an array *)
(* of which the first current_size_ elements are in use.                   *)
(***************************************************************************)
EXTENDS Integers, SequencesExt

CONSTANTS
    NumberList,
    Numbers,         \* what the program puts into them
    MinAllocation,   \* kMinRepeatedFieldAllocationSize
    MaxCalls         \* bound: calls in a behaviour

ASSUME RepeatedFieldAssumption == MinAllocation \in Nat

VARIABLES
    field,   \* of each list: its elements_, total_size_ of them, and current_size_
    meant,   \* history: the sequence that each list should be
    calls_made
lvars == <<field, meant, calls_made>>

Uninitialized == -1

Capacity(f) == Len(f.elements)
Contents(f) == SubSeq(f.elements, 1, f.size)

RepeatedFieldInit ==
    /\ field = [l \in NumberList |-> [elements |-> <<>>, size |-> 0]]
    /\ meant = [l \in NumberList |-> <<>>]
    /\ calls_made = 0

-----------------------------------------------------------------------------
(* What each function makes of an array *)

\* The array at least doubles, and only what is in use is moved.
Grown(f, new_size) ==
    LET room == Max({MinAllocation, 2 * Capacity(f), new_size})
        unwritten == [i \in 1 .. room - f.size |-> Uninitialized]
    IN  IF Capacity(f) >= new_size THEN f
        ELSE [f EXCEPT !.elements = Contents(f) \o unwritten]

AddedAlreadyReserved(f, n) ==
    [elements |-> [f.elements EXCEPT ![f.size + 1] = n], size |-> f.size + 1]

AddedNumber(f, n) ==
    AddedAlreadyReserved(
        IF f.size = Capacity(f) THEN Grown(f, Capacity(f) + 1) ELSE f, n)

MergedNumbers(f, other) ==
    LET wide == Grown(f, f.size + other.size)
        copied(i) == IF i \in f.size + 1 .. f.size + other.size
                     THEN other.elements[i - f.size] ELSE wide.elements[i]
    IN  [elements |-> [i \in DOMAIN wide.elements |-> copied(i)], size |-> f.size + other.size]

Truncated(f, new_size) == [f EXCEPT !.size = new_size]

\* The elements behind the gap slide down; what they leave stays where it is.
Extracted(f, start, n) ==
    LET slid(i) == IF i \in start + 1 .. f.size - n THEN f.elements[i + n] ELSE f.elements[i]
    IN  [elements |-> [i \in DOMAIN f.elements |-> slid(i)], size |-> f.size - n]

Called == calls_made < MaxCalls /\ calls_made' = calls_made + 1
Becomes(l, f, sequence) ==
    /\ Called
    /\ field' = [field EXCEPT ![l] = f]
    /\ meant' = [meant EXCEPT ![l] = sequence]

\* AddAlreadyReserved, which leaves it to the caller that there is room.
AddReserved(l, n) ==
    /\ field[l].size < Capacity(field[l])
    /\ Becomes(l, AddedAlreadyReserved(field[l], n), Append(meant[l], n))

AddNumber(l, n) == Becomes(l, AddedNumber(field[l], n), Append(meant[l], n))

SetNumber(l, i, n) ==
    /\ i <= field[l].size
    /\ Becomes(l, [field[l] EXCEPT !.elements[i] = n], [meant[l] EXCEPT ![i] = n])

SwapNumbers(l, i, j) ==
    LET swapped(s) == [s EXCEPT ![i] = s[j], ![j] = s[i]]
    IN  /\ i < j /\ j <= field[l].size
        /\ Becomes(l, [field[l] EXCEPT !.elements = swapped(@)], swapped(meant[l]))

ReserveNumbers(l, n) == Becomes(l, Grown(field[l], n), meant[l])

\* RemoveLast and Clear are the same.
Truncate(l, new_size) ==
    /\ new_size <= field[l].size
    /\ Becomes(l, Truncated(field[l], new_size), SubSeq(meant[l], 1, new_size))

ExtractNumbers(l, start, n) ==
    /\ n > 0 /\ start + n <= field[l].size
    /\ Becomes(l, Extracted(field[l], start, n),
               SubSeq(meant[l], 1, start) \o SubSeq(meant[l], start + n + 1, Len(meant[l])))

MergeNumbers(l, other) ==
    Becomes(l, MergedNumbers(field[l], field[other]), meant[l] \o meant[other])

\* Assignment, which leaves a list assigned to itself alone; CopyFrom does not.
AssignNumbers(l, other) ==
    /\ l # other
    /\ Becomes(l, MergedNumbers(Truncated(field[l], 0), field[other]), meant[other])

ExchangeNumbers(l, other) ==
    /\ l # other /\ Called
    /\ field' = [field EXCEPT ![l] = field[other], ![other] = field[l]]
    /\ meant' = [meant EXCEPT ![l] = meant[other], ![other] = meant[l]]

\* As much as is reserved in one call: more than the array grows by itself.
MaxReserved(l) == 2 * Capacity(field[l]) + MinAllocation + 1

RepeatedFieldNext ==
    \E l \in NumberList :
       \/ \E n \in Numbers :
             \/ AddNumber(l, n) \/ AddReserved(l, n)
             \/ \E i \in 1 .. Len(meant[l]) : SetNumber(l, i, n)
       \/ \E i, j \in 1 .. Len(meant[l]) : SwapNumbers(l, i, j) \/ ExtractNumbers(l, i - 1, j)
       \/ \E n \in 0 .. MaxReserved(l) : ReserveNumbers(l, n)
       \/ \E n \in 0 .. Len(meant[l]) : Truncate(l, n)
       \/ \E other \in NumberList :
             MergeNumbers(l, other) \/ AssignNumbers(l, other) \/ ExchangeNumbers(l, other)

RepeatedFieldSpec == RepeatedFieldInit /\ [][RepeatedFieldNext]_lvars

-----------------------------------------------------------------------------
(***************************************************************************)
(* Whatever calls went before (repeated_field.h:550-778), a list is the    *)
(* sequence a reader of the calls expects, inside its array, and no number *)
(* that was never put there is in it.  With the reads of NumberLists       *)
(* (wire_format_lite_inl.h:223-340), a list has from a message that ends   *)
(* early the numbers that lie before the end and no other.                 *)
(***************************************************************************)
ListsAreAsMeant ==
    \A l \in NumberList : field[l].size <= Capacity(field[l]) /\ Contents(field[l]) = meant[l]
=============================================================================
