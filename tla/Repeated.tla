------------------------------ MODULE Repeated ------------------------------
(***************************************************************************)
(* RepeatedPtrField (repeated_field.h), which keeps the elements of the    *)
(* repeated fields of a message: an array of pointers, of which the first  *)
(* current_size_ are the elements and the others, up to allocated_size_,   *)
(* cleared objects kept for reuse.  Objects also go to the caller and come *)
(* back from him.  What a slot above allocated_size_ holds is never read,  *)
(* so elements[f] ends there.                                              *)
(***************************************************************************)
EXTENDS Naturals, Sequences, FiniteSets

CONSTANTS
    Field,                            \* the repeated fields of a type
    Element,                          \* the objects there can be
    kMinRepeatedFieldAllocationSize   \* the smallest array

ASSUME RepeatedAssumption ==
    /\ IsFiniteSet(Element)
    /\ kMinRepeatedFieldAllocationSize \in Nat \ {0}

VARIABLES
    elements,       \* of each field: elements_, up to allocated_size_
    current_size,   \* of each field: current_size_
    total_size,     \* of each field: total_size_
    fresh,          \* the objects not made yet,
    held,           \* those the caller owns, and
    freed,          \* those deleted
    dirty           \* the objects that are not clear
rvars == <<elements, current_size, total_size, fresh, held, freed, dirty>>

allocated_size(f) == Len(elements[f])
Slots(f) == 1 .. allocated_size(f)
Elements(f) == 1 .. current_size[f]
ObjectsAt(f, slots) == {elements[f][i] : i \in slots}
Owned(f) == ObjectsAt(f, Slots(f))

RepeatedInit ==
    /\ elements = [f \in Field |-> <<>>]
    /\ current_size = [f \in Field |-> 0]
    /\ total_size = [f \in Field |-> 0]
    /\ fresh = Element
    /\ held = {} /\ freed = {} /\ dirty = {}

-----------------------------------------------------------------------------
(* The caller's own steps *)

Make(e) ==
    /\ e \in fresh
    /\ fresh' = fresh \ {e}
    /\ held' = held \cup {e}
    /\ UNCHANGED <<elements, current_size, total_size, freed, dirty>>

Delete(e) ==
    /\ e \in held
    /\ held' = held \ {e}
    /\ freed' = freed \cup {e}
    /\ dirty' = dirty \ {e}
    /\ UNCHANGED <<elements, current_size, total_size, fresh>>

\* Fills an object of his, or an element through Mutable().
Fill(e) ==
    /\ e \in held \cup UNION {ObjectsAt(f, Elements(f)) : f \in Field}
    /\ dirty' = dirty \cup {e}
    /\ UNCHANGED <<elements, current_size, total_size, fresh, held, freed>>

-----------------------------------------------------------------------------
(* The operations of the field *)

Maximum(m, n) == IF m < n THEN n ELSE m

\* Reserve(): at least the double, and never less than the smallest array.
Reserved(f, new_size) ==
    IF total_size[f] >= new_size THEN total_size[f]
    ELSE Maximum(kMinRepeatedFieldAllocationSize, Maximum(total_size[f] * 2, new_size))

Room(f, new_size) == total_size' = [total_size EXCEPT ![f] = Reserved(f, new_size)]
Grow(f, n) == current_size' = [current_size EXCEPT ![f] = @ + n]
Shrink(f, n) == current_size' = [current_size EXCEPT ![f] = @ - n]
Array(f, array) == elements' = [elements EXCEPT ![f] = array]

Add(f) ==
    /\ IF current_size[f] < allocated_size(f)
       THEN UNCHANGED <<elements, total_size, fresh>>
       ELSE \E e \in fresh :
                /\ Array(f, Append(elements[f], e))
                /\ Room(f, allocated_size(f) + 1)
                /\ fresh' = fresh \ {e}
    /\ Grow(f, 1)
    /\ UNCHANGED <<held, freed, dirty>>

\* Mutant of RemoveLast: the element is left as it is.
RemoveLastLazy(f) ==
    /\ current_size[f] > 0
    /\ Shrink(f, 1)
    /\ UNCHANGED <<elements, total_size, fresh, held, freed, dirty>>

RemoveLast(f) ==
    /\ current_size[f] > 0
    /\ Shrink(f, 1)
    /\ dirty' = dirty \ {elements[f][current_size[f]]}
    /\ UNCHANGED <<elements, total_size, fresh, held, freed>>

Clear(f) ==
    /\ current_size' = [current_size EXCEPT ![f] = 0]
    /\ dirty' = dirty \ ObjectsAt(f, Elements(f))
    /\ UNCHANGED <<elements, total_size, fresh, held, freed>>

\* Adds n elements, of which Add() makes those beyond the cleared objects, and
\* merges the elements of the other field into them.
AddMerged(f, g, size, kept) ==
    LET n == current_size[g]
        made == IF size + n > allocated_size(f) THEN size + n - allocated_size(f) ELSE 0
    IN  \E new \in [1 .. made -> fresh] :
            LET array == elements[f] \o new
                filled == {i \in 1 .. n : elements[g][i] \in dirty}
            IN  /\ \A i, j \in 1 .. made : new[i] = new[j] => i = j
                /\ Array(f, array)
                /\ fresh' = fresh \ {new[i] : i \in 1 .. made}
                /\ current_size' = [current_size EXCEPT ![f] = size + n]
                /\ dirty' = kept \cup {array[size + i] : i \in filled}
                /\ Room(f, size + n)
                /\ UNCHANGED <<held, freed>>

\* A list is not merged into itself: the loop would chase its own end for ever.
MergeFrom(f, g) == f # g /\ AddMerged(f, g, current_size[f], dirty)
CopyFrom(f, g) == f # g /\ AddMerged(f, g, 0, dirty \ ObjectsAt(f, Elements(f)))

Reserve(f, new_size) ==
    /\ Room(f, new_size)
    /\ UNCHANGED <<elements, current_size, fresh, held, freed, dirty>>

\* Exchanges the arrays.
Swap(f, g) ==
    LET swapped(x) == [x EXCEPT ![f] = x[g], ![g] = x[f]]
    IN  /\ elements' = swapped(elements)
        /\ current_size' = swapped(current_size)
        /\ total_size' = swapped(total_size)
        /\ UNCHANGED <<fresh, held, freed, dirty>>

SwapElements(f, i, j) ==
    /\ i \in Elements(f) /\ j \in Elements(f)
    /\ Array(f, [elements[f] EXCEPT ![i] = elements[f][j], ![j] = elements[f][i]])
    /\ UNCHANGED <<current_size, total_size, fresh, held, freed, dirty>>

-----------------------------------------------------------------------------
(***************************************************************************)
(* Ownership that passes between the field and the caller.                 *)
(***************************************************************************)

\* Mutant of Inserted: the first cleared object is overwritten.
InsertedOver(f, e) ==
    IF current_size[f] = allocated_size(f) THEN Append(elements[f], e)
    ELSE [elements[f] EXCEPT ![current_size[f] + 1] = e]

\* Mutant of Inserted: the first cleared object always moves to the end.
InsertedMoving(f, e) ==
    LET next == current_size[f] + 1
    IN  IF current_size[f] = allocated_size(f) THEN Append(elements[f], e)
        ELSE Append([elements[f] EXCEPT ![next] = e], elements[f][next])

\* The array when e comes after the elements.  If the array is full a cleared
\* object is deleted, otherwise the first one moves to the end.
Inserted(f, e) ==
    LET next == current_size[f] + 1
    IN  IF current_size[f] = allocated_size(f) THEN Append(elements[f], e)
        ELSE IF allocated_size(f) = total_size[f] THEN [elements[f] EXCEPT ![next] = e]
        ELSE Append([elements[f] EXCEPT ![next] = e], elements[f][next])

AddAllocated(f, e) ==
    LET deleted == IF current_size[f] < allocated_size(f) /\ allocated_size(f) = total_size[f]
                   THEN {elements[f][current_size[f] + 1]} ELSE {}
    IN  /\ e \in held
        /\ Array(f, Inserted(f, e))
        /\ IF current_size[f] = total_size[f] THEN Room(f, total_size[f] + 1)
           ELSE UNCHANGED total_size
        /\ Grow(f, 1)
        /\ held' = held \ {e}
        /\ freed' = freed \cup deleted
        /\ UNCHANGED <<fresh, dirty>>

\* The last allocated object takes the place of the one released.
ReleaseLast(f) ==
    LET n == current_size[f]
    IN  /\ n > 0
        /\ Array(f, SubSeq([elements[f] EXCEPT ![n] = elements[f][allocated_size(f)]],
                           1, allocated_size(f) - 1))
        /\ Shrink(f, 1)
        /\ held' = held \cup {elements[f][n]}
        /\ UNCHANGED <<total_size, fresh, freed, dirty>>

\* The object must be clear.
AddCleared(f, e) ==
    /\ e \in held \ dirty
    /\ Array(f, Append(elements[f], e))
    /\ Room(f, allocated_size(f) + 1)
    /\ held' = held \ {e}
    /\ UNCHANGED <<current_size, fresh, freed, dirty>>

ReleaseCleared(f) ==
    /\ allocated_size(f) > current_size[f]
    /\ Array(f, SubSeq(elements[f], 1, allocated_size(f) - 1))
    /\ held' = held \cup {elements[f][allocated_size(f)]}
    /\ UNCHANGED <<current_size, total_size, fresh, freed, dirty>>

\* Mutant of CloseGap: only the elements slide down.
CloseGapShort(f, start, num) ==
    [i \in 1 .. allocated_size(f) - num |->
        IF i < start \/ i > current_size[f] - num THEN elements[f][i] ELSE elements[f][i + num]]

\* Mutant of CloseGap: the last objects fill the gap.
CloseGapFromEnd(f, start, num) ==
    [i \in 1 .. allocated_size(f) - num |->
        IF i \in start .. start + num - 1 THEN elements[f][i + allocated_size(f) + 1 - start - num]
        ELSE elements[f][i]]

\* The array without num objects, the cleared ones sliding down as well.
CloseGap(f, start, num) ==
    [i \in 1 .. allocated_size(f) - num |->
        IF i < start THEN elements[f][i] ELSE elements[f][i + num]]

RemoveRange(f, start, num) ==
    /\ start \in Elements(f) /\ num \in 1 .. current_size[f] + 1 - start
    /\ Array(f, CloseGap(f, start, num))
    /\ Shrink(f, num)

ExtractSubrange(f, start, num) ==
    /\ RemoveRange(f, start, num)
    /\ held' = held \cup ObjectsAt(f, start .. start + num - 1)
    /\ UNCHANGED <<total_size, fresh, freed, dirty>>

DeleteSubrange(f, start, num) ==
    /\ RemoveRange(f, start, num)
    /\ freed' = freed \cup ObjectsAt(f, start .. start + num - 1)
    /\ dirty' = dirty \ ObjectsAt(f, start .. start + num - 1)
    /\ UNCHANGED <<total_size, fresh, held>>

\* The destructor; a new field takes the place.
Destroy(f) ==
    /\ Array(f, <<>>)
    /\ current_size' = [current_size EXCEPT ![f] = 0]
    /\ total_size' = [total_size EXCEPT ![f] = 0]
    /\ freed' = freed \cup Owned(f)
    /\ dirty' = dirty \ Owned(f)
    /\ UNCHANGED <<fresh, held>>

FieldNext(f) ==
    \/ Add(f) \/ RemoveLast(f) \/ Clear(f) \/ ReleaseLast(f) \/ ReleaseCleared(f) \/ Destroy(f)
    \/ \E e \in Element : AddAllocated(f, e) \/ AddCleared(f, e)
    \/ \E g \in Field : MergeFrom(f, g) \/ CopyFrom(f, g) \/ Swap(f, g)
    \/ \E i, j \in Elements(f) : SwapElements(f, i, j)
    \/ \E i \in Elements(f), n \in Elements(f) : ExtractSubrange(f, i, n) \/ DeleteSubrange(f, i, n)
    \/ \E n \in 1 .. Cardinality(Element) : Reserve(f, n)

RepeatedNext ==
    \/ \E e \in Element : Make(e) \/ Delete(e) \/ Fill(e)
    \/ \E f \in Field : FieldNext(f)

RepeatedSpec == RepeatedInit /\ [][RepeatedNext]_rvars

-----------------------------------------------------------------------------
(* Properties *)

(***************************************************************************)
(* The state's types, and the order of the sizes that every guard of       *)
(* repeated_field.h relies on: current, allocated, total.                  *)
(***************************************************************************)
RepeatedTypeOK ==
    /\ elements \in [Field -> Seq(Element)]
    /\ current_size \in [Field -> Nat]
    /\ total_size \in [Field -> Nat]
    /\ \A f \in Field : current_size[f] <= allocated_size(f) /\ allocated_size(f) <= total_size[f]
    /\ fresh \subseteq Element /\ held \subseteq Element
    /\ freed \subseteq Element /\ dirty \subseteq Element

(***************************************************************************)
(* No object is in two slots, of one field or of two, and none that is in  *)
(* a slot is also the caller's, deleted or yet to be made: so none is      *)
(* deleted twice, used after it is deleted or aliased.                     *)
(***************************************************************************)
SlotsDiffer ==
    \A f, g \in Field : \A i \in Slots(f), j \in Slots(g) :
        elements[f][i] = elements[g][j] => f = g /\ i = j
OwnedByOne ==
    /\ \A f \in Field : \A i \in Slots(f) : elements[f][i] \notin fresh \cup held \cup freed
    /\ fresh \cap held = {} /\ fresh \cap freed = {} /\ held \cap freed = {}
OneOwner == SlotsDiffer /\ OwnedByOne

(***************************************************************************)
(* No object is lost: one that was made and not deleted is the caller's or *)
(* in a slot, from which the destructor deletes it.                        *)
(***************************************************************************)
NothingLeaks ==
    \A e \in Element :
        e \in fresh \cup held \cup freed \/ \E f \in Field : e \in Owned(f)

(***************************************************************************)
(* Add() hands out a cleared object as it is, so an object kept for reuse  *)
(* must be clear, however it came behind the elements.                     *)
(***************************************************************************)
KeptAreClear ==
    \A f \in Field : \A i \in Slots(f) :
        i > current_size[f] => elements[f][i] \notin dirty

(***************************************************************************)
(* The elements that stay in a field keep their order, and what is added   *)
(* comes after them, whatever is moved among the cleared objects behind;   *)
(* only SwapElements and Swap reorder.                                     *)
(***************************************************************************)
OrderIsKept ==
    [][(\A f \in Field :
          LET old == SubSeq(elements[f], 1, current_size[f])
              new == SubSeq(elements'[f], 1, current_size'[f])
          IN  \A i, j \in 1 .. current_size'[f] :
                  (i < j /\ new[j] \in ObjectsAt(f, Elements(f))) =>
                      \E k, l \in Elements(f) : k < l /\ old[k] = new[i] /\ old[l] = new[j])
       \/ (\E f, g \in Field : Swap(f, g))
       \/ (\E f \in Field : \E i, j \in Elements(f) : SwapElements(f, i, j))]_rvars
=============================================================================
