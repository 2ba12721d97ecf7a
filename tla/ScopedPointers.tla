--------------------------- MODULE ScopedPointers ---------------------------
(***************************************************************************)
(* scoped_ptr and scoped_array of stubs/common.h, which own an object and  *)
(* an array.  What they own is deleted when they go out of scope, and in   *)
(* the way it was allocated.  The destructors of the objects do not reach  *)
(* the pointers.                                                           *)
(***************************************************************************)
EXTENDS FiniteSets

CONSTANTS
    ScopedPtr, ScopedArray,
    Single, Several,   \* what new and what new [] may return
    Null

ASSUME ScopedAssumption ==
    ScopedPtr \cap ScopedArray = {} /\ Single \cap Several = {} /\ Null \notin Single \cup Several

Pointer == ScopedPtr \cup ScopedArray
Pointee == Single \cup Several

VARIABLES
    ptr,       \* of each pointer in scope: ptr_ or array_
    allocated, \* what exists
    callers,   \* of this, what no scoped pointer was given: the caller deletes it
    spoiled    \* whether anything was deleted twice or in the wrong way
pointerVars == <<ptr, allocated, callers, spoiled>>

Scoped == DOMAIN ptr
OfKind(p) == IF p \in ScopedPtr THEN Single ELSE Several

ScopedInit == ptr = <<>> /\ allocated = {} /\ callers = {} /\ spoiled = FALSE

\* delete and delete [], which spare Null.
Deletes(p, o) ==
    /\ allocated' = allocated \ {o}
    /\ spoiled' = (spoiled \/ (o # Null /\ o \notin allocated \cap OfKind(p)))

Allocate(o) ==
    /\ o \notin allocated
    /\ allocated' = allocated \cup {o} /\ callers' = callers \cup {o}
    /\ UNCHANGED <<ptr, spoiled>>

\* What the caller may give to p: his own, or nothing.
Given(p) == (callers \cap OfKind(p)) \cup {Null}

Construct(p, o) ==
    /\ p \notin Scoped /\ o \in Given(p)
    /\ ptr' = [q \in Scoped \cup {p} |-> IF q = p THEN o ELSE ptr[q]]
    /\ callers' = callers \ {o}
    /\ UNCHANGED <<allocated, spoiled>>

Destruct(p) ==
    /\ p \in Scoped
    /\ ptr' = [q \in Scoped \ {p} |-> ptr[q]]
    /\ Deletes(p, ptr[p])
    /\ UNCHANGED callers

\* Mutant of IsOther: reset() does not compare.
IsOtherUnchecked(p, o) == TRUE

IsOther(p, o) == o # ptr[p]

\* reset(), also with what get() returned.
Reset(p, o) ==
    /\ p \in Scoped /\ o \in Given(p) \cup {ptr[p]}
    /\ IF IsOther(p, o) THEN Deletes(p, ptr[p]) ELSE UNCHANGED <<allocated, spoiled>>
    /\ ptr' = [ptr EXCEPT ![p] = o]
    /\ callers' = callers \ {o}

SwapPointers(p, q) ==
    /\ p \in Scoped /\ q \in Scoped /\ OfKind(p) = OfKind(q)
    /\ ptr' = [ptr EXCEPT ![p] = ptr[q], ![q] = ptr[p]]
    /\ UNCHANGED <<allocated, callers, spoiled>>

ReleasePointer(p) ==
    /\ p \in Scoped
    /\ ptr' = [ptr EXCEPT ![p] = Null]
    /\ callers' = callers \cup ({ptr[p]} \ {Null})
    /\ UNCHANGED <<allocated, spoiled>>

ScopedNext ==
    \/ \E o \in Pointee : Allocate(o)
    \/ \E p \in Pointer :
          \/ Destruct(p) \/ ReleasePointer(p)
          \/ \E o \in Pointee \cup {Null} : Construct(p, o) \/ Reset(p, o)
          \/ \E q \in Pointer : SwapPointers(p, q)

ScopedSpec == ScopedInit /\ [][ScopedNext]_pointerVars

-----------------------------------------------------------------------------
(***************************************************************************)
(* What is allocated has exactly one owner, a scoped pointer or the        *)
(* caller: whatever the pointers are given, reset to, or swapped with,     *)
(* none is left with an object that was deleted, nothing is deleted twice, *)
(* an array is not deleted as an object, and nothing is lost.              *)
(***************************************************************************)
OneOwnerEach ==
    /\ ~spoiled
    /\ \A o \in allocated : Cardinality({p \in Scoped : ptr[p] = o})
                               = IF o \in callers THEN 0 ELSE 1
    /\ callers \cup {ptr[p] : p \in Scoped} \subseteq allocated \cup {Null}
=============================================================================
