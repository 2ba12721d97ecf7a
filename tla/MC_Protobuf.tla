---------------------------- MODULE MC_Protobuf ----------------------------
(* The protocol buffer modules, one of them at work in each behaviour: the  *)
(* messages, the numbers in them, the lists of pointers or of numbers, the  *)
(* start of the program, the closures, or the scoped pointers.              *)
EXTENDS Messages, Primitives, Repeated, NumberLists, Startup, Closures,
    ScopedPointers

VARIABLE part
vars == <<part, mvars, pvars, rvars, lvars, svars, cvars, pointerVars>>

\* Numbers of one, two and one byte.
SentNumbers == <<5, 300, 7>>

\* Where the encodings change: at a sign, a byte, seven bits, a word.
Boundaries ==
    LET powers == {TwoTo[i] : i \in {0, 6, 7, 8, 13, 14, W32 - 1, W32, W64 - 1}}
    IN  UNION {{p - 1, p, -p, -p - 1} : p \in powers}

IdleMessages ==
    /\ MessageInit
    /\ class = "VersionDummy"
    /\ object = [o \in Objects |-> New(class)]
IdleNumbers == PrimitiveInit /\ writer = "float" /\ number = 0
IdleClosures == ClosuresInit /\ self_deleting = [c \in Closure |-> FALSE]

Init ==
    /\ RepeatedInit /\ RepeatedFieldInit /\ StartupInit /\ ScopedInit
    /\ \/ part = "messages" /\ MessageInit /\ IdleNumbers /\ IdleClosures
       \/ part = "numbers" /\ IdleMessages /\ PrimitiveInit /\ IdleClosures
       \/ part = "closures" /\ IdleMessages /\ IdleNumbers /\ ClosuresInit
       \/ part \in {"pointers", "lists", "startup", "scopes"}
          /\ IdleMessages /\ IdleNumbers /\ IdleClosures

Next ==
    /\ UNCHANGED part
    /\ \/ part = "messages" /\ MessageNext
          /\ UNCHANGED <<pvars, rvars, lvars, svars, cvars, pointerVars>>
       \/ part = "numbers" /\ PrimitiveNext
          /\ UNCHANGED <<mvars, rvars, lvars, svars, cvars, pointerVars>>
       \/ part = "pointers" /\ RepeatedNext
          /\ UNCHANGED <<mvars, pvars, lvars, svars, cvars, pointerVars>>
       \/ part = "lists" /\ NumberListsNext
          /\ UNCHANGED <<mvars, pvars, rvars, svars, cvars, pointerVars>>
       \/ part = "startup" /\ StartupNext
          /\ UNCHANGED <<mvars, pvars, rvars, lvars, cvars, pointerVars>>
       \/ part = "closures" /\ ClosuresNext
          /\ UNCHANGED <<mvars, pvars, rvars, lvars, svars, pointerVars>>
       \/ part = "scopes" /\ ScopedNext
          /\ UNCHANGED <<mvars, pvars, rvars, lvars, svars, cvars>>

ProtobufSpec == Init /\ [][Next]_vars

\* One message is as good as the other, and so is one element of a list.
Alike == Permutations(Objects) \cup Permutations(Element)
=============================================================================
