------------------------------- MODULE Startup -------------------------------
(***************************************************************************)
(* How the default instances, descriptors and reflections of the generated *)
(* classes are made and deleted (ql2.pb.cc, with stubs/once.h): the        *)
(* default instances before main() begins, the rest when a thread first    *)
(* asks for it.                                                            *)
(***************************************************************************)
EXTENDS Naturals, FiniteSets, SequencesExt

CONSTANTS
    Threads,
    MainThread   \* the only one before main() begins

ASSUME StartupAssumption == MainThread \in Threads

\* The order in which protobuf_AddDesc makes the default instances.
Order ==
    <<"VersionDummy", "Query", "Query_AssocPair", "Frame", "Backtrace", "Response",
      "Datum", "Datum_AssocPair", "Term", "Term_AssocPair">>
Classes == ToSet(Order)

\* The classes of the messages in a message, which InitAsDefaultInstance links.
Members ==
    [c \in Classes |->
        CASE c \in {"Query", "Query_AssocPair", "Term_AssocPair"} -> {"Term"}
          [] c = "Response"                                       -> {"Backtrace"}
          [] c \in {"Term", "Datum_AssocPair"}                    -> {"Datum"}
          [] OTHER                                                -> {}]

VARIABLES
    phase,         \* before main(), in it, or after the shutdown
    already_here,  \* the flag of protobuf_AddDesc
    linked,        \* of each class: the members its default instance points to
    once,          \* protobuf_AssignDescriptors_once_
    assigned,      \* how many classes have their descriptor_ and reflection_
    reflections,   \* history: of each class, how many reflections were made, and
    deletions,     \* how often its default instance was deleted
    factory,       \* the threads in the message factory, which locks
    at             \* of each thread: what it does, and for which function
svars == <<phase, already_here, linked, once, assigned, reflections, deletions, factory, at>>

Idle == <<"idle", "">>

StartupInit ==
    /\ phase = "static"
    /\ already_here = FALSE
    /\ linked = [c \in Classes |-> {}]
    /\ once = "UNINITIALIZED"
    /\ assigned = 0
    /\ reflections = [c \in Classes |-> 0]
    /\ deletions = [c \in Classes |-> 0]
    /\ factory = {}
    /\ at = [t \in Threads |-> Idle]

Goto(t, place) == at' = [at EXCEPT ![t] = <<place, at[t][2]>>]
At(t, place) == at[t][1] = place
MayCall(t) ==
    /\ At(t, "idle")
    /\ phase # "over" /\ (phase = "static" => t = MainThread)

-----------------------------------------------------------------------------
(* protobuf_AddDesc *)

\* All are made before the first of them is linked.
AddDesc ==
    /\ already_here' = TRUE
    /\ linked' = IF already_here THEN linked ELSE Members

\* The static initializer of the file; then, or never, main() begins.
StaticDescriptorInitializer ==
    /\ phase = "static" /\ At(MainThread, "idle")
    /\ AddDesc
    /\ phase' = "running"
    /\ UNCHANGED <<once, assigned, reflections, deletions, factory, at>>

\* default_instance(), which another static initializer may call first.
DefaultInstance(t) ==
    /\ MayCall(t)
    /\ AddDesc
    /\ UNCHANGED <<phase, once, assigned, reflections, deletions, factory, at>>

-----------------------------------------------------------------------------
(* GetMetadata, descriptor, and the message factory, which has it register types *)

GetMetadata(t) ==
    /\ MayCall(t)
    /\ at' = [at EXCEPT ![t] = <<"once", "GetMetadata">>]
    /\ UNCHANGED <<phase, already_here, linked, once, assigned, reflections, deletions, factory>>

GetPrototype(t) ==
    /\ MayCall(t)
    /\ at' = [at EXCEPT ![t] = <<"lock", "RegisterTypes">>]
    /\ UNCHANGED <<phase, already_here, linked, once, assigned, reflections, deletions, factory>>

Lock(t) ==
    /\ At(t, "lock") /\ factory = {}
    /\ factory' = {t}
    /\ Goto(t, "once")
    /\ UNCHANGED <<phase, already_here, linked, once, assigned, reflections, deletions>>

\* Mutant of Ready: whoever finds the work begun goes on.
ReadyOnceBegun == once # "UNINITIALIZED"

Ready == once = "DONE"

\* GoogleOnceInit: no lock is taken when all is done.
OnceInit(t) ==
    /\ At(t, "once")
    /\ Goto(t, IF Ready THEN "return" ELSE "init")
    /\ UNCHANGED <<phase, already_here, linked, once, assigned, reflections, deletions, factory>>

\* GoogleOnceInitImpl: one thread calls the function, the others wait for it.
OnceInitImpl(t) ==
    /\ At(t, "init") /\ once # "EXECUTING_CLOSURE"
    /\ once' = IF once = "DONE" THEN once ELSE "EXECUTING_CLOSURE"
    /\ Goto(t, IF once = "DONE" THEN "return" ELSE "assign")
    /\ UNCHANGED <<phase, already_here, linked, assigned, reflections, deletions, factory>>

\* Mutant of Assigning: the message factory is asked on the way.
AssigningLocked(t) == At(t, "assign") /\ factory \subseteq {t}

Assigning(t) == At(t, "assign")

\* protobuf_AssignDesc, class by class.
AssignDesc(t) ==
    /\ Assigning(t) /\ assigned < Len(Order)
    /\ AddDesc
    /\ assigned' = assigned + 1
    /\ reflections' = [reflections EXCEPT ![Order[assigned + 1]] = @ + 1]
    /\ UNCHANGED <<phase, once, deletions, factory, at>>

AssignDone(t) ==
    /\ Assigning(t) /\ assigned = Len(Order)
    /\ once' = "DONE"
    /\ Goto(t, "return")
    /\ UNCHANGED <<phase, already_here, linked, assigned, reflections, deletions, factory>>

\* What was assigned is read, and with RegisterTypes the factory unlocked.
Return(t) ==
    /\ At(t, "return")
    /\ factory' = factory \ {t}
    /\ at' = [at EXCEPT ![t] = Idle]
    /\ UNCHANGED <<phase, already_here, linked, once, assigned, reflections, deletions>>

-----------------------------------------------------------------------------
(* protobuf_ShutdownFile *)

\* Mutant of Destroyed: SharedDtor deletes the members of any instance.
DestroyedDeep(c) == {c} \cup linked[c]

\* What goes with the default instance of c: SharedDtor spares its members.
Destroyed(c) == {c}

ShutdownFile ==
    /\ phase = "running" /\ \A t \in Threads : At(t, "idle")
    /\ phase' = "over"
    /\ deletions' = [c \in Classes |-> Cardinality({d \in Classes : c \in Destroyed(d)})]
    /\ reflections' = [c \in Classes |-> IF reflections[c] > 0 THEN reflections[c] - 1 ELSE 0]
    /\ UNCHANGED <<already_here, linked, once, assigned, factory, at>>

StartupNext ==
    \/ StaticDescriptorInitializer \/ ShutdownFile
    \/ \E t \in Threads :
          \/ DefaultInstance(t) \/ GetMetadata(t) \/ GetPrototype(t) \/ Lock(t)
          \/ OnceInit(t) \/ OnceInitImpl(t) \/ AssignDesc(t) \/ AssignDone(t) \/ Return(t)

StartupSpec == StartupInit /\ [][StartupNext]_svars

-----------------------------------------------------------------------------
(* Properties *)

(***************************************************************************)
(* Whatever threads ask at the same time, none of them returns from        *)
(* protobuf_AssignDescriptorsOnce before every class has its descriptor    *)
(* and its reflection, and no reflection is made twice.                    *)
(***************************************************************************)
MetadataReady ==
    /\ \A t \in Threads : At(t, "return") => assigned = Len(Order) /\ already_here
    /\ \A c \in Classes : reflections[c] <= 1

(***************************************************************************)
(* The once flag and the lock of the message factory are taken in one      *)
(* order only: where a thread waits another one can go on.                 *)
(***************************************************************************)
Waits(t) ==
    \/ At(t, "lock") /\ factory # {}
    \/ At(t, "init") /\ once = "EXECUTING_CLOSURE"
    \/ At(t, "assign") /\ ~Assigning(t)
SomeoneMoves ==
    (\E t \in Threads : Waits(t)) => \E t \in Threads : ~At(t, "idle") /\ ~Waits(t)

(***************************************************************************)
(* The default instances point to each other, and yet the shutdown deletes *)
(* each one once, and every reflection that was made.                      *)
(***************************************************************************)
DeletedOnce ==
    phase = "over" => \A c \in Classes : deletions[c] = 1 /\ reflections[c] = 0
=============================================================================
