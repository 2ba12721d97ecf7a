------------------------------ MODULE Closures -------------------------------
(***************************************************************************)
(* The closures of stubs/common.h, of functions and of methods alike: one  *)
(* made by NewCallback deletes itself when it has been run, one made by    *)
(* NewPermanentCallback is deleted by its owner, who may do so while it    *)
(* runs.  The memory of a deleted closure is used again.                   *)
(***************************************************************************)
EXTENDS Naturals, SequencesExt

CONSTANTS
    Closure,   \* the places in memory
    MaxDepth   \* bound: closures that run within each other

VARIABLES
    alive,          \* the places that hold a closure
    self_deleting,  \* the member of that name, also what is left of it
    running,        \* the closures that run, the last first, each with its
                    \* local variable needs_delete
    owned           \* history: the closures that are yet to be run or deleted
cvars == <<alive, self_deleting, running, owned>>

ClosuresInit ==
    /\ alive = {}
    /\ self_deleting \in [Closure -> BOOLEAN]
    /\ running = <<>>
    /\ owned = {}

MakeClosure(c, deleting) ==
    /\ c \notin alive
    /\ alive' = alive \cup {c}
    /\ self_deleting' = [self_deleting EXCEPT ![c] = deleting]
    /\ owned' = owned \cup {c}
    /\ UNCHANGED running

NewCallback(c) == MakeClosure(c, TRUE)
NewPermanentCallback(c) == MakeClosure(c, FALSE)

\* Run() up to the call.  A callback is run once, by whoever has it.
Run(c) ==
    /\ c \in owned /\ Len(running) < MaxDepth
    /\ running' = <<[closure |-> c, needs_delete |-> self_deleting[c]]>> \o running
    /\ owned' = IF self_deleting[c] THEN owned \ {c} ELSE owned
    /\ UNCHANGED <<alive, self_deleting>>

\* Mutant of NeedsDelete: the member is read after the call.
NeedsDeleteLate(frame) == self_deleting[frame.closure]

\* It is read before the call, in case the callback deletes.
NeedsDelete(frame) == frame.needs_delete

\* The function returns, and with it Run().
ReturnFromRun ==
    /\ running # <<>>
    /\ running' = Tail(running)
    /\ alive' = IF NeedsDelete(Head(running)) THEN alive \ {Head(running).closure} ELSE alive
    /\ UNCHANGED <<self_deleting, owned>>

\* The owner deletes a permanent one, from within its own function as well.
DeleteClosure(c) ==
    /\ c \in owned /\ ~self_deleting[c]
    /\ alive' = alive \ {c}
    /\ owned' = owned \ {c}
    /\ UNCHANGED <<self_deleting, running>>

ClosuresNext ==
    \/ ReturnFromRun
    \/ \E c \in Closure : NewCallback(c) \/ NewPermanentCallback(c) \/ Run(c) \/ DeleteClosure(c)

ClosuresSpec == ClosuresInit /\ [][ClosuresNext]_cvars

-----------------------------------------------------------------------------
(***************************************************************************)
(* A closure lives exactly as long as someone may still run or delete it,  *)
(* or as it runs and will delete itself: none is deleted under its owner,  *)
(* not even one that took the place of a closure that was deleted while it *)
(* ran, and none is left.                                                  *)
(***************************************************************************)
LivesAsLongAsOwned ==
    alive = owned \cup {running[i].closure : i \in {j \in DOMAIN running : running[j].needs_delete}}
=============================================================================
