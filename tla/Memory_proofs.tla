---------------------------- MODULE Memory_proofs ----------------------------
(***************************************************************************)
(* The classes that manage memory for the program: every object of a       *)
(* scoped pointer has one owner, and a closure lives as long as it is      *)
(* owned or has to delete itself.  However many threads first use the      *)
(* generated classes at the same time, each finds the descriptors          *)
(* assigned, and none of them waits for ever.                              *)
(***************************************************************************)
EXTENDS ScopedPointers, Closures, Startup, FiniteSetTheorems,
    SequenceTheorems, TLAPS

-----------------------------------------------------------------------------
(* Scoped pointers *)

\* The pointers hold different objects of their kind, none of the caller's, and
\* hold all that is not.
Sole ==
    /\ \A p \in Scoped : \/ ptr[p] = Null
                         \/ ptr[p] \in (allocated \cap OfKind(p)) \ callers
    /\ \A p, q \in Scoped : ptr[p] = ptr[q] => p = q \/ ptr[p] = Null
    /\ \A o \in allocated \ callers : \E p \in Scoped : ptr[p] = o

ScopedInv ==
    /\ ~spoiled
    /\ Scoped \subseteq Pointer
    /\ ptr \in [Scoped -> Pointee \cup {Null}]
    /\ callers \subseteq allocated /\ allocated \subseteq Pointee
    /\ Sole

LEMMA Kinds ==
    /\ Null \notin Pointee
    /\ \A p \in Pointer : OfKind(p) \subseteq Pointee
  BY ScopedAssumption DEF Pointee, OfKind

LEMMA AllocateKeeps ==
    ASSUME ScopedInv, NEW o \in Pointee, Allocate(o)
    PROVE  ScopedInv'
  <1>1. \A p \in Scoped : ptr[p] # o
    BY Kinds DEF ScopedInv, Sole, Allocate
  <1>2. Sole'
    BY <1>1 DEF ScopedInv, Sole, Scoped, Allocate
  <1>3. QED BY <1>2 DEF ScopedInv, Scoped, Allocate

LEMMA ConstructKeeps ==
    ASSUME ScopedInv, NEW p \in Pointer, NEW o \in Pointee \cup {Null}, Construct(p, o)
    PROVE  ScopedInv'
  <1>1. /\ p \notin Scoped /\ (o = Null \/ o \in callers \cap OfKind(p))
        /\ callers' = callers \ {o} /\ UNCHANGED <<allocated, spoiled>>
        /\ Scoped' = Scoped \cup {p} /\ ptr'[p] = o
        /\ \A q \in Scoped : ptr'[q] = ptr[q]
        /\ ptr' \in [Scoped' -> Pointee \cup {Null}]
    BY DEF Construct, Given, Scoped, ScopedInv
  <1>2. Sole'
    BY <1>1, Kinds DEF ScopedInv, Sole
  <1>3. QED BY <1>1, <1>2 DEF ScopedInv

LEMMA DestructKeeps ==
    ASSUME ScopedInv, NEW p \in Pointer, Destruct(p)
    PROVE  ScopedInv'
  <1>1. /\ p \in Scoped /\ Deletes(p, ptr[p]) /\ callers' = callers
        /\ Scoped' = Scoped \ {p}
        /\ \A q \in Scoped' : ptr'[q] = ptr[q]
        /\ ptr' \in [Scoped' -> Pointee \cup {Null}]
    BY DEF Destruct, Scoped, ScopedInv
  <1>2. allocated' = allocated \ {ptr[p]} /\ ~spoiled' /\ ptr[p] \notin callers
    BY <1>1, Kinds DEF ScopedInv, Sole, Deletes
  <1>3. Sole'
    BY <1>1, <1>2, Kinds DEF ScopedInv, Sole
  <1>4. QED BY <1>1, <1>2, <1>3 DEF ScopedInv

LEMMA ResetKeeps ==
    ASSUME ScopedInv, NEW p \in Pointer, NEW o \in Pointee \cup {Null}, Reset(p, o)
    PROVE  ScopedInv'
  <1>1. /\ p \in Scoped /\ o \in Given(p) \cup {ptr[p]} /\ callers' = callers \ {o}
        /\ Scoped' = Scoped /\ ptr'[p] = o
        /\ \A q \in Scoped : q # p => ptr'[q] = ptr[q]
        /\ ptr' \in [Scoped -> Pointee \cup {Null}]
    BY DEF Reset, Scoped, ScopedInv
  <1>2. CASE o = ptr[p]
    <2>1. UNCHANGED <<allocated, spoiled>> /\ callers' = callers
      BY <1>1, <1>2, Kinds DEF Reset, IsOther, ScopedInv, Sole
    <2>2. \A q \in Scoped : ptr'[q] = ptr[q]
      BY <1>1, <1>2
    <2>3. Sole'
      BY <1>1, <2>1, <2>2 DEF ScopedInv, Sole
    <2>4. QED BY <1>1, <2>1, <2>3 DEF ScopedInv
  <1>3. CASE o # ptr[p]
    <2>1. Deletes(p, ptr[p]) /\ (o = Null \/ o \in callers \cap OfKind(p))
      BY <1>1, <1>3 DEF Reset, IsOther, Given
    <2>2. allocated' = allocated \ {ptr[p]} /\ ~spoiled' /\ ptr[p] \notin callers
      BY <1>1, <2>1, Kinds DEF ScopedInv, Sole, Deletes
    <2>3. Sole'
      BY <1>1, <1>3, <2>1, <2>2, Kinds DEF ScopedInv, Sole
    <2>4. QED BY <1>1, <2>2, <2>3 DEF ScopedInv
  <1>4. QED BY <1>2, <1>3

LEMMA SwapKeeps ==
    ASSUME ScopedInv, NEW p \in Pointer, NEW q \in Pointer, SwapPointers(p, q)
    PROVE  ScopedInv'
  <1> DEFINE other(r) == IF r = p THEN q ELSE IF r = q THEN p ELSE r
  <1>1. /\ p \in Scoped /\ q \in Scoped /\ OfKind(p) = OfKind(q)
        /\ Scoped' = Scoped /\ UNCHANGED <<allocated, callers, spoiled>>
        /\ ptr' \in [Scoped -> Pointee \cup {Null}]
    BY DEF SwapPointers, Scoped, ScopedInv
  <1>2. \A r \in Scoped : /\ other(r) \in Scoped /\ other(other(r)) = r
                          /\ ptr'[r] = ptr[other(r)] /\ OfKind(other(r)) = OfKind(r)
    BY <1>1 DEF SwapPointers, Scoped, ScopedInv
  <1> HIDE DEF other
  <1>3. \A r \in Scoped : ptr'[r] = Null \/ ptr'[r] \in (allocated \cap OfKind(r)) \ callers
    BY <1>2 DEF ScopedInv, Sole
  <1>4. ASSUME NEW r \in Scoped, NEW s \in Scoped, ptr'[r] = ptr'[s], ptr'[r] # Null
        PROVE  r = s
    <2>1. other(r) = other(s)
      BY <1>2, <1>4 DEF ScopedInv, Sole
    <2>2. QED BY <1>2, <2>1
  <1>5. ASSUME NEW o \in allocated \ callers
        PROVE  \E r \in Scoped : ptr'[r] = o
    <2>1. PICK r \in Scoped : ptr[r] = o
      BY DEF ScopedInv, Sole
    <2>2. other(r) \in Scoped /\ ptr'[other(r)] = o
      BY <1>2, <2>1
    <2>3. QED BY <2>2
  <1>6. OfKind(p)' = OfKind(p) /\ \A r : OfKind(r)' = OfKind(r)
    BY DEF OfKind
  <1>7. Sole'
    BY <1>1, <1>3, <1>4, <1>5, <1>6 DEF Sole
  <1>8. QED BY <1>1, <1>7 DEF ScopedInv

LEMMA ReleaseKeeps ==
    ASSUME ScopedInv, NEW p \in Pointer, ReleasePointer(p)
    PROVE  ScopedInv'
  <1>1. /\ p \in Scoped /\ Scoped' = Scoped /\ ptr'[p] = Null
        /\ \A q \in Scoped : q # p => ptr'[q] = ptr[q]
        /\ ptr' \in [Scoped -> Pointee \cup {Null}]
        /\ callers' = callers \cup ({ptr[p]} \ {Null}) /\ UNCHANGED <<allocated, spoiled>>
    BY DEF ReleasePointer, Scoped, ScopedInv
  <1>2. Sole'
    BY <1>1, Kinds DEF ScopedInv, Sole
  <1>3. callers' \subseteq allocated
    BY <1>1 DEF ScopedInv, Sole
  <1>4. QED BY <1>1, <1>2, <1>3 DEF ScopedInv

\* Every call on a scoped pointer keeps its object its own.
THEOREM ScopedInductive == ScopedInv /\ [ScopedNext]_pointerVars => ScopedInv'
  <1> SUFFICES ASSUME ScopedInv, [ScopedNext]_pointerVars PROVE ScopedInv'
    OBVIOUS
  <1>1. ASSUME NEW o \in Pointee, Allocate(o) PROVE ScopedInv'
    BY <1>1, AllocateKeeps
  <1>2. ASSUME NEW p \in Pointer, Destruct(p) \/ ReleasePointer(p) PROVE ScopedInv'
    BY <1>2, DestructKeeps, ReleaseKeeps
  <1>3. ASSUME NEW p \in Pointer, NEW o \in Pointee \cup {Null}, Construct(p, o) \/ Reset(p, o)
        PROVE  ScopedInv'
    BY <1>3, ConstructKeeps, ResetKeeps
  <1>4. ASSUME NEW p \in Pointer, NEW q \in Pointer, SwapPointers(p, q) PROVE ScopedInv'
    BY <1>4, SwapKeeps
  <1>5. CASE UNCHANGED pointerVars
    BY <1>5 DEF pointerVars, ScopedInv, Sole, Scoped
  <1>6. QED BY <1>1, <1>2, <1>3, <1>4, <1>5 DEF ScopedNext

LEMMA ScopedInitInv == ScopedInit => ScopedInv
  BY DEF ScopedInit, ScopedInv, Sole, Scoped

LEMMA OneHolder ==
    ASSUME ScopedInv, NEW o \in allocated
    PROVE  Cardinality({p \in Scoped : ptr[p] = o}) = IF o \in callers THEN 0 ELSE 1
  <1>1. o # Null
    BY Kinds DEF ScopedInv
  <1>2. CASE o \in callers
    <2>1. {p \in Scoped : ptr[p] = o} = {}
      BY <1>1, <1>2 DEF ScopedInv, Sole
    <2>2. QED BY <1>2, <2>1, FS_EmptySet
  <1>3. CASE o \notin callers
    <2>1. PICK p \in Scoped : ptr[p] = o
      BY <1>3 DEF ScopedInv, Sole
    <2>2. {q \in Scoped : ptr[q] = o} = {p}
      BY <1>1, <2>1 DEF ScopedInv, Sole
    <2>3. QED BY <1>3, <2>2, FS_Singleton
  <1>4. QED BY <1>2, <1>3

\* What is allocated has exactly one owner, for any number of pointers and
\* objects: reset() compares before it deletes, release() and swap() pass the
\* object on, and delete [] meets nothing that new allocated (common.h).
THEOREM ScopedSound == ScopedSpec => []OneOwnerEach
  <1>1. ScopedInv => OneOwnerEach
    <2> SUFFICES ASSUME ScopedInv PROVE OneOwnerEach
      OBVIOUS
    <2>1. callers \cup {ptr[p] : p \in Scoped} \subseteq allocated \cup {Null}
      BY DEF ScopedInv, Sole
    <2>2. QED BY <2>1, OneHolder DEF OneOwnerEach, ScopedInv
  <1>2. QED BY <1>1, ScopedInitInv, ScopedInductive, PTL DEF ScopedSpec
-----------------------------------------------------------------------------
(* Closures *)

Frame == [closure : Closure, needs_delete : BOOLEAN]

\* The frames that delete their closure when the function returns.
Deleting == {i \in 1 .. Len(running) : running[i].needs_delete}

\* A closure that will delete itself is run by one frame, and owned by nobody.
ClosureInv ==
    /\ alive \subseteq Closure /\ owned \subseteq Closure
    /\ self_deleting \in [Closure -> BOOLEAN]
    /\ running \in Seq(Frame)
    /\ alive = owned \cup {running[i].closure : i \in Deleting}
    /\ \A i \in Deleting : running[i].closure \notin owned
    /\ \A i, j \in Deleting : running[i].closure = running[j].closure => i = j

LEMMA RunKeeps ==
    ASSUME ClosureInv, NEW c \in Closure, Run(c)
    PROVE  ClosureInv'
  <1> DEFINE frame == [closure |-> c, needs_delete |-> self_deleting[c]]
             s == running
             t == <<frame>> \o running
  <1>1. /\ c \in owned /\ running' = t /\ UNCHANGED <<alive, self_deleting>>
        /\ owned' = IF self_deleting[c] THEN owned \ {c} ELSE owned
    BY DEF Run
  <1>2. s \in Seq(Frame) /\ frame \in Frame /\ Len(s) \in Nat
    BY DEF ClosureInv, Frame
  <1>3. /\ t \in Seq(Frame) /\ Len(t) = Len(s) + 1 /\ t[1] = frame
        /\ \A i \in 1 .. Len(s) : t[i + 1] = s[i]
    <2> HIDE DEF frame, s
    <2>1. <<frame>> \in Seq(Frame) /\ Len(<<frame>>) = 1 /\ <<frame>>[1] = frame
      BY <1>2
    <2>2. QED BY <1>2, <2>1, ConcatProperties DEF s
  <1> HIDE DEF t, s
  <1>4. \A i \in 1 .. Len(t) : i = 1 \/ (i - 1 \in 1 .. Len(s) /\ t[i] = s[i - 1])
    <2> SUFFICES ASSUME NEW i \in 1 .. Len(t), i # 1
                 PROVE  i - 1 \in 1 .. Len(s) /\ t[i] = s[i - 1]
      OBVIOUS
    <2>1. i - 1 \in 1 .. Len(s) /\ (i - 1) + 1 = i
      BY <1>2, <1>3
    <2>2. QED BY <1>3, <2>1
  <1>5. Deleting = {i \in 1 .. Len(s) : s[i].needs_delete}
    BY DEF Deleting, s
  <1>6. Deleting' = {i \in 1 .. Len(t) : t[i].needs_delete}
    BY <1>1 DEF Deleting
  <1>7. \A i \in 1 .. Len(s) : i + 1 \in 1 .. Len(t)
    BY <1>2, <1>3
  <1>8. \A i \in Deleting' : i # 1 => i - 1 \in Deleting /\ t[i] = s[i - 1]
    BY <1>4, <1>5, <1>6
  <1>9. \A i \in Deleting : i + 1 \in Deleting' /\ t[i + 1] = s[i]
    BY <1>3, <1>5, <1>6, <1>7
  <1>10. 1 \in Deleting' <=> self_deleting[c]
    BY <1>2, <1>3, <1>6
  <1>11. /\ alive = owned \cup {s[i].closure : i \in Deleting}
         /\ \A i \in Deleting : s[i].closure \notin owned
         /\ \A i, j \in Deleting : s[i].closure = s[j].closure => i = j
         /\ self_deleting[c] \in BOOLEAN
    BY DEF ClosureInv, s
  <1>12. t[1].closure = c
    BY <1>3
  <1> HIDE DEF frame
  <1>13. alive = owned' \cup {t[i].closure : i \in Deleting'}
    <2>1. {t[i].closure : i \in Deleting'} \subseteq {s[i].closure : i \in Deleting} \cup {c}
      BY <1>8, <1>12
    <2>2. {s[i].closure : i \in Deleting} \subseteq {t[i].closure : i \in Deleting'}
      BY <1>9
    <2>3. self_deleting[c] => c \in {t[i].closure : i \in Deleting'}
      BY <1>10, <1>12
    <2>4. QED BY <1>1, <1>11, <2>1, <2>2, <2>3
  <1>14. ASSUME NEW i \in Deleting' PROVE t[i].closure \notin owned'
    <2>1. CASE i = 1
      BY <1>1, <1>10, <1>12, <2>1
    <2>2. CASE i # 1
      BY <1>1, <1>8, <1>11, <2>2
    <2>3. QED BY <2>1, <2>2
  <1>15. ASSUME NEW i \in Deleting', NEW j \in Deleting', t[i].closure = t[j].closure
         PROVE  i = j
    <2>1. \A k \in Deleting' : k # 1 => t[k].closure # c
      BY <1>1, <1>8, <1>11
    <2>2. CASE i = 1 \/ j = 1
      BY <1>12, <1>15, <2>1, <2>2
    <2>3. CASE i # 1 /\ j # 1
      <3>1. i - 1 = j - 1
        BY <1>8, <1>11, <1>15, <2>3
      <3>2. i \in Nat /\ j \in Nat
        BY <1>2, <1>3, <1>6
      <3>3. QED BY <3>1, <3>2
    <2>4. QED BY <2>2, <2>3
  <1>16. alive \subseteq Closure /\ owned' \subseteq Closure /\ self_deleting \in [Closure -> BOOLEAN]
    BY <1>1 DEF ClosureInv
  <1>17. QED BY <1>1, <1>3, <1>13, <1>14, <1>15, <1>16 DEF ClosureInv

LEMMA ReturnKeeps ==
    ASSUME ClosureInv, ReturnFromRun
    PROVE  ClosureInv'
  <1> DEFINE s == running
             t == Tail(running)
             h == Head(running)
  <1>1. /\ s # <<>> /\ running' = t /\ UNCHANGED <<self_deleting, owned>>
        /\ alive' = IF h.needs_delete THEN alive \ {h.closure} ELSE alive
    BY DEF ReturnFromRun, NeedsDelete
  <1>2. s \in Seq(Frame) /\ Len(s) \in Nat
    BY DEF ClosureInv
  <1>3. /\ t \in Seq(Frame) /\ Len(t) = Len(s) - 1 /\ h = s[1]
        /\ \A i \in 1 .. Len(t) : t[i] = s[i + 1]
    BY <1>1, <1>2, HeadTailProperties
  <1> HIDE DEF s, t, h
  <1>4. Deleting = {i \in 1 .. Len(s) : s[i].needs_delete}
    BY DEF Deleting, s
  <1>5. Deleting' = {i \in 1 .. Len(t) : t[i].needs_delete}
    BY <1>1 DEF Deleting
  <1>6. \A i \in Deleting' : i + 1 \in Deleting /\ t[i] = s[i + 1] /\ i + 1 # 1 /\ i \in Nat
    BY <1>2, <1>3, <1>4, <1>5
  <1>7. \A i \in Deleting : i # 1 => i - 1 \in Deleting' /\ t[i - 1] = s[i]
    <2> SUFFICES ASSUME NEW i \in Deleting, i # 1
                 PROVE  i - 1 \in Deleting' /\ t[i - 1] = s[i]
      OBVIOUS
    <2>1. i - 1 \in 1 .. Len(t) /\ (i - 1) + 1 = i /\ s[i].needs_delete
      BY <1>2, <1>3, <1>4
    <2>2. t[i - 1] = s[i]
      BY <1>3, <2>1
    <2>3. QED BY <1>5, <2>1, <2>2
  <1>8. 1 \in Deleting <=> h.needs_delete
    <2>1. Len(s) \in Nat \ {0}
      BY <1>1, <1>2
    <2>2. 1 \in 1 .. Len(s)
      BY <2>1
    <2>3. QED BY <1>3, <1>4, <2>2
  <1>9. /\ alive = owned \cup {s[i].closure : i \in Deleting}
        /\ \A i \in Deleting : s[i].closure \notin owned
        /\ \A i, j \in Deleting : s[i].closure = s[j].closure => i = j
    BY DEF ClosureInv, s
  <1>10. alive' = owned \cup {t[i].closure : i \in Deleting'}
    <2>1. {t[i].closure : i \in Deleting'} = {s[i].closure : i \in Deleting \ {1}}
      BY <1>6, <1>7
    <2>2. CASE h.needs_delete
      <3>1. \A i \in Deleting \ {1} : s[i].closure # h.closure
        BY <1>3, <1>8, <1>9, <2>2
      <3>2. h.closure \notin owned
        BY <1>3, <1>8, <1>9, <2>2
      <3>3. alive = owned \cup {s[i].closure : i \in Deleting \ {1}} \cup {h.closure}
        BY <1>3, <1>8, <1>9, <2>2
      <3>4. QED BY <1>1, <2>1, <2>2, <3>1, <3>2, <3>3
    <2>3. CASE ~h.needs_delete
      BY <1>1, <1>8, <1>9, <2>1, <2>3
    <2>4. QED BY <2>2, <2>3
  <1>11. /\ \A i \in Deleting' : t[i].closure \notin owned
         /\ \A i, j \in Deleting' : t[i].closure = t[j].closure => i = j
    <2>1. \A i, j \in Deleting' : t[i].closure = t[j].closure => i + 1 = j + 1
      BY <1>6, <1>9
    <2>2. \A i, j \in Deleting' : t[i].closure = t[j].closure => i = j
      BY <1>6, <2>1
    <2>3. QED BY <1>6, <1>9, <2>2
  <1>12. alive' \subseteq Closure /\ owned \subseteq Closure /\ self_deleting \in [Closure -> BOOLEAN]
    BY <1>1 DEF ClosureInv
  <1>13. QED BY <1>1, <1>3, <1>10, <1>11, <1>12 DEF ClosureInv

\* A closure is made where none is, or deleted by its owner.
LEMMA OwnersKeep ==
    ASSUME ClosureInv, NEW c \in Closure,
           NewCallback(c) \/ NewPermanentCallback(c) \/ DeleteClosure(c)
    PROVE  ClosureInv'
  <1>1. running' = running /\ Deleting' = Deleting
    BY DEF NewCallback, NewPermanentCallback, MakeClosure, DeleteClosure, Deleting
  <1>2. self_deleting' \in [Closure -> BOOLEAN]
    BY DEF NewCallback, NewPermanentCallback, MakeClosure, DeleteClosure, ClosureInv
  <1>3. \/ c \notin alive /\ alive' = alive \cup {c} /\ owned' = owned \cup {c}
        \/ c \in owned /\ alive' = alive \ {c} /\ owned' = owned \ {c}
    BY DEF NewCallback, NewPermanentCallback, MakeClosure, DeleteClosure
  <1> DEFINE deleted == {running[i].closure : i \in Deleting}
  <1>4. deleted' = deleted
    BY <1>1
  <1>5. /\ alive = owned \cup deleted /\ owned \cap deleted = {}
        /\ alive \subseteq Closure /\ owned \subseteq Closure
    BY DEF ClosureInv
  <1>6. alive' = owned' \cup deleted /\ owned' \cap deleted = {}
    <2> HIDE DEF deleted
    <2>1. QED BY <1>3, <1>5
  <1>7. alive' \subseteq Closure /\ owned' \subseteq Closure
    BY <1>3, <1>5
  <1>8. QED BY <1>1, <1>2, <1>6, <1>7 DEF ClosureInv

\* Every call of a closure and every return keeps who will delete it.
THEOREM ClosuresInductive == ClosureInv /\ [ClosuresNext]_cvars => ClosureInv'
  <1> SUFFICES ASSUME ClosureInv, [ClosuresNext]_cvars PROVE ClosureInv'
    OBVIOUS
  <1>1. CASE ReturnFromRun
    BY <1>1, ReturnKeeps
  <1>2. ASSUME NEW c \in Closure,
               NewCallback(c) \/ NewPermanentCallback(c) \/ Run(c) \/ DeleteClosure(c)
        PROVE  ClosureInv'
    BY <1>2, RunKeeps, OwnersKeep
  <1>3. CASE UNCHANGED cvars
    BY <1>3 DEF cvars, ClosureInv, Deleting
  <1>4. QED BY <1>1, <1>2, <1>3 DEF ClosuresNext

\* A closure lives as long as someone may run or delete it or it runs and will
\* delete itself, for any number of closures and any depth of calls.
THEOREM ClosuresSound == ClosuresSpec => []LivesAsLongAsOwned
  <1>1. ClosuresInit => ClosureInv
    BY DEF ClosuresInit, ClosureInv, Deleting
  <1>2. ClosureInv => LivesAsLongAsOwned
    <2> SUFFICES ASSUME ClosureInv PROVE LivesAsLongAsOwned
      OBVIOUS
    <2>1. DOMAIN running = 1 .. Len(running)
      BY DEF ClosureInv
    <2>2. QED BY <2>1 DEF ClosureInv, LivesAsLongAsOwned, Deleting
  <1>3. QED BY <1>1, <1>2, ClosuresInductive, PTL DEF ClosuresSpec

-----------------------------------------------------------------------------
(* The start of the program *)

Place == {"idle", "lock", "once", "init", "assign", "return"}
Purpose == {"", "GetMetadata", "RegisterTypes"}

StartupTypeOK ==
    /\ phase \in {"static", "running", "over"}
    /\ already_here \in BOOLEAN
    /\ once \in {"UNINITIALIZED", "EXECUTING_CLOSURE", "DONE"}
    /\ assigned \in 0 .. Len(Order)
    /\ reflections \in [Classes -> 0 .. 1]
    /\ factory \subseteq Threads
    /\ at \in [Threads -> Place \X Purpose]

\* One thread assigns, and only while the flag says so; what is not yet
\* assigned has no reflection.
OnceFlag ==
    /\ once = "UNINITIALIZED" => assigned = 0
    /\ once = "DONE" => assigned = Len(Order)
    /\ once = "EXECUTING_CLOSURE" <=> \E t \in Threads : At(t, "assign")
    /\ \A t, u \in Threads : At(t, "assign") /\ At(u, "assign") => t = u
    /\ \A t \in Threads : At(t, "return") => once = "DONE"
    /\ assigned > 0 => already_here
    /\ phase # "over" =>
          \A i \in 1 .. Len(Order) : i > assigned => reflections[Order[i]] = 0

AfterShutdown ==
    phase = "over" =>
        /\ \A t \in Threads : At(t, "idle")
        /\ \A c \in Classes : deletions[c] = 1 /\ reflections[c] = 0

FactoryLock == \A t \in factory : ~At(t, "idle") /\ ~At(t, "lock")

StartupInv == StartupTypeOK /\ OnceFlag /\ AfterShutdown /\ FactoryLock

LEMMA Ordered ==
    /\ Len(Order) = 10
    /\ \A i \in 1 .. 10 : Order[i] \in Classes
    /\ \A i, j \in 1 .. 10 : Order[i] = Order[j] => i = j
  <1>1. Len(Order) = 10 /\ Classes = {Order[i] : i \in DOMAIN Order} /\ DOMAIN Order = 1 .. 10
    BY DEF Order, Classes, ToSet
  <1>2. \A i \in 1 .. 10 : Order[i] \in Classes
    BY <1>1
  <1>3. \A i, j \in 1 .. 10 : Order[i] = Order[j] => i = j
    BY DEF Order
  <1>4. QED BY <1>1, <1>2, <1>3

\* A thread goes to another place.
LEMMA Moves ==
    ASSUME StartupTypeOK, NEW t \in Threads, NEW place \in Place, NEW why \in Purpose,
           at' = [at EXCEPT ![t] = <<place, why>>]
    PROVE  /\ at' \in [Threads -> Place \X Purpose]
           /\ at'[t][1] = place
           /\ \A u \in Threads : u # t => at'[u] = at[u]
  BY DEF StartupTypeOK

LEMMA Goes ==
    ASSUME StartupTypeOK, NEW t \in Threads, NEW place \in Place, Goto(t, place)
    PROVE  /\ at' \in [Threads -> Place \X Purpose]
           /\ at'[t][1] = place
           /\ \A u \in Threads : u # t => at'[u] = at[u]
  <1>1. at[t][2] \in Purpose
    BY DEF StartupTypeOK
  <1>2. QED BY <1>1, Moves DEF Goto

LEMMA CallKeeps ==
    ASSUME StartupInv, NEW t \in Threads, GetMetadata(t) \/ GetPrototype(t)
    PROVE  StartupInv'
  <1>1. /\ at[t][1] = "idle" /\ phase # "over"
        /\ UNCHANGED <<phase, already_here, linked, once, assigned, reflections, deletions, factory>>
    BY DEF GetMetadata, GetPrototype, MayCall, At
  <1>2. /\ at' \in [Threads -> Place \X Purpose]
        /\ at'[t][1] \in {"once", "lock"}
        /\ \A u \in Threads : u # t => at'[u] = at[u]
    <2>1. CASE GetMetadata(t)
      BY <2>1, Moves DEF StartupInv, GetMetadata, Place, Purpose
    <2>2. CASE GetPrototype(t)
      BY <2>2, Moves DEF StartupInv, GetPrototype, Place, Purpose
    <2>3. QED BY <2>1, <2>2
  <1>3. QED
    BY <1>1, <1>2 DEF StartupInv, StartupTypeOK, OnceFlag, AfterShutdown, FactoryLock, At

\* Steps on the way to the work and back.
LEMMA WayKeeps ==
    ASSUME StartupInv, NEW t \in Threads,
           Lock(t) \/ OnceInit(t) \/ OnceInitImpl(t) \/ AssignDone(t) \/ Return(t)
    PROVE  StartupInv'
  <1>1. UNCHANGED <<phase, already_here, linked, assigned, reflections, deletions>>
    BY DEF Lock, OnceInit, OnceInitImpl, AssignDone, Return
  <1>2. at[t][1] # "idle" /\ phase # "over"
    BY DEF Lock, OnceInit, OnceInitImpl, AssignDone, Return, At, Assigning,
           StartupInv, AfterShutdown
  <1>3. CASE Lock(t)
    <2>1. /\ at' \in [Threads -> Place \X Purpose] /\ at'[t][1] = "once"
          /\ \A u \in Threads : u # t => at'[u] = at[u]
      BY <1>3, Goes DEF StartupInv, Lock, Place
    <2>2. /\ at[t][1] = "lock" /\ factory' = {t} /\ once' = once
      BY <1>3 DEF Lock, At
    <2>3. QED
      BY <1>1, <1>2, <2>1, <2>2
         DEF StartupInv, StartupTypeOK, OnceFlag, AfterShutdown, FactoryLock, At
  <1>4. CASE OnceInit(t)
    <2>1. PICK place \in {"return", "init"} : Goto(t, place) /\ (place = "return" => once = "DONE")
      BY <1>4 DEF OnceInit, Ready
    <2>2. /\ at' \in [Threads -> Place \X Purpose] /\ at'[t][1] = place
          /\ \A u \in Threads : u # t => at'[u] = at[u]
      BY <2>1, Goes DEF StartupInv, Place
    <2>3. at[t][1] = "once" /\ factory' = factory /\ once' = once
      BY <1>4 DEF OnceInit, At
    <2>4. QED
      BY <1>1, <1>2, <2>1, <2>2, <2>3
         DEF StartupInv, StartupTypeOK, OnceFlag, AfterShutdown, FactoryLock, At
  <1>5. CASE OnceInitImpl(t)
    <2>1. at[t][1] = "init" /\ once # "EXECUTING_CLOSURE" /\ factory' = factory
      BY <1>5 DEF OnceInitImpl, At
    <2>2. CASE once = "DONE"
      <3>1. Goto(t, "return") /\ once' = once
        BY <1>5, <2>2 DEF OnceInitImpl
      <3>2. /\ at' \in [Threads -> Place \X Purpose] /\ at'[t][1] = "return"
            /\ \A u \in Threads : u # t => at'[u] = at[u]
        BY <3>1, Goes DEF StartupInv, Place
      <3>3. QED
        BY <1>1, <1>2, <2>1, <2>2, <3>1, <3>2
           DEF StartupInv, StartupTypeOK, OnceFlag, AfterShutdown, FactoryLock, At
    <2>3. CASE once # "DONE"
      <3>1. Goto(t, "assign") /\ once' = "EXECUTING_CLOSURE" /\ once = "UNINITIALIZED"
        BY <1>5, <2>1, <2>3 DEF OnceInitImpl, StartupInv, StartupTypeOK
      <3>2. /\ at' \in [Threads -> Place \X Purpose] /\ at'[t][1] = "assign"
            /\ \A u \in Threads : u # t => at'[u] = at[u]
        BY <3>1, Goes DEF StartupInv, Place
      <3>3. QED
        BY <1>1, <1>2, <2>1, <3>1, <3>2
           DEF StartupInv, StartupTypeOK, OnceFlag, AfterShutdown, FactoryLock, At
    <2>4. QED BY <2>2, <2>3
  <1>6. CASE AssignDone(t)
    <2>1. /\ at[t][1] = "assign" /\ factory' = factory /\ once' = "DONE"
          /\ assigned = Len(Order) /\ Goto(t, "return")
      BY <1>6 DEF AssignDone, Assigning, At
    <2>2. /\ at' \in [Threads -> Place \X Purpose] /\ at'[t][1] = "return"
          /\ \A u \in Threads : u # t => at'[u] = at[u]
      BY <2>1, Goes DEF StartupInv, Place
    <2>3. \A u \in Threads : at'[u][1] # "assign"
      BY <2>1, <2>2 DEF StartupInv, OnceFlag, At
    <2>4. QED
      BY <1>1, <1>2, <2>1, <2>2, <2>3
         DEF StartupInv, StartupTypeOK, OnceFlag, AfterShutdown, FactoryLock, At
  <1>7. CASE Return(t)
    <2>1. /\ at[t][1] = "return" /\ factory' = factory \ {t} /\ once' = once
          /\ at' = [at EXCEPT ![t] = <<"idle", "">>]
      BY <1>7 DEF Return, At, Idle
    <2>2. /\ at' \in [Threads -> Place \X Purpose] /\ at'[t][1] = "idle"
          /\ \A u \in Threads : u # t => at'[u] = at[u]
      BY <2>1, Moves DEF StartupInv, Place, Purpose
    <2>3. QED
      BY <1>1, <1>2, <2>1, <2>2
         DEF StartupInv, StartupTypeOK, OnceFlag, AfterShutdown, FactoryLock, At
  <1>8. QED BY <1>3, <1>4, <1>5, <1>6, <1>7

LEMMA AssignKeeps ==
    ASSUME StartupInv, NEW t \in Threads, AssignDesc(t)
    PROVE  StartupInv'
  <1> DEFINE c == Order[assigned + 1]
  <1>1. /\ at[t][1] = "assign" /\ assigned < Len(Order) /\ assigned' = assigned + 1
        /\ already_here' = TRUE
        /\ reflections' = [reflections EXCEPT ![c] = @ + 1]
        /\ UNCHANGED <<phase, once, deletions, factory, at>>
    BY DEF AssignDesc, Assigning, At, AddDesc
  <1>2. assigned \in Nat /\ assigned + 1 \in 1 .. 10 /\ c \in Classes /\ once = "EXECUTING_CLOSURE"
    BY <1>1, Ordered DEF StartupInv, StartupTypeOK, OnceFlag, At
  <1>3. phase # "over"
    BY <1>1 DEF StartupInv, AfterShutdown, At
  <1>4. reflections[c] = 0
    BY <1>2, <1>3, Ordered DEF StartupInv, OnceFlag
  <1>5. \A i \in 1 .. 10 : i > assigned + 1 => Order[i] # c /\ Order[i] \in Classes
    BY <1>2, Ordered
  <1> HIDE DEF c
  <1>6. reflections' \in [Classes -> 0 .. 1]
    BY <1>1, <1>2, <1>4 DEF StartupInv, StartupTypeOK
  <1>7. \A i \in 1 .. 10 : i > assigned + 1 => reflections'[Order[i]] = 0
    <2> SUFFICES ASSUME NEW i \in 1 .. 10, i > assigned + 1 PROVE reflections'[Order[i]] = 0
      OBVIOUS
    <2>1. reflections[Order[i]] = 0
      BY <1>2, <1>3, Ordered DEF StartupInv, OnceFlag
    <2>2. QED BY <1>1, <1>5, <2>1 DEF StartupInv, StartupTypeOK
  <1>8. StartupTypeOK'
    BY <1>1, <1>2, <1>6, Ordered DEF StartupInv, StartupTypeOK
  <1>9. OnceFlag'
    BY <1>1, <1>2, <1>7, Ordered DEF StartupInv, OnceFlag, At
  <1>10. QED
    BY <1>1, <1>3, <1>8, <1>9 DEF StartupInv, AfterShutdown, FactoryLock, At

LEMMA ProgramKeeps ==
    ASSUME StartupInv,
           StaticDescriptorInitializer \/ ShutdownFile \/ \E t \in Threads : DefaultInstance(t)
    PROVE  StartupInv'
  <1>1. CASE StaticDescriptorInitializer \/ \E t \in Threads : DefaultInstance(t)
    <2>1. /\ already_here' = TRUE /\ phase' \in {phase, "running"} /\ phase # "over"
          /\ UNCHANGED <<once, assigned, reflections, deletions, factory, at>>
      BY <1>1 DEF StaticDescriptorInitializer, DefaultInstance, AddDesc, MayCall
    <2>2. QED
      BY <2>1 DEF StartupInv, StartupTypeOK, OnceFlag, AfterShutdown, FactoryLock, At
  <1>2. CASE ShutdownFile
    <2>1. /\ \A t \in Threads : At(t, "idle")
          /\ phase' = "over"
          /\ UNCHANGED <<already_here, once, assigned, factory, at>>
      BY <1>2 DEF ShutdownFile
    <2>2. reflections' \in [Classes -> 0 .. 1] /\ \A c \in Classes : reflections'[c] = 0
      BY <1>2 DEF ShutdownFile, StartupInv, StartupTypeOK
    <2>3. ASSUME NEW c \in Classes PROVE deletions'[c] = 1
      <3>1. {d \in Classes : c \in Destroyed(d)} = {c}
        BY DEF Destroyed
      <3>2. QED BY <1>2, <3>1, FS_Singleton DEF ShutdownFile
    <2>4. QED
      BY <2>1, <2>2, <2>3 DEF StartupInv, StartupTypeOK, OnceFlag, AfterShutdown, FactoryLock, At
  <1>3. QED BY <1>1, <1>2

\* Every step of a thread keeps the once flag and the lock what they say.
THEOREM StartupInductive == StartupInv /\ [StartupNext]_svars => StartupInv'
  <1> SUFFICES ASSUME StartupInv, [StartupNext]_svars PROVE StartupInv'
    OBVIOUS
  <1>1. CASE StaticDescriptorInitializer \/ ShutdownFile \/ \E t \in Threads : DefaultInstance(t)
    BY <1>1, ProgramKeeps
  <1>2. ASSUME NEW t \in Threads, GetMetadata(t) \/ GetPrototype(t) PROVE StartupInv'
    BY <1>2, CallKeeps
  <1>3. ASSUME NEW t \in Threads,
               Lock(t) \/ OnceInit(t) \/ OnceInitImpl(t) \/ AssignDone(t) \/ Return(t)
        PROVE  StartupInv'
    BY <1>3, WayKeeps
  <1>4. ASSUME NEW t \in Threads, AssignDesc(t) PROVE StartupInv'
    BY <1>4, AssignKeeps
  <1>5. CASE UNCHANGED svars
    BY <1>5 DEF svars, StartupInv, StartupTypeOK, OnceFlag, AfterShutdown, FactoryLock, At
  <1>6. QED BY <1>1, <1>2, <1>3, <1>4, <1>5 DEF StartupNext

LEMMA StartupInitInv == StartupInit => StartupInv
  <1> SUFFICES ASSUME StartupInit PROVE StartupInv
    OBVIOUS
  <1>1. \A t \in Threads : at[t][1] = "idle"
    BY DEF StartupInit, Idle
  <1>2. StartupTypeOK
    <2>1. at \in [Threads -> Place \X Purpose]
      BY DEF StartupInit, Idle, Place, Purpose
    <2>2. reflections \in [Classes -> 0 .. 1]
      BY DEF StartupInit
    <2>3. assigned \in 0 .. Len(Order)
      BY Ordered DEF StartupInit
    <2>4. QED BY <2>1, <2>2, <2>3 DEF StartupInit, StartupTypeOK
  <1>3. OnceFlag
    <2>1. \A i \in 1 .. Len(Order) : reflections[Order[i]] = 0
      BY Ordered DEF StartupInit
    <2>2. \A t \in Threads : ~At(t, "assign") /\ ~At(t, "return")
      BY <1>1 DEF At
    <2>3. assigned = 0 /\ once = "UNINITIALIZED"
      BY DEF StartupInit
    <2>4. QED BY <2>1, <2>2, <2>3 DEF OnceFlag
  <1>4. AfterShutdown /\ FactoryLock
    BY <1>1 DEF StartupInit, AfterShutdown, FactoryLock
  <1>5. QED BY <1>2, <1>3, <1>4 DEF StartupInv

\* For any number of threads: none returns from protobuf_AssignDescriptorsOnce
\* before all is assigned, and nothing is assigned twice (once.h, ql2.pb.cc).
THEOREM MetadataSound == StartupSpec => []MetadataReady
  <1>1. StartupInv => MetadataReady
    <2> SUFFICES ASSUME StartupInv PROVE MetadataReady
      OBVIOUS
    <2>1. \A t \in Threads : At(t, "return") => assigned = Len(Order) /\ already_here
      BY Ordered DEF StartupInv, OnceFlag
    <2>2. \A c \in Classes : reflections[c] <= 1
      BY DEF StartupInv, StartupTypeOK
    <2>3. QED BY <2>1, <2>2 DEF MetadataReady
  <1>2. QED BY <1>1, StartupInitInv, StartupInductive, PTL DEF StartupSpec

\* For any number of threads, the once flag and the lock of the message factory
\* never leave all of them waiting.
THEOREM NoDeadlock == StartupSpec => []SomeoneMoves
  <1>1. StartupInv => SomeoneMoves
    <2> SUFFICES ASSUME StartupInv, NEW t \in Threads, Waits(t)
                 PROVE  \E u \in Threads : ~At(u, "idle") /\ ~Waits(u)
      BY DEF SomeoneMoves
    <2>1. ASSUME once = "EXECUTING_CLOSURE"
          PROVE  \E u \in Threads : ~At(u, "idle") /\ ~Waits(u)
      <3>1. PICK u \in Threads : At(u, "assign")
        BY <2>1 DEF StartupInv, OnceFlag
      <3>2. QED BY <3>1 DEF Waits, At, Assigning
    <2>2. CASE At(t, "lock") /\ factory # {} /\ once # "EXECUTING_CLOSURE"
      <3>1. PICK u \in factory : ~At(u, "idle") /\ ~At(u, "lock")
        BY <2>2 DEF StartupInv, FactoryLock
      <3>2. QED BY <2>2, <3>1 DEF Waits, Assigning, StartupInv, StartupTypeOK
    <2>3. QED BY <2>1, <2>2 DEF Waits, Assigning
  <1>2. QED BY <1>1, StartupInitInv, StartupInductive, PTL DEF StartupSpec

\* The shutdown deletes each default instance once, and every reflection.
THEOREM ShutdownSound == StartupSpec => []DeletedOnce
  <1>1. StartupInv => DeletedOnce
    BY DEF StartupInv, AfterShutdown, DeletedOnce
  <1>2. QED BY <1>1, StartupInitInv, StartupInductive, PTL DEF StartupSpec
==============================================================================
