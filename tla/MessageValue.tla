---------------------------- MODULE MessageValue ----------------------------
(***************************************************************************)
(* What the generated message classes promise: a message is a value, the   *)
(* fields that are set and the elements of its lists.  How a message was   *)
(* used before, which memory it kept and in which pieces its bytes were    *)
(* written has no influence on it, and what is parsed is what was          *)
(* serialized unless it is nested too deep, in which case parsing fails.   *)
(***************************************************************************)
EXTENDS Naturals, SequencesExt, FiniteSetsExt, TLC

CONSTANTS
    Objects,         \* the messages
    RecursionLimit,  \* how deep a message that is parsed may be nested
    Initial,         \* per class: the values the messages start with,
    Assigned,        \* the pairs of a field and what it is set to,
    Given,           \* the pairs of a field and the message it is given,
    Added,           \* the pairs of a list and the message added to it, and
    Arriving         \* the values of the messages that come from elsewhere

VARIABLES
    class,   \* of the messages
    value,   \* of each message
    sent,    \* the value that is in the bytes
    parsed   \* did the last parsing succeed?

valueVars == <<class, value, sent, parsed>>

\* A value has scalars, the strings among them, messages, lists of messages
\* and what an older program does not know.
RECURSIVE Merged(_, _)
Merged(v, w) ==
    [scalars  |-> w.scalars @@ v.scalars,
     messages |-> [f \in DOMAIN v.messages \cup DOMAIN w.messages |->
                      CASE f \notin DOMAIN v.messages -> w.messages[f]
                        [] f \notin DOMAIN w.messages -> v.messages[f]
                        [] OTHER -> Merged(v.messages[f], w.messages[f])],
     lists    |-> [f \in DOMAIN v.lists |-> v.lists[f] \o w.lists[f]],
     unknown  |-> v.unknown \o w.unknown]

Emptied(v) ==
    [scalars |-> <<>>, messages |-> <<>>, lists |-> [f \in DOMAIN v.lists |-> <<>>],
     unknown |-> <<>>]

RECURSIVE Depth(_)
Depth(v) ==
    LET inner == {v.messages[f] : f \in DOMAIN v.messages}
                   \cup UNION {ToSet(v.lists[f]) : f \in DOMAIN v.lists}
    IN  IF inner = {} THEN 0 ELSE 1 + Max({Depth(w) : w \in inner})

Dropped(partial, f) == [g \in DOMAIN partial \ {f} |-> partial[g]]

Init ==
    /\ value \in [Objects -> Initial[class]]
    /\ sent = Emptied(CHOOSE v \in Initial[class] : TRUE)
    /\ parsed = TRUE

\* A call that gives one message a new value.
Change(o, v) ==
    /\ value' = [value EXCEPT ![o] = v]
    /\ UNCHANGED <<class, sent, parsed>>

Assign(o, f, x) == Change(o, [value[o] EXCEPT !.scalars = f :> x @@ @])
Give(o, f, w) ==
    Change(o, [value[o] EXCEPT !.messages =
                  f :> (IF f \in DOMAIN @ THEN Merged(@[f], w) ELSE w) @@ @])
Replace(o, f, w) == Change(o, [value[o] EXCEPT !.messages = f :> w @@ @])
AddTo(o, f, w) == Change(o, [value[o] EXCEPT !.lists[f] = Append(@, w)])
Shorten(o, f) ==
    /\ value[o].lists[f] # <<>>
    /\ Change(o, [value[o] EXCEPT !.lists[f] = Front(@)])
Drop(o, f) ==
    Change(o, [value[o] EXCEPT !.scalars = Dropped(@, f), !.messages = Dropped(@, f),
                               !.lists = [g \in DOMAIN @ |-> IF g = f THEN <<>> ELSE @[g]]])
Empty(o) == Change(o, Emptied(value[o]))
Merge(o, p) == Change(o, Merged(value[o], value[p]))
Copy(o, p) == Change(o, value[p])
Exchange(o, p) ==
    /\ value' = [value EXCEPT ![o] = value[p], ![p] = value[o]]
    /\ UNCHANGED <<class, sent, parsed>>

\* A call that only reads, or that finds nothing to change.
Look == UNCHANGED valueVars

Send(o) == sent' = value[o] /\ UNCHANGED <<class, value, parsed>>
SendMore(o) == sent' = Merged(sent, value[o]) /\ UNCHANGED <<class, value, parsed>>
Arrive == sent' \in Arriving[class] /\ UNCHANGED <<class, value, parsed>>

\* Nothing is promised of a message that could not be parsed.
Receive(o) ==
    /\ IF Depth(sent) <= RecursionLimit
       THEN parsed' = TRUE /\ value' = [value EXCEPT ![o] = sent]
       ELSE parsed' = FALSE /\ \A p \in Objects \ {o} : value'[p] = value[p]
    /\ UNCHANGED <<class, sent>>

Next ==
    \/ Look
    \/ \E o \in Objects :
          \/ \E a \in Assigned[class] : Assign(o, a[1], a[2])
          \/ \E a \in Given[class] : Give(o, a[1], a[2]) \/ Replace(o, a[1], a[2])
          \/ \E a \in Added[class] : AddTo(o, a[1], a[2])
          \/ \E f \in DOMAIN value[o].lists : Shorten(o, f)
          \/ \E f \in DOMAIN value[o].scalars \cup DOMAIN value[o].messages
                        \cup DOMAIN value[o].lists : Drop(o, f)
          \/ Empty(o) \/ Send(o) \/ SendMore(o) \/ Receive(o)
          \/ \E p \in Objects \ {o} : Merge(o, p) \/ Copy(o, p) \/ Exchange(o, p)
    \/ Arrive

Spec == Init /\ [][Next]_valueVars
=============================================================================
