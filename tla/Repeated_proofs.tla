--------------------------- MODULE Repeated_proofs ---------------------------
(***************************************************************************)
(* Whatever calls are made on repeated fields, in any order: every object  *)
(* has one owner, none is lost, and those kept for reuse are clear.        *)
(***************************************************************************)
EXTENDS Repeated, SequenceTheorems, FiniteSetTheorems, TLAPS

\* The objects in an array, and that no object is in it twice.
ObjectsIn(a) == {a[i] : i \in 1 .. Len(a)}
Differ(a) == \A i, j \in 1 .. Len(a) : a[i] = a[j] => i = j

RepeatedInv == RepeatedTypeOK /\ OneOwner /\ NothingLeaks /\ KeptAreClear

-----------------------------------------------------------------------------
(* What the arrays made by the operations hold *)

LEMMA AppendHolds ==
    ASSUME NEW S, NEW s \in Seq(S), Differ(s), NEW e \in S, e \notin ObjectsIn(s)
    PROVE  /\ Append(s, e) \in Seq(S)
           /\ Differ(Append(s, e))
           /\ ObjectsIn(Append(s, e)) = ObjectsIn(s) \cup {e}
  <1> DEFINE a == Append(s, e)
  <1>1. /\ a \in Seq(S) /\ Len(a) = Len(s) + 1 /\ Len(s) \in Nat
        /\ \A i \in 1 .. Len(s) : a[i] = s[i]
        /\ a[Len(s) + 1] = e
    BY AppendProperties, LenProperties
  <1> HIDE DEF a
  <1>2. \A i \in 1 .. Len(a) : i \in 1 .. Len(s) \/ i = Len(s) + 1
    BY <1>1
  <1>3. Differ(a)
    BY <1>1, <1>2 DEF Differ, ObjectsIn
  <1>4. ObjectsIn(a) = ObjectsIn(s) \cup {e}
    BY <1>1, <1>2 DEF ObjectsIn
  <1>5. QED BY <1>1, <1>3, <1>4 DEF a

Replaced(s, n, e) == [s EXCEPT ![n] = e]

LEMMA ReplaceHolds ==
    ASSUME NEW S, NEW s \in Seq(S), Differ(s), NEW e \in S, e \notin ObjectsIn(s),
           NEW n \in 1 .. Len(s)
    PROVE  /\ Replaced(s, n, e) \in Seq(S)
           /\ Len(Replaced(s, n, e)) = Len(s)
           /\ \A i \in 1 .. Len(s) : Replaced(s, n, e)[i] = IF i = n THEN e ELSE s[i]
           /\ Differ(Replaced(s, n, e))
           /\ ObjectsIn(Replaced(s, n, e)) = (ObjectsIn(s) \ {s[n]}) \cup {e}
  <1> DEFINE a == Replaced(s, n, e)
  <1>1. /\ a \in Seq(S) /\ Len(a) = Len(s)
        /\ \A i \in 1 .. Len(s) : a[i] = IF i = n THEN e ELSE s[i]
    BY ExceptSeq DEF Replaced
  <1> HIDE DEF a
  <1>2. Differ(a)
    BY <1>1 DEF Differ, ObjectsIn
  <1>3. ObjectsIn(a) = (ObjectsIn(s) \ {s[n]}) \cup {e}
    BY <1>1 DEF ObjectsIn, Differ
  <1>4. QED BY <1>1, <1>2, <1>3 DEF a

LEMMA Concat ==
    ASSUME NEW S, NEW s \in Seq(S), NEW t \in Seq(S)
    PROVE  /\ s \o t \in Seq(S)
           /\ Len(s) \in Nat /\ Len(t) \in Nat
           /\ Len(s \o t) = Len(s) + Len(t)
           /\ \A i \in 1 .. Len(s) : (s \o t)[i] = s[i]
           /\ \A i \in 1 .. Len(t) : (s \o t)[Len(s) + i] = t[i]
  BY ConcatProperties

LEMMA ConcatHolds ==
    ASSUME NEW S, NEW s \in Seq(S), Differ(s), NEW n \in Nat, NEW new \in [1 .. n -> S],
           \A i, j \in 1 .. n : new[i] = new[j] => i = j,
           \A i \in 1 .. n : new[i] \notin ObjectsIn(s)
    PROVE  /\ s \o new \in Seq(S)
           /\ Len(s \o new) = Len(s) + n
           /\ \A i \in 1 .. Len(s) : (s \o new)[i] = s[i]
           /\ Differ(s \o new)
           /\ ObjectsIn(s \o new) = ObjectsIn(s) \cup {new[i] : i \in 1 .. n}
  <1> DEFINE a == s \o new
  <1>1. new \in Seq(S) /\ Len(new) = n /\ Len(s) \in Nat
    BY LenProperties
  <1>2. /\ a \in Seq(S) /\ Len(a) = Len(s) + Len(new)
        /\ \A i \in 1 .. Len(s) : a[i] = s[i]
        /\ \A i \in 1 .. Len(new) : a[Len(s) + i] = new[i]
    <2>1. new \in Seq(S)
      BY <1>1
    <2>2. QED BY <2>1, Concat
  <1> HIDE DEF a
  <1>3. Len(a) = Len(s) + n /\ \A i \in 1 .. Len(s) : a[i] = s[i]
    BY <1>1, <1>2
  <1>4. \A i \in 1 .. n : a[Len(s) + i] = new[i]
    BY <1>1, <1>2
  <1>5. \A i \in 1 .. Len(a) :
            i \in 1 .. Len(s) \/ (i - Len(s) \in 1 .. n /\ a[i] = new[i - Len(s)])
    <2> SUFFICES ASSUME NEW i \in 1 .. Len(a), i \notin 1 .. Len(s)
                 PROVE  i - Len(s) \in 1 .. n /\ a[i] = new[i - Len(s)]
      OBVIOUS
    <2>1. i - Len(s) \in 1 .. n /\ i = Len(s) + (i - Len(s))
      BY <1>1, <1>3
    <2>2. QED BY <1>4, <2>1
  <1>6. Differ(a)
    <2> SUFFICES ASSUME NEW i \in 1 .. Len(a), NEW j \in 1 .. Len(a), a[i] = a[j] PROVE i = j
      BY DEF Differ
    <2>1. CASE i \in 1 .. Len(s) /\ j \in 1 .. Len(s)
      BY <1>3, <2>1 DEF Differ
    <2>2. CASE i \notin 1 .. Len(s) /\ j \notin 1 .. Len(s)
      <3>1. new[i - Len(s)] = new[j - Len(s)] /\ i - Len(s) \in 1 .. n /\ j - Len(s) \in 1 .. n
        BY <1>5, <2>2
      <3>2. i - Len(s) = j - Len(s)
        BY <3>1
      <3>3. QED BY <3>2, <1>1
    <2>3. CASE i \in 1 .. Len(s) /\ j \notin 1 .. Len(s)
      <3>1. a[i] \in ObjectsIn(s)
        BY <1>3, <2>3 DEF ObjectsIn
      <3>2. QED BY <1>5, <2>3, <3>1
    <2>4. CASE i \notin 1 .. Len(s) /\ j \in 1 .. Len(s)
      <3>1. a[j] \in ObjectsIn(s)
        BY <1>3, <2>4 DEF ObjectsIn
      <3>2. QED BY <1>5, <2>4, <3>1
    <2>5. QED BY <2>1, <2>2, <2>3, <2>4
  <1>7. ObjectsIn(a) = ObjectsIn(s) \cup {new[i] : i \in 1 .. n}
    <2>1. ObjectsIn(a) \subseteq ObjectsIn(s) \cup {new[i] : i \in 1 .. n}
      <3> SUFFICES ASSUME NEW i \in 1 .. Len(a)
                   PROVE  a[i] \in ObjectsIn(s) \cup {new[j] : j \in 1 .. n}
        BY DEF ObjectsIn
      <3>1. CASE i \in 1 .. Len(s)
        BY <1>3, <3>1 DEF ObjectsIn
      <3>2. CASE i \notin 1 .. Len(s)
        BY <1>5, <3>2
      <3>3. QED BY <3>1, <3>2
    <2>2. \A i \in 1 .. Len(s) : i \in 1 .. Len(a)
      BY <1>1, <1>3
    <2>3. \A i \in 1 .. n : Len(s) + i \in 1 .. Len(a)
      BY <1>1, <1>3
    <2>4. ObjectsIn(s) \subseteq ObjectsIn(a)
      BY <1>3, <2>2 DEF ObjectsIn
    <2>5. {new[i] : i \in 1 .. n} \subseteq ObjectsIn(a)
      BY <1>4, <2>3 DEF ObjectsIn
    <2>6. QED BY <2>1, <2>4, <2>5
  <1>8. QED BY <1>2, <1>3, <1>6, <1>7 DEF a

\* ReleaseLast: the last object takes the place of the n-th.
LastMoved(s, n) == SubSeq([s EXCEPT ![n] = s[Len(s)]], 1, Len(s) - 1)

\* What is left of s in a: its objects but the n-th, the last in its place.
LeftOf(S, s, n, a) ==
    /\ a \in Seq(S) /\ Len(a) = Len(s) - 1
    /\ \A i \in 1 .. Len(s) - 1 : a[i] = IF i = n THEN s[Len(s)] ELSE s[i]
    /\ Differ(a)
    /\ ObjectsIn(a) = ObjectsIn(s) \ {s[n]}

LEMMA ReleaseHolds ==
    ASSUME NEW S, NEW s \in Seq(S), Differ(s), NEW n \in 1 .. Len(s),
           NEW a, a = LastMoved(s, n)
    PROVE  LeftOf(S, s, n, a)
  <1> DEFINE b == [s EXCEPT ![n] = s[Len(s)]]
  <1>1. Len(s) \in Nat \ {0} /\ s[Len(s)] \in S
    BY LenProperties, ElementOfSeq
  <1>2. /\ b \in Seq(S) /\ Len(b) = Len(s)
        /\ \A i \in 1 .. Len(s) : b[i] = IF i = n THEN s[Len(s)] ELSE s[i]
    BY <1>1, ExceptSeq
  <1>3. \A i \in 1 .. Len(s) - 1 : b[i] \in S
    BY <1>1, <1>2, ElementOfSeq
  <1>10. a = SubSeq(b, 1, Len(s) - 1)
    BY DEF LastMoved
  <1> HIDE DEF b
  <1>4. /\ a \in Seq(S) /\ Len(a) = Len(s) - 1
        /\ \A i \in 1 .. Len(s) - 1 : a[i] = b[i]
    <2>1. /\ a \in Seq(S)
          /\ Len(a) = IF 1 <= Len(s) - 1 THEN Len(s) - 1 - 1 + 1 ELSE 0
          /\ \A i \in 1 .. Len(s) - 1 - 1 + 1 : a[i] = b[1 + i - 1]
      BY <1>1, <1>3, <1>10, SubSeqProperties
    <2>2. \A i \in 1 .. Len(s) - 1 : i \in 1 .. Len(s) - 1 - 1 + 1 /\ 1 + i - 1 = i
      BY <1>1
    <2>3. Len(a) = Len(s) - 1
      <3>1. \A k \in Nat \ {0} : (IF 1 <= k - 1 THEN k - 1 - 1 + 1 ELSE 0) = k - 1
        OBVIOUS
      <3>2. QED BY <1>1, <2>1, <3>1
    <2>4. \A i \in 1 .. Len(s) - 1 : a[i] = b[i]
      BY <2>1, <2>2
    <2>5. QED BY <2>1, <2>3, <2>4
  <1>5. \A i \in 1 .. Len(s) - 1 : a[i] = IF i = n THEN s[Len(s)] ELSE s[i]
    BY <1>1, <1>2, <1>4
  <1>6. Differ(a)
    BY <1>1, <1>4, <1>5 DEF Differ
  <1>7. ObjectsIn(a) = ObjectsIn(s) \ {s[n]}
    <2>1. ASSUME NEW i \in 1 .. Len(a)
          PROVE  a[i] \in ObjectsIn(s) \ {s[n]}
      <3>1. i \in 1 .. Len(s) /\ Len(s) \in 1 .. Len(s) /\ i # Len(s)
        BY <1>1, <1>4
      <3>2. QED BY <1>4, <1>5, <3>1 DEF ObjectsIn, Differ
    <2>2. ASSUME NEW i \in 1 .. Len(s), i # n
          PROVE  \E j \in 1 .. Len(a) : a[j] = s[i]
      <3>1. CASE i = Len(s)
        BY <1>1, <1>4, <1>5, <2>2, <3>1
      <3>2. CASE i # Len(s)
        BY <1>1, <1>4, <1>5, <2>2, <3>2
      <3>3. QED BY <3>1, <3>2
    <2>3. ASSUME NEW e \in ObjectsIn(s), e # s[n]
          PROVE  e \in ObjectsIn(a)
      <3>1. PICK i \in 1 .. Len(s) : e = s[i] /\ i # n
        BY <2>3 DEF ObjectsIn
      <3>2. QED BY <2>2, <3>1 DEF ObjectsIn
    <2>4. ObjectsIn(a) \subseteq ObjectsIn(s) \ {s[n]}
      BY <2>1 DEF ObjectsIn
    <2>5. QED BY <2>3, <2>4
  <1>8. QED BY <1>4, <1>5, <1>6, <1>7 DEF LeftOf

LEMMA FrontHolds ==
    ASSUME NEW S, NEW s \in Seq(S), Differ(s), Len(s) > 0
    PROVE  LET a == SubSeq(s, 1, Len(s) - 1)
           IN  /\ a \in Seq(S) /\ Len(a) = Len(s) - 1
               /\ \A i \in 1 .. Len(s) - 1 : a[i] = s[i]
               /\ Differ(a)
               /\ ObjectsIn(a) = ObjectsIn(s) \ {s[Len(s)]}
  <1>1. Len(s) \in 1 .. Len(s)
    BY LenProperties
  <1> DEFINE a == SubSeq(s, 1, Len(s) - 1)
  <1>2. a = LastMoved(s, Len(s))
    <2>1. [s EXCEPT ![Len(s)] = s[Len(s)]] = s
      BY <1>1, LenProperties
    <2>2. QED BY <2>1 DEF LastMoved
  <1> HIDE DEF a
  <1>3. LeftOf(S, s, Len(s), a)
    BY <1>1, <1>2, ReleaseHolds
  <1>4. \A i \in 1 .. Len(s) - 1 : a[i] = s[i]
    BY <1>1, <1>3 DEF LeftOf
  <1>5. QED BY <1>3, <1>4 DEF a, LeftOf

-----------------------------------------------------------------------------
(* The invariant, by what a call does to the array of one field *)

\* A call that passes objects between the array and the other places, and
\* makes, loses and doubles none.
LEMMA ExchangeKeeps ==
    ASSUME RepeatedTypeOK, OneOwner, NothingLeaks,
           NEW f \in Field, NEW a \in Seq(Element), Array(f, a), Differ(a),
           fresh' \cap held' = {}, fresh' \cap freed' = {}, held' \cap freed' = {},
           ObjectsIn(a) \cap (fresh' \cup held' \cup freed') = {},
           ObjectsIn(a) \cup fresh' \cup held' \cup freed' = Owned(f) \cup fresh \cup held \cup freed
    PROVE  OneOwner' /\ NothingLeaks'
  <1>1. /\ elements'[f] = a
        /\ \A g \in Field : g # f => elements'[g] = elements[g]
    BY DEF Array, RepeatedTypeOK
  <1>2. \A i \in 1 .. Len(a) : a[i] \in ObjectsIn(a)
    BY DEF ObjectsIn
  <1>3. \A g \in Field : \A i \in 1 .. Len(elements[g]) : elements[g][i] \in Owned(g)
    BY DEF Owned, ObjectsAt, Slots, allocated_size
  <1>4. \A g \in Field : g # f =>
           /\ Owned(g) \cap Owned(f) = {}
           /\ Owned(g) \cap (fresh \cup held \cup freed) = {}
    BY DEF OneOwner, SlotsDiffer, OwnedByOne, Owned, ObjectsAt, Slots, allocated_size
  <1>5. \A g \in Field : g # f =>
           \A i \in 1 .. Len(elements[g]) :
              elements[g][i] \notin ObjectsIn(a) \cup fresh' \cup held' \cup freed'
    BY <1>3, <1>4
  <1>6. SlotsDiffer'
    <2> SUFFICES ASSUME NEW g \in Field, NEW h \in Field,
                        NEW i \in 1 .. Len(elements'[g]), NEW j \in 1 .. Len(elements'[h]),
                        elements'[g][i] = elements'[h][j]
                 PROVE  g = h /\ i = j
      BY DEF SlotsDiffer, Slots, allocated_size
    <2>1. CASE g = f /\ h = f
      BY <1>1, <2>1 DEF Differ
    <2>2. CASE g # f /\ h # f
      BY <1>1, <2>2 DEF OneOwner, SlotsDiffer, Slots, allocated_size
    <2>3. CASE g = f /\ h # f
      BY <1>1, <1>2, <1>5, <2>3
    <2>4. CASE g # f /\ h = f
      BY <1>1, <1>2, <1>5, <2>4
    <2>5. QED BY <2>1, <2>2, <2>3, <2>4
  <1>7. OwnedByOne'
    <2>1. ASSUME NEW g \in Field, NEW i \in 1 .. Len(elements'[g])
          PROVE  elements'[g][i] \notin fresh' \cup held' \cup freed'
      BY <1>1, <1>2, <1>5
    <2>2. QED BY <2>1 DEF OwnedByOne, Slots, allocated_size
  <1>8. NothingLeaks'
    <2> SUFFICES ASSUME NEW e \in Element, e \notin fresh' \cup held' \cup freed'
                 PROVE  \E g \in Field : \E i \in 1 .. Len(elements'[g]) : elements'[g][i] = e
      BY DEF NothingLeaks, Owned, ObjectsAt, Slots, allocated_size
    <2>1. CASE e \in ObjectsIn(a)
      BY <1>1, <2>1 DEF ObjectsIn
    <2>2. CASE e \notin ObjectsIn(a)
      <3>1. PICK g \in Field : e \in Owned(g)
        BY <2>2 DEF NothingLeaks
      <3>2. g # f
        BY <2>2, <3>1
      <3>3. PICK i \in 1 .. Len(elements[g]) : elements[g][i] = e
        BY <3>1 DEF Owned, ObjectsAt, Slots, allocated_size
      <3>4. QED BY <1>1, <3>2, <3>3
    <2>3. QED BY <2>1, <2>2
  <1>9. QED BY <1>6, <1>7, <1>8 DEF OneOwner

\* What the call makes dirty is in the array, below what is kept for reuse.
LEMMA ClearKept ==
    ASSUME RepeatedTypeOK, KeptAreClear, OneOwner',
           NEW f \in Field, NEW a \in Seq(Element), Array(f, a),
           \A g \in Field : g # f => current_size'[g] = current_size[g],
           dirty' \subseteq dirty \cup ObjectsIn(a),
           \A i \in 1 .. Len(a) : i > current_size'[f] => a[i] \notin dirty'
    PROVE  KeptAreClear'
  <1>1. /\ elements'[f] = a
        /\ \A g \in Field : g # f => elements'[g] = elements[g]
    BY DEF Array, RepeatedTypeOK
  <1> SUFFICES ASSUME NEW g \in Field, NEW i \in 1 .. Len(elements'[g]), i > current_size'[g]
               PROVE  elements'[g][i] \notin dirty'
    BY DEF KeptAreClear, Slots, allocated_size
  <1>2. CASE g = f
    BY <1>1, <1>2
  <1>3. CASE g # f
    <2>1. elements'[g][i] \notin dirty
      BY <1>1, <1>3 DEF KeptAreClear, Slots, allocated_size
    <2>2. elements'[g][i] \notin ObjectsIn(a)
      BY <1>1, <1>3 DEF OneOwner, SlotsDiffer, Slots, allocated_size, ObjectsIn
    <2>3. QED BY <2>1, <2>2
  <1>4. QED BY <1>2, <1>3

-----------------------------------------------------------------------------
(* One lemma for each call, or for calls that do the same to the array *)

LEMMA InvMeans ==
    ASSUME RepeatedInv
    PROVE  /\ RepeatedTypeOK /\ OneOwner /\ NothingLeaks /\ KeptAreClear
           /\ \A f \in Field :
                 /\ elements[f] \in Seq(Element)
                 /\ Len(elements[f]) \in Nat
                 /\ current_size[f] \in Nat /\ total_size[f] \in Nat
                 /\ current_size[f] <= Len(elements[f]) /\ Len(elements[f]) <= total_size[f]
                 /\ Differ(elements[f])
                 /\ Owned(f) = ObjectsIn(elements[f])
                 /\ ObjectsIn(elements[f]) \cap (fresh \cup held \cup freed) = {}
                 /\ \A i \in 1 .. Len(elements[f]) :
                       i > current_size[f] => elements[f][i] \notin dirty
           /\ fresh \cap held = {} /\ fresh \cap freed = {} /\ held \cap freed = {}
  <1>1. RepeatedTypeOK /\ OneOwner /\ NothingLeaks /\ KeptAreClear
    BY DEF RepeatedInv
  <1>2. fresh \cap held = {} /\ fresh \cap freed = {} /\ held \cap freed = {}
    BY <1>1 DEF OneOwner, OwnedByOne
  <1> SUFFICES ASSUME NEW f \in Field
               PROVE  /\ elements[f] \in Seq(Element)
                      /\ Len(elements[f]) \in Nat
                      /\ current_size[f] \in Nat /\ total_size[f] \in Nat
                      /\ current_size[f] <= Len(elements[f]) /\ Len(elements[f]) <= total_size[f]
                      /\ Differ(elements[f])
                      /\ Owned(f) = ObjectsIn(elements[f])
                      /\ ObjectsIn(elements[f]) \cap (fresh \cup held \cup freed) = {}
                      /\ \A i \in 1 .. Len(elements[f]) :
                            i > current_size[f] => elements[f][i] \notin dirty
    BY <1>1, <1>2
  <1>3. /\ elements[f] \in Seq(Element)
        /\ current_size[f] \in Nat /\ total_size[f] \in Nat
        /\ current_size[f] <= Len(elements[f]) /\ Len(elements[f]) <= total_size[f]
    BY <1>1 DEF RepeatedTypeOK, allocated_size
  <1>4. Len(elements[f]) \in Nat
    BY <1>3
  <1>5. Differ(elements[f])
    BY <1>1 DEF OneOwner, SlotsDiffer, Differ, Slots, allocated_size
  <1>6. Owned(f) = ObjectsIn(elements[f])
    BY DEF Owned, ObjectsAt, Slots, allocated_size, ObjectsIn
  <1>7. ObjectsIn(elements[f]) \cap (fresh \cup held \cup freed) = {}
    BY <1>1 DEF OneOwner, OwnedByOne, Slots, allocated_size, ObjectsIn
  <1>8. \A i \in 1 .. Len(elements[f]) : i > current_size[f] => elements[f][i] \notin dirty
    BY <1>1 DEF KeptAreClear, Slots, allocated_size
  <1>9. QED BY <1>3, <1>4, <1>5, <1>6, <1>7, <1>8

\* The array of one field grows or shrinks, and its sizes with it.
LEMMA TypeKept ==
    ASSUME RepeatedTypeOK,
           NEW f \in Field, NEW a \in Seq(Element), Array(f, a),
           NEW n \in Nat, current_size' = [current_size EXCEPT ![f] = n],
           NEW m \in Nat, total_size' = [total_size EXCEPT ![f] = m],
           n <= Len(a), Len(a) <= m,
           fresh' \subseteq Element, held' \subseteq Element,
           freed' \subseteq Element, dirty' \subseteq Element
    PROVE  RepeatedTypeOK'
  <1>1. /\ elements' \in [Field -> Seq(Element)]
        /\ elements'[f] = a
        /\ \A g \in Field : g # f => elements'[g] = elements[g]
    BY DEF Array, RepeatedTypeOK
  <1>2. current_size' \in [Field -> Nat] /\ total_size' \in [Field -> Nat]
    BY DEF RepeatedTypeOK
  <1>3. ASSUME NEW g \in Field
        PROVE  current_size'[g] <= Len(elements'[g]) /\ Len(elements'[g]) <= total_size'[g]
    BY <1>1 DEF RepeatedTypeOK, allocated_size
  <1>4. QED BY <1>1, <1>2, <1>3 DEF RepeatedTypeOK, allocated_size

LEMMA ReservedIsEnough ==
    ASSUME NEW f \in Field, total_size[f] \in Nat, NEW n \in Nat
    PROVE  /\ Reserved(f, n) \in Nat
           /\ Reserved(f, n) >= n /\ Reserved(f, n) >= total_size[f]
  BY RepeatedAssumption DEF Reserved, Maximum

\* Make, Delete and Fill leave the arrays alone.
LEMMA CallersSteps ==
    ASSUME RepeatedInv, NEW e \in Element, Make(e) \/ Delete(e) \/ Fill(e)
    PROVE  RepeatedInv'
  <1>1. /\ RepeatedTypeOK /\ OneOwner /\ NothingLeaks /\ KeptAreClear
        /\ UNCHANGED <<elements, current_size, total_size>>
    BY InvMeans DEF Make, Delete, Fill
  <1>2. RepeatedTypeOK'
    BY <1>1 DEF RepeatedTypeOK, allocated_size, Make, Delete, Fill
  <1>3. SlotsDiffer'
    BY <1>1 DEF OneOwner, SlotsDiffer, Slots, allocated_size
  <1>4. OwnedByOne'
    BY <1>1 DEF OneOwner, OwnedByOne, Slots, allocated_size, Make, Delete, Fill
  <1>5. NothingLeaks'
    BY <1>1 DEF NothingLeaks, Owned, ObjectsAt, Slots, allocated_size, Make, Delete, Fill
  <1>6. KeptAreClear'
    <2>1. CASE Make(e) \/ Delete(e)
      BY <1>1, <2>1 DEF KeptAreClear, Slots, allocated_size, Make, Delete
    <2>2. CASE Fill(e)
      <3> SUFFICES ASSUME NEW f \in Field, NEW i \in Slots(f), i > current_size[f]
                   PROVE  elements[f][i] \notin dirty \cup {e}
        BY <1>1, <2>2 DEF KeptAreClear, Slots, allocated_size, Fill
      <3>1. elements[f][i] \notin dirty
        BY <1>1 DEF KeptAreClear
      <3>2. CASE e \in held
        BY <1>1, <3>1, <3>2 DEF OneOwner, OwnedByOne
      <3>3. CASE \E g \in Field : e \in ObjectsAt(g, Elements(g))
        <4>1. PICK g \in Field : \E j \in Elements(g) : e = elements[g][j]
          BY <3>3 DEF ObjectsAt
        <4>2. PICK j \in Elements(g) : e = elements[g][j]
          BY <4>1
        <4>3. j \in Slots(g) /\ j <= current_size[g]
          BY <1>1 DEF RepeatedTypeOK, Elements, Slots, allocated_size
        <4>4. g # f \/ i # j
          BY <1>1, <4>3 DEF RepeatedTypeOK, Slots, allocated_size
        <4>5. elements[f][i] # e
          BY <1>1, <4>2, <4>3, <4>4 DEF OneOwner, SlotsDiffer
        <4>6. QED BY <3>1, <4>5
      <3>4. QED BY <2>2, <3>2, <3>3 DEF Fill
    <2>3. QED BY <2>1, <2>2
  <1>7. QED BY <1>2, <1>3, <1>4, <1>5, <1>6 DEF RepeatedInv, OneOwner

LEMMA ArrayAsItIs ==
    ASSUME RepeatedTypeOK, NEW f \in Field
    PROVE  /\ elements' = elements => Array(f, elements[f])
           /\ current_size' = current_size => current_size' = [current_size EXCEPT ![f] = current_size[f]]
           /\ total_size' = total_size => total_size' = [total_size EXCEPT ![f] = total_size[f]]
  BY DEF RepeatedTypeOK, Array

\* Calls that move no object.
LEMMA ShrinkKeeps ==
    ASSUME RepeatedInv, NEW f \in Field, RemoveLast(f) \/ Clear(f)
    PROVE  RepeatedInv'
  <1> DEFINE s == elements[f]
  <1>1. /\ RepeatedTypeOK /\ OneOwner /\ NothingLeaks /\ KeptAreClear
        /\ s \in Seq(Element) /\ Len(s) \in Nat /\ Differ(s)
        /\ current_size[f] \in Nat /\ total_size[f] \in Nat
        /\ current_size[f] <= Len(s) /\ Len(s) <= total_size[f]
        /\ Owned(f) = ObjectsIn(s) /\ ObjectsIn(s) \cap (fresh \cup held \cup freed) = {}
        /\ \A i \in 1 .. Len(s) : i > current_size[f] => s[i] \notin dirty
        /\ fresh \cap held = {} /\ fresh \cap freed = {} /\ held \cap freed = {}
    BY InvMeans
  <1>2. Array(f, s) /\ total_size' = [total_size EXCEPT ![f] = total_size[f]]
    BY <1>1, ArrayAsItIs DEF RemoveLast, Clear
  <1>3. UNCHANGED <<fresh, held, freed>> /\ dirty' \subseteq dirty
    BY DEF RemoveLast, Clear
  <1> DEFINE P(n) == /\ n <= current_size[f]
                     /\ current_size' = [current_size EXCEPT ![f] = n]
                     /\ \A i \in 1 .. current_size[f] : i > n => s[i] \notin dirty'
  <1>4. PICK n \in Nat : P(n)
    <2>1. CASE RemoveLast(f)
      <3>1. /\ current_size[f] - 1 \in Nat
            /\ current_size' = [current_size EXCEPT ![f] = current_size[f] - 1]
            /\ s[current_size[f]] \notin dirty'
        BY <1>1, <2>1 DEF RemoveLast, Shrink
      <3>2. \A i \in 1 .. current_size[f] : i > current_size[f] - 1 => i = current_size[f]
        BY <1>1
      <3>3. P(current_size[f] - 1)
        BY <1>1, <3>1, <3>2
      <3> HIDE DEF P
      <3>4. QED BY <3>1, <3>3
    <2>2. CASE Clear(f)
      <3>1. current_size' = [current_size EXCEPT ![f] = 0]
        BY <2>2 DEF Clear
      <3>2. \A i \in 1 .. current_size[f] : s[i] \notin dirty'
        BY <2>2 DEF Clear, ObjectsAt, Elements
      <3>3. P(0)
        BY <1>1, <3>1, <3>2
      <3> HIDE DEF P
      <3>4. QED BY <3>3
    <2>3. QED BY <2>1, <2>2
  <1> HIDE DEF s
  <1>5. RepeatedTypeOK'
    <2>1. n <= Len(s)
      BY <1>1, <1>4
    <2>2. /\ fresh' \subseteq Element /\ held' \subseteq Element
          /\ freed' \subseteq Element /\ dirty' \subseteq Element
      BY <1>1, <1>3 DEF RepeatedTypeOK
    <2>3. QED BY <1>1, <1>2, <1>4, <2>1, <2>2, TypeKept
  <1>6. OneOwner' /\ NothingLeaks'
    BY <1>1, <1>2, <1>3, ExchangeKeeps
  <1>7. KeptAreClear'
    <2>1. \A i \in 1 .. Len(s) : i > current_size'[f] => s[i] \notin dirty'
      <3> SUFFICES ASSUME NEW i \in 1 .. Len(s), i > current_size'[f]
                   PROVE  s[i] \notin dirty'
        OBVIOUS
      <3>1. i > n
        BY <1>1, <1>4 DEF RepeatedTypeOK
      <3>2. CASE i <= current_size[f]
        BY <1>1, <1>4, <3>1, <3>2
      <3>3. CASE i > current_size[f]
        BY <1>1, <1>3, <3>3
      <3>4. QED BY <1>1, <3>2, <3>3
    <2>2. \A g \in Field : g # f => current_size'[g] = current_size[g]
      BY <1>1, <1>4 DEF RepeatedTypeOK
    <2>3. QED BY <1>1, <1>2, <1>3, <1>6, <2>1, <2>2, ClearKept
  <1>8. QED BY <1>5, <1>6, <1>7 DEF RepeatedInv

\* What the calls that give the field another array have in common.
LEMMA NewArrayKeeps ==
    ASSUME RepeatedInv, NEW f \in Field, NEW a \in Seq(Element), Array(f, a), Differ(a),
           fresh' \cap held' = {}, fresh' \cap freed' = {}, held' \cap freed' = {},
           ObjectsIn(a) \cap (fresh' \cup held' \cup freed') = {},
           ObjectsIn(a) \cup fresh' \cup held' \cup freed'
               = ObjectsIn(elements[f]) \cup fresh \cup held \cup freed,
           NEW n \in Nat, current_size' = [current_size EXCEPT ![f] = n],
           NEW m \in Nat, total_size' = [total_size EXCEPT ![f] = m],
           n <= Len(a), Len(a) <= m,
           dirty' \subseteq dirty \cup ObjectsIn(a),
           \A i \in 1 .. Len(a) : i > n => a[i] \notin dirty'
    PROVE  RepeatedInv'
  <1>1. /\ RepeatedTypeOK /\ OneOwner /\ NothingLeaks /\ KeptAreClear
        /\ Owned(f) = ObjectsIn(elements[f])
        /\ elements[f] \in Seq(Element)
    BY InvMeans
  <1>2. ObjectsIn(a) \subseteq Element /\ ObjectsIn(elements[f]) \subseteq Element
    BY <1>1, ElementOfSeq DEF ObjectsIn
  <1>3. fresh' \subseteq Element /\ held' \subseteq Element /\ freed' \subseteq Element
        /\ dirty' \subseteq Element
    BY <1>1, <1>2 DEF RepeatedTypeOK
  <1>4. RepeatedTypeOK'
    BY <1>1, <1>3, TypeKept
  <1>5. OneOwner' /\ NothingLeaks'
    BY <1>1, ExchangeKeeps
  <1>6. current_size'[f] = n /\ \A g \in Field : g # f => current_size'[g] = current_size[g]
    BY <1>1 DEF RepeatedTypeOK
  <1>7. KeptAreClear'
    BY <1>1, <1>5, <1>6, ClearKept
  <1>8. QED BY <1>4, <1>5, <1>7 DEF RepeatedInv

\* Add() with no cleared object, and AddCleared().
LEMMA AddKeeps ==
    ASSUME RepeatedInv, NEW f \in Field, Add(f)
    PROVE  RepeatedInv'
  <1> DEFINE s == elements[f]
  <1>1. /\ RepeatedTypeOK
        /\ s \in Seq(Element) /\ Len(s) \in Nat /\ Differ(s)
        /\ current_size[f] \in Nat /\ total_size[f] \in Nat
        /\ current_size[f] <= Len(s) /\ Len(s) <= total_size[f]
        /\ ObjectsIn(s) \cap (fresh \cup held \cup freed) = {}
        /\ \A i \in 1 .. Len(s) : i > current_size[f] => s[i] \notin dirty
        /\ fresh \cap held = {} /\ fresh \cap freed = {} /\ held \cap freed = {}
    BY InvMeans
  <1> DEFINE n == current_size[f] + 1
  <1>2. n \in Nat /\ current_size' = [current_size EXCEPT ![f] = n]
        /\ UNCHANGED <<held, freed, dirty>>
    BY <1>1 DEF Add, Grow
  <1>3. CASE current_size[f] < Len(s)
    <2>1. /\ Array(f, s) /\ total_size' = [total_size EXCEPT ![f] = total_size[f]]
          /\ fresh' = fresh
      BY <1>1, <1>3, ArrayAsItIs DEF Add, allocated_size
    <2>2. n <= Len(s) /\ \A i \in 1 .. Len(s) : i > n => s[i] \notin dirty'
      BY <1>1, <1>2, <1>3
    <2> HIDE DEF n, s
    <2>3. QED BY <1>1, <1>2, <2>1, <2>2, NewArrayKeeps DEF s
  <1>4. CASE ~(current_size[f] < Len(s))
    <2>1. PICK e \in fresh : /\ Array(f, Append(s, e))
                             /\ Room(f, Len(s) + 1)
                             /\ fresh' = fresh \ {e}
      BY <1>4 DEF Add, allocated_size
    <2> DEFINE a == Append(s, e)
               m == Reserved(f, Len(s) + 1)
    <2>2. e \in Element /\ e \notin ObjectsIn(s)
      BY <1>1 DEF RepeatedTypeOK
    <2>3. /\ a \in Seq(Element) /\ Differ(a) /\ ObjectsIn(a) = ObjectsIn(s) \cup {e}
      BY <1>1, <2>2, AppendHolds
    <2>4. Len(a) = n
      BY <1>1, <1>4, <2>2, AppendProperties
    <2>5. m \in Nat /\ Len(a) <= m /\ total_size' = [total_size EXCEPT ![f] = m]
      <3>1. Len(s) + 1 \in Nat
        BY <1>1
      <3>2. m \in Nat /\ m >= Len(s) + 1
        BY <1>1, <3>1, ReservedIsEnough
      <3>3. QED BY <1>1, <1>4, <2>1, <2>4, <3>2 DEF Room
    <2>6. Array(f, a)
      BY <2>1
    <2>7. \A i \in 1 .. Len(a) : ~(i > n)
      BY <1>2, <2>4
    <2> HIDE DEF a, n, m
    <2>8. /\ fresh' \cap held' = {} /\ fresh' \cap freed' = {} /\ held' \cap freed' = {}
          /\ ObjectsIn(a) \cap (fresh' \cup held' \cup freed') = {}
          /\ ObjectsIn(a) \cup fresh' \cup held' \cup freed'
                = ObjectsIn(s) \cup fresh \cup held \cup freed
      BY <1>1, <1>2, <2>1, <2>3
    <2>9. n <= Len(a)
      BY <1>2, <2>4
    <2> HIDE DEF s
    <2>10. QED
      BY <1>2, <2>3, <2>5, <2>6, <2>7, <2>8, <2>9, NewArrayKeeps DEF s
  <1>5. QED BY <1>3, <1>4

LEMMA AddClearedKeeps ==
    ASSUME RepeatedInv, NEW f \in Field, NEW e \in Element, AddCleared(f, e)
    PROVE  RepeatedInv'
  <1> DEFINE s == elements[f]
             a == Append(s, e)
             n == current_size[f]
             m == Reserved(f, Len(s) + 1)
  <1>1. /\ RepeatedTypeOK
        /\ s \in Seq(Element) /\ Len(s) \in Nat /\ Differ(s)
        /\ n \in Nat /\ total_size[f] \in Nat /\ n <= Len(s)
        /\ ObjectsIn(s) \cap (fresh \cup held \cup freed) = {}
        /\ \A i \in 1 .. Len(s) : i > n => s[i] \notin dirty
        /\ fresh \cap held = {} /\ fresh \cap freed = {} /\ held \cap freed = {}
    BY InvMeans
  <1>2. /\ e \in held \ dirty /\ Array(f, a)
        /\ held' = held \ {e} /\ UNCHANGED <<current_size, fresh, freed, dirty>>
    BY DEF AddCleared
  <1>3. /\ a \in Seq(Element) /\ Differ(a) /\ ObjectsIn(a) = ObjectsIn(s) \cup {e}
        /\ Len(a) = Len(s) + 1
        /\ \A i \in 1 .. Len(s) : a[i] = s[i]
        /\ a[Len(s) + 1] = e
    BY <1>1, <1>2, AppendHolds, AppendProperties
  <1>4. m \in Nat /\ Len(a) <= m /\ total_size' = [total_size EXCEPT ![f] = m]
    <2>1. Len(s) + 1 \in Nat
      BY <1>1
    <2>2. m \in Nat /\ m >= Len(s) + 1
      BY <1>1, <2>1, ReservedIsEnough
    <2>3. QED BY <1>1, <1>3, <2>2 DEF AddCleared, Room, allocated_size
  <1>5. current_size' = [current_size EXCEPT ![f] = n]
    BY <1>1, <1>2, ArrayAsItIs
  <1> HIDE DEF a, m, n
  <1>6. \A i \in 1 .. Len(a) : i > n => a[i] \notin dirty'
    <2>1. \A i \in 1 .. Len(a) : i \in 1 .. Len(s) \/ i = Len(s) + 1
      BY <1>1, <1>3
    <2>2. QED BY <1>1, <1>2, <1>3, <2>1
  <1>7. n <= Len(a)
    BY <1>1, <1>3
  <1>8. /\ fresh' \cap held' = {} /\ fresh' \cap freed' = {} /\ held' \cap freed' = {}
        /\ ObjectsIn(a) \cap (fresh' \cup held' \cup freed') = {}
        /\ ObjectsIn(a) \cup fresh' \cup held' \cup freed'
              = ObjectsIn(s) \cup fresh \cup held \cup freed
    BY <1>1, <1>2, <1>3
  <1> HIDE DEF s
  <1>9. QED
    BY <1>1, <1>2, <1>3, <1>4, <1>5, <1>6, <1>7, <1>8, NewArrayKeeps DEF s

LEMMA ReleaseClearedKeeps ==
    ASSUME RepeatedInv, NEW f \in Field, ReleaseCleared(f)
    PROVE  RepeatedInv'
  <1> DEFINE s == elements[f]
             a == SubSeq(s, 1, Len(s) - 1)
             n == current_size[f]
             m == total_size[f]
  <1>1. /\ RepeatedTypeOK
        /\ s \in Seq(Element) /\ Len(s) \in Nat /\ Differ(s)
        /\ n \in Nat /\ m \in Nat /\ n <= Len(s) /\ Len(s) <= m
        /\ ObjectsIn(s) \cap (fresh \cup held \cup freed) = {}
        /\ \A i \in 1 .. Len(s) : i > n => s[i] \notin dirty
        /\ fresh \cap held = {} /\ fresh \cap freed = {} /\ held \cap freed = {}
    BY InvMeans
  <1>2. /\ Len(s) > n /\ Array(f, a)
        /\ held' = held \cup {s[Len(s)]}
        /\ UNCHANGED <<current_size, total_size, fresh, freed, dirty>>
    BY DEF ReleaseCleared, allocated_size
  <1>3. /\ a \in Seq(Element) /\ Differ(a) /\ ObjectsIn(a) = ObjectsIn(s) \ {s[Len(s)]}
        /\ Len(a) = Len(s) - 1
        /\ \A i \in 1 .. Len(s) - 1 : a[i] = s[i]
    <2>1. Len(s) > 0
      BY <1>1, <1>2
    <2> HIDE DEF s
    <2>2. QED BY <1>1, <2>1, FrontHolds
  <1>4. s[Len(s)] \in ObjectsIn(s)
    <2>1. Len(s) \in 1 .. Len(s)
      BY <1>1, <1>2
    <2>2. QED BY <2>1 DEF ObjectsIn
  <1>5. /\ current_size' = [current_size EXCEPT ![f] = n]
        /\ total_size' = [total_size EXCEPT ![f] = m]
    BY <1>1, <1>2, ArrayAsItIs
  <1> HIDE DEF a, m, n
  <1>6. n <= Len(a) /\ Len(a) <= m /\ \A i \in 1 .. Len(a) : i > n => a[i] \notin dirty'
    BY <1>1, <1>2, <1>3
  <1>7. /\ fresh' \cap held' = {} /\ fresh' \cap freed' = {} /\ held' \cap freed' = {}
        /\ ObjectsIn(a) \cap (fresh' \cup held' \cup freed') = {}
        /\ ObjectsIn(a) \cup fresh' \cup held' \cup freed'
              = ObjectsIn(s) \cup fresh \cup held \cup freed
    BY <1>1, <1>2, <1>3, <1>4
  <1> HIDE DEF s
  <1>8. QED
    BY <1>1, <1>2, <1>3, <1>5, <1>6, <1>7, NewArrayKeeps DEF s

\* The cleared object that takes the place of the element is behind the others.
LEMMA ReleaseLastKeeps ==
    ASSUME RepeatedInv, NEW f \in Field, ReleaseLast(f)
    PROVE  RepeatedInv'
  <1> DEFINE s == elements[f]
             c == current_size[f]
             a == SubSeq([s EXCEPT ![c] = s[Len(s)]], 1, Len(s) - 1)
             m == total_size[f]
  <1>1. /\ RepeatedTypeOK
        /\ s \in Seq(Element) /\ Len(s) \in Nat /\ Differ(s)
        /\ c \in Nat /\ m \in Nat /\ c <= Len(s) /\ Len(s) <= m
        /\ ObjectsIn(s) \cap (fresh \cup held \cup freed) = {}
        /\ \A i \in 1 .. Len(s) : i > c => s[i] \notin dirty
        /\ fresh \cap held = {} /\ fresh \cap freed = {} /\ held \cap freed = {}
    BY InvMeans
  <1>2. /\ c > 0 /\ Array(f, a)
        /\ current_size' = [current_size EXCEPT ![f] = c - 1]
        /\ held' = held \cup {s[c]}
        /\ UNCHANGED <<total_size, fresh, freed, dirty>>
    BY <1>1 DEF ReleaseLast, Shrink, allocated_size
  <1>3. c \in 1 .. Len(s)
    BY <1>1, <1>2
  <1>4. /\ a \in Seq(Element) /\ Differ(a) /\ ObjectsIn(a) = ObjectsIn(s) \ {s[c]}
        /\ Len(a) = Len(s) - 1
        /\ \A i \in 1 .. Len(s) - 1 : a[i] = IF i = c THEN s[Len(s)] ELSE s[i]
    <2>1. a = LastMoved(s, c)
      BY DEF LastMoved
    <2> HIDE DEF s, c, a
    <2>2. s \in Seq(Element) /\ Differ(s)
      BY <1>1
    <2>3. LeftOf(Element, s, c, a)
      BY <1>3, <2>1, <2>2, ReleaseHolds
    <2>4. QED BY <2>3 DEF LeftOf
  <1>5. s[c] \in ObjectsIn(s)
    BY <1>3 DEF ObjectsIn
  <1>6. total_size' = [total_size EXCEPT ![f] = m]
    BY <1>1, <1>2, ArrayAsItIs
  <1> DEFINE n == c - 1
  <1> HIDE DEF a, m, c
  <1>7. /\ n \in Nat /\ n <= Len(a) /\ Len(a) <= m
        /\ \A i \in 1 .. Len(a) : i > n => a[i] \notin dirty'
    <2>1. n \in Nat /\ n <= Len(a) /\ Len(a) <= m
      BY <1>1, <1>3, <1>4
    <2>2. ASSUME NEW i \in 1 .. Len(a), i > n
          PROVE  a[i] \notin dirty
      <3>1. CASE i = c
        <4>1. Len(s) \in 1 .. Len(s) /\ Len(s) > c
          BY <1>1, <1>4, <2>2, <3>1
        <4>2. QED BY <1>1, <1>4, <3>1, <4>1
      <3>2. CASE i # c
        BY <1>1, <1>3, <1>4, <2>2, <3>2
      <3>3. QED BY <3>1, <3>2
    <2>3. QED BY <1>2, <2>1, <2>2
  <1>8. /\ fresh' \cap held' = {} /\ fresh' \cap freed' = {} /\ held' \cap freed' = {}
        /\ ObjectsIn(a) \cap (fresh' \cup held' \cup freed') = {}
        /\ ObjectsIn(a) \cup fresh' \cup held' \cup freed'
              = ObjectsIn(s) \cup fresh \cup held \cup freed
    BY <1>1, <1>2, <1>4, <1>5
  <1>9. current_size' = [current_size EXCEPT ![f] = n]
    BY <1>2
  <1> HIDE DEF s, n
  <1>10. QED
    BY <1>1, <1>2, <1>4, <1>6, <1>7, <1>8, <1>9, NewArrayKeeps DEF s

\* The object comes behind the elements.  In a full array it takes the place of
\* a cleared object, which is deleted; elsewhere that object moves to the end.
LEMMA InsertedHolds ==
    ASSUME RepeatedInv, NEW f \in Field, NEW e \in Element, e \in held
    PROVE  LET s == elements[f]
               c == current_size[f]
               a == Inserted(f, e)
               full == c < Len(s) /\ Len(s) = total_size[f]
           IN  /\ a \in Seq(Element) /\ Differ(a)
               /\ c + 1 <= Len(a)
               /\ Len(a) = IF full THEN Len(s) ELSE Len(s) + 1
               /\ ObjectsIn(a) = (ObjectsIn(s) \cup {e}) \ (IF full THEN {s[c + 1]} ELSE {})
               /\ full => s[c + 1] \in ObjectsIn(s)
               /\ \A i \in 1 .. Len(a) : i > c + 1 => a[i] \notin dirty
  <1> DEFINE s == elements[f]
             c == current_size[f]
  <1>1. /\ s \in Seq(Element) /\ Len(s) \in Nat /\ Differ(s)
        /\ c \in Nat /\ total_size[f] \in Nat /\ c <= Len(s) /\ Len(s) <= total_size[f]
        /\ \A i \in 1 .. Len(s) : i > c => s[i] \notin dirty
        /\ e \notin ObjectsIn(s)
    BY InvMeans
  <1>2. CASE c = Len(s)
    <2> DEFINE a == Append(s, e)
    <2>1. Inserted(f, e) = a
      BY <1>2 DEF Inserted, allocated_size
    <2>2. /\ a \in Seq(Element) /\ Differ(a) /\ ObjectsIn(a) = ObjectsIn(s) \cup {e}
          /\ Len(a) = Len(s) + 1
      BY <1>1, AppendHolds, AppendProperties
    <2> HIDE DEF a
    <2>3. c + 1 <= Len(a) /\ \A i \in 1 .. Len(a) : ~(i > c + 1)
      BY <1>1, <1>2, <2>2
    <2>4. QED BY <1>1, <1>2, <2>1, <2>2, <2>3
  <1>3. CASE c # Len(s)
    <2> DEFINE b == Replaced(s, c + 1, e)
    <2>1. c + 1 \in 1 .. Len(s) /\ c < Len(s)
      BY <1>1, <1>3
    <2>2. /\ b \in Seq(Element) /\ Differ(b) /\ Len(b) = Len(s)
          /\ ObjectsIn(b) = (ObjectsIn(s) \ {s[c + 1]}) \cup {e}
          /\ \A i \in 1 .. Len(s) : b[i] = IF i = c + 1 THEN e ELSE s[i]
      BY <1>1, <2>1, ReplaceHolds
    <2>3. s[c + 1] \in ObjectsIn(s) /\ s[c + 1] \in Element /\ s[c + 1] # e
      BY <1>1, <2>1, ElementOfSeq DEF ObjectsIn
    <2>4. \A i \in 1 .. Len(s) : i > c + 1 => b[i] \notin dirty
      BY <1>1, <2>2
    <2>5. CASE Len(s) = total_size[f]
      <3>1. Inserted(f, e) = b
        BY <1>3, <2>5 DEF Inserted, allocated_size, Replaced
      <3> HIDE DEF b
      <3>2. QED BY <1>1, <2>1, <2>2, <2>3, <2>4, <2>5, <3>1
    <2>6. CASE Len(s) # total_size[f]
      <3> DEFINE a == Append(b, s[c + 1])
      <3>1. Inserted(f, e) = a
        BY <1>3, <2>6 DEF Inserted, allocated_size, Replaced
      <3> HIDE DEF b
      <3>2. /\ a \in Seq(Element) /\ Differ(a) /\ ObjectsIn(a) = ObjectsIn(s) \cup {e}
            /\ Len(a) = Len(s) + 1
            /\ \A i \in 1 .. Len(s) : a[i] = b[i]
            /\ a[Len(s) + 1] = s[c + 1]
        <4>1. s[c + 1] \notin ObjectsIn(b)
          BY <2>2, <2>3
        <4>2. a \in Seq(Element) /\ Differ(a) /\ ObjectsIn(a) = ObjectsIn(b) \cup {s[c + 1]}
          BY <2>2, <2>3, <4>1, AppendHolds
        <4>3. Len(a) = Len(b) + 1 /\ (\A i \in 1 .. Len(b) : a[i] = b[i]) /\ a[Len(b) + 1] = s[c + 1]
          BY <2>2, <2>3, AppendProperties
        <4>4. QED BY <2>2, <2>3, <4>2, <4>3
      <3> HIDE DEF a
      <3>3. \A i \in 1 .. Len(a) : i \in 1 .. Len(s) \/ i = Len(s) + 1
        BY <1>1, <3>2
      <3>4. s[c + 1] \notin dirty
        BY <1>1, <2>1
      <3>5. \A i \in 1 .. Len(a) : i > c + 1 => a[i] \notin dirty
        BY <2>4, <3>2, <3>3, <3>4
      <3>6. c + 1 <= Len(a)
        BY <1>1, <3>2
      <3>7. QED BY <2>6, <3>1, <3>2, <3>5, <3>6
    <2>7. QED BY <2>5, <2>6
  <1>4. QED BY <1>2, <1>3

LEMMA AddAllocatedKeeps ==
    ASSUME RepeatedInv, NEW f \in Field, NEW e \in Element, AddAllocated(f, e)
    PROVE  RepeatedInv'
  <1> DEFINE s == elements[f]
             c == current_size[f]
             t == total_size[f]
             n == c + 1
             a == Inserted(f, e)
             full == c < Len(s) /\ Len(s) = t
             m == IF c = t THEN Reserved(f, t + 1) ELSE t
             deleted == IF full THEN {s[c + 1]} ELSE {}
  <1>1. /\ RepeatedTypeOK
        /\ s \in Seq(Element) /\ Len(s) \in Nat
        /\ c \in Nat /\ t \in Nat /\ c <= Len(s) /\ Len(s) <= t
        /\ ObjectsIn(s) \cap (fresh \cup held \cup freed) = {}
        /\ fresh \cap held = {} /\ fresh \cap freed = {} /\ held \cap freed = {}
    BY InvMeans
  <1>2. /\ e \in held /\ Array(f, a)
        /\ current_size' = [current_size EXCEPT ![f] = n]
        /\ held' = held \ {e} /\ freed' = freed \cup deleted
        /\ UNCHANGED <<fresh, dirty>>
    BY <1>1 DEF AddAllocated, Grow, allocated_size
  <1>3. total_size' = [total_size EXCEPT ![f] = m]
    <2>1. CASE c = t
      BY <1>1, <2>1 DEF AddAllocated, Room
    <2>2. CASE c # t
      BY <1>1, <2>2, ArrayAsItIs DEF AddAllocated
    <2>3. QED BY <2>1, <2>2
  <1>4. m \in Nat /\ m >= t /\ (c = t => m >= t + 1)
    <2>1. t + 1 \in Nat
      BY <1>1
    <2>2. Reserved(f, t + 1) \in Nat /\ Reserved(f, t + 1) >= t + 1
      BY <1>1, <2>1, ReservedIsEnough
    <2>3. QED BY <1>1, <2>2
  <1>5. /\ a \in Seq(Element) /\ Differ(a) /\ n <= Len(a)
        /\ Len(a) = IF full THEN Len(s) ELSE Len(s) + 1
        /\ ObjectsIn(a) = (ObjectsIn(s) \cup {e}) \ deleted
        /\ full => s[c + 1] \in ObjectsIn(s)
        /\ \A i \in 1 .. Len(a) : i > n => a[i] \notin dirty
    BY <1>2, InsertedHolds
  <1> HIDE DEF a, m
  <1>6. Len(a) <= m
    BY <1>1, <1>4, <1>5
  <1>7. deleted \subseteq ObjectsIn(s) /\ e \notin deleted
    BY <1>1, <1>2, <1>5
  <1> HIDE DEF full, deleted
  <1>8. /\ fresh' \cap held' = {} /\ fresh' \cap freed' = {} /\ held' \cap freed' = {}
        /\ ObjectsIn(a) \cap (fresh' \cup held' \cup freed') = {}
        /\ ObjectsIn(a) \cup fresh' \cup held' \cup freed'
              = ObjectsIn(s) \cup fresh \cup held \cup freed
    BY <1>1, <1>2, <1>5, <1>7
  <1>9. n \in Nat
    BY <1>1
  <1> HIDE DEF s, c, t, n
  <1>10. QED
    BY <1>1, <1>2, <1>3, <1>4, <1>5, <1>6, <1>8, <1>9, NewArrayKeeps DEF s

\* Add() for every element of the other field.
LEMMA MergeKeeps ==
    ASSUME RepeatedInv, NEW f \in Field, NEW g \in Field,
           NEW size \in Nat, size <= current_size[f],
           NEW kept, kept \subseteq dirty,
           \A i \in 1 .. Len(elements[f]) : i > size => elements[f][i] \notin kept,
           AddMerged(f, g, size, kept)
    PROVE  RepeatedInv'
  <1> DEFINE s == elements[f]
             n == current_size[g]
             made == IF size + n > Len(s) THEN size + n - Len(s) ELSE 0
             m == Reserved(f, size + n)
  <1>1. /\ RepeatedTypeOK
        /\ s \in Seq(Element) /\ Len(s) \in Nat /\ Differ(s)
        /\ n \in Nat /\ total_size[f] \in Nat /\ Len(s) <= total_size[f]
        /\ ObjectsIn(s) \cap (fresh \cup held \cup freed) = {}
        /\ fresh \cap held = {} /\ fresh \cap freed = {} /\ held \cap freed = {}
    BY InvMeans
  <1> DEFINE filled == {i \in 1 .. n : elements[g][i] \in dirty}
             array(new) == s \o new
             news(new) == {new[i] : i \in 1 .. made}
             P(new) == /\ \A i, j \in 1 .. made : new[i] = new[j] => i = j
                       /\ Array(f, array(new))
                       /\ fresh' = fresh \ news(new)
                       /\ dirty' = kept \cup {array(new)[size + i] : i \in filled}
  <1>2. PICK new \in [1 .. made -> fresh] : P(new)
    BY DEF AddMerged, allocated_size
  <1>3. /\ current_size' = [current_size EXCEPT ![f] = size + n]
        /\ total_size' = [total_size EXCEPT ![f] = m]
        /\ UNCHANGED <<held, freed>>
    BY DEF AddMerged, Room
  <1> DEFINE a == array(new)
  <1>4. made \in Nat /\ size + n \in Nat /\ size + n <= Len(s) + made
        /\ (made > 0 => Len(s) + made = size + n)
    BY <1>1
  <1>5. m \in Nat /\ m >= size + n /\ m >= total_size[f]
    <2> HIDE DEF n
    <2>1. QED BY <1>1, <1>4, ReservedIsEnough
  <1> HIDE DEF made, m
  <1>6. /\ a \in Seq(Element) /\ Differ(a) /\ Len(a) = Len(s) + made
        /\ ObjectsIn(a) = ObjectsIn(s) \cup news(new)
        /\ \A i \in 1 .. Len(s) : a[i] = s[i]
    <2>1. new \in [1 .. made -> Element] /\ news(new) \subseteq fresh
      BY <1>1 DEF RepeatedTypeOK
    <2>2. /\ \A i, j \in 1 .. made : new[i] = new[j] => i = j
          /\ \A i \in 1 .. made : new[i] \notin ObjectsIn(s)
      BY <1>1, <1>2, <2>1
    <2> HIDE DEF s
    <2>3. QED BY <1>1, <1>4, <2>1, <2>2, ConcatHolds
  <1>7. news(new) \subseteq fresh
    OBVIOUS
  <1>8. Array(f, a) /\ fresh' = fresh \ news(new)
        /\ dirty' = kept \cup {a[size + i] : i \in filled}
    BY <1>2
  <1>9. size + n <= Len(a) /\ Len(a) <= m
    BY <1>1, <1>4, <1>5, <1>6
  <1>10. \A i \in filled : size + i \in 1 .. Len(a) /\ size + i <= size + n
    BY <1>1, <1>9
  <1> HIDE DEF a, filled, news, P, n
  <1>11. dirty' \subseteq dirty \cup ObjectsIn(a)
    BY <1>8, <1>10 DEF ObjectsIn
  <1>12. ASSUME NEW i \in 1 .. Len(a), i > size + n
         PROVE  a[i] \notin dirty'
    <2>1. i \in 1 .. Len(s) /\ i > size
      BY <1>1, <1>4, <1>6, <1>12
    <2>2. a[i] \notin kept
      BY <1>6, <2>1
    <2>3. \A j \in filled : a[i] # a[size + j]
      BY <1>1, <1>6, <1>10, <1>12 DEF Differ
    <2>4. QED BY <1>8, <2>2, <2>3
  <1>13. /\ fresh' \cap held' = {} /\ fresh' \cap freed' = {} /\ held' \cap freed' = {}
         /\ ObjectsIn(a) \cap (fresh' \cup held' \cup freed') = {}
         /\ ObjectsIn(a) \cup fresh' \cup held' \cup freed'
               = ObjectsIn(s) \cup fresh \cup held \cup freed
    BY <1>1, <1>3, <1>6, <1>7, <1>8
  <1> HIDE DEF s
  <1>14. QED
    BY <1>3, <1>4, <1>5, <1>6, <1>8, <1>9, <1>11, <1>12, <1>13, NewArrayKeeps DEF s

LEMMA MergeFromKeeps ==
    ASSUME RepeatedInv, NEW f \in Field, NEW g \in Field, MergeFrom(f, g) \/ CopyFrom(f, g)
    PROVE  RepeatedInv'
  <1>1. /\ current_size[f] \in Nat
        /\ \A i \in 1 .. Len(elements[f]) :
              i > current_size[f] => elements[f][i] \notin dirty
    BY InvMeans
  <1>2. CASE MergeFrom(f, g)
    BY <1>1, <1>2, MergeKeeps DEF MergeFrom
  <1>3. CASE CopyFrom(f, g)
    <2> DEFINE kept == dirty \ ObjectsAt(f, Elements(f))
    <2>1. ASSUME NEW i \in 1 .. Len(elements[f])
          PROVE  elements[f][i] \notin kept
      <3>1. CASE i <= current_size[f]
        BY <1>1, <3>1 DEF ObjectsAt, Elements
      <3>2. CASE i > current_size[f]
        BY <1>1, <3>2
      <3>3. QED BY <1>1, <3>1, <3>2
    <2>2. kept \subseteq dirty /\ AddMerged(f, g, 0, kept) /\ 0 \in Nat /\ 0 <= current_size[f]
      BY <1>1, <1>3 DEF CopyFrom
    <2> HIDE DEF kept
    <2>3. QED BY <2>1, <2>2, MergeKeeps
  <1>4. QED BY <1>2, <1>3

LEMMA ReserveKeeps ==
    ASSUME RepeatedInv, NEW f \in Field, NEW new_size \in Nat, Reserve(f, new_size)
    PROVE  RepeatedInv'
  <1> DEFINE s == elements[f]
             n == current_size[f]
             m == Reserved(f, new_size)
  <1>1. /\ RepeatedTypeOK
        /\ s \in Seq(Element) /\ Len(s) \in Nat /\ Differ(s)
        /\ n \in Nat /\ total_size[f] \in Nat /\ n <= Len(s) /\ Len(s) <= total_size[f]
        /\ ObjectsIn(s) \cap (fresh \cup held \cup freed) = {}
        /\ \A i \in 1 .. Len(s) : i > n => s[i] \notin dirty
        /\ fresh \cap held = {} /\ fresh \cap freed = {} /\ held \cap freed = {}
    BY InvMeans
  <1>2. Array(f, s) /\ current_size' = [current_size EXCEPT ![f] = n]
        /\ total_size' = [total_size EXCEPT ![f] = m]
        /\ UNCHANGED <<fresh, held, freed, dirty>>
    BY <1>1, ArrayAsItIs DEF Reserve, Room
  <1>3. m \in Nat /\ m >= total_size[f]
    BY <1>1, ReservedIsEnough
  <1>4. Len(s) <= m
    BY <1>1, <1>3
  <1> HIDE DEF s, n, m
  <1>5. QED BY <1>1, <1>2, <1>3, <1>4, NewArrayKeeps DEF s

LEMMA SwapElementsKeeps ==
    ASSUME RepeatedInv, NEW f \in Field,
           NEW i \in Elements(f), NEW j \in Elements(f), SwapElements(f, i, j)
    PROVE  RepeatedInv'
  <1> DEFINE s == elements[f]
             a == [s EXCEPT ![i] = s[j], ![j] = s[i]]
             n == current_size[f]
             m == total_size[f]
  <1>1. /\ RepeatedTypeOK
        /\ s \in Seq(Element) /\ Len(s) \in Nat /\ Differ(s)
        /\ n \in Nat /\ m \in Nat /\ n <= Len(s) /\ Len(s) <= m
        /\ ObjectsIn(s) \cap (fresh \cup held \cup freed) = {}
        /\ \A k \in 1 .. Len(s) : k > n => s[k] \notin dirty
        /\ fresh \cap held = {} /\ fresh \cap freed = {} /\ held \cap freed = {}
    BY InvMeans
  <1>2. Array(f, a) /\ current_size' = [current_size EXCEPT ![f] = n]
        /\ total_size' = [total_size EXCEPT ![f] = m]
        /\ UNCHANGED <<fresh, held, freed, dirty>>
    BY <1>1, ArrayAsItIs DEF SwapElements
  <1>3. i \in 1 .. Len(s) /\ j \in 1 .. Len(s) /\ i <= n /\ j <= n
    BY <1>1 DEF Elements
  <1> HIDE DEF s, n, m
  <1>4. /\ a \in Seq(Element) /\ Len(a) = Len(s)
        /\ \A k \in 1 .. Len(s) : a[k] = IF k = j THEN s[i] ELSE IF k = i THEN s[j] ELSE s[k]
    <2> DEFINE b == [s EXCEPT ![i] = s[j]]
    <2>1. s[i] \in Element /\ s[j] \in Element
      BY <1>1, <1>3, ElementOfSeq
    <2>2. /\ b \in Seq(Element) /\ Len(b) = Len(s)
          /\ \A k \in 1 .. Len(s) : b[k] = IF k = i THEN s[j] ELSE s[k]
      BY <1>1, <1>3, <2>1, ExceptSeq
    <2> HIDE DEF b
    <2>3. /\ [b EXCEPT ![j] = s[i]] \in Seq(Element) /\ Len([b EXCEPT ![j] = s[i]]) = Len(b)
          /\ \A k \in 1 .. Len(b) : [b EXCEPT ![j] = s[i]][k] = IF k = j THEN s[i] ELSE b[k]
      BY <1>3, <2>1, <2>2, ExceptSeq
    <2>4. a = [b EXCEPT ![j] = s[i]]
      BY DEF b
    <2> HIDE DEF a
    <2>5. QED BY <2>2, <2>3, <2>4
  <1> HIDE DEF a
  <1>5. Differ(a)
    BY <1>1, <1>3, <1>4 DEF Differ
  <1>6. ObjectsIn(a) = ObjectsIn(s)
    <2>1. ObjectsIn(a) \subseteq ObjectsIn(s)
      BY <1>3, <1>4 DEF ObjectsIn
    <2>2. ASSUME NEW k \in 1 .. Len(s) PROVE \E l \in 1 .. Len(a) : a[l] = s[k]
      <3>1. CASE k = i
        BY <1>3, <1>4, <3>1
      <3>2. CASE k = j
        BY <1>3, <1>4, <3>2
      <3>3. CASE k # i /\ k # j
        BY <1>3, <1>4, <3>3
      <3>4. QED BY <3>1, <3>2, <3>3
    <2>3. QED BY <2>1, <2>2 DEF ObjectsIn
  <1>7. n <= Len(a) /\ Len(a) <= m /\ \A k \in 1 .. Len(a) : k > n => a[k] \notin dirty'
    <2>1. \A k \in 1 .. Len(s) : k > n => k # i /\ k # j
      BY <1>1, <1>3
    <2>2. QED BY <1>1, <1>2, <1>4, <2>1
  <1>8. QED BY <1>1, <1>2, <1>4, <1>5, <1>6, <1>7, NewArrayKeeps DEF s

\* What is left when a range of objects has been taken out.
LEMMA GapHolds ==
    ASSUME RepeatedTypeOK, NEW f \in Field, Differ(elements[f]),
           NEW start \in 1 .. Len(elements[f]), NEW num \in 1 .. Len(elements[f]) + 1 - start
    PROVE  LET s == elements[f]
               a == CloseGap(f, start, num)
           IN  /\ a \in Seq(Element) /\ Differ(a) /\ Len(a) = Len(s) - num
               /\ \A i \in 1 .. Len(a) : a[i] = IF i < start THEN s[i] ELSE s[i + num]
               /\ ObjectsIn(a) = ObjectsIn(s) \ ObjectsAt(f, start .. start + num - 1)
               /\ ObjectsAt(f, start .. start + num - 1) \subseteq ObjectsIn(s)
  <1> DEFINE s == elements[f]
             a == CloseGap(f, start, num)
             range == start .. start + num - 1
  <1>1. s \in Seq(Element) /\ Len(s) \in Nat
    BY DEF RepeatedTypeOK
  <1>2. Len(s) - num \in Nat /\ num \in Nat /\ start \in Nat /\ start + num - 1 <= Len(s)
    BY <1>1
  <1>3. \A i \in 1 .. Len(s) - num : i \in 1 .. Len(s) /\ i + num \in 1 .. Len(s)
    BY <1>1, <1>2
  <1>4. a = [i \in 1 .. Len(s) - num |-> IF i < start THEN s[i] ELSE s[i + num]]
    BY DEF CloseGap, allocated_size
  <1>5. a \in [1 .. Len(s) - num -> Element]
    BY <1>1, <1>3, <1>4, ElementOfSeq
  <1>6. a \in Seq(Element) /\ Len(a) = Len(s) - num
    BY <1>2, <1>5
  <1>7. \A i \in 1 .. Len(s) - num : a[i] = IF i < start THEN s[i] ELSE s[i + num]
    BY <1>4
  <1> HIDE DEF a
  <1>8. Differ(a)
    <2> SUFFICES ASSUME NEW i \in 1 .. Len(s) - num, NEW j \in 1 .. Len(s) - num, a[i] = a[j]
                 PROVE  i = j
      BY <1>6 DEF Differ
    <2>1. (IF i < start THEN i ELSE i + num) = (IF j < start THEN j ELSE j + num)
      BY <1>3, <1>7 DEF Differ
    <2>2. QED BY <1>2, <2>1
  <1>9. ObjectsAt(f, range) \subseteq ObjectsIn(s)
    <2>1. range \subseteq 1 .. Len(s)
      BY <1>1, <1>2
    <2>2. QED BY <2>1 DEF ObjectsAt, ObjectsIn
  <1>10. ObjectsIn(a) \subseteq ObjectsIn(s) \ ObjectsAt(f, range)
    <2> SUFFICES ASSUME NEW i \in 1 .. Len(s) - num
                 PROVE  a[i] \in ObjectsIn(s) /\ \A k \in range : s[k] # a[i]
      BY <1>6 DEF ObjectsIn, ObjectsAt
    <2> DEFINE l == IF i < start THEN i ELSE i + num
    <2>1. l \in 1 .. Len(s) /\ l \notin range /\ a[i] = s[l]
      BY <1>2, <1>3, <1>7
    <2> HIDE DEF l
    <2>2. range \subseteq 1 .. Len(s)
      BY <1>1, <1>2
    <2>3. QED BY <2>1, <2>2 DEF ObjectsIn, Differ
  <1>11. ObjectsIn(s) \ ObjectsAt(f, range) \subseteq ObjectsIn(a)
    <2> SUFFICES ASSUME NEW k \in 1 .. Len(s), k \notin range
                 PROVE  \E i \in 1 .. Len(s) - num : a[i] = s[k]
      BY <1>6 DEF ObjectsIn, ObjectsAt
    <2>1. CASE k < start
      <3>1. k \in 1 .. Len(s) - num
        BY <1>1, <1>2, <2>1
      <3>2. QED BY <1>7, <2>1, <3>1
    <2>2. CASE k >= start + num
      <3>1. k - num \in 1 .. Len(s) - num /\ ~(k - num < start) /\ (k - num) + num = k
        BY <1>1, <1>2, <2>2
      <3>2. QED BY <1>7, <3>1
    <2>3. QED BY <1>2, <2>1, <2>2
  <1>12. QED BY <1>6, <1>7, <1>8, <1>9, <1>10, <1>11 DEF a

LEMMA RangeKeeps ==
    ASSUME RepeatedInv, NEW f \in Field, NEW start \in Elements(f), NEW num \in Elements(f),
           ExtractSubrange(f, start, num) \/ DeleteSubrange(f, start, num)
    PROVE  RepeatedInv'
  <1> DEFINE s == elements[f]
             c == current_size[f]
             a == CloseGap(f, start, num)
             gone == ObjectsAt(f, start .. start + num - 1)
             n == c - num
             m == total_size[f]
  <1>1. /\ RepeatedTypeOK
        /\ s \in Seq(Element) /\ Len(s) \in Nat /\ Differ(s)
        /\ c \in Nat /\ m \in Nat /\ c <= Len(s) /\ Len(s) <= m
        /\ ObjectsIn(s) \cap (fresh \cup held \cup freed) = {}
        /\ \A i \in 1 .. Len(s) : i > c => s[i] \notin dirty
        /\ fresh \cap held = {} /\ fresh \cap freed = {} /\ held \cap freed = {}
    BY InvMeans
  <1>2. /\ start \in 1 .. c /\ num \in 1 .. c + 1 - start
        /\ Array(f, a) /\ current_size' = [current_size EXCEPT ![f] = c - num]
        /\ total_size' = [total_size EXCEPT ![f] = m]
    BY <1>1, ArrayAsItIs
       DEF ExtractSubrange, DeleteSubrange, RemoveRange, Elements, Shrink
  <1>3. start \in 1 .. Len(s) /\ num \in 1 .. Len(s) + 1 - start
    BY <1>1, <1>2
  <1>4. /\ a \in Seq(Element) /\ Differ(a) /\ Len(a) = Len(s) - num
        /\ \A i \in 1 .. Len(a) : a[i] = IF i < start THEN s[i] ELSE s[i + num]
        /\ ObjectsIn(a) = ObjectsIn(s) \ gone
        /\ gone \subseteq ObjectsIn(s)
    BY <1>1, <1>3, GapHolds
  <1>5. /\ fresh' = fresh /\ dirty' \subseteq dirty
        /\ \/ held' = held \cup gone /\ freed' = freed
           \/ held' = held /\ freed' = freed \cup gone
    BY DEF ExtractSubrange, DeleteSubrange
  <1> HIDE DEF a, gone
  <1>6. /\ fresh' \cap held' = {} /\ fresh' \cap freed' = {} /\ held' \cap freed' = {}
        /\ ObjectsIn(a) \cap (fresh' \cup held' \cup freed') = {}
        /\ ObjectsIn(a) \cup fresh' \cup held' \cup freed'
              = ObjectsIn(s) \cup fresh \cup held \cup freed
    BY <1>1, <1>4, <1>5
  <1> HIDE DEF s, c, m
  <1>7. /\ n \in Nat /\ n <= Len(a) /\ Len(a) <= m
        /\ \A i \in 1 .. Len(a) : i > n =>
              ~(i < start) /\ i + num \in 1 .. Len(s) /\ i + num > c
    <2>1. /\ start \in Nat /\ num \in Nat /\ start >= 1 /\ num >= 1 /\ num + start <= c + 1
          /\ c \in Nat /\ c <= Len(s) /\ Len(s) <= m /\ Len(s) \in Nat /\ m \in Nat
          /\ Len(a) = Len(s) - num
      BY <1>1, <1>2, <1>4
    <2>2. QED BY <2>1
  <1>8. ASSUME NEW i \in 1 .. Len(a), i > n
        PROVE  a[i] \notin dirty'
    <2>1. ~(i < start) /\ i + num \in 1 .. Len(s) /\ i + num > c
      BY <1>7, <1>8
    <2>2. a[i] = s[i + num] /\ s[i + num] \notin dirty
      BY <1>1, <1>4, <2>1
    <2>3. QED BY <1>5, <2>2
  <1>9. current_size' = [current_size EXCEPT ![f] = n]
    BY <1>2 DEF c
  <1> HIDE DEF n
  <1>10. QED
    BY <1>1, <1>2, <1>4, <1>5, <1>6, <1>7, <1>8, <1>9, NewArrayKeeps DEF s

LEMMA DestroyKeeps ==
    ASSUME RepeatedInv, NEW f \in Field, Destroy(f)
    PROVE  RepeatedInv'
  <1> DEFINE a == <<>>
  <1>1. /\ Owned(f) = ObjectsIn(elements[f])
        /\ ObjectsIn(elements[f]) \cap (fresh \cup held \cup freed) = {}
        /\ fresh \cap held = {} /\ fresh \cap freed = {} /\ held \cap freed = {}
    BY InvMeans
  <1>2. /\ Array(f, a)
        /\ current_size' = [current_size EXCEPT ![f] = 0]
        /\ total_size' = [total_size EXCEPT ![f] = 0]
        /\ freed' = freed \cup Owned(f) /\ dirty' \subseteq dirty /\ UNCHANGED <<fresh, held>>
    BY DEF Destroy
  <1>3. a \in Seq(Element) /\ Len(a) = 0
    OBVIOUS
  <1> HIDE DEF a
  <1>4. ObjectsIn(a) = {} /\ Differ(a)
    BY <1>3 DEF ObjectsIn, Differ
  <1>5. 0 \in Nat /\ 0 <= Len(a) /\ Len(a) <= 0 /\ \A i \in 1 .. Len(a) : ~(i > 0)
    BY <1>3
  <1>6. /\ fresh' \cap held' = {} /\ fresh' \cap freed' = {} /\ held' \cap freed' = {}
        /\ ObjectsIn(a) \cap (fresh' \cup held' \cup freed') = {}
        /\ ObjectsIn(a) \cup fresh' \cup held' \cup freed'
              = ObjectsIn(elements[f]) \cup fresh \cup held \cup freed
    BY <1>1, <1>2, <1>4
  <1>7. QED BY <1>2, <1>3, <1>4, <1>5, <1>6, NewArrayKeeps

\* Two fields exchange all they have.
LEMMA SwapKeeps ==
    ASSUME RepeatedInv, NEW f \in Field, NEW g \in Field, Swap(f, g)
    PROVE  RepeatedInv'
  <1> DEFINE other(h) == IF h = f THEN g ELSE IF h = g THEN f ELSE h
  <1>1. /\ RepeatedTypeOK /\ OneOwner /\ NothingLeaks /\ KeptAreClear
        /\ UNCHANGED <<fresh, held, freed, dirty>>
    BY InvMeans DEF Swap
  <1>2. /\ elements' \in [Field -> Seq(Element)]
        /\ current_size' \in [Field -> Nat] /\ total_size' \in [Field -> Nat]
    BY <1>1 DEF Swap, RepeatedTypeOK
  <1>3. ASSUME NEW h \in Field
        PROVE  /\ other(h) \in Field /\ other(other(h)) = h
               /\ elements'[h] = elements[other(h)]
               /\ current_size'[h] = current_size[other(h)]
               /\ total_size'[h] = total_size[other(h)]
    BY <1>1 DEF Swap, RepeatedTypeOK
  <1> HIDE DEF other
  <1>4. RepeatedTypeOK'
    BY <1>1, <1>2, <1>3 DEF RepeatedTypeOK, allocated_size
  <1>5. SlotsDiffer'
    <2> SUFFICES ASSUME NEW h \in Field, NEW k \in Field,
                        NEW i \in 1 .. Len(elements'[h]), NEW j \in 1 .. Len(elements'[k]),
                        elements'[h][i] = elements'[k][j]
                 PROVE  h = k /\ i = j
      BY DEF SlotsDiffer, Slots, allocated_size
    <2>1. other(h) = other(k) /\ i = j
      BY <1>1, <1>3 DEF OneOwner, SlotsDiffer, Slots, allocated_size
    <2>2. QED BY <1>3, <2>1
  <1>6. OwnedByOne'
    BY <1>1, <1>3 DEF OneOwner, OwnedByOne, Slots, allocated_size
  <1>7. NothingLeaks'
    <2> SUFFICES ASSUME NEW e \in Element, e \notin fresh \cup held \cup freed
                 PROVE  \E h \in Field : \E i \in 1 .. Len(elements'[h]) : elements'[h][i] = e
      BY <1>1 DEF NothingLeaks, Owned, ObjectsAt, Slots, allocated_size
    <2>1. PICK h \in Field : \E i \in 1 .. Len(elements[h]) : elements[h][i] = e
      BY <1>1 DEF NothingLeaks, Owned, ObjectsAt, Slots, allocated_size
    <2>2. other(h) \in Field /\ elements'[other(h)] = elements[h]
      BY <1>3
    <2>3. QED BY <2>1, <2>2
  <1>8. KeptAreClear'
    BY <1>1, <1>3 DEF KeptAreClear, Slots, allocated_size
  <1>9. QED BY <1>4, <1>5, <1>6, <1>7, <1>8 DEF RepeatedInv, OneOwner

-----------------------------------------------------------------------------
(* The invariant of the calls, and what it gives *)

\* Every call on a field keeps who owns what, and which objects are clear.
THEOREM RepeatedInductive == RepeatedInv /\ [RepeatedNext]_rvars => RepeatedInv'
  <1> SUFFICES ASSUME RepeatedInv, [RepeatedNext]_rvars PROVE RepeatedInv'
    OBVIOUS
  <1>1. ASSUME NEW e \in Element, Make(e) \/ Delete(e) \/ Fill(e)
        PROVE  RepeatedInv'
    BY <1>1, CallersSteps
  <1>2. ASSUME NEW f \in Field, FieldNext(f)
        PROVE  RepeatedInv'
    <2>1. CASE Add(f)
      BY <2>1, AddKeeps
    <2>2. CASE RemoveLast(f) \/ Clear(f)
      BY <2>2, ShrinkKeeps
    <2>3. CASE ReleaseLast(f)
      BY <2>3, ReleaseLastKeeps
    <2>4. CASE ReleaseCleared(f)
      BY <2>4, ReleaseClearedKeeps
    <2>5. CASE Destroy(f)
      BY <2>5, DestroyKeeps
    <2>6. CASE \E e \in Element : AddAllocated(f, e) \/ AddCleared(f, e)
      BY <2>6, AddAllocatedKeeps, AddClearedKeeps
    <2>7. CASE \E g \in Field : MergeFrom(f, g) \/ CopyFrom(f, g) \/ Swap(f, g)
      BY <2>7, MergeFromKeeps, SwapKeeps
    <2>8. CASE \E i, j \in Elements(f) : SwapElements(f, i, j)
      BY <2>8, SwapElementsKeeps
    <2>9. CASE \E i \in Elements(f), n \in Elements(f) :
                  ExtractSubrange(f, i, n) \/ DeleteSubrange(f, i, n)
      BY <2>9, RangeKeeps
    <2>10. CASE \E n \in 1 .. Cardinality(Element) : Reserve(f, n)
      <3>1. 1 .. Cardinality(Element) \subseteq Nat
        BY RepeatedAssumption, FS_CardinalityType
      <3>2. QED BY <2>10, <3>1, ReserveKeeps
    <2>11. QED
      BY <1>2, <2>1, <2>2, <2>3, <2>4, <2>5, <2>6, <2>7, <2>8, <2>9, <2>10 DEF FieldNext
  <1>3. CASE UNCHANGED rvars
    BY <1>3 DEF rvars, RepeatedInv, RepeatedTypeOK, OneOwner, SlotsDiffer, OwnedByOne,
                NothingLeaks, KeptAreClear, Slots, Owned, ObjectsAt, allocated_size
  <1>4. QED BY <1>1, <1>2, <1>3 DEF RepeatedNext

LEMMA RepeatedInitInv == RepeatedInit => RepeatedInv
  <1> SUFFICES ASSUME RepeatedInit PROVE RepeatedInv
    OBVIOUS
  <1>1. \A f \in Field : elements[f] = <<>> /\ Len(elements[f]) = 0
    BY DEF RepeatedInit
  <1>2. RepeatedTypeOK
    BY <1>1 DEF RepeatedInit, RepeatedTypeOK, allocated_size
  <1>3. \A f \in Field : Slots(f) = {}
    BY <1>1 DEF Slots, allocated_size
  <1>4. OneOwner
    BY <1>3 DEF RepeatedInit, OneOwner, SlotsDiffer, OwnedByOne
  <1>5. NothingLeaks /\ KeptAreClear
    BY <1>3 DEF RepeatedInit, NothingLeaks, KeptAreClear
  <1>6. QED BY <1>2, <1>4, <1>5 DEF RepeatedInv

\* The sizes of a field are in order and all it holds are objects: what every
\* guard of repeated_field.h relies on.
THEOREM RepeatedTypeCorrect == RepeatedSpec => []RepeatedTypeOK
  <1>1. RepeatedInv => RepeatedTypeOK
    BY DEF RepeatedInv
  <1>2. QED BY <1>1, RepeatedInitInv, RepeatedInductive, PTL DEF RepeatedSpec

\* Every object has at most one owner, a slot of one field or the caller, for
\* any number of fields and objects: AddAllocated(), ReleaseLast() and the
\* subranges move objects between them without a second pointer left behind.
THEOREM OwnershipSound == RepeatedSpec => []OneOwner
  <1>1. RepeatedInv => OneOwner
    BY DEF RepeatedInv
  <1>2. QED BY <1>1, RepeatedInitInv, RepeatedInductive, PTL DEF RepeatedSpec

\* No object is lost: until it is deleted it is in a slot or the caller's.
THEOREM NothingLost == RepeatedSpec => []NothingLeaks
  <1>1. RepeatedInv => NothingLeaks
    BY DEF RepeatedInv
  <1>2. QED BY <1>1, RepeatedInitInv, RepeatedInductive, PTL DEF RepeatedSpec

\* What Add() hands out again is clear, however it came behind the elements.
THEOREM ReuseSound == RepeatedSpec => []KeptAreClear
  <1>1. RepeatedInv => KeptAreClear
    BY DEF RepeatedInv
  <1>2. QED BY <1>1, RepeatedInitInv, RepeatedInductive, PTL DEF RepeatedSpec
-----------------------------------------------------------------------------
(* The order of the elements *)

\* n objects of an array: an element of field f is behind elements of f only,
\* and behind those it was behind before.
InOrder(f, a, n) ==
    \A i, j \in 1 .. n :
        (i < j /\ a[j] \in ObjectsAt(f, Elements(f))) =>
            \E k, l \in Elements(f) : k < l /\ elements[f][k] = a[i] /\ elements[f][l] = a[j]

\* The elements as they are, and behind them no element a second time.
LEMMA PrefixInOrder ==
    ASSUME NEW f \in Field, current_size[f] \in Nat, NEW a, NEW n \in Nat,
           \A i \in 1 .. n : IF i <= current_size[f] THEN a[i] = elements[f][i]
                             ELSE a[i] \notin ObjectsAt(f, Elements(f))
    PROVE  InOrder(f, a, n)
  <1> SUFFICES ASSUME NEW i \in 1 .. n, NEW j \in 1 .. n, i < j,
                      a[j] \in ObjectsAt(f, Elements(f))
               PROVE  \E k, l \in Elements(f) :
                         k < l /\ elements[f][k] = a[i] /\ elements[f][l] = a[j]
    BY DEF InOrder
  <1>1. i <= current_size[f] /\ j <= current_size[f]
    OBVIOUS
  <1>2. i \in Elements(f) /\ j \in Elements(f)
    BY <1>1 DEF Elements
  <1>3. QED BY <1>1, <1>2

\* What is not an element of a field: what it keeps behind them, and what has
\* another owner.
LEMMA Others ==
    ASSUME RepeatedInv, NEW f \in Field
    PROVE  /\ \A i \in 1 .. Len(elements[f]) :
                 i > current_size[f] => elements[f][i] \notin ObjectsAt(f, Elements(f))
           /\ (fresh \cup held) \cap ObjectsAt(f, Elements(f)) = {}
  <1> DEFINE s == elements[f]
  <1>1. /\ Len(s) \in Nat /\ current_size[f] \in Nat /\ current_size[f] <= Len(s)
        /\ Differ(s) /\ ObjectsIn(s) \cap (fresh \cup held \cup freed) = {}
    BY InvMeans
  <1>2. \A i \in Elements(f) : i \in 1 .. Len(s) /\ i <= current_size[f]
    BY <1>1 DEF Elements
  <1> HIDE DEF s
  <1>3. ObjectsAt(f, Elements(f)) = {s[i] : i \in Elements(f)}
    BY DEF s, ObjectsAt
  <1>4. \A i \in 1 .. Len(s) : i > current_size[f] => s[i] \notin ObjectsAt(f, Elements(f))
    BY <1>1, <1>2, <1>3 DEF Differ
  <1>5. ObjectsAt(f, Elements(f)) \subseteq ObjectsIn(s)
    BY <1>2, <1>3 DEF ObjectsIn
  <1>6. QED BY <1>1, <1>4, <1>5 DEF s

\* A call that changes the array of one field.
LEMMA OneArrayInOrder ==
    ASSUME RepeatedInv, NEW f \in Field, NEW a, Array(f, a),
           NEW n \in Nat, current_size' = [current_size EXCEPT ![f] = n],
           InOrder(f, a, n)
    PROVE  \A g \in Field : InOrder(g, elements'[g], current_size'[g])
  <1> SUFFICES ASSUME NEW g \in Field PROVE InOrder(g, elements'[g], current_size'[g])
    OBVIOUS
  <1>1. /\ elements \in [Field -> Seq(Element)] /\ current_size \in [Field -> Nat]
    BY InvMeans DEF RepeatedTypeOK
  <1>2. CASE g = f
    BY <1>1, <1>2 DEF Array
  <1>3. CASE g # f
    <2>1. elements'[g] = elements[g] /\ current_size'[g] = current_size[g]
      BY <1>1, <1>3 DEF Array
    <2>2. InOrder(g, elements[g], current_size[g])
      BY <1>1, PrefixInOrder
    <2>3. QED BY <2>1, <2>2
  <1>4. QED BY <1>2, <1>3

\* The array stays, with no more elements than before, or with those of the
\* kept objects that are the next.
LEMMA SameArrayInOrder ==
    ASSUME RepeatedInv, NEW f \in Field, elements' = elements,
           NEW n \in Nat, n <= Len(elements[f]),
           current_size' = [current_size EXCEPT ![f] = n]
    PROVE  \A g \in Field : InOrder(g, elements'[g], current_size'[g])
  <1>1. current_size[f] \in Nat /\ Len(elements[f]) \in Nat
    BY InvMeans
  <1>2. \A i \in 1 .. n : IF i <= current_size[f] THEN elements[f][i] = elements[f][i]
                          ELSE elements[f][i] \notin ObjectsAt(f, Elements(f))
    BY <1>1, Others
  <1>3. InOrder(f, elements[f], n)
    BY <1>1, <1>2, PrefixInOrder
  <1>4. Array(f, elements[f])
    BY InvMeans, ArrayAsItIs
  <1>5. QED BY <1>3, <1>4, OneArrayInOrder

\* Calls that only change how many of the objects are elements.
LEMMA ResizeInOrder ==
    ASSUME RepeatedInv, NEW f \in Field,
           \/ RemoveLast(f) \/ Clear(f) \/ \E n \in Nat : Reserve(f, n)
           \/ Add(f) /\ current_size[f] < allocated_size(f)
    PROVE  \A g \in Field : InOrder(g, elements'[g], current_size'[g])
  <1>1. /\ current_size \in [Field -> Nat]
        /\ current_size[f] \in Nat /\ Len(elements[f]) \in Nat
        /\ current_size[f] <= Len(elements[f])
    BY InvMeans DEF RepeatedTypeOK
  <1>2. elements' = elements
    BY DEF RemoveLast, Clear, Reserve, Add
  <1>3. PICK n \in Nat : /\ n <= Len(elements[f])
                         /\ current_size' = [current_size EXCEPT ![f] = n]
    <2>1. CASE RemoveLast(f)
      <3>1. current_size[f] - 1 \in Nat
        BY <1>1, <2>1 DEF RemoveLast
      <3>2. current_size' = [current_size EXCEPT ![f] = current_size[f] - 1]
        BY <2>1 DEF RemoveLast, Shrink
      <3>3. current_size[f] - 1 <= Len(elements[f])
        BY <1>1
      <3>4. QED BY <3>1, <3>2, <3>3
    <2>2. CASE Clear(f)
      <3>1. current_size' = [current_size EXCEPT ![f] = 0]
        BY <2>2 DEF Clear
      <3>2. 0 \in Nat /\ 0 <= Len(elements[f])
        BY <1>1
      <3>3. QED BY <3>1, <3>2
    <2>3. CASE \E n \in Nat : Reserve(f, n)
      <3>1. current_size' = [current_size EXCEPT ![f] = current_size[f]]
        BY <1>1, <2>3 DEF Reserve
      <3>2. QED BY <1>1, <3>1
    <2>4. CASE Add(f) /\ current_size[f] < allocated_size(f)
      <3>1. current_size[f] + 1 \in Nat /\ current_size[f] + 1 <= Len(elements[f])
        BY <1>1, <2>4 DEF allocated_size
      <3>2. QED BY <2>4, <3>1 DEF Add, Grow
    <2>5. QED BY <2>1, <2>2, <2>3, <2>4
  <1>4. QED BY <1>2, <1>3, SameArrayInOrder

\* Objects of another owner come behind the array.
LEMMA AppendInOrder ==
    ASSUME RepeatedInv, NEW f \in Field, NEW a \in Seq(Element), NEW n \in Nat, n <= Len(a),
           \A i \in 1 .. Len(a) :
              IF i <= Len(elements[f]) THEN a[i] = elements[f][i] ELSE a[i] \in fresh \cup held
    PROVE  InOrder(f, a, n)
  <1>1. /\ current_size[f] \in Nat /\ Len(elements[f]) \in Nat /\ Len(a) \in Nat
        /\ current_size[f] <= Len(elements[f])
    BY InvMeans
  <1>2. ASSUME NEW i \in 1 .. n
        PROVE  IF i <= current_size[f] THEN a[i] = elements[f][i]
               ELSE a[i] \notin ObjectsAt(f, Elements(f))
    BY <1>1, Others
  <1>3. QED BY <1>1, <1>2, PrefixInOrder

LEMMA AddInOrder ==
    ASSUME RepeatedInv, NEW f \in Field,
           Add(f) \/ \E e \in Element : AddCleared(f, e)
    PROVE  \A g \in Field : InOrder(g, elements'[g], current_size'[g])
  <1> DEFINE s == elements[f]
  <1>1. /\ current_size \in [Field -> Nat] /\ fresh \subseteq Element
        /\ s \in Seq(Element) /\ Len(s) \in Nat
        /\ current_size[f] \in Nat /\ current_size[f] <= Len(s)
    BY InvMeans DEF RepeatedTypeOK
  <1>2. CASE Add(f) /\ current_size[f] < allocated_size(f)
    BY <1>2, ResizeInOrder
  <1>3. CASE ~(Add(f) /\ current_size[f] < allocated_size(f))
    <2>1. PICK e \in Element : e \in fresh \cup held /\ Array(f, Append(s, e))
      BY <1>1, <1>3 DEF Add, AddCleared
    <2>2. PICK n \in Nat : n <= Len(s) + 1 /\ current_size' = [current_size EXCEPT ![f] = n]
      <3>1. CASE Add(f)
        <4>1. current_size[f] + 1 \in Nat /\ current_size[f] + 1 <= Len(s) + 1
          BY <1>1
        <4>2. QED BY <3>1, <4>1 DEF Add, Grow
      <3>2. CASE \E d \in Element : AddCleared(f, d)
        <4>1. current_size' = [current_size EXCEPT ![f] = current_size[f]]
          BY <1>1, <3>2 DEF AddCleared
        <4>2. current_size[f] <= Len(s) + 1
          BY <1>1
        <4>3. QED BY <1>1, <4>1, <4>2
      <3>3. QED BY <3>1, <3>2
    <2> DEFINE a == Append(s, e)
    <2>3. /\ a \in Seq(Element) /\ Len(a) = Len(s) + 1
          /\ \A i \in 1 .. Len(a) : IF i <= Len(s) THEN a[i] = s[i] ELSE a[i] = e
      BY <1>1, AppendProperties
    <2> HIDE DEF a
    <2>4. InOrder(f, a, n)
      BY <2>1, <2>2, <2>3, AppendInOrder
    <2>5. QED BY <2>1, <2>2, <2>4, OneArrayInOrder DEF a
  <1>4. QED BY <1>2, <1>3

LEMMA MergeInOrder ==
    ASSUME RepeatedInv, NEW f \in Field, NEW g \in Field, MergeFrom(f, g) \/ CopyFrom(f, g)
    PROVE  \A h \in Field : InOrder(h, elements'[h], current_size'[h])
  <1> DEFINE s == elements[f]
             n == current_size[g]
  <1>1. /\ s \in Seq(Element) /\ Len(s) \in Nat /\ fresh \subseteq Element
        /\ n \in Nat /\ current_size[f] \in Nat /\ current_size[f] <= Len(s)
    BY InvMeans DEF RepeatedTypeOK
  <1>2. PICK size \in {0, current_size[f]} : \E kept : AddMerged(f, g, size, kept)
    BY DEF MergeFrom, CopyFrom
  <1> DEFINE made == IF size + n > Len(s) THEN size + n - Len(s) ELSE 0
  <1>3. PICK new \in [1 .. made -> fresh] : Array(f, s \o new)
    BY <1>2 DEF AddMerged, allocated_size
  <1> DEFINE m == size + n
             a == s \o new
  <1>4. current_size' = [current_size EXCEPT ![f] = m]
    BY <1>2 DEF AddMerged
  <1>5. made \in Nat /\ m \in Nat /\ m <= Len(s) + made
    <2>1. size \in Nat
      BY <1>1
    <2> HIDE DEF n, s
    <2>2. QED BY <1>1, <2>1
  <1> HIDE DEF made, m, n
  <1>6. new \in Seq(Element) /\ Len(new) = made
    BY <1>1, <1>5
  <1>7. \A i \in 1 .. made : new[i] \in fresh
    OBVIOUS
  <1> HIDE DEF s
  <1>8. /\ a \in Seq(Element) /\ Len(a) = Len(s) + made
        /\ \A i \in 1 .. Len(a) : a[i] = IF i <= Len(s) THEN s[i] ELSE new[i - Len(s)]
    <2>1. /\ a \in Seq(Element) /\ Len(a) = Len(s) + Len(new)
          /\ \A i \in 1 .. Len(s) + Len(new) :
                a[i] = IF i <= Len(s) THEN s[i] ELSE new[i - Len(s)]
      BY <1>1, <1>6, ConcatProperties
    <2> HIDE DEF a
    <2>2. QED BY <1>6, <2>1
  <1> HIDE DEF a
  <1>9. \A i \in 1 .. Len(a) : IF i <= Len(s) THEN a[i] = s[i] ELSE a[i] \in fresh \cup held
    BY <1>1, <1>5, <1>7, <1>8
  <1>10. InOrder(f, a, m)
    BY <1>5, <1>8, <1>9, AppendInOrder DEF s
  <1>11. QED BY <1>3, <1>4, <1>5, <1>10, OneArrayInOrder DEF a

LEMMA AddAllocatedInOrder ==
    ASSUME RepeatedInv, NEW f \in Field, NEW e \in Element, AddAllocated(f, e)
    PROVE  \A g \in Field : InOrder(g, elements'[g], current_size'[g])
  <1> DEFINE s == elements[f]
             c == current_size[f]
             a == Inserted(f, e)
             n == c + 1
  <1>1. /\ s \in Seq(Element) /\ Len(s) \in Nat
        /\ c \in Nat /\ c <= Len(s)
    BY InvMeans
  <1>2. /\ e \in held /\ Array(f, a)
        /\ n \in Nat /\ current_size' = [current_size EXCEPT ![f] = n]
    BY <1>1 DEF AddAllocated, Grow
  <1>3. \A i \in 1 .. n : IF i <= c THEN a[i] = s[i] ELSE a[i] = e
    <2>1. CASE c = Len(s)
      <3>1. a = Append(s, e)
        BY <2>1 DEF Inserted, allocated_size
      <3>2. QED BY <1>1, <2>1, <3>1, AppendProperties
    <2>2. CASE c # Len(s)
      <3> DEFINE b == [s EXCEPT ![n] = e]
      <3>1. n \in 1 .. Len(s)
        BY <1>1, <2>2
      <3>2. /\ b \in Seq(Element) /\ Len(b) = Len(s)
            /\ \A i \in 1 .. Len(s) : b[i] = IF i = n THEN e ELSE s[i]
        BY <1>1, <3>1, ExceptSeq
      <3>3. s[n] \in Element
        BY <1>1, <3>1, ElementOfSeq
      <3>4. a = b \/ a = Append(b, s[n])
        BY <2>2 DEF Inserted, allocated_size
      <3> HIDE DEF b, a, s
      <3>5. \A i \in 1 .. n : a[i] = b[i]
        BY <1>1, <3>1, <3>2, <3>3, <3>4, AppendProperties
      <3>6. QED BY <1>1, <3>1, <3>2, <3>5
    <2>3. QED BY <2>1, <2>2
  <1>4. e \notin ObjectsAt(f, Elements(f))
    BY <1>2, Others
  <1> HIDE DEF a, n
  <1>5. InOrder(f, a, n)
    BY <1>1, <1>2, <1>3, <1>4, PrefixInOrder
  <1>6. QED BY <1>2, <1>5, OneArrayInOrder

LEMMA ReleaseInOrder ==
    ASSUME RepeatedInv, NEW f \in Field, ReleaseLast(f) \/ ReleaseCleared(f) \/ Destroy(f)
    PROVE  \A g \in Field : InOrder(g, elements'[g], current_size'[g])
  <1> DEFINE s == elements[f]
             c == current_size[f]
  <1>1. /\ s \in Seq(Element) /\ Len(s) \in Nat /\ Differ(s)
        /\ c \in Nat /\ c <= Len(s)
        /\ current_size \in [Field -> Nat]
    BY InvMeans DEF RepeatedTypeOK
  <1>2. CASE ReleaseLast(f)
    <2> DEFINE a == SubSeq([s EXCEPT ![c] = s[Len(s)]], 1, Len(s) - 1)
    <2>1. /\ c > 0 /\ Array(f, a)
          /\ current_size' = [current_size EXCEPT ![f] = c - 1]
      BY <1>2 DEF ReleaseLast, Shrink, allocated_size
    <2>2. c \in 1 .. Len(s) /\ c - 1 \in Nat
      BY <1>1, <2>1
    <2>3. \A i \in 1 .. Len(s) - 1 : a[i] = IF i = c THEN s[Len(s)] ELSE s[i]
      <3>1. a = LastMoved(s, c)
        BY DEF LastMoved
      <3> HIDE DEF s, c, a
      <3>2. s \in Seq(Element) /\ Differ(s) /\ c \in 1 .. Len(s)
        BY <1>1, <2>2
      <3>3. LeftOf(Element, s, c, a)
        BY <3>1, <3>2, ReleaseHolds
      <3>4. QED BY <3>3 DEF LeftOf
    <2> HIDE DEF a
    <2>4. InOrder(f, a, c - 1)
      BY <1>1, <2>2, <2>3, PrefixInOrder
    <2>5. QED BY <2>1, <2>2, <2>4, OneArrayInOrder
  <1>3. CASE ReleaseCleared(f)
    <2> DEFINE a == SubSeq(s, 1, Len(s) - 1)
    <2>1. Len(s) > c /\ Array(f, a) /\ current_size' = [current_size EXCEPT ![f] = c]
      BY <1>1, <1>3 DEF ReleaseCleared, allocated_size
    <2>2. \A i \in 1 .. Len(s) - 1 : a[i] = s[i]
      BY <1>1, <2>1, FrontHolds
    <2> HIDE DEF a
    <2>3. InOrder(f, a, c)
      BY <1>1, <2>1, <2>2, PrefixInOrder
    <2>4. QED BY <1>1, <2>1, <2>3, OneArrayInOrder
  <1>4. CASE Destroy(f)
    <2>1. Array(f, <<>>) /\ current_size' = [current_size EXCEPT ![f] = 0]
      BY <1>4 DEF Destroy
    <2>2. InOrder(f, <<>>, 0)
      BY DEF InOrder
    <2>3. QED BY <2>1, <2>2, OneArrayInOrder
  <1>5. QED BY <1>2, <1>3, <1>4

\* What is behind the gap slides down, elements and kept objects alike.
LEMMA RangeInOrder ==
    ASSUME RepeatedInv, NEW f \in Field, NEW start \in Elements(f), NEW num \in Elements(f),
           ExtractSubrange(f, start, num) \/ DeleteSubrange(f, start, num)
    PROVE  \A g \in Field : InOrder(g, elements'[g], current_size'[g])
  <1> DEFINE s == elements[f]
             c == current_size[f]
             a == CloseGap(f, start, num)
             n == c - num
             from(i) == IF i < start THEN i ELSE i + num
  <1>1. /\ RepeatedTypeOK /\ Differ(s) /\ Len(s) \in Nat
        /\ c \in Nat /\ c <= Len(s)
    BY InvMeans
  <1>2. /\ start \in 1 .. c /\ num \in 1 .. c + 1 - start
        /\ Array(f, a) /\ current_size' = [current_size EXCEPT ![f] = n]
    BY <1>1 DEF ExtractSubrange, DeleteSubrange, RemoveRange, Elements, Shrink
  <1>3. start \in 1 .. Len(s) /\ num \in 1 .. Len(s) + 1 - start
    BY <1>1, <1>2
  <1>4. Len(a) = Len(s) - num /\ \A i \in 1 .. Len(a) : a[i] = s[from(i)]
    BY <1>1, <1>3, GapHolds
  <1> HIDE DEF a, s
  <1>5. n \in Nat /\ n <= Len(a)
    <2>1. num \in Nat /\ num <= c
      BY <1>1, <1>2
    <2>2. QED BY <1>1, <1>4, <2>1
  <1>6. ASSUME NEW i \in 1 .. n
        PROVE  a[i] = s[from(i)] /\ from(i) \in 1 .. c
    <2>1. /\ start \in Nat /\ num \in Nat /\ start >= 1 /\ start <= c /\ num >= 1
          /\ c \in Nat /\ n = c - num
      BY <1>1, <1>2
    <2>2. from(i) \in 1 .. c
      BY <2>1, <1>6
    <2>3. i \in 1 .. Len(a)
      BY <1>1, <1>4, <1>5, <1>6
    <2>4. QED BY <1>4, <2>2, <2>3
  <1>7. \A i, j \in 1 .. n : i < j => from(i) < from(j)
    BY <1>2
  <1> HIDE DEF n, from
  <1>8. InOrder(f, a, n)
    BY <1>6, <1>7 DEF InOrder, Elements, s
  <1>9. QED BY <1>2, <1>5, <1>8, OneArrayInOrder

\* No call but the two that exchange elements changes their order, for any
\* number of fields, objects and calls.
THEOREM OrderSound == RepeatedSpec => OrderIsKept
  <1> DEFINE Exchanged == \/ \E f, g \in Field : Swap(f, g)
                          \/ \E f \in Field : \E i, j \in Elements(f) : SwapElements(f, i, j)
             Kept == \A f \in Field :
                        LET old == SubSeq(elements[f], 1, current_size[f])
                            new == SubSeq(elements'[f], 1, current_size'[f])
                        IN  \A i, j \in 1 .. current_size'[f] :
                               (i < j /\ new[j] \in ObjectsAt(f, Elements(f))) =>
                                  \E k, l \in Elements(f) :
                                     k < l /\ old[k] = new[i] /\ old[l] = new[j]
  <1>1. ASSUME RepeatedInv, RepeatedInv', [RepeatedNext]_rvars
        PROVE  Kept \/ Exchanged
    <2>1. ASSUME UNCHANGED <<elements, current_size>>
          PROVE  \A f \in Field : InOrder(f, elements'[f], current_size'[f])
      <3> SUFFICES ASSUME NEW f \in Field PROVE InOrder(f, elements[f], current_size[f])
        BY <2>1
      <3>1. current_size[f] \in Nat
        BY <1>1, InvMeans
      <3>2. QED BY <3>1, PrefixInOrder
    <2>2. ASSUME ~Exchanged
          PROVE  \A f \in Field : InOrder(f, elements'[f], current_size'[f])
      <3>1. ASSUME NEW e \in Element, Make(e) \/ Delete(e) \/ Fill(e)
            PROVE  UNCHANGED <<elements, current_size>>
        BY <3>1 DEF Make, Delete, Fill
      <3>2. CASE UNCHANGED rvars
        BY <2>1, <3>2 DEF rvars
      <3>3. ASSUME NEW f \in Field, FieldNext(f)
            PROVE  \A g \in Field : InOrder(g, elements'[g], current_size'[g])
        <4>1. CASE Add(f) \/ \E e \in Element : AddCleared(f, e)
          BY <1>1, <4>1, AddInOrder
        <4>2. CASE RemoveLast(f) \/ Clear(f) \/ \E n \in 1 .. Cardinality(Element) : Reserve(f, n)
          <5>1. 1 .. Cardinality(Element) \subseteq Nat
            BY RepeatedAssumption, FS_CardinalityType
          <5>2. QED BY <1>1, <4>2, <5>1, ResizeInOrder
        <4>3. CASE ReleaseLast(f) \/ ReleaseCleared(f) \/ Destroy(f)
          BY <1>1, <4>3, ReleaseInOrder
        <4>4. CASE \E e \in Element : AddAllocated(f, e)
          BY <1>1, <4>4, AddAllocatedInOrder
        <4>5. CASE \E g \in Field : MergeFrom(f, g) \/ CopyFrom(f, g)
          BY <1>1, <4>5, MergeInOrder
        <4>6. CASE \E i \in Elements(f), n \in Elements(f) :
                      ExtractSubrange(f, i, n) \/ DeleteSubrange(f, i, n)
          BY <1>1, <4>6, RangeInOrder
        <4>7. QED
          BY <2>2, <3>3, <4>1, <4>2, <4>3, <4>4, <4>5, <4>6 DEF FieldNext
      <3>4. QED BY <1>1, <2>1, <3>1, <3>2, <3>3 DEF RepeatedNext
    <2>3. ASSUME \A f \in Field : InOrder(f, elements'[f], current_size'[f])
          PROVE  Kept
      <3>1. ASSUME NEW s \in Seq(Element), NEW n \in Nat, n <= Len(s)
            PROVE  \A i \in 1 .. n : SubSeq(s, 1, n)[i] = s[i]
        BY <3>1, SubSeqProperties
      <3>2. ASSUME NEW f \in Field
            PROVE  /\ \A i \in Elements(f) : SubSeq(elements[f], 1, current_size[f])[i] = elements[f][i]
                   /\ \A i \in 1 .. current_size'[f] :
                         SubSeq(elements'[f], 1, current_size'[f])[i] = elements'[f][i]
        <4>1. /\ elements[f] \in Seq(Element) /\ current_size[f] \in Nat
              /\ current_size[f] <= Len(elements[f])
          BY <1>1, InvMeans
        <4>2. /\ elements'[f] \in Seq(Element) /\ current_size'[f] \in Nat
              /\ current_size'[f] <= Len(elements'[f])
          BY <1>1 DEF RepeatedInv, RepeatedTypeOK, allocated_size
        <4>3. QED BY <3>1, <4>1, <4>2 DEF Elements
      <3> TAKE f \in Field
      <3> DEFINE old == SubSeq(elements[f], 1, current_size[f])
                 new == SubSeq(elements'[f], 1, current_size'[f])
      <3>3. SUFFICES ASSUME NEW i \in 1 .. current_size'[f], NEW j \in 1 .. current_size'[f],
                            i < j, new[j] \in ObjectsAt(f, Elements(f))
                     PROVE  \E k, l \in Elements(f) : k < l /\ old[k] = new[i] /\ old[l] = new[j]
        BY Zenon
      <3>4. elements'[f][j] \in ObjectsAt(f, Elements(f))
        BY <3>2, <3>3
      <3>5. PICK k, l \in Elements(f) :
               k < l /\ elements[f][k] = elements'[f][i] /\ elements[f][l] = elements'[f][j]
        BY <2>3, <3>3, <3>4 DEF InOrder
      <3>6. QED BY <3>2, <3>5
    <2>4. QED BY <2>2, <2>3
  <1>2. QED
    BY <1>1, RepeatedInitInv, RepeatedInductive, PTL DEF RepeatedSpec, OrderIsKept
==============================================================================
