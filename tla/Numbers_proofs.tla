--------------------------- MODULE Numbers_proofs ---------------------------
(***************************************************************************)
(* Numbers survive the wire, whatever they are and however wide the words: *)
(* induction over the digits of a number.  A list of them stays inside its *)
(* array and is what its calls, and the messages read into it, make it.    *)
(***************************************************************************)
EXTENDS Primitives, NumberLists, WellFoundedInduction, SequenceTheorems, FiniteSetTheorems,
        TLAPS

-----------------------------------------------------------------------------
(* Induction and recursion over the naturals, as facts about sets *)

Less == {p \in Nat \X Nat : p[1] < p[2]}

LEMMA LessWF == IsWellFoundedOn(Less, Nat)
  <1>1. Less = OpToRel(<, Nat)
    BY DEF Less, OpToRel
  <1>2. QED
    BY <1>1, NatLessThanWellFounded

(* Naturals, if there are any, have a least one among them. *)
LEMMA Least ==
  ASSUME NEW T \in SUBSET Nat, T # {}
  PROVE  \E x \in T : \A y \in T : x <= y
  <1>1. \E x \in T : \A y \in T : ~ (<<y, x>> \in Less)
    BY LessWF, WFMin, Zenon
  <1>2. PICK x \in T : \A y \in T : ~ (<<y, x>> \in Less)
    BY <1>1
  <1>3. ASSUME NEW y \in T PROVE x <= y
    <2>1. x \in Nat /\ y \in Nat /\ ~ (<<y, x>> \in Less)
      BY <1>2
    <2>2. ~ (y < x)
      BY <2>1 DEF Less
    <2>3. QED
      BY <2>1, <2>2
  <1>4. QED
    BY <1>3

(* A set that holds 0 and the successor of each natural in it holds all. *)
LEMMA SetInduction ==
  ASSUME NEW S, 0 \in S, \A n \in Nat : n \in S => n + 1 \in S
  PROVE  Nat \subseteq S
  <1>1. SUFFICES ASSUME Nat \ S # {} PROVE FALSE
    OBVIOUS
  <1>2. PICK x \in Nat \ S : \A y \in Nat \ S : x <= y
    BY <1>1, Least
  <1>3. x # 0 /\ x - 1 \in Nat /\ ~ (x <= x - 1)
    BY <1>2
  <1>4. x - 1 \in S
    BY <1>2, <1>3
  <1>5. (x - 1) + 1 \in S
    BY <1>3, <1>4
  <1>6. QED
    BY <1>2, <1>5

(* A function is defined by its value at 0 and a step from each value to the *)
(* next: the functions defined so far agree, and the next value extends them. *)
Iterates(T, b, step) ==
  \E g \in [Nat -> T] : g[0] = b /\ \A n \in Nat : g[n + 1] = step[g[n]]

LEMMA Recursion ==
  ASSUME NEW T, NEW b \in T, NEW step \in [T -> T]
  PROVE  Iterates(T, b, step)
  <1> DEFINE Upto(n) == {g \in [0 .. n -> T] :
                            g[0] = b /\ \A i \in 0 .. n - 1 : g[i + 1] = step[g[i]]}
             Some == {n \in Nat : Upto(n) # {}}
             Agree == {n \in Nat : \A p, q \in Nat : n <= p /\ n <= q =>
                         \A g \in Upto(p), h \in Upto(q) : g[n] = h[n]}
             Longest(n) == CHOOSE g : g \in Upto(n)
             whole == [n \in Nat |-> Longest(n)[n]]
  <1>1. Nat \subseteq Some
    <2>1. 0 \in Some
      <3>1. [i \in 0 .. 0 |-> b] \in Upto(0)
        OBVIOUS
      <3>2. QED
        BY <3>1
    <2>2. ASSUME NEW n \in Nat, n \in Some PROVE n + 1 \in Some
      <3>1. PICK g \in [0 .. n -> T] :
               g[0] = b /\ \A i \in 0 .. n - 1 : g[i + 1] = step[g[i]]
        BY <2>2
      <3> DEFINE h == [i \in 0 .. n + 1 |-> IF i <= n THEN g[i] ELSE step[g[n]]]
      <3>2. h \in [0 .. n + 1 -> T]
        BY <3>1
      <3>3. h[0] = b
        BY <3>1
      <3>4. ASSUME NEW i \in 0 .. (n + 1) - 1 PROVE h[i + 1] = step[h[i]]
        <4>1. CASE i = n
          BY <3>1, <4>1
        <4>2. CASE i # n
          <5>1. i \in 0 .. n - 1 /\ i <= n /\ i + 1 <= n /\ i + 1 \in 0 .. n + 1 /\ i \in 0 .. n + 1
            BY <4>2
          <5>2. h[i + 1] = g[i + 1] /\ h[i] = g[i]
            BY <5>1
          <5>3. QED
            BY <3>1, <5>1, <5>2
        <4>3. QED
          BY <4>1, <4>2
      <3>5. h \in Upto(n + 1)
        BY <3>2, <3>3, <3>4
      <3>6. QED
        BY <3>5
    <2>3. QED
      <3> HIDE DEF Some
      <3>1. QED
        BY <2>1, <2>2, SetInduction, Zenon
  <1>2. Nat \subseteq Agree
    <2>1. 0 \in Agree
      OBVIOUS
    <2>2. ASSUME NEW n \in Nat, n \in Agree PROVE n + 1 \in Agree
      <3>1. SUFFICES ASSUME NEW p \in Nat, NEW q \in Nat, n + 1 <= p, n + 1 <= q,
                            NEW g \in Upto(p), NEW h \in Upto(q)
                     PROVE  g[n + 1] = h[n + 1]
        OBVIOUS
      <3>2. g[n] = h[n]
        <4>1. n <= p /\ n <= q
          BY <3>1
        <4> HIDE DEF Upto
        <4>2. QED
          BY <2>2, <3>1, <4>1
      <3>3. g[n + 1] = step[g[n]] /\ h[n + 1] = step[h[n]]
        BY <3>1
      <3>4. QED
        BY <3>2, <3>3
    <2>3. QED
      <3> HIDE DEF Agree
      <3>1. QED
        BY <2>1, <2>2, SetInduction, Zenon
  <1>3. ASSUME NEW n \in Nat PROVE Longest(n) \in Upto(n)
    <2> HIDE DEF Upto
    <2>1. \E g : g \in Upto(n)
      BY <1>1
    <2>2. QED
      BY <2>1, Zenon
  <1>4. whole \in [Nat -> T]
    <2> HIDE DEF Longest
    <2>1. ASSUME NEW n \in Nat PROVE Longest(n)[n] \in T
      BY <1>3
    <2>2. QED
      BY <2>1
  <1>5. whole[0] = b
    <2> HIDE DEF Longest
    <2>1. QED
      BY <1>3
  <1>6. ASSUME NEW n \in Nat PROVE whole[n + 1] = step[whole[n]]
    <2>1. Longest(n + 1) \in Upto(n + 1) /\ Longest(n) \in Upto(n)
      <3> HIDE DEF Longest, Upto
      <3>1. QED
        BY <1>3
    <2>2. Longest(n + 1)[n] = Longest(n)[n]
      <3> HIDE DEF Longest, Upto
      <3>1. n \in Agree
        <4> HIDE DEF Agree
        <4>1. QED
          BY <1>2
      <3>2. n <= n + 1 /\ n <= n /\ n + 1 \in Nat
        OBVIOUS
      <3>3. QED
        BY <2>1, <3>1, <3>2
    <2>3. Longest(n + 1)[n + 1] = step[Longest(n + 1)[n]]
      <3> HIDE DEF Longest
      <3>1. n \in 0 .. (n + 1) - 1
        OBVIOUS
      <3>2. QED
        BY <2>1, <3>1
    <2> HIDE DEF Longest
    <2>4. QED
      BY <2>2, <2>3
  <1> HIDE DEF whole
  <1>7. QED
    BY <1>4, <1>5, <1>6 DEF Iterates

-----------------------------------------------------------------------------
(* Powers of two, quotients and remainders *)

LEMMA TwoToIs ==
  /\ TwoTo \in [Nat -> Nat]
  /\ TwoTo[0] = 1
  /\ \A n \in Nat : TwoTo[n + 1] = 2 * TwoTo[n]
  <1> DEFINE twice == [x \in Nat |-> 2 * x]
             Doubles(g) == g = [n \in Nat |-> IF n >= 7 THEN 128 * g[n - 7]
                                              ELSE IF n > 0 THEN 2 * g[n - 1] ELSE 1]
  <1>1. \E g \in [Nat -> Nat] : g[0] = 1 /\ \A n \in Nat : g[n + 1] = twice[g[n]]
    <2>1. twice \in [Nat -> Nat]
      OBVIOUS
    <2>2. 1 \in Nat
      OBVIOUS
    <2> HIDE DEF twice
    <2>3. Iterates(Nat, 1, twice)
      BY <2>1, <2>2, Recursion
    <2>4. QED
      BY <2>3 DEF Iterates
  <1>2. ASSUME NEW g \in [Nat -> Nat], g[0] = 1, \A n \in Nat : g[n + 1] = twice[g[n]]
        PROVE  Doubles(g)
    <2>1. ASSUME NEW n \in Nat PROVE g[n + 1] = 2 * g[n]
      BY <1>2
    <2>2. ASSUME NEW n \in Nat, n > 0 PROVE g[n] = 2 * g[n - 1]
      <3>1. n - 1 \in Nat /\ (n - 1) + 1 = n
        BY <2>2
      <3>2. g[(n - 1) + 1] = 2 * g[n - 1]
        BY <2>1, <3>1
      <3>3. QED
        BY <3>1, <3>2
    <2>3. ASSUME NEW n \in Nat, n >= 7 PROVE g[n] = 128 * g[n - 7]
      <3>1. PICK m \in Nat : n = m + 7
        <4>1. n - 7 \in Nat /\ n = (n - 7) + 7
          BY <2>3
        <4>2. QED
          BY <4>1
      <3>2. g[m + 1] = 2 * g[m] /\ g[m + 2] = 2 * g[m + 1] /\ g[m + 3] = 2 * g[m + 2]
        BY <2>1, (m + 1) + 1 = m + 2, (m + 2) + 1 = m + 3
      <3>3. g[m + 4] = 2 * g[m + 3] /\ g[m + 5] = 2 * g[m + 4]
        BY <2>1, (m + 3) + 1 = m + 4, (m + 4) + 1 = m + 5
      <3>4. g[m + 6] = 2 * g[m + 5] /\ g[m + 7] = 2 * g[m + 6]
        BY <2>1, (m + 5) + 1 = m + 6, (m + 6) + 1 = m + 7
      <3>5. g[m] \in Nat /\ n - 7 = m
        BY <1>2, <3>1
      <3>6. QED
        BY <3>1, <3>2, <3>3, <3>4, <3>5
    <2>4. \A n \in Nat : g[n] = IF n >= 7 THEN 128 * g[n - 7]
                                ELSE IF n > 0 THEN 2 * g[n - 1] ELSE 1
      BY <1>2, <2>2, <2>3
    <2>5. QED
      BY <1>2, <2>4
  <1>3. \E g : Doubles(g)
    <2> HIDE DEF Doubles, twice
    <2>1. QED
      BY <1>1, <1>2
  <1>4. Doubles(TwoTo)
    BY <1>3, Zenon DEF TwoTo
  <1>5. TwoTo[0] = 1
    BY <1>4
  <1>6. ASSUME NEW n \in Nat, n < 6 PROVE TwoTo[n + 1] = 2 * TwoTo[n]
    <2>1. n + 1 \in Nat /\ n + 1 > 0 /\ ~ (n + 1 >= 7) /\ (n + 1) - 1 = n
      BY <1>6
    <2>2. QED
      BY <1>4, <2>1
  <1>7. ASSUME NEW n \in Nat PROVE TwoTo[n + 7] = 128 * TwoTo[n]
    <2>1. n + 7 \in Nat /\ n + 7 >= 7 /\ (n + 7) - 7 = n
      OBVIOUS
    <2>2. QED
      BY <1>4, <2>1
  <1> HIDE DEF Doubles
  <1>8. /\ TwoTo[1] = 2 /\ TwoTo[2] = 4 /\ TwoTo[3] = 8 /\ TwoTo[4] = 16
        /\ TwoTo[5] = 32 /\ TwoTo[6] = 64 /\ TwoTo[7] = 128
    <2>1. TwoTo[1] = 2 /\ TwoTo[2] = 4 /\ TwoTo[3] = 8
      BY <1>5, <1>6, 1 = 0 + 1, 2 = 1 + 1, 3 = 2 + 1
    <2>2. TwoTo[4] = 16 /\ TwoTo[5] = 32 /\ TwoTo[6] = 64
      BY <1>6, <2>1, 4 = 3 + 1, 5 = 4 + 1, 6 = 5 + 1
    <2>3. TwoTo[7] = 128
      BY <1>5, <1>7, 7 = 0 + 7
    <2>4. QED
      BY <2>1, <2>2, <2>3
  <1> DEFINE S == {n \in Nat : \A m \in 0 .. n :
                     TwoTo[m] \in Nat /\ TwoTo[m + 1] = 2 * TwoTo[m]}
  <1>9. Nat \subseteq S
    <2>1. 0 \in S
      BY <1>5, <1>8, 1 = 0 + 1
    <2>2. ASSUME NEW n \in Nat, n \in S PROVE n + 1 \in S
      <3>1. TwoTo[n + 1] \in Nat
        <4>1. TwoTo[n] \in Nat /\ TwoTo[n + 1] = 2 * TwoTo[n]
          BY <2>2
        <4>2. QED
          BY <4>1
      <3>2. TwoTo[(n + 1) + 1] = 2 * TwoTo[n + 1]
        <4>1. CASE n + 1 < 6
          BY <1>6, <4>1
        <4>2. CASE n + 1 = 6
          BY <1>8, <4>2
        <4>3. CASE n + 1 >= 7
          <5>1. PICK m \in Nat : n = m + 6
            <6>1. n - 6 \in Nat /\ n = (n - 6) + 6
              BY <4>3
            <6>2. QED
              BY <6>1
          <5>2. TwoTo[m + 7] = 128 * TwoTo[m] /\ TwoTo[(m + 1) + 7] = 128 * TwoTo[m + 1]
            BY <1>7
          <5>3. TwoTo[m] \in Nat /\ TwoTo[m + 1] = 2 * TwoTo[m]
            <6>1. m \in 0 .. n
              BY <5>1
            <6>2. QED
              BY <2>2, <6>1
          <5>4. m + 7 = n + 1 /\ (m + 1) + 7 = (n + 1) + 1
            BY <5>1
          <5>5. QED
            BY <5>2, <5>3, <5>4
        <4>4. QED
          BY <4>1, <4>2, <4>3
      <3>3. QED
        BY <2>2, <3>1, <3>2
    <2> HIDE DEF S
    <2>3. QED
      BY <2>1, <2>2, SetInduction, Zenon
  <1>10. \A n \in Nat : TwoTo[n] \in Nat /\ TwoTo[n + 1] = 2 * TwoTo[n]
    BY <1>9
  <1>11. TwoTo = [n \in Nat |-> TwoTo[n]]
    BY <1>4 DEF Doubles
  <1>12. TwoTo \in [Nat -> Nat]
    BY <1>10, <1>11
  <1>13. QED
    BY <1>5, <1>10, <1>12

LEMMA TwoToPositive == \A n \in Nat : TwoTo[n] \in Nat \ {0}
  <1> DEFINE S == {n \in Nat : TwoTo[n] # 0}
  <1>1. 0 \in S
    BY TwoToIs
  <1>2. ASSUME NEW n \in Nat, n \in S PROVE n + 1 \in S
    BY <1>2, TwoToIs
  <1>3. Nat \subseteq S
    <2> HIDE DEF S
    <2>1. QED
      BY <1>1, <1>2, SetInduction, Zenon
  <1>4. QED
    BY <1>3, TwoToIs

LEMMA TwoToSum == \A a, b \in Nat : TwoTo[a + b] = TwoTo[a] * TwoTo[b]
  <1>1. SUFFICES ASSUME NEW a \in Nat
                 PROVE  \A b \in Nat : TwoTo[a + b] = TwoTo[a] * TwoTo[b]
    OBVIOUS
  <1> DEFINE S == {b \in Nat : TwoTo[a + b] = TwoTo[a] * TwoTo[b]}
  <1>2. 0 \in S
    <2>1. a + 0 = a /\ TwoTo[0] = 1 /\ TwoTo[a] \in Nat
      BY TwoToIs
    <2>2. QED
      BY <2>1
  <1>3. ASSUME NEW b \in Nat, b \in S PROVE b + 1 \in S
    <2>1. a + (b + 1) = (a + b) + 1 /\ a + b \in Nat
      OBVIOUS
    <2>2. TwoTo[(a + b) + 1] = 2 * TwoTo[a + b] /\ TwoTo[b + 1] = 2 * TwoTo[b]
      BY <2>1, TwoToIs
    <2>3. 2 * (TwoTo[a] * TwoTo[b]) = TwoTo[a] * (2 * TwoTo[b])
      <3>1. TwoTo[a] \in Nat /\ TwoTo[b] \in Nat
        BY TwoToIs
      <3>2. QED
        BY <3>1
    <2>4. QED
      BY <1>3, <2>1, <2>2, <2>3
  <1>4. Nat \subseteq S
    <2> HIDE DEF S
    <2>1. QED
      BY <1>2, <1>3, SetInduction, Zenon
  <1>5. QED
    BY <1>4

LEMMA TwoToGrows == \A a, b \in Nat : a <= b => TwoTo[a] <= TwoTo[b]
  <1>1. SUFFICES ASSUME NEW a \in Nat, NEW b \in Nat, a <= b
                 PROVE  TwoTo[a] <= TwoTo[b]
    OBVIOUS
  <1>2. b - a \in Nat /\ b = a + (b - a)
    BY <1>1
  <1>3. TwoTo[b] = TwoTo[a] * TwoTo[b - a]
    BY <1>2, TwoToSum
  <1>4. TwoTo[a] \in Nat /\ TwoTo[b - a] \in Nat /\ TwoTo[b - a] >= 1
    BY <1>2, TwoToPositive
  <1>5. ASSUME NEW x \in Nat, NEW y \in Nat, y >= 1 PROVE x <= x * y
    BY <1>5
  <1>6. QED
    BY <1>3, <1>4, <1>5

LEMMA TwoToSmall == TwoTo[1] = 2 /\ TwoTo[7] = 128 /\ TwoTo[8] = 256
  <1>1. TwoTo[1] = 2 /\ TwoTo[2] = 4
    BY TwoToIs, 1 = 0 + 1, 2 = 1 + 1
  <1>2. TwoTo[4] = 16 /\ TwoTo[6] = 64
    <2>1. TwoTo[2 + 2] = TwoTo[2] * TwoTo[2] /\ TwoTo[2 + 2] = TwoTo[4]
      BY TwoToSum
    <2>2. TwoTo[4 + 2] = TwoTo[4] * TwoTo[2] /\ TwoTo[4 + 2] = TwoTo[6]
      BY TwoToSum
    <2>3. QED
      BY <1>1, <2>1, <2>2
  <1>3. TwoTo[7] = 128 /\ TwoTo[8] = 256
    <2>1. TwoTo[6 + 1] = TwoTo[6] * TwoTo[1] /\ TwoTo[6 + 1] = TwoTo[7]
      BY TwoToSum
    <2>2. TwoTo[4 + 4] = TwoTo[4] * TwoTo[4] /\ TwoTo[4 + 4] = TwoTo[8]
      BY TwoToSum
    <2>3. QED
      BY <1>1, <1>2, <2>1, <2>2
  <1>4. QED
    BY <1>1, <1>3

LEMMA DivMod ==
  ASSUME NEW n \in Int, NEW m \in Nat \ {0}
  PROVE  /\ n = m * (n \div m) + (n % m)
         /\ n % m \in 0 .. m - 1
         /\ n \div m \in Int
  OBVIOUS

LEMMA Multiple ==
  ASSUME NEW m \in Nat \ {0}, NEW d \in Int
  PROVE  (d >= 1 => m * d >= m) /\ (d <= -1 => m * d <= -m) /\ (d >= 0 => m * d >= 0)
  OBVIOUS

(* A quotient and a remainder in range are the quotient and the remainder. *)
LEMMA DivModIs ==
  ASSUME NEW m \in Nat \ {0}, NEW q \in Int, NEW r \in 0 .. m - 1
  PROVE  (m * q + r) \div m = q /\ (m * q + r) % m = r
  <1>1. m * q + r \in Int
    OBVIOUS
  <1> DEFINE p == (m * q + r) \div m
             s == (m * q + r) % m
  <1>2. m * q + r = m * p + s /\ s \in 0 .. m - 1 /\ p \in Int
    BY <1>1, DivMod
  <1> HIDE DEF p, s
  <1>3. m * (q - p) = s - r /\ q - p \in Int
    BY <1>2
  <1>4. ~ (q - p >= 1) /\ ~ (q - p <= -1)
    BY <1>2, <1>3, Multiple
  <1>5. q = p
    BY <1>2, <1>3, <1>4
  <1>6. s = r
    BY <1>2, <1>5
  <1>7. QED
    BY <1>5, <1>6 DEF p, s

LEMMA NatDiv ==
  ASSUME NEW n \in Nat, NEW m \in Nat \ {0}
  PROVE  n \div m \in Nat
  <1>1. n = m * (n \div m) + (n % m) /\ n % m \in 0 .. m - 1 /\ n \div m \in Int
    BY DivMod
  <1>2. ASSUME NEW q \in Int, NEW r \in 0 .. m - 1, n = m * q + r PROVE q \in Nat
    BY <1>2, Multiple
  <1>3. QED
    BY <1>1, <1>2

(* Divided by a product: divided by one factor after the other. *)
LEMMA DivModProduct ==
  ASSUME NEW n \in Nat, NEW a \in Nat \ {0}, NEW b \in Nat \ {0}
  PROVE  /\ n \div (a * b) = (n \div a) \div b
         /\ n % (a * b) = (n % a) + a * ((n \div a) % b)
  <1> DEFINE q == n \div a
             r == n % a
             p == q \div b
             s == q % b
  <1>1. n = a * q + r /\ r \in 0 .. a - 1 /\ q \in Int
    BY DivMod
  <1>2. q = b * p + s /\ s \in 0 .. b - 1 /\ p \in Int
    <2> HIDE DEF q
    <2>1. QED
      BY <1>1, DivMod
  <1> HIDE DEF q, r, p, s
  <1>3. n = (a * b) * p + (r + a * s)
    <2>1. a * q = a * (b * p) + a * s /\ a * (b * p) = (a * b) * p
      BY <1>1, <1>2
    <2>2. QED
      BY <1>1, <1>2, <2>1
  <1>4. r + a * s \in 0 .. (a * b) - 1
    <2>1. a * s >= 0 /\ a * ((b - 1) - s) >= 0
      BY <1>2, Multiple
    <2>2. a * ((b - 1) - s) = a * b - a - a * s
      BY <1>2
    <2>3. a * s \in Int /\ a * b \in Int
      BY <1>2
    <2>4. QED
      BY <1>1, <2>1, <2>2, <2>3
  <1>5. a * b \in Nat \ {0}
    OBVIOUS
  <1>6. n \div (a * b) = p /\ n % (a * b) = r + a * s
    BY <1>2, <1>3, <1>4, <1>5, DivModIs
  <1>7. QED
    BY <1>6 DEF q, r, p, s

(* A number in range is its own remainder. *)
LEMMA SmallMod ==
  ASSUME NEW n \in Nat, NEW m \in Nat \ {0}, n < m
  PROVE  n % m = n
  <1>1. n = m * 0 + n /\ n \in 0 .. m - 1
    OBVIOUS
  <1>2. QED
    BY <1>1, DivModIs

LEMMA NegativeMod ==
  ASSUME NEW n \in Int, NEW m \in Nat \ {0}, -m <= n, n < 0
  PROVE  n % m = n + m
  <1>1. n = m * (-1) + (n + m) /\ n + m \in 0 .. m - 1
    OBVIOUS
  <1>2. QED
    BY <1>1, DivModIs

-----------------------------------------------------------------------------
(* Digits *)

LEMMA DigitIs ==
  ASSUME NEW n \in Nat, NEW bits \in Nat, NEW i \in Nat \ {0}
  PROVE  /\ bits * (i - 1) \in Nat
         /\ n \div TwoTo[bits * (i - 1)] \in Nat
         /\ Digit(n, bits, i) \in 0 .. TwoTo[bits] - 1
  <1>1. bits * (i - 1) \in Nat
    <2>1. i - 1 \in Nat
      OBVIOUS
    <2>2. ASSUME NEW j \in Nat PROVE bits * j \in Nat
      OBVIOUS
    <2>3. QED
      BY <2>1, <2>2
  <1>2. n \div TwoTo[bits * (i - 1)] \in Nat
    BY <1>1, TwoToPositive, NatDiv
  <1>3. ASSUME NEW m \in Nat PROVE m % TwoTo[bits] \in 0 .. TwoTo[bits] - 1
    <2>1. TwoTo[bits] \in Nat \ {0} /\ m \in Int
      BY TwoToPositive
    <2>2. QED
      BY <2>1, DivMod
  <1>4. QED
    BY <1>1, <1>2, <1>3 DEF Digit

(* The lowest k digits of a number make up the number modulo a power of the *)
(* base: what Number computes is, after j steps, made of j of the digits.    *)
LEMMA DigitsMakeNumber ==
  ASSUME NEW n \in Nat, NEW bits \in Nat, NEW k \in Nat
  PROVE  Number([i \in 1 .. k |-> Digit(n, bits, i)], bits) = n % TwoTo[bits * k]
  <1> DEFINE digits == [i \in 1 .. k |-> Digit(n, bits, i)]
             rest(j) == n \div TwoTo[bits * (k - j)]
             upto == [j \in 0 .. k |-> rest(j) % TwoTo[bits * j]]
             Sums(g) == g = [j \in 0 .. Len(digits) |->
                               IF j = 0 THEN 0
                               ELSE digits[Len(digits) + 1 - j] + TwoTo[bits] * g[j - 1]]
  <1>1. Len(digits) = k
    OBVIOUS
  <1>2. \A j \in Nat : bits * j \in Nat
    OBVIOUS
  <1>3. \A j \in 0 .. k : rest(j) \in Nat
    <2>1. ASSUME NEW j \in 0 .. k PROVE rest(j) \in Nat
      <3>1. bits * (k - j) \in Nat
        BY <1>2
      <3>2. QED
        BY <3>1, TwoToPositive, NatDiv
    <2>2. QED
      BY <2>1
  <1>4. \A j \in 1 .. k : digits[k + 1 - j] = rest(j) % TwoTo[bits]
    <2>1. ASSUME NEW j \in 1 .. k PROVE digits[k + 1 - j] = rest(j) % TwoTo[bits]
      <3>1. k + 1 - j \in 1 .. k /\ (k + 1 - j) - 1 = k - j
        OBVIOUS
      <3>2. QED
        BY <3>1 DEF Digit
    <2>2. QED
      BY <2>1
  <1>5. \A j \in 1 .. k : rest(j - 1) = rest(j) \div TwoTo[bits]
    <2>1. ASSUME NEW j \in 1 .. k PROVE rest(j - 1) = rest(j) \div TwoTo[bits]
      <3>1. bits * (k - j) \in Nat
        BY <1>2
      <3>2. bits * (k - (j - 1)) = bits * (k - j) + bits
        OBVIOUS
      <3>3. TwoTo[bits * (k - (j - 1))] = TwoTo[bits * (k - j)] * TwoTo[bits]
        BY <3>1, <3>2, TwoToSum
      <3>4. TwoTo[bits * (k - j)] \in Nat \ {0} /\ TwoTo[bits] \in Nat \ {0}
        BY <3>1, TwoToPositive
      <3>5. n \div (TwoTo[bits * (k - j)] * TwoTo[bits])
              = (n \div TwoTo[bits * (k - j)]) \div TwoTo[bits]
        BY <3>4, DivModProduct
      <3>6. QED
        BY <3>3, <3>5
    <2>2. QED
      BY <2>1
  <1>6. upto[0] = 0
    <2> HIDE DEF rest
    <2>1. bits * 0 = 0 /\ TwoTo[0] = 1 /\ rest(0) \in Nat
      BY <1>3, TwoToIs
    <2>2. rest(0) % 1 = 0
      BY <2>1
    <2>3. QED
      BY <2>1, <2>2
  <1>7. \A j \in 1 .. k : upto[j] = digits[k + 1 - j] + TwoTo[bits] * upto[j - 1]
    <2>1. ASSUME NEW j \in 1 .. k
          PROVE  upto[j] = digits[k + 1 - j] + TwoTo[bits] * upto[j - 1]
      <3>1. j \in 0 .. k /\ j - 1 \in 0 .. k /\ bits * (j - 1) \in Nat /\ rest(j) \in Nat
        BY <1>2, <1>3
      <3>2. bits * j = bits + bits * (j - 1)
        OBVIOUS
      <3>3. TwoTo[bits * j] = TwoTo[bits] * TwoTo[bits * (j - 1)]
        BY <3>1, <3>2, TwoToSum
      <3> HIDE DEF rest
      <3>4. rest(j) % TwoTo[bits * j]
              = (rest(j) % TwoTo[bits])
                  + TwoTo[bits] * ((rest(j) \div TwoTo[bits]) % TwoTo[bits * (j - 1)])
        <4>1. TwoTo[bits] \in Nat \ {0} /\ TwoTo[bits * (j - 1)] \in Nat \ {0}
          BY <3>1, TwoToPositive
        <4>2. rest(j) % (TwoTo[bits] * TwoTo[bits * (j - 1)])
                = (rest(j) % TwoTo[bits])
                    + TwoTo[bits] * ((rest(j) \div TwoTo[bits]) % TwoTo[bits * (j - 1)])
          BY <3>1, <4>1, DivModProduct
        <4>3. QED
          BY <3>3, <4>2
      <3>5. upto[j] = rest(j) % TwoTo[bits * j]
        BY <3>1
      <3>6. upto[j - 1] = (rest(j) \div TwoTo[bits]) % TwoTo[bits * (j - 1)]
        BY <3>1, <1>5
      <3> HIDE DEF upto, digits
      <3>7. QED
        BY <3>4, <3>5, <3>6, <1>4
    <2>2. QED
      BY <2>1
  <1>8. Sums(upto)
    <2> DEFINE sum(j) == IF j = 0 THEN 0
                         ELSE digits[Len(digits) + 1 - j] + TwoTo[bits] * upto[j - 1]
    <2>1. \A j \in 0 .. k : upto[j] = sum(j)
      <3> HIDE DEF upto, digits
      <3>1. QED
        BY <1>1, <1>6, <1>7
    <2>2. upto = [j \in 0 .. k |-> upto[j]]
      OBVIOUS
    <2> HIDE DEF upto, digits
    <2>3. QED
      BY <1>1, <2>1, <2>2
  <1>9. ASSUME NEW g, Sums(g) PROVE g[k] = upto[k]
    <2>1. g[0] = 0 /\ \A j \in 1 .. k : g[j] = digits[k + 1 - j] + TwoTo[bits] * g[j - 1]
      <3> HIDE DEF digits, upto
      <3>1. QED
        BY <1>1, <1>9
    <2> DEFINE S == {j \in Nat : j <= k => g[j] = upto[j]}
    <2>2. 0 \in S
      BY <1>6, <2>1
    <2>3. ASSUME NEW j \in Nat, j \in S PROVE j + 1 \in S
      <3>1. SUFFICES ASSUME j + 1 <= k PROVE g[j + 1] = upto[j + 1]
        OBVIOUS
      <3>2. j + 1 \in 1 .. k /\ (j + 1) - 1 = j /\ g[j] = upto[j]
        BY <2>3, <3>1
      <3> HIDE DEF upto, digits
      <3>3. QED
        BY <1>7, <2>1, <3>2
    <2>4. Nat \subseteq S
      <3> HIDE DEF S
      <3>1. QED
        BY <2>2, <2>3, SetInduction, Zenon
    <2>5. k \in S /\ k <= k
      <3> HIDE DEF S
      <3>1. QED
        BY <2>4
    <2> HIDE DEF upto
    <2>6. QED
      BY <2>5
  <1>10. Number(digits, bits) = upto[k]
    <2> HIDE DEF digits, upto
    <2>1. \A g : Sums(g) => g[Len(digits)] = upto[k]
      <3> HIDE DEF Sums
      <3>1. QED
        BY <1>1, <1>9
    <2>2. QED
      BY <1>8, <2>1, Zenon DEF Number
  <1>11. k - k = 0 /\ bits * 0 = 0 /\ TwoTo[0] = 1
    BY TwoToIs
  <1>12. n \div 1 = n
    OBVIOUS
  <1>13. upto[k] = n % TwoTo[bits * k]
    BY <1>11, <1>12
  <1>14. QED
    BY <1>10, <1>13

-----------------------------------------------------------------------------
(* Varints *)

LEMMA Prefix ==
  ASSUME NEW T, NEW s \in Seq(T), NEW p \in 0 .. Len(s)
  PROVE  /\ SubSeq(s, 1, p) \in Seq(T)
         /\ Len(SubSeq(s, 1, p)) = p
         /\ \A i \in 1 .. p : SubSeq(s, 1, p)[i] = s[i]
         /\ p = Len(s) => SubSeq(s, 1, p) = s
  OBVIOUS

LEMMA BytesEnough ==
  /\ MaxVarintBytes \in Nat \ {0}
  /\ W64 <= 7 * MaxVarintBytes
  /\ 7 * (MaxVarintBytes - 1) < W64
  BY WireAssumption DEF MaxVarintBytes

(* A word has a size: the least number of bytes whose digits make it up. *)
LEMMA VarintSizeIs ==
  ASSUME NEW n \in Nat, n < TwoTo[W64]
  PROVE  /\ VarintSize(n) \in 1 .. MaxVarintBytes
         /\ n < TwoTo[7 * VarintSize(n)]
         /\ VarintSize(n) = 1 \/ TwoTo[7 * (VarintSize(n) - 1)] <= n
  <1> DEFINE T == {k \in Nat \ {0} : n < TwoTo[7 * k]}
             Size1(k) == n < TwoTo[7 * k] /\ (k = 1 \/ TwoTo[7 * (k - 1)] <= n)
  <1>1. MaxVarintBytes \in T
    <2>1. TwoTo[W64] <= TwoTo[7 * MaxVarintBytes]
      <3>1. W64 \in Nat /\ 7 * MaxVarintBytes \in Nat /\ W64 <= 7 * MaxVarintBytes
        BY BytesEnough, WireAssumption
      <3>2. QED
        BY <3>1, TwoToGrows
    <2>2. TwoTo[W64] \in Nat /\ TwoTo[7 * MaxVarintBytes] \in Nat /\ MaxVarintBytes \in Nat \ {0}
      BY BytesEnough, WireAssumption, TwoToPositive
    <2>3. QED
      BY <2>1, <2>2
  <1>2. PICK k \in T : \A j \in T : k <= j
    <2>1. T \in SUBSET Nat /\ T # {}
      BY <1>1
    <2> HIDE DEF T
    <2>2. QED
      BY <2>1, Least
  <1>3. k \in 1 .. MaxVarintBytes
    BY <1>1, <1>2
  <1>4. Size1(k)
    <2>1. CASE k = 1
      BY <1>2, <2>1
    <2>2. CASE k # 1
      <3>1. k - 1 \in Nat \ {0} /\ 7 * (k - 1) \in Nat /\ ~ (k <= k - 1)
        BY <1>3, <2>2
      <3>2. ~ (n < TwoTo[7 * (k - 1)])
        BY <1>2, <3>1
      <3>3. TwoTo[7 * (k - 1)] \in Nat
        BY <3>1, TwoToPositive
      <3>4. QED
        BY <1>2, <3>2, <3>3
    <2>3. QED
      BY <2>1, <2>2
  <1>5. \E j \in 1 .. MaxVarintBytes : Size1(j)
    BY <1>3, <1>4
  <1>6. VarintSize(n) = CHOOSE j \in 1 .. MaxVarintBytes : Size1(j)
    BY DEF VarintSize
  <1>7. VarintSize(n) \in 1 .. MaxVarintBytes /\ Size1(VarintSize(n))
    <2> HIDE DEF Size1
    <2>1. QED
      BY <1>5, <1>6
  <1>8. QED
    BY <1>7

LEMMA WriteVarintIs ==
  ASSUME NEW n \in Nat, n < TwoTo[W64]
  PROVE  /\ WriteVarint(n) \in Seq(Nat)
         /\ Len(WriteVarint(n)) = VarintSize(n)
         /\ \A i \in 1 .. VarintSize(n) :
               /\ WriteVarint(n)[i] % 128 = Digit(n, 7, i)
               /\ WriteVarint(n)[i] < 128 <=> i = VarintSize(n)
  <1> DEFINE size == VarintSize(n)
             byte(i) == Digit(n, 7, i) + IF i < size THEN 128 ELSE 0
  <1>1. size \in Nat
    BY VarintSizeIs
  <1>2. WriteVarint(n) = [i \in 1 .. size |-> byte(i)]
    BY DEF WriteVarint
  <1>3. ASSUME NEW i \in 1 .. size
        PROVE  /\ byte(i) \in Nat
               /\ byte(i) % 128 = Digit(n, 7, i)
               /\ byte(i) < 128 <=> i = size
    <2>1. i \in Nat \ {0} /\ 7 \in Nat
      BY <1>1
    <2>2. Digit(n, 7, i) \in 0 .. 127
      <3>1. Digit(n, 7, i) \in 0 .. TwoTo[7] - 1
        BY <2>1, DigitIs
      <3>2. QED
        BY <3>1, TwoToSmall
    <2> HIDE DEF size
    <2>3. QED
      BY <1>1, <2>2
  <1> HIDE DEF size, byte
  <1>4. WriteVarint(n) \in Seq(Nat) /\ Len(WriteVarint(n)) = size
    BY <1>1, <1>2, <1>3
  <1>5. QED
    BY <1>2, <1>3, <1>4 DEF size

LEMMA VarintValueIs ==
  ASSUME NEW n \in Nat, n < TwoTo[W64]
  PROVE  VarintValue(WriteVarint(n)) = n
  <1> DEFINE size == VarintSize(n)
             written == WriteVarint(n)
  <1>1. size \in Nat /\ written \in Seq(Nat) /\ Len(written) = size
    BY VarintSizeIs, WriteVarintIs
  <1>2. \A i \in 1 .. size : written[i] % 128 = Digit(n, 7, i)
    BY WriteVarintIs
  <1> HIDE DEF size, written
  <1>3. DOMAIN written = 1 .. size
    BY <1>1
  <1>4. [i \in DOMAIN written |-> written[i] % 128] = [i \in 1 .. size |-> Digit(n, 7, i)]
    BY <1>2, <1>3
  <1>5. VarintValue(written) = n % TwoTo[7 * size]
    <2>1. Number([i \in 1 .. size |-> Digit(n, 7, i)], 7) = n % TwoTo[7 * size]
      BY <1>1, DigitsMakeNumber
    <2>2. QED
      BY <1>4, <2>1, Zenon DEF VarintValue
  <1>6. n < TwoTo[7 * size] /\ 7 * size \in Nat
    BY <1>1, VarintSizeIs DEF size
  <1>7. QED
    BY <1>5, <1>6, SmallMod, TwoToPositive DEF written

(* A stream, ahead in which is the sequence b, as far as the stream goes. *)
Stream == [buffer : Seq(Nat), position : Nat, limit : Nat, last_tag : Nat,
           legitimate_message_end : BOOLEAN, recursion_depth : Nat, ok : BOOLEAN, value : Int]
Begins(in, b) ==
    /\ in.position <= in.limit /\ in.limit <= Len(in.buffer)
    /\ \A i \in 1 .. Len(b) : i <= in.limit - in.position => in.buffer[in.position + i] = b[i]

LEMMA InputIs ==
  ASSUME NEW b \in Seq(Nat), NEW p \in 0 .. Len(b)
  PROVE  LET in == Input(SubSeq(b, 1, p))
         IN  in \in Stream /\ in.ok /\ Begins(in, b) /\ BytesUntilLimit(in) = p
  <1> DEFINE in == Input(SubSeq(b, 1, p))
  <1>1. /\ SubSeq(b, 1, p) \in Seq(Nat) /\ Len(SubSeq(b, 1, p)) = p
        /\ \A i \in 1 .. p : SubSeq(b, 1, p)[i] = b[i]
    BY Prefix
  <1>2. /\ in.buffer = SubSeq(b, 1, p) /\ in.position = 0 /\ in.limit = p /\ in.ok
        /\ in \in Stream
    BY <1>1 DEF Input, Stream
  <1> HIDE DEF in
  <1>3. Begins(in, b)
    BY <1>1, <1>2 DEF Begins
  <1>4. BytesUntilLimit(in) = p
    BY <1>2 DEF BytesUntilLimit
  <1>5. QED
    BY <1>2, <1>3, <1>4 DEF in

LEMMA AheadIs ==
  ASSUME NEW in \in Stream, NEW b \in Seq(Nat), Begins(in, b)
  PROVE  /\ BytesUntilLimit(in) \in Nat
         /\ \A i \in 1 .. Len(b) : i <= BytesUntilLimit(in) => Ahead(in)[i] = b[i]
         /\ Len(b) <= BytesUntilLimit(in) => SubSeq(Ahead(in), 1, Len(b)) = b
  <1> DEFINE left == in.limit - in.position
  <1>1. /\ in.buffer \in Seq(Nat) /\ in.position \in Nat /\ in.limit \in Nat
        /\ Len(in.buffer) \in Nat /\ in.position <= in.limit /\ in.limit <= Len(in.buffer)
    BY DEF Stream, Begins
  <1>2. /\ Ahead(in) \in Seq(Nat) /\ Len(Ahead(in)) = left
        /\ \A i \in 1 .. left : Ahead(in)[i] = in.buffer[in.position + i]
    <2> DEFINE b0 == in.buffer
               m == in.position
               n == in.limit
    <2>1. /\ b0 \in Seq(Nat) /\ m \in Nat /\ n \in Nat /\ m <= n /\ n <= Len(b0)
          /\ Ahead(in) = SubSeq(b0, m + 1, n) /\ left = n - m
      BY <1>1 DEF Ahead
    <2> HIDE DEF b0, m, n, left
    <2>2. /\ SubSeq(b0, m + 1, n) \in Seq(Nat) /\ Len(SubSeq(b0, m + 1, n)) = n - m
          /\ \A i \in 1 .. n - m : SubSeq(b0, m + 1, n)[i] = b0[m + i]
      BY <2>1
    <2>3. QED
      BY <2>1, <2>2 DEF b0, m
  <1>3. BytesUntilLimit(in) = left /\ left \in Nat
    BY <1>1 DEF BytesUntilLimit
  <1> HIDE DEF left
  <1>4. ASSUME NEW i \in 1 .. Len(b), i <= left PROVE Ahead(in)[i] = b[i]
    <2>1. i \in 1 .. left /\ in.buffer[in.position + i] = b[i]
      BY <1>4 DEF Begins, left
    <2>2. QED
      BY <1>2, <2>1
  <1>5. ASSUME Len(b) <= left PROVE SubSeq(Ahead(in), 1, Len(b)) = b
    <2>1. Len(b) \in 0 .. Len(Ahead(in))
      BY <1>2, <1>5
    <2> DEFINE c == SubSeq(Ahead(in), 1, Len(b))
    <2>2. c \in Seq(Nat) /\ Len(c) = Len(b) /\ \A i \in 1 .. Len(b) : c[i] = Ahead(in)[i]
      BY <1>2, <2>1, Prefix
    <2> HIDE DEF c
    <2>3. \A i \in 1 .. Len(b) : c[i] = b[i]
      <3>1. \A i \in 1 .. Len(b) : i <= left
        <4>1. Len(b) \in Nat
          BY LenProperties
        <4>2. QED
          BY <1>3, <1>5, <4>1
      <3>2. QED
        BY <1>4, <2>2, <3>1, Zenon
    <2>4. c = b
      BY <2>2, <2>3, SeqEqual
    <2>5. QED
      BY <2>4 DEF c
  <1>6. QED
    BY <1>3, <1>4, <1>5

(* What a read leaves of the stream. *)
LEMMA GotIs ==
  ASSUME NEW in \in Stream, NEW n \in Nat, NEW v
  PROVE  /\ v \in Int => Got(in, n, v) \in Stream
         /\ Got(in, n, v).buffer = in.buffer /\ Got(in, n, v).limit = in.limit
         /\ Got(in, n, v).position = in.position + n
         /\ Got(in, n, v).ok = in.ok /\ Got(in, n, v).value = v
         /\ \A u : [Got(in, n, v) EXCEPT !.value = u] = Got(in, n, u)
  <1>1. \A u : Got(in, n, u) =
           [buffer |-> in.buffer, position |-> in.position + n, limit |-> in.limit,
            last_tag |-> in.last_tag, legitimate_message_end |-> in.legitimate_message_end,
            recursion_depth |-> in.recursion_depth, ok |-> in.ok, value |-> u]
    <2>1. in = [buffer |-> in.buffer, position |-> in.position, limit |-> in.limit,
                last_tag |-> in.last_tag, legitimate_message_end |-> in.legitimate_message_end,
                recursion_depth |-> in.recursion_depth, ok |-> in.ok, value |-> in.value]
      BY DEF Stream
    <2> DEFINE moved == [in EXCEPT !.position = in.position + n]
    <2>2. moved =
           [buffer |-> in.buffer, position |-> in.position + n, limit |-> in.limit,
            last_tag |-> in.last_tag, legitimate_message_end |-> in.legitimate_message_end,
            recursion_depth |-> in.recursion_depth, ok |-> in.ok, value |-> in.value]
      BY <2>1
    <2>3. \A u : Got(in, n, u) = [moved EXCEPT !.value = u]
      BY DEF Got
    <2> HIDE DEF moved
    <2>4. QED
      BY <2>2, <2>3
  <1>2. v \in Int => Got(in, n, v) \in Stream
    BY <1>1 DEF Stream
  <1>3. \A u : [Got(in, n, v) EXCEPT !.value = u] = Got(in, n, u)
    BY <1>1
  <1>4. QED
    BY <1>1, <1>2, <1>3

LEMMA FailedIs ==
  ASSUME NEW in \in Stream
  PROVE  Failed(in) \in Stream /\ ~ Failed(in).ok
  BY DEF Failed, Stream

(* A varint is read as the number it was written for, cut to the width of *)
(* the reader; one of which bytes are missing is not read.                *)
LEMMA ReadVarintIs ==
  ASSUME NEW n \in Nat, n < TwoTo[W64], NEW w \in Nat,
         NEW in \in Stream, Begins(in, WriteVarint(n))
  PROVE  ReadVarint(in, w) = IF VarintSize(n) <= BytesUntilLimit(in)
                             THEN Got(in, VarintSize(n), n % TwoTo[w]) ELSE Failed(in)
  <1> DEFINE size == VarintSize(n)
             b == WriteVarint(n)
             left == BytesUntilLimit(in)
  <1>1. size \in 1 .. MaxVarintBytes /\ MaxVarintBytes \in Nat
    BY VarintSizeIs, BytesEnough
  <1>2. /\ b \in Seq(Nat) /\ Len(b) = size
        /\ \A i \in 1 .. size : b[i] < 128 <=> i = size
    BY WriteVarintIs
  <1>3. /\ left \in Nat
        /\ \A i \in 1 .. size : i <= left => Ahead(in)[i] = b[i]
        /\ size <= left => SubSeq(Ahead(in), 1, size) = b
    BY <1>2, AheadIs
  <1>4. VarintValue(b) = n
    BY VarintValueIs
  <1> DEFINE ends == VarintEnds(in)
  <1>5. ends = {i \in 1 .. MaxVarintBytes : i <= left /\ Ahead(in)[i] < 128}
    BY DEF VarintEnds
  <1>6. ReadVarint(in, w) = IF ends = {} THEN Failed(in)
                            ELSE Got(in, Min(ends),
                                     VarintValue(SubSeq(Ahead(in), 1, Min(ends))) % TwoTo[w])
    BY DEF ReadVarint, Unsigned
  <1> HIDE DEF size, b, left, ends
  <1>7. \A i \in ends : i \in Nat /\ i <= left /\ i >= size
    <2>1. ASSUME NEW i \in ends, i < size PROVE FALSE
      <3>1. i \in 1 .. size /\ i <= left /\ Ahead(in)[i] < 128
        BY <1>1, <1>5, <2>1
      <3>2. b[i] < 128
        BY <1>3, <3>1
      <3>3. QED
        BY <1>1, <1>2, <2>1, <3>1, <3>2
    <2>2. QED
      BY <1>1, <1>5, <2>1
  <1>8. CASE size <= left
    <2>1. size \in ends
      <3>1. size \in 1 .. size /\ Ahead(in)[size] = b[size]
        BY <1>1, <1>3, <1>8
      <3>2. QED
        BY <1>1, <1>2, <1>5, <1>8, <3>1
    <2>2. Min(ends) = size
      <3>1. \A x \in ends : (\A y \in ends : x <= y) => x = size
        BY <1>1, <1>7, <2>1
      <3>2. \A y \in ends : size <= y
        BY <1>1, <1>7
      <3>3. Min(ends) = CHOOSE x \in ends : \A y \in ends : x <= y
        BY DEF Min
      <3>4. QED
        BY <2>1, <3>1, <3>2, <3>3
    <2>3. QED
      BY <1>3, <1>4, <1>6, <1>8, <2>1, <2>2 DEF size, left
  <1>9. CASE ~ (size <= left)
    <2>1. ends = {}
      BY <1>1, <1>3, <1>7, <1>9
    <2>2. QED
      BY <1>6, <1>9, <2>1 DEF size, left
  <1>10. QED
    BY <1>8, <1>9

-----------------------------------------------------------------------------
(* Words of fixed width *)

LEMMA WriteLittleEndianIs ==
  ASSUME NEW n \in Nat, NEW w \in Nat, w % 8 = 0
  PROVE  /\ w \div 8 \in Nat
         /\ WriteLittleEndian(n, w) \in Seq(Nat)
         /\ Len(WriteLittleEndian(n, w)) = w \div 8
         /\ Number(WriteLittleEndian(n, w), 8) = n % TwoTo[w]
  <1> DEFINE k == w \div 8
  <1>1. k \in Nat /\ 8 * k = w
    OBVIOUS
  <1> HIDE DEF k
  <1>2. WriteLittleEndian(n, w) = [i \in 1 .. k |-> Digit(n, 8, i)]
    BY DEF WriteLittleEndian, k
  <1>3. \A i \in 1 .. k : Digit(n, 8, i) \in Nat
    <2>1. ASSUME NEW i \in 1 .. k PROVE Digit(n, 8, i) \in Nat
      <3>1. i \in Nat \ {0} /\ 8 \in Nat
        BY <1>1
      <3>2. Digit(n, 8, i) \in 0 .. TwoTo[8] - 1
        BY <3>1, DigitIs
      <3>3. QED
        BY <3>2, TwoToSmall
    <2>2. QED
      BY <2>1
  <1>4. WriteLittleEndian(n, w) \in Seq(Nat) /\ Len(WriteLittleEndian(n, w)) = k
    BY <1>1, <1>2, <1>3
  <1>5. Number(WriteLittleEndian(n, w), 8) = n % TwoTo[8 * k]
    <2>1. Number([i \in 1 .. k |-> Digit(n, 8, i)], 8) = n % TwoTo[8 * k]
      BY <1>1, DigitsMakeNumber
    <2>2. QED
      BY <1>2, <2>1
  <1>6. QED
    BY <1>1, <1>4, <1>5 DEF k

LEMMA ReadLittleEndianIs ==
  ASSUME NEW n \in Nat, NEW w \in Nat, w % 8 = 0,
         NEW in \in Stream, Begins(in, WriteLittleEndian(n, w))
  PROVE  ReadLittleEndian(in, w) = IF w \div 8 <= BytesUntilLimit(in)
                                   THEN Got(in, w \div 8, n % TwoTo[w]) ELSE Failed(in)
  <1> DEFINE k == w \div 8
             b == WriteLittleEndian(n, w)
             left == BytesUntilLimit(in)
  <1>1. b \in Seq(Nat) /\ Len(b) = k /\ k \in Nat /\ Number(b, 8) = n % TwoTo[w]
    BY WriteLittleEndianIs
  <1>2. left \in Nat /\ (k <= left => SubSeq(Ahead(in), 1, k) = b)
    BY <1>1, AheadIs
  <1>3. ReadLittleEndian(in, w) = IF left < k THEN Failed(in)
                                  ELSE Got(in, k, Number(SubSeq(Ahead(in), 1, k), 8))
    BY DEF ReadLittleEndian
  <1>4. left < k <=> ~ (k <= left)
    BY <1>1, <1>2
  <1> HIDE DEF k, b, left
  <1>5. QED
    BY <1>1, <1>2, <1>3, <1>4 DEF k, left

-----------------------------------------------------------------------------
(* What each type makes of a number *)

LEMMA TwoToHalf ==
  ASSUME NEW w \in Nat \ {0}
  PROVE  TwoTo[w - 1] \in Nat \ {0} /\ TwoTo[w] = 2 * TwoTo[w - 1]
  <1>1. w - 1 \in Nat /\ (w - 1) + 1 = w
    OBVIOUS
  <1>2. QED
    BY <1>1, TwoToIs, TwoToPositive

(* Cutting to the wide word first does not change what is cut to the narrow. *)
LEMMA ModMod ==
  ASSUME NEW n \in Int, NEW v \in Nat, NEW w \in Nat, v <= w
  PROVE  (n % TwoTo[w]) % TwoTo[v] = n % TwoTo[v]
  <1> DEFINE a == TwoTo[v]
             b == TwoTo[w - v]
  <1>1. w - v \in Nat /\ v + (w - v) = w
    OBVIOUS
  <1>2. TwoTo[w] = a * b /\ a \in Nat \ {0} /\ b \in Nat \ {0}
    <2>1. TwoTo[v + (w - v)] = a * b
      BY <1>1, TwoToSum, Zenon
    <2>2. a \in Nat \ {0} /\ b \in Nat \ {0}
      BY <1>1, TwoToPositive
    <2>3. QED
      BY <1>1, <2>1, <2>2, Zenon
  <1> HIDE DEF a, b
  <1> DEFINE q == n \div (a * b)
             r == n % (a * b)
             p == n \div a
             s == n % a
  <1>3. a * b \in Nat \ {0}
    BY <1>2
  <1>4. n = (a * b) * q + r /\ r \in Int /\ q \in Int
    <2>1. ASSUME NEW m \in Nat \ {0}
          PROVE  n = m * (n \div m) + (n % m) /\ n % m \in Int /\ n \div m \in Int
      <3>1. n % m \in 0 .. m - 1
        BY DivMod
      <3>2. QED
        BY <3>1, DivMod
    <2>2. n = (a * b) * (n \div (a * b)) + (n % (a * b))
            /\ n % (a * b) \in Int /\ n \div (a * b) \in Int
      BY <1>3, <2>1, Zenon
    <2>3. QED
      BY <2>2, Zenon
  <1>5. n = a * p + s /\ s \in 0 .. a - 1 /\ p \in Int
    BY <1>2, DivMod
  <1> HIDE DEF q, r, p, s
  <1>6. r = a * (p - b * q) + s /\ p - b * q \in Int
    <2>1. (a * b) * q = a * (b * q) /\ a * (p - b * q) = a * p - a * (b * q)
      BY <1>2, <1>4, <1>5
    <2>2. b * q \in Int /\ a * (b * q) \in Int /\ a * p \in Int
      BY <1>2, <1>4, <1>5
    <2>3. QED
      BY <1>4, <1>5, <2>1, <2>2
  <1>7. r % a = s
    BY <1>2, <1>5, <1>6, DivModIs
  <1>8. QED
    BY <1>2, <1>7 DEF a, r, s

LEMMA SignedIs ==
  ASSUME NEW w \in Nat \ {0}, NEW n \in Int, -TwoTo[w - 1] <= n, n < TwoTo[w - 1]
  PROVE  Signed(n % TwoTo[w], w) = n
  <1>1. TwoTo[w - 1] \in Nat \ {0} /\ TwoTo[w] = 2 * TwoTo[w - 1]
    BY TwoToHalf
  <1>2. TwoTo[w] \in Nat \ {0}
    BY <1>1
  <1>3. CASE n >= 0
    <2>1. n % TwoTo[w] = n
      BY <1>1, <1>2, <1>3, SmallMod
    <2>2. QED
      BY <2>1 DEF Signed
  <1>4. CASE n < 0
    <2>1. n % TwoTo[w] = n + TwoTo[w]
      BY <1>1, <1>2, <1>4, NegativeMod
    <2>2. ~ (n + TwoTo[w] < TwoTo[w - 1])
      BY <1>1
    <2>3. (n + TwoTo[w]) - TwoTo[w] = n
      BY <1>2
    <2>4. QED
      BY <2>1, <2>2, <2>3 DEF Signed
  <1>5. QED
    BY <1>3, <1>4

LEMMA ZigZagIs ==
  ASSUME NEW w \in Nat \ {0}, NEW n \in Int, -TwoTo[w - 1] <= n, n < TwoTo[w - 1]
  PROVE  /\ ZigZagEncode(n) \in Nat
         /\ ZigZagEncode(n) < TwoTo[w]
         /\ ZigZagDecode(ZigZagEncode(n)) = n
  <1>1. TwoTo[w - 1] \in Nat \ {0} /\ TwoTo[w] = 2 * TwoTo[w - 1]
    BY TwoToHalf
  <1>2. CASE n >= 0
    <2>1. ZigZagEncode(n) = 2 * n
      BY <1>2 DEF ZigZagEncode
    <2>2. (2 * n) % 2 = 0 /\ (2 * n) \div 2 = n
      OBVIOUS
    <2>3. QED
      BY <1>1, <1>2, <2>1, <2>2 DEF ZigZagDecode
  <1>3. CASE n < 0
    <2>1. ZigZagEncode(n) = (-2) * n - 1
      BY <1>3 DEF ZigZagEncode
    <2>2. ((-2) * n - 1) % 2 # 0 /\ ((-2) * n - 1) \div 2 = -n - 1
      OBVIOUS
    <2>3. QED
      BY <1>1, <1>3, <2>1, <2>2 DEF ZigZagDecode
  <1>4. QED
    BY <1>2, <1>3

(* A negative number takes all the bytes a varint may have. *)
LEMMA NegativeSize ==
  ASSUME NEW n \in Int, -TwoTo[W64 - 1] <= n, n < 0
  PROVE  VarintSize(n % TwoTo[W64]) = MaxVarintBytes
  <1> DEFINE m == n % TwoTo[W64]
             size == VarintSize(m)
  <1>1. W64 \in Nat \ {0}
    BY WireAssumption
  <1>2. TwoTo[W64 - 1] \in Nat \ {0} /\ TwoTo[W64] = 2 * TwoTo[W64 - 1]
    BY <1>1, TwoToHalf
  <1>3. m = n + TwoTo[W64]
    BY <1>2, NegativeMod
  <1>4. m \in Nat /\ m < TwoTo[W64] /\ TwoTo[W64 - 1] <= m
    BY <1>2, <1>3
  <1> HIDE DEF m
  <1>5. size \in 1 .. MaxVarintBytes /\ m < TwoTo[7 * size]
    BY <1>4, VarintSizeIs
  <1> HIDE DEF size
  <1>6. ASSUME size < MaxVarintBytes PROVE FALSE
    <2>1. 7 * size \in Nat /\ W64 - 1 \in Nat /\ 7 * size <= W64 - 1
      BY <1>1, <1>5, <1>6, BytesEnough
    <2>2. TwoTo[7 * size] <= TwoTo[W64 - 1]
      BY <2>1, TwoToGrows
    <2>3. TwoTo[7 * size] \in Nat
      BY <2>1, TwoToPositive
    <2>4. QED
      BY <1>2, <1>4, <1>5, <2>2, <2>3
  <1>7. QED
    BY <1>5, <1>6, BytesEnough DEF m, size

NumberTypes == PrimitiveTypes \ {"bool"}
ZigZagTypes == {"sint32", "sint64"}

(* The word that stands for a number on the wire, and how much a reader keeps. *)
WireWidth(t) == IF t \in Fixed32Types THEN W32 ELSE W64
WordOf(t, n) == IF t \in ZigZagTypes THEN ZigZagEncode(n) ELSE n % TwoTo[WireWidth(t)]
KeptWidth(t) == IF t \in VarintTypes THEN Width(t) ELSE WireWidth(t)

LEMMA Widths ==
  /\ W32 \in Nat \ {0} /\ W64 \in Nat \ {0} /\ W32 <= W64
  /\ W32 % 8 = 0 /\ W64 % 8 = 0
  BY WireAssumption

LEMMA WidthsGrow ==
  ASSUME NEW v \in {W32, W64}
  PROVE  /\ v \in Nat \ {0}
         /\ TwoTo[v - 1] \in Nat \ {0} /\ TwoTo[W64 - 1] \in Nat \ {0}
         /\ TwoTo[v] = 2 * TwoTo[v - 1] /\ TwoTo[W64] = 2 * TwoTo[W64 - 1]
         /\ TwoTo[v - 1] <= TwoTo[W64 - 1]
  <1>1. v \in Nat \ {0} /\ v <= W64 /\ W64 \in Nat \ {0}
    BY Widths
  <1>2. v - 1 \in Nat /\ W64 - 1 \in Nat /\ v - 1 <= W64 - 1
    BY <1>1
  <1>3. TwoTo[v - 1] <= TwoTo[W64 - 1]
    BY <1>2, TwoToGrows
  <1>4. QED
    BY <1>1, <1>3, TwoToHalf

LEMMA HoldsIs ==
  ASSUME NEW t \in NumberTypes, NEW n \in Int, Holds(t, n)
  PROVE  /\ WidthOf(t) \in {W32, W64}
         /\ IsSigned(t) => -TwoTo[WidthOf(t) - 1] <= n /\ n < TwoTo[WidthOf(t) - 1]
         /\ ~ IsSigned(t) => 0 <= n /\ n < TwoTo[WidthOf(t)]
  <1>1. WidthOf(t) \in {W32, W64}
    BY DEF WidthOf
  <1>2. TwoTo[WidthOf(t) - 1] \in Nat /\ TwoTo[WidthOf(t)] \in Nat
    BY <1>1, WidthsGrow
  <1> DEFINE w == WidthOf(t)
  <1>3. IsSigned(t) => lowest(t) = -TwoTo[w - 1] /\ highest(t) = TwoTo[w - 1] - 1
    BY DEF lowest, highest
  <1>4. ~ IsSigned(t) => lowest(t) = 0 /\ highest(t) = TwoTo[w] - 1
    BY DEF lowest, highest
  <1>5. lowest(t) <= n /\ n <= highest(t)
    BY DEF Holds
  <1> HIDE DEF w
  <1>6. QED
    BY <1>1, <1>2, <1>3, <1>4, <1>5 DEF w

(* What a type can hold fits its word. *)
LEMMA WordIs ==
  ASSUME NEW t \in NumberTypes, NEW n \in Int, Holds(t, n)
  PROVE  /\ WordOf(t, n) \in Nat /\ WordOf(t, n) < TwoTo[WireWidth(t)]
         /\ WireWidth(t) \in {W32, W64}
         /\ t \in ZigZagTypes => WordOf(t, n) < TwoTo[WidthOf(t)]
  <1>1. WireWidth(t) \in {W32, W64} /\ TwoTo[WireWidth(t)] \in Nat \ {0}
    <2>1. WireWidth(t) \in {W32, W64}
      BY DEF WireWidth
    <2>2. QED
      BY <2>1, Widths, TwoToPositive
  <1>2. CASE t \in ZigZagTypes
    <2>1. IsSigned(t) /\ WireWidth(t) = W64
      BY <1>2 DEF ZigZagTypes, IsSigned, Signed32, Signed64, WireWidth, Fixed32Types
    <2>2. ZigZagEncode(n) \in Nat /\ ZigZagEncode(n) < TwoTo[WidthOf(t)]
      BY <2>1, HoldsIs, WidthsGrow, ZigZagIs
    <2>3. TwoTo[WidthOf(t)] <= TwoTo[W64] /\ TwoTo[WidthOf(t)] \in Nat /\ TwoTo[W64] \in Nat
      BY HoldsIs, WidthsGrow
    <2>4. QED
      BY <1>1, <1>2, <2>1, <2>2, <2>3 DEF WordOf
  <1>3. CASE t \notin ZigZagTypes
    <2>1. n % TwoTo[WireWidth(t)] \in 0 .. TwoTo[WireWidth(t)] - 1
      BY <1>1, DivMod
    <2>2. QED
      BY <1>1, <1>3, <2>1 DEF WordOf
  <1>4. QED
    BY <1>2, <1>3

(* A number that a type holds comes out of its word, whatever the type that *)
(* wrote it made of the bits above.                                         *)
LEMMA AsIs ==
  ASSUME NEW t \in NumberTypes, NEW n \in Int, Holds(t, n)
  PROVE  As(t, WordOf(t, n) % TwoTo[KeptWidth(t)]) = n
  <1> DEFINE w == WidthOf(t)
  <1>1. w \in {W32, W64} /\ w \in Nat \ {0} /\ TwoTo[w] \in Nat \ {0} /\ w <= W64
    BY HoldsIs, Widths, TwoToPositive
  <1>2. KeptWidth(t) = w
    BY DEF KeptWidth, WireWidth, Width, WidthOf, NumberTypes, PrimitiveTypes, VarintTypes,
           Fixed32Types, Fixed64Types
  <1>3. CASE t \in ZigZagTypes
    <2>1. IsSigned(t)
      BY <1>3 DEF ZigZagTypes, IsSigned, Signed32, Signed64
    <2>2. ZigZagDecode(ZigZagEncode(n)) = n
      BY <1>1, <2>1, HoldsIs, ZigZagIs
    <2>3. WordOf(t, n) % TwoTo[w] = WordOf(t, n)
      BY <1>1, <1>3, WordIs, SmallMod
    <2>4. As(t, WordOf(t, n)) = ZigZagDecode(WordOf(t, n))
      BY <1>3 DEF As, ZigZagTypes
    <2>5. QED
      BY <1>2, <1>3, <2>2, <2>3, <2>4 DEF WordOf
  <1>4. CASE t \notin ZigZagTypes
    <2>1. WordOf(t, n) % TwoTo[w] = n % TwoTo[w]
      <3>1. WireWidth(t) \in Nat /\ w <= WireWidth(t)
        BY <1>1, Widths DEF WireWidth, WidthOf, Fixed32Types, Fixed64Types
      <3>2. QED
        BY <1>1, <1>4, <3>1, ModMod DEF WordOf
    <2>2. CASE IsSigned(t)
      <3>1. Signed(n % TwoTo[w], w) = n
        BY <1>1, <2>2, HoldsIs, SignedIs
      <3>2. As(t, n % TwoTo[w]) = Signed(n % TwoTo[w], w)
        BY <1>4, <2>2 DEF As, IsSigned, Signed32, Signed64, WidthOf, ZigZagTypes,
                          Fixed64Types
      <3>3. QED
        BY <1>2, <2>1, <3>1, <3>2
    <2>3. CASE ~ IsSigned(t)
      <3>1. n % TwoTo[w] = n
        BY <1>1, <2>3, HoldsIs, SmallMod
      <3>2. As(t, n) = n
        BY <1>4, <2>3 DEF As, IsSigned, Signed32, Signed64, ZigZagTypes, NumberTypes
      <3>3. QED
        BY <1>2, <2>1, <3>1, <3>2
    <2>4. QED
      BY <2>2, <2>3
  <1>5. QED
    BY <1>3, <1>4

(* Every type writes the word of its number, in as many bytes as computed. *)
LEMMA VarintTypeIs ==
  ASSUME NEW t \in VarintTypes \ {"bool"}, NEW n \in Int, Holds(t, n)
  PROVE  /\ WriteNoTag(t, n) = WriteVarint(WordOf(t, n))
         /\ Size(t, n) = VarintSize(WordOf(t, n))
         /\ WordOf(t, n) \in Nat /\ WordOf(t, n) < TwoTo[W64]
  <1>1. t \in NumberTypes /\ WireWidth(t) = W64
    BY DEF NumberTypes, PrimitiveTypes, VarintTypes, WireWidth, Fixed32Types
  <1>2. WordOf(t, n) \in Nat /\ WordOf(t, n) < TwoTo[W64]
    BY <1>1, WordIs
  <1>3. CASE t \in ZigZagTypes
    BY <1>2, <1>3 DEF WriteNoTag, Size, WordOf, ZigZagTypes, Fixed32Types, Fixed64Types
  <1>4. CASE t = "int64"
    BY <1>1, <1>2, <1>4 DEF WriteNoTag, Size, WordOf, ZigZagTypes, Unsigned, Fixed32Types,
                            Fixed64Types
  <1>5. CASE n >= 0 /\ t \in {"int32", "enum", "uint32", "uint64"}
    <2>1. n % TwoTo[W64] = n
      <3>1. WidthOf(t) \in {W32, W64}
            /\ (IsSigned(t) => n < TwoTo[WidthOf(t) - 1])
            /\ (~ IsSigned(t) => n < TwoTo[WidthOf(t)])
        BY <1>1, HoldsIs
      <3>2. n < TwoTo[W64] /\ TwoTo[W64] \in Nat \ {0}
        BY <1>5, <3>1, WidthsGrow
      <3>3. QED
        BY <1>5, <3>2, SmallMod
    <2>2. WordOf(t, n) = n
      BY <1>1, <1>5, <2>1 DEF WordOf, ZigZagTypes
    <2>3. WriteNoTag(t, n) = WriteVarint(n) /\ Size(t, n) = VarintSize(n)
      BY <1>5 DEF WriteNoTag, Size, WriteVarint32SignExtended, VarintSize32SignExtended,
                  Fixed32Types, Fixed64Types
    <2>4. QED
      BY <1>2, <2>2, <2>3
  <1>6. CASE n < 0 /\ t \in {"int32", "enum", "uint32", "uint64"}
    <2>1. t \in {"int32", "enum"} /\ -TwoTo[W64 - 1] <= n
      <3>1. WidthOf(t) \in {W32, W64}
            /\ (IsSigned(t) => -TwoTo[WidthOf(t) - 1] <= n)
            /\ (~ IsSigned(t) => 0 <= n)
        BY <1>1, HoldsIs
      <3>2. IsSigned(t)
        BY <1>6, <3>1
      <3>3. -TwoTo[W64 - 1] <= n
        BY <1>6, <3>1, <3>2, WidthsGrow
      <3>4. t \in {"int32", "enum"}
        BY <1>6, <3>2 DEF IsSigned, Signed32, Signed64
      <3>5. QED
        BY <3>3, <3>4
    <2>2. VarintSize(n % TwoTo[W64]) = MaxVarintBytes
      BY <1>6, <2>1, NegativeSize
    <2>3. WordOf(t, n) = n % TwoTo[W64]
      BY <1>1, <1>6 DEF WordOf, ZigZagTypes
    <2>4. ~ (n >= 0)
      BY <1>6
    <2>5. WriteNoTag(t, n) = WriteVarint(n % TwoTo[W64]) /\ Size(t, n) = MaxVarintBytes
      BY <1>6, <2>1 DEF WriteNoTag, Size, WriteVarint32SignExtended, Unsigned,
                        VarintSize32SignExtended, Fixed32Types, Fixed64Types
    <2>6. QED
      BY <1>2, <2>2, <2>3, <2>5
  <1>7. QED
    BY <1>3, <1>4, <1>5, <1>6 DEF VarintTypes, ZigZagTypes

LEMMA FixedTypeIs ==
  ASSUME NEW t \in Fixed32Types \cup Fixed64Types, NEW n \in Int, Holds(t, n)
  PROVE  /\ WriteNoTag(t, n) = WriteLittleEndian(WordOf(t, n), WireWidth(t))
         /\ Size(t, n) = WireWidth(t) \div 8
         /\ WordOf(t, n) \in Nat
         /\ WireWidth(t) \in Nat /\ WireWidth(t) % 8 = 0
  <1>1. t \in NumberTypes /\ t \notin ZigZagTypes
    BY DEF NumberTypes, PrimitiveTypes, Fixed32Types, Fixed64Types, ZigZagTypes
  <1>2. WordOf(t, n) \in Nat /\ WordOf(t, n) = n % TwoTo[WireWidth(t)]
    BY <1>1, WordIs DEF WordOf
  <1>3. WireWidth(t) \in Nat /\ WireWidth(t) % 8 = 0
    BY Widths DEF WireWidth
  <1>4. CASE t \in Fixed32Types
    <2>1. WireWidth(t) = W32
      BY <1>4 DEF WireWidth
    <2>2. WriteNoTag(t, n) = WriteLittleEndian(n % TwoTo[W32], W32)
      BY <1>4 DEF WriteNoTag, Unsigned, Fixed32Types, Fixed64Types
    <2>3. Size(t, n) = W32 \div 8
      BY <1>4 DEF Size, Fixed32Types, Fixed64Types
    <2>4. QED
      BY <1>2, <1>3, <2>1, <2>2, <2>3
  <1>5. CASE t \in Fixed64Types
    <2>1. WireWidth(t) = W64
      BY <1>5 DEF WireWidth, Fixed32Types, Fixed64Types
    <2>2. WriteNoTag(t, n) = WriteLittleEndian(n % TwoTo[W64], W64)
      BY <1>5 DEF WriteNoTag, Unsigned, Fixed32Types, Fixed64Types
    <2>3. Size(t, n) = W64 \div 8
      BY <1>5 DEF Size, Fixed32Types, Fixed64Types
    <2>4. QED
      BY <1>2, <1>3, <2>1, <2>2, <2>3
  <1>6. QED
    BY <1>4, <1>5

(* Types that share an encoding stand for a number by the same word. *)
LEMMA SharedWord ==
  ASSUME NEW types \in SharedEncodings, NEW w \in types, NEW r \in types
  PROVE  /\ w \in NumberTypes /\ r \in NumberTypes
         /\ w \in VarintTypes <=> r \in VarintTypes
         /\ \A n : WordOf(w, n) = WordOf(r, n)
         /\ WireWidth(w) = WireWidth(r)
  <1>1. /\ w \in NumberTypes /\ r \in NumberTypes
        /\ w \in VarintTypes <=> r \in VarintTypes
        /\ w \in ZigZagTypes <=> r \in ZigZagTypes
        /\ w \in Fixed32Types <=> r \in Fixed32Types
    BY DEF SharedEncodings, NumberTypes, PrimitiveTypes, VarintTypes, ZigZagTypes,
           Fixed32Types, Fixed64Types
  <1>2. QED
    BY <1>1 DEF WordOf, WireWidth

(* The bytes of a number, in the size that was computed for it. *)
LEMMA SizeIs ==
  ASSUME NEW t \in NumberTypes, NEW n \in Int, Holds(t, n)
  PROVE  /\ Size(t, n) \in Nat
         /\ WriteNoTag(t, n) \in Seq(Nat)
         /\ Len(WriteNoTag(t, n)) = Size(t, n)
  <1>1. CASE t \in VarintTypes
    <2>1. t \in VarintTypes \ {"bool"}
      BY <1>1 DEF NumberTypes
    <2>2. QED
      BY <2>1, VarintTypeIs, VarintSizeIs, WriteVarintIs
  <1>2. CASE t \notin VarintTypes
    <2>1. t \in Fixed32Types \cup Fixed64Types
      BY <1>2 DEF NumberTypes, PrimitiveTypes
    <2> DEFINE w == WireWidth(t)
               m == WordOf(t, n)
    <2>2. /\ WriteNoTag(t, n) = WriteLittleEndian(m, w) /\ Size(t, n) = w \div 8
          /\ m \in Nat /\ w \in Nat /\ w % 8 = 0
      BY <2>1, FixedTypeIs
    <2> HIDE DEF w, m
    <2>3. /\ w \div 8 \in Nat /\ WriteLittleEndian(m, w) \in Seq(Nat)
          /\ Len(WriteLittleEndian(m, w)) = w \div 8
      BY <2>2, WriteLittleEndianIs
    <2>4. QED
      BY <2>2, <2>3, Zenon
  <1>3. QED
    BY <1>1, <1>2

(* What a read yields, from what the raw read yields. *)
(* A number of one type ahead in a stream, read as another type of the same *)
(* encoding.                                                                *)
LEMMA NumberIs ==
  ASSUME NEW types \in SharedEncodings, NEW w \in types, NEW r \in types,
         NEW n \in Int, Holds(w, n),
         NEW in \in Stream, in.ok, Begins(in, WriteNoTag(w, n))
  PROVE  ReadPrimitive(r, in) =
           IF Size(w, n) <= BytesUntilLimit(in)
           THEN Got(in, Size(w, n), As(r, WordOf(w, n) % TwoTo[KeptWidth(r)]))
           ELSE Failed(in)
  <1> DEFINE m == WordOf(w, n)
             size == Size(w, n)
             kept == m % TwoTo[KeptWidth(r)]
             left == BytesUntilLimit(in)
  <1>1. w \in NumberTypes /\ r \in NumberTypes
        /\ (w \in VarintTypes <=> r \in VarintTypes) /\ WireWidth(w) = WireWidth(r)
    BY SharedWord
  <1>2. size \in Nat
    BY <1>1, SizeIs
  <1>3. ReadRaw(r, in) = IF size <= left THEN Got(in, size, kept) ELSE Failed(in)
    <2>1. CASE w \in VarintTypes
      <3>1. w \in VarintTypes \ {"bool"} /\ r \in VarintTypes
        BY <1>1, <2>1 DEF NumberTypes
      <3>2. /\ WriteNoTag(w, n) = WriteVarint(m) /\ size = VarintSize(m)
            /\ m \in Nat /\ m < TwoTo[W64]
        BY <3>1, VarintTypeIs
      <3>3. Width(r) \in Nat /\ KeptWidth(r) = Width(r)
        BY <3>1, Widths DEF Width, KeptWidth
      <3>4. ReadRaw(r, in) = ReadVarint(in, Width(r))
        BY <3>1 DEF ReadRaw, VarintTypes, Fixed32Types, Fixed64Types
      <3>5. Begins(in, WriteVarint(m))
        BY <3>2
      <3> HIDE DEF m, size
      <3>6. ReadVarint(in, Width(r)) = IF VarintSize(m) <= left
                                       THEN Got(in, VarintSize(m), m % TwoTo[Width(r)])
                                       ELSE Failed(in)
        BY <3>2, <3>3, <3>5, ReadVarintIs
      <3>7. QED
        BY <3>2, <3>3, <3>4, <3>6
    <2>2. CASE w \notin VarintTypes
      <3>1. /\ w \in Fixed32Types \cup Fixed64Types /\ r \in Fixed32Types \cup Fixed64Types
            /\ r \notin VarintTypes
        BY <1>1, <2>2 DEF NumberTypes, PrimitiveTypes
      <3> DEFINE v == WireWidth(w)
      <3>2. /\ WriteNoTag(w, n) = WriteLittleEndian(m, v) /\ size = v \div 8
            /\ m \in Nat /\ v \in Nat /\ v % 8 = 0
        BY <3>1, FixedTypeIs
      <3>3. ReadRaw(r, in) = ReadLittleEndian(in, v) /\ KeptWidth(r) = v
        BY <1>1, <3>1 DEF ReadRaw, KeptWidth, WireWidth, VarintTypes, Fixed32Types, Fixed64Types
      <3>4. Begins(in, WriteLittleEndian(m, v))
        BY <3>2
      <3> HIDE DEF m, size, v
      <3>5. ReadLittleEndian(in, v) = IF v \div 8 <= left THEN Got(in, v \div 8, m % TwoTo[v])
                                      ELSE Failed(in)
        BY <3>2, <3>4, ReadLittleEndianIs
      <3>6. QED
        BY <3>2, <3>3, <3>5
    <2>3. QED
      BY <2>1, <2>2
  <1> HIDE DEF m, size, left, kept
  <1>4. CASE size <= left
    <2>1. ReadRaw(r, in) = Got(in, size, kept)
      BY <1>3, <1>4
    <2>2. Got(in, size, kept).ok /\ Got(in, size, kept).value = kept
          /\ [Got(in, size, kept) EXCEPT !.value = As(r, kept)] = Got(in, size, As(r, kept))
      BY <1>2, GotIs
    <2>3. ReadPrimitive(r, in) = [Got(in, size, kept) EXCEPT !.value = As(r, kept)]
      BY <2>1, <2>2 DEF ReadPrimitive, Interpreted
    <2>4. QED
      BY <1>4, <2>2, <2>3 DEF size, left, kept, m
  <1>5. CASE ~ (size <= left)
    <2>1. ReadRaw(r, in) = Failed(in) /\ ~ Failed(in).ok
      BY <1>3, <1>5, FailedIs
    <2>2. ReadPrimitive(r, in) = Failed(in)
      BY <2>1 DEF ReadPrimitive, Interpreted
    <2>3. QED
      BY <1>5, <2>2 DEF size, left
  <1>6. QED
    BY <1>4, <1>5

(* What any type wrote of any number it holds, another type that shares the *)
(* encoding reads: all of the bytes as the number, if it can hold it, and   *)
(* fewer of them not at all.  The size that was computed is that of the     *)
(* bytes.                                                                   *)
THEOREM NumbersSurvive ==
  ASSUME NEW types \in SharedEncodings, NEW w \in types, NEW r \in types,
         NEW n \in Int, Holds(w, n), NEW p \in 0 .. Size(w, n)
  PROVE  LET out == ReadPrimitive(r, Input(SubSeq(WriteNoTag(w, n), 1, p)))
         IN  /\ Len(WriteNoTag(w, n)) = Size(w, n)
             /\ out.ok <=> p = Size(w, n)
             /\ p = Size(w, n) =>
                  /\ BytesUntilLimit(out) = 0
                  /\ Holds(r, n) => out.value = n
  <1> DEFINE size == Size(w, n)
             b == WriteNoTag(w, n)
             in == Input(SubSeq(b, 1, p))
             out == ReadPrimitive(r, in)
             read == As(r, WordOf(w, n) % TwoTo[KeptWidth(r)])
  <1>1. w \in NumberTypes /\ r \in NumberTypes /\ WordOf(r, n) = WordOf(w, n)
    BY SharedWord
  <1>2. size \in Nat /\ b \in Seq(Nat) /\ Len(b) = size
    BY <1>1, SizeIs
  <1>3. in \in Stream /\ in.ok /\ Begins(in, b) /\ BytesUntilLimit(in) = p
    BY <1>2, InputIs
  <1>4. Holds(r, n) => read = n
    BY <1>1, AsIs
  <1>5. out = IF size <= p THEN Got(in, size, read) ELSE Failed(in)
    <2> HIDE DEF in
    <2>1. QED
      BY <1>3, NumberIs
  <1> HIDE DEF size, b, in, out, read
  <1>6. CASE p = size
    <2>1. out = Got(in, size, read)
      BY <1>2, <1>5, <1>6
    <2>2. /\ out.ok /\ out.value = read
          /\ out.position = in.position + size /\ out.limit = in.limit
      BY <1>2, <1>3, <2>1, GotIs
    <2>3. BytesUntilLimit(out) = 0
      <3>1. in.limit - in.position = size /\ in.position \in Nat /\ in.limit \in Nat
        BY <1>3, <1>6 DEF BytesUntilLimit, Stream
      <3>2. QED
        BY <1>2, <2>2, <3>1 DEF BytesUntilLimit
    <2>4. QED
      BY <1>2, <1>4, <1>6, <2>2, <2>3 DEF size, b, in, out
  <1>7. CASE p # size
    <2>1. ~ (size <= p)
      BY <1>2, <1>7 DEF size
    <2>2. ~ out.ok
      BY <1>3, <1>5, <2>1, FailedIs
    <2>3. QED
      BY <1>2, <1>7, <2>2 DEF size, b, in, out
  <1>8. QED
    BY <1>6, <1>7

-----------------------------------------------------------------------------
(***************************************************************************)
(* What holds in every reachable state: the types share an encoding, the   *)
(* bytes are the first of those that were written, and the stream is what  *)
(* a read makes of them.                                                   *)
(***************************************************************************)
PrimitiveInv ==
    /\ \E types \in SharedEncodings : writer \in types /\ reader \in types
    /\ number \in Int /\ Holds(writer, number)
    /\ \E p \in 0 .. Size(writer, number) : bytes = SubSeq(WriteNoTag(writer, number), 1, p)
    /\ stream # Unread => bytes # <<>> /\ stream = ReadPrimitive(reader, Input(bytes))

LEMMA PrimitiveInitInv == PrimitiveInit => PrimitiveInv
  <1> SUFFICES ASSUME PrimitiveInit PROVE PrimitiveInv
    OBVIOUS
  <1>1. PICK types \in SharedEncodings : writer \in types /\ reader \in types
    BY DEF PrimitiveInit
  <1>2. number \in Int /\ Holds(writer, number)
    BY WrittenAssumption DEF PrimitiveInit
  <1>3. /\ Size(writer, number) \in Nat
        /\ WriteNoTag(writer, number) \in Seq(Nat)
    BY <1>1, <1>2, SharedWord, SizeIs
  <1>4. SubSeq(WriteNoTag(writer, number), 1, 0) = <<>>
    BY <1>3, SubSeqEmpty
  <1>5. bytes = SubSeq(WriteNoTag(writer, number), 1, 0) /\ 0 \in 0 .. Size(writer, number)
    BY <1>3, <1>4 DEF PrimitiveInit
  <1>6. stream = Unread
    BY DEF PrimitiveInit
  <1>7. QED
    BY <1>1, <1>2, <1>5, <1>6 DEF PrimitiveInv

LEMMA WriteKeeps == PrimitiveInv /\ WriteNumber => PrimitiveInv'
  <1> SUFFICES ASSUME PrimitiveInv, WriteNumber PROVE PrimitiveInv'
    OBVIOUS
  <1>1. PICK types \in SharedEncodings : writer \in types /\ reader \in types
    BY DEF PrimitiveInv
  <1>2. number \in Int /\ Holds(writer, number)
    BY DEF PrimitiveInv
  <1>3. /\ Size(writer, number) \in Nat
        /\ WriteNoTag(writer, number) \in Seq(Nat)
        /\ Len(WriteNoTag(writer, number)) = Size(writer, number)
    BY <1>1, <1>2, SharedWord, SizeIs
  <1>4. /\ Size(writer, number) \in 0 .. Size(writer, number)
        /\ SubSeq(WriteNoTag(writer, number), 1, Size(writer, number))
             = WriteNoTag(writer, number)
    BY <1>3, Prefix
  <1>5. stream = Unread
    BY DEF PrimitiveInv, WriteNumber
  <1>6. QED
    BY <1>1, <1>2, <1>4, <1>5 DEF PrimitiveInv, WriteNumber, Unread

LEMMA LoseKeeps == PrimitiveInv /\ LoseByte => PrimitiveInv'
  <1> SUFFICES ASSUME PrimitiveInv, LoseByte PROVE PrimitiveInv'
    OBVIOUS
  <1> DEFINE whole == WriteNoTag(writer, number)
  <1>1. PICK types \in SharedEncodings : writer \in types /\ reader \in types
    BY DEF PrimitiveInv
  <1>2. number \in Int /\ Holds(writer, number)
    BY DEF PrimitiveInv
  <1>3. Size(writer, number) \in Nat /\ whole \in Seq(Nat) /\ Len(whole) = Size(writer, number)
    BY <1>1, <1>2, SharedWord, SizeIs
  <1>4. PICK p \in 0 .. Size(writer, number) : bytes = SubSeq(whole, 1, p)
    BY DEF PrimitiveInv
  <1> HIDE DEF whole
  <1>5. p # 0 /\ bytes \in Seq(Nat) /\ Len(bytes) = p
    <2>1. bytes \in Seq(Nat) /\ Len(bytes) = p
      BY <1>3, <1>4, Prefix
    <2>2. bytes # <<>>
      BY DEF LoseByte
    <2>3. QED
      BY <2>1, <2>2
  <1>6. p - 1 \in 0 .. Size(writer, number)
    BY <1>3, <1>5
  <1>7. Front(bytes) = SubSeq(whole, 1, p - 1)
    <2>1. Front(bytes) = SubSeq(bytes, 1, p - 1)
      BY <1>5 DEF Front
    <2>2. SubSeq(SubSeq(whole, 1, p), 1, p - 1) = SubSeq(whole, 1, p - 1)
      BY <1>3, <1>5, <1>6
    <2>3. QED
      BY <1>4, <2>1, <2>2
  <1>8. bytes' = SubSeq(whole, 1, p - 1)
    BY <1>7 DEF LoseByte
  <1>9. stream = Unread /\ stream' = Unread
    BY DEF LoseByte, Unread
  <1>10. QED
    BY <1>1, <1>2, <1>6, <1>8, <1>9 DEF PrimitiveInv, LoseByte, Unread, whole

LEMMA ReadKeeps == PrimitiveInv /\ ReadNumber => PrimitiveInv'
  BY DEF PrimitiveInv, ReadNumber, Unread

(* The invariant holds from step to step. *)
THEOREM PrimitiveInductive == PrimitiveInv /\ [PrimitiveNext]_pvars => PrimitiveInv'
  <1> SUFFICES ASSUME PrimitiveInv, [PrimitiveNext]_pvars PROVE PrimitiveInv'
    OBVIOUS
  <1>1. CASE WriteNumber
    BY <1>1, WriteKeeps
  <1>2. CASE LoseByte
    BY <1>2, LoseKeeps
  <1>3. CASE ReadNumber
    BY <1>3, ReadKeeps
  <1>4. CASE UNCHANGED pvars
    BY <1>4 DEF PrimitiveInv, pvars, Unread
  <1>5. QED
    BY <1>1, <1>2, <1>3, <1>4 DEF PrimitiveNext

LEMMA PrimitiveAlways == PrimitiveSpec => []PrimitiveInv
  BY PrimitiveInitInv, PrimitiveInductive, PTL DEF PrimitiveSpec

LEMMA InvReads == PrimitiveInv => ReadsWhatWasWritten
  <1> SUFFICES ASSUME PrimitiveInv, stream # Unread, bytes = WriteNoTag(writer, number)
               PROVE  /\ stream.ok /\ BytesUntilLimit(stream) = 0
                      /\ Holds(reader, number) => stream.value = number
    BY DEF ReadsWhatWasWritten
  <1>1. PICK types \in SharedEncodings : writer \in types /\ reader \in types
    BY DEF PrimitiveInv
  <1>2. number \in Int /\ Holds(writer, number) /\ stream = ReadPrimitive(reader, Input(bytes))
    BY DEF PrimitiveInv
  <1> DEFINE size == Size(writer, number)
             whole == WriteNoTag(writer, number)
  <1>3. size \in Nat /\ whole \in Seq(Nat) /\ Len(whole) = size
    BY <1>1, <1>2, SharedWord, SizeIs
  <1>4. size \in 0 .. size /\ SubSeq(whole, 1, size) = whole
    <2> HIDE DEF size, whole
    <2>1. QED
      BY <1>3, Prefix
  <1>5. LET out == ReadPrimitive(reader, Input(SubSeq(whole, 1, size)))
        IN  out.ok /\ BytesUntilLimit(out) = 0 /\ (Holds(reader, number) => out.value = number)
    BY <1>1, <1>2, <1>4, NumbersSurvive
  <1>6. stream = ReadPrimitive(reader, Input(SubSeq(whole, 1, size)))
    BY <1>2, <1>4
  <1>7. QED
    BY <1>5, <1>6

LEMMA InvNotices == PrimitiveInv => CutIsNoticed
  <1> SUFFICES ASSUME PrimitiveInv, stream # Unread
               PROVE  stream.ok <=> Len(bytes) = Size(writer, number)
    BY DEF CutIsNoticed
  <1>1. PICK types \in SharedEncodings : writer \in types /\ reader \in types
    BY DEF PrimitiveInv
  <1>2. number \in Int /\ Holds(writer, number) /\ stream = ReadPrimitive(reader, Input(bytes))
    BY DEF PrimitiveInv
  <1>3. PICK p \in 0 .. Size(writer, number) : bytes = SubSeq(WriteNoTag(writer, number), 1, p)
    BY DEF PrimitiveInv
  <1>4. ReadPrimitive(reader, Input(SubSeq(WriteNoTag(writer, number), 1, p))).ok
          <=> p = Size(writer, number)
    BY <1>1, <1>2, <1>3, NumbersSurvive
  <1>5. WriteNoTag(writer, number) \in Seq(Nat)
        /\ Len(WriteNoTag(writer, number)) = Size(writer, number)
    BY <1>1, <1>2, SharedWord, SizeIs
  <1>6. Len(bytes) = p
    BY <1>3, <1>5, Prefix
  <1>7. QED
    BY <1>2, <1>3, <1>4, <1>6

(* Between programs with different versions of a .proto file, every number  *)
(* both types can hold arrives, and one only the writer's can arrives whole *)
(* as bytes.                                                                *)
THEOREM ReadingSound == PrimitiveSpec => []ReadsWhatWasWritten
  BY PrimitiveAlways, InvReads, PTL

(* A number of which bytes are missing is never read. *)
THEOREM CutsSound == PrimitiveSpec => []CutIsNoticed
  BY PrimitiveAlways, InvNotices, PTL

-----------------------------------------------------------------------------
(* Lists of numbers *)

\* What a list may hold.
Kept == Numbers \cup Nat
Word == Kept \cup {Uninitialized}

\* The array f holds the sequence s.
IsList(f, s) ==
    /\ f \in [elements : Seq(Word), size : Nat]
    /\ s \in Seq(Kept)
    /\ f.size = Len(s) /\ f.size <= Len(f.elements)
    /\ \A i \in 1 .. Len(s) : f.elements[i] = s[i]

ListsInv ==
    /\ field \in [NumberList -> [elements : Seq(Word), size : Nat]]
    /\ meant \in [NumberList -> Seq(Kept)]
    /\ \A l \in NumberList : IsList(field[l], meant[l])

LEMMA AsSequence ==
    ASSUME NEW S, NEW n \in Nat, NEW s \in [1 .. n -> S]
    PROVE  s \in Seq(S) /\ Len(s) = n
  BY SeqDef

LEMMA MaxOfThree ==
    ASSUME NEW a \in Nat, NEW b \in Nat, NEW c \in Nat
    PROVE  /\ Max({a, b, c}) \in Nat
           /\ Max({a, b, c}) >= a /\ Max({a, b, c}) >= b /\ Max({a, b, c}) >= c
  <1> DEFINE S == {a, b, c}
             P(x) == x \in S /\ \A y \in S : x >= y
  <1>1. \E x : P(x)
    <2>1. CASE a >= b /\ a >= c
      <3>1. P(a)
        BY <2>1
      <3>2. QED BY <3>1
    <2>2. CASE b >= a /\ b >= c
      <3>1. P(b)
        BY <2>2
      <3>2. QED BY <3>1
    <2>3. CASE c >= a /\ c >= b
      <3>1. P(c)
        BY <2>3
      <3>2. QED BY <3>1
    <2>4. QED BY <2>1, <2>2, <2>3
  <1>2. Max(S) = CHOOSE x \in S : \A y \in S : x >= y
    BY DEF Max
  <1>3. P(Max(S))
    BY <1>1, <1>2
  <1>4. QED BY <1>3

LEMMA GrownIs ==
    ASSUME NEW f, NEW s, IsList(f, s), NEW n \in Nat
    PROVE  IsList(Grown(f, n), s) /\ Capacity(Grown(f, n)) >= n
  <1> DEFINE room == Max({MinAllocation, 2 * Capacity(f), n})
             moved == SubSeq(f.elements, 1, f.size)
             unwritten == [i \in 1 .. room - f.size |-> Uninitialized]
             a == moved \o unwritten
  <1>1. /\ f.elements \in Seq(Word) /\ f.size \in Nat /\ f.size <= Len(f.elements)
        /\ Len(f.elements) \in Nat
    BY LenProperties DEF IsList
  <1>2. CASE Capacity(f) >= n
    BY <1>2 DEF Grown
  <1>3. CASE ~ (Capacity(f) >= n)
    <2>1. room \in Nat /\ room >= n /\ room >= 2 * Len(f.elements)
      <3>1. 2 * Len(f.elements) \in Nat
        BY <1>1
      <3>2. QED BY <3>1, MaxOfThree, RepeatedFieldAssumption DEF RepeatedFieldAssumption, Capacity
    <2>2. f.size <= room
      BY <1>1, <2>1
    <2> HIDE DEF room
    <2>3. /\ moved \in Seq(Word) /\ Len(moved) = f.size
          /\ \A i \in 1 .. f.size : moved[i] = f.elements[i]
      <3>1. \A i \in 1 .. f.size : f.elements[i] \in Word
        BY <1>1, ElementOfSeq
      <3>2. QED BY <1>1, <3>1, SubSeqProperties
    <2>4. unwritten \in Seq(Word) /\ Len(unwritten) = room - f.size
      <3>1. room - f.size \in Nat /\ unwritten \in [1 .. room - f.size -> Word]
        BY <1>1, <2>1, <2>2 DEF Word
      <3>2. QED BY <3>1, AsSequence
    <2> HIDE DEF moved, unwritten
    <2>5. /\ a \in Seq(Word) /\ Len(a) = f.size + (room - f.size)
          /\ \A i \in 1 .. f.size : a[i] = f.elements[i]
      <3>1. /\ a \in Seq(Word) /\ Len(a) = Len(moved) + Len(unwritten)
            /\ \A i \in 1 .. Len(moved) + Len(unwritten) :
                  a[i] = IF i <= Len(moved) THEN moved[i] ELSE unwritten[i - Len(moved)]
        BY <2>3, <2>4, ConcatProperties
      <3>2. room - f.size \in Nat
        BY <1>1, <2>1, <2>2
      <3> HIDE DEF a
      <3>3. QED BY <1>1, <2>3, <2>4, <3>1, <3>2
    <2>6. Len(a) = room /\ \A i \in 1 .. Len(s) : a[i] = s[i]
      BY <1>1, <2>1, <2>5 DEF IsList
    <2>7. Grown(f, n) = [f EXCEPT !.elements = a]
      BY <1>3 DEF Grown, Contents, room, moved, unwritten
    <2>8. Grown(f, n) = [elements |-> a, size |-> f.size]
      BY <2>7 DEF IsList
    <2> HIDE DEF a
    <2>9. QED BY <2>1, <2>2, <2>5, <2>6, <2>8 DEF IsList, Capacity
  <1>4. QED BY <1>2, <1>3

LEMMA AddedReservedIs ==
    ASSUME NEW f, NEW s, IsList(f, s), NEW n \in Kept, f.size < Capacity(f)
    PROVE  IsList(AddedAlreadyReserved(f, n), Append(s, n))
  <1> DEFINE k == f.size + 1
             a == [f.elements EXCEPT ![k] = n]
             t == Append(s, n)
  <1>1. /\ f.elements \in Seq(Word) /\ f.size \in Nat /\ f.size = Len(s)
        /\ s \in Seq(Kept) /\ \A i \in 1 .. Len(s) : f.elements[i] = s[i]
        /\ Len(f.elements) \in Nat
    BY LenProperties DEF IsList
  <1>2. k \in 1 .. Len(f.elements) /\ n \in Word
    BY <1>1 DEF Capacity, Word
  <1>3. /\ a \in Seq(Word) /\ Len(a) = Len(f.elements)
        /\ \A j \in 1 .. Len(f.elements) : a[j] = IF j = k THEN n ELSE f.elements[j]
    BY <1>1, <1>2, ExceptSeq
  <1>4. t \in Seq(Kept) /\ Len(t) = k /\ t[k] = n /\ \A i \in 1 .. Len(s) : t[i] = s[i]
    BY <1>1, AppendProperties
  <1>5. AddedAlreadyReserved(f, n) = [elements |-> a, size |-> k]
    BY DEF AddedAlreadyReserved
  <1> HIDE DEF a, t
  <1>6. \A i \in 1 .. k : a[i] = t[i]
    BY <1>1, <1>2, <1>3, <1>4
  <1>7. QED BY <1>1, <1>2, <1>3, <1>4, <1>5, <1>6 DEF IsList, t

LEMMA AddedIs ==
    ASSUME NEW f, NEW s, IsList(f, s), NEW n \in Kept
    PROVE  IsList(AddedNumber(f, n), Append(s, n))
  <1>1. /\ f.size \in Nat /\ f.size <= Capacity(f) /\ Capacity(f) \in Nat
        /\ f.size = Len(s)
    BY LenProperties DEF IsList, Capacity
  <1>2. CASE f.size = Capacity(f)
    <2> DEFINE g == Grown(f, Capacity(f) + 1)
    <2>1. IsList(g, s) /\ Capacity(g) >= Capacity(f) + 1
      BY <1>1, GrownIs
    <2>2. AddedNumber(f, n) = AddedAlreadyReserved(g, n)
      BY <1>2 DEF AddedNumber
    <2> HIDE DEF g
    <2>3. g.size = f.size /\ Capacity(g) \in Nat
      BY <1>1, <2>1, LenProperties DEF IsList, Capacity
    <2>4. g.size < Capacity(g)
      BY <1>1, <1>2, <2>1, <2>3
    <2>5. QED BY <2>1, <2>2, <2>4, AddedReservedIs
  <1>3. CASE f.size # Capacity(f)
    <2>1. f.size < Capacity(f) /\ AddedNumber(f, n) = AddedAlreadyReserved(f, n)
      BY <1>1, <1>3 DEF AddedNumber
    <2>2. QED BY <2>1, AddedReservedIs
  <1>4. QED BY <1>2, <1>3

LEMMA TruncatedIs ==
    ASSUME NEW f, NEW s, IsList(f, s), NEW n \in Nat, n <= f.size
    PROVE  IsList(Truncated(f, n), SubSeq(s, 1, n))
  <1> DEFINE t == SubSeq(s, 1, n)
  <1>1. /\ f.elements \in Seq(Word) /\ f.size \in Nat /\ f.size = Len(s)
        /\ s \in Seq(Kept) /\ \A i \in 1 .. Len(s) : f.elements[i] = s[i]
        /\ Len(f.elements) \in Nat /\ f.size <= Len(f.elements)
    BY LenProperties DEF IsList
  <1>2. \A i \in 1 .. n : s[i] \in Kept
    BY <1>1, ElementOfSeq
  <1>3. t \in Seq(Kept) /\ Len(t) = n /\ \A i \in 1 .. n : t[i] = s[i]
    BY <1>2, SubSeqProperties
  <1>4. Truncated(f, n) = [elements |-> f.elements, size |-> n]
    BY DEF Truncated, IsList
  <1> HIDE DEF t
  <1>5. QED BY <1>1, <1>3, <1>4 DEF IsList, t

LEMMA MergedIs ==
    ASSUME NEW f, NEW s, IsList(f, s), NEW g, NEW t, IsList(g, t)
    PROVE  IsList(MergedNumbers(f, g), s \o t)
  <1> DEFINE n == f.size + g.size
             w == Grown(f, n)
             a == [i \in DOMAIN w.elements |-> IF i \in f.size + 1 .. n
                                               THEN g.elements[i - f.size] ELSE w.elements[i]]
             u == s \o t
  <1>1. /\ f.size \in Nat /\ f.size = Len(s) /\ s \in Seq(Kept)
        /\ g.elements \in Seq(Word) /\ g.size \in Nat /\ g.size = Len(t)
        /\ g.size <= Len(g.elements) /\ t \in Seq(Kept)
        /\ \A i \in 1 .. Len(t) : g.elements[i] = t[i]
        /\ Len(g.elements) \in Nat /\ n \in Nat
    BY LenProperties DEF IsList
  <1>2. IsList(w, s) /\ Capacity(w) >= n
    BY <1>1, GrownIs
  <1>3. MergedNumbers(f, g) = [elements |-> a, size |-> n]
    BY DEF MergedNumbers
  <1>4. /\ u \in Seq(Kept) /\ Len(u) = n
        /\ \A i \in 1 .. n : u[i] = IF i <= f.size THEN s[i] ELSE t[i - f.size]
    BY <1>1, ConcatProperties
  <1> HIDE DEF w, u
  <1>5. /\ w.elements \in Seq(Word) /\ Len(w.elements) \in Nat /\ n <= Len(w.elements)
        /\ DOMAIN w.elements = 1 .. Len(w.elements)
        /\ \A i \in 1 .. Len(s) : w.elements[i] = s[i]
    BY <1>2, LenProperties DEF IsList, Capacity
  <1>6. a \in [1 .. Len(w.elements) -> Word]
    <2>1. \A i \in 1 .. Len(w.elements) : w.elements[i] \in Word
      BY <1>5, ElementOfSeq
    <2>2. \A i \in f.size + 1 .. n : g.elements[i - f.size] \in Word
      <3>1. \A i \in f.size + 1 .. n : i - f.size \in 1 .. Len(g.elements)
        BY <1>1
      <3>2. QED BY <1>1, <3>1, ElementOfSeq
    <2>3. QED BY <1>5, <2>1, <2>2
  <1>7. a \in Seq(Word) /\ Len(a) = Len(w.elements)
    BY <1>5, <1>6, AsSequence
  <1>8. \A i \in 1 .. n : a[i] = u[i]
    <2> SUFFICES ASSUME NEW i \in 1 .. n
                 PROVE  a[i] = u[i]
      OBVIOUS
    <2>1. i \in DOMAIN w.elements
      BY <1>1, <1>5
    <2>2. CASE i <= f.size
      <3>1. i \notin f.size + 1 .. n /\ i \in 1 .. Len(s)
        BY <1>1, <2>2
      <3>2. a[i] = w.elements[i]
        BY <2>1, <3>1
      <3>3. QED BY <1>4, <1>5, <2>2, <3>1, <3>2
    <2>3. CASE ~ (i <= f.size)
      <3>1. i \in f.size + 1 .. n /\ i - f.size \in 1 .. Len(t)
        BY <1>1, <2>3
      <3>2. a[i] = g.elements[i - f.size]
        BY <2>1, <3>1
      <3>3. QED BY <1>1, <1>4, <2>3, <3>1, <3>2
    <2>4. QED BY <2>2, <2>3
  <1> HIDE DEF a, n
  <1>9. IsList([elements |-> a, size |-> n], u)
    BY <1>1, <1>4, <1>5, <1>7, <1>8 DEF IsList
  <1>10. QED BY <1>3, <1>9 DEF u

LEMMA ExtractedIs ==
    ASSUME NEW f, NEW s, IsList(f, s), NEW start \in Nat, NEW n \in Nat, start + n <= f.size
    PROVE  IsList(Extracted(f, start, n),
                  SubSeq(s, 1, start) \o SubSeq(s, start + n + 1, Len(s)))
  <1> DEFINE m == f.size - n
             a == [i \in DOMAIN f.elements |->
                      IF i \in start + 1 .. m THEN f.elements[i + n] ELSE f.elements[i]]
             b == SubSeq(s, 1, start)
             c == SubSeq(s, start + n + 1, Len(s))
             u == b \o c
  <1>1. /\ f.elements \in Seq(Word) /\ f.size \in Nat /\ f.size = Len(s)
        /\ s \in Seq(Kept) /\ \A i \in 1 .. Len(s) : f.elements[i] = s[i]
        /\ Len(f.elements) \in Nat /\ f.size <= Len(f.elements)
        /\ DOMAIN f.elements = 1 .. Len(f.elements)
    BY LenProperties DEF IsList
  <1>2. m \in Nat /\ start <= m /\ m <= Len(f.elements)
    BY <1>1
  <1>3. \A i \in 1 .. Len(s) : s[i] \in Kept
    BY <1>1, ElementOfSeq
  <1>4. b \in Seq(Kept) /\ Len(b) = start /\ \A i \in 1 .. start : b[i] = s[i]
    <2>1. \A i \in 1 .. start : s[i] \in Kept
      BY <1>1, <1>3
    <2>2. QED BY <2>1, SubSeqProperties
  <1>5. /\ c \in Seq(Kept) /\ Len(c) = m - start
        /\ \A i \in 1 .. m - start : c[i] = s[start + n + i]
    <2> DEFINE first == start + n + 1
    <2>1. first \in Int /\ Len(s) \in Int /\ \A i \in first .. Len(s) : s[i] \in Kept
      BY <1>1, <1>3
    <2> HIDE DEF first
    <2>2. /\ SubSeq(s, first, Len(s)) \in Seq(Kept)
          /\ Len(SubSeq(s, first, Len(s))) = IF first <= Len(s) THEN Len(s) - first + 1 ELSE 0
          /\ \A i \in 1 .. Len(s) - first + 1 : SubSeq(s, first, Len(s))[i] = s[first + i - 1]
      BY <2>1, SubSeqProperties
    <2>3. Len(s) - first + 1 = m - start /\ \A i \in Int : first + i - 1 = start + n + i
      BY <1>1 DEF first
    <2> DEFINE d == SubSeq(s, first, Len(s))
    <2>4. d = c
      BY DEF c, first
    <2> HIDE DEF d
    <2>5. first <= Len(s) => Len(d) = m - start
      BY <2>2, <2>3 DEF d
    <2>6. ~ (first <= Len(s)) => Len(d) = m - start
      <3>1. ~ (first <= Len(s)) => m - start = 0
        BY <1>1, <1>2 DEF first
      <3>2. QED BY <2>2, <3>1 DEF d
    <2>7. \A i \in 1 .. m - start : d[i] = s[start + n + i]
      BY <2>2, <2>3 DEF d
    <2>8. d \in Seq(Kept)
      BY <2>2 DEF d
    <2>9. QED BY <2>4, <2>5, <2>6, <2>7, <2>8
  <1> HIDE DEF b, c
  <1>6. /\ u \in Seq(Kept) /\ Len(u) = m
        /\ \A i \in 1 .. m : u[i] = IF i <= start THEN b[i] ELSE c[i - start]
    <2>1. Len(b) + Len(c) = m /\ Len(b) = start
      BY <1>2, <1>4, <1>5
    <2>2. /\ b \o c \in Seq(Kept) /\ Len(b \o c) = Len(b) + Len(c)
          /\ \A i \in 1 .. Len(b) + Len(c) : (b \o c)[i] =
                IF i <= Len(b) THEN b[i] ELSE c[i - Len(b)]
      BY <1>4, <1>5, ConcatProperties
    <2>3. QED BY <2>1, <2>2
  <1> HIDE DEF u
  <1>7. a \in [1 .. Len(f.elements) -> Word]
    <2>1. \A i \in 1 .. Len(f.elements) : f.elements[i] \in Word
      BY <1>1, ElementOfSeq
    <2>2. \A i \in start + 1 .. m : i + n \in 1 .. Len(f.elements)
      BY <1>1, <1>2
    <2>3. QED BY <1>1, <2>1, <2>2
  <1>8. a \in Seq(Word) /\ Len(a) = Len(f.elements)
    BY <1>1, <1>7, AsSequence
  <1>9. \A i \in 1 .. m : a[i] = u[i]
    <2> SUFFICES ASSUME NEW i \in 1 .. m
                 PROVE  a[i] = u[i]
      OBVIOUS
    <2>1. i \in DOMAIN f.elements
      BY <1>1, <1>2
    <2>2. CASE i <= start
      <3>1. i \notin start + 1 .. m /\ i \in 1 .. Len(s) /\ i \in 1 .. start
        BY <1>1, <1>2, <2>2
      <3>2. a[i] = f.elements[i]
        BY <2>1, <3>1
      <3>3. QED BY <1>1, <1>4, <1>6, <2>2, <3>1, <3>2
    <2>3. CASE ~ (i <= start)
      <3>1. /\ i \in start + 1 .. m /\ i - start \in 1 .. m - start
            /\ i + n \in 1 .. Len(s) /\ start + n + (i - start) = i + n
        BY <1>1, <1>2, <2>3
      <3>2. a[i] = f.elements[i + n]
        BY <2>1, <3>1
      <3>3. u[i] = s[i + n]
        BY <1>5, <1>6, <2>3, <3>1
      <3>4. QED BY <1>1, <3>1, <3>2, <3>3
    <2>4. QED BY <2>2, <2>3
  <1>10. Extracted(f, start, n) = [elements |-> a, size |-> m]
    BY DEF Extracted
  <1> HIDE DEF a, m
  <1>11. IsList([elements |-> a, size |-> m], u)
    BY <1>2, <1>6, <1>8, <1>9 DEF IsList
  <1>12. QED BY <1>10, <1>11 DEF u, b, c

LEMMA PartsOf ==
    ASSUME NEW S, NEW f \in [elements : S, size : Nat]
    PROVE  /\ f = [elements |-> f.elements, size |-> f.size]
           /\ \A a : [f EXCEPT !.elements = a] = [elements |-> a, size |-> f.size]
  OBVIOUS

LEMMA SetIs ==
    ASSUME NEW f, NEW s, IsList(f, s), NEW i \in 1 .. Len(s), NEW n \in Kept
    PROVE  IsList([f EXCEPT !.elements[i] = n], [s EXCEPT ![i] = n])
  <1> DEFINE a == [f.elements EXCEPT ![i] = n]
             t == [s EXCEPT ![i] = n]
  <1>1. /\ f.elements \in Seq(Word) /\ f.size \in Nat /\ f.size = Len(s)
        /\ s \in Seq(Kept) /\ \A j \in 1 .. Len(s) : f.elements[j] = s[j]
        /\ Len(f.elements) \in Nat /\ f.size <= Len(f.elements)
    BY LenProperties DEF IsList
  <1>2. i \in 1 .. Len(f.elements) /\ n \in Word
    BY <1>1 DEF Word
  <1>3. /\ a \in Seq(Word) /\ Len(a) = Len(f.elements)
        /\ \A j \in 1 .. Len(f.elements) : a[j] = IF j = i THEN n ELSE f.elements[j]
    BY <1>1, <1>2, ExceptSeq
  <1>4. /\ t \in Seq(Kept) /\ Len(t) = Len(s)
        /\ \A j \in 1 .. Len(s) : t[j] = IF j = i THEN n ELSE s[j]
    BY <1>1, ExceptSeq
  <1>5. [f EXCEPT !.elements[i] = n] = [elements |-> a, size |-> f.size]
    <2>1. f = [elements |-> f.elements, size |-> f.size]
      BY PartsOf DEF IsList
    <2>2. [[elements |-> f.elements, size |-> f.size] EXCEPT !.elements[i] = n]
            = [elements |-> a, size |-> f.size]
      OBVIOUS
    <2>3. QED BY <2>1, <2>2
  <1> HIDE DEF a, t
  <1>6. \A j \in 1 .. Len(s) : a[j] = t[j]
    BY <1>1, <1>3, <1>4
  <1>7. IsList([elements |-> a, size |-> f.size], t)
    BY <1>1, <1>3, <1>4, <1>6 DEF IsList
  <1>8. QED BY <1>5, <1>7 DEF t

LEMMA SwappedSeq ==
    ASSUME NEW S, NEW s \in Seq(S), NEW i \in 1 .. Len(s), NEW j \in 1 .. Len(s), i # j
    PROVE  LET t == [s EXCEPT ![i] = s[j], ![j] = s[i]]
           IN  /\ t \in Seq(S) /\ Len(t) = Len(s)
               /\ \A k \in 1 .. Len(s) :
                     t[k] = IF k = i THEN s[j] ELSE IF k = j THEN s[i] ELSE s[k]
  <1> DEFINE u == [s EXCEPT ![i] = s[j]]
             t == [u EXCEPT ![j] = s[i]]
  <1>1. s[i] \in S /\ s[j] \in S
    BY ElementOfSeq
  <1>2. /\ u \in Seq(S) /\ Len(u) = Len(s)
        /\ \A k \in 1 .. Len(s) : u[k] = IF k = i THEN s[j] ELSE s[k]
    BY <1>1, ExceptSeq
  <1> HIDE DEF u
  <1>3. /\ t \in Seq(S) /\ Len(t) = Len(s)
        /\ \A k \in 1 .. Len(s) : t[k] = IF k = j THEN s[i] ELSE u[k]
    BY <1>1, <1>2, ExceptSeq
  <1>4. \A k \in 1 .. Len(s) : t[k] = IF k = i THEN s[j] ELSE IF k = j THEN s[i] ELSE s[k]
    BY <1>2, <1>3
  <1>5. t = [s EXCEPT ![i] = s[j], ![j] = s[i]]
    BY DEF u
  <1>6. QED BY <1>3, <1>4, <1>5

LEMMA SwappedIs ==
    ASSUME NEW f, NEW s, IsList(f, s), NEW i \in 1 .. Len(s), NEW j \in 1 .. Len(s), i # j
    PROVE  LET e == f.elements
           IN  IsList([f EXCEPT !.elements = [e EXCEPT ![i] = e[j], ![j] = e[i]]],
                      [s EXCEPT ![i] = s[j], ![j] = s[i]])
  <1> DEFINE e == f.elements
             a == [e EXCEPT ![i] = e[j], ![j] = e[i]]
             t == [s EXCEPT ![i] = s[j], ![j] = s[i]]
  <1>1. /\ e \in Seq(Word) /\ f.size \in Nat /\ f.size = Len(s)
        /\ s \in Seq(Kept) /\ \A k \in 1 .. Len(s) : e[k] = s[k]
        /\ Len(e) \in Nat /\ f.size <= Len(e)
    BY LenProperties DEF IsList
  <1>2. i \in 1 .. Len(e) /\ j \in 1 .. Len(e)
    BY <1>1
  <1>3. [f EXCEPT !.elements = a] = [elements |-> a, size |-> f.size]
    <2>1. f \in [elements : Seq(Word), size : Nat]
      BY DEF IsList
    <2> HIDE DEF a, e
    <2>2. QED BY <2>1, PartsOf
  <1>4. /\ a \in Seq(Word) /\ Len(a) = Len(e)
        /\ \A k \in 1 .. Len(e) : a[k] = IF k = i THEN e[j] ELSE IF k = j THEN e[i] ELSE e[k]
    BY <1>1, <1>2, SwappedSeq
  <1>5. /\ t \in Seq(Kept) /\ Len(t) = Len(s)
        /\ \A k \in 1 .. Len(s) : t[k] = IF k = i THEN s[j] ELSE IF k = j THEN s[i] ELSE s[k]
    BY <1>1, SwappedSeq
  <1> HIDE DEF a, t, e
  <1>6. \A k \in 1 .. Len(s) : a[k] = t[k]
    BY <1>1, <1>4, <1>5
  <1>7. IsList([elements |-> a, size |-> f.size], t)
    BY <1>1, <1>4, <1>5, <1>6 DEF IsList
  <1>8. QED BY <1>3, <1>7 DEF a, t, e

\* What a call does to one list keeps the others.
LEMMA BecomesKeeps ==
    ASSUME ListsInv, NEW l \in NumberList, NEW f, NEW s, IsList(f, s), Becomes(l, f, s)
    PROVE  ListsInv'
  <1>1. /\ field' = [field EXCEPT ![l] = f] /\ meant' = [meant EXCEPT ![l] = s]
        /\ f \in [elements : Seq(Word), size : Nat] /\ s \in Seq(Kept)
    BY DEF Becomes, IsList
  <1>2. /\ field' \in [NumberList -> [elements : Seq(Word), size : Nat]]
        /\ meant' \in [NumberList -> Seq(Kept)]
    BY <1>1 DEF ListsInv
  <1>3. \A k \in NumberList : IsList(field'[k], meant'[k])
    <2> SUFFICES ASSUME NEW k \in NumberList
                 PROVE  IsList(field'[k], meant'[k])
      OBVIOUS
    <2>1. CASE k = l
      <3>1. field'[k] = f /\ meant'[k] = s
        BY <1>1, <2>1 DEF ListsInv
      <3>2. QED BY <3>1
    <2>2. CASE k # l
      <3>1. field'[k] = field[k] /\ meant'[k] = meant[k]
        BY <1>1, <2>2 DEF ListsInv
      <3>2. QED BY <3>1 DEF ListsInv
    <2>3. QED BY <2>1, <2>2
  <1>4. \A k \in NumberList : IsList(field[k], meant[k])'
    BY <1>3 DEF IsList
  <1>5. QED BY <1>2, <1>4 DEF ListsInv

LEMMA ExchangeKeeps ==
    ASSUME ListsInv, NEW l \in NumberList, NEW m \in NumberList, ExchangeNumbers(l, m)
    PROVE  ListsInv'
  <1>1. /\ field' = [field EXCEPT ![l] = field[m], ![m] = field[l]]
        /\ meant' = [meant EXCEPT ![l] = meant[m], ![m] = meant[l]] /\ l # m
    BY DEF ExchangeNumbers
  <1>2. /\ field' \in [NumberList -> [elements : Seq(Word), size : Nat]]
        /\ meant' \in [NumberList -> Seq(Kept)]
    BY <1>1 DEF ListsInv
  <1>3. \A k \in NumberList : \E h \in NumberList : field'[k] = field[h] /\ meant'[k] = meant[h]
    <2> SUFFICES ASSUME NEW k \in NumberList
                 PROVE  \E h \in NumberList : field'[k] = field[h] /\ meant'[k] = meant[h]
      OBVIOUS
    <2>1. CASE k = l
      <3>1. field'[k] = field[m] /\ meant'[k] = meant[m]
        BY <1>1, <2>1 DEF ListsInv
      <3>2. QED BY <3>1
    <2>2. CASE k = m
      <3>1. field'[k] = field[l] /\ meant'[k] = meant[l]
        BY <1>1, <2>2 DEF ListsInv
      <3>2. QED BY <3>1
    <2>3. CASE k # l /\ k # m
      <3>1. field'[k] = field[k] /\ meant'[k] = meant[k]
        BY <1>1, <2>3 DEF ListsInv
      <3>2. QED BY <3>1
    <2>4. QED BY <2>1, <2>2, <2>3
  <1>4. \A k \in NumberList : IsList(field'[k], meant'[k])
    BY <1>3 DEF ListsInv
  <1>5. \A k \in NumberList : IsList(field[k], meant[k])'
    BY <1>4 DEF IsList
  <1>6. QED BY <1>2, <1>5 DEF ListsInv

\* The calls of RepeatedField keep every list what its calls meant it to be,
\* inside its array, however often the array grows (repeated_field.h:590-778).
THEOREM ListsInductive == ListsInv /\ [RepeatedFieldNext]_lvars => ListsInv'
  <1> SUFFICES ASSUME ListsInv, [RepeatedFieldNext]_lvars
               PROVE  ListsInv'
    OBVIOUS
  <1>1. \A l \in NumberList : /\ IsList(field[l], meant[l]) /\ field[l].size = Len(meant[l])
                             /\ Len(meant[l]) \in Nat /\ Capacity(field[l]) \in Nat
    BY LenProperties DEF ListsInv, IsList, Capacity
  <1>2. ASSUME NEW l \in NumberList, NEW n \in Kept, AddNumber(l, n)
        PROVE  ListsInv'
    <2>1. IsList(AddedNumber(field[l], n), Append(meant[l], n))
      BY <1>1, AddedIs
    <2>2. QED BY <1>2, <2>1, BecomesKeeps DEF AddNumber
  <1>3. ASSUME NEW l \in NumberList, NEW n \in Kept, AddReserved(l, n)
        PROVE  ListsInv'
    <2>1. field[l].size < Capacity(field[l])
      BY <1>3 DEF AddReserved
    <2>2. IsList(AddedAlreadyReserved(field[l], n), Append(meant[l], n))
      BY <1>1, <2>1, AddedReservedIs
    <2>3. QED BY <1>3, <2>2, BecomesKeeps DEF AddReserved
  <1>4. ASSUME NEW l \in NumberList, NEW n \in Kept, NEW i \in 1 .. Len(meant[l]),
               SetNumber(l, i, n)
        PROVE  ListsInv'
    <2>1. IsList([field[l] EXCEPT !.elements[i] = n], [meant[l] EXCEPT ![i] = n])
      BY <1>1, SetIs
    <2>2. QED BY <1>4, <2>1, BecomesKeeps DEF SetNumber
  <1>5. ASSUME NEW l \in NumberList, NEW i \in 1 .. Len(meant[l]), NEW j \in 1 .. Len(meant[l]),
               SwapNumbers(l, i, j)
        PROVE  ListsInv'
    <2> DEFINE e == field[l].elements
               s == meant[l]
               f == [field[l] EXCEPT !.elements = [e EXCEPT ![i] = e[j], ![j] = e[i]]]
    <2>1. i < j /\ Becomes(l, f, [s EXCEPT ![i] = s[j], ![j] = s[i]])
      BY <1>5 DEF SwapNumbers
    <2>2. i # j
      BY <1>1, <2>1
    <2>3. IsList(f, [s EXCEPT ![i] = s[j], ![j] = s[i]])
      BY <1>1, <2>2, SwappedIs
    <2>4. QED BY <2>1, <2>3, BecomesKeeps
  <1>6. ASSUME NEW l \in NumberList, NEW i \in 1 .. Len(meant[l]), NEW j \in 1 .. Len(meant[l]),
               ExtractNumbers(l, i - 1, j)
        PROVE  ListsInv'
    <2> DEFINE k == i - 1
    <2>1. k \in Nat /\ j \in Nat
      BY <1>1
    <2>2. k + j <= field[l].size
      BY <1>6 DEF ExtractNumbers
    <2>3. Becomes(l, Extracted(field[l], k, j),
                  SubSeq(meant[l], 1, k) \o SubSeq(meant[l], k + j + 1, Len(meant[l])))
      BY <1>6 DEF ExtractNumbers
    <2> HIDE DEF k
    <2>4. IsList(Extracted(field[l], k, j),
                 SubSeq(meant[l], 1, k) \o SubSeq(meant[l], k + j + 1, Len(meant[l])))
      BY <1>1, <2>1, <2>2, ExtractedIs
    <2>5. QED BY <2>3, <2>4, BecomesKeeps
  <1>7. ASSUME NEW l \in NumberList, NEW n \in 0 .. MaxReserved(l), ReserveNumbers(l, n)
        PROVE  ListsInv'
    <2>1. n \in Nat
      OBVIOUS
    <2>2. IsList(Grown(field[l], n), meant[l])
      BY <1>1, <2>1, GrownIs
    <2>3. QED BY <1>7, <2>2, BecomesKeeps DEF ReserveNumbers
  <1>8. ASSUME NEW l \in NumberList, NEW n \in 0 .. Len(meant[l]), Truncate(l, n)
        PROVE  ListsInv'
    <2>1. n \in Nat /\ n <= field[l].size
      BY <1>8 DEF Truncate
    <2>2. IsList(Truncated(field[l], n), SubSeq(meant[l], 1, n))
      BY <1>1, <2>1, TruncatedIs
    <2>3. QED BY <1>8, <2>2, BecomesKeeps DEF Truncate
  <1>9. ASSUME NEW l \in NumberList, NEW m \in NumberList, MergeNumbers(l, m)
        PROVE  ListsInv'
    <2>1. IsList(MergedNumbers(field[l], field[m]), meant[l] \o meant[m])
      BY <1>1, MergedIs
    <2>2. QED BY <1>9, <2>1, BecomesKeeps DEF MergeNumbers
  <1>10. ASSUME NEW l \in NumberList, NEW m \in NumberList, AssignNumbers(l, m)
         PROVE  ListsInv'
    <2> DEFINE f == Truncated(field[l], 0)
    <2>1. IsList(f, SubSeq(meant[l], 1, 0))
      <3>1. 0 \in Nat /\ 0 <= field[l].size
        BY <1>1
      <3>2. QED BY <1>1, <3>1, TruncatedIs
    <2>2. SubSeq(meant[l], 1, 0) = <<>>
      BY SubSeqEmpty
    <2> HIDE DEF f
    <2>3. IsList(MergedNumbers(f, field[m]), <<>> \o meant[m])
      BY <1>1, <2>1, <2>2, MergedIs
    <2>4. <<>> \o meant[m] = meant[m]
      <3>1. meant[m] \in Seq(Kept)
        BY DEF ListsInv
      <3>2. QED BY <3>1, ConcatEmptySeq
    <2>5. Becomes(l, MergedNumbers(f, field[m]), meant[m])
      BY <1>10 DEF AssignNumbers, f
    <2>6. QED BY <2>3, <2>4, <2>5, BecomesKeeps
  <1>11. ASSUME NEW l \in NumberList, NEW m \in NumberList, ExchangeNumbers(l, m)
         PROVE  ListsInv'
    BY <1>11, ExchangeKeeps
  <1>12. ASSUME UNCHANGED lvars
         PROVE  ListsInv'
    BY <1>12 DEF lvars, ListsInv, IsList
  <1>13. Numbers \subseteq Kept
    BY DEF Kept
  <1>14. QED
    BY <1>2, <1>3, <1>4, <1>5, <1>6, <1>7, <1>8, <1>9, <1>10, <1>11, <1>12, <1>13
    DEF RepeatedFieldNext

LEMMA ListsInit == RepeatedFieldInit => ListsInv
  <1> SUFFICES ASSUME RepeatedFieldInit
               PROVE  ListsInv
    OBVIOUS
  <1> DEFINE none == <<>>
  <1>1. none \in Seq(Word) /\ none \in Seq(Kept) /\ Len(none) = 0
    BY EmptySeq
  <1>2. /\ field = [l \in NumberList |-> [elements |-> none, size |-> 0]]
        /\ meant = [l \in NumberList |-> none]
    BY DEF RepeatedFieldInit
  <1> HIDE DEF none
  <1>3. IsList([elements |-> none, size |-> 0], none)
    BY <1>1 DEF IsList
  <1>4. \A l \in NumberList : IsList(field[l], meant[l])
    BY <1>2, <1>3
  <1>5. QED BY <1>1, <1>2, <1>4 DEF ListsInv

LEMMA ListsInvIs == ListsInv => ListsAreAsMeant
  <1> SUFFICES ASSUME ListsInv, NEW l \in NumberList
               PROVE  /\ field[l].size <= Capacity(field[l])
                      /\ Contents(field[l]) = meant[l]
    BY DEF ListsAreAsMeant
  <1> DEFINE f == field[l]
             s == meant[l]
  <1>1. IsList(f, s)
    BY DEF ListsInv
  <1> HIDE DEF f, s
  <1>2. /\ s \in Seq(Kept) /\ f.size = Len(s) /\ f.size <= Len(f.elements)
        /\ Len(s) \in Nat /\ \A i \in 1 .. Len(s) : f.elements[i] = s[i]
    BY <1>1, LenProperties DEF IsList
  <1>3. \A i \in 1 .. Len(s) : f.elements[i] \in Kept
    BY <1>2, ElementOfSeq
  <1>4. /\ SubSeq(f.elements, 1, Len(s)) \in Seq(Kept)
        /\ Len(SubSeq(f.elements, 1, Len(s))) = Len(s)
        /\ \A i \in 1 .. Len(s) : SubSeq(f.elements, 1, Len(s))[i] = f.elements[i]
    BY <1>2, <1>3, SubSeqProperties
  <1>5. SubSeq(f.elements, 1, Len(s)) = s
    BY <1>2, <1>4, SeqEqual
  <1>6. QED BY <1>2, <1>5 DEF Contents, Capacity, f, s

\* Whatever calls of RepeatedField went before, a list is the sequence they
\* make, and no number that was never put there is in it
\* (repeated_field.h:550-778).
THEOREM ListsSound == RepeatedFieldSpec => []ListsAreAsMeant
  BY ListsInit, ListsInvIs, ListsInductive, PTL DEF RepeatedFieldSpec

-----------------------------------------------------------------------------
(* A list of numbers on the wire *)

LEMMA Joined ==
  ASSUME NEW T, NEW a \in Seq(T), NEW b \in Seq(T)
  PROVE  /\ a \o b \in Seq(T) /\ Len(a \o b) = Len(a) + Len(b)
         /\ Len(a) \in Nat /\ Len(b) \in Nat
         /\ \A j \in 1 .. Len(a) : (a \o b)[j] = a[j]
         /\ \A j \in 1 .. Len(b) : (a \o b)[Len(a) + j] = b[j]
  <1>1. Len(a) \in Nat /\ Len(b) \in Nat
    BY LenProperties
  <1>2. /\ a \o b \in Seq(T) /\ Len(a \o b) = Len(a) + Len(b)
        /\ \A j \in 1 .. Len(a) + Len(b) :
              (a \o b)[j] = IF j <= Len(a) THEN a[j] ELSE b[j - Len(a)]
    BY ConcatProperties
  <1>3. ASSUME NEW j \in 1 .. Len(b) PROVE (a \o b)[Len(a) + j] = b[j]
    <2>1. /\ Len(a) + j \in 1 .. Len(a) + Len(b) /\ ~ (Len(a) + j <= Len(a))
          /\ (Len(a) + j) - Len(a) = j
      BY <1>1
    <2>2. QED
      BY <1>2, <2>1
  <1>4. ASSUME NEW j \in 1 .. Len(a) PROVE (a \o b)[j] = a[j]
    BY <1>1, <1>2, <1>4
  <1>5. QED
    BY <1>1, <1>2, <1>3, <1>4

LEMMA ListTypeIs ==
  ASSUME NEW t \in ListTypes, NEW i \in 1 .. Len(Sent)
  PROVE  /\ \E types \in SharedEncodings : t \in types
         /\ t \in NumberTypes
         /\ Sent[i] \in Nat /\ Holds(t, Sent[i])
  <1>1. /\ t \in {"int32", "int64", "uint32", "uint64", "enum"} \/ t \in {"fixed32", "sfixed32"}
           \/ t \in {"fixed64", "sfixed64"}
        /\ ~ IsSigned(t) /\ WidthOf(t) \in {W32, W64}
    BY DEF ListTypes, IsSigned, Signed32, Signed64, WidthOf
  <1>2. \E types \in SharedEncodings : t \in types
    BY <1>1 DEF SharedEncodings
  <1>3. Sent[i] \in 0 .. TwoTo[W32] - 1
    BY ListAssumption, ElementOfSeq
  <1>4. TwoTo[W32] \in Nat /\ TwoTo[W64] \in Nat /\ TwoTo[W32] <= TwoTo[W64]
    BY Widths, TwoToIs, TwoToGrows
  <1>5. Sent[i] \in Nat /\ Sent[i] < TwoTo[WidthOf(t)] /\ TwoTo[WidthOf(t)] \in Nat
    BY <1>1, <1>3, <1>4
  <1>6. Holds(t, Sent[i])
    BY <1>1, <1>5 DEF Holds, lowest, highest
  <1>7. QED
    BY <1>2, <1>5, <1>6, SharedWord

LEMMA SizePositive ==
  ASSUME NEW t \in NumberTypes, NEW n \in Int, Holds(t, n)
  PROVE  Size(t, n) \in Nat \ {0}
  <1>1. CASE t \in VarintTypes
    <2>1. t \in VarintTypes \ {"bool"}
      BY <1>1 DEF NumberTypes
    <2>2. QED
      BY <2>1, VarintTypeIs, VarintSizeIs, BytesEnough
  <1>2. CASE t \notin VarintTypes
    <2>1. t \in Fixed32Types \cup Fixed64Types
      BY <1>2 DEF NumberTypes, PrimitiveTypes
    <2>2. WireWidth(t) \div 8 \in Nat \ {0}
      <3>1. WireWidth(t) \in Nat /\ WireWidth(t) > 8
        BY WireAssumption DEF WireWidth
      <3>2. QED
        BY <3>1
    <2>3. QED
      BY <2>1, <2>2, FixedTypeIs
  <1>3. QED
    BY <1>1, <1>2

(* One of the numbers, ahead in a stream. *)
LEMMA SentIs ==
  ASSUME NEW t \in ListTypes, NEW i \in 1 .. Len(Sent)
  PROVE  /\ Size(t, Sent[i]) \in Nat \ {0}
         /\ WriteNoTag(t, Sent[i]) \in Seq(Nat)
         /\ Len(WriteNoTag(t, Sent[i])) = Size(t, Sent[i])
         /\ \A in \in Stream : in.ok /\ Begins(in, WriteNoTag(t, Sent[i])) =>
               ReadPrimitive(t, in) = IF Size(t, Sent[i]) <= BytesUntilLimit(in)
                                      THEN Got(in, Size(t, Sent[i]), Sent[i]) ELSE Failed(in)
  <1> DEFINE n == Sent[i]
  <1>1. n \in Int /\ Holds(t, n) /\ t \in NumberTypes
    BY ListTypeIs
  <1>2. PICK types \in SharedEncodings : t \in types
    BY ListTypeIs
  <1> HIDE DEF n
  <1>3. As(t, WordOf(t, n) % TwoTo[KeptWidth(t)]) = n
    BY <1>1, AsIs
  <1>4. ASSUME NEW in \in Stream, in.ok, Begins(in, WriteNoTag(t, n))
        PROVE  ReadPrimitive(t, in) = IF Size(t, n) <= BytesUntilLimit(in)
                                      THEN Got(in, Size(t, n), n) ELSE Failed(in)
    BY <1>1, <1>2, <1>3, <1>4, NumberIs
  <1>5. Size(t, n) \in Nat \ {0} /\ WriteNoTag(t, n) \in Seq(Nat)
        /\ Len(WriteNoTag(t, n)) = Size(t, n)
    BY <1>1, SizePositive, SizeIs
  <1>6. QED
    BY <1>4, <1>5 DEF n

(* A tag, ahead in a stream. *)
LEMMA TagIs ==
  ASSUME NEW f \in FieldNumbers, NEW w \in 0 .. 7
  PROVE  LET tag == MakeTag(f, w)
         IN  /\ tag \in Nat \ {0} /\ tag % 8 = w
             /\ tag < TwoTo[W32] /\ tag < TwoTo[W64] /\ tag % TwoTo[W32] = tag
             /\ VarintSize(tag) \in Nat \ {0}
             /\ WriteVarint(tag) \in Seq(Nat) /\ Len(WriteVarint(tag)) = VarintSize(tag)
  <1> DEFINE tag == MakeTag(f, w)
             half == TwoTo[W32 - 3]
  <1>1. W32 - 3 \in Nat /\ half \in Nat /\ TwoTo[W32] = 8 * half
    <2>1. W32 - 3 \in Nat /\ (W32 - 3) + 3 = W32
      BY WireAssumption
    <2>2. TwoTo[3] = 8
      BY TwoToIs, 1 = 0 + 1, 2 = 1 + 1, 3 = 2 + 1
    <2>3. TwoTo[(W32 - 3) + 3] = TwoTo[W32 - 3] * TwoTo[3] /\ TwoTo[W32 - 3] \in Nat
      BY <2>1, TwoToSum, TwoToIs
    <2>4. QED
      BY <2>1, <2>2, <2>3
  <1>2. f \in 1 .. half - 1
    BY ListAssumption
  <1> HIDE DEF half
  <1>3. tag = 8 * f + w
    BY <1>1, <1>2 DEF MakeTag
  <1> HIDE DEF tag
  <1>4. tag \in Nat \ {0} /\ tag < TwoTo[W32] /\ tag % 8 = w
    BY <1>1, <1>2, <1>3
  <1>5. TwoTo[W32] \in Nat \ {0} /\ TwoTo[W64] \in Nat /\ TwoTo[W32] <= TwoTo[W64]
    BY Widths, TwoToIs, TwoToPositive, TwoToGrows
  <1>6. tag < TwoTo[W64]
    BY <1>4, <1>5
  <1>7. tag % TwoTo[W32] = tag
    BY <1>4, <1>5, SmallMod
  <1>8. VarintSize(tag) \in Nat \ {0} /\ WriteVarint(tag) \in Seq(Nat)
        /\ Len(WriteVarint(tag)) = VarintSize(tag)
    BY <1>4, <1>6, VarintSizeIs, WriteVarintIs, BytesEnough
  <1>9. QED
    BY <1>4, <1>6, <1>7, <1>8 DEF tag

TagSize(f, t, p) == IF p THEN 0 ELSE VarintSize(PlainTag(f, t))

LEMMA PlainTagIs ==
  ASSUME NEW t \in ListTypes
  PROVE  WireTypeForFieldType(t) \in 0 .. 7 /\ WireTypeForFieldType(t) # WIRETYPE_LENGTH_DELIMITED
         /\ \A f : PlainTag(f, t) = MakeTag(f, WireTypeForFieldType(t))
  BY DEF ListTypes, WireTypeForFieldType, VarintTypes, Fixed32Types, Fixed64Types, PlainTag,
         WIRETYPE_VARINT, WIRETYPE_FIXED64, WIRETYPE_FIXED32, WIRETYPE_LENGTH_DELIMITED

LEMMA ItemIs ==
  ASSUME NEW f \in FieldNumbers, NEW t \in ListTypes, NEW p \in BOOLEAN, NEW i \in 1 .. Len(Sent)
  PROVE  LET item == Item(f, t, p, i)
             n == TagSize(f, t, p)
         IN  /\ item \in Seq(Nat) /\ n \in Nat
             /\ Len(item) = n + Size(t, Sent[i]) /\ Len(item) >= 1
             /\ \A j \in 1 .. n : item[j] = WriteVarint(PlainTag(f, t))[j]
             /\ \A j \in 1 .. Size(t, Sent[i]) : item[n + j] = WriteNoTag(t, Sent[i])[j]
  <1> DEFINE a == WriteVarint(PlainTag(f, t))
             b == WriteNoTag(t, Sent[i])
  <1>1. b \in Seq(Nat) /\ Len(b) = Size(t, Sent[i]) /\ Size(t, Sent[i]) \in Nat \ {0}
    BY SentIs
  <1>2. a \in Seq(Nat) /\ Len(a) = VarintSize(PlainTag(f, t))
        /\ VarintSize(PlainTag(f, t)) \in Nat
    <2> DEFINE w == WireTypeForFieldType(t)
    <2>1. w \in 0 .. 7 /\ PlainTag(f, t) = MakeTag(f, w)
      BY PlainTagIs
    <2> HIDE DEF w
    <2>2. QED
      BY <2>1, TagIs
  <1>3. CASE p
    <2>1. Item(f, t, p, i) = b /\ TagSize(f, t, p) = 0
      BY <1>3 DEF Item, TagSize
    <2> HIDE DEF b
    <2>2. QED
      BY <1>1, <2>1 DEF b
  <1>4. CASE ~ p
    <2>1. Item(f, t, p, i) = a \o b /\ TagSize(f, t, p) = Len(a)
      BY <1>2, <1>4 DEF Item, TagSize, Write, WriteTag, PlainTag
    <2>0. a \in Seq(Nat) /\ b \in Seq(Nat)
      BY <1>1, <1>2
    <2> HIDE DEF a, b
    <2>2. /\ a \o b \in Seq(Nat) /\ Len(a \o b) = Len(a) + Len(b) /\ Len(a) \in Nat
          /\ \A j \in 1 .. Len(a) : (a \o b)[j] = a[j]
          /\ \A j \in 1 .. Len(b) : (a \o b)[Len(a) + j] = b[j]
      BY <2>0, Joined
    <2>3. QED
      BY <1>1, <2>1, <2>2 DEF a, b
  <1>5. QED
    BY <1>3, <1>4

(* The numbers on the wire follow one another. *)
LEMMA BytesAre ==
  ASSUME NEW f \in FieldNumbers, NEW t \in ListTypes, NEW p \in BOOLEAN
  PROVE  /\ Bytes(f, t, p, 0) = <<>>
         /\ \A k \in 0 .. Len(Sent) - 1 :
               Bytes(f, t, p, k + 1) = Bytes(f, t, p, k) \o Item(f, t, p, k + 1)
  <1> DEFINE N == Len(Sent)
             IsFirst(g, n) == g = [i \in 0 .. n |-> IF i = 0 THEN <<>>
                                                   ELSE g[i - 1] \o Item(f, t, p, i)]
             S == {n \in Nat : \E g : IsFirst(g, n)}
  <1>1. N \in Nat
    BY ListAssumption, LenProperties
  <1> HIDE DEF N
  <1>2. 0 \in S
    <2>1. IsFirst([i \in 0 .. 0 |-> <<>>], 0)
      OBVIOUS
    <2>2. QED
      BY <2>1
  <1>3. \A n \in Nat : n \in S => n + 1 \in S
    <2> SUFFICES ASSUME NEW n \in Nat, n \in S
                 PROVE  n + 1 \in S
      OBVIOUS
    <2>0. PICK g : IsFirst(g, n)
      BY Zenon
    <2> DEFINE h == [i \in 0 .. n + 1 |-> IF i <= n THEN g[i] ELSE g[n] \o Item(f, t, p, n + 1)]
    <2>1. \A i \in 0 .. n : g[i] = IF i = 0 THEN <<>> ELSE g[i - 1] \o Item(f, t, p, i)
      BY <2>0
    <2>2. ASSUME NEW i \in 0 .. n + 1
          PROVE  h[i] = IF i = 0 THEN <<>> ELSE h[i - 1] \o Item(f, t, p, i)
      <3>1. CASE i = 0
        BY <2>1, <3>1
      <3>2. CASE i # 0 /\ i <= n
        <4>1. h[i] = g[i] /\ h[i - 1] = g[i - 1] /\ i \in 0 .. n
          BY <3>2
        <4>2. QED
          BY <2>1, <3>2, <4>1
      <3>3. CASE i = n + 1
        <4>1. i - 1 = n /\ i # 0 /\ ~ (i <= n) /\ n \in 0 .. n + 1 /\ n <= n
          BY <3>3
        <4>2. h[i] = g[n] \o Item(f, t, p, n + 1) /\ h[n] = g[n]
          BY <3>3, <4>1, Zenon
        <4>3. QED
          BY <3>3, <4>1, <4>2, Zenon
      <3>4. QED
        BY <3>1, <3>2, <3>3
    <2>3. h = [i \in 0 .. n + 1 |-> h[i]]
      OBVIOUS
    <2> HIDE DEF h
    <2>4. IsFirst(h, n + 1)
      BY <2>2, <2>3
    <2>5. n + 1 \in Nat
      OBVIOUS
    <2>6. QED
      BY <2>4, <2>5, Zenon
  <1>4. PICK g : IsFirst(g, N)
    BY <1>1, <1>2, <1>3, SetInduction
  <1> DEFINE first == CHOOSE h : IsFirst(h, N)
  <1>5. IsFirst(first, N)
    BY <1>4
  <1>6. \A k : Bytes(f, t, p, k) = first[k]
    BY Zenon DEF Bytes, N
  <1> HIDE DEF first
  <1>7. \A i \in 0 .. N : first[i] = IF i = 0 THEN <<>> ELSE first[i - 1] \o Item(f, t, p, i)
    BY <1>5
  <1>8. first[0] = <<>>
    BY <1>1, <1>7
  <1>9. ASSUME NEW k \in 0 .. N - 1
        PROVE  first[k + 1] = first[k] \o Item(f, t, p, k + 1)
    <2>1. k + 1 \in 0 .. N /\ k + 1 # 0 /\ (k + 1) - 1 = k
      BY <1>1
    <2>2. QED
      BY <1>7, <2>1
  <1>10. QED
    BY <1>6, <1>8, <1>9 DEF N

LEMMA BytesInSeq ==
  ASSUME NEW f \in FieldNumbers, NEW t \in ListTypes, NEW p \in BOOLEAN
  PROVE  \A k \in 0 .. Len(Sent) : Bytes(f, t, p, k) \in Seq(Nat)
  <1> DEFINE S == {k \in Nat : k <= Len(Sent) => Bytes(f, t, p, k) \in Seq(Nat)}
  <1>1. Len(Sent) \in Nat
    BY ListAssumption, LenProperties
  <1>2. 0 \in S
    BY BytesAre, EmptySeq
  <1>3. ASSUME NEW k \in Nat, k \in S PROVE k + 1 \in S
    <2> SUFFICES ASSUME k + 1 <= Len(Sent)
                 PROVE  Bytes(f, t, p, k + 1) \in Seq(Nat)
      OBVIOUS
    <2>1. k \in 0 .. Len(Sent) - 1 /\ k + 1 \in 1 .. Len(Sent) /\ k <= Len(Sent)
      BY <1>1
    <2>2. Bytes(f, t, p, k) \in Seq(Nat) /\ Item(f, t, p, k + 1) \in Seq(Nat)
      BY <1>3, <2>1, ItemIs
    <2>3. Bytes(f, t, p, k + 1) = Bytes(f, t, p, k) \o Item(f, t, p, k + 1)
      BY <2>1, BytesAre
    <2>4. QED
      BY <2>2, <2>3, Joined
  <1>4. Nat \subseteq S
    BY <1>2, <1>3, SetInduction
  <1>5. QED
    BY <1>1, <1>4

LEMMA HeaderIs ==
  ASSUME NEW f \in FieldNumbers, NEW t \in ListTypes
  PROVE  LET tag == WriteTag(f, WIRETYPE_LENGTH_DELIMITED)
             size == WriteVarint(PackedSize(f, t))
         IN  /\ Header(f, t, FALSE) = <<>> /\ Header(f, t, TRUE) = tag \o size
             /\ tag \in Seq(Nat) /\ size \in Seq(Nat) /\ Header(f, t, TRUE) \in Seq(Nat)
             /\ Len(tag) = VarintSize(MakeTag(f, WIRETYPE_LENGTH_DELIMITED))
             /\ Len(size) = VarintSize(PackedSize(f, t))
             /\ PackedSize(f, t) \in Nat /\ PackedSize(f, t) < TwoTo[W64]
             /\ PackedSize(f, t) % TwoTo[W32] = PackedSize(f, t)
  <1> DEFINE tag == WriteTag(f, WIRETYPE_LENGTH_DELIMITED)
             size == WriteVarint(PackedSize(f, t))
  <1>1. WIRETYPE_LENGTH_DELIMITED \in 0 .. 7
    BY DEF WIRETYPE_LENGTH_DELIMITED
  <1>2. tag \in Seq(Nat) /\ Len(tag) = VarintSize(MakeTag(f, WIRETYPE_LENGTH_DELIMITED))
    BY <1>1, TagIs DEF WriteTag
  <1>3. PackedSize(f, t) \in Nat
    <2>1. TRUE \in BOOLEAN /\ Len(Sent) \in 0 .. Len(Sent)
      BY ListAssumption, LenProperties
    <2>2. Bytes(f, t, TRUE, Len(Sent)) \in Seq(Nat)
      BY <2>1, BytesInSeq, Zenon
    <2>3. QED
      BY <2>2, LenProperties DEF PackedSize
  <1>4. PackedSize(f, t) < TwoTo[W32] /\ TwoTo[W32] <= TwoTo[W64]
        /\ TwoTo[W32] \in Nat /\ TwoTo[W64] \in Nat
    BY ListAssumption, Widths, TwoToIs, TwoToGrows
  <1>5. PackedSize(f, t) < TwoTo[W64] /\ PackedSize(f, t) % TwoTo[W32] = PackedSize(f, t)
    BY <1>3, <1>4, SmallMod
  <1>6. size \in Seq(Nat) /\ Len(size) = VarintSize(PackedSize(f, t))
    BY <1>3, <1>5, WriteVarintIs, VarintSizeIs
  <1>7. Header(f, t, FALSE) = <<>> /\ Header(f, t, TRUE) = tag \o size \o <<>>
    BY DEF Header, WriteDelimited
  <1> HIDE DEF tag, size
  <1>8. tag \o size \in Seq(Nat) /\ tag \o size \o <<>> = tag \o size
    BY <1>2, <1>6
  <1>9. QED
    BY <1>2, <1>3, <1>5, <1>6, <1>7, <1>8 DEF tag, size

LEMMA OnWireIs ==
  ASSUME NEW f \in FieldNumbers, NEW t \in ListTypes, NEW p \in BOOLEAN
  PROVE  /\ \A k \in 0 .. Len(Sent) : OnWire(f, t, p, k) \in Seq(Nat)
         /\ OnWire(f, t, p, 0) = Header(f, t, p)
         /\ \A k \in 0 .. Len(Sent) - 1 :
               OnWire(f, t, p, k + 1) = OnWire(f, t, p, k) \o Item(f, t, p, k + 1)
  <1>1. Header(f, t, p) \in Seq(Nat)
    BY HeaderIs, EmptySeq
  <1>2. \A k \in 0 .. Len(Sent) : Bytes(f, t, p, k) \in Seq(Nat)
    BY BytesInSeq
  <1>3. \A i \in 1 .. Len(Sent) : Item(f, t, p, i) \in Seq(Nat)
    BY ItemIs
  <1>4. Len(Sent) \in Nat
    BY ListAssumption, LenProperties
  <1>5. \A k \in 0 .. Len(Sent) : OnWire(f, t, p, k) \in Seq(Nat)
    BY <1>1, <1>2 DEF OnWire
  <1>6. OnWire(f, t, p, 0) = Header(f, t, p)
    BY <1>1, BytesAre DEF OnWire
  <1>7. ASSUME NEW k \in 0 .. Len(Sent) - 1
        PROVE  OnWire(f, t, p, k + 1) = OnWire(f, t, p, k) \o Item(f, t, p, k + 1)
    <2> DEFINE h == Header(f, t, p)
               b == Bytes(f, t, p, k)
               a == Item(f, t, p, k + 1)
    <2>1. h \in Seq(Nat) /\ b \in Seq(Nat) /\ a \in Seq(Nat)
      BY <1>1, <1>2, <1>3, <1>4
    <2>2. OnWire(f, t, p, k + 1) = h \o (b \o a) /\ OnWire(f, t, p, k) = h \o b
      BY BytesAre DEF OnWire
    <2> HIDE DEF h, b, a
    <2>3. h \o (b \o a) = (h \o b) \o a
      BY <2>1
    <2>4. QED
      BY <2>2, <2>3 DEF a
  <1>8. QED
    BY <1>5, <1>6, <1>7

(* Where the numbers end. *)
End(f, t, p, k) == Len(OnWire(f, t, p, k))

LEMMA EndIs ==
  ASSUME NEW f \in FieldNumbers, NEW t \in ListTypes, NEW p \in BOOLEAN
  PROVE  /\ All(f, t, p) \in Seq(Nat) /\ Len(All(f, t, p)) = End(f, t, p, Len(Sent))
         /\ Len(Sent) \in Nat
         /\ \A k \in 0 .. Len(Sent) : End(f, t, p, k) \in Nat
         /\ \A k \in 0 .. Len(Sent) - 1 :
               End(f, t, p, k + 1) = End(f, t, p, k) + Len(Item(f, t, p, k + 1))
         /\ \A j, k \in 0 .. Len(Sent) : j <= k => End(f, t, p, k) >= End(f, t, p, j) + (k - j)
         /\ \A k \in 0 .. Len(Sent) :
               \A i \in 1 .. End(f, t, p, k) : All(f, t, p)[i] = OnWire(f, t, p, k)[i]
  <1> DEFINE N == Len(Sent)
             E(k) == End(f, t, p, k)
             W(k) == OnWire(f, t, p, k)
             S == {m \in Nat : \A k \in 0 .. N : k + m <= N =>
                      E(k + m) >= E(k) + m /\ \A i \in 1 .. E(k) : W(k + m)[i] = W(k)[i]}
  <1>1. N \in Nat
    BY ListAssumption, LenProperties
  <1>2. \A k \in 0 .. N : W(k) \in Seq(Nat) /\ E(k) \in Nat /\ E(k) = Len(W(k))
    BY OnWireIs, LenProperties DEF End
  <1>3. ASSUME NEW k \in 0 .. N - 1
        PROVE  /\ E(k + 1) = E(k) + Len(Item(f, t, p, k + 1))
               /\ E(k + 1) >= E(k) + 1
               /\ \A i \in 1 .. E(k) : W(k + 1)[i] = W(k)[i]
    <2> DEFINE a == Item(f, t, p, k + 1)
    <2>1. k + 1 \in 1 .. N /\ k \in 0 .. N /\ k + 1 \in 0 .. N
      BY <1>1
    <2>2. a \in Seq(Nat) /\ Len(a) >= 1 /\ Len(a) \in Nat
      BY <2>1, ItemIs, LenProperties
    <2>3. W(k + 1) = W(k) \o a
      BY OnWireIs
    <2>4. /\ W(k) \in Seq(Nat) /\ E(k) = Len(W(k)) /\ E(k) \in Nat
          /\ E(k + 1) = Len(W(k + 1))
      BY <1>2, <2>1
    <2> HIDE DEF W, E, a
    <2>5. /\ Len(W(k) \o a) = Len(W(k)) + Len(a)
          /\ \A i \in 1 .. Len(W(k)) : (W(k) \o a)[i] = W(k)[i]
      BY <2>2, <2>4, Joined
    <2>6. /\ Len(W(k + 1)) = E(k) + Len(a)
          /\ \A i \in 1 .. E(k) : W(k + 1)[i] = W(k)[i]
      BY <2>3, <2>4, <2>5, Zenon
    <2>7. /\ E(k + 1) = E(k) + Len(a) /\ E(k + 1) >= E(k) + 1
      BY <2>2, <2>4, <2>6
    <2>8. QED
      BY <2>6, <2>7 DEF a
  <1> HIDE DEF N, E, W
  <1>4. 0 \in S
    BY <1>1, <1>2
  <1>5. ASSUME NEW m \in Nat, m \in S PROVE m + 1 \in S
    <2> SUFFICES ASSUME NEW k \in 0 .. N, k + (m + 1) <= N
                 PROVE  /\ E(k + (m + 1)) >= E(k) + (m + 1)
                        /\ \A i \in 1 .. E(k) : W(k + (m + 1))[i] = W(k)[i]
      OBVIOUS
    <2> DEFINE h == k + m
    <2>1. h \in 0 .. N - 1 /\ h \in 0 .. N /\ h <= N /\ k + (m + 1) = h + 1 /\ h + 1 \in 0 .. N
      BY <1>1
    <2>2. E(h) >= E(k) + m /\ \A i \in 1 .. E(k) : W(h)[i] = W(k)[i]
      BY <1>5, <2>1
    <2> HIDE DEF h
    <2>3. E(h + 1) >= E(h) + 1 /\ \A i \in 1 .. E(h) : W(h + 1)[i] = W(h)[i]
      BY <1>3, <2>1
    <2>4. E(k) \in Nat /\ E(h) \in Nat /\ E(h + 1) \in Nat
      BY <1>2, <2>1
    <2>5. \A i \in 1 .. E(k) : i \in 1 .. E(h)
      BY <2>2, <2>4
    <2>6. QED
      BY <2>1, <2>2, <2>3, <2>4, <2>5
  <1>6. Nat \subseteq S
    BY <1>4, <1>5, SetInduction
  <1>7. ASSUME NEW j \in 0 .. N, NEW k \in 0 .. N, j <= k
        PROVE  E(k) >= E(j) + (k - j) /\ \A i \in 1 .. E(j) : W(k)[i] = W(j)[i]
    <2>1. k - j \in S /\ j + (k - j) = k
      BY <1>1, <1>6, <1>7
    <2>2. QED
      BY <1>7, <2>1
  <1>8. N \in 0 .. N /\ \A k \in 0 .. N : k <= N
    BY <1>1
  <1>9. \A k \in 0 .. N : \A i \in 1 .. E(k) : W(N)[i] = W(k)[i]
    BY <1>7, <1>8
  <1>10. W(N) = All(f, t, p) /\ W(N) \in Seq(Nat) /\ E(N) = Len(W(N))
    BY <1>2, <1>8 DEF All, W, N
  <1>11. QED
    BY <1>1, <1>2, <1>3, <1>7, <1>9, <1>10 DEF N, E, W

LEMMA ItemInAll ==
  ASSUME NEW f \in FieldNumbers, NEW t \in ListTypes, NEW p \in BOOLEAN,
         NEW k \in 0 .. Len(Sent) - 1
  PROVE  LET item == Item(f, t, p, k + 1)
         IN  /\ item \in Seq(Nat) /\ Len(item) \in Nat \ {0}
             /\ End(f, t, p, k + 1) = End(f, t, p, k) + Len(item)
             /\ End(f, t, p, k) \in Nat /\ End(f, t, p, k + 1) \in Nat
             /\ End(f, t, p, k + 1) <= Len(All(f, t, p))
             /\ \A j \in 1 .. Len(item) : All(f, t, p)[End(f, t, p, k) + j] = item[j]
  <1> DEFINE N == Len(Sent)
             item == Item(f, t, p, k + 1)
             e == End(f, t, p, k)
             w == OnWire(f, t, p, k)
  <1>1. /\ N \in Nat /\ k \in 0 .. N /\ k + 1 \in 0 .. N /\ k + 1 \in 1 .. N
        /\ N \in 0 .. N /\ k + 1 <= N
    BY EndIs
  <1>2. /\ item \in Seq(Nat) /\ Len(item) \in Nat /\ Len(item) >= 1
    BY <1>1, ItemIs, LenProperties
  <1>3. /\ End(f, t, p, k + 1) = e + Len(item)
        /\ e \in Nat /\ End(f, t, p, k + 1) \in Nat /\ End(f, t, p, N) \in Nat
        /\ Len(All(f, t, p)) = End(f, t, p, N)
        /\ End(f, t, p, N) >= End(f, t, p, k + 1) + (N - (k + 1))
    BY <1>1, EndIs
  <1>4. w \in Seq(Nat) /\ OnWire(f, t, p, k + 1) = w \o item /\ e = Len(w)
    BY <1>1, OnWireIs DEF End
  <1>5. ASSUME NEW j \in 1 .. Len(item) PROVE All(f, t, p)[e + j] = item[j]
    <2>1. e + j \in 1 .. End(f, t, p, k + 1)
      BY <1>2, <1>3
    <2>2. All(f, t, p)[e + j] = OnWire(f, t, p, k + 1)[e + j]
      BY <1>1, <2>1, EndIs
    <2> HIDE DEF item, w, e
    <2>3. (w \o item)[Len(w) + j] = item[j]
      <3>1. \A i \in 1 .. Len(item) : (w \o item)[Len(w) + i] = item[i]
        BY <1>2, <1>4, Joined, SMTT(20)
      <3>2. QED
        BY <3>1, Zenon
    <2>4. QED
      BY <1>4, <2>2, <2>3, Zenon
  <1> HIDE DEF N, item, e
  <1>6. End(f, t, p, k + 1) <= Len(All(f, t, p)) /\ Len(item) \in Nat \ {0}
    BY <1>1, <1>2, <1>3
  <1>7. QED
    BY <1>2, <1>3, <1>5, <1>6 DEF item, e

LEMMA NextEnd ==
  \A f \in FieldNumbers, t \in ListTypes, p \in BOOLEAN, k \in 0 .. Len(Sent) - 1 :
     \E a \in Nat \ {0} : End(f, t, p, k + 1) = End(f, t, p, k) + a
  <1> TAKE f \in FieldNumbers, t \in ListTypes, p \in BOOLEAN, k \in 0 .. Len(Sent) - 1
  <1> DEFINE a == Len(Item(f, t, p, k + 1))
  <1>1. k + 1 \in 1 .. Len(Sent)
    BY EndIs
  <1>2. a \in Nat \ {0}
    <2>1. Item(f, t, p, k + 1) \in Seq(Nat) /\ a >= 1
      BY <1>1, ItemIs
    <2>2. a \in Nat
      BY <2>1, LenProperties
    <2> HIDE DEF a
    <2>3. QED
      BY <2>1, <2>2
  <1>3. End(f, t, p, k + 1) = End(f, t, p, k) + a
    BY EndIs
  <1> HIDE DEF a
  <1>4. QED
    BY <1>2, <1>3

LEMMA Between == \A a, b, c \in Nat : (a < b \/ a = 0) /\ b < c => a < c
  OBVIOUS

LEMMA FirstEnd ==
  ASSUME NEW f \in FieldNumbers, NEW t \in ListTypes, NEW p \in BOOLEAN, 0 < Len(Sent)
  PROVE  End(f, t, p, 0) < End(f, t, p, 1) /\ End(f, t, p, 1) \in Nat
  <1>1. 0 \in 0 .. Len(Sent) /\ 1 \in 0 .. Len(Sent) /\ 0 <= 1
    BY EndIs
  <1> DEFINE a == End(f, t, p, 0)
             b == End(f, t, p, 1)
  <1>2. a \in Nat /\ b \in Nat
    BY <1>1, EndIs
  <1>3. b >= a + (1 - 0)
    BY <1>1, EndIs
  <1> HIDE DEF a, b
  <1>4. a < b
    BY <1>2, <1>3
  <1>5. QED
    BY <1>2, <1>4 DEF a, b

(* The stream is in the list, up to limit L; it is at the end of k numbers. *)
Within(in, f, t, p, L) ==
    /\ in \in Stream /\ in.ok
    /\ in.buffer = All(f, t, p) /\ in.limit = L
    /\ in.position <= L /\ L <= Len(All(f, t, p))
At(in, f, t, p, k, L) ==
    Within(in, f, t, p, L) /\ k \in 0 .. Len(Sent) /\ in.position = End(f, t, p, k)

LEMMA Gotten ==
  \A in \in Stream, n \in Nat, v \in Int :
     /\ Got(in, n, v) \in Stream
     /\ Got(in, n, v).buffer = in.buffer /\ Got(in, n, v).limit = in.limit
     /\ Got(in, n, v).position = in.position + n
     /\ Got(in, n, v).ok = in.ok /\ Got(in, n, v).value = v
  BY GotIs

(* The next number is read whole or not at all. *)
LEMMA SentAhead ==
  ASSUME NEW f \in FieldNumbers, NEW t \in ListTypes, NEW p \in BOOLEAN, NEW L \in Nat,
         NEW k \in 0 .. Len(Sent) - 1, NEW in, Within(in, f, t, p, L),
         in.position = End(f, t, p, k) + TagSize(f, t, p)
  PROVE  LET one == ReadPrimitive(t, in)
         IN  IF End(f, t, p, k + 1) <= L
             THEN one.ok /\ one.value = Sent[k + 1] /\ At(one, f, t, p, k + 1, L)
             ELSE ~ one.ok
  <1> DEFINE N == Len(Sent)
             item == Item(f, t, p, k + 1)
             e == End(f, t, p, k)
             next == End(f, t, p, k + 1)
             b == WriteNoTag(t, Sent[k + 1])
             n == TagSize(f, t, p)
             size == Size(t, Sent[k + 1])
             v == Sent[k + 1]
             whole == All(f, t, p)
  <1>1. k + 1 \in 1 .. N /\ k + 1 \in 0 .. N
    BY EndIs
  <1>2. /\ item \in Seq(Nat) /\ next = e + Len(item) /\ e \in Nat /\ next \in Nat
        /\ next <= Len(whole) /\ \A j \in 1 .. Len(item) : whole[e + j] = item[j]
    BY ItemInAll
  <1>3. /\ n \in Nat /\ Len(item) = n + size
        /\ \A j \in 1 .. size : item[n + j] = b[j]
    BY <1>1, ItemIs
  <1>4. size \in Nat /\ b \in Seq(Nat) /\ Len(b) = size
    BY <1>1, SentIs
  <1>5. v \in Nat
    BY <1>1, ListTypeIs
  <1>6. in \in Stream /\ in.ok /\ in.buffer = whole /\ in.limit = L /\ in.position <= L
        /\ L <= Len(whole) /\ in.position = e + n
    BY DEF Within
  <1>7. \A u \in Stream : u.ok /\ Begins(u, b) =>
           ReadPrimitive(t, u) = IF size <= BytesUntilLimit(u) THEN Got(u, size, v) ELSE Failed(u)
    BY <1>1, SentIs
  <1> HIDE DEF N, item, e, next, b, n, size, v, whole
  <1>8. Begins(in, b)
    <2>1. ASSUME NEW i \in 1 .. size PROVE in.buffer[in.position + i] = b[i]
      <3>1. n + i \in 1 .. Len(item) /\ (e + n) + i = e + (n + i)
        BY <1>2, <1>3, <1>4
      <3>2. whole[e + (n + i)] = item[n + i] /\ item[n + i] = b[i]
        BY <1>2, <1>3, <3>1
      <3>3. QED
        BY <1>6, <3>1, <3>2
    <2>2. QED
      BY <1>4, <1>6, <2>1 DEF Begins
  <1>9. ReadPrimitive(t, in) = IF next <= L THEN Got(in, size, v) ELSE Failed(in)
    <2>1. BytesUntilLimit(in) = L - (e + n)
      BY <1>6 DEF BytesUntilLimit
    <2>2. size <= BytesUntilLimit(in) <=> next <= L
      BY <1>2, <1>3, <1>4, <2>1
    <2>3. QED
      BY <1>6, <1>7, <1>8, <2>2
  <1>10. CASE next <= L
    <2> DEFINE one == Got(in, size, v)
    <2>0. v \in Int /\ size \in Nat /\ in \in Stream
      BY <1>4, <1>5, <1>6
    <2> HIDE DEF one
    <2>1. /\ one \in Stream /\ one.buffer = in.buffer /\ one.limit = in.limit
          /\ one.position = in.position + size /\ one.ok = in.ok /\ one.value = v
      BY <2>0, Gotten, Zenon DEF one
    <2>2. ReadPrimitive(t, in) = one
      BY <1>9, <1>10 DEF one
    <2>3. one.position = next
      BY <1>2, <1>3, <1>4, <1>6, <2>1
    <2>4. one.ok = TRUE
      BY <1>6, <2>1 DEF Stream
    <2>5. At(one, f, t, p, k + 1, L)
      BY <1>1, <1>6, <1>10, <2>1, <2>3, <2>4 DEF At, Within, N, next, whole
    <2>6. QED
      BY <1>10, <2>1, <2>2, <2>4, <2>5 DEF v, next
  <1>11. CASE ~ (next <= L)
    <2>1. ReadPrimitive(t, in) = Failed(in) /\ Failed(in).ok = FALSE
      BY <1>6, <1>9, <1>11, FailedIs DEF Failed, Stream
    <2>2. QED
      BY <1>11, <2>1, Zenon DEF next
  <1>12. QED
    BY <1>10, <1>11

(* So is the tag before it. *)
LEMMA TagAhead ==
  ASSUME NEW f \in FieldNumbers, NEW t \in ListTypes, NEW L \in Nat,
         NEW k \in 0 .. Len(Sent) - 1, NEW in, At(in, f, t, FALSE, k, L)
  PROVE  /\ Begins(in, WriteVarint(PlainTag(f, t)))
         /\ TagSize(f, t, FALSE) = VarintSize(PlainTag(f, t))
         /\ End(f, t, FALSE, k) + TagSize(f, t, FALSE) < End(f, t, FALSE, k + 1)
  <1> DEFINE N == Len(Sent)
             item == Item(f, t, FALSE, k + 1)
             e == End(f, t, FALSE, k)
             next == End(f, t, FALSE, k + 1)
             b == WriteVarint(PlainTag(f, t))
             n == TagSize(f, t, FALSE)
             size == Size(t, Sent[k + 1])
             whole == All(f, t, FALSE)
  <1>1. k + 1 \in 1 .. N /\ FALSE \in BOOLEAN
    BY EndIs
  <1>2. /\ item \in Seq(Nat) /\ next = e + Len(item) /\ e \in Nat /\ next \in Nat
        /\ \A j \in 1 .. Len(item) : whole[e + j] = item[j]
    BY ItemInAll
  <1>3. /\ n \in Nat /\ Len(item) = n + size
        /\ \A j \in 1 .. n : item[j] = b[j]
    BY <1>1, ItemIs, ZenonT(30)
  <1>4. size \in Nat \ {0}
    BY <1>1, SentIs
  <1>5. n = VarintSize(PlainTag(f, t)) /\ Len(b) = n
    <2> DEFINE w == WireTypeForFieldType(t)
    <2>1. w \in 0 .. 7 /\ PlainTag(f, t) = MakeTag(f, w)
      BY PlainTagIs
    <2> HIDE DEF w
    <2>2. Len(b) = VarintSize(PlainTag(f, t))
      BY <2>1, TagIs
    <2>3. QED
      BY <2>2 DEF TagSize
  <1>6. /\ in.buffer = whole /\ in.limit = L /\ in.position <= L
        /\ L <= Len(whole) /\ in.position = e
    BY DEF At, Within
  <1> HIDE DEF N, item, e, next, b, n, size, whole
  <1>7. Begins(in, b)
    <2>1. ASSUME NEW i \in 1 .. n PROVE in.buffer[in.position + i] = b[i]
      <3>1. i \in 1 .. Len(item)
        BY <1>3, <1>4
      <3>2. QED
        BY <1>2, <1>3, <1>6, <3>1
    <2>2. QED
      BY <1>5, <1>6, <2>1 DEF Begins
  <1>8. e + n < next
    BY <1>2, <1>3, <1>4
  <1>9. QED
    BY <1>5, <1>7, <1>8 DEF b, n, e, next

-----------------------------------------------------------------------------
(* The turns of a loop *)

OneTurn(loop, s, n, type) ==
  CASE loop = "row" -> RowTurn(s, n, type)
    [] loop = "packed" -> PackedTurn(s, type)
    [] loop = "parser" -> ParserTurn(s, n, type)

AreTurns(g, loop, first, a, type, m) ==
  g = [k \in 0 .. m |-> IF k = 0 THEN first ELSE OneTurn(loop, g[k - 1], a, type)]

LEMMA TurnsExist ==
  ASSUME NEW loop, NEW first, NEW a, NEW type, NEW m \in Nat
  PROVE  \E g : AreTurns(g, loop, first, a, type, m)
  <1> DEFINE IsTurns(g, n) == g = [k \in 0 .. n |-> IF k = 0 THEN first
                                                   ELSE OneTurn(loop, g[k - 1], a, type)]
             S == {n \in Nat : \E g : IsTurns(g, n)}
  <1>2. 0 \in S
    <2>1. IsTurns([k \in 0 .. 0 |-> first], 0)
      OBVIOUS
    <2>2. QED
      BY <2>1
  <1>3. \A n \in Nat : n \in S => n + 1 \in S
    <2> SUFFICES ASSUME NEW n \in Nat, n \in S
                 PROVE  n + 1 \in S
      OBVIOUS
    <2>1. PICK g : IsTurns(g, n)
      BY Zenon
    <2> DEFINE h == [k \in 0 .. n + 1 |-> IF k <= n THEN g[k] ELSE OneTurn(loop, g[n], a, type)]
    <2>2. \A k \in 0 .. n : g[k] = IF k = 0 THEN first ELSE OneTurn(loop, g[k - 1], a, type)
      BY <2>1
    <2>3. ASSUME NEW k \in 0 .. n + 1
          PROVE  h[k] = IF k = 0 THEN first ELSE OneTurn(loop, h[k - 1], a, type)
      <3>1. CASE k = 0
        BY <2>2, <3>1
      <3>2. CASE k # 0 /\ k <= n
        <4>1. h[k] = g[k] /\ h[k - 1] = g[k - 1] /\ k \in 0 .. n
          BY <3>2
        <4>2. QED
          BY <2>2, <3>2, <4>1
      <3>3. CASE k = n + 1
        <4>1. k - 1 = n /\ k # 0 /\ ~ (k <= n) /\ n \in 0 .. n + 1 /\ n <= n
          BY <3>3
        <4>2. h[k] = OneTurn(loop, g[n], a, type) /\ h[n] = g[n]
          BY <3>3, <4>1, Zenon
        <4>3. QED
          BY <3>3, <4>1, <4>2, Zenon
      <3>4. QED
        BY <3>1, <3>2, <3>3
    <2>4. h = [k \in 0 .. n + 1 |-> h[k]]
      OBVIOUS
    <2> HIDE DEF h
    <2>5. IsTurns(h, n + 1)
      BY <2>3, <2>4
    <2>6. n + 1 \in Nat
      OBVIOUS
    <2>7. QED
      BY <2>5, <2>6, Zenon
  <1>4. m \in S
    BY <1>2, <1>3, SetInduction
  <1>5. QED
    BY <1>4, Zenon DEF AreTurns

IsRow(g, l, in, tag, type, room) ==
    /\ g[0] = AtStart(l, in)
    /\ \A k \in 0 .. room - 1 : g[k + 1] = RowTurn(g[k], tag, type)
    /\ ReadRow(l, in, tag, type, room) = g[room]

LEMMA RowTurns ==
  ASSUME NEW l, NEW in, NEW tag, NEW type, NEW room \in Nat
  PROVE  \E g : IsRow(g, l, in, tag, type, room)
  <1> DEFINE IsAfter(g) == g = [k \in 0 .. room |-> IF k = 0 THEN AtStart(l, in)
                                                   ELSE RowTurn(g[k - 1], tag, type)]
             after == CHOOSE g : IsAfter(g)
  <1>1. \A s : OneTurn("row", s, tag, type) = RowTurn(s, tag, type)
    BY DEF OneTurn
  <1>2. \E g : IsAfter(g)
    <2>1. PICK g : AreTurns(g, "row", AtStart(l, in), tag, type, room)
      BY TurnsExist
    <2>2. IsAfter(g)
      BY <1>1, <2>1 DEF AreTurns
    <2>3. QED
      BY <2>2
  <1>3. IsAfter(after)
    BY <1>2, Zenon
  <1>4. ReadRow(l, in, tag, type, room) = after[room]
    BY Zenon DEF ReadRow
  <1> HIDE DEF after
  <1>5. \A k \in 0 .. room : after[k] = IF k = 0 THEN AtStart(l, in)
                                       ELSE RowTurn(after[k - 1], tag, type)
    BY <1>3
  <1>6. ASSUME NEW k \in 0 .. room - 1 PROVE after[k + 1] = RowTurn(after[k], tag, type)
    <2>1. k + 1 \in 0 .. room /\ k + 1 # 0 /\ (k + 1) - 1 = k
      OBVIOUS
    <2>2. QED
      BY <1>5, <2>1
  <1>7. after[0] = AtStart(l, in)
    BY <1>5
  <1>8. QED
    BY <1>4, <1>6, <1>7 DEF IsRow

IsPack(g, l, in, type) ==
    /\ g[0] = AtStart(l, in)
    /\ \A k \in 0 .. BytesUntilLimit(in) - 1 : g[k + 1] = PackedTurn(g[k], type)
    /\ ReadToLimit(l, in, type) = g[BytesUntilLimit(in)]

LEMMA PackedTurns ==
  ASSUME NEW l, NEW in, NEW type, BytesUntilLimit(in) \in Nat
  PROVE  \E g : IsPack(g, l, in, type)
  <1> DEFINE m == BytesUntilLimit(in)
             IsAfter(g) == g = [k \in 0 .. m |-> IF k = 0 THEN AtStart(l, in)
                                                ELSE PackedTurn(g[k - 1], type)]
             after == CHOOSE g : IsAfter(g)
  <1>1. \A s : OneTurn("packed", s, 0, type) = PackedTurn(s, type)
    BY DEF OneTurn
  <1>2. \E g : IsAfter(g)
    <2>1. PICK g : AreTurns(g, "packed", AtStart(l, in), 0, type, m)
      BY TurnsExist
    <2>2. IsAfter(g)
      BY <1>1, <2>1 DEF AreTurns
    <2>3. QED
      BY <2>2
  <1>3. IsAfter(after)
    BY <1>2, Zenon
  <1>4. ReadToLimit(l, in, type) = after[m]
    BY Zenon DEF ReadToLimit
  <1>0. m \in Nat
    OBVIOUS
  <1> HIDE DEF after, m
  <1>5. \A k \in 0 .. m : after[k] = IF k = 0 THEN AtStart(l, in)
                                    ELSE PackedTurn(after[k - 1], type)
    BY <1>3
  <1>6. ASSUME NEW k \in 0 .. m - 1 PROVE after[k + 1] = PackedTurn(after[k], type)
    <2>1. k + 1 \in 0 .. m /\ k + 1 # 0 /\ (k + 1) - 1 = k
      BY <1>0
    <2>2. QED
      BY <1>5, <2>1
  <1>7. after[0] = AtStart(l, in)
    BY <1>0, <1>5
  <1>8. QED
    BY <1>4, <1>6, <1>7 DEF m, IsPack

IsParse(g, l, in, f, type) ==
    /\ g[0] = AtStart(l, in)
    /\ \A k \in 0 .. BytesUntilLimit(in) : g[k + 1] = ParserTurn(g[k], f, type)
    /\ ReadList(l, in, f, type) = g[BytesUntilLimit(in) + 1].list

LEMMA ParserTurns ==
  ASSUME NEW l, NEW in, NEW f, NEW type, BytesUntilLimit(in) \in Nat
  PROVE  \E g : IsParse(g, l, in, f, type)
  <1> DEFINE m == BytesUntilLimit(in) + 1
             IsAfter(g) == g = [k \in 0 .. m |-> IF k = 0 THEN AtStart(l, in)
                                                ELSE ParserTurn(g[k - 1], f, type)]
             after == CHOOSE g : IsAfter(g)
  <1>0. m \in Nat
    OBVIOUS
  <1>1. \A s : OneTurn("parser", s, f, type) = ParserTurn(s, f, type)
    BY DEF OneTurn
  <1>2. \E g : IsAfter(g)
    <2>1. PICK g : AreTurns(g, "parser", AtStart(l, in), f, type, m)
      BY <1>0, TurnsExist
    <2>2. IsAfter(g)
      BY <1>1, <2>1 DEF AreTurns
    <2>3. QED
      BY <2>2
  <1>3. IsAfter(after)
    BY <1>2, Zenon
  <1>4. ReadList(l, in, f, type) = after[m].list
    BY Zenon DEF ReadList
  <1>9. \A k \in 0 .. BytesUntilLimit(in) : k \in 0 .. m - 1
    OBVIOUS
  <1> HIDE DEF after, m
  <1>5. \A k \in 0 .. m : after[k] = IF k = 0 THEN AtStart(l, in)
                                    ELSE ParserTurn(after[k - 1], f, type)
    BY <1>3
  <1>6. ASSUME NEW k \in 0 .. m - 1 PROVE after[k + 1] = ParserTurn(after[k], f, type)
    <2>1. k + 1 \in 0 .. m /\ k + 1 # 0 /\ (k + 1) - 1 = k
      BY <1>0
    <2>2. QED
      BY <1>5, <2>1
  <1>7. after[0] = AtStart(l, in)
    BY <1>0, <1>5
  <1>8. QED
    BY <1>4, <1>6, <1>7, <1>9 DEF m, IsParse

-----------------------------------------------------------------------------
(* What is read into a list *)

(* A list to which the first k numbers were added. *)
With(base, k) == base \o SubSeq(Sent, 1, k)

LEMMA WithIs ==
  ASSUME NEW base \in Seq(Kept)
  PROVE  /\ With(base, 0) = base
         /\ \A k \in 0 .. Len(Sent) : Len(With(base, k)) = Len(base) + k
         /\ \A k \in 0 .. Len(Sent) - 1 :
               Sent[k + 1] \in Kept /\ With(base, k + 1) = Append(With(base, k), Sent[k + 1])
  <1>1. Sent \in Seq(Kept) /\ Len(Sent) \in Nat /\ Len(base) \in Nat
    <2>1. TwoTo[W32] \in Nat
      BY Widths, TwoToIs
    <2>2. \A n \in 0 .. TwoTo[W32] - 1 : n \in Kept
      BY <2>1 DEF Kept
    <2> DEFINE W == 0 .. TwoTo[W32] - 1
    <2>3. Sent \in Seq(W) /\ W \subseteq Kept
      BY <2>2, ListAssumption
    <2> HIDE DEF W
    <2>4. QED
      BY <2>3, LenProperties
  <1>2. \A k \in 0 .. Len(Sent) :
           /\ SubSeq(Sent, 1, k) \in Seq(Kept) /\ Len(SubSeq(Sent, 1, k)) = k
           /\ \A i \in 1 .. k : SubSeq(Sent, 1, k)[i] = Sent[i]
    BY <1>1, Prefix
  <1>3. \A k \in 0 .. Len(Sent) : With(base, k) \in Seq(Kept) /\ Len(With(base, k)) = Len(base) + k
    BY <1>1, <1>2, Joined DEF With
  <1>4. With(base, 0) = base
    <2>1. SubSeq(Sent, 1, 0) = <<>>
      BY <1>1, <1>2
    <2>2. QED
      BY <2>1, ConcatEmptySeq DEF With
  <1>5. ASSUME NEW k \in 0 .. Len(Sent) - 1
        PROVE  Sent[k + 1] \in Kept /\ With(base, k + 1) = Append(With(base, k), Sent[k + 1])
    <2> DEFINE s == SubSeq(Sent, 1, k)
               u == SubSeq(Sent, 1, k + 1)
               v == Sent[k + 1]
    <2>1. k \in 0 .. Len(Sent) /\ k + 1 \in 0 .. Len(Sent) /\ k + 1 \in 1 .. Len(Sent)
      BY <1>1
    <2>2. v \in Kept
      BY <1>1, <2>1, ElementOfSeq
    <2>3. /\ s \in Seq(Kept) /\ Len(s) = k /\ u \in Seq(Kept) /\ Len(u) = k + 1
          /\ \A i \in 1 .. k : s[i] = Sent[i]
          /\ \A i \in 1 .. k + 1 : u[i] = Sent[i]
      BY <1>2, <2>1
    <2>4. u[k + 1] = v
      BY <2>1, <2>3
    <2>5. With(base, k) = base \o s /\ With(base, k + 1) = base \o u
      BY DEF With
    <2> HIDE DEF s, u, v
    <2>6. u = Append(s, v)
      <3>1. /\ Append(s, v) \in Seq(Kept) /\ Len(Append(s, v)) = k + 1
            /\ Append(s, v)[k + 1] = v /\ \A i \in 1 .. k : Append(s, v)[i] = s[i]
        BY <2>2, <2>3, AppendProperties
      <3>2. ASSUME NEW i \in 1 .. k + 1 PROVE u[i] = Append(s, v)[i]
        <4>1. i \in 1 .. k \/ i = k + 1
          OBVIOUS
        <4>2. QED
          BY <2>3, <2>4, <3>1, <4>1
      <3>3. QED
        BY <2>3, <3>1, <3>2, SeqEqual
    <2>7. base \o Append(s, v) = Append(base \o s, v)
      BY <2>2, <2>3
    <2>8. QED
      BY <2>2, <2>5, <2>6, <2>7 DEF v
  <1>6. QED
    BY <1>3, <1>4, <1>5

(* The loops are at a number, or they have read what there is. *)
Reached(s, base, f, t, p, k, L) ==
    /\ s = [list |-> s.list, in |-> s.in]
    /\ At(s.in, f, t, p, k, L) /\ IsList(s.list, With(base, k))
LastRead(f, t, p, k, L) ==
    /\ k \in 0 .. Len(Sent)
    /\ k > 0 => End(f, t, p, k) <= L
    /\ k < Len(Sent) => L < End(f, t, p, k + 1)
Ended(s, base, f, t, p, L) ==
    /\ s = [list |-> s.list, in |-> s.in]
    /\ ~ s.in.ok /\ \E k : LastRead(f, t, p, k, L) /\ IsList(s.list, With(base, k))

LEMMA RowTurnIs ==
  ASSUME NEW f \in FieldNumbers, NEW t \in ListTypes, NEW L \in Nat, NEW base \in Seq(Kept),
         NEW k, NEW s, Reached(s, base, f, t, FALSE, k, L),
         Len(base) + k < Capacity(s.list)
  PROVE  LET u == RowTurn(s, PlainTag(f, t), t)
         IN  \/ u = s
             \/ /\ Reached(u, base, f, t, FALSE, k + 1, L)
                /\ Capacity(u.list) = Capacity(s.list)
             \/ Ended(u, base, f, t, FALSE, L) /\ L < Len(All(f, t, FALSE))
  <1> DEFINE u == RowTurn(s, PlainTag(f, t), t)
             N == Len(Sent)
             tag == PlainTag(f, t)
             size == VarintSize(tag)
             in == [s.in EXCEPT !.position = @ + size]
             one == ReadPrimitive(t, in)
             e == End(f, t, FALSE, k)
             next == End(f, t, FALSE, k + 1)
             whole == All(f, t, FALSE)
  <1>1. CASE ~ ExpectTag(s.in, tag)
    BY <1>1 DEF RowTurn
  <1>2. CASE ExpectTag(s.in, tag)
    <2>1. /\ s.in \in Stream /\ s.in.ok /\ s.in.buffer = whole /\ s.in.limit = L
          /\ s.in.position <= L /\ L <= Len(whole) /\ k \in 0 .. N /\ s.in.position = e
          /\ IsList(s.list, With(base, k))
      BY DEF Reached, At, Within
    <2>2. size \in Nat \ {0}
      <3> DEFINE w == WireTypeForFieldType(t)
      <3>1. w \in 0 .. 7 /\ PlainTag(f, t) = MakeTag(f, w)
        BY PlainTagIs
      <3> HIDE DEF w
      <3>2. QED
        BY <3>1, TagIs
    <2>3. e \in Nat /\ N \in Nat /\ Len(whole) = End(f, t, FALSE, N)
      BY <2>1, EndIs
    <2>4. e + size <= L
      <3>1. BytesUntilLimit(s.in) >= size
        BY <1>2 DEF ExpectTag
      <3>2. BytesUntilLimit(s.in) = L - e
        BY <2>1 DEF BytesUntilLimit
      <3> HIDE DEF size, e, whole, N
      <3>3. QED
        BY <2>2, <2>3, <3>1, <3>2
    <2>5. k \in 0 .. N - 1
      <3>1. k = N => e = Len(whole)
        BY <2>3
      <3> HIDE DEF size, e, whole, N
      <3>4. size > 0 /\ size \in Nat /\ e \in Nat
        BY <2>2, <2>3
      <3>6. L <= Len(whole)
        BY <2>1, Zenon
      <3>2. SUFFICES ASSUME k = N PROVE FALSE
        BY <2>1, <2>3
      <3>5. e + size <= e
        BY <2>4, <3>1, <3>2, <3>4, <3>6
      <3>3. QED
        BY <3>4, <3>5
    <2>6. /\ Within(in, f, t, FALSE, L)
          /\ in.position = e + TagSize(f, t, FALSE)
      <3>1. TagSize(f, t, FALSE) = size
        BY DEF TagSize
      <3> HIDE DEF size, whole, e
      <3>2. /\ in \in Stream /\ in.ok /\ in.buffer = whole /\ in.limit = L
            /\ in.position = e + size
        BY <2>1, <2>2, <2>3, SMTT(20) DEF Stream
      <3>3. QED
        BY <2>1, <2>4, <3>1, <3>2 DEF Within, whole
    <2>7. IF next <= L THEN one.ok /\ one.value = Sent[k + 1] /\ At(one, f, t, FALSE, k + 1, L)
          ELSE ~ one.ok
      <3> HIDE DEF in
      <3>1. FALSE \in BOOLEAN
        OBVIOUS
      <3>2. QED
        BY <2>5, <2>6, <3>1, SentAhead
    <2>8. u = [list |-> IF one.ok THEN AddedAlreadyReserved(s.list, one.value) ELSE s.list,
               in |-> one]
      BY <1>2, <2>1 DEF RowTurn
    <2>12. u = [list |-> u.list, in |-> u.in]
      BY <2>8
    <2> HIDE DEF one, u
    <2>9. CASE next <= L
      <3> DEFINE a == AddedAlreadyReserved(s.list, Sent[k + 1])
      <3>1. u.list = a /\ u.in = one /\ At(one, f, t, FALSE, k + 1, L)
        BY <2>7, <2>8, <2>9
      <3>2. IsList(a, With(base, k + 1)) /\ Capacity(a) = Capacity(s.list)
        <4>1. Sent[k + 1] \in Kept /\ With(base, k + 1) = Append(With(base, k), Sent[k + 1])
              /\ Len(With(base, k)) = Len(base) + k
          BY <2>1, <2>5, WithIs
        <4>2. s.list.size < Capacity(s.list) /\ s.list.elements \in Seq(Word)
              /\ s.list.size \in Nat
          BY <2>1, <4>1 DEF IsList
        <4>3. IsList(a, With(base, k + 1))
          BY <2>1, <4>1, <4>2, AddedReservedIs
        <4>4. Capacity(a) = Capacity(s.list)
          <5> DEFINE x == s.list.elements
                     i == s.list.size + 1
                     v == Sent[k + 1]
          <5>1. x \in Seq(Word) /\ i \in 1 .. Len(x) /\ v \in Word
            BY <4>1, <4>2, LenProperties DEF Capacity, Word
          <5>2. Capacity(a) = Len([x EXCEPT ![i] = v])
            BY DEF AddedAlreadyReserved, Capacity
          <5> HIDE DEF x, i, v
          <5>3. Len([x EXCEPT ![i] = v]) = Len(x)
            BY <5>1, ExceptSeq
          <5>4. QED
            BY <5>2, <5>3 DEF Capacity, x
        <4>5. QED
          BY <4>3, <4>4
      <3> HIDE DEF a
      <3>3. QED
        BY <2>12, <3>1, <3>2 DEF Reached, u
    <2>10. CASE ~ (next <= L)
      <3>1. u.list = s.list /\ u.in = one /\ ~ one.ok
        BY <2>7, <2>8, <2>10
      <3>2. next \in Nat /\ next <= Len(whole)
        BY <2>5, ItemInAll
      <3>3. LastRead(f, t, FALSE, k, L) /\ L < Len(whole)
        <4> HIDE DEF e, next, whole
        <4>1. e <= L /\ L < next /\ L < Len(whole)
          BY <2>1, <2>10, <3>2
        <4> USE DEF e, next, whole
        <4>2. QED
          BY <2>1, <4>1 DEF LastRead
      <3>4. Ended(u, base, f, t, FALSE, L)
        BY <2>1, <2>12, <3>1, <3>3 DEF Ended
      <3>5. QED
        BY <3>3, <3>4 DEF u
    <2>11. QED
      BY <2>9, <2>10
  <1>3. QED
    BY <1>1, <1>2

LEMMA ReadRowIs ==
  ASSUME NEW f \in FieldNumbers, NEW t \in ListTypes, NEW L \in Nat, NEW base \in Seq(Kept),
         NEW k \in Nat, NEW l, NEW in, Reached(AtStart(l, in), base, f, t, FALSE, k, L),
         NEW room \in Nat, Len(base) + k + room <= Capacity(l)
  PROVE  LET u == ReadRow(l, in, PlainTag(f, t), t, room)
         IN  \/ \E j \in k .. k + room : Reached(u, base, f, t, FALSE, j, L)
             \/ Ended(u, base, f, t, FALSE, L) /\ L < Len(All(f, t, FALSE))
  <1> DEFINE tag == PlainTag(f, t)
  <1> HIDE DEF tag
  <1>0. PICK g : IsRow(g, l, in, tag, t, room)
    BY RowTurns
  <1>1. /\ g[0] = AtStart(l, in)
        /\ \A n \in 0 .. room - 1 : g[n + 1] = RowTurn(g[n], tag, t)
        /\ ReadRow(l, in, tag, t, room) = g[room]
    BY <1>0 DEF IsRow
  <1> DEFINE There(n, j) == /\ Reached(g[n], base, f, t, FALSE, j, L)
                            /\ Capacity(g[n].list) = Capacity(l)
             Done(n) == Ended(g[n], base, f, t, FALSE, L) /\ L < Len(All(f, t, FALSE))
             S == {n \in Nat : n <= room => (\E j \in k .. k + n : There(n, j)) \/ Done(n)}
  <1>2. Len(base) \in Nat /\ Capacity(l) \in Nat
    <2>1. IsList(l, With(base, k))
      BY DEF Reached, AtStart
    <2>2. QED
      BY <2>1, LenProperties DEF IsList, Capacity
  <1>3. 0 \in S
    <2>0. g[0] = AtStart(l, in)
      BY <1>1
    <2>1. There(0, k)
      <3>1. g[0].list = l
        BY <2>0 DEF AtStart
      <3>2. QED
        BY <2>0, <3>1, Zenon
    <2>2. k \in k .. k + 0
      OBVIOUS
    <2>3. QED
      BY <2>1, <2>2
  <1>4. ASSUME NEW n \in Nat, n \in S PROVE n + 1 \in S
    <2> HIDE DEF There, Done
    <2> SUFFICES ASSUME n + 1 <= room
                 PROVE  (\E j \in k .. k + (n + 1) : There(n + 1, j)) \/ Done(n + 1)
      OBVIOUS
    <2>1. g[n + 1] = RowTurn(g[n], tag, t)
      BY <1>1
    <2>2. (\E j \in k .. k + n : There(n, j)) \/ Done(n)
      BY <1>4
    <2>3. CASE Done(n)
      <3>1. g[n + 1] = g[n]
        BY <2>1, <2>3 DEF RowTurn, Ended, Done
      <3>2. QED
        BY <2>3, <3>1 DEF Done
    <2>4. ASSUME NEW j \in k .. k + n, There(n, j)
          PROVE  (\E i \in k .. k + (n + 1) : There(n + 1, i)) \/ Done(n + 1)
      <3>0. Reached(g[n], base, f, t, FALSE, j, L) /\ Capacity(g[n].list) = Capacity(l)
        BY <2>4 DEF There
      <3>1. Len(base) + j < Capacity(g[n].list)
        BY <1>2, <3>0
      <3>2. j \in k .. k + (n + 1) /\ j + 1 \in k .. k + (n + 1)
        OBVIOUS
      <3> DEFINE u == RowTurn(g[n], tag, t)
      <3>3. \/ u = g[n]
            \/ /\ Reached(u, base, f, t, FALSE, j + 1, L)
               /\ Capacity(u.list) = Capacity(g[n].list)
            \/ Ended(u, base, f, t, FALSE, L) /\ L < Len(All(f, t, FALSE))
        BY <3>0, <3>1, RowTurnIs DEF tag
      <3>4. There(n + 1, j) \/ There(n + 1, j + 1) \/ Done(n + 1)
        BY <2>1, <3>0, <3>3, Zenon DEF There, Done
      <3> HIDE DEF u
      <3>5. QED
        BY <3>2, <3>4
    <2>5. QED
      BY <2>2, <2>3, <2>4
  <1>5. room \in S
    BY <1>3, <1>4, SetInduction
  <1>6. (\E j \in k .. k + room : There(room, j)) \/ Done(room)
    <2> HIDE DEF There, Done
    <2>1. QED
      BY <1>5
  <1>7. QED
    BY <1>1, <1>6, Zenon DEF tag

(* Numbers of a fixed size are as far apart. *)
FixedTypes == Fixed32Types \cup Fixed64Types

LEMMA FixedEnds ==
  ASSUME NEW f \in FieldNumbers, NEW t \in ListTypes \cap FixedTypes, NEW k \in 0 .. Len(Sent)
  PROVE  LET each == PerValueSize(PlainTag(f, t), WireWidth(t) \div 8)
         IN  /\ each \in Nat \ {0}
             /\ \A j \in k .. Len(Sent) :
                   End(f, t, FALSE, j) = End(f, t, FALSE, k) + (j - k) * each
  <1> DEFINE each == PerValueSize(PlainTag(f, t), WireWidth(t) \div 8)
             N == Len(Sent)
             E(j) == End(f, t, FALSE, j)
             S == {m \in Nat : k + m <= N => E(k + m) = E(k) + m * each}
             tag == PlainTag(f, t)
             size == VarintSize(tag)
             width == WireWidth(t) \div 8
  <1>1. N \in Nat /\ FALSE \in BOOLEAN
    BY EndIs
  <1>2. width \in Nat /\ width > 0
    <2>1. WireWidth(t) \in Nat /\ WireWidth(t) > 8
      BY WireAssumption DEF WireWidth
    <2>2. QED
      BY <2>1
  <1>3. size \in Nat
    <2> DEFINE w == WireTypeForFieldType(t)
    <2>1. w \in 0 .. 7 /\ PlainTag(f, t) = MakeTag(f, w)
      BY PlainTagIs
    <2> HIDE DEF w
    <2>2. QED
      BY <2>1, TagIs
  <1>4. each = size + width
    BY DEF PerValueSize
  <1>5. \A n : Size(t, n) = width
    BY DEF Size, WireWidth, FixedTypes, Fixed32Types, Fixed64Types
  <1>6. ASSUME NEW j \in 0 .. N - 1 PROVE E(j + 1) = E(j) + each
    <2>1. j + 1 \in 1 .. N
      BY <1>1
    <2>2. Len(Item(f, t, FALSE, j + 1)) = TagSize(f, t, FALSE) + Size(t, Sent[j + 1])
      BY <1>1, <2>1, ItemIs, ZenonT(30)
    <2>3. E(j + 1) = E(j) + Len(Item(f, t, FALSE, j + 1))
      BY <1>1, EndIs
    <2>4. TagSize(f, t, FALSE) = size /\ Size(t, Sent[j + 1]) = width
      BY <1>5 DEF TagSize
    <2> HIDE DEF size, width, each, E
    <2>5. QED
      BY <1>4, <2>2, <2>3, <2>4
  <1>7. \A j \in 0 .. N : E(j) \in Nat
    BY <1>1, EndIs
  <1>8. each \in Nat /\ each > 0
    <2> HIDE DEF size, width, each
    <2>1. QED
      BY <1>2, <1>3, <1>4
  <1> HIDE DEF N, E, each, size, width
  <1>9. 0 \in S
    BY <1>1, <1>7, <1>8
  <1>10. ASSUME NEW m \in Nat, m \in S PROVE m + 1 \in S
    <2> SUFFICES ASSUME k + (m + 1) <= N PROVE E(k + (m + 1)) = E(k) + (m + 1) * each
      OBVIOUS
    <2> DEFINE h == k + m
               d == m * each
    <2>1. h \in 0 .. N - 1 /\ h \in 0 .. N /\ k \in 0 .. N /\ k + (m + 1) = h + 1
      BY <1>1 DEF N
    <2>2. E(h) = E(k) + d
      BY <1>1, <1>10, <2>1
    <2>3. (m + 1) * each = d + each /\ d \in Nat
      BY <1>8
    <2> HIDE DEF h, d
    <2>4. E(h + 1) = E(h) + each /\ E(h) \in Nat /\ E(k) \in Nat
      BY <1>6, <1>7, <2>1
    <2>5. E(h + 1) = E(k) + (d + each)
      BY <1>8, <2>2, <2>3, <2>4
    <2>6. QED
      BY <2>1, <2>3, <2>5
  <1>11. Nat \subseteq S
    BY <1>9, <1>10, SetInduction
  <1>12. ASSUME NEW j \in k .. N PROVE E(j) = E(k) + (j - k) * each
    <2>1. j - k \in S /\ k + (j - k) = j /\ k + (j - k) <= N
      BY <1>1, <1>11 DEF N
    <2>2. QED
      BY <2>1
  <1>13. each \in Nat \ {0}
    BY <1>8
  <1>14. QED
    BY <1>12, <1>13, Zenon DEF N, E, each

LEMMA Ordered ==
  ASSUME NEW a \in Nat, NEW b \in Nat, NEW m \in Nat, a <= b
  PROVE  a * m <= b * m /\ a * m \in Nat
  <1>1. b * m = a * m + (b - a) * m /\ b - a \in Nat
    OBVIOUS
  <1>2. (b - a) * m \in Nat /\ a * m \in Nat
    BY <1>1
  <1>3. QED
    BY <1>1, <1>2

LEMMA ReadFixedRowIs ==
  ASSUME NEW f \in FieldNumbers, NEW t \in ListTypes \cap FixedTypes, NEW L \in Nat,
         NEW base \in Seq(Kept), NEW k \in Nat, NEW l, NEW in,
         Reached(AtStart(l, in), base, f, t, FALSE, k, L),
         NEW room \in Nat, Len(base) + k + room <= Capacity(l)
  PROVE  \E j \in k .. k + room :
            Reached(ReadFixedRow(l, in, PlainTag(f, t), t, room), base, f, t, FALSE, j, L)
  <1> DEFINE tag == PlainTag(f, t)
             each == PerValueSize(tag, WireWidth(t) \div 8)
             left == BytesUntilLimit(in)
             available == Min({room, left \div each})
             M == Len(All(f, t, FALSE))
             N == Len(Sent)
             E(j) == End(f, t, FALSE, j)
             wide == [in EXCEPT !.limit = Len(in.buffer)]
             row == ReadRow(l, wide, tag, t, available)
             u == [row EXCEPT !.in.limit = in.limit]
  <1>1. ReadFixedRow(l, in, tag, t, room) = u
    BY Zenon DEF ReadFixedRow, WireWidth
  <1>2. /\ At(in, f, t, FALSE, k, L) /\ IsList(l, With(base, k))
    BY DEF Reached, AtStart
  <1>3. /\ in \in Stream /\ in.ok /\ in.buffer = All(f, t, FALSE) /\ in.limit = L
        /\ in.position <= L /\ L <= M /\ k \in 0 .. N /\ in.position = E(k)
    BY <1>2 DEF At, Within
  <1>4. N \in Nat /\ M \in Nat /\ \A j \in 0 .. N : E(j) \in Nat
    <2>1. FALSE \in BOOLEAN
      OBVIOUS
    <2>2. QED
      BY <2>1, EndIs, LenProperties
  <1>5. each \in Nat \ {0} /\ \A j \in k .. N : E(j) = E(k) + (j - k) * each
    BY <1>3, FixedEnds
  <1>6. left = L - E(k) /\ left \in Nat
    <2>1. left = L - E(k)
      BY <1>3 DEF BytesUntilLimit
    <2> HIDE DEF left, E
    <2>2. QED
      BY <1>3, <1>4, <2>1
  <1> HIDE DEF left, each, E, M, N
  <1>7. available \in 0 .. room /\ available * each <= left
    <2> DEFINE q == left \div each
    <2>0. left \in Int
      BY <1>6
    <2>1. left = each * q + (left % each) /\ left % each \in 0 .. each - 1 /\ q \in Nat
      <3>1. left = each * q + (left % each) /\ left % each \in 0 .. each - 1
        BY <1>5, <2>0, DivMod
      <3>2. q \in Nat
        BY <1>5, <1>6, NatDiv
      <3>3. QED
        BY <3>1, <3>2
    <2>2. available = CHOOSE x \in {room, q} : \A y \in {room, q} : x <= y
      BY DEF Min
    <2> HIDE DEF q, available
    <2>3. (available = room \/ available = q) /\ available <= room /\ available <= q
      <3>1. \E x \in {room, q} : \A y \in {room, q} : x <= y
        BY <2>1
      <3>2. available \in {room, q} /\ \A y \in {room, q} : available <= y
        BY <2>2, <3>1
      <3>3. QED
        BY <3>2
    <2>4. available \in Nat /\ available * each <= q * each
      BY <1>5, <2>1, <2>3, Ordered
    <2>5. q * each \in Nat /\ q * each <= left
      <3>1. q * each = each * q /\ each * q \in Nat
        BY <1>5, <2>1
      <3>2. each * q <= left
        BY <1>6, <2>1, <3>1
      <3>3. QED
        BY <3>1, <3>2
    <2>6. available * each \in Nat
      BY <1>5, <2>4
    <2> DEFINE x == available * each
               y == q * each
    <2>7. x <= y /\ y <= left /\ x \in Nat /\ y \in Nat
      BY <2>4, <2>5, <2>6
    <2> HIDE DEF x, y
    <2>8. x <= left
      BY <1>6, <2>7
    <2>9. available \in 0 .. room
      BY <2>3, <2>4
    <2>10. QED
      BY <2>8, <2>9 DEF x
  <1>8. Reached(AtStart(l, wide), base, f, t, FALSE, k, M)
    <2>1. /\ wide \in Stream /\ wide.ok /\ wide.buffer = in.buffer /\ wide.limit = M
          /\ wide.position = in.position
      BY <1>3, <1>4 DEF Stream, M
    <2> HIDE DEF wide
    <2>2. in.position <= M
      BY <1>3, <1>4
    <2>3. At(wide, f, t, FALSE, k, M)
      <3>1. M <= Len(All(f, t, FALSE))
        BY <1>4 DEF M
      <3>2. wide.position = End(f, t, FALSE, k)
        BY <1>3, <2>1 DEF E
      <3>3. wide.buffer = All(f, t, FALSE) /\ k \in 0 .. Len(Sent)
        BY <1>3, <2>1 DEF N
      <3>4. QED
        BY <2>1, <2>2, <3>1, <3>2, <3>3, Zenon DEF At, Within
    <2>4. QED
      BY <1>2, <2>3 DEF Reached, AtStart
  <1>9. Len(base) + k + available <= Capacity(l)
    <2>1. Len(base) \in Nat /\ Capacity(l) \in Nat
      BY <1>2, LenProperties DEF IsList, Capacity
    <2> HIDE DEF available
    <2>2. QED
      BY <1>7, <2>1
  <1>10. PICK j \in k .. k + available : Reached(row, base, f, t, FALSE, j, M)
    <2> HIDE DEF wide, available
    <2>1. available \in Nat /\ ~ (M < M)
      BY <1>4, <1>7
    <2>2. \/ \E j \in k .. k + available : Reached(row, base, f, t, FALSE, j, M)
          \/ Ended(row, base, f, t, FALSE, M) /\ M < Len(All(f, t, FALSE))
      BY <1>4, <1>8, <1>9, <2>1, ReadRowIs
    <2>3. QED
      BY <2>1, <2>2 DEF M
  <1>11. j \in 0 .. N /\ j \in k .. N /\ row.in.position = E(j)
    <2> HIDE DEF available, row
    <2>1. j \in 0 .. N /\ row.in.position = E(j)
      BY <1>10 DEF Reached, At, N, E
    <2>2. available \in Nat
      BY <1>7
    <2>3. QED
      BY <1>3, <1>4, <1>10, <2>1, <2>2
  <1>12. E(j) <= L
    <2> HIDE DEF available
    <2>1. j - k \in Nat /\ j - k <= available /\ available \in Nat
      BY <1>7, <1>10
    <2>2. (j - k) * each <= available * each /\ (j - k) * each \in Nat
      BY <1>5, <2>1, Ordered
    <2>3. E(j) = E(k) + (j - k) * each
      BY <1>5, <1>11
    <2>4. E(k) \in Nat /\ E(k) + left = L
      BY <1>3, <1>4, <1>6
    <2>5. available * each \in Nat
      BY <1>5, <2>1
    <2>6. QED
      BY <1>6, <1>7, <2>2, <2>3, <2>4, <2>5
  <1> HIDE DEF row
  <1>13. Reached(u, base, f, t, FALSE, j, L)
    <2> DEFINE r == row.in
               b == row.list
    <2>1. /\ row = [list |-> b, in |-> r] /\ r \in Stream /\ r.ok /\ r.buffer = in.buffer
          /\ r.position = E(j) /\ IsList(b, With(base, j))
      BY <1>3, <1>10, <1>11 DEF Reached, At, Within
    <2> HIDE DEF r, b
    <2>2. u = [list |-> b, in |-> [r EXCEPT !.limit = L]]
      BY <1>3, <2>1
    <2> DEFINE x == [r EXCEPT !.limit = L]
    <2>3. /\ x \in Stream /\ x.ok /\ x.buffer = r.buffer /\ x.limit = L
          /\ x.position = r.position
      BY <2>1 DEF Stream
    <2> HIDE DEF x, u
    <2>4. At(x, f, t, FALSE, j, L)
      BY <1>3, <1>11, <1>12, <2>1, <2>3 DEF At, Within, M, N, E
    <2>5. u.list = b /\ u.in = x /\ u = [list |-> b, in |-> x]
      BY <2>2 DEF x
    <2>6. QED
      BY <2>1, <2>4, <2>5 DEF Reached
  <1>14. j \in k .. k + room
    <2> HIDE DEF available
    <2>1. QED
      BY <1>7, <1>10
  <1>15. QED
    BY <1>1, <1>13, <1>14

(* A number and, as far as there is room for them, those behind it. *)
LEMMA ReadRepeatedIs ==
  ASSUME NEW f \in FieldNumbers, NEW t \in ListTypes, NEW L \in Nat, NEW base \in Seq(Kept),
         NEW k \in 0 .. Len(Sent) - 1, NEW l, IsList(l, With(base, k)),
         NEW in, Within(in, f, t, FALSE, L),
         in.position = End(f, t, FALSE, k) + TagSize(f, t, FALSE)
  PROVE  LET u == ReadRepeatedPrimitive(l, in, PlainTag(f, t), t)
         IN  \/ \E j \in k + 1 .. Len(Sent) : Reached(u, base, f, t, FALSE, j, L)
             \/ Ended(u, base, f, t, FALSE, L)
  <1> DEFINE tag == PlainTag(f, t)
             N == Len(Sent)
             one == ReadPrimitive(t, in)
             longer == AddedNumber(l, one.value)
             room == Capacity(longer) - longer.size
             u == ReadRepeatedPrimitive(l, in, tag, t)
             next == End(f, t, FALSE, k + 1)
  <1>1. IF next <= L THEN one.ok /\ one.value = Sent[k + 1] /\ At(one, f, t, FALSE, k + 1, L)
        ELSE ~ one.ok
    <2>1. FALSE \in BOOLEAN
      OBVIOUS
    <2>2. QED
      BY <2>1, SentAhead
  <1>2. u = IF ~ one.ok THEN [list |-> l, in |-> one]
            ELSE IF t \in VarintTypes THEN ReadRow(longer, one, tag, t, room)
            ELSE ReadFixedRow(longer, one, tag, t, room)
    BY Zenon DEF ReadRepeatedPrimitive
  <1>3. N \in Nat /\ FALSE \in BOOLEAN /\ next \in Nat /\ k \in 0 .. N
        /\ End(f, t, FALSE, k) \in Nat
    <2>1. FALSE \in BOOLEAN
      OBVIOUS
    <2>2. N \in Nat
      BY <2>1, EndIs
    <2>3. next \in Nat /\ End(f, t, FALSE, k) \in Nat
      BY <2>1, ItemInAll
    <2>4. k \in 0 .. N
      BY <2>2
    <2>5. QED
      BY <2>1, <2>2, <2>3, <2>4
  <1>4. CASE ~ (next <= L)
    <2>1. u = [list |-> l, in |-> one] /\ ~ one.ok
      BY <1>1, <1>2, <1>4
    <2>2. End(f, t, FALSE, k) <= L
      <3>1. TagSize(f, t, FALSE) \in Nat
        <4>1. k + 1 \in 1 .. N
          BY <1>3
        <4>2. QED
          BY <1>3, <4>1, ItemIs
      <3> DEFINE e == End(f, t, FALSE, k)
                 n == TagSize(f, t, FALSE)
      <3>2. e + n <= L
        BY DEF Within
      <3>3. e \in Nat /\ n \in Nat
        BY <1>3, <3>1
      <3> HIDE DEF e, n
      <3>4. e <= L
        BY <3>2, <3>3
      <3>5. QED
        BY <3>4 DEF e
    <2> HIDE DEF u, one, next
    <2>3. L < next
      BY <1>3, <1>4
    <2>4. LastRead(f, t, FALSE, k, L)
      BY <1>3, <2>2, <2>3 DEF LastRead, next, N
    <2>5. u = [list |-> u.list, in |-> u.in] /\ u.list = l /\ ~ u.in.ok
      BY <2>1
    <2>6. Ended(u, base, f, t, FALSE, L)
      BY <2>4, <2>5 DEF Ended
    <2>7. QED
      BY <2>6 DEF u
  <1>5. CASE next <= L
    <2>1. one.ok /\ one.value = Sent[k + 1] /\ At(one, f, t, FALSE, k + 1, L)
      BY <1>1, <1>5
    <2>2. IsList(longer, With(base, k + 1))
      <3>1. Sent[k + 1] \in Kept /\ With(base, k + 1) = Append(With(base, k), Sent[k + 1])
        BY WithIs
      <3>2. IsList(AddedNumber(l, Sent[k + 1]), Append(With(base, k), Sent[k + 1]))
        BY <3>1, AddedIs
      <3>3. QED
        BY <2>1, <3>1, <3>2
    <2> HIDE DEF one, longer
    <2>3. room \in Nat /\ Len(base) + (k + 1) + room <= Capacity(longer)
      <3>1. k + 1 \in 0 .. N
        BY <1>3
      <3>2. longer.size = Len(base) + (k + 1) /\ longer.size <= Capacity(longer)
        BY <2>2, <3>1, WithIs DEF IsList, Capacity
      <3>3. longer.size \in Nat /\ Capacity(longer) \in Nat
        BY <2>2, LenProperties DEF IsList, Capacity
      <3>4. QED
        BY <3>2, <3>3
    <2>4. Reached(AtStart(longer, one), base, f, t, FALSE, k + 1, L)
      BY <2>1, <2>2 DEF Reached, AtStart
    <2> HIDE DEF room, u
    <2>5. k + 1 \in Nat
      OBVIOUS
    <2>6. \A j : Reached(u, base, f, t, FALSE, j, L) => j \in 0 .. N
      BY DEF Reached, At
    <2>7. CASE t \in VarintTypes
      <3>1. u = ReadRow(longer, one, tag, t, room)
        BY <1>2, <2>1, <2>7
      <3>2. \/ \E j \in k + 1 .. (k + 1) + room : Reached(u, base, f, t, FALSE, j, L)
            \/ Ended(u, base, f, t, FALSE, L)
        BY <2>3, <2>4, <2>5, <3>1, ReadRowIs
      <3>3. \A j \in k + 1 .. (k + 1) + room : j \in 0 .. N => j \in k + 1 .. N
        BY <1>3, <2>3
      <3>4. QED
        BY <2>6, <3>2, <3>3, Zenon DEF u
    <2>8. CASE t \notin VarintTypes
      <3>1. u = ReadFixedRow(longer, one, tag, t, room)
        BY <1>2, <2>1, <2>8
      <3>2. t \in ListTypes \cap FixedTypes
        BY <2>8 DEF ListTypes, VarintTypes, FixedTypes, Fixed32Types, Fixed64Types
      <3>3. \E j \in k + 1 .. (k + 1) + room : Reached(u, base, f, t, FALSE, j, L)
        BY <2>3, <2>4, <2>5, <3>1, <3>2, ReadFixedRowIs
      <3>4. \A j \in k + 1 .. (k + 1) + room : j \in 0 .. N => j \in k + 1 .. N
        BY <1>3, <2>3
      <3>5. QED
        BY <2>6, <3>3, <3>4, Zenon DEF u
    <2>9. QED
      BY <2>7, <2>8
  <1>6. QED
    BY <1>4, <1>5

LEMMA PackedTurnIs ==
  ASSUME NEW f \in FieldNumbers, NEW t \in ListTypes, NEW L \in Nat, NEW base \in Seq(Kept),
         NEW k, NEW s, Reached(s, base, f, t, TRUE, k, L)
  PROVE  LET u == PackedTurn(s, t)
         IN  \/ u = s /\ End(f, t, TRUE, k) = L
             \/ Reached(u, base, f, t, TRUE, k + 1, L)
             \/ Ended(u, base, f, t, TRUE, L)
  <1> DEFINE u == PackedTurn(s, t)
             N == Len(Sent)
             one == ReadPrimitive(t, s.in)
             e == End(f, t, TRUE, k)
             next == End(f, t, TRUE, k + 1)
             left == BytesUntilLimit(s.in)
             M == Len(All(f, t, TRUE))
  <1>1. /\ Within(s.in, f, t, TRUE, L) /\ s.in.ok /\ s.in.limit = L /\ s.in.position = e
        /\ e <= L /\ L <= M /\ k \in 0 .. N
        /\ IsList(s.list, With(base, k)) /\ s = [list |-> s.list, in |-> s.in]
    BY DEF Reached, At, Within
  <1>2. N \in Nat /\ TRUE \in BOOLEAN /\ e \in Nat /\ M = End(f, t, TRUE, N)
    BY <1>1, EndIs
  <1>3. left = L - e
    BY <1>1 DEF BytesUntilLimit
  <1>4. u = IF ~ s.in.ok \/ left <= 0 THEN s
            ELSE [list |-> IF one.ok THEN AddedNumber(s.list, one.value) ELSE s.list, in |-> one]
    BY Zenon DEF PackedTurn
  <1>5. k = N => e = M
    BY <1>2
  <1> HIDE DEF u, N, e, left, M
  <1>6. CASE left <= 0
    <2>1. u = s
      BY <1>4, <1>6, Zenon
    <2>2. e <= L
      BY <1>1, Zenon
    <2>3. e = L
      BY <1>2, <1>3, <1>6, <2>2
    <2>4. QED
      BY <2>1, <2>3, Zenon DEF u, e
  <1>7. CASE ~ (left <= 0)
    <2>1. k \in 0 .. N - 1
      <3>1. ~ (L <= e)
        BY <1>2, <1>3, <1>7
      <3>2. k # N
        BY <1>1, <1>5, <3>1
      <3>3. QED
        BY <1>1, <1>2, <3>2
    <2>2. s.in.position = End(f, t, TRUE, k) + TagSize(f, t, TRUE)
      <3>1. TagSize(f, t, TRUE) = 0
        BY DEF TagSize
      <3>2. e + 0 = e
        BY <1>2
      <3>3. QED
        BY <1>1, <3>1, <3>2, Zenon DEF e
    <2>3. IF next <= L THEN one.ok /\ one.value = Sent[k + 1] /\ At(one, f, t, TRUE, k + 1, L)
          ELSE ~ one.ok
      BY <1>1, <1>2, <2>1, <2>2, SentAhead DEF N
    <2>4. u = [list |-> IF one.ok THEN AddedNumber(s.list, one.value) ELSE s.list, in |-> one]
      BY <1>1, <1>4, <1>7
    <2>5. u = [list |-> u.list, in |-> u.in]
      BY <2>4
    <2>6. next \in Nat
      BY <1>2, <2>1, ItemInAll DEF N
    <2> HIDE DEF one, next
    <2>7. CASE next <= L
      <3>1. Sent[k + 1] \in Kept /\ With(base, k + 1) = Append(With(base, k), Sent[k + 1])
        BY <2>1, WithIs DEF N
      <3>2. IsList(AddedNumber(s.list, Sent[k + 1]), Append(With(base, k), Sent[k + 1]))
        BY <1>1, <3>1, AddedIs
      <3>3. u.list = AddedNumber(s.list, Sent[k + 1]) /\ u.in = one
            /\ At(one, f, t, TRUE, k + 1, L)
        BY <2>3, <2>4, <2>7
      <3>4. QED
        BY <2>5, <3>1, <3>2, <3>3 DEF Reached, u
    <2>8. CASE ~ (next <= L)
      <3>1. u.list = s.list /\ ~ u.in.ok
        BY <2>3, <2>4, <2>8
      <3>2. L < next
        BY <2>6, <2>8
      <3>3. LastRead(f, t, TRUE, k, L)
        BY <1>1, <3>2 DEF LastRead, next, e, N
      <3>4. QED
        BY <1>1, <2>5, <3>1, <3>3 DEF Ended, u
    <2>9. QED
      BY <2>7, <2>8
  <1>8. QED
    BY <1>6, <1>7

LEMMA ReadToLimitIs ==
  ASSUME NEW f \in FieldNumbers, NEW t \in ListTypes, NEW L \in Nat, NEW base \in Seq(Kept),
         NEW l, NEW in, Reached(AtStart(l, in), base, f, t, TRUE, 0, L)
  PROVE  LET u == ReadToLimit(l, in, t)
         IN  \/ \E k : Reached(u, base, f, t, TRUE, k, L) /\ End(f, t, TRUE, k) = L
             \/ Ended(u, base, f, t, TRUE, L)
  <1> DEFINE left == BytesUntilLimit(in)
             N == Len(Sent)
             E(k) == End(f, t, TRUE, k)
  <1>1. TRUE \in BOOLEAN /\ At(in, f, t, TRUE, 0, L)
    BY DEF Reached, AtStart
  <1>2. N \in Nat /\ 0 \in 0 .. N /\ \A k \in 0 .. N : E(k) \in Nat /\ E(k) >= E(0) + k
    <2>1. N \in Nat
      BY <1>1, EndIs
    <2>2. \A k \in 0 .. N : E(k) \in Nat
      BY <1>1, EndIs
    <2>3. 0 \in 0 .. N /\ \A k \in 0 .. N : 0 <= k /\ k - 0 = k
      BY <2>1
    <2>4. \A j, k \in 0 .. N : j <= k => E(k) >= E(j) + (k - j)
      BY <1>1, EndIs
    <2> HIDE DEF E, N
    <2>5. QED
      BY <2>1, <2>2, <2>3, <2>4
  <1>3. left = L - E(0) /\ E(0) <= L
    BY <1>1 DEF At, Within, BytesUntilLimit
  <1>4. left \in Nat
    <2> HIDE DEF left, E
    <2>1. QED
      BY <1>2, <1>3
  <1>5. PICK g : IsPack(g, l, in, t)
    BY <1>4, PackedTurns
  <1>6. /\ g[0] = AtStart(l, in) /\ ReadToLimit(l, in, t) = g[left]
        /\ \A n \in 0 .. left - 1 : g[n + 1] = PackedTurn(g[n], t)
    BY <1>5 DEF IsPack
  <1> DEFINE There(n, k) == /\ Reached(g[n], base, f, t, TRUE, k, L) /\ k \in 0 .. N
                            /\ k >= n \/ E(k) = L
             Done(n) == Ended(g[n], base, f, t, TRUE, L)
             S == {n \in Nat : n <= left => (\E k : There(n, k)) \/ Done(n)}
  <1>7. 0 \in S
    <2>1. Reached(g[0], base, f, t, TRUE, 0, L)
      BY <1>6
    <2>2. 0 >= 0
      OBVIOUS
    <2>3. There(0, 0)
      BY <1>2, <2>1, <2>2, Zenon
    <2> HIDE DEF There, Done
    <2>4. QED
      BY <2>3
  <1>8. ASSUME NEW n \in Nat, n \in S PROVE n + 1 \in S
    <2> HIDE DEF There, Done
    <2> SUFFICES ASSUME n + 1 <= left PROVE (\E k : There(n + 1, k)) \/ Done(n + 1)
      OBVIOUS
    <2>1. g[n + 1] = PackedTurn(g[n], t)
      BY <1>4, <1>6
    <2>2. (\E k : There(n, k)) \/ Done(n)
      BY <1>4, <1>8
    <2>3. CASE Done(n)
      <3>1. g[n + 1] = g[n]
        BY <2>1, <2>3 DEF PackedTurn, Ended, Done
      <3>2. QED
        BY <2>3, <3>1 DEF Done
    <2>4. ASSUME NEW k, There(n, k)
          PROVE  (\E j : There(n + 1, j)) \/ Done(n + 1)
      <3>1. Reached(g[n], base, f, t, TRUE, k, L) /\ k \in 0 .. N /\ (k >= n \/ E(k) = L)
        BY <2>4 DEF There
      <3> DEFINE u == PackedTurn(g[n], t)
      <3>2. \/ u = g[n] /\ E(k) = L
            \/ Reached(u, base, f, t, TRUE, k + 1, L)
            \/ Ended(u, base, f, t, TRUE, L)
        BY <3>1, PackedTurnIs
      <3> HIDE DEF u
      <3>3. g[n + 1] = u
        BY <2>1 DEF u
      <3>4. CASE u = g[n] /\ E(k) = L
        <4>1. There(n + 1, k)
          BY <3>1, <3>3, <3>4, Zenon DEF There
        <4>2. QED
          BY <4>1
      <3>5. CASE Reached(u, base, f, t, TRUE, k + 1, L)
        <4>1. k + 1 \in 0 .. N
          BY <3>5 DEF Reached, At
        <4>2. E(k + 1) <= L
          BY <3>5 DEF Reached, At, Within
        <4>3. k + 1 >= n + 1 \/ E(k + 1) = L
          <5>0. k \in Nat
            BY <1>2, <3>1
          <5>1. CASE k >= n
            <6>1. k + 1 >= n + 1
              BY <5>0, <5>1
            <6>2. QED
              BY <6>1
          <5>2. CASE E(k) = L
            <6>1. k \in 0 .. N - 1
              BY <1>2, <3>1, <4>1
            <6> DEFINE a == Len(Item(f, t, TRUE, k + 1))
            <6>2. E(k + 1) = E(k) + a /\ a \in Nat \ {0}
              BY <1>1, <6>1, ItemInAll
            <6>3. E(k + 1) <= L /\ E(k) = L
              BY <4>2, <5>2
            <6> HIDE DEF E, a
            <6>4. QED
              BY <6>2, <6>3
          <5>3. QED
            BY <3>1, <5>1, <5>2
        <4>4. There(n + 1, k + 1)
          BY <3>3, <3>5, <4>1, <4>3, Zenon DEF There
        <4>5. QED
          BY <4>4
      <3>6. CASE Ended(u, base, f, t, TRUE, L)
        BY <3>3, <3>6 DEF Done
      <3>7. QED
        BY <3>2, <3>4, <3>5, <3>6
    <2>5. QED
      BY <2>2, <2>3, <2>4
  <1>9. left \in S
    BY <1>4, <1>7, <1>8, SetInduction
  <1>10. (\E k : There(left, k)) \/ Done(left)
    <2> HIDE DEF There, Done
    <2>1. QED
      BY <1>4, <1>9
  <1>11. ASSUME NEW k, There(left, k)
         PROVE  Reached(g[left], base, f, t, TRUE, k, L) /\ E(k) = L
    <2>1. Reached(g[left], base, f, t, TRUE, k, L) /\ k \in 0 .. N /\ (k >= left \/ E(k) = L)
      BY <1>11
    <2>2. E(k) <= L
      BY <2>1 DEF Reached, At, Within
    <2>5. E(k) \in Nat /\ E(0) \in Nat /\ E(k) >= E(0) + k /\ k \in Nat
      <3> HIDE DEF E
      <3>1. QED
        BY <1>2, <2>1
    <2> HIDE DEF E, left
    <2>3. CASE k >= left
      <3>1. E(k) >= L
        BY <1>3, <1>4, <2>3, <2>5
      <3>2. E(k) = L
        BY <2>2, <2>5, <3>1
      <3>3. QED
        BY <2>1, <3>2
    <2>4. QED
      BY <2>1, <2>3
  <1> HIDE DEF There
  <1>12. QED
    BY <1>6, <1>10, <1>11

(* A tag is read, or nothing is. *)
LEMMA ReadTagIs ==
  ASSUME NEW n \in Nat \ {0}, n < TwoTo[W64], n % TwoTo[W32] = n,
         NEW in \in Stream, in.ok, Begins(in, WriteVarint(n))
  PROVE  LET u == ReadTag(in)
         IN  /\ u \in Stream /\ u.buffer = in.buffer /\ u.limit = in.limit
             /\ IF VarintSize(n) <= BytesUntilLimit(in) /\ BytesUntilLimit(in) # 0
                THEN u.ok /\ u.last_tag = n /\ u.position = in.position + VarintSize(n)
                ELSE u.last_tag = 0
  <1> DEFINE left == BytesUntilLimit(in)
             size == VarintSize(n)
             u == ReadTag(in)
             got == Got(in, size, n)
  <1>1. size \in Nat /\ n \in Nat /\ n \in Int
    BY VarintSizeIs, BytesEnough
  <1>2. CASE left = 0
    <2>1. u = [in EXCEPT !.last_tag = 0, !.legitimate_message_end = TRUE]
      BY <1>2 DEF ReadTag
    <2> HIDE DEF u
    <2>2. u \in Stream /\ u.buffer = in.buffer /\ u.limit = in.limit /\ u.last_tag = 0
      BY <2>1 DEF Stream
    <2>3. QED
      BY <1>2, <2>2 DEF u
  <1>3. CASE left # 0
    <2> DEFINE w == IF size <= left THEN got ELSE Failed(in)
    <2>1. ReadVarint(in, W32) = w
      <3>1. W32 \in Nat
        BY WireAssumption
      <3>2. ReadVarint(in, W32) = IF size <= left THEN Got(in, size, n % TwoTo[W32]) ELSE Failed(in)
        BY <1>1, <3>1, ReadVarintIs
      <3>3. QED
        BY <3>2
    <2>2. u = [w EXCEPT !.last_tag = IF w.ok THEN w.value ELSE 0, !.ok = TRUE]
      BY <1>3, <2>1, Zenon DEF ReadTag, Tagged
    <2>3. CASE size <= left
      <3>1. w = got
        BY <2>3
      <3>2. /\ got \in Stream /\ got.buffer = in.buffer /\ got.limit = in.limit
            /\ got.position = in.position + size /\ got.ok = in.ok /\ got.value = n
        BY <1>1, Gotten, Zenon
      <3> HIDE DEF got, w, u
      <3>3. u = [got EXCEPT !.last_tag = IF got.ok THEN got.value ELSE 0, !.ok = TRUE]
        BY <2>2, <3>1
      <3>4. /\ u \in Stream /\ u.buffer = got.buffer /\ u.limit = got.limit
            /\ u.position = got.position /\ u.ok /\ u.last_tag = IF got.ok THEN n ELSE 0
        BY <1>1, <3>2, <3>3 DEF Stream
      <3>5. QED
        BY <1>3, <2>3, <3>2, <3>4, Zenon DEF u
    <2>4. CASE ~ (size <= left)
      <3> DEFINE lost == Failed(in)
      <3>1. w = lost
        BY <2>4
      <3>2. lost \in Stream /\ ~ lost.ok /\ lost.buffer = in.buffer /\ lost.limit = in.limit
        BY DEF Failed, Stream
      <3> HIDE DEF lost, w, u
      <3>3. u = [lost EXCEPT !.last_tag = 0, !.ok = TRUE]
        BY <2>2, <3>1, <3>2
      <3>4. u \in Stream /\ u.buffer = lost.buffer /\ u.limit = lost.limit /\ u.last_tag = 0
        BY <3>2, <3>3 DEF Stream
      <3>5. QED
        BY <1>3, <2>4, <3>2, <3>4 DEF u
    <2>5. QED
      BY <2>3, <2>4
  <1>4. QED
    BY <1>2, <1>3

(* A message with the numbers, behind its tag. *)
LEMMA ReadPackedIs ==
  ASSUME NEW f \in FieldNumbers, NEW t \in ListTypes, NEW L \in Nat, NEW base \in Seq(Kept),
         NEW l, IsList(l, base), NEW in, Within(in, f, t, TRUE, L),
         in.position = VarintSize(MakeTag(f, WIRETYPE_LENGTH_DELIMITED))
  PROVE  LET u == ReadPackedPrimitive(l, in, t)
         IN  \/ \E k : Reached(u, base, f, t, TRUE, k, L) /\ End(f, t, TRUE, k) = L
             \/ Ended(u, base, f, t, TRUE, L)
  <1> DEFINE u == ReadPackedPrimitive(l, in, t)
             N == Len(Sent)
             n == PackedSize(f, t)
             tag == WriteTag(f, WIRETYPE_LENGTH_DELIMITED)
             b == WriteVarint(n)
             size == VarintSize(n)
             e == End(f, t, TRUE, 0)
             whole == All(f, t, TRUE)
             left == BytesUntilLimit(in)
             length == ReadVarint(in, W32)
             all == ReadToLimit(l, PushLimit(length, length.value), t)
  <1>1. /\ N \in Nat /\ TRUE \in BOOLEAN /\ 0 \in 0 .. N
    BY EndIs
  <1>2. /\ tag \in Seq(Nat) /\ b \in Seq(Nat) /\ OnWire(f, t, TRUE, 0) = tag \o b
        /\ Len(tag) = in.position /\ Len(b) = size
        /\ n \in Nat /\ n < TwoTo[W64] /\ n % TwoTo[W32] = n
    BY <1>1, HeaderIs, OnWireIs
  <1>3. e = in.position + size /\ e \in Nat /\ Len(tag) \in Nat /\ size \in Nat
    <2>1. e = Len(tag \o b)
      BY <1>2 DEF End
    <2> HIDE DEF e, tag, b, size
    <2>2. Len(tag \o b) = Len(tag) + Len(b) /\ Len(tag) \in Nat /\ Len(b) \in Nat
      BY <1>2, Joined
    <2>3. QED
      BY <1>2, <2>1, <2>2
  <1>4. /\ in \in Stream /\ in.ok /\ in.buffer = whole /\ in.limit = L
        /\ in.position <= L /\ L <= Len(whole)
    BY DEF Within
  <1>5. ASSUME NEW i \in 1 .. size PROVE whole[in.position + i] = b[i]
    <2>1. \A j \in 1 .. e : whole[j] = OnWire(f, t, TRUE, 0)[j]
      BY <1>1, EndIs
    <2> HIDE DEF e, tag, b, size, whole
    <2>2. (tag \o b)[Len(tag) + i] = b[i]
      BY <1>2, Joined
    <2>3. in.position + i \in 1 .. e /\ Len(tag) + i = in.position + i
      BY <1>2, <1>3
    <2>4. QED
      BY <1>2, <2>1, <2>2, <2>3, Zenon
  <1>6. Len(whole) = e + n
    <2>0. N \in 0 .. N
      BY <1>1
    <2>1. Bytes(f, t, TRUE, N) \in Seq(Nat) /\ Header(f, t, TRUE) \in Seq(Nat)
      <3>1. Bytes(f, t, TRUE, N) \in Seq(Nat)
        BY <1>1, <2>0, BytesInSeq, Zenon
      <3>2. Header(f, t, TRUE) \in Seq(Nat)
        BY HeaderIs
      <3>3. QED
        BY <3>1, <3>2
    <2>2. OnWire(f, t, TRUE, N) = Header(f, t, TRUE) \o Bytes(f, t, TRUE, N)
          /\ OnWire(f, t, TRUE, 0) = Header(f, t, TRUE)
      BY <1>1, OnWireIs DEF OnWire
    <2>3. Len(Header(f, t, TRUE) \o Bytes(f, t, TRUE, N))
            = Len(Header(f, t, TRUE)) + Len(Bytes(f, t, TRUE, N))
      BY <2>1, Joined
    <2>4. QED
      BY <2>2, <2>3, Zenon DEF All, End, PackedSize
  <1>7. Begins(in, b)
    <2> HIDE DEF b, size, whole
    <2>1. \A i \in 1 .. size : in.buffer[in.position + i] = b[i]
      BY <1>4, <1>5, Zenon
    <2>2. QED
      BY <1>2, <1>4, <2>1 DEF Begins
  <1>8. length = IF size <= left THEN Got(in, size, n) ELSE Failed(in)
    <2>1. W32 \in Nat
      BY WireAssumption
    <2>2. length = IF size <= left THEN Got(in, size, n % TwoTo[W32]) ELSE Failed(in)
      BY <1>2, <1>4, <1>7, <2>1, ReadVarintIs
    <2>3. QED
      BY <1>2, <2>2
  <1>9. left = L - in.position
    BY <1>4 DEF BytesUntilLimit
  <1>10. u = IF ~ length.ok THEN [list |-> l, in |-> length]
             ELSE IF ~ all.in.ok THEN all
             ELSE [all EXCEPT !.in = PopLimit(@, in.limit)]
    BY Zenon DEF ReadPackedPrimitive
  <1>11. With(base, 0) = base
    BY WithIs
  <1> DEFINE p == in.position
  <1>12. p \in Nat
    BY <1>4 DEF Stream
  <1> HIDE DEF u, n, tag, b, size, e, whole, left, length, p
  <1>13. e = p + size /\ left = L - p /\ p <= L /\ L <= Len(whole)
    BY <1>3, <1>4, <1>9 DEF p
  <1>14. CASE size <= left
    <2>1. /\ length \in Stream /\ length.buffer = in.buffer /\ length.limit = in.limit
          /\ length.position = p + size /\ length.ok = in.ok /\ length.value = n
      <3>1. n \in Int /\ size \in Nat /\ length = Got(in, size, n)
        BY <1>2, <1>3, <1>8, <1>14
      <3>2. QED
        BY <1>4, <3>1, Gotten, Zenon DEF p
    <2>2. e <= L
      BY <1>3, <1>12, <1>13, <1>14
    <2>3. PushLimit(length, length.value) = length
      <3>1. length.position + length.value = Len(whole)
        BY <1>6, <1>13, <2>1
      <3>2. ~ (length.position + length.value < length.limit)
        <4>1. length.limit = L /\ Len(whole) \in Nat
          BY <1>2, <1>3, <1>4, <1>6, <2>1
        <4>2. QED
          BY <1>13, <3>1, <4>1
      <3>3. PushLimit(length, length.value) = [length EXCEPT !.limit = length.limit]
        BY <3>2 DEF PushLimit
      <3>4. [length EXCEPT !.limit = length.limit] = length
        BY <2>1 DEF Stream
      <3>5. QED
        BY <3>3, <3>4
    <2>4. Reached(AtStart(l, length), base, f, t, TRUE, 0, L)
      <3>1. At(length, f, t, TRUE, 0, L)
        <4>1. length.position = e
          BY <1>13, <2>1, Zenon
        <4>2. length.ok /\ length.buffer = whole /\ length.limit = L /\ length.position <= L
          BY <1>4, <2>1, <2>2, <4>1, Zenon
        <4>3. QED
          BY <1>1, <1>13, <2>1, <4>1, <4>2, Zenon DEF At, Within, e, whole, N
      <3>2. QED
        BY <1>11, <3>1 DEF Reached, AtStart
    <2>5. all = ReadToLimit(l, length, t)
      BY <2>3
    <2>6. \/ \E k : Reached(all, base, f, t, TRUE, k, L) /\ End(f, t, TRUE, k) = L
          \/ Ended(all, base, f, t, TRUE, L)
      BY <2>4, <2>5, ReadToLimitIs
    <2>7. length.ok
      BY <1>4, <2>1, Zenon
    <2> HIDE DEF all
    <2>8. CASE Ended(all, base, f, t, TRUE, L)
      <3>1. ~ all.in.ok
        BY <2>8 DEF Ended
      <3>2. u = all
        BY <1>10, <2>7, <3>1, Zenon
      <3>3. QED
        BY <2>8, <3>2, Zenon DEF u
    <2>9. ASSUME NEW k, Reached(all, base, f, t, TRUE, k, L), End(f, t, TRUE, k) = L
          PROVE  \E j : Reached(u, base, f, t, TRUE, j, L) /\ End(f, t, TRUE, j) = L
      <3> DEFINE r == all.in
                 c == all.list
      <3>1. /\ all = [list |-> c, in |-> r] /\ r \in Stream /\ r.ok /\ r.buffer = whole
            /\ r.limit = L /\ r.position <= L /\ r.position = End(f, t, TRUE, k)
            /\ k \in 0 .. Len(Sent) /\ IsList(c, With(base, k))
        BY <2>9 DEF Reached, At, Within, whole
      <3>2. u = [all EXCEPT !.in = PopLimit(@, L)]
        BY <1>4, <1>10, <2>7, <3>1
      <3> HIDE DEF r, c
      <3> DEFINE x == PopLimit(r, L)
      <3>3. u = [list |-> c, in |-> x]
        BY <3>1, <3>2
      <3>4. x \in Stream /\ x.ok /\ x.buffer = r.buffer /\ x.limit = L /\ x.position = r.position
        BY <3>1 DEF PopLimit, Stream
      <3> HIDE DEF x
      <3>5. At(x, f, t, TRUE, k, L)
        BY <1>13, <3>1, <3>4, Zenon DEF At, Within, whole
      <3>6. u.list = c /\ u.in = x
        BY <3>3
      <3>7. Reached(u, base, f, t, TRUE, k, L)
        BY <3>1, <3>3, <3>5, <3>6, Zenon DEF Reached
      <3>8. QED
        BY <2>9, <3>7
    <2>10. QED
      BY <2>6, <2>8, <2>9 DEF u
  <1>15. CASE ~ (size <= left)
    <2>1. length = Failed(in)
      BY <1>8, <1>15
    <2>2. ~ length.ok
      BY <1>4, <2>1, FailedIs
    <2>3. u = [list |-> l, in |-> length]
      BY <1>10, <2>2
    <2>4. u.list = l /\ u.in = length
      BY <2>3
    <2>5. L < e
      BY <1>3, <1>12, <1>13, <1>15
    <2>6. LastRead(f, t, TRUE, 0, L)
      <3>1. ASSUME 0 < N PROVE L < End(f, t, TRUE, 1)
        <4>1. e < End(f, t, TRUE, 1) /\ End(f, t, TRUE, 1) \in Nat
          BY <1>1, <3>1, FirstEnd DEF e, N
        <4>2. QED
          BY <1>3, <2>5, <4>1, Between, Zenon
      <3>2. 0 + 1 = 1 /\ ~ (0 > 0)
        OBVIOUS
      <3>3. QED
        BY <1>1, <3>1, <3>2 DEF LastRead, N
    <2>7. Ended(u, base, f, t, TRUE, L)
      BY <1>11, <2>2, <2>3, <2>4, <2>6, Zenon DEF Ended
    <2>8. QED
      BY <2>7 DEF u
  <1>16. QED
    BY <1>14, <1>15

(* The parser stops at the limit. *)
LEMMA ParserStops ==
  ASSUME NEW f \in FieldNumbers, NEW t \in ListTypes, NEW p \in BOOLEAN, NEW L \in Nat,
         NEW base, NEW k, NEW s, s = [list |-> s.list, in |-> s.in],
         Within(s.in, f, t, p, L), s.in.position = L,
         LastRead(f, t, p, k, L), IsList(s.list, With(base, k))
  PROVE  Ended(ParserTurn(s, f, t), base, f, t, p, L)
  <1> DEFINE in == s.in
             tagged == [in EXCEPT !.last_tag = 0, !.legitimate_message_end = TRUE]
             u == ParserTurn(s, f, t)
  <1>1. in \in Stream /\ in.ok /\ in.limit = L
    BY DEF Within
  <1>2. BytesUntilLimit(in) = 0
    BY <1>1 DEF BytesUntilLimit
  <1>3. ReadTag(in) = tagged
    BY <1>2, Zenon DEF ReadTag
  <1>4. tagged \in Stream /\ tagged.last_tag = 0
    BY <1>1 DEF Stream
  <1> HIDE DEF tagged
  <1>5. u = AtStart(s.list, Failed(tagged))
    BY <1>1, <1>3, <1>4, Zenon DEF ParserTurn
  <1>6. ~ Failed(tagged).ok
    BY <1>4, FailedIs
  <1> HIDE DEF u
  <1>7. u = [list |-> u.list, in |-> u.in] /\ u.list = s.list /\ ~ u.in.ok
    BY <1>5, <1>6 DEF AtStart
  <1>8. QED
    BY <1>7 DEF Ended, u

LEMMA ParserEnds ==
  ASSUME NEW f \in FieldNumbers, NEW t \in ListTypes, NEW p \in BOOLEAN, NEW L \in Nat,
         NEW base \in Seq(Kept), NEW k, NEW s, Reached(s, base, f, t, p, k, L),
         End(f, t, p, k) = L
  PROVE  Ended(ParserTurn(s, f, t), base, f, t, p, L)
  <1>1. /\ s = [list |-> s.list, in |-> s.in] /\ Within(s.in, f, t, p, L)
        /\ s.in.position = L /\ IsList(s.list, With(base, k)) /\ k \in 0 .. Len(Sent)
    BY DEF Reached, At
  <1>2. LastRead(f, t, p, k, L)
    <2>1. ASSUME k < Len(Sent) PROVE L < End(f, t, p, k + 1)
      <3>1. k \in 0 .. Len(Sent) - 1
        BY <1>1, <2>1, EndIs
      <3>2. PICK a \in Nat \ {0} : End(f, t, p, k + 1) = End(f, t, p, k) + a
        BY <3>1, NextEnd, ZenonT(30)
      <3>3. End(f, t, p, k + 1) = L + a
        BY <3>2, Zenon
      <3>4. L < L + a
        BY <3>2
      <3>5. QED
        BY <3>3, <3>4, Zenon
    <2>2. QED
      BY <1>1, <2>1 DEF LastRead
  <1>3. QED
    BY <1>1, <1>2, ParserStops

(* A turn for a row: its next number. *)
LEMMA ParserRowIs ==
  ASSUME NEW f \in FieldNumbers, NEW t \in ListTypes, NEW L \in Nat, NEW base \in Seq(Kept),
         NEW k, NEW s, Reached(s, base, f, t, FALSE, k, L)
  PROVE  LET u == ParserTurn(s, f, t)
         IN  \/ \E j \in k + 1 .. Len(Sent) : Reached(u, base, f, t, FALSE, j, L)
             \/ Ended(u, base, f, t, FALSE, L)
  <1> DEFINE u == ParserTurn(s, f, t)
             N == Len(Sent)
             tag == PlainTag(f, t)
             size == VarintSize(tag)
             in == s.in
             tagged == ReadTag(in)
             e == End(f, t, FALSE, k)
             next == End(f, t, FALSE, k + 1)
             left == BytesUntilLimit(in)
             M == Len(All(f, t, FALSE))
  <1>1. /\ s = [list |-> s.list, in |-> in] /\ Within(in, f, t, FALSE, L)
        /\ in.position = e /\ IsList(s.list, With(base, k)) /\ k \in 0 .. N
        /\ At(in, f, t, FALSE, k, L)
    BY DEF Reached, At
  <1>2. /\ in \in Stream /\ in.ok /\ in.buffer = All(f, t, FALSE) /\ in.limit = L
        /\ e <= L /\ L <= M
    BY <1>1 DEF Within
  <1>3. FALSE \in BOOLEAN /\ N \in Nat /\ e \in Nat /\ M = End(f, t, FALSE, N)
    <2>1. FALSE \in BOOLEAN
      OBVIOUS
    <2>2. QED
      BY <1>1, <2>1, EndIs
  <1>4. left = L - e
    BY <1>1, <1>2 DEF BytesUntilLimit
  <1>5. k = N => e = M
    BY <1>3
  <1>6. CASE e = L
    BY <1>3, <1>6, ParserEnds
  <1>7. CASE e # L
    <2> HIDE DEF N, e, left, M
    <2>1. k \in 0 .. N - 1
      <3>1. k # N
        <4>1. SUFFICES ASSUME k = N PROVE FALSE
          OBVIOUS
        <4>2. e <= L /\ L <= e
          BY <1>2, <1>5, <4>1, Zenon
        <4>3. QED
          BY <1>3, <1>7, <4>2
      <3>2. QED
        BY <1>1, <1>3, <3>1
    <2>2. left # 0 /\ left \in Nat
      BY <1>2, <1>3, <1>4, <1>7
    <2>3. /\ Begins(in, WriteVarint(tag)) /\ TagSize(f, t, FALSE) = size
          /\ e + size < next
      BY <1>1, <2>1, TagAhead DEF N, e
    <2>4. /\ tag \in Nat \ {0} /\ tag < TwoTo[W64] /\ tag % TwoTo[W32] = tag
          /\ size \in Nat \ {0}
      <3> DEFINE w == WireTypeForFieldType(t)
      <3>1. w \in 0 .. 7 /\ tag = MakeTag(f, w)
        BY PlainTagIs
      <3> HIDE DEF w
      <3> DEFINE x == MakeTag(f, w)
      <3>2. /\ x \in Nat \ {0} /\ x < TwoTo[W64] /\ x % TwoTo[W32] = x
            /\ VarintSize(x) \in Nat \ {0}
        BY <3>1, TagIs
      <3> HIDE DEF tag, x
      <3>3. tag = x
        BY <3>1 DEF x
      <3>4. QED
        BY <3>2, <3>3, Zenon
    <2>5. next \in Nat
      BY <1>3, <2>1, ItemInAll DEF N
    <2> HIDE DEF tag
    <2>6. /\ tagged \in Stream /\ tagged.buffer = in.buffer /\ tagged.limit = in.limit
          /\ IF size <= left /\ left # 0
             THEN tagged.ok /\ tagged.last_tag = tag /\ tagged.position = in.position + size
             ELSE tagged.last_tag = 0
      BY <1>2, <2>3, <2>4, ReadTagIs DEF left
    <2>7. u = IF tagged.last_tag = 0 THEN AtStart(s.list, Failed(tagged))
              ELSE IF tagged.last_tag = tag THEN ReadRepeatedPrimitive(s.list, tagged, tag, t)
              ELSE ReadPackedPrimitive(s.list, tagged, t)
      BY <1>2, Zenon DEF ParserTurn, tag
    <2> HIDE DEF tagged, size, next, u
    <2>8. CASE size <= left
      <3>1. tagged.ok /\ tagged.last_tag = tag /\ tagged.position = e + size
        BY <1>1, <2>2, <2>6, <2>8
      <3>2. u = ReadRepeatedPrimitive(s.list, tagged, tag, t)
        BY <2>4, <2>7, <3>1
      <3>3. Within(tagged, f, t, FALSE, L)
        <4>1. e + size <= L
          BY <1>3, <1>4, <2>2, <2>4, <2>8
        <4>2. tagged.position <= L
          BY <3>1, <4>1, Zenon
        <4>3. QED
          BY <1>2, <2>6, <3>1, <4>2, Zenon DEF Within, M
      <3>4. tagged.position = End(f, t, FALSE, k) + TagSize(f, t, FALSE)
        BY <2>3, <3>1, Zenon DEF e
      <3>5. QED
        BY <1>1, <2>1, <3>2, <3>3, <3>4, ReadRepeatedIs DEF N, tag, u
    <2>9. CASE ~ (size <= left)
      <3>1. tagged.last_tag = 0
        BY <2>6, <2>9, Zenon
      <3>2. u = AtStart(s.list, Failed(tagged))
        BY <2>7, <3>1, Zenon
      <3>3. ~ Failed(tagged).ok
        BY <2>6, FailedIs
      <3>4. u = [list |-> u.list, in |-> u.in] /\ u.list = s.list /\ ~ u.in.ok
        BY <3>2, <3>3 DEF AtStart
      <3>5. L < next
        BY <1>3, <1>4, <2>2, <2>3, <2>4, <2>5, <2>9
      <3>6. LastRead(f, t, FALSE, k, L)
        BY <1>1, <1>2, <3>5, Zenon DEF LastRead, next, e, N
      <3>7. QED
        BY <1>1, <3>4, <3>6 DEF Ended, u
    <2>10. QED
      BY <2>8, <2>9
  <1>8. QED
    BY <1>6, <1>7

(* The first turn for a message with the numbers. *)
LEMMA ParserPackedIs ==
  ASSUME NEW f \in FieldNumbers, NEW t \in ListTypes, NEW L \in Nat, NEW base \in Seq(Kept),
         NEW l, IsList(l, base), NEW in, Within(in, f, t, TRUE, L), in.position = 0
  PROVE  LET u == ParserTurn(AtStart(l, in), f, t)
         IN  \/ L > 0 /\ \E k : Reached(u, base, f, t, TRUE, k, L) /\ End(f, t, TRUE, k) = L
             \/ Ended(u, base, f, t, TRUE, L)
  <1> DEFINE s == AtStart(l, in)
             u == ParserTurn(s, f, t)
             N == Len(Sent)
             tag == MakeTag(f, WIRETYPE_LENGTH_DELIMITED)
             b == WriteVarint(tag)
             c == WriteVarint(PackedSize(f, t))
             size == VarintSize(tag)
             tagged == ReadTag(in)
             left == BytesUntilLimit(in)
             whole == All(f, t, TRUE)
             e == End(f, t, TRUE, 0)
  <1>1. /\ s.list = l /\ s.in = in /\ s = [list |-> s.list, in |-> s.in]
    BY DEF AtStart
  <1>2. /\ in \in Stream /\ in.ok /\ in.buffer = whole /\ in.limit = L /\ L <= Len(whole)
    BY DEF Within
  <1>3. TRUE \in BOOLEAN /\ N \in Nat /\ e \in Nat /\ 0 \in 0 .. N
    <2>1. TRUE \in BOOLEAN
      OBVIOUS
    <2>2. N \in Nat
      BY <2>1, EndIs
    <2>3. 0 \in 0 .. N
      BY <2>2
    <2>4. e \in Nat
      BY <2>1, <2>3, EndIs
    <2>5. QED
      BY <2>1, <2>2, <2>3, <2>4
  <1>4. left = L
    BY <1>2 DEF BytesUntilLimit
  <1>5. With(base, 0) = base
    BY WithIs
  <1>6. /\ tag \in Nat \ {0} /\ tag < TwoTo[W64] /\ tag % TwoTo[W32] = tag
        /\ size \in Nat \ {0} /\ tag % 8 = WIRETYPE_LENGTH_DELIMITED
    <2>1. WIRETYPE_LENGTH_DELIMITED \in 0 .. 7
      BY DEF WIRETYPE_LENGTH_DELIMITED
    <2>2. QED
      BY <2>1, TagIs
  <1>7. tag # PlainTag(f, t)
    <2> DEFINE w == WireTypeForFieldType(t)
    <2>1. w \in 0 .. 7 /\ PlainTag(f, t) = MakeTag(f, w) /\ w # WIRETYPE_LENGTH_DELIMITED
      BY PlainTagIs
    <2> HIDE DEF w, tag
    <2>2. PlainTag(f, t) % 8 = w
      BY <2>1, TagIs, ZenonT(30)
    <2>3. QED
      BY <1>6, <2>1, <2>2
  <1>8. /\ b \in Seq(Nat) /\ c \in Seq(Nat) /\ Len(b) = size
        /\ OnWire(f, t, TRUE, 0) = b \o c /\ Len(c) = VarintSize(PackedSize(f, t))
    BY <1>3, HeaderIs, OnWireIs DEF WriteTag
  <1>9. /\ e = Len(b \o c) /\ \A i \in 1 .. e : whole[i] = (b \o c)[i]
    <2>1. \A i \in 1 .. e : whole[i] = OnWire(f, t, TRUE, 0)[i]
      BY <1>3, EndIs
    <2>2. QED
      BY <1>8, <2>1, Zenon DEF End
  <1> HIDE DEF b, c, size, e, whole, N, left, tag
  <1>10. /\ Len(b \o c) = Len(b) + Len(c) /\ Len(c) \in Nat /\ Len(b) \in Nat
         /\ \A i \in 1 .. Len(b) : (b \o c)[i] = b[i]
    BY <1>8, Joined
  <1>11. e >= size
    BY <1>8, <1>9, <1>10
  <1>12. Begins(in, b)
    <2>1. ASSUME NEW i \in 1 .. Len(b) PROVE in.buffer[in.position + i] = b[i]
      <3>1. i \in 1 .. e /\ in.position + i = i
        BY <1>3, <1>8, <1>11
      <3>2. QED
        BY <1>2, <1>9, <1>10, <3>1, Zenon
    <2>2. in.position <= in.limit /\ in.limit <= Len(in.buffer)
      BY <1>2
    <2>3. QED
      BY <2>1, <2>2 DEF Begins
  <1>13. L < e \/ L = 0 => LastRead(f, t, TRUE, 0, L)
    <2>1. ASSUME L < e \/ L = 0, 0 < N PROVE L < End(f, t, TRUE, 1)
      <3>1. e < End(f, t, TRUE, 1) /\ End(f, t, TRUE, 1) \in Nat
        BY <1>3, <2>1, FirstEnd DEF e, N
      <3>2. QED
        BY <1>3, <2>1, <3>1, Between, Zenon
    <2>2. 0 + 1 = 1 /\ ~ (0 > 0)
      OBVIOUS
    <2>3. QED
      BY <1>3, <2>1, <2>2 DEF LastRead, N
  <1>14. /\ tagged \in Stream /\ tagged.buffer = in.buffer /\ tagged.limit = in.limit
         /\ IF size <= left /\ left # 0
            THEN tagged.ok /\ tagged.last_tag = tag /\ tagged.position = in.position + size
            ELSE tagged.last_tag = 0
    BY <1>2, <1>6, <1>12, ReadTagIs DEF left, size, b
  <1>15. u = IF tagged.last_tag = 0 THEN AtStart(l, Failed(tagged))
             ELSE IF tagged.last_tag = PlainTag(f, t)
             THEN ReadRepeatedPrimitive(l, tagged, PlainTag(f, t), t)
             ELSE ReadPackedPrimitive(l, tagged, t)
    BY <1>1, <1>2, Zenon DEF ParserTurn
  <1> HIDE DEF tagged, u
  <1>16. CASE size <= left
    <2>1. left # 0
      BY <1>4, <1>6, <1>16
    <2>2. tagged.ok /\ tagged.last_tag = tag /\ tagged.position = size /\ tagged.position <= L
      <3>1. tagged.ok /\ tagged.last_tag = tag /\ tagged.position = in.position + size
        BY <1>14, <1>16, <2>1, Zenon
      <3>2. in.position + size = size /\ size <= L
        BY <1>4, <1>6, <1>16
      <3>3. QED
        BY <3>1, <3>2, Zenon
    <2>3. u = ReadPackedPrimitive(l, tagged, t)
      BY <1>6, <1>7, <1>15, <2>2
    <2>4. Within(tagged, f, t, TRUE, L)
      BY <1>2, <1>14, <2>2, Zenon DEF Within, whole
    <2>5. tagged.position = VarintSize(MakeTag(f, WIRETYPE_LENGTH_DELIMITED))
      BY <2>2, Zenon DEF size, tag
    <2>6. L > 0
      BY <1>4, <2>1
    <2>7. \/ \E k : Reached(u, base, f, t, TRUE, k, L) /\ End(f, t, TRUE, k) = L
          \/ Ended(u, base, f, t, TRUE, L)
      BY <2>3, <2>4, <2>5, ReadPackedIs
    <2>8. QED
      BY <2>6, <2>7 DEF u
  <1>17. CASE ~ (size <= left)
    <2>1. tagged.last_tag = 0
      BY <1>14, <1>17, Zenon
    <2>2. u = AtStart(l, Failed(tagged))
      BY <1>15, <2>1, Zenon
    <2>3. ~ Failed(tagged).ok
      BY <1>14, FailedIs
    <2>4. u = [list |-> u.list, in |-> u.in] /\ u.list = l /\ ~ u.in.ok
      BY <2>2, <2>3 DEF AtStart
    <2>5. L < e
      BY <1>3, <1>4, <1>6, <1>11, <1>17
    <2>6. Ended(u, base, f, t, TRUE, L)
      BY <1>5, <1>13, <2>4, <2>5, Zenon DEF Ended
    <2>7. QED
      BY <2>6 DEF u
  <1>18. QED
    BY <1>16, <1>17

LEMMA LimitedInput ==
  \A b \in Seq(Nat), n \in Nat : LET in == [Input(b) EXCEPT !.limit = n]
                               IN  /\ in.buffer = b /\ in.position = 0 /\ in.limit = n
                                   /\ in.ok /\ in \in Stream
  <1> TAKE b \in Seq(Nat), n \in Nat
  <1> DEFINE whole == Input(b)
             in == [whole EXCEPT !.limit = n]
  <1>1. whole.buffer = b /\ whole.position = 0 /\ whole.ok /\ whole \in Stream
    <2>1. Len(b) \in Nat
      BY LenProperties
    <2>2. QED
      BY <2>1 DEF Input, Stream
  <1> HIDE DEF whole
  <1>2. /\ in.buffer = b /\ in.position = 0 /\ in.limit = n /\ in.ok
        /\ in \in Stream
    BY <1>1 DEF Stream
  <1>3. QED
    BY <1>2 DEF whole

(* All turns: the numbers that end before the limit, and no other. *)
LEMMA ReadListIs ==
  ASSUME NEW f \in FieldNumbers, NEW t \in ListTypes, NEW p \in BOOLEAN,
         NEW L \in 0 .. Len(All(f, t, p)), NEW base \in Seq(Kept),
         NEW l, IsList(l, base)
  PROVE  LET in == [Input(All(f, t, p)) EXCEPT !.limit = L]
         IN  \E k : LastRead(f, t, p, k, L) /\ IsList(ReadList(l, in, f, t), With(base, k))
  <1> DEFINE in == [Input(All(f, t, p)) EXCEPT !.limit = L]
             N == Len(Sent)
             E(k) == End(f, t, p, k)
             left == BytesUntilLimit(in)
             whole == All(f, t, p)
  <1>1. /\ N \in Nat /\ 0 \in 0 .. N /\ whole \in Seq(Nat) /\ Len(whole) \in Nat
        /\ \A k \in 0 .. N : E(k) \in Nat
        /\ L \in Nat /\ L <= Len(whole)
    <2>1. whole \in Seq(Nat) /\ N \in Nat /\ \A k \in 0 .. N : E(k) \in Nat
      BY EndIs
    <2>2. Len(whole) \in Nat
      BY <2>1, LenProperties
    <2> HIDE DEF whole, E, N
    <2>3. L \in 0 .. Len(whole)
      BY DEF whole
    <2>4. QED
      BY <2>1, <2>2, <2>3
  <1>2. \A k \in 0 .. N : E(k) >= k
    <2>1. \A j, k \in 0 .. N : j <= k => E(k) >= E(j) + (k - j)
      BY EndIs
    <2> HIDE DEF E, N
    <2>2. ASSUME NEW k \in 0 .. N PROVE E(k) >= k
      <3>1. E(k) >= E(0) + (k - 0)
        BY <1>1, <2>1
      <3>2. E(k) \in Nat /\ E(0) \in Nat /\ k \in Nat
        BY <1>1
      <3>3. QED
        BY <3>1, <3>2
    <2>3. QED
      BY <2>2
  <1>3. in.position = 0 /\ in.limit = L /\ Within(in, f, t, p, L)
    <2>0. in = [Input(whole) EXCEPT !.limit = L]
      OBVIOUS
    <2> HIDE DEF whole, in
    <2>1. /\ in.buffer = whole /\ in.position = 0 /\ in.limit = L /\ in.ok
          /\ in \in Stream
      BY <1>1, <2>0, LimitedInput, Zenon
    <2>2. in.position <= L
      BY <1>1, <2>1
    <2>3. QED
      BY <1>1, <2>1, <2>2, Zenon DEF Within, whole
  <1>4. left = L
    <2> HIDE DEF in
    <2>1. QED
      BY <1>1, <1>3 DEF BytesUntilLimit
  <1> HIDE DEF in, left
  <1>5. PICK g : IsParse(g, l, in, f, t)
    BY <1>1, <1>4, ParserTurns DEF left
  <1>6. /\ g[0] = AtStart(l, in) /\ ReadList(l, in, f, t) = g[L + 1].list
        /\ \A n \in 0 .. L : g[n + 1] = ParserTurn(g[n], f, t)
    BY <1>4, <1>5 DEF IsParse, left
  <1> DEFINE There(n, k) == /\ Reached(g[n], base, f, t, p, k, L)
                            /\ \/ ~ p /\ k >= n
                               \/ p /\ n = 1 /\ L > 0 /\ E(k) = L
             Done(n) == Ended(g[n], base, f, t, p, L)
             S == {m \in Nat : m <= L => (\E k : There(m + 1, k)) \/ Done(m + 1)}
  <1>7. 0 \in S
    <2>1. g[1] = ParserTurn(g[0], f, t)
      <3>1. 0 \in 0 .. L /\ 0 + 1 = 1
        BY <1>1
      <3>2. QED
        BY <1>6, <3>1
    <2>2. CASE p
      <3>1. p = TRUE
        BY <2>2
      <3> DEFINE u == ParserTurn(AtStart(l, in), f, t)
      <3>2. \/ L > 0 /\ \E k : Reached(u, base, f, t, TRUE, k, L) /\ End(f, t, TRUE, k) = L
            \/ Ended(u, base, f, t, TRUE, L)
        BY <1>1, <1>3, <3>1, ParserPackedIs
      <3>3. g[1] = u
        BY <1>6, <2>1, Zenon
      <3> HIDE DEF u
      <3>4. (\E k : There(1, k)) \/ Done(1)
        BY <2>2, <3>1, <3>2, <3>3, Zenon
      <3> HIDE DEF There, Done
      <3>5. QED
        BY <3>4
    <2>3. CASE ~ p
      <3>1. p = FALSE
        BY <2>3
      <3>2. E(0) = 0
        <4>1. OnWire(f, t, p, 0) = <<>>
          BY <3>1, HeaderIs, OnWireIs
        <4>2. QED
          BY <4>1, EmptySeq DEF End
      <3>3. At(in, f, t, p, 0, L)
        BY <1>1, <1>3, <3>2 DEF At
      <3>4. Reached(AtStart(l, in), base, f, t, FALSE, 0, L)
        BY <3>1, <3>3, WithIs DEF Reached, AtStart
      <3> DEFINE u == ParserTurn(AtStart(l, in), f, t)
      <3>5. \/ \E j \in 0 + 1 .. Len(Sent) : Reached(u, base, f, t, FALSE, j, L)
            \/ Ended(u, base, f, t, FALSE, L)
        BY <1>1, <3>4, ParserRowIs
      <3>6. g[1] = u /\ \A j \in 0 + 1 .. Len(Sent) : j >= 1
        BY <1>6, <2>1
      <3> HIDE DEF u
      <3>7. (\E k : There(1, k)) \/ Done(1)
        BY <2>3, <3>1, <3>5, <3>6, Zenon
      <3> HIDE DEF There, Done
      <3>8. QED
        BY <3>7
    <2>4. QED
      BY <2>2, <2>3
  <1>8. ASSUME NEW m \in Nat, m \in S PROVE m + 1 \in S
    <2> HIDE DEF There, Done
    <2> DEFINE n == m + 1
    <2> SUFFICES ASSUME n <= L PROVE (\E k : There(n + 1, k)) \/ Done(n + 1)
      OBVIOUS
    <2>1. (\E k : There(n, k)) \/ Done(n)
      BY <1>1, <1>8
    <2>2. n \in 0 .. L /\ n \in Nat
      BY <1>1
    <2> HIDE DEF n
    <2>3. g[n + 1] = ParserTurn(g[n], f, t)
      BY <1>6, <2>2
    <2>4. CASE Done(n)
      <3>1. g[n + 1] = g[n]
        BY <2>3, <2>4 DEF ParserTurn, Ended, Done
      <3>2. QED
        BY <2>4, <3>1 DEF Done
    <2>5. ASSUME NEW k, There(n, k)
          PROVE  (\E j : There(n + 1, j)) \/ Done(n + 1)
      <3>1. /\ Reached(g[n], base, f, t, p, k, L)
            /\ (~ p /\ k >= n) \/ (p /\ E(k) = L)
        BY <2>5 DEF There
      <3>2. CASE E(k) = L
        <4>1. Ended(ParserTurn(g[n], f, t), base, f, t, p, L)
          BY <1>1, <3>1, <3>2, ParserEnds
        <4>2. QED
          BY <2>3, <4>1 DEF Done
      <3>3. CASE ~ p /\ k >= n
        <4>1. p = FALSE
          BY <3>3
        <4> DEFINE u == ParserTurn(g[n], f, t)
        <4>2. Reached(g[n], base, f, t, FALSE, k, L)
          BY <3>1, <4>1
        <4>3. \/ \E j \in k + 1 .. Len(Sent) : Reached(u, base, f, t, FALSE, j, L)
              \/ Ended(u, base, f, t, FALSE, L)
          BY <1>1, <4>2, ParserRowIs
        <4>4. g[n + 1] = u
          BY <2>3
        <4>5. k \in Nat
          BY <1>1, <3>1 DEF Reached, At
        <4>6. \A j \in k + 1 .. Len(Sent) : j >= n + 1
          BY <2>2, <3>3, <4>5
        <4> HIDE DEF u
        <4>7. QED
          BY <3>3, <4>1, <4>3, <4>4, <4>6, Zenon DEF There, Done
      <3>4. QED
        BY <3>1, <3>2, <3>3
    <2>6. QED
      BY <2>1, <2>4, <2>5
  <1>9. L \in S
    BY <1>1, <1>7, <1>8, SetInduction
  <1>10. (\E k : There(L + 1, k)) \/ Done(L + 1)
    <2> HIDE DEF There, Done
    <2>1. QED
      BY <1>1, <1>9
  <1>11. ASSUME NEW k, There(L + 1, k) PROVE FALSE
    <2>1. Reached(g[L + 1], base, f, t, p, k, L)
      BY <1>11
    <2>2. k >= L + 1 \/ (L + 1 = 1 /\ L > 0)
      BY <1>11
    <2>3. k \in 0 .. N /\ E(k) <= L
      BY <2>1 DEF Reached, At, Within
    <2> HIDE DEF E, N
    <2>4. E(k) >= k /\ E(k) \in Nat /\ k \in Nat
      BY <1>1, <1>2, <2>3
    <2>5. QED
      BY <1>1, <2>2, <2>3, <2>4
  <1>12. Done(L + 1)
    BY <1>10, <1>11
  <1>13. QED
    BY <1>6, <1>12, Zenon DEF Ended, in

LEMMA CountIs ==
  ASSUME NEW f \in FieldNumbers, NEW t \in ListTypes, NEW p \in BOOLEAN, NEW L \in Nat,
         NEW k, LastRead(f, t, p, k, L)
  PROVE  Cardinality({j \in 1 .. Len(Sent) : Len(OnWire(f, t, p, j)) <= L}) = k
  <1> DEFINE N == Len(Sent)
             E(j) == End(f, t, p, j)
             whole == {j \in 1 .. N : E(j) <= L}
  <1>1. /\ N \in Nat /\ \A j \in 0 .. N : E(j) \in Nat
        /\ \A i, j \in 0 .. N : i <= j => E(j) >= E(i) + (j - i)
    BY EndIs
  <1>2. k \in 0 .. N /\ (k > 0 => E(k) <= L) /\ (k < N => L < E(k + 1))
    BY DEF LastRead
  <1>3. {j \in 1 .. N : Len(OnWire(f, t, p, j)) <= L} = whole
    BY DEF End
  <1> HIDE DEF N, E
  <1>4. ASSUME NEW j \in 1 .. N PROVE E(j) <= L <=> j <= k
    <2>1. j \in 0 .. N /\ E(j) \in Nat
      BY <1>1
    <2>2. CASE j <= k
      <3>1. E(k) >= E(j) + (k - j) /\ E(k) \in Nat /\ E(k) <= L
        BY <1>1, <1>2, <2>1, <2>2
      <3>2. QED
        BY <1>2, <2>1, <2>2, <3>1
    <2>3. CASE ~ (j <= k)
      <3>1. k + 1 \in 0 .. N /\ k + 1 <= j /\ k < N
        BY <1>1, <1>2, <2>3
      <3>2. E(j) >= E(k + 1) + (j - (k + 1)) /\ E(k + 1) \in Nat /\ L < E(k + 1)
        BY <1>1, <1>2, <2>1, <3>1
      <3>3. QED
        BY <1>2, <2>1, <2>3, <3>1, <3>2
    <2>4. QED
      BY <2>2, <2>3
  <1>5. whole = 1 .. k
    BY <1>1, <1>2, <1>4
  <1>6. Cardinality(1 .. k) = k
    <2>1. k \in Int /\ 1 \in Int
      BY <1>2
    <2>2. Cardinality(1 .. k) = IF 1 > k THEN 0 ELSE k - 1 + 1
      BY <2>1, FS_Interval
    <2>3. QED
      BY <1>2, <2>2
  <1>7. QED
    BY <1>3, <1>5, <1>6, Zenon DEF N

LEMMA ListReadKeeps ==
    ASSUME ListsInv, NEW l \in NumberList, NEW f \in FieldNumbers, NEW t \in ListTypes,
           NEW p \in BOOLEAN, NEW L \in 0 .. Len(All(f, t, p)), Read(l, f, t, p, L)
    PROVE  ListsInv'
  <1> DEFINE in == [Input(All(f, t, p)) EXCEPT !.limit = L]
             got == ReadList(field[l], in, f, t)
             count == Cardinality({j \in 1 .. Len(Sent) : Len(OnWire(f, t, p, j)) <= L})
  <1>1. IsList(field[l], meant[l]) /\ meant[l] \in Seq(Kept)
    BY DEF ListsInv
  <1>2. \E k : LastRead(f, t, p, k, L) /\ IsList(got, With(meant[l], k))
    BY <1>1, ReadListIs
  <1>3. L \in Nat
    OBVIOUS
  <1>4. \A k : LastRead(f, t, p, k, L) => count = k
    BY <1>3, CountIs
  <1> HIDE DEF count
  <1>5. IsList(got, With(meant[l], count))
    BY <1>2, <1>4
  <1>6. Becomes(l, got, With(meant[l], count))
    BY Zenon DEF Read, With, count
  <1>7. QED
    BY <1>5, <1>6, BecomesKeeps

\* Reads off the wire keep what the calls keep (wire_format_lite_inl.h:223-340).
THEOREM ListReadsInductive == ListsInv /\ [NumberListsNext]_lvars => ListsInv'
  <1> SUFFICES ASSUME ListsInv, [NumberListsNext]_lvars
               PROVE  ListsInv'
    OBVIOUS
  <1>1. CASE RepeatedFieldNext
    BY <1>1, ListsInductive
  <1>2. ASSUME NEW f \in FieldNumbers, NEW t \in ListTypes, NEW p \in BOOLEAN,
               NEW L \in 0 .. Len(All(f, t, p)), NEW l \in NumberList, Read(l, f, t, p, L)
        PROVE  ListsInv'
    BY <1>2, ListReadKeeps
  <1>3. CASE UNCHANGED lvars
    BY <1>3, ListsInductive
  <1>4. QED
    BY <1>1, <1>2, <1>3 DEF NumberListsNext

\* The same holds when messages off the wire are read into the lists too: of a
\* message cut off anywhere, a number in a row or packed is added when it is
\* whole, and never when it is not (wire_format_lite_inl.h:223-340).
THEOREM ListReadsSound == NumberListsSpec => []ListsAreAsMeant
  BY ListsInit, ListsInvIs, ListReadsInductive, PTL DEF NumberListsSpec

=============================================================================
